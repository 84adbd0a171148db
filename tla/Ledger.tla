------------------------------- MODULE Ledger -------------------------------
(***************************************************************************)
(* Balances: the genesis allocation, and transactions that deduct their    *)
(* maximum fee, run an action (a transfer, or one that moves no balance)   *)
(* and refund what was not used.  The order deduct, execute or roll back,  *)
(* refund is the chain's (external); what each does to a balance record is *)
(* storage.go.  Transactions that touch one account are serialized by the  *)
(* state keys they declare, so each is one step.                           *)
(***************************************************************************)
EXTENDS Integers, Sequences, FiniteSetsExt

CONSTANTS
  Accounts,
  MaxUint64,     \* 2^64 - 1 in the program
  Allocations,   \* the genesis allocations: sequences of an account and a balance
  Values,        \* the values a transfer may carry: the codec refuses 0
  Fees           \* the fees, and maximum fees, a transaction may have

Allocation == [acct : Accounts, bal : 0 .. MaxUint64]

\* An address is 33 bytes, so there are finitely many.
ASSUME AccountsAssumption == IsFiniteSet(Accounts)
ASSUME LedgerAssumption ==
  /\ MaxUint64 \in Nat
  /\ Allocations \subseteq Seq(Allocation)
  /\ Values \subseteq 1 .. MaxUint64
  /\ Fees \subseteq 1 .. MaxUint64

VARIABLES
  balance,  \* BalanceKey records
  burned,   \* history: fees kept, and refunds dropped
  supply    \* history: what genesis put on the chain

vars == <<balance, burned, supply>>

NoRecord == -1

-----------------------------------------------------------------------------
(* storage.go, on a set of balance records b                               *)

\* getBalance: 0 if there is no record.
Balance(b, a) == IF b[a] = NoRecord THEN 0 ELSE b[a]

\* AddBalance: nothing happens to a missing account unless it may be created.
CanAdd(b, a, amount, create) ==
  \/ b[a] = NoRecord /\ ~create
  \/ Balance(b, a) + amount <= MaxUint64
AddBalance(b, a, amount, create) ==
  IF b[a] = NoRecord /\ ~create THEN b
  ELSE [b EXCEPT ![a] = Balance(b, a) + amount]

\* Mutant: an empty balance is stored.
SubBalance_Zero(b, a, amount) == [b EXCEPT ![a] = Balance(b, a) - amount]

\* SubBalance: the record is removed rather than set to 0.
CanSub(b, a, amount) == amount <= Balance(b, a)
SubBalance(b, a, amount) ==
  [b EXCEPT ![a] = IF Balance(b, a) = amount THEN NoRecord ELSE Balance(b, a) - amount]

Total(b) == MapThenSumSet(LAMBDA a : Balance(b, a), Accounts)

-----------------------------------------------------------------------------
(* StateManager                                                            *)

\* Mutant: a refund creates the account again.
Refund_Create(b, a, amount) == AddBalance(b, a, amount, TRUE)

CanDeduct(b, a, amount)    == amount <= Balance(b, a)
Deduct(b, a, amount)       == SubBalance(b, a, amount)
CanRefund(b, a, amount)    == CanAdd(b, a, amount, FALSE)
Refund(b, a, amount)       == AddBalance(b, a, amount, FALSE)

\* Mutant: the receiver pays.
Transfer_Swapped(b, from, to, value) ==
  IF CanSub(b, to, value) /\ CanAdd(SubBalance(b, to, value), from, value, TRUE)
  THEN AddBalance(SubBalance(b, to, value), from, value, TRUE)
  ELSE b

\* Transfer.Execute: on any failure the chain restores b.
Transfer(b, from, to, value) ==
  IF CanSub(b, from, value) /\ CanAdd(SubBalance(b, from, value), to, value, TRUE)
  THEN AddBalance(SubBalance(b, from, value), to, value, TRUE)
  ELSE b

-----------------------------------------------------------------------------
\* A transaction of sponsor a that costs fee of the maxFee it signed for, and
\* whose action takes the deducted balances to after.
Pay(a, maxFee, fee, after) ==
  /\ CanDeduct(balance, a, maxFee)
  /\ fee <= maxFee /\ CanRefund(after, a, maxFee - fee)
  /\ balance' = IF fee = maxFee THEN after ELSE Refund(after, a, maxFee - fee)
  /\ burned' = burned + (IF after[a] = NoRecord THEN maxFee ELSE fee)
  /\ UNCHANGED supply

PayForTransfer(a, to, value, maxFee, fee) ==
  Pay(a, maxFee, fee, Transfer(Deduct(balance, a, maxFee), a, to, value))

\* Every other action leaves balances alone.
PayForOther(a, maxFee, fee) == Pay(a, maxFee, fee, Deduct(balance, a, maxFee))

-----------------------------------------------------------------------------
(* Genesis.Load                                                            *)

\* supply, the sum Load checks for overflow: repeated accounts count each time.
SumOf(alloc) == MapThenSumSet(LAMBDA i : alloc[i].bal, 1 .. Len(alloc))

\* SetBalance in order: the last allocation of an account stands, 0 included.
Loaded(alloc) ==
  [a \in Accounts |->
    LET mine == {i \in 1 .. Len(alloc) : alloc[i].acct = a}
    IN  IF mine = {} THEN NoRecord ELSE alloc[Max(mine)].bal]

\* Mutant: the supply is not bounded.
Load_Unbounded(alloc) ==
  /\ balance = Loaded(alloc)
  /\ supply = Total(Loaded(alloc))

\* A Load that fails leaves no chain to speak of.
Load(alloc) ==
  /\ SumOf(alloc) <= MaxUint64
  /\ balance = Loaded(alloc)
  /\ supply = Total(Loaded(alloc))

Init ==
  /\ \E alloc \in Allocations : Load(alloc)
  /\ burned = 0

Next ==
  \/ \E a, to \in Accounts, value \in Values, maxFee, fee \in Fees :
       PayForTransfer(a, to, value, maxFee, fee)
  \/ \E a \in Accounts, maxFee, fee \in Fees : PayForOther(a, maxFee, fee)

Spec == Init /\ [][Next]_vars

-----------------------------------------------------------------------------
(* Properties                                                              *)

TypeOK ==
  /\ balance \in [Accounts -> (0 .. MaxUint64) \cup {NoRecord}]
  /\ burned \in Nat /\ supply \in 0 .. MaxUint64

\* Balances only move or burn: over deductions, roll-backs, transfers to oneself,
\* removed records and dropped refunds, what is on the chain and what was burned
\* add up to the genesis supply.
Conservation == Total(balance) + burned = supply

\* Since Genesis.Load bounds the supply, no credit of a payable transaction can
\* overflow: a covered transfer never fails for the receiver's sake, and no
\* refund fails, which would make an otherwise valid block invalid.
CreditsFit ==
  \A a, to \in Accounts, value \in Values, maxFee \in Fees :
    CanDeduct(balance, a, maxFee) =>
      LET b     == Deduct(balance, a, maxFee)
          after == Transfer(b, a, to, value)
      IN  /\ CanSub(b, a, value) => CanAdd(SubBalance(b, a, value), to, value, TRUE)
          /\ CanRefund(after, a, maxFee) /\ CanRefund(b, a, maxFee)

\* A record of 0 is never left behind by a transaction: only an account that
\* genesis gave 0 and nobody has paid may have one.
NoNewZeroRecord ==
  [][\A a \in Accounts : balance'[a] = 0 => balance[a] = 0]_vars

\* An account is never charged more than it signed for: a transaction takes at
\* most its value and maximum fee from one account, and nothing from the others.
OnePayer ==
  [][\A a, b \in Accounts :
       balance'[a] < balance[a] /\ balance'[b] < balance[b] => a = b]_vars
=============================================================================
