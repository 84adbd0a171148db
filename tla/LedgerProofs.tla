---------------------------- MODULE LedgerProofs ----------------------------
(***************************************************************************)
(* Theorems about Ledger, for every set of accounts, largest balance,      *)
(* genesis allocation, value and fee.                                      *)
(*                                                                         *)
(* LedgerInv, that every record is one storage.go can hold and that what   *)
(* is on the chain and what was burned add up, is inductive.  That no      *)
(* credit overflows follows from it.  The two action properties need the   *)
(* shape of the records only.                                              *)
(***************************************************************************)
EXTENDS Ledger, Sums

\* The balance records that storage.go can hold.
Records == [Accounts -> (0 .. MaxUint64) \cup {NoRecord}]

\* What each account has, as a function.
Holdings(b) == [a \in Accounts |-> Balance(b, a)]

\* An account has a uint64.
LEMMA HoldingsType ==
  ASSUME NEW b, b \in Records
  PROVE  Holdings(b) \in [Accounts -> 0 .. MaxUint64]
BY LedgerAssumption DEF Records, Holdings, Balance, NoRecord

\* Total folds over the records; it is the sum of what the accounts have.
LEMMA TotalIsSum ==
  ASSUME NEW b, b \in Records
  PROVE  Total(b) = Sum(Holdings(b), Accounts)
<1> DEFINE w == Holdings(b)
           P(h) == h = [s \in SUBSET Accounts |->
                          IF s = {} THEN 0 ELSE Balance(b, Pick(s)) + h[s \ {Pick(s)}]]
<1>1. w \in [Accounts -> Int]
  BY HoldingsType
<1>2. ASSUME NEW s \in SUBSET Accounts, s # {} PROVE Balance(b, Pick(s)) = w[Pick(s)]
  BY <1>2, PickIn DEF Holdings
<1>3. \A h : P(h) <=> IsSum(h, w, Accounts)
  <2> HIDE DEF w
  <2> QED BY <1>2 DEF IsSum
<1>4. \E h : P(h)
  <2> HIDE DEF P, w
  <2> QED BY <1>1, <1>3, AccountsAssumption, SumExists
<1>5. P(CHOOSE h : P(h))
  <2> HIDE DEF P
  <2> QED BY <1>4
<1>6. Total(b) = (CHOOSE h : P(h))[Accounts]
  BY DEF Total, MapThenSumSet, MapThenFoldSet, Pick
<1>7. IsSum(CHOOSE h : P(h), w, Accounts)
  <2> HIDE DEF P, w
  <2> QED BY <1>3, <1>5
<1> HIDE DEF P, w
<1>8. Sum(w, Accounts) = (CHOOSE h : P(h))[Accounts]
  BY <1>7, AccountsAssumption, SumIs
<1> QED BY <1>6, <1>8 DEF w

\* No account has more than there is.
LEMMA TotalBounds ==
  ASSUME NEW b, b \in Records
  PROVE  Total(b) \in Nat /\ \A a \in Accounts : Balance(b, a) <= Total(b)
<1> DEFINE w == Holdings(b)
<1>1. w \in [Accounts -> Nat]
  BY HoldingsType
<1> HIDE DEF w
<1>2. Sum(w, Accounts) \in Nat
  BY <1>1, AccountsAssumption, SumNat
<1>3. \A a \in Accounts : w[a] <= Sum(w, Accounts)
  BY <1>1, AccountsAssumption, TermInSum
<1> QED BY <1>2, <1>3, TotalIsSum DEF w, Holdings

\* One record changes, and the total with it.
LEMMA TotalChange ==
  ASSUME NEW b, b \in Records, NEW c, c \in Records, NEW a \in Accounts,
         \A x \in Accounts \ {a} : c[x] = b[x]
  PROVE  Total(c) = Total(b) + Balance(c, a) - Balance(b, a)
<1> DEFINE w == Holdings(b)
           v == Holdings(c)
<1>1. w \in [Accounts -> Int] /\ v \in [Accounts -> Int]
  BY HoldingsType
<1>2. \A x \in Accounts \ {a} : v[x] = w[x]
  BY DEF Holdings, Balance
<1>3. w[a] = Balance(b, a) /\ v[a] = Balance(c, a)
  BY DEF Holdings
<1> HIDE DEF w, v
<1>4. Sum(v, Accounts) = Sum(w, Accounts) + v[a] - w[a]
  BY <1>1, <1>2, AccountsAssumption, SumUpdate
<1> QED BY <1>3, <1>4, TotalIsSum DEF w, v

\* SubBalance takes amount from one account and from the total.
LEMMA SubKeeps ==
  ASSUME NEW b, b \in Records, NEW a \in Accounts, NEW amount \in Nat, CanSub(b, a, amount)
  PROVE  LET c == SubBalance(b, a, amount)
         IN  /\ c \in Records
             /\ \A x \in Accounts \ {a} : c[x] = b[x]
             /\ Balance(c, a) = Balance(b, a) - amount
             /\ Total(c) = Total(b) - amount
<1> DEFINE c == SubBalance(b, a, amount)
<1>1. Balance(b, a) \in 0 .. MaxUint64 /\ Balance(b, a) - amount \in 0 .. MaxUint64
  BY LedgerAssumption DEF Records, Balance, NoRecord, CanSub
<1>2. c = [b EXCEPT ![a] = IF Balance(b, a) = amount THEN NoRecord ELSE Balance(b, a) - amount]
  BY DEF SubBalance
<1>3. c \in Records /\ \A x \in Accounts \ {a} : c[x] = b[x]
  BY <1>1, <1>2 DEF Records
<1>4. c[a] = IF Balance(b, a) = amount THEN NoRecord ELSE Balance(b, a) - amount
  BY <1>2 DEF Records
<1>5. Balance(c, a) = Balance(b, a) - amount
  BY <1>1, <1>4 DEF Balance, NoRecord
<1>6. Total(c) = Total(b) + Balance(c, a) - Balance(b, a)
  <2> HIDE DEF c
  <2> QED BY <1>3, TotalChange
<1>7. Total(b) \in Nat
  BY TotalBounds
<1> QED BY <1>1, <1>3, <1>5, <1>6, <1>7

\* AddBalance adds amount to one account and to the total, or, for a missing
\* account that it may not create, nothing.
LEMMA AddKeeps ==
  ASSUME NEW b, b \in Records, NEW a \in Accounts, NEW amount \in Nat,
         NEW create \in BOOLEAN, CanAdd(b, a, amount, create)
  PROVE  LET c == AddBalance(b, a, amount, create)
             added == IF b[a] = NoRecord /\ ~create THEN 0 ELSE amount
         IN  /\ c \in Records
             /\ \A x \in Accounts \ {a} : c[x] = b[x]
             /\ c[a] = IF b[a] = NoRecord /\ ~create THEN NoRecord ELSE Balance(b, a) + amount
             /\ Total(c) = Total(b) + added
<1> DEFINE c == AddBalance(b, a, amount, create)
<1>1. CASE b[a] = NoRecord /\ ~create
  <2>1. c = b
    BY <1>1 DEF AddBalance
  <2>2. Total(b) \in Nat
    BY TotalBounds
  <2> QED BY <1>1, <2>1, <2>2
<1>2. CASE ~ (b[a] = NoRecord /\ ~create)
  <2>1. Balance(b, a) \in 0 .. MaxUint64 /\ Balance(b, a) + amount \in 0 .. MaxUint64
    BY <1>2, LedgerAssumption DEF Records, Balance, NoRecord, CanAdd
  <2>2. c = [b EXCEPT ![a] = Balance(b, a) + amount]
    BY <1>2 DEF AddBalance
  <2>3. c \in Records /\ (\A x \in Accounts \ {a} : c[x] = b[x]) /\ c[a] = Balance(b, a) + amount
    BY <2>1, <2>2 DEF Records
  <2>4. Balance(c, a) = Balance(b, a) + amount
    BY <2>1, <2>3 DEF Balance, NoRecord
  <2>5. Total(c) = Total(b) + Balance(c, a) - Balance(b, a)
    <3> HIDE DEF c
    <3> QED BY <2>3, TotalChange
  <2>6. Total(b) \in Nat
    BY TotalBounds
  <2> HIDE DEF c
  <2>7. Total(c) = Total(b) + amount
    BY <2>1, <2>4, <2>5, <2>6
  <2> QED BY <1>2, <2>3, <2>7 DEF c
<1> QED BY <1>1, <1>2

\* Transfer.Execute moves value, or nothing.
LEMMA TransferKeeps ==
  ASSUME NEW b, b \in Records, NEW a \in Accounts, NEW to \in Accounts,
         NEW value \in Nat
  PROVE  LET c == Transfer(b, a, to, value)
         IN  c \in Records /\ Total(c) = Total(b)
<1> DEFINE s == SubBalance(b, a, value)
           c == AddBalance(s, to, value, TRUE)
<1>1. Total(b) \in Nat
  BY TotalBounds
<1>2. CASE CanSub(b, a, value) /\ CanAdd(s, to, value, TRUE)
  <2>1. s \in Records /\ Total(s) = Total(b) - value
    BY <1>2, SubKeeps
  <2>2. c \in Records /\ Total(c) = Total(s) + value
    <3> HIDE DEF s
    <3> QED BY <1>2, <2>1, AddKeeps
  <2>3. Transfer(b, a, to, value) = c
    BY <1>2 DEF Transfer
  <2> HIDE DEF s, c
  <2> QED BY <1>1, <2>1, <2>2, <2>3
<1>3. CASE ~ (CanSub(b, a, value) /\ CanAdd(s, to, value, TRUE))
  BY <1>3 DEF Transfer
<1> QED BY <1>2, <1>3

-----------------------------------------------------------------------------
(* Genesis                                                                 *)

\* The supply that Load checks is the sum over the allocation's positions.
LEMMA SupplyIsSum ==
  ASSUME NEW alloc \in Seq(Allocation)
  PROVE  /\ IsFiniteSet(1 .. Len(alloc))
         /\ [i \in 1 .. Len(alloc) |-> alloc[i].bal] \in [1 .. Len(alloc) -> Nat]
         /\ SumOf(alloc) = Sum([i \in 1 .. Len(alloc) |-> alloc[i].bal], 1 .. Len(alloc))
<1> DEFINE I == 1 .. Len(alloc)
           u == [i \in I |-> alloc[i].bal]
           P(h) == h = [s \in SUBSET I |->
                          IF s = {} THEN 0 ELSE alloc[Pick(s)].bal + h[s \ {Pick(s)}]]
<1>1. IsFiniteSet(I)
  <2>1. Len(alloc) \in Int
    OBVIOUS
  <2> QED BY <2>1, FS_Interval
<1>2. u \in [I -> Nat]
  <2>1. \A i \in I : alloc[i] \in Allocation
    OBVIOUS
  <2>2. \A i \in I : alloc[i].bal \in Nat
    BY <2>1, LedgerAssumption DEF Allocation
  <2> QED BY <2>2
<1>3. u \in [I -> Int]
  <2> HIDE DEF u, I
  <2> QED BY <1>2
<1>4. ASSUME NEW s \in SUBSET I, s # {} PROVE alloc[Pick(s)].bal = u[Pick(s)]
  <2>1. Pick(s) \in I
    BY <1>4, PickIn
  <2> QED BY <2>1
<1>5. \A h : P(h) <=> IsSum(h, u, I)
  <2> HIDE DEF u, I
  <2> QED BY <1>4 DEF IsSum
<1>6. SumOf(alloc) = (CHOOSE h : P(h))[I]
  BY DEF SumOf, MapThenSumSet, MapThenFoldSet, Pick
<1> HIDE DEF P, u, I
<1>7. \E h : P(h)
  BY <1>1, <1>3, <1>5, SumExists
<1>8. P(CHOOSE h : P(h))
  BY <1>7
<1>9. Sum(u, I) = (CHOOSE h : P(h))[I]
  BY <1>1, <1>5, <1>8, SumIs
<1> QED BY <1>1, <1>2, <1>6, <1>9 DEF u, I

\* What Load stores is no more than the supply it checks: of the allocations of
\* one account all are counted, and one is kept.
LEMMA LoadedFits ==
  ASSUME NEW alloc \in Seq(Allocation)
  PROVE  Loaded(alloc) \in Records /\ Total(Loaded(alloc)) <= SumOf(alloc)
<1> DEFINE I == 1 .. Len(alloc)
           u == [i \in I |-> alloc[i].bal]
           Mine(a) == {i \in I : alloc[i].acct = a}
           b == Loaded(alloc)
           w == Holdings(b)
           f == [a \in Accounts |-> Max(Mine(a))]
<1>1. \A i \in I : alloc[i].acct \in Accounts /\ alloc[i].bal \in 0 .. MaxUint64
  <2>1. \A i \in I : alloc[i] \in Allocation
    OBVIOUS
  <2> QED BY <2>1 DEF Allocation
<1>2. ASSUME NEW a \in Accounts, Mine(a) # {}
      PROVE  f[a] \in I /\ alloc[f[a]].acct = a
  <2>1. Len(alloc) \in Nat /\ Mine(a) \in SUBSET I
    OBVIOUS
  <2>2. Max(Mine(a)) \in Mine(a)
    <3> HIDE DEF Mine
    <3> QED BY <1>2, <2>1, MaxIn
  <2> QED BY <2>2
<1>3. ASSUME NEW a \in Accounts
      PROVE  b[a] = IF Mine(a) = {} THEN NoRecord ELSE alloc[f[a]].bal
  BY DEF Loaded
<1>4. b = [a \in Accounts |-> b[a]]
  BY DEF Loaded
<1>5. b \in Records
  <2> HIDE DEF b, f, Mine
  <2> QED BY <1>1, <1>2, <1>3, <1>4 DEF Records
<1>6. w \in [Accounts -> Nat]
  <2> HIDE DEF b
  <2>1. w \in [Accounts -> 0 .. MaxUint64]
    BY <1>5, HoldingsType
  <2> QED BY <2>1
<1>7. ASSUME NEW a \in Accounts, w[a] # 0
      PROVE  f[a] \in I /\ u[f[a]] = w[a] /\ alloc[f[a]].acct = a
  <2> HIDE DEF b, f, Mine
  <2>1. w[a] = Balance(b, a)
    BY DEF Holdings
  <2>2. b[a] # NoRecord
    BY <1>7, <2>1 DEF Balance
  <2>3. Mine(a) # {}
    BY <1>3, <2>2
  <2> QED BY <1>2, <1>3, <2>1, <2>2, <2>3 DEF Balance
<1>8. /\ \A x \in Accounts : w[x] # 0 => f[x] \in I /\ u[f[x]] = w[x]
      /\ \A x, y \in Accounts : w[x] # 0 /\ w[y] # 0 /\ f[x] = f[y] => x = y
  <2> HIDE DEF w, u, f, I
  <2> QED BY <1>7
<1>9. IsFiniteSet(I) /\ u \in [I -> Nat] /\ SumOf(alloc) = Sum(u, I)
  BY SupplyIsSum
<1>10. Total(b) = Sum(w, Accounts)
  <2> HIDE DEF b
  <2> QED BY <1>5, TotalIsSum
<1>11. Sum(w, Accounts) <= Sum(u, I)
  <2> HIDE DEF w, u, f, I
  <2> QED BY <1>6, <1>8, <1>9, AccountsAssumption, SumOfFound
<1> QED BY <1>5, <1>9, <1>10, <1>11

-----------------------------------------------------------------------------
(* Transactions                                                            *)

\* The inductive invariant.
LedgerInv == TypeOK /\ Conservation

\* Whatever the action did with the rest, as long as it moved it only, the
\* fee is what the transaction burns, and the refund if the account is gone.
LEMMA PayKeeps ==
  ASSUME LedgerInv, NEW a \in Accounts, NEW maxFee \in Fees, NEW fee \in Fees,
         NEW after, after \in Records, Total(after) = Total(balance) - maxFee,
         Pay(a, maxFee, fee, after)
  PROVE  LedgerInv'
<1>1. /\ fee \in Nat /\ maxFee \in Nat /\ fee <= maxFee /\ maxFee - fee \in Nat
      /\ burned \in Nat /\ supply \in 0 .. MaxUint64 /\ UNCHANGED supply
  BY LedgerAssumption DEF Pay, LedgerInv, TypeOK
<1>2. Total(balance) \in Nat /\ Total(balance) + burned = supply
  BY TotalBounds DEF LedgerInv, TypeOK, Conservation, Records
<1>3. burned' = burned + (IF after[a] = NoRecord THEN maxFee ELSE fee)
  BY DEF Pay
<1>4. /\ balance' \in Records
      /\ Total(balance') = IF after[a] = NoRecord THEN Total(after)
                           ELSE Total(after) + (maxFee - fee)
  <2>1. CASE fee = maxFee
    <3>1. balance' = after
      BY <2>1 DEF Pay
    <3> QED BY <1>1, <1>2, <2>1, <3>1
  <2>2. CASE fee # maxFee
    <3>1. /\ CanAdd(after, a, maxFee - fee, FALSE)
          /\ balance' = AddBalance(after, a, maxFee - fee, FALSE)
      BY <2>2 DEF Pay, CanRefund, Refund
    <3>2. FALSE \in BOOLEAN
      OBVIOUS
    <3>3. /\ balance' \in Records
          /\ Total(balance') = Total(after) + (IF after[a] = NoRecord THEN 0 ELSE maxFee - fee)
      BY <1>1, <3>1, <3>2, AddKeeps
    <3> QED BY <1>1, <1>2, <3>3
  <2> QED BY <2>1, <2>2
<1>5. Total(balance') + burned' = supply
  BY <1>1, <1>2, <1>3, <1>4
<1>6. burned' \in Nat
  BY <1>1, <1>3
<1> QED BY <1>1, <1>4, <1>5, <1>6 DEF LedgerInv, TypeOK, Conservation, Records

\* Deduct takes the maximum fee out of the total.
LEMMA DeductKeeps ==
  ASSUME LedgerInv, NEW a \in Accounts, NEW maxFee \in Fees, CanDeduct(balance, a, maxFee)
  PROVE  LET b == Deduct(balance, a, maxFee)
         IN  b \in Records /\ Total(b) = Total(balance) - maxFee
<1>1. maxFee \in Nat /\ balance \in Records
  BY LedgerAssumption DEF LedgerInv, TypeOK, Records
<1>2. CanSub(balance, a, maxFee)
  BY DEF CanDeduct, CanSub
<1> QED BY <1>1, <1>2, SubKeeps DEF Deduct

\* Every transaction keeps the invariant.
LEMMA LedgerInvInductive == LedgerInv /\ [Next]_vars => LedgerInv'
<1> SUFFICES ASSUME LedgerInv, [Next]_vars PROVE LedgerInv'
  OBVIOUS
<1>1. ASSUME NEW a \in Accounts, NEW to \in Accounts, NEW value \in Values,
             NEW maxFee \in Fees, NEW fee \in Fees, PayForTransfer(a, to, value, maxFee, fee)
      PROVE  LedgerInv'
  <2> DEFINE b     == Deduct(balance, a, maxFee)
             after == Transfer(b, a, to, value)
  <2>1. Pay(a, maxFee, fee, after)
    BY <1>1 DEF PayForTransfer
  <2>2. b \in Records /\ Total(b) = Total(balance) - maxFee
    BY <2>1, DeductKeeps DEF Pay
  <2>3. value \in Nat
    BY LedgerAssumption
  <2>4. after \in Records /\ Total(after) = Total(b)
    <3> HIDE DEF b
    <3> QED BY <2>2, <2>3, TransferKeeps
  <2> HIDE DEF b, after
  <2> QED BY <2>1, <2>2, <2>4, PayKeeps
<1>2. ASSUME NEW a \in Accounts, NEW maxFee \in Fees, NEW fee \in Fees,
             PayForOther(a, maxFee, fee)
      PROVE  LedgerInv'
  <2> DEFINE b == Deduct(balance, a, maxFee)
  <2>1. Pay(a, maxFee, fee, b)
    BY <1>2 DEF PayForOther
  <2>2. b \in Records /\ Total(b) = Total(balance) - maxFee
    BY <2>1, DeductKeeps DEF Pay
  <2> HIDE DEF b
  <2> QED BY <2>1, <2>2, PayKeeps
<1>3. CASE UNCHANGED vars
  BY <1>3 DEF vars, LedgerInv, TypeOK, Conservation
<1> QED BY <1>1, <1>2, <1>3 DEF Next

\* Genesis.Load establishes it: the supply is what was stored, at most what was
\* checked.
LEMMA LedgerInvInit == Init => LedgerInv
<1> SUFFICES ASSUME Init PROVE LedgerInv
  OBVIOUS
<1>1. PICK alloc \in Allocations : Load(alloc)
  BY DEF Init
<1>2. alloc \in Seq(Allocation)
  BY LedgerAssumption
<1>3. /\ SumOf(alloc) <= MaxUint64 /\ balance = Loaded(alloc)
      /\ supply = Total(balance) /\ burned = 0
  BY <1>1 DEF Load, Init
<1>4. balance \in Records /\ Total(balance) <= SumOf(alloc)
  BY <1>2, <1>3, LoadedFits
<1>5. Total(balance) \in Nat
  BY <1>4, TotalBounds
<1>6. SumOf(alloc) \in Nat
  BY <1>2, SupplyIsSum, SumNat
<1>7. supply \in 0 .. MaxUint64
  BY <1>3, <1>4, <1>5, <1>6, LedgerAssumption
<1> QED BY <1>3, <1>4, <1>5, <1>7 DEF LedgerInv, TypeOK, Conservation, Records

\* The invariant of the balance records.
THEOREM LedgerInvariant == Spec => []LedgerInv
BY LedgerInvInit, LedgerInvInductive, PTL DEF Spec

\* Every record is missing or a uint64, and so is the supply.
THEOREM LedgerTypes == Spec => []TypeOK
<1>1. LedgerInv => TypeOK
  BY DEF LedgerInv
<1> QED BY <1>1, LedgerInvariant, PTL

\* Nothing appears from nowhere and nothing but burned fees is lost, over any
\* number of transactions, transfers to oneself and removed records included.
THEOREM ValueConserved == Spec => []Conservation
<1>1. LedgerInv => Conservation
  BY DEF LedgerInv
<1> QED BY <1>1, LedgerInvariant, PTL

-----------------------------------------------------------------------------
(* What follows for one transaction                                        *)

\* Where no account can have more than the largest balance less what is about to
\* be credited, the credit fits.
LEMMA CreditFits ==
  ASSUME NEW b, b \in Records, NEW a \in Accounts, NEW amount \in Nat, NEW create \in BOOLEAN,
         Total(b) + amount <= MaxUint64
  PROVE  CanAdd(b, a, amount, create)
<1>1. Total(b) \in Nat /\ Balance(b, a) <= Total(b)
  BY TotalBounds
<1>2. Balance(b, a) \in 0 .. MaxUint64
  BY LedgerAssumption DEF Records, Balance, NoRecord
<1>3. Balance(b, a) + amount <= MaxUint64
  BY <1>1, <1>2, LedgerAssumption
<1> QED BY <1>3 DEF CanAdd

\* What is deducted first is what may be refunded, and what is taken from the
\* sender is what the receiver gets.
LEMMA InvImpliesCreditsFit == LedgerInv => CreditsFit
<1> SUFFICES ASSUME LedgerInv,
                    NEW a \in Accounts, NEW to \in Accounts, NEW value \in Values,
                    NEW maxFee \in Fees, CanDeduct(balance, a, maxFee)
             PROVE  LET b     == Deduct(balance, a, maxFee)
                        after == Transfer(b, a, to, value)
                    IN  /\ CanSub(b, a, value) => CanAdd(SubBalance(b, a, value), to, value, TRUE)
                        /\ CanRefund(after, a, maxFee) /\ CanRefund(b, a, maxFee)
  BY DEF CreditsFit
<1> DEFINE b     == Deduct(balance, a, maxFee)
           after == Transfer(b, a, to, value)
           s     == SubBalance(b, a, value)
<1>1. value \in Nat /\ maxFee \in Nat /\ TRUE \in BOOLEAN /\ FALSE \in BOOLEAN
  BY LedgerAssumption
<1>2. b \in Records /\ Total(b) = Total(balance) - maxFee
  BY DeductKeeps
<1>3. Total(balance) \in Nat /\ Total(balance) <= MaxUint64
  <2>1. balance \in Records /\ burned \in Nat /\ supply \in 0 .. MaxUint64
    BY DEF LedgerInv, TypeOK, Records
  <2>2. Total(balance) \in Nat /\ Total(balance) + burned = supply
    BY <2>1, TotalBounds DEF LedgerInv, Conservation
  <2> QED BY <2>1, <2>2, LedgerAssumption
<1> HIDE DEF b
<1>4. after \in Records /\ Total(after) = Total(b)
  BY <1>1, <1>2, TransferKeeps
<1> HIDE DEF after
<1>5. Total(b) + maxFee <= MaxUint64 /\ Total(after) + maxFee <= MaxUint64
  BY <1>1, <1>2, <1>3, <1>4
<1>6. CanRefund(b, a, maxFee) /\ CanRefund(after, a, maxFee)
  BY <1>1, <1>2, <1>4, <1>5, CreditFits DEF CanRefund
<1>7. ASSUME CanSub(b, a, value) PROVE CanAdd(s, to, value, TRUE)
  <2>1. s \in Records /\ Total(s) = Total(b) - value
    BY <1>1, <1>2, <1>7, SubKeeps
  <2> HIDE DEF s
  <2>2. Total(b) \in Nat
    BY <1>2, TotalBounds
  <2>3. Total(s) + value <= MaxUint64
    BY <1>1, <1>2, <1>3, <2>1, <2>2, LedgerAssumption
  <2> QED BY <1>1, <2>1, <2>3, CreditFits
<1> QED BY <1>6, <1>7 DEF b, after, s

\* Genesis.Load bounds the supply, so no credit of a payable transaction
\* overflows, whatever the accounts, the largest balance, the values and the fees.
THEOREM CreditsAlwaysFit == Spec => []CreditsFit
BY LedgerInvariant, InvImpliesCreditsFit, PTL

-----------------------------------------------------------------------------
(* Action properties                                                       *)

\* What a transaction that carries out an action does to each record: only the
\* sponsor's can fall, and none becomes 0.
Moved(b, c, a) ==
  /\ c \in Records
  /\ \A x \in Accounts : c[x] = 0 => b[x] = 0
  /\ \A x \in Accounts \ {a} : b[x] <= c[x]

\* SubBalance removes a record rather than set it to 0.
LEMMA SubMoves ==
  ASSUME NEW b, b \in Records, NEW a \in Accounts, NEW amount \in Nat, amount # 0,
         CanSub(b, a, amount)
  PROVE  Moved(b, SubBalance(b, a, amount), a)
<1> DEFINE c == SubBalance(b, a, amount)
<1>1. /\ c \in Records /\ \A x \in Accounts \ {a} : c[x] = b[x]
      /\ Balance(c, a) = Balance(b, a) - amount
  BY SubKeeps
<1>2. c[a] # 0
  BY LedgerAssumption DEF SubBalance, Records, Balance, NoRecord, CanSub
<1>3. \A x \in Accounts : b[x] \in Int
  BY LedgerAssumption DEF Records, NoRecord
<1> HIDE DEF c
<1>4. ASSUME NEW x \in Accounts \ {a} PROVE b[x] <= c[x]
  BY <1>1, <1>3
<1>5. ASSUME NEW x \in Accounts, c[x] = 0 PROVE b[x] = 0
  BY <1>1, <1>2, <1>5
<1>6. Moved(b, c, a)
  BY <1>1, <1>4, <1>5 DEF Moved
<1> QED BY <1>6 DEF c

\* AddBalance lowers no record and leaves none at 0.
LEMMA AddMoves ==
  ASSUME NEW b, b \in Records, NEW a, NEW to \in Accounts, NEW amount \in Nat, amount # 0,
         NEW create \in BOOLEAN, CanAdd(b, to, amount, create)
  PROVE  Moved(b, AddBalance(b, to, amount, create), a)
<1> DEFINE c == AddBalance(b, to, amount, create)
<1>1. /\ c \in Records /\ \A x \in Accounts \ {to} : c[x] = b[x]
      /\ c[to] = IF b[to] = NoRecord /\ ~create THEN NoRecord ELSE Balance(b, to) + amount
  BY AddKeeps
<1>2. \A x \in Accounts : b[x] \in Int
  BY LedgerAssumption DEF Records, NoRecord
<1>3. b[to] <= c[to] /\ c[to] # 0
  <2>1. b[to] \in (0 .. MaxUint64) \cup {NoRecord}
    BY DEF Records
  <2> HIDE DEF c
  <2> QED BY <1>1, <2>1, LedgerAssumption DEF Balance, NoRecord
<1> HIDE DEF c
<1>4. ASSUME NEW x \in Accounts PROVE b[x] <= c[x] /\ (c[x] = 0 => b[x] = 0)
  BY <1>1, <1>2, <1>3
<1>5. Moved(b, c, a)
  BY <1>1, <1>4 DEF Moved
<1> QED BY <1>5 DEF c

\* Steps that spare all accounts but a do so together.
LEMMA MovesCompose ==
  ASSUME NEW b, b \in Records, NEW c, NEW d, NEW a, Moved(b, c, a), Moved(c, d, a)
  PROVE  Moved(b, d, a)
<1>1. \A x \in Accounts : b[x] \in Int /\ c[x] \in Int /\ d[x] \in Int
  BY LedgerAssumption DEF Moved, Records, NoRecord
<1> QED BY <1>1 DEF Moved

\* Transfer.Execute takes from its actor only, to itself too.
LEMMA TransferMoves ==
  ASSUME NEW b, b \in Records, NEW a \in Accounts, NEW to \in Accounts,
         NEW value \in Nat, value # 0
  PROVE  Moved(b, Transfer(b, a, to, value), a)
<1> DEFINE s == SubBalance(b, a, value)
           c == AddBalance(s, to, value, TRUE)
<1>1. CASE CanSub(b, a, value) /\ CanAdd(s, to, value, TRUE)
  <2>1. Moved(b, s, a)
    BY <1>1, SubMoves
  <2>2. Moved(s, c, a)
    <3>1. s \in Records /\ TRUE \in BOOLEAN
      BY <2>1 DEF Moved
    <3> HIDE DEF s
    <3> QED BY <1>1, <3>1, AddMoves
  <2>3. Transfer(b, a, to, value) = c
    BY <1>1 DEF Transfer
  <2> HIDE DEF s, c
  <2> QED BY <2>1, <2>2, <2>3, MovesCompose
<1>2. CASE ~ (CanSub(b, a, value) /\ CanAdd(s, to, value, TRUE))
  <2>1. Transfer(b, a, to, value) = b
    BY <1>2 DEF Transfer
  <2>2. \A x \in Accounts : b[x] \in Int
    BY LedgerAssumption DEF Records, NoRecord
  <2> QED BY <2>1, <2>2 DEF Moved
<1> QED BY <1>1, <1>2

\* The deduction before and the refund after the action keep it that way.
LEMMA PayMoves ==
  ASSUME TypeOK, NEW a \in Accounts, NEW maxFee \in Fees, NEW fee \in Fees,
         NEW after, Moved(Deduct(balance, a, maxFee), after, a), Pay(a, maxFee, fee, after)
  PROVE  Moved(balance, balance', a)
<1> DEFINE b == Deduct(balance, a, maxFee)
<1>1. /\ balance \in Records /\ maxFee \in Nat /\ maxFee # 0 /\ fee \in Nat /\ fee <= maxFee
      /\ CanSub(balance, a, maxFee)
  BY LedgerAssumption DEF TypeOK, Records, Pay, CanDeduct, CanSub
<1>2. Moved(balance, b, a)
  BY <1>1, SubMoves DEF Deduct
<1> HIDE DEF b
<1>3. Moved(balance, after, a)
  BY <1>1, <1>2, MovesCompose DEF b
<1>4. CASE fee = maxFee
  <2>1. balance' = after
    BY <1>4 DEF Pay
  <2> QED BY <1>3, <2>1
<1>5. CASE fee # maxFee
  <2>1. /\ CanAdd(after, a, maxFee - fee, FALSE)
        /\ balance' = AddBalance(after, a, maxFee - fee, FALSE)
    BY <1>5 DEF Pay, CanRefund, Refund
  <2>2. maxFee - fee \in Nat /\ maxFee - fee # 0 /\ FALSE \in BOOLEAN /\ after \in Records
    BY <1>1, <1>3, <1>5 DEF Moved
  <2>3. Moved(after, balance', a)
    BY <2>1, <2>2, AddMoves
  <2> QED BY <1>1, <1>3, <2>3, MovesCompose
<1> QED BY <1>4, <1>5

\* Every transaction has one sponsor, and takes from no other account.
LEMMA NextMoves ==
  ASSUME TypeOK, Next
  PROVE  \E a \in Accounts : Moved(balance, balance', a)
<1>1. ASSUME NEW a \in Accounts, NEW maxFee \in Fees, CanDeduct(balance, a, maxFee)
      PROVE  Deduct(balance, a, maxFee) \in Records
  <2>1. balance \in Records /\ maxFee \in Nat /\ CanSub(balance, a, maxFee)
    BY <1>1, LedgerAssumption DEF TypeOK, Records, CanDeduct, CanSub
  <2> QED BY <2>1, SubKeeps DEF Deduct
<1>2. ASSUME NEW a \in Accounts, NEW to \in Accounts, NEW value \in Values,
             NEW maxFee \in Fees, NEW fee \in Fees, PayForTransfer(a, to, value, maxFee, fee)
      PROVE  \E x \in Accounts : Moved(balance, balance', x)
  <2> DEFINE b     == Deduct(balance, a, maxFee)
             after == Transfer(b, a, to, value)
  <2>1. Pay(a, maxFee, fee, after)
    BY <1>2 DEF PayForTransfer
  <2>2. b \in Records
    BY <1>1, <2>1 DEF Pay
  <2>3. value \in Nat /\ value # 0
    BY LedgerAssumption
  <2>4. Moved(b, after, a)
    <3> HIDE DEF b
    <3> QED BY <2>2, <2>3, TransferMoves
  <2> HIDE DEF after
  <2>5. Moved(balance, balance', a)
    BY <2>1, <2>4, PayMoves
  <2> QED BY <2>5
<1>3. ASSUME NEW a \in Accounts, NEW maxFee \in Fees, NEW fee \in Fees,
             PayForOther(a, maxFee, fee)
      PROVE  \E x \in Accounts : Moved(balance, balance', x)
  <2> DEFINE b == Deduct(balance, a, maxFee)
  <2>1. Pay(a, maxFee, fee, b)
    BY <1>3 DEF PayForOther
  <2>2. b \in Records
    BY <1>1, <2>1 DEF Pay
  <2>3. \A x \in Accounts : b[x] \in Int
    BY <2>2, LedgerAssumption DEF Records, NoRecord
  <2>4. Moved(b, b, a)
    <3> HIDE DEF b
    <3> QED BY <2>2, <2>3 DEF Moved
  <2>5. Moved(balance, balance', a)
    BY <2>1, <2>4, PayMoves
  <2> QED BY <2>5
<1> QED BY <1>2, <1>3 DEF Next

\* SubBalance removes an emptied record and AddBalance adds something: no
\* transaction leaves a record of 0 that was not one before.
THEOREM NoZeroRecordAppears == Spec => NoNewZeroRecord
<1>1. ASSUME TypeOK, [Next]_vars
      PROVE  [\A a \in Accounts : balance'[a] = 0 => balance[a] = 0]_vars
  <2>1. CASE Next
    BY <1>1, <2>1, NextMoves DEF Moved
  <2>2. CASE UNCHANGED vars
    BY <2>2
  <2> QED BY <1>1, <2>1, <2>2
<1> QED BY <1>1, LedgerTypes, PTL DEF Spec, NoNewZeroRecord

\* Of all accounts, a transaction takes from its sponsor only.
THEOREM OnlyTheSponsorPays == Spec => OnePayer
<1>1. ASSUME TypeOK, [Next]_vars
      PROVE  [\A a, b \in Accounts :
                balance'[a] < balance[a] /\ balance'[b] < balance[b] => a = b]_vars
  <2>1. CASE Next
    <3>1. PICK p \in Accounts : Moved(balance, balance', p)
      BY <1>1, <2>1, NextMoves
    <3>2. \A x \in Accounts : balance[x] \in Int /\ balance'[x] \in Int
      BY <1>1, <3>1, LedgerAssumption DEF TypeOK, Moved, Records, NoRecord
    <3>3. \A x \in Accounts : balance'[x] < balance[x] => x = p
      BY <3>1, <3>2 DEF Moved
    <3> QED BY <3>3
  <2>2. CASE UNCHANGED vars
    BY <2>2
  <2> QED BY <1>1, <2>1, <2>2
<1> QED BY <1>1, LedgerTypes, PTL DEF Spec, OnePayer
=============================================================================
