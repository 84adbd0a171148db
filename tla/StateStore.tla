----------------------------- MODULE StateStore -----------------------------
(***************************************************************************)
(* storage.go byte by byte: the keys of the chain's records, the values    *)
(* written under them, what is read back, and the database of executed     *)
(* transactions.  ProofVoting and Ledger treat the records as functions of *)
(* ids and addresses; here they are strings of bytes that might collide,   *)
(* be cut short, or be read at the wrong offset.                           *)
(*                                                                         *)
(* A store is a function from keys to values.  Execute sees it through a   *)
(* view, which refuses undeclared keys and values longer than the number   *)
(* of chunks that the end of the key allows.                               *)
(***************************************************************************)
EXTENDS ActionCodec

CONSTANTS
  ChunkSize,      \* bytes of a chunk: 64
  Dimensions      \* of a fee: 5

\* A chunk holds an integer.
ASSUME ChunkAssumption ==
  /\ ChunkSize \in Nat /\ Uint64Len <= ChunkSize /\ Uint16Len <= ChunkSize
  /\ Dimensions \in Nat

Suffix(chunks) == BigEndian(chunks, Uint16Len)
Uint16(n)      == n % Pow[Uint16Len]

-----------------------------------------------------------------------------
(* Prefixes, chunks and keys                                               *)

txPrefix        == 0   \* of the other database
balancePrefix   == 0
heightPrefix    == 1
timestampPrefix == 2
feePrefix       == 3
deployPrefix    == 7
timeOutPrefix   == 8
weightPrefix    == 9
statusPrefix    == 10
votePrefix      == 11

BalanceChunks == 1
HashChunksMax == 10
TimeOutChunks == 1

TxKey(id) == <<txPrefix>> \o id

\* Mutant: the byte of the authentication scheme is left out.
BalanceKey_Short(addr) == <<balancePrefix>> \o Tail(addr) \o Suffix(BalanceChunks)

BalanceKey(addr) == <<balancePrefix>> \o addr \o Suffix(BalanceChunks)

\* Mutant: a type that does not fit is stored under the largest.
HashKey_Clamped(image, type) ==
  <<deployPrefix>> \o image \o BigEndian(IF type > MaxUint16 THEN MaxUint16 ELSE type, Uint16Len)
    \o Suffix(HashChunksMax)

\* With the conversion to uint16 that its callers make.
HashKey(image, type) ==
  <<deployPrefix>> \o image \o BigEndian(Uint16(type), Uint16Len) \o Suffix(HashChunksMax)

TimeOutKey(id) == <<timeOutPrefix>> \o id \o Suffix(TimeOutChunks)

\* Mutant: the prefix of the line above.
WeightKey_Copied(id) == <<timeOutPrefix>> \o id \o Suffix(TimeOutChunks)

WeightKey(id) == <<weightPrefix>> \o id \o Suffix(TimeOutChunks)
StatusKey(id) == <<statusPrefix>> \o id \o Suffix(TimeOutChunks)
VoteKey(id, actor) == <<votePrefix>> \o id \o actor \o Suffix(TimeOutChunks)

\* The name of a file, "7", the id in hex and the type in decimal: told apart by
\* the id and the 16-bit type, like HashKey.
DeployKey(image, type) == <<image, Uint16(type)>>

\* HeightKey, TimestampKey and FeeKey, to which the library appends one chunk.
BlockKeys == {<<p>> \o Suffix(1) : p \in {heightPrefix, timestampPrefix, feePrefix}}

-----------------------------------------------------------------------------
(* The view that an action executes in: tstate of hypersdk                 *)

\* f with val at key.
Put(f, key, val) == [k \in DOMAIN f \cup {key} |-> IF k = key THEN val ELSE f[k]]

View(store, keys) == [store |-> store, keys |-> keys, failed |-> FALSE]

NotFound == <<>>
Get(store, key) == IF key \in DOMAIN store THEN store[key] ELSE NotFound

\* The chunks that a key ends with bound the value.
Allowed(key, val) == Len(val) <= ChunkSize * Uint(SubSeq(key, Len(key) - Uint16Len + 1, Len(key)))

Insert(v, key, val) ==
  IF key \in v.keys /\ Allowed(key, val)
  THEN [v EXCEPT !.store = Put(@, key, val)]
  ELSE [v EXCEPT !.failed = TRUE]

Erase(v, key) ==
  IF key \in v.keys THEN [v EXCEPT !.store = Restrict(@, DOMAIN @ \ {key})]
                    ELSE [v EXCEPT !.failed = TRUE]

Fail(v)  == [v EXCEPT !.failed = TRUE]
Drop(v, w) == [w EXCEPT !.failed = v.failed]   \* the caller ignores the error

-----------------------------------------------------------------------------
(* Balances                                                                *)

GetBalance(store, addr) == Uint(Get(store, BalanceKey(addr)))
SetBalance(v, addr, amount) == Insert(v, BalanceKey(addr), BigEndian(amount, Uint64Len))

\* No record is a balance of zero; Transfer has the account created.
AddBalance(v, addr, amount) ==
  LET nbal == GetBalance(v.store, addr) + amount
  IN  IF nbal > MaxUint64 THEN Fail(v) ELSE SetBalance(v, addr, nbal)

\* Mutant: a balance that reaches zero is kept.
SubBalance_Kept(v, addr, amount) ==
  LET bal == GetBalance(v.store, addr)
  IN  IF bal < amount THEN Fail(v) ELSE SetBalance(v, addr, bal - amount)

SubBalance(v, addr, amount) ==
  LET bal == GetBalance(v.store, addr)
  IN  CASE bal < amount -> Fail(v)
        [] bal = amount -> Erase(v, BalanceKey(addr))
        [] bal > amount -> SetBalance(v, addr, bal - amount)

-----------------------------------------------------------------------------
(* Roots, time-outs, weights and votes                                     *)

StoreHashKeyType(v, image, type, root) == Insert(v, HashKey(image, type), root)
GetHashKeyType(store, image, type)     == Get(store, HashKey(image, type))

StoreTimeOut(v, id, timeOut, ts) ==
  LET clamped == IF timeOut < 20 THEN 20 ELSE IF timeOut > 300 THEN 300 ELSE timeOut
  IN  Insert(v, TimeOutKey(id), BigEndian(ts + clamped * 1000, Uint64Len))

GetTimeOut(store, id) == Get(store, TimeOutKey(id))

UpdateWeight(v, id, weight, totalWeight) ==
  LET val == Get(v.store, WeightKey(id))
      nW  == (Uint(val) + weight) % (MaxUint64 + 1)
      marked == Drop(v, Insert(v, StatusKey(id), BigEndian(1, Uint16Len)))
  IN  IF val = NotFound THEN Insert(v, WeightKey(id), BigEndian(weight, Uint64Len))
      ELSE Insert(IF nW > totalWeight THEN marked ELSE v, WeightKey(id), BigEndian(nW, Uint64Len))

GetVote(store, id, actor) ==
  LET val == Get(store, VoteKey(id, actor)) IN val # NotFound /\ Uint(val) = 1
StoreVote(v, id, actor) == Insert(v, VoteKey(id, actor), BigEndian(1, Uint16Len))

\* An error, when there is no record, or whether the record is 1.
GetVerifyStatusFromState(store, id) ==
  LET val == Get(store, StatusKey(id))
  IN  IF val = NotFound THEN [err |-> TRUE] ELSE [err |-> FALSE, status |-> Uint(val) = 1]

-----------------------------------------------------------------------------
(* The database of executed transactions                                   *)

\* fees.Dimensions.Bytes of hypersdk, and back.
DimensionsLen == Dimensions * Uint64Len
Bytes(units)  == FlattenSeq([i \in 1 .. Dimensions |-> BigEndian(units[i], Uint64Len)])
UnpackDimensions(b) ==
  [i \in 1 .. Dimensions |-> Uint(SubSeq(b, (i - 1) * Uint64Len + 1, i * Uint64Len))]

StoreTransaction(db, id, t, success, units, fee) ==
  Put(db, TxKey(id), BigEndian(t, Uint64Len) \o (IF success THEN <<1>> ELSE <<0>>)
                       \o Bytes(units) \o BigEndian(fee, Uint64Len))

\* Mutant: the fee is read where the units begin.
GetTransaction_Shifted(db, id) ==
  LET v == Get(db, TxKey(id))
  IN  IF v = NotFound THEN [found |-> FALSE]
      ELSE [ found   |-> TRUE,
             t       |-> Uint(SubSeq(v, 1, Uint64Len)),
             success |-> v[Uint64Len + 1] # 0,
             units   |-> UnpackDimensions(SubSeq(v, Uint64Len + 2, Uint64Len + 1 + DimensionsLen)),
             fee     |-> Uint(SubSeq(v, Uint64Len + 2, 2 * Uint64Len + 1)) ]

GetTransaction(db, id) ==
  LET v == Get(db, TxKey(id))
  IN  IF v = NotFound THEN [found |-> FALSE]
      ELSE [ found   |-> TRUE,
             t       |-> Uint(SubSeq(v, 1, Uint64Len)),
             success |-> v[Uint64Len + 1] # 0,
             units   |-> UnpackDimensions(SubSeq(v, Uint64Len + 2, Uint64Len + 1 + DimensionsLen)),
             fee     |-> Uint(SubSeq(v, Uint64Len + 2 + DimensionsLen, Len(v))) ]
=============================================================================
