---------------------------- MODULE TxExecution ----------------------------
(***************************************************************************)
(* A transaction from the wallet to the answers about it: a client builds  *)
(* and signs it, the chain parses, fits and executes it over the byte-     *)
(* level store, the controller of a node that accepts its block asks the   *)
(* prover about files and indexes it, and the RPC server answers.          *)
(*                                                                         *)
(* Fees are in Ledger, and the cryptography of a vote is in ProofVoting:   *)
(* here a vote is found invalid, matches no validator, or matches one.     *)
(***************************************************************************)
EXTENDS StateStore

CONSTANTS
  Requests,      \* bound: the [action, auth] that may be sent first, second, ...
  Accounts,      \* the addresses of their keys
  Supply,        \* the balance that genesis gives to each of them
  Weight,        \* the stake of the validator that votes
  Times,         \* the timestamps of blocks, from 0
  AuthUnits      \* ComputeUnits of each authentication scheme

\* The requests are what Go's types allow, by accounts and to accounts; their ids
\* differ, and none votes on itself: an id is a hash of what is said.
ASSUME RequestAssumption ==
  /\ Requests \in Seq(SUBSET UNION Range(Requests)) /\ Len(Requests) < Pow[IDLen]
  /\ \A r \in UNION Range(Requests) :
       /\ IsTx(r) /\ Address(r.auth) \in Accounts
       /\ r.action.type = TransferID => r.action.to \in Accounts
  /\ \A n \in DOMAIN Requests : \A r \in Requests[n] :
       r.action.type = ValidatorVoteID => r.action.txID # BigEndian(n, IDLen)

ASSUME ChainAssumption ==
  /\ IsFiniteSet(Accounts) /\ Accounts \subseteq [1 .. AddressLen -> Byte]
  /\ Supply \in 1 .. MaxUint64 /\ Weight \in 0 .. MaxUint64
  /\ Times \subseteq Nat /\ 0 \in Times /\ \A ts \in Times : ts + 300000 <= MaxUint64
  /\ AuthUnits \in [AuthRegistry -> Nat]

VARIABLES
  env,        \* the genesis limit of compute units, and whether keys compare equal
  now,        \* the timestamp of the block
  sent,       \* the requests made, in order, and the transactions that went out
  store,      \* the chain's state
  executed,   \* the results of the chain, in order
  db,         \* the node's index, the controller's metaDB
  asked,      \* for each transaction indexed, the files named to the prover
  opened, counted, succeeded  \* history, as in ProofVoting

records == <<store, executed, opened, counted, succeeded>>
vars    == <<env, now, sent, records, db, asked>>

-----------------------------------------------------------------------------
(* Genesis                                                                 *)

BaseComputeUnits == 1

\* Mutant: the default is wide enough for a vote.
DefaultMaxBlockUnits_Wide == 6000

\* The compute dimension of MaxBlockUnits in Default.  The scripts, and the load
\* test, set it to the largest integer instead.
DefaultMaxBlockUnits == 2000

\* The id of the n-th transaction: a hash, never seen before and never empty.
TxID(n) == BigEndian(n, IDLen)
TxIDs   == {TxID(n) : n \in DOMAIN Requests}

Init ==
  /\ env \in [maxUnits : {DefaultMaxBlockUnits, MaxUint64}, interned : BOOLEAN]
  /\ now = 0
  /\ sent = <<>>
  /\ store = [k \in {BalanceKey(a) : a \in Accounts} |-> BigEndian(Supply, Uint64Len)]
  /\ executed = <<>>
  /\ db = << >>
  /\ asked = <<>>
  /\ opened = {} /\ counted = {} /\ succeeded = {}

-----------------------------------------------------------------------------
(* Sending: the transaction is marshalled and, by Sign, parsed again       *)

\* Units: what the limit of a block is compared with.
ComputeUnits(tx) == BaseComputeUnits + Codec(tx.action.type).maxUnits + AuthUnits[tx.auth.scheme]
Fits(tx) == ComputeUnits(tx) <= env.maxUnits

Processed(n) == \E i \in DOMAIN executed : executed[i].n = n

\* What goes out of an error of Marshal is nothing.
Wire(r) == IF MarshalFails(r.action) THEN <<>> ELSE Marshal(r)

\* A transaction fits a message and its units an integer, in every dimension.
ASSUME SizeAssumption ==
  \A r \in UNION Range(Requests) :
    Len(Wire(r)) \in 0 .. MaxUint64 /\ ComputeUnits(r) + Dimensions <= MaxUint64

\* A refusal leaves nothing behind: nothing is sent after it, and otherwise one
\* transaction at a time waits that a block can hold (bounds).
Send(r) ==
  /\ \A n \in DOMAIN sent :
       sent[n].tx # Refused /\ (Fits(sent[n].tx) => Processed(n))
  /\ sent' = Append(sent, [request |-> r, size |-> Len(Wire(r)), tx |-> UnmarshalTx(Wire(r))])
  /\ UNCHANGED <<env, now, records, db, asked>>

-----------------------------------------------------------------------------
(* StateKeys                                                               *)

IsVerify(a) == a.type \in {SP1ID, RiscZeroID, MidenID, JoltID, Plonky2ID}

\* Mutant: the status of the transaction voted on is declared.
StateKeys_Status(a, actor, id) ==
  CASE IsVerify(a)               -> {TimeOutKey(id)}
    [] a.type = TransferID       -> {BalanceKey(actor), BalanceKey(a.to)}
    [] a.type = RegisterID       -> {}
    [] a.type = RegisterImageID  -> {HashKey(a.imageID, a.valType)}
    [] a.type = ValidatorVoteID  -> {TimeOutKey(a.txID), WeightKey(a.txID),
                                     StatusKey(a.txID), VoteKey(a.txID, actor)}

\* Mutant: a verify action declares nothing, like Register.
StateKeys_NoWindow(a, actor, id) ==
  CASE IsVerify(a)               -> {}
    [] a.type = TransferID       -> {BalanceKey(actor), BalanceKey(a.to)}
    [] a.type = RegisterID       -> {}
    [] a.type = RegisterImageID  -> {HashKey(a.imageID, a.valType)}
    [] a.type = ValidatorVoteID  -> {TimeOutKey(a.txID), WeightKey(a.txID),
                                     StatusKey(id), VoteKey(a.txID, actor)}

StateKeys(a, actor, id) ==
  CASE IsVerify(a)               -> {TimeOutKey(id)}
    [] a.type = TransferID       -> {BalanceKey(actor), BalanceKey(a.to)}
    [] a.type = RegisterID       -> {}
    [] a.type = RegisterImageID  -> {HashKey(a.imageID, a.valType)}
    [] a.type = ValidatorVoteID  -> {TimeOutKey(a.txID), WeightKey(a.txID),
                                     StatusKey(id), VoteKey(a.txID, actor)}

-----------------------------------------------------------------------------
(* Execute of the actions, over a view                                     *)

ExecuteTransfer(v, a, actor) ==
  LET taken == SubBalance(v, actor, a.value)
  IN  IF a.value = 0 THEN Fail(v)
      ELSE IF taken.failed THEN taken ELSE AddBalance(taken, a.to, a.value)

ExecuteRegister(v) == v
ExecuteRegisterImage(v, a) == StoreHashKeyType(v, a.imageID, a.valType, a.rootHash)
ExecuteVerify(v, a, id)    == StoreTimeOut(v, id, a.timeOutBlocks, now)

InWindow(id) == GetTimeOut(store, id) # NotFound /\ now <= Uint(GetTimeOut(store, id))

\* The ends of the checks on the key and the signature of a vote.
Outcomes == {"invalid", "unmatched", "matched"}

Counts(a, actor, outcome) ==
  InWindow(a.txID) /\ outcome = "matched" /\ ~GetVote(store, a.txID, actor)

\* The errors of UpdateWeight and StoreVote are dropped.
ExecuteValidatorVote(v, a, actor, outcome) ==
  LET w == IF a.vote THEN Drop(v, UpdateWeight(v, a.txID, Weight, Weight)) ELSE v
  IN  CASE Counts(a, actor, outcome) -> Drop(v, StoreVote(w, a.txID, actor))
        [] InWindow(a.txID) /\ outcome = "unmatched" -> v
        [] OTHER -> Fail(v)

Execute(a, actor, id, outcome) ==
  LET v == View(store, StateKeys(a, actor, id))
  IN  CASE IsVerify(a)              -> ExecuteVerify(v, a, id)
        [] a.type = TransferID      -> ExecuteTransfer(v, a, actor)
        [] a.type = RegisterID      -> ExecuteRegister(v)
        [] a.type = RegisterImageID -> ExecuteRegisterImage(v, a)
        [] a.type = ValidatorVoteID -> ExecuteValidatorVote(v, a, actor, outcome)

\* The chain takes a transaction once, if a block can hold it; a failed action
\* leaves no write behind.
Process(n, outcome) ==
  LET tx    == sent[n].tx
      a     == tx.action
      actor == Address(tx.auth)
      v     == Execute(a, actor, TxID(n), outcome)
      ok    == ~v.failed
      counts == ok /\ a.type = ValidatorVoteID /\ Counts(a, actor, outcome)
  IN  /\ tx # Refused
      /\ ~Processed(n) /\ Fits(tx)
      /\ outcome \in (IF a.type = ValidatorVoteID
                      THEN {"invalid", IF env.interned THEN "matched" ELSE "unmatched"}
                      ELSE {"invalid"})
      /\ store' = IF ok THEN v.store ELSE store
      /\ executed' = Append(executed, [n |-> n, tx |-> tx, at |-> now, success |-> ok])
      /\ opened' = IF IsVerify(a) /\ ok
                   THEN opened \cup {[tx |-> TxID(n), asked |-> a.timeOutBlocks, at |-> now]}
                   ELSE opened
      /\ counted' = IF counts
                    THEN counted \cup {[tx |-> a.txID, actor |-> actor, node |-> "v",
                                        vote |-> a.vote, at |-> now]}
                    ELSE counted
      /\ succeeded' = IF ok /\ a.type = ValidatorVoteID
                      THEN succeeded \cup {<<a.txID, actor>>} ELSE succeeded
      /\ UNCHANGED <<env, now, sent, db, asked>>

\* A new block: the library writes its height, its timestamp and its fees.
Block ==
  /\ \E ts \in Times : ts > now /\ now' = ts
  /\ store' = [k \in DOMAIN store \cup BlockKeys |->
                 IF k \in BlockKeys THEN BigEndian(now', Uint64Len) ELSE store[k]]
  /\ UNCHANGED <<env, sent, executed, opened, counted, succeeded, db, asked>>

-----------------------------------------------------------------------------
(* Controller.Accepted                                                     *)

elfValType == 1

\* The files named to the prover: by the handlers that know an ELF, by the other
\* two, and by HandlePlonky2.
Files(a) ==
  LET types == CASE a.type \in {SP1ID, JoltID}       -> {elfValType, a.proofValType}
                 [] a.type \in {RiscZeroID, MidenID} -> {a.proofValType}
                 [] a.type = Plonky2ID -> {a.commonDataValType, a.verifierDataValType, a.proofValType}
                 [] OTHER -> {}
  IN  {[name |-> DeployKey(a.imageID, t), type |-> t] : t \in types}

\* Consumed and Fee of the result: the units in each dimension differ, and the
\* fee is not one of them.
Consumed(e) == [i \in 1 .. Dimensions |-> ComputeUnits(e.tx) + i]
Fee(e)      == sent[e.n].size

Accepted ==
  LET e == executed[Len(asked) + 1]
  IN  /\ Len(asked) < Len(executed)
      /\ asked' = Append(asked, Files(e.tx.action))
      /\ db' = StoreTransaction(db, TxID(e.n), e.at, e.success, Consumed(e), Fee(e))
      /\ UNCHANGED <<env, now, sent, records>>

Next ==
  \/ /\ Len(sent) < Len(Requests)
     /\ \E r \in Requests[Len(sent) + 1] : Send(r)
  \/ \E n \in DOMAIN sent, outcome \in Outcomes : Process(n, outcome)
  \/ Block
  \/ Accepted

Spec == Init /\ [][Next]_vars

-----------------------------------------------------------------------------
(* The RPC server                                                          *)

Tx(id) ==
  LET g == GetTransaction(db, id)
  IN  IF g.found THEN [err |-> FALSE, timestamp |-> g.t, success |-> g.success,
                       units |-> g.units, fee |-> g.fee]
                 ELSE [err |-> TRUE]
Balance(addr)    == GetBalance(store, addr)
VerifyStatus(id) == GetVerifyStatusFromState(store, id)
-----------------------------------------------------------------------------
(* Properties                                                              *)

\* Every value in the store fits the chunks that its key ends with, and no
\* balance record holds zero; results and index entries come in step.
TypeOK ==
  /\ now \in Times
  /\ \A n \in DOMAIN sent : sent[n].request \in Requests[n]
  /\ \A k \in DOMAIN store : /\ Allowed(k, store[k])
                             /\ k[1] = balancePrefix => Uint(store[k]) # 0
  /\ Cardinality({executed[i].n : i \in DOMAIN executed}) = Len(executed)
  /\ Len(asked) = Cardinality(DOMAIN db) /\ Len(asked) <= Len(executed)

\* The fields that an action may not leave out or make too long: everything but
\* a recipient and the vote itself.
Wanting(a) ==
  \/ \E f \in {"imageID", "txID"} \cap DOMAIN a : a[f] = EmptyID
  \/ \E f \in {"value", "provingSystem", "valType", "proofValType", "commonDataValType",
               "verifierDataValType", "timeOutBlocks"} \cap DOMAIN a : a[f] = 0
  \/ \E f \in {"rootHash", "riscZeroImageID", "codeFrontEnd", "inputsFrontEnd",
               "outputsFrontEnd"} \cap DOMAIN a : Len(a[f]) \notin 1 .. MaxUint16
  \/ "signature" \in DOMAIN a /\ Len(a.signature) \notin 1 .. SignatureLen[BLSID]
  \/ "publicKey" \in DOMAIN a /\ Len(a.publicKey) \notin 1 .. PublicKeyLen[BLSID]

\* What Unmarshal of each action reads is what its Marshal was given, field by
\* field, and a transaction is refused when it is signed exactly if a field is
\* wanting: nothing else is lost, swapped or let through.
RoundTrip ==
  \A n \in DOMAIN sent :
    sent[n].tx = IF Wanting(sent[n].request.action) THEN Refused ELSE sent[n].request

\* Size, from which a client estimates its fee, is the number of bytes that
\* Marshal writes less the length prefixes, and for PLONKY2 less two integers.
SizeFallsShort ==
  \A n \in DOMAIN sent : sent[n].tx # Refused =>
    LET a == sent[n].request.action
        prefixes(kind) ==
          Cardinality({i \in DOMAIN Codec(a.type).marshal : Codec(a.type).marshal[i].kind = kind})
    IN  Len(MarshalAction(a)) =
          Size(a) + Uint16Len * prefixes("string") + IntLen * prefixes("bytes")
            + IF a.type = Plonky2ID THEN 2 * Uint64Len ELSE 0

Congruent(t, u) == (t - u) % (MaxUint16 + 1) = 0

\* The root registered last for an image under a type congruent to t.
LastRoot(image, t) ==
  LET hits == {i \in DOMAIN executed :
                 LET a == executed[i].tx.action
                 IN  /\ executed[i].success /\ a.type = RegisterImageID
                     /\ a.imageID = image /\ Congruent(a.valType, t)}
  IN  IF hits = {} THEN NotFound ELSE executed[Max(hits)].tx.action.rootHash

\* RegisterImage, StoreHashKeyType and the handlers cut 64-bit types to 16 bits
\* in three places.  They agree: a file named to the prover has the root that was
\* registered last under any congruent type, and two files have one name exactly
\* if they have one record.
FilesMatchRoots ==
  \A i, j \in DOMAIN asked :
    LET image(k) == executed[k].tx.action.imageID
    IN  \A f \in asked[i], g \in asked[j] :
          /\ GetHashKeyType(store, image(i), f.type) = LastRoot(image(i), f.type)
          /\ f.name = g.name <=> HashKey(image(i), f.type) = HashKey(image(j), g.type)

\* Accepted asks the prover without a look at the result of the transaction.  It
\* may: one that the prover is asked about never failed, and votes on it find its
\* window, because every verify action declares the record that it writes.
AskedHaveWindow ==
  \A i \in DOMAIN asked : asked[i] # {} =>
    executed[i].success /\ GetTimeOut(store, TxID(executed[i].n)) # NotFound

\* The Tx method of the RPC server answers with the outcome of exactly the
\* transactions whose block the node has accepted, with every number as it was
\* given to StoreTransaction, and has not heard of any other.
TxReplies ==
  \A n \in DOMAIN Requests :
    IF \E i \in DOMAIN asked : executed[i].n = n
    THEN LET e == CHOOSE e \in ToSet(executed) : e.n = n
         IN  Tx(TxID(n)) = [err |-> FALSE, timestamp |-> e.at, success |-> e.success,
                            units |-> Consumed(e), fee |-> Fee(e)]
    ELSE Tx(TxID(n)) = [err |-> TRUE]

\* The Balance method's answers add up to what genesis gave out, whatever
\* transfers succeeded or failed half-way: no two accounts share a record and no
\* other record overwrites a balance.
BalancesAddUp ==
  MapThenSumSet(Balance, Accounts) = Supply * Cardinality(Accounts)

\* The VerifyStatus method answers with an error for every transaction: one that
\* never was, one being voted on and one that has any number of yes votes look
\* the same, because no vote declares the key of the record it would set.
PendingLooksUnknown == \A id \in TxIDs : VerifyStatus(id) = [err |-> TRUE]

\* Under the genesis default no block can hold a RegisterImage, a vote or the
\* verification of a proof: the limit is below what each asks for.
DefaultHoldsNoProof ==
  env.maxUnits = DefaultMaxBlockUnits =>
    opened = {} /\ \A e \in ToSet(executed) : e.tx.action.type \in {TransferID, RegisterID}

\* The records as ProofVoting has them.
Stored(key) == IF Get(store, key) = NotFound THEN -1 ELSE Uint(Get(store, key))

Voting == INSTANCE ProofVoting WITH
  Txs        <- TxIDs,
  Actors     <- Accounts,
  Validators <- {"v"},
  Keys       <- {"k"},
  KeyOf      <- [n \in {"v"} |-> "k"],
  Weight     <- [n \in {"v"} |-> Weight],
  Word       <- MaxUint64 + 1,
  OwnTx      <- EmptyID,
  Blocks     <- {r.action.timeOutBlocks : r \in {q \in UNION Range(Requests) : IsVerify(q.action)}},
  library    <- [interned |-> env.interned, enforcesKeys |-> TRUE],
  stake      <- {"v"},
  timeOut    <- [id \in TxIDs |-> Stored(TimeOutKey(id))],
  weight     <- [id \in TxIDs |-> Stored(WeightKey(id))],
  status     <- {id \in TxIDs : ~VerifyStatus(id).err},
  votes      <- {va \in TxIDs \X Accounts : GetVote(store, va[1], va[2])}

\* Read back from the bytes, the records of every transaction, in a store that
\* also holds balances, roots and the chain's own keys, behave as ProofVoting
\* says: no key of storage.go collides with, hides or is cut into another.
VotingSpec == Voting!Spec
=============================================================================
