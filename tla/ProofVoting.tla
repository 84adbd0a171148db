---------------------------- MODULE ProofVoting ----------------------------
(***************************************************************************)
(* The on-chain life of a proof verification: a verify action (SP1,        *)
(* RiscZero, Miden, Jolt, PLONKY2) opens a voting window for its own       *)
(* transaction id, and ValidatorVote actions vote on it until the window's *)
(* deadline.  The state is the set of records that storage/storage.go      *)
(* keeps in the chain's key-value store, for the transactions of Txs.      *)
(*                                                                         *)
(* Two things the code leans on are outside src/.  The initial state       *)
(* chooses them, and no step changes them:                                 *)
(*   - library.interned: validator_vote.go compares *bls.PublicKey         *)
(*     pointers.  The library allocates a key per PublicKeyFromBytes, so   *)
(*     in the program as it is built no two are ever equal: FALSE.  TRUE   *)
(*     is a library that returns one object per key value, under which the *)
(*     rest of the vote's logic is reached.                                *)
(*   - library.enforcesKeys: the state view given to Execute refuses a     *)
(*     write of a key the action did not declare in StateKeys (as built,   *)
(*     TRUE).                                                              *)
(***************************************************************************)
EXTENDS Integers, FiniteSetsExt

CONSTANTS
  Txs,           \* ids of the verify transactions
  Actors,        \* accounts that send vote transactions
  Validators,    \* node ids that may be in the validator set
  Keys,          \* serialized BLS public keys
  KeyOf,         \* the key each validator registered
  Weight,        \* the stake of each validator
  OwnTx,         \* the id of a vote transaction itself: a hash, never one of Txs
  Word,          \* 2^64 in the program: weights are uint64
  Blocks,        \* the TimeOutBlocks a verify action may carry
  Times          \* the block timestamps, in milliseconds

ASSUME KeyAssumption     == KeyOf \in [Validators -> Keys]
ASSUME WeightAssumption  == /\ Word \in Nat \ {0}
                            /\ Weight \in [Validators -> 0 .. Word - 1]
ASSUME OwnTxAssumption   == OwnTx \notin Txs
ASSUME TimeAssumption    == Blocks \subseteq Nat /\ Times \subseteq Nat

VARIABLES
  library,    \* what the key library and the state view do
  now,        \* timestamp of the block being executed
  stake,      \* the node ids in the current validator set
  timeOut,    \* TimeOutKey records: the deadline of each transaction
  weight,     \* WeightKey records: the yes weight of each transaction
  status,     \* StatusKey records: the transactions marked verified
  votes,      \* VoteKey records: who voted on what
  opened,     \* history: the verify actions executed, with the requested timeout
  counted,    \* history: the votes whose loop body ran to its end
  succeeded   \* history: the ValidatorVote actions that returned success

chain   == <<timeOut, weight, status, votes>>
history == <<opened, counted, succeeded>>
vars    == <<library, now, stake, chain, history>>

NoRecord  == -1            \* database.ErrNotFound
Malformed == "malformed"   \* bytes that do not decode
Signatures == {Malformed, "mismatched", "valid"}

Libraries == [interned : BOOLEAN, enforcesKeys : BOOLEAN]
Opening == [tx : Txs, asked : Blocks, at : Times]
Counted == [tx : Txs, actor : Actors, node : Validators, vote : BOOLEAN, at : Times]

-----------------------------------------------------------------------------
(* State keys: what an action may write (external check, declared sets).   *)

\* Mutant: the status of the transaction voted on is declared.
StateKeys_Status(t, a) ==
  { <<"timeout", t>>, <<"weight", t>>, <<"status", t>>, <<"vote", t, a>> }

\* ValidatorVote.StateKeys: StatusKey is declared for the vote transaction's
\* own id, the other three records for the transaction voted on.
StateKeys(t, a) ==
  { <<"timeout", t>>, <<"weight", t>>, <<"status", OwnTx>>, <<"vote", t, a>> }

\* The state view's scope check on an Insert.
Writable(key, t, a) == library.enforcesKeys => key \in StateKeys(t, a)

-----------------------------------------------------------------------------
(* storage.go                                                              *)

\* The clamp in StoreTimeOut, and the conversion of seconds to milliseconds.
Clamp(asked)  == IF asked < 20 THEN 20 ELSE IF asked > 300 THEN 300 ELSE asked
Deadline(asked, ts) == ts + Clamp(asked) * 1000

StoreTimeOut(t, asked, ts) == timeOut' = [timeOut EXCEPT ![t] = Deadline(asked, ts)]

\* Mutants: the first vote is compared as well; a wider sum; the last weight only.
UpdateWeight_First(t, a, w, totalWeight) ==
  LET nW == IF weight[t] = NoRecord THEN w ELSE (weight[t] + w) % Word
  IN  /\ weight' = [weight EXCEPT ![t] = nW]
      /\ status' = IF nW >= totalWeight THEN status \cup {t} ELSE status
UpdateWeight_Wide(t, a, w, totalWeight) ==
  /\ weight' = [weight EXCEPT ![t] = IF @ = NoRecord THEN w ELSE @ + w]
  /\ UNCHANGED status
UpdateWeight_Last(t, a, w, totalWeight) ==
  /\ weight' = [weight EXCEPT ![t] = w]
  /\ UNCHANGED status

\* UpdateWeight: the first yes vote only creates the record.  Later ones add
\* without an overflow check, and compare with totalWeight; the error of the
\* status insert is dropped.
UpdateWeight(t, a, w, totalWeight) ==
  \/ /\ weight[t] = NoRecord
     /\ weight' = [weight EXCEPT ![t] = w]
     /\ UNCHANGED status
  \/ /\ weight[t] # NoRecord
     /\ LET nW == (weight[t] + w) % Word
        IN  /\ weight' = [weight EXCEPT ![t] = nW]
            /\ status' = IF nW > totalWeight /\ Writable(<<"status", t>>, t, a)
                         THEN status \cup {t} ELSE status

\* Mutants: the vote record is not looked up; it is not written.
GetVote_Never(t, a) == FALSE
StoreVote_Lost(t, a) == UNCHANGED votes

GetVote(t, a)   == <<t, a>> \in votes
StoreVote(t, a) == votes' = votes \cup {<<t, a>>}

-----------------------------------------------------------------------------
(* Execute of the actions                                                  *)

\* What Execute of every verify action does.  A transaction id is executed once
\* (the chain's replay protection), so its record is absent.
Verify(t, asked) ==
  /\ timeOut[t] = NoRecord
  /\ StoreTimeOut(t, asked, now)
  /\ opened' = opened \cup {[tx |-> t, asked |-> asked, at |-> now]}
  /\ UNCHANGED <<library, now, stake, weight, status, votes, counted, succeeded>>

\* The five verify actions differ only in the fields they carry for the prover.
\* Each declares the time-out record of its own id and decodes no time-out of 0.
SP1(t, asked)      == asked # 0 /\ Verify(t, asked)
RiscZero(t, asked) == asked # 0 /\ Verify(t, asked)
Miden(t, asked)    == asked # 0 /\ Verify(t, asked)
Jolt(t, asked)     == asked # 0 /\ Verify(t, asked)
PLONKY2(t, asked)  == asked # 0 /\ Verify(t, asked)

VerifyAction(t, asked) ==
  \/ SP1(t, asked) \/ RiscZero(t, asked) \/ Miden(t, asked)
  \/ Jolt(t, asked) \/ PLONKY2(t, asked)

\* Mutant: any block after the verify action's is in the window.
InWindow_Open(t) == timeOut[t] # NoRecord

\* GetTimeOut succeeds and the block is not past the deadline.
InWindow(t) == timeOut[t] # NoRecord /\ now <= timeOut[t]

\* publicKeys, the set of serialized keys of the current validators.
PublicKeys == {KeyOf[n] : n \in stake}

\* Mutant: the keys are compared, not the pointers.
Matching_Value(key) == {n \in stake : KeyOf[n] = key}

\* The iterations of the loop over validators whose body is entered:
\* vdr.PublicKey == pubKey is a comparison of pointers.
Matching(key) == {n \in stake : library.interned /\ KeyOf[n] = key}

\* Everything before the loop.
Reaches(t, key, sig) ==
  /\ InWindow(t)
  /\ key # Malformed
  /\ sig # Malformed
  /\ key \in PublicKeys

\* The loop body runs for validator n and for no other.  When a second
\* validator has the same key its GetVote finds the vote stored by the first,
\* the action fails and the view is discarded: that is VoteFails.  totalWeight
\* has only this validator's weight in it.
Counts(t, a, key, sig, n) ==
  /\ Matching(key) = {n}
  /\ sig = "valid"
  /\ ~GetVote(t, a)

VoteCounted(t, a, key, sig, vote, n) ==
  /\ Reaches(t, key, sig)
  /\ Counts(t, a, key, sig, n)
  /\ IF vote THEN UpdateWeight(t, a, Weight[n], Weight[n])
             ELSE UNCHANGED <<weight, status>>
  /\ StoreVote(t, a)
  /\ counted' = counted \cup
       {[tx |-> t, actor |-> a, node |-> n, vote |-> vote, at |-> now]}
  /\ succeeded' = succeeded \cup {<<t, a>>}
  /\ UNCHANGED <<library, now, stake, timeOut, opened>>

\* No iteration enters the body: the action succeeds and writes nothing.
VoteSkipped(t, a, key, sig) ==
  /\ Reaches(t, key, sig)
  /\ Matching(key) = {}
  /\ succeeded' = succeeded \cup {<<t, a>>}
  /\ UNCHANGED <<library, now, stake, chain, opened, counted>>

\* Execute returns false: the chain drops the action's writes.
VoteFails(t, a, key, sig) ==
  /\ \/ ~Reaches(t, key, sig)
     \/ /\ Matching(key) # {}
        /\ ~ \E n \in stake : Counts(t, a, key, sig, n)
  /\ UNCHANGED vars

ValidatorVote(t, a, key, sig, vote) ==
  \/ \E n \in stake : VoteCounted(t, a, key, sig, vote, n)
  \/ VoteSkipped(t, a, key, sig)
  \/ VoteFails(t, a, key, sig)

-----------------------------------------------------------------------------
(* Environment: blocks and the validator set                               *)

Block ==
  /\ \E ts \in Times : ts > now /\ now' = ts
  /\ UNCHANGED <<library, stake, chain, history>>

ValidatorsChange ==
  /\ \E S \in SUBSET Validators : S # stake /\ stake' = S
  /\ UNCHANGED <<library, now, chain, history>>

Init ==
  /\ library \in Libraries
  /\ now \in Times
  /\ stake = Validators
  /\ timeOut = [t \in Txs |-> NoRecord]
  /\ weight = [t \in Txs |-> NoRecord]
  /\ status = {}
  /\ votes = {}
  /\ opened = {}
  /\ counted = {}
  /\ succeeded = {}

Next ==
  \/ \E t \in Txs, asked \in Blocks : VerifyAction(t, asked)
  \/ \E t \in Txs, a \in Actors, key \in Keys \cup {Malformed},
        sig \in Signatures, vote \in BOOLEAN : ValidatorVote(t, a, key, sig, vote)
  \/ Block
  \/ ValidatorsChange

Spec == Init /\ [][Next]_vars

-----------------------------------------------------------------------------
(* Properties                                                              *)

\* Every record has the shape storage.go gives it: deadlines and uint64
\* weights, or no record at all.
TypeOK ==
  /\ library \in Libraries
  /\ now \in Times
  /\ stake \in SUBSET Validators
  /\ timeOut \in [Txs -> Nat \cup {NoRecord}]
  /\ weight \in [Txs -> (0 .. Word - 1) \cup {NoRecord}]
  /\ status \in SUBSET Txs
  /\ votes \in SUBSET (Txs \X Actors)
  /\ opened \in SUBSET Opening
  /\ counted \in SUBSET Counted
  /\ succeeded \in SUBSET (Txs \X Actors)

\* The window that the clamp in StoreTimeOut promises holds for every vote that
\* was counted, whatever time-out the verify action asked for: it was executed
\* in a block at or after the verify action's and at most 300 s later, and no
\* window is shorter than 20 s.
VotesInWindow ==
  /\ \A c \in counted : \E o \in opened :
       o.tx = c.tx /\ o.at <= c.at /\ c.at <= o.at + 300000
  /\ \A o \in opened : timeOut[o.tx] >= o.at + 20000

\* Across all the validators an account can sign with, and both values of the
\* vote, GetVote and StoreVote let it be counted once per transaction.
OneVotePerAccount ==
  \A c, d \in counted : c.tx = d.tx /\ c.actor = d.actor => c = d

Yes(t) == {c \in counted : c.tx = t /\ c.vote}

\* The weight record is the sum, in uint64 arithmetic, of the stake behind the
\* yes votes that were counted, and is absent exactly when there are none: a
\* vote that fails half-way and a no vote leave nothing behind.
WeightIsTally ==
  \A t \in Txs :
    weight[t] = IF Yes(t) = {} THEN NoRecord
                ELSE MapThenSumSet(LAMBDA c : Weight[c.node], Yes(t)) % Word

\* UpdateWeight marks a transaction verified only on a second yes vote, of
\* another account than the first's.
StatusNeedsTwoYes ==
  \A t \in status : \E c, d \in Yes(t) : c.actor # d.actor

\* After the deadline nothing about the transaction changes any more, and the
\* deadline itself never moves, whatever blocks and votes follow.
ClosedIsFinal ==
  [][\A t \in Txs : timeOut[t] # NoRecord =>
       /\ timeOut'[t] = timeOut[t]
       /\ now > timeOut[t] => /\ weight'[t] = weight[t]
                              /\ t \in status' <=> t \in status
                              /\ \A a \in Actors : GetVote(t, a)' <=> GetVote(t, a)
    ]_vars

\* With the library as it is built, no vote ever reaches the loop body of
\* ValidatorVote.Execute: no weight, vote or status record is ever written.
VotesHaveNoEffect ==
  ~library.interned =>
    votes = {} /\ status = {} /\ \A t \in Txs : weight[t] = NoRecord

\* The status record of a transaction voted on is not among the keys that
\* StateKeys declares, so where the view enforces them it is never written,
\* whoever votes and with whatever weight.
StatusNeverWritten == library.enforcesKeys => status = {}

-----------------------------------------------------------------------------
(* The inductive invariant                                                 *)

\* The vote records are exactly the votes counted, one each.
VotesAreCounted ==
  /\ \A t \in Txs, a \in Actors :
       GetVote(t, a) <=> \E c \in counted : c.tx = t /\ c.actor = a
  /\ OneVotePerAccount

\* A weight record exists exactly for the transactions with a yes vote.
WeightHasYes == \A t \in Txs : weight[t] # NoRecord <=> Yes(t) # {}

\* Every deadline was set by a verify action of an earlier or this block, and
\* every vote counted came between the two.
WindowsFromOpenings ==
  /\ \A t \in Txs : timeOut[t] # NoRecord => \E o \in opened : o.tx = t
  /\ \A o \in opened : timeOut[o.tx] = Deadline(o.asked, o.at) /\ o.at <= now
  /\ \A c \in counted : \E o \in opened :
       o.tx = c.tx /\ o.at <= c.at /\ c.at <= timeOut[c.tx]

\* The invariant that every action of the chain preserves, from which the
\* others follow: records, tallies and windows agree with what was executed.
VotingInv ==
  TypeOK /\ VotesAreCounted /\ WeightHasYes /\ WindowsFromOpenings /\ StatusNeedsTwoYes

-----------------------------------------------------------------------------
(* The abstract ballot that this module implements                         *)

Window(t) == IF timeOut[t] = NoRecord THEN "none"
             ELSE IF now <= timeOut[t] THEN "open" ELSE "closed"

B == INSTANCE Ballot WITH
       window   <- [t \in Txs |-> Window(t)],
       taken    <- votes,
       approved <- {t \in Txs : weight[t] # NoRecord},
       verified <- status

\* ValidatorVote, StoreTimeOut and the block clock together implement the
\* ballot: every step of the chain is a step of Ballot or leaves it alone.
BallotSpec == B!Spec

-----------------------------------------------------------------------------
(* Statements of the repository that the code does not meet                *)

\* README.md:23: the minimum time-out is 10 blocks and the maximum 300, so a
\* request between them is kept.
RequestedTimeOutKept ==
  \A o \in opened : o.asked \in 10 .. 300 => timeOut[o.tx] = o.at + o.asked * 1000

\* validator_vote.go:114, "proceed if pubkey exists in the list of
\* validators": a vote that passed every check and succeeded is recorded.
SuccessIsRecorded == succeeded \subseteq votes

\* cmd/morpheus-cli/cmd/resolutions.go:70, "successfully verified sp1 proof of
\* image id", printed when the verify action has succeeded: the transaction is
\* marked verified.
SuccessMeansVerified == \A o \in opened : o.tx \in status

\* validator_vote.go:139, "check if this validator voted earlier -> if so dont
\* add": no validator is counted twice on one transaction.
OneVotePerValidator ==
  \A c, d \in counted : c.tx = d.tx /\ c.node = d.node => c = d
=============================================================================
