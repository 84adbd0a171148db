------------------------- MODULE ProofVotingProofs -------------------------
(***************************************************************************)
(* Theorems about ProofVoting, for every set of transactions, accounts,    *)
(* validators and keys, every assignment of stake, every width of the      *)
(* weight word, and both kinds of key library and state view.              *)
(***************************************************************************)
EXTENDS ProofVoting, Sums

-----------------------------------------------------------------------------
(* Type correctness                                                        *)

\* A deadline is a natural number of milliseconds between 20 s and 300 s after
\* the block: what the clamp in StoreTimeOut yields for any request.
LEMMA DeadlineBounds ==
  ASSUME NEW asked \in Blocks, NEW ts \in Times
  PROVE  /\ Deadline(asked, ts) \in Nat
         /\ ts + 20000 <= Deadline(asked, ts)
         /\ Deadline(asked, ts) <= ts + 300000
BY TimeAssumption DEF Deadline, Clamp

\* UpdateWeight leaves a uint64 in the weight record of its transaction, and
\* changes no other transaction's.
LEMMA UpdateWeightType ==
  ASSUME TypeOK, NEW t \in Txs, NEW a \in Actors, NEW n \in Validators,
         UpdateWeight(t, a, Weight[n], Weight[n])
  PROVE  /\ weight' \in [Txs -> (0 .. Word - 1) \cup {NoRecord}]
         /\ weight'[t] # NoRecord
         /\ \A u \in Txs : u # t => weight'[u] = weight[u]
         /\ status' \in SUBSET Txs
<1>1. Weight[n] \in 0 .. Word - 1
  BY WeightAssumption
<1>2. CASE weight[t] = NoRecord
  BY <1>1, <1>2 DEF UpdateWeight, TypeOK, NoRecord
<1>3. CASE weight[t] # NoRecord
  <2>1. weight[t] \in 0 .. Word - 1
    BY <1>3 DEF TypeOK
  <2>2. (weight[t] + Weight[n]) % Word \in 0 .. Word - 1
    BY <1>1, <2>1, WeightAssumption
  <2> QED
    BY <1>3, <2>2 DEF UpdateWeight, TypeOK, NoRecord
<1> QED BY <1>2, <1>3

\* Whatever its kind, a verify action opens a window and does nothing else.
LEMMA VerifyActionVerifies ==
  ASSUME NEW t \in Txs, NEW asked \in Blocks, VerifyAction(t, asked)
  PROVE  Verify(t, asked)
BY DEF VerifyAction, SP1, RiscZero, Miden, Jolt, PLONKY2

\* Each action of the actions package, and each environment step, leaves every
\* record in the shape storage.go gives it.
LEMMA TypeStep == TypeOK /\ [Next]_vars => TypeOK'
<1> SUFFICES ASSUME TypeOK, [Next]_vars PROVE TypeOK'
  OBVIOUS
<1>1. ASSUME NEW t \in Txs, NEW asked \in Blocks, Verify(t, asked) PROVE TypeOK'
  <2>1. now \in Times /\ Deadline(asked, now) \in Nat
    BY DeadlineBounds DEF TypeOK
  <2>2. [tx |-> t, asked |-> asked, at |-> now] \in Opening
    BY <2>1 DEF Opening
  <2> QED BY <1>1, <2>1, <2>2 DEF Verify, StoreTimeOut, TypeOK
<1>2. ASSUME NEW t \in Txs, NEW a \in Actors, NEW key, NEW sig, NEW vote \in BOOLEAN,
             NEW n \in stake, VoteCounted(t, a, key, sig, vote, n)
      PROVE  TypeOK'
  <2>1. n \in Validators
    BY DEF TypeOK
  <2>2. /\ weight' \in [Txs -> (0 .. Word - 1) \cup {NoRecord}]
        /\ status' \in SUBSET Txs
    <3>1. CASE vote
      BY <1>2, <2>1, <3>1, UpdateWeightType DEF VoteCounted
    <3>2. CASE ~vote
      BY <1>2, <3>2 DEF VoteCounted, TypeOK
    <3> QED BY <3>1, <3>2
  <2>3. [tx |-> t, actor |-> a, node |-> n, vote |-> vote, at |-> now] \in Counted
    BY <2>1 DEF Counted, TypeOK
  <2>4. <<t, a>> \in Txs \X Actors
    OBVIOUS
  <2> QED BY <1>2, <2>2, <2>3, <2>4 DEF VoteCounted, StoreVote, TypeOK
<1>3. ASSUME NEW t \in Txs, NEW a \in Actors, NEW key, NEW sig, VoteSkipped(t, a, key, sig)
      PROVE  TypeOK'
  BY <1>3 DEF VoteSkipped, TypeOK, chain
<1>4. CASE Block
  BY <1>4 DEF Block, TypeOK, chain, history
<1>5. CASE ValidatorsChange
  BY <1>5 DEF ValidatorsChange, TypeOK, chain, history
<1>6. CASE UNCHANGED vars
  BY <1>6 DEF TypeOK, vars, chain, history
<1> QED BY <1>1, <1>2, <1>3, <1>4, <1>5, <1>6, VerifyActionVerifies
        DEF Next, ValidatorVote, VoteFails

\* The type invariant of the voting records.
THEOREM TypeCorrect == Spec => []TypeOK
<1>1. Init => TypeOK
  BY DEF Init, TypeOK
<1> QED BY <1>1, TypeStep, PTL DEF Spec

-----------------------------------------------------------------------------
(* The invariant of the voting records                                     *)

\* A recorded deadline belongs to no later opening of the same transaction.
LEMMA OpenedHasDeadline ==
  ASSUME TypeOK, WindowsFromOpenings, NEW o \in opened
  PROVE  /\ o.tx \in Txs /\ o.asked \in Blocks /\ o.at \in Times
         /\ timeOut[o.tx] # NoRecord
         /\ timeOut[o.tx] \in Nat
         /\ o.at + 20000 <= timeOut[o.tx]
         /\ timeOut[o.tx] <= o.at + 300000
<1>1. o.tx \in Txs /\ o.asked \in Blocks /\ o.at \in Times
  BY DEF TypeOK, Opening
<1>2. timeOut[o.tx] = Deadline(o.asked, o.at)
  BY DEF WindowsFromOpenings
<1>3. /\ Deadline(o.asked, o.at) \in Nat
      /\ o.at + 20000 <= Deadline(o.asked, o.at)
      /\ Deadline(o.asked, o.at) <= o.at + 300000
  BY <1>1, DeadlineBounds
<1> QED BY <1>1, <1>2, <1>3 DEF NoRecord

\* Executing a verify action opens a window of its own and disturbs no other.
LEMMA VerifyKeepsInv ==
  ASSUME VotingInv, NEW t \in Txs, NEW asked \in Blocks, Verify(t, asked)
  PROVE  VotesAreCounted' /\ WeightHasYes' /\ WindowsFromOpenings' /\ StatusNeedsTwoYes'
<1> USE DEF VotingInv
<1>1. VotesAreCounted' /\ WeightHasYes' /\ StatusNeedsTwoYes'
  BY DEF Verify, VotesAreCounted, GetVote, OneVotePerAccount, WeightHasYes,
         StatusNeedsTwoYes, Yes
<1>2. \A o \in opened : o.tx # t
  BY OpenedHasDeadline DEF Verify
<1>3. now \in Nat /\ timeOut' = [timeOut EXCEPT ![t] = Deadline(asked, now)]
  BY TimeAssumption DEF TypeOK, Verify, StoreTimeOut
<1> DEFINE new == [tx |-> t, asked |-> asked, at |-> now]
<1>4. opened' = opened \cup {new} /\ counted' = counted /\ now' = now
  BY DEF Verify
<1>5. \A u \in Txs : timeOut'[u] # NoRecord => \E o \in opened' : o.tx = u
  <2> SUFFICES ASSUME NEW u \in Txs, timeOut'[u] # NoRecord
               PROVE  \E o \in opened' : o.tx = u
    OBVIOUS
  <2>1. CASE u = t
    <3>1. new \in opened' /\ new.tx = t
      BY <1>4
    <3> QED BY <2>1, <3>1
  <2>2. CASE u # t
    BY <1>3, <1>4, <2>2 DEF WindowsFromOpenings, TypeOK
  <2> QED BY <2>1, <2>2
<1>6. \A o \in opened' : timeOut'[o.tx] = Deadline(o.asked, o.at) /\ o.at <= now'
  <2>1. \A o \in opened : o.tx \in Txs /\ timeOut'[o.tx] = timeOut[o.tx]
    BY <1>2, <1>3, OpenedHasDeadline DEF TypeOK
  <2>2. timeOut'[t] = Deadline(asked, now)
    BY <1>3 DEF TypeOK
  <2> QED BY <1>3, <1>4, <2>1, <2>2 DEF WindowsFromOpenings
<1>7. \A c \in counted' : \E o \in opened' :
        o.tx = c.tx /\ o.at <= c.at /\ c.at <= timeOut'[c.tx]
  BY <1>2, <1>3, <1>4, OpenedHasDeadline DEF WindowsFromOpenings, TypeOK
<1> QED BY <1>1, <1>5, <1>6, <1>7 DEF WindowsFromOpenings

\* A vote that runs the loop body adds itself, once, to the records.
LEMMA VoteCountedKeepsInv ==
  ASSUME VotingInv, NEW t \in Txs, NEW a \in Actors, NEW key, NEW sig,
         NEW vote \in BOOLEAN, NEW n \in stake, VoteCounted(t, a, key, sig, vote, n)
  PROVE  VotesAreCounted' /\ WeightHasYes' /\ WindowsFromOpenings' /\ StatusNeedsTwoYes'
<1> USE DEF VotingInv
<1> DEFINE new == [tx |-> t, actor |-> a, node |-> n, vote |-> vote, at |-> now]
<1>1. /\ InWindow(t) /\ <<t, a>> \notin votes
      /\ votes' = votes \cup {<<t, a>>} /\ counted' = counted \cup {new}
      /\ UNCHANGED <<now, timeOut, opened>>
  BY DEF VoteCounted, Reaches, Counts, GetVote, StoreVote
<1>2. n \in Validators /\ Weight[n] \in 0 .. Word - 1
  BY WeightAssumption DEF TypeOK
<1>3. VotesAreCounted'
  <2>1. \A u \in Txs, b \in Actors :
          GetVote(u, b)' <=> \E c \in counted' : c.tx = u /\ c.actor = b
    <3> SUFFICES ASSUME NEW u \in Txs, NEW b \in Actors
                 PROVE  GetVote(u, b)' <=> \E c \in counted' : c.tx = u /\ c.actor = b
      OBVIOUS
    <3>1. GetVote(u, b)' <=> GetVote(u, b) \/ (u = t /\ b = a)
      BY <1>1 DEF GetVote
    <3>2. (\E c \in counted' : c.tx = u /\ c.actor = b)
            <=> (\E c \in counted : c.tx = u /\ c.actor = b) \/ (t = u /\ a = b)
      <4>1. new.tx = t /\ new.actor = a
        OBVIOUS
      <4> HIDE DEF new
      <4> QED BY <1>1, <4>1
    <3> QED BY <3>1, <3>2 DEF VotesAreCounted
  <2>2. \A c \in counted : ~(c.tx = t /\ c.actor = a)
    BY <1>1 DEF VotesAreCounted, GetVote
  <2> QED BY <1>1, <2>1, <2>2 DEF VotesAreCounted, OneVotePerAccount
<1>4. \A u \in Txs : Yes(u)' = IF vote /\ u = t THEN Yes(u) \cup {new} ELSE Yes(u)
  BY <1>1 DEF Yes
<1>5. WeightHasYes'
  <2>1. CASE vote
    <3>1. UpdateWeight(t, a, Weight[n], Weight[n])
      BY <2>1 DEF VoteCounted
    <3>2. weight'[t] # NoRecord /\ \A u \in Txs : u # t => weight'[u] = weight[u]
      BY <1>2, <3>1, UpdateWeightType
    <3>3. new \in Yes(t)'
      BY <1>4, <2>1
    <3> QED BY <1>4, <2>1, <3>2, <3>3 DEF WeightHasYes
  <2>2. CASE ~vote
    BY <1>4, <2>2 DEF WeightHasYes, VoteCounted
  <2> QED BY <2>1, <2>2
<1>6. WindowsFromOpenings'
  <2>1. \A c \in counted' : \E o \in opened' :
          o.tx = c.tx /\ o.at <= c.at /\ c.at <= timeOut'[c.tx]
    <3>1. PICK o \in opened : o.tx = t
      BY <1>1 DEF InWindow, WindowsFromOpenings
    <3>2. o.at <= new.at /\ new.at <= timeOut[t]
      BY <1>1, <3>1 DEF InWindow, WindowsFromOpenings
    <3> QED BY <1>1, <3>1, <3>2 DEF WindowsFromOpenings
  <2> QED BY <1>1, <2>1 DEF WindowsFromOpenings
<1>7. StatusNeedsTwoYes'
  <2>1. \A u \in Txs : Yes(u) \subseteq Yes(u)'
    BY <1>4
  <2>2. CASE status' = status
    <3>1. status \subseteq Txs
      BY DEF TypeOK
    <3> QED BY <2>1, <2>2, <3>1 DEF StatusNeedsTwoYes
  <2>3. CASE status' # status
    <3>1. vote /\ weight[t] # NoRecord /\ status' \subseteq status \cup {t}
      BY <2>3 DEF VoteCounted, UpdateWeight
    <3>2. PICK c \in Yes(t) : TRUE
      BY <3>1 DEF WeightHasYes
    <3>3. c.actor # a
      BY <1>1, <3>2 DEF VotesAreCounted, GetVote, Yes
    <3>4. new \in Yes(t)' /\ c \in Yes(t)'
      BY <1>4, <3>1, <3>2
    <3>5. \E d, e \in Yes(t)' : d.actor # e.actor
      BY <3>3, <3>4
    <3>6. status \subseteq Txs
      BY DEF TypeOK
    <3>7. \A u \in status : \E d, e \in Yes(u)' : d.actor # e.actor
      BY <2>1, <3>6 DEF StatusNeedsTwoYes
    <3> QED BY <3>1, <3>5, <3>7 DEF StatusNeedsTwoYes
  <2> QED BY <2>2, <2>3
<1> QED BY <1>3, <1>5, <1>6, <1>7

\* The records that the invariant reads are left alone by the other steps.
LEMMA QuietKeepsInv ==
  ASSUME VotingInv, now' \in Times, now <= now', UNCHANGED <<chain, opened, counted>>
  PROVE  VotesAreCounted' /\ WeightHasYes' /\ WindowsFromOpenings' /\ StatusNeedsTwoYes'
<1>1. UNCHANGED <<timeOut, weight, status, votes, opened, counted>>
  BY DEF chain
<1>2. VotesAreCounted' /\ WeightHasYes' /\ StatusNeedsTwoYes'
  BY <1>1 DEF VotingInv, VotesAreCounted, GetVote, OneVotePerAccount, WeightHasYes,
              StatusNeedsTwoYes, Yes
<1>3. \A o \in opened : o.at \in Nat /\ o.at <= now
  BY TimeAssumption DEF VotingInv, WindowsFromOpenings, TypeOK, Opening
<1>4. \A o \in opened : o.at <= now'
  <2>1. now \in Nat /\ now' \in Nat
    BY TimeAssumption DEF VotingInv, TypeOK
  <2> QED BY <1>3, <2>1
<1> QED BY <1>1, <1>2, <1>4 DEF VotingInv, WindowsFromOpenings

\* Every step of the chain preserves the invariant.
LEMMA VotingInvStep == VotingInv /\ [Next]_vars => VotingInv'
<1> SUFFICES ASSUME VotingInv, [Next]_vars PROVE VotingInv'
  OBVIOUS
<1>1. TypeOK'
  BY TypeStep DEF VotingInv
<1>2. now \in Nat
  BY TimeAssumption DEF VotingInv, TypeOK
<1>3. now' \in Times
  BY <1>1 DEF TypeOK
<1>4. VotesAreCounted' /\ WeightHasYes' /\ WindowsFromOpenings' /\ StatusNeedsTwoYes'
  <2>1. ASSUME NEW t \in Txs, NEW asked \in Blocks, Verify(t, asked)
        PROVE  VotesAreCounted' /\ WeightHasYes' /\ WindowsFromOpenings' /\ StatusNeedsTwoYes'
    BY <2>1, VerifyKeepsInv
  <2>2. ASSUME NEW t \in Txs, NEW a \in Actors, NEW key, NEW sig, NEW vote \in BOOLEAN,
               NEW n \in stake, VoteCounted(t, a, key, sig, vote, n)
        PROVE  VotesAreCounted' /\ WeightHasYes' /\ WindowsFromOpenings' /\ StatusNeedsTwoYes'
    BY <2>2, VoteCountedKeepsInv
  <2>3. ASSUME UNCHANGED <<now, chain, opened, counted>>
        PROVE  VotesAreCounted' /\ WeightHasYes' /\ WindowsFromOpenings' /\ StatusNeedsTwoYes'
    BY <1>2, <1>3, <2>3, QuietKeepsInv
  <2>4. ASSUME NEW t \in Txs, NEW a \in Actors, NEW key, NEW sig, VoteSkipped(t, a, key, sig)
        PROVE  UNCHANGED <<now, chain, opened, counted>>
    BY <2>4 DEF VoteSkipped
  <2>5. ASSUME Block
        PROVE  VotesAreCounted' /\ WeightHasYes' /\ WindowsFromOpenings' /\ StatusNeedsTwoYes'
    <3>1. now <= now' /\ UNCHANGED <<chain, opened, counted>>
      BY <1>2, <2>5, TimeAssumption DEF Block, history
    <3> QED BY <1>3, <3>1, QuietKeepsInv
  <2>6. ASSUME ValidatorsChange
        PROVE  UNCHANGED <<now, chain, opened, counted>>
    BY <2>6 DEF ValidatorsChange, history
  <2>7. ASSUME UNCHANGED vars
        PROVE  UNCHANGED <<now, chain, opened, counted>>
    BY <2>7 DEF vars, history
  <2> QED
    BY <2>1, <2>2, <2>3, <2>4, <2>5, <2>6, <2>7, VerifyActionVerifies
    DEF Next, ValidatorVote, VoteFails
<1> QED BY <1>1, <1>4 DEF VotingInv

\* Records, tallies and windows agree with what was executed, in every
\* reachable state.
THEOREM VotingInvariant == Spec => []VotingInv
<1>1. Init => VotingInv
  <2> SUFFICES ASSUME Init PROVE VotingInv
    OBVIOUS
  <2>1. TypeOK
    BY DEF Init, TypeOK
  <2>2. VotesAreCounted /\ WeightHasYes /\ WindowsFromOpenings /\ StatusNeedsTwoYes
    BY DEF Init, VotesAreCounted, GetVote, OneVotePerAccount, WeightHasYes, Yes,
           WindowsFromOpenings, StatusNeedsTwoYes
  <2> QED BY <2>1, <2>2 DEF VotingInv
<1> QED BY <1>1, VotingInvStep, PTL DEF Spec

-----------------------------------------------------------------------------
(* What follows from the invariant                                         *)

\* Votes are counted only between the verify action's block and 300 s later,
\* and no window is shorter than 20 s: the clamp of StoreTimeOut.
THEOREM WindowSafety == Spec => []VotesInWindow
<1>1. VotingInv => VotesInWindow
  <2> SUFFICES ASSUME VotingInv PROVE VotesInWindow
    OBVIOUS
  <2>1. \A o \in opened : /\ o.at \in Nat /\ timeOut[o.tx] \in Nat
                          /\ o.at + 20000 <= timeOut[o.tx]
                          /\ timeOut[o.tx] <= o.at + 300000
    <3> SUFFICES ASSUME NEW o \in opened
                 PROVE  /\ o.at \in Nat /\ timeOut[o.tx] \in Nat
                        /\ o.at + 20000 <= timeOut[o.tx]
                        /\ timeOut[o.tx] <= o.at + 300000
      OBVIOUS
    <3>1. TypeOK /\ WindowsFromOpenings
      BY DEF VotingInv
    <3>2. /\ timeOut[o.tx] \in Nat
          /\ o.at + 20000 <= timeOut[o.tx]
          /\ timeOut[o.tx] <= o.at + 300000
      BY <3>1, OpenedHasDeadline
    <3>3. o.at \in Times
      BY <3>1, OpenedHasDeadline
    <3>4. o.at \in Nat
      BY <3>3, TimeAssumption
    <3> QED BY <3>2, <3>4
  <2>2. ASSUME NEW c \in counted
        PROVE  \E o \in opened : o.tx = c.tx /\ o.at <= c.at /\ c.at <= o.at + 300000
    <3>1. c.at \in Nat
      BY TimeAssumption DEF VotingInv, TypeOK, Counted
    <3>2. PICK o \in opened : o.tx = c.tx /\ o.at <= c.at /\ c.at <= timeOut[c.tx]
      BY DEF VotingInv, WindowsFromOpenings
    <3> QED BY <2>1, <3>1, <3>2
  <2> QED BY <2>1, <2>2 DEF VotesInWindow
<1> QED BY <1>1, VotingInvariant, PTL

\* GetVote and StoreVote count an account once on a transaction, with whatever
\* keys it signs and however it votes.
THEOREM AccountSafety == Spec => []OneVotePerAccount
<1>1. VotingInv => OneVotePerAccount
  BY DEF VotingInv, VotesAreCounted
<1> QED BY <1>1, VotingInvariant, PTL

\* A transaction is marked verified only on yes votes of two accounts.
THEOREM StatusSafety == Spec => []StatusNeedsTwoYes
<1>1. VotingInv => StatusNeedsTwoYes
  BY DEF VotingInv
<1> QED BY <1>1, VotingInvariant, PTL

\* After its deadline a transaction's weight, votes and status are final, and
\* the deadline of an opened window never moves.
THEOREM ClosedFinality == Spec => ClosedIsFinal
<1> DEFINE Final(t) ==
      timeOut[t] # NoRecord =>
        /\ timeOut'[t] = timeOut[t]
        /\ now > timeOut[t] => /\ weight'[t] = weight[t]
                               /\ t \in status' <=> t \in status
                               /\ \A a \in Actors : GetVote(t, a)' <=> GetVote(t, a)
<1>1. ASSUME TypeOK, [Next]_vars PROVE \A t \in Txs : Final(t)
  <2> SUFFICES ASSUME NEW t \in Txs PROVE Final(t)
    OBVIOUS
  <2>1. ASSUME NEW u \in Txs, NEW asked \in Blocks, Verify(u, asked) PROVE Final(t)
    BY <1>1, <2>1 DEF Verify, StoreTimeOut, TypeOK, GetVote
  <2>2. ASSUME NEW u \in Txs, NEW a \in Actors, NEW key, NEW sig, NEW vote \in BOOLEAN,
               NEW n \in stake, VoteCounted(u, a, key, sig, vote, n)
        PROVE  Final(t)
    <3>1. timeOut' = timeOut /\ votes' = votes \cup {<<u, a>>} /\ InWindow(u)
      BY <2>2 DEF VoteCounted, StoreVote, Reaches
    <3>2. CASE t = u
      <4>1. ~ (now > timeOut[t])
        BY <1>1, <3>1, <3>2, TimeAssumption DEF InWindow, TypeOK
      <4> QED BY <3>1, <4>1
    <3>3. CASE t # u
      <4>1. weight'[t] = weight[t]
        BY <1>1, <2>2, <3>3 DEF VoteCounted, UpdateWeight, TypeOK
      <4>2. t \in status' <=> t \in status
        BY <2>2, <3>3 DEF VoteCounted, UpdateWeight
      <4>3. \A b \in Actors : GetVote(t, b)' <=> GetVote(t, b)
        BY <3>1, <3>3 DEF GetVote
      <4> QED BY <3>1, <4>1, <4>2, <4>3
    <3> QED BY <3>2, <3>3
  <2>3. ASSUME UNCHANGED chain PROVE Final(t)
    BY <2>3 DEF chain, GetVote
  <2> QED
    BY <1>1, <2>1, <2>2, <2>3, VerifyActionVerifies
    DEF Next, ValidatorVote, VoteSkipped, VoteFails, Block, ValidatorsChange, vars
<1>2. TypeOK /\ [Next]_vars => [\A t \in Txs : Final(t)]_vars
  BY <1>1
<1> QED BY <1>2, TypeCorrect, PTL DEF Spec, ClosedIsFinal

\* What the key library and the state view do is not up to the chain.
LEMMA LibraryIsFixed == [Next]_vars => UNCHANGED library
BY VerifyActionVerifies DEF Next, Verify, ValidatorVote, VoteCounted, VoteSkipped,
   VoteFails, Block, ValidatorsChange, vars

\* With a library that allocates a key per decoding, as built, a vote is never
\* recorded, whatever the validators, accounts and votes.
THEOREM BuiltVotesHaveNoEffect == Spec => []VotesHaveNoEffect
<1>1. Init => VotesHaveNoEffect
  BY DEF Init, VotesHaveNoEffect
<1>2. VotesHaveNoEffect /\ [Next]_vars => VotesHaveNoEffect'
  <2> SUFFICES ASSUME VotesHaveNoEffect, [Next]_vars PROVE VotesHaveNoEffect'
    OBVIOUS
  <2>1. ASSUME NEW t \in Txs, NEW a \in Actors, NEW key, NEW sig, NEW vote,
               NEW n \in stake, VoteCounted(t, a, key, sig, vote, n)
        PROVE  library.interned
    BY <2>1 DEF VoteCounted, Counts, Matching
  <2>2. library.interned \/ UNCHANGED <<weight, status, votes>>
    BY <2>1, VerifyActionVerifies DEF Next, Verify, ValidatorVote, VoteSkipped, VoteFails, Block,
                ValidatorsChange, vars, chain
  <2>3. UNCHANGED library
    BY LibraryIsFixed
  <2> QED BY <2>2, <2>3 DEF VotesHaveNoEffect
<1> QED BY <1>1, <1>2, PTL DEF Spec

\* With a state view that enforces the declared keys, as built, no transaction is
\* ever marked verified, however much stake votes yes.
THEOREM UndeclaredStatus == Spec => []StatusNeverWritten
<1>1. Init => StatusNeverWritten
  BY DEF Init, StatusNeverWritten
<1>2. StatusNeverWritten /\ [Next]_vars => StatusNeverWritten'
  <2> SUFFICES ASSUME StatusNeverWritten, [Next]_vars PROVE StatusNeverWritten'
    OBVIOUS
  <2>1. ASSUME library.enforcesKeys, NEW t \in Txs, NEW a
        PROVE  ~Writable(<<"status", t>>, t, a)
    BY <2>1, OwnTxAssumption DEF Writable, StateKeys
  <2>2. ASSUME NEW t \in Txs, NEW a \in Actors, NEW key, NEW sig, NEW vote,
               NEW n \in stake, VoteCounted(t, a, key, sig, vote, n)
        PROVE  library.enforcesKeys => UNCHANGED status
    BY <2>1, <2>2 DEF VoteCounted, UpdateWeight
  <2>3. library.enforcesKeys => UNCHANGED status
    BY <2>2, VerifyActionVerifies DEF Next, Verify, ValidatorVote, VoteSkipped, VoteFails, Block,
                ValidatorsChange, vars, chain
  <2>4. UNCHANGED library
    BY LibraryIsFixed
  <2> QED BY <2>3, <2>4 DEF StatusNeverWritten
<1> QED BY <1>1, <1>2, PTL DEF Spec
-----------------------------------------------------------------------------
(* Sums in uint64 arithmetic                                               *)

\* A sum reduced at each addition is the sum reduced at the end.
LEMMA ModAdd ==
  ASSUME NEW W \in Nat \ {0}, NEW a \in Int, NEW b \in Int
  PROVE  ((a % W) + b) % W = (a + b) % W
<1> DEFINE p == a \div W
           s == a % W
           q == (s + b) \div W
           r == (s + b) % W
           c == a + b
           d == p + q
<1>1. s \in 0 .. W - 1 /\ p \in Int /\ a = W * p + s
  BY ModDef
<1>2. r \in 0 .. W - 1 /\ q \in Int /\ s + b = W * q + r
  <2>1. s + b \in Int
    BY <1>1
  <2> HIDE DEF s
  <2> QED BY <2>1, ModDef
<1> HIDE DEF p, s, q, r
<1>3. c = W * d + r
  <2>1. W * (p + q) = W * p + W * q
    BY <1>1, <1>2
  <2> QED BY <1>1, <1>2, <2>1
<1>4. c \in Int /\ d \in Int
  BY <1>1, <1>2
<1>5. c % W = r
  <2> HIDE DEF c, d
  <2> QED BY <1>2, <1>3, <1>4, ModUnique
<1> QED BY <1>5 DEF s, r

-----------------------------------------------------------------------------
(* The weight record is the tally                                          *)

\* The stake behind a set of votes: the sum in WeightIsTally.
Tally(S) == MapThenSumSet(LAMBDA c : Weight[c.node], S)

\* The same sum as a function of the votes.
StakeOf(S) == [c \in S |-> Weight[c.node]]

\* Each vote carries the stake of a validator.
LEMMA StakeOfType ==
  ASSUME NEW S \in SUBSET Counted
  PROVE  StakeOf(S) \in [S -> Nat]
BY WeightAssumption DEF StakeOf, Counted

\* Tally is the sum of the stakes.
LEMMA TallyIsSum ==
  ASSUME NEW S, S \in SUBSET Counted, IsFiniteSet(S)
  PROVE  Tally(S) = Sum(StakeOf(S), S)
<1> DEFINE w == StakeOf(S)
           P(h) == h = [s \in SUBSET S |->
                          IF s = {} THEN 0 ELSE Weight[Pick(s).node] + h[s \ {Pick(s)}]]
<1>1. w \in [S -> Int]
  BY StakeOfType
<1>2. ASSUME NEW s \in SUBSET S, s # {} PROVE Weight[Pick(s).node] = w[Pick(s)]
  BY <1>2, PickIn DEF StakeOf
<1>3. \A h : P(h) <=> IsSum(h, w, S)
  <2> HIDE DEF w
  <2> QED BY <1>2 DEF IsSum
<1>4. \E h : P(h)
  <2> HIDE DEF P, w
  <2> QED BY <1>1, <1>3, SumExists
<1>5. P(CHOOSE h : P(h))
  <2> HIDE DEF P
  <2> QED BY <1>4
<1>6. Tally(S) = (CHOOSE h : P(h))[S]
  BY DEF Tally, MapThenSumSet, MapThenFoldSet, Pick
<1>7. IsSum(CHOOSE h : P(h), w, S)
  <2> HIDE DEF P, w
  <2> QED BY <1>3, <1>5
<1> HIDE DEF P, w
<1>8. Sum(w, S) = (CHOOSE h : P(h))[S]
  BY <1>7, SumIs
<1> QED BY <1>6, <1>8 DEF w

\* One more vote adds its validator's stake.
LEMMA TallyAdd ==
  ASSUME NEW S, S \in SUBSET Counted, IsFiniteSet(S), NEW c, c \in Counted, c \notin S
  PROVE  /\ Tally(S) \in Nat
         /\ S = {} => Tally(S) = 0
         /\ Tally(S \cup {c}) = Tally(S) + Weight[c.node]
<1> DEFINE T == S \cup {c}
           w == StakeOf(T)
           v == StakeOf(S)
<1>1. T \in SUBSET Counted /\ IsFiniteSet(T) /\ S \in SUBSET T /\ T \ {c} = S /\ c \in T
  BY FS_AddElement
<1>2. w \in [T -> Nat] /\ v \in [S -> Nat]
  <2> HIDE DEF T
  <2> QED BY <1>1, StakeOfType
<1>3. w \in [T -> Int] /\ v \in [S -> Int]
  BY <1>2
<1>4. Tally(T) = Sum(w, T) /\ Tally(S) = Sum(v, S)
  <2> HIDE DEF T
  <2> QED BY <1>1, TallyIsSum
<1>5. w[c] = Weight[c.node] /\ \A x \in S : w[x] = v[x]
  BY DEF StakeOf
<1> HIDE DEF T, w, v
<1>6. Additive(w, T)
  BY <1>1, <1>3, SumIsAdditive
<1>7. Sum(w, T) = w[c] + Sum(w, S)
  BY <1>1, <1>6 DEF Additive
<1>8. Sum(w, S) = Sum(v, S)
  BY <1>3, <1>5, SumSame
<1>9. Sum(v, S) \in Nat
  BY <1>2, SumNat
<1>10. S = {} => Sum(w, S) = 0
  BY <1>6 DEF Additive
<1>11. w[c] \in Nat
  BY <1>1, <1>2
<1> QED BY <1>4, <1>5, <1>7, <1>8, <1>9, <1>10, <1>11 DEF T

\* A step that counts no vote and writes no weight keeps the tally.
LEMMA QuietKeepsTally ==
  ASSUME WeightIsTally, IsFiniteSet(counted), UNCHANGED <<weight, counted>>
  PROVE  WeightIsTally' /\ IsFiniteSet(counted)'
<1> DEFINE Right(u) == weight[u] = IF Yes(u) = {} THEN NoRecord ELSE Tally(Yes(u)) % Word
<1>1. \A u \in Txs : Right(u)
  BY DEF WeightIsTally, Tally
<1>2. \A u \in Txs : Yes(u)' = Yes(u)
  BY DEF Yes
<1>3. \A u \in Txs : Right(u)'
  BY <1>1, <1>2
<1> QED BY <1>3 DEF WeightIsTally, Tally

\* UpdateWeight adds the stake of the validator that voted yes to the record of
\* its transaction, as the vote is added to those counted.
LEMMA VoteKeepsTally ==
  ASSUME VotingInv, IsFiniteSet(counted), WeightIsTally,
         NEW t \in Txs, NEW a \in Actors, NEW key, NEW sig, NEW vote \in BOOLEAN,
         NEW n \in stake, VoteCounted(t, a, key, sig, vote, n)
  PROVE  WeightIsTally' /\ IsFiniteSet(counted)'
<1> DEFINE new == [tx |-> t, actor |-> a, node |-> n, vote |-> vote, at |-> now]
           Right(u) == weight[u] = IF Yes(u) = {} THEN NoRecord ELSE Tally(Yes(u)) % Word
<1>1. <<t, a>> \notin votes /\ counted' = counted \cup {new}
  BY DEF VoteCounted, Counts, GetVote
<1>2. new \notin counted
  BY <1>1 DEF VotingInv, VotesAreCounted, GetVote
<1>3. new \in Counted /\ counted \in SUBSET Counted
  BY DEF Counted, VotingInv, TypeOK
<1>4. Weight[n] \in 0 .. Word - 1 /\ Word \in Nat \ {0}
  BY <1>3, WeightAssumption DEF Counted
<1>5. \A u \in Txs : Yes(u)' = IF vote /\ u = t THEN Yes(u) \cup {new} ELSE Yes(u)
  BY <1>1 DEF Yes
<1>6. \A u \in Txs : Right(u)
  BY DEF WeightIsTally, Tally
<1>7. IsFiniteSet(counted')
  BY <1>1, FS_AddElement
<1>8. ASSUME NEW u \in Txs, ~(vote /\ u = t) PROVE Right(u)'
  <2>1. Yes(u)' = Yes(u)
    BY <1>5, <1>8
  <2>2. weight'[u] = weight[u]
    <3>1. CASE vote
      <4>1. UpdateWeight(t, a, Weight[n], Weight[n])
        BY <3>1 DEF VoteCounted
      <4> QED BY <1>8, <3>1, <4>1 DEF UpdateWeight, VotingInv, TypeOK
    <3>2. CASE ~vote
      BY <3>2 DEF VoteCounted
    <3> QED BY <3>1, <3>2
  <2> QED BY <1>6, <2>1, <2>2
<1>9. ASSUME vote PROVE Right(t)'
  <2> DEFINE Y == Yes(t)
  <2>1. Y \in SUBSET Counted /\ IsFiniteSet(Y) /\ new \notin Y
    BY <1>2, <1>3, FS_Subset DEF Yes
  <2>2. Yes(t)' = Y \cup {new}
    BY <1>5, <1>9
  <2>3. new.node = n
    OBVIOUS
  <2> HIDE DEF new, Y
  <2>4. /\ Tally(Y) \in Nat /\ (Y = {} => Tally(Y) = 0)
        /\ Tally(Y \cup {new}) = Tally(Y) + Weight[n]
    BY <1>3, <2>1, <2>3, TallyAdd
  <2>5. UpdateWeight(t, a, Weight[n], Weight[n])
    BY <1>9 DEF VoteCounted
  <2>6. weight \in [Txs -> (0 .. Word - 1) \cup {NoRecord}]
    BY DEF VotingInv, TypeOK
  <2>7. weight'[t] = (Tally(Y) + Weight[n]) % Word
    <3>1. CASE Y = {}
      <4>1. weight[t] = NoRecord
        BY <1>6, <3>1 DEF Y
      <4>2. weight'[t] = Weight[n]
        BY <2>5, <2>6, <4>1, <1>4 DEF UpdateWeight, NoRecord
      <4>3. Weight[n] % Word = Weight[n]
        BY <1>4
      <4> QED BY <1>4, <2>4, <3>1, <4>2, <4>3
    <3>2. CASE Y # {}
      <4>1. weight[t] = Tally(Y) % Word
        BY <1>6, <3>2 DEF Y
      <4>2. Tally(Y) % Word \in 0 .. Word - 1
        BY <1>4, <2>4
      <4>3. weight[t] # NoRecord
        BY <1>4, <4>1, <4>2 DEF NoRecord
      <4>4. weight'[t] = (weight[t] + Weight[n]) % Word
        BY <2>5, <2>6, <4>3 DEF UpdateWeight
      <4>5. ((Tally(Y) % Word) + Weight[n]) % Word = (Tally(Y) + Weight[n]) % Word
        <5>1. Tally(Y) \in Int /\ Weight[n] \in Int
          BY <1>4, <2>4
        <5> QED BY <1>4, <5>1, ModAdd
      <4> QED BY <4>1, <4>4, <4>5
    <3> QED BY <3>1, <3>2
  <2> QED BY <2>2, <2>4, <2>7
<1>10. \A u \in Txs : Right(u)'
  <2> HIDE DEF Right
  <2> QED BY <1>8, <1>9
<1> QED BY <1>7, <1>10 DEF WeightIsTally, Tally

\* The weight record of a transaction is the stake behind the yes votes counted
\* on it, in uint64 arithmetic: UpdateWeight loses none and adds none twice.
THEOREM WeightSafety == Spec => []WeightIsTally
<1> DEFINE Inv == IsFiniteSet(counted) /\ WeightIsTally
<1>1. Init => Inv
  BY FS_EmptySet DEF Init, WeightIsTally, Yes
<1>2. VotingInv /\ Inv /\ [Next]_vars => Inv'
  <2> SUFFICES ASSUME VotingInv, Inv, [Next]_vars PROVE Inv'
    OBVIOUS
  <2>1. ASSUME NEW t \in Txs, NEW a \in Actors, NEW key, NEW sig, NEW vote \in BOOLEAN,
               NEW n \in stake, VoteCounted(t, a, key, sig, vote, n)
        PROVE  Inv'
    BY <2>1, VoteKeepsTally
  <2>2. ASSUME UNCHANGED <<weight, counted>> PROVE Inv'
    BY <2>2, QuietKeepsTally
  <2> QED
    BY <2>1, <2>2, VerifyActionVerifies
    DEF Next, Verify, ValidatorVote, VoteSkipped, VoteFails, Block, ValidatorsChange,
        vars, chain, history
<1>3. Spec => []Inv
  BY <1>1, <1>2, VotingInvariant, PTL DEF Spec
<1> QED BY <1>3, PTL

-----------------------------------------------------------------------------
(* ProofVoting implements Ballot: its initial states are initial states of  *)
(* the ballot, and each of its steps is a step of the ballot or leaves it  *)
(* unchanged.                                                              *)


approvedTxs == {t \in Txs : weight[t] # NoRecord}
windowOf    == [t \in Txs |-> Window(t)]

\* A verify action opens the window of its transaction.
LEMMA VerifyOpens ==
  ASSUME TypeOK, NEW t \in Txs, NEW asked \in Blocks, Verify(t, asked)
  PROVE  B!Open(t)
<1>1. /\ timeOut' = [timeOut EXCEPT ![t] = Deadline(asked, now)]
      /\ UNCHANGED <<now, weight, status, votes>>
  BY DEF Verify, StoreTimeOut
<1>2. /\ Deadline(asked, now) \in Nat /\ now <= Deadline(asked, now)
  BY DeadlineBounds, TimeAssumption DEF TypeOK
<1>3. Window(t) = "none" /\ Window(t)' = "open"
  BY <1>1, <1>2 DEF Window, Verify, TypeOK, NoRecord
<1>4. \A u \in Txs : u # t => Window(u)' = Window(u)
  BY <1>1 DEF Window, TypeOK
<1>5. windowOf' = [windowOf EXCEPT ![t] = "open"]
  BY <1>3, <1>4 DEF windowOf
<1> QED BY <1>1, <1>3, <1>5 DEF B!Open, windowOf

\* A vote that is counted casts a ballot: yes or no as the vote was.
LEMMA VoteCasts ==
  ASSUME TypeOK, NEW t \in Txs, NEW a \in Actors, NEW key, NEW sig, NEW vote \in BOOLEAN,
         NEW n \in stake, VoteCounted(t, a, key, sig, vote, n)
  PROVE  B!CastNo(t, a) \/ B!CastYes(t, a)
<1>1. /\ InWindow(t) /\ <<t, a>> \notin votes
      /\ votes' = votes \cup {<<t, a>>}
      /\ UNCHANGED <<now, timeOut>>
  BY DEF VoteCounted, Reaches, Counts, GetVote, StoreVote
<1>2. \A u \in Txs : Window(u)' = Window(u)
  BY <1>1 DEF Window
<1>3. windowOf' = windowOf
  BY <1>2 DEF windowOf
<1>4. B!CanCast(t, a)
  BY <1>1 DEF B!CanCast, Window, InWindow
<1>5. CASE ~vote
  BY <1>1, <1>3, <1>4, <1>5 DEF VoteCounted, B!CastNo, windowOf
<1>6. CASE vote
  <2>1. n \in Validators /\ Weight[n] \in 0 .. Word - 1
    BY WeightAssumption DEF TypeOK
  <2>2. UpdateWeight(t, a, Weight[n], Weight[n])
    BY <1>6 DEF VoteCounted
  <2>3. weight'[t] # NoRecord /\ \A u \in Txs : u # t => weight'[u] = weight[u]
    BY <2>1, <2>2, UpdateWeightType
  <2>4. approvedTxs' = approvedTxs \cup {t}
    BY <2>3 DEF approvedTxs
  <2>5. \/ status' = status
        \/ t \in approvedTxs /\ status' = status \cup {t}
    BY <1>6 DEF VoteCounted, UpdateWeight, approvedTxs
  <2> QED BY <1>1, <1>3, <1>4, <2>4, <2>5 DEF B!CastYes, windowOf, approvedTxs
<1> QED BY <1>5, <1>6

\* A block closes every window whose deadline it passes.
LEMMA BlockCloses == TypeOK /\ Block => B!Close({t \in Txs : Window(t) # Window(t)'})
<1> SUFFICES ASSUME TypeOK, Block PROVE B!Close({t \in Txs : Window(t) # Window(t)'})
  OBVIOUS
<1>1. now \in Nat /\ now' \in Nat /\ now' > now /\ UNCHANGED <<timeOut, weight, status, votes>>
  BY TimeAssumption DEF Block, TypeOK, chain
<1>2. \A t \in Txs : Window(t) # Window(t)' => Window(t) = "open" /\ Window(t)' = "closed"
  BY <1>1 DEF Window, TypeOK
<1> QED BY <1>1, <1>2 DEF B!Close

\* Steps that leave the records and the clock alone leave the ballot alone.
LEMMA QuietStutters == UNCHANGED <<now, chain>> => UNCHANGED B!vars
<1> SUFFICES ASSUME UNCHANGED <<now, chain>> PROVE UNCHANGED B!vars
  OBVIOUS
<1>1. UNCHANGED <<now, timeOut, weight, status, votes>>
  BY DEF chain
<1>2. \A t \in Txs : Window(t)' = Window(t)
  BY <1>1 DEF Window
<1> QED BY <1>1, <1>2 DEF B!vars

\* Verify actions, votes and the block clock implement the abstract ballot.
THEOREM ImplementsBallot == Spec => BallotSpec
<1>1. Init => B!Init
  BY DEF Init, B!Init, Window
<1>2. TypeOK /\ [Next]_vars => [B!Next]_(B!vars)
  <2> SUFFICES ASSUME TypeOK, [Next]_vars PROVE [B!Next]_(B!vars)
    OBVIOUS
  <2>1. ASSUME NEW t \in Txs, NEW asked \in Blocks, Verify(t, asked)
        PROVE  B!Next
    BY <2>1, VerifyOpens DEF B!Next
  <2>2. ASSUME NEW t \in Txs, NEW a \in Actors, NEW key, NEW sig, NEW vote \in BOOLEAN,
               NEW n \in stake, VoteCounted(t, a, key, sig, vote, n)
        PROVE  B!Next
    BY <2>2, VoteCasts DEF B!Next
  <2>3. ASSUME Block PROVE B!Next
    <3>1. {t \in Txs : Window(t) # Window(t)'} \in SUBSET Txs
      OBVIOUS
    <3> QED BY <2>3, <3>1, BlockCloses DEF B!Next
  <2>4. ASSUME UNCHANGED <<now, chain>> PROVE UNCHANGED B!vars
    BY <2>4, QuietStutters
  <2> QED
    BY <2>1, <2>2, <2>3, <2>4, VerifyActionVerifies
    DEF Next, ValidatorVote, VoteSkipped, VoteFails, ValidatorsChange, vars
<1> QED BY <1>1, <1>2, TypeCorrect, PTL DEF Spec, BallotSpec, B!Spec
=============================================================================
