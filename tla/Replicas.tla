------------------------------ MODULE Replicas ------------------------------
(***************************************************************************)
(* Several nodes execute the same chain of votes, each with its own view   *)
(* of the validator set: Rules hands ValidatorVote.Execute the VM's        *)
(* CurrentValidators, which is the node's view at the moment it executes,  *)
(* not the set at the height of the block.  The set is a Go map, so each   *)
(* execution iterates over it in an order of its own.  A node may start    *)
(* again from genesis and then executes old votes with a later view.       *)
(*                                                                         *)
(* ProofVoting executes every vote once and names the ways it can end;     *)
(* here Execute is the loop itself, with the units that each return asks   *)
(* to be charged, since they too are part of the state that nodes must     *)
(* agree on.                                                               *)
(***************************************************************************)
EXTENDS Integers, SequencesExt

CONSTANTS
  Nodes,        \* the nodes that execute the chain
  Txs, Actors,  \* as in ProofVoting
  Validators, Keys, KeyOf, Weight, Word,
  MaxVotes      \* bound: the length of the chain

\* The set is a Go map of uint64 weights.  The stake of a subnet is bounded by a
\* supply, which is a uint64.
ASSUME StakeAssumption ==
  /\ IsFiniteSet(Validators) /\ Word \in Nat /\ Weight \in [Validators -> Nat]
  /\ SumFunctionOnSet(Weight, Validators) < Word

VARIABLES
  interned,     \* whether two decodings of a key are one object, as in ProofVoting
  votesOf,      \* the chain: the vote transactions that consensus has ordered
  records,      \* for each node, its weight and vote records
  charges,      \* for each node, success and units of each vote it executed
  seen          \* history: the validators that mattered to each execution

vars == <<interned, votesOf, records, charges, seen>>

NoRecord == -1
Malformed == "malformed"
Signatures == {Malformed, "mismatched", "valid"}

\* A vote: inWindow says how its block lies to the deadline, which the block's
\* own timestamp decides alike for all nodes.
VoteTxs == [tx : Txs, actor : Actors, key : Keys \cup {Malformed}, sig : Signatures, vote : BOOLEAN,
            inWindow : BOOLEAN]

EmptyRecords == [weight |-> [t \in Txs |-> NoRecord], votes |-> {}]

-----------------------------------------------------------------------------
(* ValidatorVote.Execute                                                   *)

\* One iteration of the loop.  units is 0 while it has not returned.
Return(s, units) == [s EXCEPT !.units = units]

Tally(rec, a, w) ==
  IF ~a.vote THEN rec
  ELSE [rec EXCEPT !.weight[a.tx] = IF @ = NoRecord THEN w ELSE (@ + w) % Word]

Stored(rec, a) == [rec EXCEPT !.votes = @ \cup {<<a.tx, a.actor>>}]

\* Mutant: the vote record is checked against the records before the loop.
Iterate_Stale(a, before, s, v) ==
  LET total == s.total + Weight[v]
  IN  IF s.units # 0 THEN s
      ELSE IF total >= Word THEN Return(s, 3500)
      ELSE IF a.sig # "valid" THEN Return(s, 4000)
      ELSE IF <<a.tx, a.actor>> \in before.votes THEN Return(s, 5000)
      ELSE [s EXCEPT !.total = total,
                     !.rec = IF s.total = 0 THEN Stored(Tally(@, a, Weight[v]), a) ELSE @]

Iterate(a, before, s, v) ==
  LET total == s.total + Weight[v]
  IN  IF s.units # 0 THEN s
      ELSE IF total >= Word THEN Return(s, 3500)
      ELSE IF a.sig # "valid" THEN Return(s, 4000)
      ELSE IF <<a.tx, a.actor>> \in s.rec.votes THEN Return(s, 5000)
      ELSE [s EXCEPT !.total = total, !.rec = Stored(Tally(@, a, Weight[v]), a)]

\* Mutant: keys are compared by value.
Matching_Value(a, v) == KeyOf[v] = a.key

\* vdr.PublicKey == pubKey.
Matching(a, v) == interned /\ KeyOf[v] = a.key

\* What Execute returns: success, the units to charge, and the records that the
\* chain keeps, which are the old ones when it fails.
Execute(a, rec, view, order) ==
  LET start == [units |-> 0, total |-> 0, rec |-> rec]
      end   == FoldLeft(LAMBDA s, v : IF Matching(a, v) THEN Iterate(a, rec, s, v) ELSE s,
                        start, order)
      fails(units) == [ok |-> FALSE, units |-> units, rec |-> rec]
  IN  IF ~a.inWindow THEN fails(1000)
      ELSE IF a.key = Malformed THEN fails(2000)
      ELSE IF a.sig = Malformed THEN fails(2500)
      ELSE IF a.key \notin {KeyOf[v] : v \in view} THEN fails(3000)
      ELSE IF end.units # 0 THEN fails(end.units)
      ELSE [ok |-> TRUE, units |-> 5000, rec |-> end.rec]

-----------------------------------------------------------------------------
(* The nodes                                                               *)

Init ==
  /\ interned \in BOOLEAN
  /\ votesOf = <<>>
  /\ records = [n \in Nodes |-> EmptyRecords]
  /\ charges = [n \in Nodes |-> <<>>]
  /\ seen = [n \in Nodes |-> <<>>]

\* Consensus orders one more vote.
Order(a) ==
  /\ Len(votesOf) < MaxVotes
  /\ votesOf' = Append(votesOf, a)
  /\ UNCHANGED <<interned, records, charges, seen>>

\* Node n executes its next vote: Rules.FetchCustom yields the view it has now.
ExecuteNext(n, view) ==
  /\ Len(charges[n]) < Len(votesOf)
  /\ LET a == votesOf[Len(charges[n]) + 1]
     IN  \E order \in SetToSeqs(view) :
           LET r == Execute(a, records[n], view, order)
           IN  /\ records' = [records EXCEPT ![n] = r.rec]
               /\ charges' = [charges EXCEPT ![n] = Append(@, [ok |-> r.ok, units |-> r.units])]
               /\ seen' = [seen EXCEPT ![n] = Append(@, {v \in view : KeyOf[v] = a.key})]
  /\ UNCHANGED <<interned, votesOf>>

\* A node that has lost its database executes the chain again.
Resync(n) ==
  /\ charges[n] # <<>>
  /\ records' = [records EXCEPT ![n] = EmptyRecords]
  /\ charges' = [charges EXCEPT ![n] = <<>>]
  /\ seen' = [seen EXCEPT ![n] = <<>>]
  /\ UNCHANGED <<interned, votesOf>>

Next ==
  \/ \E a \in VoteTxs : Order(a)
  \/ \E n \in Nodes, view \in SUBSET Validators : ExecuteNext(n, view)
  \/ \E n \in Nodes : Resync(n)

Spec == Init /\ [][Next]_vars

-----------------------------------------------------------------------------
(* Properties                                                              *)

\* Two nodes that have executed as many votes agree on every record and on every
\* charge, if at each of them their views had the same validators under the
\* vote's key: no order of the map, and no other validator, makes a difference.
\* Whatever breaks agreement is a change of the set between two executions of
\* the same block.
AgreeWhereViewsAgree ==
  \A m, n \in Nodes :
    seen[m] = seen[n] => records[m] = records[n] /\ charges[m] = charges[n]

\* As built, where no loop body runs, nodes whose views differ can disagree about
\* what a vote is charged, but never about a record.
BuiltDisagreesOnlyOnCharges ==
  ~interned => \A m, n \in Nodes : records[m] = records[n]
=============================================================================
