------------------------------- MODULE Ballot -------------------------------
(***************************************************************************)
(* What the chain promises about voting on proofs, without clocks,         *)
(* weights, keys or validators: a transaction's window opens once and      *)
(* closes for good; each voter's ballot is taken at most once and only     *)
(* while the window is open; a transaction is verified only by a yes       *)
(* ballot on one that already has a yes, and stays verified.  ProofVoting  *)
(* implements it.                                                          *)
(***************************************************************************)
CONSTANTS Txs, Actors

VARIABLES
  window,    \* for each transaction: not opened yet, open, closed
  taken,     \* the ballots taken: transaction and voter
  approved,  \* the transactions with a yes ballot
  verified   \* the transactions with the verdict "verified"

vars == <<window, taken, approved, verified>>

Init ==
  /\ window = [t \in Txs |-> "none"]
  /\ taken = {} /\ approved = {} /\ verified = {}

Open(t) ==
  /\ window[t] = "none"
  /\ window' = [window EXCEPT ![t] = "open"]
  /\ UNCHANGED <<taken, approved, verified>>

CanCast(t, a) == window[t] = "open" /\ <<t, a>> \notin taken

CastNo(t, a) ==
  /\ CanCast(t, a)
  /\ taken' = taken \cup {<<t, a>>}
  /\ UNCHANGED <<window, approved, verified>>

CastYes(t, a) ==
  /\ CanCast(t, a)
  /\ taken' = taken \cup {<<t, a>>}
  /\ approved' = approved \cup {t}
  /\ \/ verified' = verified
     \/ t \in approved /\ verified' = verified \cup {t}
  /\ UNCHANGED window

\* One block may carry the clock past several deadlines.
Close(S) ==
  /\ \A t \in S : window[t] = "open"
  /\ window' = [t \in Txs |-> IF t \in S THEN "closed" ELSE window[t]]
  /\ UNCHANGED <<taken, approved, verified>>

Next ==
  \/ \E t \in Txs : Open(t)
  \/ \E t \in Txs, a \in Actors : CastNo(t, a) \/ CastYes(t, a)
  \/ \E S \in SUBSET Txs : Close(S)

Spec == Init /\ [][Next]_vars
=============================================================================
