--------------------------- MODULE MCProofVoting ---------------------------
(* Small instances of ProofVoting for TLC.                                 *)
EXTENDS ProofVoting, TLC

CONSTANTS t1, t2, v1, v2, v3, a1, a2, a3, k1, k2

\* Two validators under keys of their own, and a third that shares k2.
MCKeyOf  == [v \in Validators |-> IF v = v1 THEN k1 ELSE k2]
MCWeight == [v \in Validators |-> IF v = v2 THEN 2 ELSE 1]

\* Accounts play the same part, and so do transactions.
Symmetry == Permutations(Actors) \cup Permutations(Txs)
=============================================================================
