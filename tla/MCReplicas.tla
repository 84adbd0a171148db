----------------------------- MODULE MCReplicas -----------------------------
(* Two nodes and three validators, all under one key but the last.          *)
EXTENDS Replicas, TLC

CONSTANTS n1, n2, a1, t1, v1, v2, v3, k1, k2

MCKeyOf  == (v1 :> k1) @@ (v2 :> k1) @@ (v3 :> k2)
MCWeight == (v1 :> 1) @@ (v2 :> 2) @@ (v3 :> 1)

Symmetry == Permutations(Nodes) \cup Permutations(Actors)
=============================================================================
