------------------------------ MODULE MCClient ------------------------------
(* Two keys, of two schemes.                                                *)
EXTENDS Client, TLC

CONSTANTS k1, k2

MCSchemeOf == (k1 :> "ed25519") @@ (k2 :> "bls")
=============================================================================
