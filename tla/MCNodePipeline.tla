--------------------------- MODULE MCNodePipeline ---------------------------
(* Small instances of NodePipeline for TLC.                                *)
EXTENDS NodePipeline, TLC

CONSTANTS p1, p2, p3, x

\* A block that mixes a transfer and a proof, then a block of one proof.
MCChain  == << <<x, p1>>, <<p2>> >>
\* A block with two proofs, whose calls to the prover follow one another.
MCChain2 == << <<p1, p2>>, <<p3>> >>

\* Between them, the five kinds of verify action.
MCActionOf  == [p \in VerifyTxs |-> IF p = p1 THEN "SP1" ELSE "Miden"]
MCActionOf2 == [p \in VerifyTxs |-> IF p = p1 THEN "RiscZero"
                                   ELSE IF p = p2 THEN "Jolt" ELSE "PLONKY2"]
=============================================================================
