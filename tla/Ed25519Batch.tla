---------------------------- MODULE Ed25519Batch ----------------------------
(***************************************************************************)
(* The batch verifier for ed25519 signatures: Add puts the signatures of a *)
(* block into batches of batchSize, handing each full batch out as a job,  *)
(* and Done hands out the last one.  A signature is known by its position, *)
(* a job by the set of positions it verifies.                              *)
(***************************************************************************)
EXTENDS Integers, FiniteSets

CONSTANTS
  Counts,       \* the numbers of signatures a block may have
  Cores,        \* the numbers of cores
  MinBatchSize  \* ed25519.MinBatchSize

ASSUME BatchAssumption ==
  /\ Counts \subseteq Nat
  /\ Cores \subseteq Nat \ {0}
  /\ MinBatchSize \in Nat \ {0}

VARIABLES
  batchSize, total,       \* fixed by GetBatchVerifier
  counter, totalCounter,  \* signatures in the current batch, and in all
  batch,                  \* the current batch, or NoBatch
  jobs,                   \* the jobs handed out
  done                    \* Done has been called

vars == <<batchSize, total, counter, totalCounter, batch, jobs, done>>

NoBatch == {0}  \* nil: positions start at 1

\* GetBatchVerifier
BatchSize(cores, count) ==
  IF count \div cores > MinBatchSize THEN count \div cores ELSE MinBatchSize

\* Mutant: a full batch is always replaced by an empty one.
Add_Fresh ==
  LET i    == totalCounter + 1
      this == (IF batch = NoBatch THEN {} ELSE batch) \cup {i}
  IN  /\ ~done /\ totalCounter < total
      /\ totalCounter' = i
      /\ \/ /\ counter + 1 = batchSize
            /\ counter' = 0
            /\ batch' = {}
            /\ jobs' = jobs \cup {this}
         \/ /\ counter + 1 # batchSize
            /\ counter' = counter + 1
            /\ batch' = this
            /\ UNCHANGED jobs
      /\ UNCHANGED <<batchSize, total, done>>

\* Add, for the next signature: a full batch is handed out, and replaced unless
\* this was the last signature.
Add ==
  LET i    == totalCounter + 1
      this == (IF batch = NoBatch THEN {} ELSE batch) \cup {i}
  IN  /\ ~done /\ totalCounter < total
      /\ totalCounter' = i
      /\ \/ /\ counter + 1 = batchSize
            /\ counter' = 0
            /\ batch' = IF i < total THEN {} ELSE this
            /\ jobs' = jobs \cup {this}
         \/ /\ counter + 1 # batchSize
            /\ counter' = counter + 1
            /\ batch' = this
            /\ UNCHANGED jobs
      /\ UNCHANGED <<batchSize, total, done>>

\* Mutant: what is left in the current batch is not handed out.
Done_Nothing ==
  /\ ~done /\ totalCounter = total
  /\ done' = TRUE
  /\ UNCHANGED <<batchSize, total, counter, totalCounter, batch, jobs>>

\* Done, after the last Add: the current batch, full or not, once more.
Done ==
  /\ ~done /\ totalCounter = total
  /\ jobs' = IF batch = NoBatch THEN jobs ELSE jobs \cup {batch}
  /\ done' = TRUE
  /\ UNCHANGED <<batchSize, total, counter, totalCounter, batch>>

Init ==
  /\ total \in Counts
  /\ \E cores \in Cores : batchSize = BatchSize(cores, total)
  /\ counter = 0 /\ totalCounter = 0
  /\ batch = NoBatch
  /\ jobs = {}
  /\ done = FALSE

Next == Add \/ Done

Spec == Init /\ [][Next]_vars

-----------------------------------------------------------------------------
(* Properties                                                              *)

TypeOK ==
  /\ batchSize \in Nat \ {0} /\ total \in Nat
  /\ counter \in 0 .. batchSize - 1 /\ totalCounter \in 0 .. total
  /\ batch \in SUBSET Nat
  /\ jobs \in SUBSET (SUBSET Nat)
  /\ done \in BOOLEAN

\* Every signature of the block is verified, for every number of signatures and
\* cores: none is lost where one batch ends and the next begins.
AllVerified == done => UNION jobs = 1 .. total

\* No job has an empty batch, so that a block whose signatures fill the last batch
\* exactly is not left to what verifying nothing means ("don't create a new batch
\* if we are done", ed25519.go:138).
NoEmptyJob == {} \notin jobs

\* What is in the current batch and what was handed out are the signatures added
\* so far, and only a fresh batch, with more to come, is empty.
BatchInv ==
  /\ TypeOK
  /\ batch = NoBatch <=> totalCounter = 0
  /\ batch = NoBatch => counter = 0 /\ jobs = {}
  /\ batch # NoBatch => (UNION jobs) \cup batch = 1 .. totalCounter
  /\ batch = {} => ~done /\ counter = 0 /\ totalCounter < total
  /\ NoEmptyJob
  /\ AllVerified
=============================================================================
