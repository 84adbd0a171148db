------------------------- MODULE Ed25519BatchProofs -------------------------
(***************************************************************************)
(* Theorems about Ed25519Batch, for every number of signatures and cores.  *)
(***************************************************************************)
EXTENDS Ed25519Batch, TLAPS

\* GetBatchVerifier never asks for empty batches.
LEMMA BatchSizePositive ==
  ASSUME NEW cores \in Nat \ {0}, NEW count \in Nat
  PROVE  BatchSize(cores, count) \in Nat \ {0}
<1>1. count \div cores \in Int
  OBVIOUS
<1> QED BY <1>1, BatchAssumption DEF BatchSize

\* Add takes the next signature into the current batch and hands out full ones.
LEMMA AddKeepsInv == BatchInv /\ Add => BatchInv'
<1> SUFFICES ASSUME BatchInv, Add PROVE BatchInv'
  OBVIOUS
<1> DEFINE i    == totalCounter + 1
           this == (IF batch = NoBatch THEN {} ELSE batch) \cup {i}
<1>1. /\ ~done /\ ~done' /\ totalCounter < total /\ totalCounter' = i
      /\ UNCHANGED <<batchSize, total>>
  BY DEF Add, BatchInv, TypeOK
<1>2. i \in 1 .. total /\ this \subseteq Nat /\ i \in this
  BY <1>1 DEF BatchInv, TypeOK, NoBatch
<1>3. (UNION jobs) \cup this = 1 .. i
  <2>1. CASE batch = NoBatch
    BY <2>1 DEF BatchInv
  <2>2. CASE batch # NoBatch
    <3>1. (UNION jobs) \cup batch = 1 .. totalCounter
      BY <2>2 DEF BatchInv
    <3>2. 1 .. i = (1 .. totalCounter) \cup {i}
      BY DEF BatchInv, TypeOK
    <3> QED BY <2>2, <3>1, <3>2
  <2> QED BY <2>1, <2>2
<1>4. this # NoBatch /\ this # {}
  BY <1>2 DEF NoBatch
<1>5. CASE counter + 1 = batchSize
  <2>1. counter' = 0 /\ jobs' = jobs \cup {this} /\ batch' = IF i < total THEN {} ELSE this
    BY <1>5 DEF Add, BatchInv, TypeOK
  <2>2. (UNION jobs') \cup batch' = 1 .. i
    BY <1>3, <2>1
  <2>3. TypeOK'
    <3>1. batch' \in SUBSET Nat /\ jobs' \in SUBSET (SUBSET Nat)
      BY <1>2, <2>1 DEF BatchInv, TypeOK
    <3>2. /\ batchSize' \in Nat \ {0} /\ total' \in Nat
          /\ counter' \in 0 .. batchSize' - 1 /\ totalCounter' \in 0 .. total'
      BY <1>1, <2>1 DEF BatchInv, TypeOK
    <3>3. done' \in BOOLEAN
      BY DEF Add, BatchInv, TypeOK
    <3> QED BY <3>1, <3>2, <3>3 DEF TypeOK
  <2>4. batch' # NoBatch /\ (batch' = {} => i < total)
    BY <1>4, <2>1 DEF NoBatch
  <2>5. NoEmptyJob'
    BY <1>4, <2>1 DEF BatchInv, NoEmptyJob
  <2>6. i # 0
    BY <1>2
  <2> QED BY <1>1, <2>1, <2>2, <2>3, <2>4, <2>5, <2>6 DEF BatchInv, AllVerified
<1>6. CASE counter + 1 # batchSize
  <2>1. counter' = counter + 1 /\ jobs' = jobs /\ batch' = this
    BY <1>6 DEF Add, BatchInv, TypeOK
  <2>2. TypeOK'
    <3>1. batch' \in SUBSET Nat /\ jobs' \in SUBSET (SUBSET Nat)
      BY <1>2, <2>1 DEF BatchInv, TypeOK
    <3>2. /\ batchSize' \in Nat \ {0} /\ total' \in Nat
          /\ counter' \in 0 .. batchSize' - 1 /\ totalCounter' \in 0 .. total'
      BY <1>1, <1>6, <2>1 DEF BatchInv, TypeOK
    <3>3. done' \in BOOLEAN
      BY DEF Add, BatchInv, TypeOK
    <3> QED BY <3>1, <3>2, <3>3 DEF TypeOK
  <2>3. NoEmptyJob' /\ i # 0
    BY <1>2, <2>1 DEF BatchInv, NoEmptyJob
  <2> QED BY <1>1, <1>3, <1>4, <2>1, <2>2, <2>3 DEF BatchInv, AllVerified
<1> QED BY <1>5, <1>6

\* Done hands out what is left.
LEMMA DoneKeepsInv == BatchInv /\ Done => BatchInv'
<1> SUFFICES ASSUME BatchInv, Done PROVE BatchInv'
  OBVIOUS
<1>1. /\ done' /\ totalCounter = total
      /\ UNCHANGED <<batchSize, total, counter, totalCounter, batch>>
      /\ jobs' = IF batch = NoBatch THEN jobs ELSE jobs \cup {batch}
  BY DEF Done
<1>2. CASE batch = NoBatch
  <2>1. total = 0 /\ jobs' = {} /\ jobs = {}
    BY <1>1, <1>2 DEF BatchInv
  <2>2. UNION jobs' = 1 .. total'
    BY <1>1, <2>1
  <2> QED BY <1>1, <1>2, <2>1, <2>2 DEF BatchInv, TypeOK, AllVerified, NoEmptyJob, NoBatch
<1>3. CASE batch # NoBatch
  <2>1. UNION jobs' = 1 .. total /\ (UNION jobs') \cup batch = 1 .. total
    BY <1>1, <1>3 DEF BatchInv
  <2>2. batch # {}
    BY <1>1 DEF BatchInv, TypeOK
  <2>3. TypeOK'
    BY <1>1, <1>3 DEF BatchInv, TypeOK
  <2> QED BY <1>1, <1>3, <2>1, <2>2, <2>3 DEF BatchInv, AllVerified, NoEmptyJob
<1> QED BY <1>2, <1>3

\* The bookkeeping of counters and batches is right after any number of Adds.
THEOREM BatchInvariant == Spec => []BatchInv
<1>1. Init => BatchInv
  <2> SUFFICES ASSUME Init PROVE BatchInv
    OBVIOUS
  <2>1. batchSize \in Nat \ {0} /\ total \in Nat
    BY BatchSizePositive, BatchAssumption DEF Init
  <2>2. /\ counter = 0 /\ totalCounter = 0 /\ batch = {0} /\ jobs = {} /\ done = FALSE
    BY DEF Init, NoBatch
  <2>3. TypeOK
    <3>1. counter \in 0 .. batchSize - 1 /\ totalCounter \in 0 .. total
      BY <2>1, <2>2
    <3>2. batch \in SUBSET Nat /\ jobs \in SUBSET (SUBSET Nat)
      BY <2>2
    <3>3. done \in BOOLEAN
      BY <2>2
    <3> QED BY <2>1, <3>1, <3>2, <3>3 DEF TypeOK
  <2> QED BY <2>2, <2>3 DEF BatchInv, NoBatch, NoEmptyJob, AllVerified
<1>2. BatchInv /\ [Next]_vars => BatchInv'
  <2>1. BatchInv /\ UNCHANGED vars => BatchInv'
    BY DEF BatchInv, TypeOK, NoEmptyJob, AllVerified, vars
  <2> QED BY <2>1, AddKeepsInv, DoneKeepsInv DEF Next
<1> QED BY <1>1, <1>2, PTL DEF Spec

\* Every signature of a block is verified, whatever its number and the cores'.
THEOREM EverySignatureVerified == Spec => []AllVerified
<1>1. BatchInv => AllVerified
  BY DEF BatchInv
<1> QED BY <1>1, BatchInvariant, PTL

\* An empty batch is never handed out to be verified.
THEOREM NoEmptyBatch == Spec => []NoEmptyJob
<1>1. BatchInv => NoEmptyJob
  BY DEF BatchInv
<1> QED BY <1>1, BatchInvariant, PTL
=============================================================================
