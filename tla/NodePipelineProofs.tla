------------------------- MODULE NodePipelineProofs -------------------------
(***************************************************************************)
(* Theorems about NodePipeline, for every chain of blocks, every set of    *)
(* verify actions, both settings of StoreTransactions, a reliable and an   *)
(* unreliable environment, and any number of crashes and garbled reports.  *)
(*                                                                         *)
(* None of the safety properties is inductive by itself: the votes come    *)
(* from the prover's reports, those from its tasks, the tasks from the     *)
(* requests that the loop sent about blocks accepted by then, over a crash *)
(* that forgets the queue and not the requests.  NodeInv follows a         *)
(* transaction along that way, and the batch along the loop.               *)
(***************************************************************************)
EXTENDS NodePipeline, TLAPS

-----------------------------------------------------------------------------
(* The chain                                                               *)

\* A position of a block holds a transaction of it.
LEMMA TxOfBlock ==
  ASSUME NEW b \in 1 .. Len(Chain), NEW i \in 1 .. Len(Chain[b])
  PROVE  Chain[b][i] \in BlockTxs(b) /\ Chain[b][i] \in AllTxs
BY DEF BlockTxs, AllTxs

\* Accepted blocks have transactions, and a first one.
LEMMA BlockHasFirst ==
  ASSUME NEW b \in 1 .. Len(Chain)
  PROVE  /\ Len(Chain) \in Nat /\ Len(Chain[b]) \in Nat
         /\ 1 \in 1 .. Len(Chain[b])
<1>1. Chain \in Seq(Seq(AllTxs)) /\ Chain[b] # <<>>
  BY ChainAssumption
<1>2. Chain[b] \in Seq(AllTxs)
  BY <1>1
<1>3. Len(Chain) \in Nat
  BY <1>1
<1>4. Len(Chain[b]) \in Nat /\ Len(Chain[b]) # 0
  <2> DEFINE c == Chain[b]
  <2>1. c \in Seq(AllTxs) /\ c # <<>>
    BY <1>1, <1>2
  <2> HIDE DEF c
  <2>2. Len(c) \in Nat /\ Len(c) # 0
    BY <2>1
  <2> QED BY <2>2 DEF c
<1> QED BY <1>3, <1>4

-----------------------------------------------------------------------------
(* The five handlers                                                       *)

\* The calls that a handler makes about the transaction that Accepted is at.
AskTx    == step = "ask" /\ Send("files", ActionOf[Tx])
SubmitTx == step = "files" /\ reply = "yes" /\ Send("verify", ActionOf[Tx])

HandleAny == HandleSP1 \/ HandleRiscZero \/ HandleMiden \/ HandleJolt \/ HandlePlonky2

\* The five copies agree: each asks the endpoint of the proving system of the
\* action it is for, and its verify type means that system to the prover.
LEMMA HandlersAgree ==
  ASSUME HandleAny
  PROVE  /\ step \in {"ask", "files", "verify"}
         /\ AskTx \/ SubmitTx \/ HandlerReturns \/ CallFails
<1>1. \A action, endpoint, verifyType :
        Handle(action, endpoint, verifyType) /\ endpoint = action
          /\ Verifier[verifyType] = action
        => /\ step \in {"ask", "files", "verify"}
           /\ AskTx \/ SubmitTx \/ HandlerReturns \/ CallFails
  BY DEF Handle, Ask, Submitted, AskTx, SubmitTx
<1>2. /\ Verifier[SP1VERIFY] = "SP1"
      /\ Verifier[RISCZEROVERFIY] = "RiscZero"
      /\ Verifier[MIDENVERIFY] = "Miden"
      /\ Verifier[JOLTVERIFY] = "Jolt"
      /\ Verifier[PLONKY2VERIFY] = "PLONKY2"
  BY DEF Verifier, SP1VERIFY, RISCZEROVERFIY, MIDENVERIFY, JOLTVERIFY, PLONKY2VERIFY
<1> QED BY <1>1, <1>2
        DEF HandleAny, HandleSP1, HandleRiscZero, HandleMiden, HandleJolt, HandlePlonky2

-----------------------------------------------------------------------------
(* Type correctness                                                        *)

\* Abbreviations for tuples of variables.
USE DEF process, acceptor, memory, prover, reports

\* The position that the loop is at, and what the turn there needs.
LEMMA TurnType ==
  ASSUME NEW b \in 1 .. Len(Chain), NEW i \in 1 .. Len(Chain[b])
  PROVE  /\ Turn(b, i) \in {"listen", "store"}
         /\ Turn(b, i) = "listen" => Chain[b][i] \in VerifyTxs
BY DEF Turn

\* Where Accepted is.
Loop ==
  /\ accepted \in 0 .. Len(Chain)
  /\ blk \in 1 .. accepted + 1
  /\ step \in Steps /\ reply \in {"none", "waiting", "yes", "no"}
  /\ step # "idle" => blk <= accepted /\ pos \in 1 .. Len(Chain[blk])
  /\ step \in {"listen", "ask", "files", "verify"} => Tx \in VerifyTxs
  /\ step \in {"files", "verify"} <=> reply # "none"

\* What the actions share.
Data ==
  /\ phase \in {"hub", "prover", "up", "failed"}
  /\ listener \in {"off", "on", "dead"}
  /\ phase # "up" => step = "idle" /\ listener = "off" /\ handlers = {}
  /\ batch \subseteq AllTxs /\ metaDB \subseteq AllTxs
  /\ queued \subseteq VerifyTxs
  /\ verified \in [Ids -> Results \cup {"none"}]
  /\ handlers \subseteq Report /\ posts \subseteq Report
  /\ votes \subseteq [tx : VerifyTxs, result : Results]
  /\ posted \subseteq [tx : VerifyTxs, result : Results]
  /\ wire \subseteq Request
  /\ files \subseteq VerifyTxs \X VerifyActions /\ tasks \subseteq VerifyTxs
  /\ nposts \in 0 .. MaxPosts /\ epoch \in 0 .. MaxCrashes

\* The type invariant has these two parts.
LEMMA TypeParts == TypeOK <=> Loop /\ Data
BY DEF TypeOK, Loop, Data

\* While it is in a block, Accepted is at a transaction of it.
LEMMA AtTx ==
  ASSUME Loop, step # "idle"
  PROVE  /\ blk \in 1 .. Len(Chain) /\ blk \in 1 .. accepted
         /\ pos \in 1 .. Len(Chain[blk])
         /\ Tx \in BlockTxs(blk) /\ Tx \in AllTxs
<1>1. Len(Chain) \in Nat
  BY ChainAssumption
<1>2. blk \in 1 .. Len(Chain) /\ blk \in 1 .. accepted /\ pos \in 1 .. Len(Chain[blk])
  BY <1>1 DEF Loop
<1> QED BY <1>2, TxOfBlock DEF Tx

\* A block among those accepted, or the next one, is so when more are accepted.
LEMMA BlockStaysIn ==
  ASSUME NEW m \in Int, NEW n \in Int, m <= n, NEW b \in 1 .. m + 1
  PROVE  b \in 1 .. n + 1 /\ (b <= m => b <= n)
OBVIOUS

\* What may change when a step is not one of Accepted or Crash.
LEMMA LoopUnmoved ==
  ASSUME Loop, UNCHANGED <<blk, pos, step>>,
         \/ reply' = reply
         \/ reply = "waiting" /\ reply' \in {"yes", "no"},
         accepted' \in 0 .. Len(Chain), accepted <= accepted'
  PROVE  Loop'
<1>1. Len(Chain) \in Nat
  BY ChainAssumption
<1>2. (Tx \in VerifyTxs) <=> (Tx' \in VerifyTxs)
  BY DEF Tx
<1>3. blk' \in 1 .. accepted' + 1 /\ (blk <= accepted => blk' <= accepted')
  <2>1. accepted \in Int /\ accepted' \in Int /\ blk \in 1 .. accepted + 1
    BY <1>1 DEF Loop
  <2>2. /\ blk \in 1 .. accepted' + 1
        /\ blk <= accepted => blk <= accepted'
    BY <2>1, BlockStaysIn, Zenon
  <2> QED BY <2>2, Zenon
<1> QED BY <1>2, <1>3 DEF Loop

\* The steps of Accepted stay inside a block that was accepted, and wait for a
\* reply exactly while a call is under way.
LEMMA LoopStep == ASSUME TypeOK, Accepted PROVE Loop'
<1> USE TypeParts
<1>1. CASE Begin
  <2>1. blk \in 1 .. Len(Chain) /\ blk \in 1 .. accepted
    BY <1>1, ChainAssumption DEF Begin, Loop
  <2>2. 1 \in 1 .. Len(Chain[blk])
    BY <2>1, BlockHasFirst
  <2>3. pos' = 1 /\ step' = Turn(blk, 1) /\ UNCHANGED <<blk, accepted, reply>> /\ step = "idle"
    BY <1>1 DEF Begin
  <2>4. Tx' = Chain[blk][1]
    BY <2>3 DEF Tx
  <2>5. /\ Turn(blk, 1) \in {"listen", "store"}
        /\ Turn(blk, 1) = "listen" => Chain[blk][1] \in VerifyTxs
    BY <2>1, <2>2, TurnType
  <2>6. reply = "none"
    BY <2>3 DEF Loop
  <2> QED BY <2>1, <2>2, <2>3, <2>4, <2>5, <2>6 DEF Loop, Steps
<1>2. CASE ListenActions
  <2>1. Tx' = Tx
    BY <1>2 DEF ListenActions, Tx
  <2> QED BY <1>2, <2>1 DEF ListenActions, Loop, Steps
<1>3. CASE HandleAny
  <2>1. UNCHANGED <<blk, pos, accepted>> /\ step \in {"ask", "files", "verify"}
    BY <1>3, HandlersAgree DEF AskTx, SubmitTx, Send, HandlerReturns, CallFails
  <2>2. Tx' = Tx
    BY <2>1 DEF Tx
  <2>3. \/ step' \in {"files", "verify"} /\ reply' = "waiting"
        \/ step' = "store" /\ reply' = "none"
    BY <1>3, HandlersAgree DEF AskTx, SubmitTx, Send, HandlerReturns, CallFails
  <2> QED BY <2>1, <2>2, <2>3 DEF Loop, Steps
<1>4. CASE StoreTransaction
  <2>1. /\ step = "store" /\ UNCHANGED <<blk, accepted, reply>>
        /\ IF pos < Len(Chain[blk]) THEN pos' = pos + 1 /\ step' = Turn(blk, pos + 1)
                                    ELSE pos' = pos /\ step' = "write"
    BY <1>4 DEF StoreTransaction
  <2>2. blk \in 1 .. Len(Chain) /\ pos \in 1 .. Len(Chain[blk]) /\ Len(Chain[blk]) \in Nat
    BY <2>1, AtTx, BlockHasFirst
  <2>3. pos' \in 1 .. Len(Chain[blk])
    BY <2>1, <2>2
  <2>4. /\ step' \in {"listen", "store", "write"}
        /\ step' = "listen" => Chain[blk][pos'] \in VerifyTxs
    <3>1. CASE pos < Len(Chain[blk])
      BY <2>1, <2>2, <2>3, <3>1, TurnType
    <3>2. CASE ~ (pos < Len(Chain[blk]))
      BY <2>1, <3>2
    <3> QED BY <3>1, <3>2
  <2>5. Tx' = Chain[blk][pos']
    BY <2>1 DEF Tx
  <2> QED BY <2>1, <2>2, <2>3, <2>4, <2>5 DEF Loop, Steps
<1>5. CASE Write
  <2>1. step = "write" /\ step' = "idle" /\ blk' = blk + 1 /\ UNCHANGED <<accepted, reply>>
    BY <1>5 DEF Write
  <2> QED BY <2>1 DEF Loop, Steps
<1> QED BY <1>1, <1>2, <1>3, <1>4, <1>5 DEF Accepted, HandleAny

\* Only Accepted and a crash move the loop; a reply may come in.
LEMMA TypeLoop == ASSUME TypeOK, Next PROVE Loop'
<1>1. Loop
  BY TypeParts
<1>2. Len(Chain) \in Nat
  BY ChainAssumption
<1>3. CASE \/ Initialize \/ ListenResults
           \/ \E p \in posts : SubmitResult(p) \/ PostRefused(p)
           \/ \E h \in handlers : GenerateTransaction(h)
           \/ \E t \in tasks, result \in Results : ProverPosts(t, result)
           \/ \E result \in Results : ProverPostsGarbled(result)
  <2>1. UNCHANGED <<blk, pos, step, reply, accepted>>
    BY <1>3 DEF Initialize, PingHub, PingProver, Ping, ListenResults, SubmitResult,
                PostRefused, GenerateTransaction, ProverPosts, ProverPostsGarbled
  <2>2. accepted \in 0 .. Len(Chain) /\ accepted <= accepted
    BY <1>1, <1>2 DEF Loop
  <2> QED BY <1>1, <2>1, <2>2, LoopUnmoved
<1>4. CASE Accept
  <2>1. UNCHANGED <<blk, pos, step, reply>> /\ accepted' = accepted + 1 /\ accepted < Len(Chain)
    BY <1>4 DEF Accept
  <2>2. accepted' \in 0 .. Len(Chain) /\ accepted <= accepted'
    BY <1>1, <1>2, <2>1 DEF Loop
  <2> QED BY <1>1, <2>1, <2>2, LoopUnmoved
<1>5. CASE \E r \in wire : ProverTakesFiles(r) \/ ProverTakesVerify(r)
  <2>1. PICK r \in wire : ProverTakesFiles(r) \/ ProverTakesVerify(r)
    BY <1>5
  <2>2. UNCHANGED <<blk, pos, step, accepted>> /\ \E ok : Reply(r, ok)
    BY <2>1 DEF ProverTakesFiles, ProverTakesVerify
  <2>3. reply' = reply \/ (reply = "waiting" /\ reply' \in {"yes", "no"})
    BY <2>2 DEF Reply
  <2>4. accepted \in 0 .. Len(Chain) /\ accepted <= accepted
    BY <1>1, <1>2 DEF Loop
  <2> QED BY <1>1, <2>2, <2>3, <2>4, LoopUnmoved
<1>6. CASE Crash
  <2>1. step' = "idle" /\ reply' = "none" /\ UNCHANGED accepted
        /\ \E b \in blk .. accepted + 1 : blk' = b
    BY <1>6 DEF Crash
  <2>2. blk' \in 1 .. accepted' + 1
    BY <1>1, <2>1 DEF Loop
  <2> QED BY <1>1, <2>1, <2>2 DEF Loop, Steps
<1> QED BY <1>3, <1>4, <1>5, <1>6, LoopStep DEF Next

\* What consensus calls Accepted with changes nothing but the loop and the batch,
\* the database, the queue, and the requests under way.
LEMMA DataAccepted == ASSUME TypeOK, Accepted PROVE Data'
<1>1. Data /\ Loop
  BY TypeParts
<1>2. step # "idle" => Tx \in AllTxs
  BY <1>1, AtTx
<1>3. CASE Begin
  BY <1>1, <1>3 DEF Begin, Data
<1>4. CASE ListenActions
  <2>1. Tx \in VerifyTxs
    BY <1>1, <1>4 DEF ListenActions, Loop
  <2> QED BY <1>1, <1>4, <2>1 DEF ListenActions, Data
<1>5. CASE HandleAny
  <2>1. Tx \in VerifyTxs /\ phase = "up"
    BY <1>1, <1>5, HandlersAgree DEF Loop, Data
  <2>2. CASE AskTx \/ SubmitTx
    <3>1. PICK kind \in {"files", "verify"} : Send(kind, ActionOf[Tx])
      BY <2>2 DEF AskTx, SubmitTx
    <3>2. ActionOf[Tx] \in VerifyActions /\ epoch \in Nat
      BY <1>1, <2>1, ChainAssumption, BoundAssumption DEF Data
    <3>3. [kind |-> kind, tx |-> Tx, system |-> ActionOf[Tx], epoch |-> epoch] \in Request
      BY <2>1, <3>2 DEF Request
    <3> QED BY <1>1, <2>1, <3>1, <3>3 DEF Send, Data
  <2>3. CASE HandlerReturns \/ CallFails
    BY <1>1, <2>1, <2>3 DEF HandlerReturns, CallFails, Data
  <2> QED BY <1>5, <2>2, <2>3, HandlersAgree
<1>6. CASE StoreTransaction
  <2>1. Tx \in AllTxs /\ phase = "up"
    BY <1>1, <1>2, <1>6 DEF StoreTransaction, Data
  <2>2. batch' \subseteq AllTxs
    BY <1>1, <1>6, <2>1 DEF StoreTransaction, Data
  <2>3. UNCHANGED <<phase, listener, metaDB, memory, votes, prover, reports, epoch>>
    BY <1>6 DEF StoreTransaction
  <2> QED BY <1>1, <2>1, <2>2, <2>3 DEF Data
<1>7. CASE Write
  BY <1>1, <1>7 DEF Write, Data
<1> QED BY <1>3, <1>4, <1>5, <1>6, <1>7 DEF Accepted, HandleAny

\* Initialize, the handlers, the prover and the network keep the shape of what
\* they carry.
LEMMA DataOthers ==
  ASSUME TypeOK, Next, ~Accepted
  PROVE  Data'
<1>1. Data /\ Loop
  BY TypeParts
<1>2. MaxCrashes \in Nat /\ MaxPosts \in Nat
  BY BoundAssumption
<1>3. CASE Initialize \/ ListenResults \/ Accept
  BY <1>1, <1>3 DEF Initialize, PingHub, PingProver, Ping, ListenResults, Accept, Data
<1>4. ASSUME NEW p \in posts, SubmitResult(p) PROVE Data'
  <2>1. p.tx \in Ids /\ p.result \in Results
    BY <1>1 DEF Data, Report
  <2> QED BY <1>1, <1>4, <2>1 DEF SubmitResult, Data
<1>5. ASSUME NEW p \in posts, PostRefused(p) PROVE Data'
  BY <1>1, <1>5 DEF PostRefused, Data
<1>6. ASSUME NEW h \in handlers, GenerateTransaction(h) PROVE Data'
  <2>1. h \in Report /\ (h.tx # EmptyID => h \in [tx : VerifyTxs, result : Results])
    BY <1>1 DEF Data, Report, Ids
  <2> QED BY <1>1, <1>6, <2>1 DEF GenerateTransaction, Data
<1>7. ASSUME NEW r \in wire, ProverTakesFiles(r) \/ ProverTakesVerify(r) PROVE Data'
  <2>1. r.tx \in VerifyTxs /\ r.system \in VerifyActions
    BY <1>1 DEF Data, Request
  <2>2. /\ wire' \subseteq wire
        /\ files' \subseteq files \cup {<<r.tx, r.system>>}
        /\ tasks' \subseteq tasks \cup {r.tx}
        /\ UNCHANGED <<phase, listener, step, batch, metaDB, memory, votes, reports, epoch>>
    BY <1>7 DEF ProverTakesFiles, ProverTakesVerify
  <2> QED BY <1>1, <2>1, <2>2 DEF Data
<1>8. ASSUME NEW t \in tasks, NEW result \in Results, ProverPosts(t, result) PROVE Data'
  <2>1. /\ [tx |-> t, result |-> result] \in Report
        /\ [tx |-> t, result |-> result] \in [tx : VerifyTxs, result : Results]
    BY <1>1 DEF Data, Report, Ids
  <2>2. nposts' \in 0 .. MaxPosts
    BY <1>1, <1>2, <1>8 DEF ProverPosts, Data
  <2> QED BY <1>1, <1>8, <2>1, <2>2 DEF ProverPosts, Data
<1>9. ASSUME NEW result \in Results, ProverPostsGarbled(result) PROVE Data'
  <2>1. [tx |-> EmptyID, result |-> result] \in Report
    BY DEF Report, Ids
  <2>2. nposts' \in 0 .. MaxPosts
    BY <1>1, <1>2, <1>9 DEF ProverPostsGarbled, Data
  <2> QED BY <1>1, <1>9, <2>1, <2>2 DEF ProverPostsGarbled, Data
<1>10. CASE Crash
  <2>1. epoch' \in 0 .. MaxCrashes
    BY <1>1, <1>2, <1>10 DEF Crash, Data
  <2>2. posts' \subseteq posts /\ verified' \in [Ids -> Results \cup {"none"}]
    BY <1>10 DEF Crash
  <2> QED BY <1>1, <1>10, <2>1, <2>2 DEF Crash, Data
<1> QED BY <1>3, <1>4, <1>5, <1>6, <1>7, <1>8, <1>9, <1>10 DEF Next

\* Every step keeps the types.
LEMMA TypeStep == TypeOK /\ [Next]_vars => TypeOK'
<1>1. ASSUME TypeOK, Next PROVE TypeOK'
  <2>1. Loop' /\ Data'
    BY <1>1, TypeLoop, DataAccepted, DataOthers
  <2> QED BY <2>1 DEF TypeOK, Loop, Data
<1>2. ASSUME TypeOK, UNCHANGED vars PROVE TypeOK'
  BY <1>2 DEF vars, TypeOK, Tx
<1> QED BY <1>1, <1>2

\* A node that starts has nothing.
LEMMA TypeInit == Init => TypeOK
<1> SUFFICES ASSUME Init PROVE TypeOK
  OBVIOUS
<1>1. Loop
  BY ChainAssumption DEF Init, Loop, Steps
<1>2. Data
  BY BoundAssumption DEF Init, Data
<1> QED BY <1>1, <1>2, TypeParts

\* The state of the node, the prover and the network keeps its shape, and the
\* loop never leaves its block, whatever fails.
THEOREM NodeTypes == Spec => []TypeOK
BY TypeInit, TypeStep, PTL DEF Spec

-----------------------------------------------------------------------------
(* The invariant of the node                                               *)

\* What consensus has accepted.
Seen == UNION {BlockTxs(b) : b \in 1 .. accepted}

\* ListenActions comes before the first call, and a request of an earlier run is
\* never taken for one of this run.
Listened ==
  /\ step \in {"ask", "files", "verify"} => Tx \in queued
  /\ \A r \in wire : r.epoch <= epoch /\ (r.epoch = epoch => r.tx \in queued)

\* A call about a transaction names the proving system of its action, and the
\* reply to the files of one is not taken for that of another.
Acknowledged ==
  /\ \A r \in wire : r.system = ActionOf[r.tx] /\ (r.kind = "verify" => <<r.tx, r.system>> \in files)
  /\ step = "files" /\ reply = "yes" => <<Tx, ActionOf[Tx]>> \in files

\* What the prover knows, and reports, is what the node told it of accepted blocks.
Known ==
  /\ \A r \in wire : r.tx \in Seen
  /\ tasks \subseteq Seen
  /\ \A p \in posted : p.tx \in Seen

\* A report keeps what it says from the prover to the vote.
Carried ==
  /\ votes \subseteq posted
  /\ \A p \in posts \cup handlers : p.tx # EmptyID => p \in posted

\* The batch holds what the loop has passed of the block.
Batched ==
  /\ ~StoreTransactions \/ step = "idle" => batch = {}
  /\ StoreTransactions /\ step \notin {"idle", "write"} =>
       batch = {Chain[blk][i] : i \in 1 .. pos - 1}
  /\ StoreTransactions /\ step = "write" => batch = BlockTxs(blk)

\* The inductive invariant.
NodeInv == TypeOK /\ Listened /\ Acknowledged /\ Known /\ Carried /\ Batched

-----------------------------------------------------------------------------
(* What a step leaves alone                                                *)

\* Outside Accepted and a crash nothing moves the loop or forgets a transaction.
LEMMA OthersLeave ==
  ASSUME TypeOK, Next, ~Accepted, ~Crash
  PROVE  /\ UNCHANGED <<blk, pos, step, batch, metaDB, queued, epoch, Tx>>
         /\ wire' \subseteq wire /\ files \subseteq files'
         /\ Seen \subseteq Seen'
<1>1. /\ UNCHANGED <<blk, pos, step, batch, metaDB, queued, epoch>>
      /\ wire' \subseteq wire /\ files \subseteq files'
      /\ accepted' = accepted \/ accepted' = accepted + 1
  BY DEF Next, Initialize, PingHub, PingProver, Ping, ListenResults, SubmitResult,
         PostRefused, GenerateTransaction, Accept, ProverTakesFiles, ProverTakesVerify,
         ProverPosts, ProverPostsGarbled
<1>2. Seen \subseteq Seen'
  <2>1. CASE accepted' = accepted
    BY <2>1 DEF Seen
  <2>2. CASE accepted' = accepted + 1
    <3>1. accepted \in Int
      BY TypeParts DEF Loop
    <3>2. 1 .. accepted \subseteq 1 .. accepted'
      BY <2>2, <3>1
    <3> QED BY <3>2 DEF Seen
  <2> QED BY <1>1, <2>1, <2>2
<1>3. UNCHANGED Tx
  BY <1>1 DEF Tx
<1> QED BY <1>1, <1>2, <1>3

\* A call leaves the batch, the maps and the prover alone, and sends at most one
\* request, about the transaction that the loop is at.
LEMMA CallsLeave ==
  ASSUME HandleAny
  PROVE  /\ UNCHANGED <<accepted, blk, pos, batch, metaDB, queued, handlers, votes, files,
                        tasks, posts, posted, epoch, Tx>>
         /\ step \in {"ask", "files", "verify"}
         /\ \/ /\ step' = "store" /\ UNCHANGED wire
            \/ \E kind \in {"files", "verify"} :
                 /\ step' = kind /\ reply' = "waiting"
                 /\ wire' = wire \cup {[kind |-> kind, tx |-> Tx, system |-> ActionOf[Tx],
                                        epoch |-> epoch]}
                 /\ kind = "verify" => step = "files" /\ reply = "yes"
<1>1. step \in {"ask", "files", "verify"} /\ (AskTx \/ SubmitTx \/ HandlerReturns \/ CallFails)
  BY HandlersAgree
<1>2. UNCHANGED <<accepted, blk, pos, batch, metaDB, queued, handlers, votes, files, tasks,
                  posts, posted, epoch>>
  BY <1>1 DEF AskTx, SubmitTx, Send, HandlerReturns, CallFails
<1>3. UNCHANGED Tx
  BY <1>2 DEF Tx
<1>4. CASE AskTx \/ SubmitTx
  BY <1>1, <1>2, <1>3, <1>4 DEF AskTx, SubmitTx, Send
<1>5. CASE HandlerReturns \/ CallFails
  BY <1>1, <1>2, <1>3, <1>5 DEF HandlerReturns, CallFails
<1> QED BY <1>1, <1>4, <1>5

-----------------------------------------------------------------------------
(* The invariant, part by part                                             *)

\* A crash forgets the queue, and by counting the run outdates every request.
LEMMA ListenedKept == ASSUME NodeInv, Next PROVE Listened'
<1> USE DEF NodeInv
<1>1. CASE Begin
  <2>1. step' \in {"listen", "store"}
    BY <1>1 DEF Begin, Turn
  <2> QED BY <1>1, <2>1 DEF Begin, Listened
<1>2. CASE ListenActions
  <2>1. UNCHANGED Tx
    BY <1>2 DEF ListenActions, Tx
  <2> QED BY <1>2, <2>1 DEF ListenActions, Listened
<1>3. CASE HandleAny
  <2>1. Tx \in queued /\ epoch <= epoch
    BY <1>3, CallsLeave DEF Listened, TypeOK
  <2>2. CASE step' = "store" /\ UNCHANGED wire
    BY <1>3, <2>2, CallsLeave DEF Listened
  <2>3. ASSUME NEW kind \in {"files", "verify"},
               wire' = wire \cup {[kind |-> kind, tx |-> Tx, system |-> ActionOf[Tx],
                                   epoch |-> epoch]}
        PROVE  Listened'
    BY <1>3, <2>1, <2>3, CallsLeave DEF Listened
  <2> QED BY <1>3, <2>2, <2>3, CallsLeave
<1>4. CASE StoreTransaction
  <2>1. step' \in {"listen", "store", "write"}
    BY <1>4 DEF StoreTransaction, Turn
  <2> QED BY <1>4, <2>1 DEF StoreTransaction, Listened
<1>5. CASE Write
  BY <1>5 DEF Write, Listened
<1>6. CASE ~Accepted /\ ~Crash
  BY <1>6, OthersLeave DEF Listened
<1>7. CASE Crash
  <2>1. step' = "idle" /\ UNCHANGED wire /\ epoch' = epoch + 1 /\ epoch \in Nat
    BY <1>7, BoundAssumption DEF Crash, TypeOK
  <2>2. ASSUME NEW r \in wire PROVE r.epoch <= epoch' /\ r.epoch # epoch'
    <3>1. r.epoch \in Nat /\ r.epoch <= epoch
      BY DEF TypeOK, Request, Listened
    <3> QED BY <2>1, <3>1
  <2> QED BY <2>1, <2>2 DEF Listened
<1> QED BY <1>1, <1>2, <1>3, <1>4, <1>5, <1>6, <1>7 DEF Accepted, HandleAny

\* A reply "yes" to the files comes from the prover having taken them.
LEMMA AcknowledgedKept == ASSUME NodeInv, Next PROVE Acknowledged'
<1> USE DEF NodeInv
<1>1. CASE Begin \/ ListenActions \/ StoreTransaction \/ Write
  <2>1. step' # "files" /\ UNCHANGED <<wire, files>>
    BY <1>1 DEF Begin, ListenActions, StoreTransaction, Write, Turn
  <2> QED BY <2>1 DEF Acknowledged
<1>2. CASE HandleAny
  <2>1. UNCHANGED files
    BY <1>2, CallsLeave
  <2>2. CASE step' = "store" /\ UNCHANGED wire
    BY <2>1, <2>2 DEF Acknowledged
  <2>3. ASSUME NEW kind \in {"files", "verify"}, reply' = "waiting",
               wire' = wire \cup {[kind |-> kind, tx |-> Tx, system |-> ActionOf[Tx],
                                   epoch |-> epoch]},
               kind = "verify" => step = "files" /\ reply = "yes"
        PROVE  Acknowledged'
    BY <2>1, <2>3 DEF Acknowledged
  <2> QED BY <1>2, <2>2, <2>3, CallsLeave
<1>3. ASSUME NEW r \in wire, ProverTakesFiles(r) \/ ProverTakesVerify(r), ~Accepted, ~Crash
      PROVE  Acknowledged'
  <2>1. UNCHANGED <<step, Tx>> /\ wire' \subseteq wire /\ files \subseteq files'
    BY <1>3, OthersLeave
  <2>2. ASSUME step' = "files", reply' = "yes" PROVE <<Tx, ActionOf[Tx]>> \in files'
    <3>1. CASE reply = "yes"
      BY <2>1, <2>2, <3>1 DEF Acknowledged
    <3>2. CASE reply # "yes"
      <4>1. step = r.kind /\ Tx = r.tx /\ ProverTakesFiles(r)
        BY <1>3, <2>1, <2>2, <3>2 DEF ProverTakesFiles, ProverTakesVerify, Reply
      <4>2. PICK ok \in {TRUE, Reliable} :
              /\ files' = IF ok THEN files \cup {<<r.tx, r.system>>} ELSE files
              /\ Reply(r, ok)
        BY <4>1 DEF ProverTakesFiles
      <4>3. ok
        BY <2>2, <3>2, <4>2 DEF Reply
      <4>4. r.system = ActionOf[Tx]
        BY <4>1 DEF Acknowledged
      <4> QED BY <4>1, <4>2, <4>3, <4>4
    <3> QED BY <3>1, <3>2
  <2> QED BY <2>1, <2>2 DEF Acknowledged
<1>4. CASE /\ ~Accepted /\ ~Crash
           /\ ~ \E r \in wire : ProverTakesFiles(r) \/ ProverTakesVerify(r)
  <2>1. UNCHANGED <<step, Tx>> /\ wire' \subseteq wire /\ files \subseteq files'
    BY <1>4, OthersLeave
  <2>2. UNCHANGED reply
    BY <1>4 DEF Next, Initialize, PingHub, PingProver, Ping, ListenResults, SubmitResult,
                PostRefused, GenerateTransaction, Accept, ProverPosts, ProverPostsGarbled
  <2> QED BY <2>1, <2>2 DEF Acknowledged
<1>5. CASE Crash
  BY <1>5 DEF Crash, Acknowledged
<1> QED BY <1>1, <1>2, <1>3, <1>4, <1>5 DEF Accepted, HandleAny, Next

\* The loop asks about blocks accepted by then, and the prover reports on that.
LEMMA KnownKept == ASSUME NodeInv, Next PROVE Known'
<1> USE DEF NodeInv
<1>1. CASE Begin \/ ListenActions \/ StoreTransaction \/ Write \/ Crash
  <2>1. UNCHANGED <<accepted, wire, tasks, posted>>
    BY <1>1 DEF Begin, ListenActions, StoreTransaction, Write, Crash
  <2>2. UNCHANGED Seen
    BY <2>1 DEF Seen
  <2> QED BY <2>1, <2>2 DEF Known
<1>2. CASE HandleAny
  <2>1. Tx \in Seen
    <3>1. blk \in 1 .. accepted /\ Tx \in BlockTxs(blk)
      BY <1>2, CallsLeave, AtTx, TypeParts
    <3> QED BY <3>1 DEF Seen
  <2>2. UNCHANGED <<tasks, posted>> /\ UNCHANGED accepted
    BY <1>2, CallsLeave
  <2>3. UNCHANGED Seen
    BY <2>2 DEF Seen
  <2>4. \A r \in wire' : r \in wire \/ r.tx = Tx
    BY <1>2, CallsLeave
  <2> QED BY <2>1, <2>2, <2>3, <2>4 DEF Known
<1>3. CASE ~Accepted /\ ~Crash
  <2>1. wire' \subseteq wire /\ Seen \subseteq Seen'
    BY <1>3, OthersLeave
  <2>2. /\ \A t \in tasks' : t \in tasks \/ \E r \in wire : t = r.tx
        /\ \A p \in posted' : p \in posted \/ p.tx \in tasks
    <3>1. ASSUME NEW r \in wire, ProverTakesFiles(r) \/ ProverTakesVerify(r)
          PROVE  tasks' \subseteq tasks \cup {r.tx} /\ UNCHANGED posted
      BY <3>1 DEF ProverTakesFiles, ProverTakesVerify
    <3>2. ASSUME NEW t \in tasks, NEW result \in Results, ProverPosts(t, result)
          PROVE  /\ posted' = posted \cup {[tx |-> t, result |-> result]}
                 /\ UNCHANGED tasks
      BY <3>2 DEF ProverPosts
    <3>3. CASE /\ ~ \E r \in wire : ProverTakesFiles(r) \/ ProverTakesVerify(r)
               /\ ~ \E t \in tasks, result \in Results : ProverPosts(t, result)
      <4>1. UNCHANGED <<tasks, posted>>
        BY <1>3, <3>3 DEF Next, Initialize, PingHub, PingProver, Ping, ListenResults,
                          SubmitResult, PostRefused, GenerateTransaction, Accept,
                          ProverPostsGarbled
      <4> QED BY <4>1
    <3> QED BY <3>1, <3>2, <3>3
  <2> QED BY <2>1, <2>2 DEF Known
<1> QED BY <1>1, <1>2, <1>3 DEF Accepted, HandleAny

\* submitResult and GenerateTransaction pass a report on as it is, or drop it.
LEMMA CarriedKept == ASSUME NodeInv, Next PROVE Carried'
<1> USE DEF NodeInv
<1>1. CASE Begin \/ ListenActions \/ StoreTransaction \/ Write
  <2>1. UNCHANGED <<votes, posted, posts, handlers>>
    BY <1>1 DEF Begin, ListenActions, StoreTransaction, Write
  <2> QED BY <2>1 DEF Carried
<1>2. CASE HandleAny
  BY <1>2, CallsLeave DEF Carried
<1>3. CASE Crash
  BY <1>3 DEF Crash, Carried
<1>4. CASE \/ Initialize \/ ListenResults \/ Accept
           \/ \E r \in wire : ProverTakesFiles(r) \/ ProverTakesVerify(r)
  <2>1. UNCHANGED <<votes, posted, posts, handlers>>
    BY <1>4 DEF Initialize, PingHub, PingProver, Ping, ListenResults, Accept,
                ProverTakesFiles, ProverTakesVerify
  <2> QED BY <2>1 DEF Carried
<1>5. ASSUME NEW p \in posts, SubmitResult(p) \/ PostRefused(p) PROVE Carried'
  BY <1>5 DEF SubmitResult, PostRefused, Carried
<1>6. ASSUME NEW h \in handlers, GenerateTransaction(h) PROVE Carried'
  BY <1>6 DEF GenerateTransaction, Carried
<1>7. ASSUME NEW t \in tasks, NEW result \in Results, ProverPosts(t, result) PROVE Carried'
  BY <1>7 DEF ProverPosts, Carried
<1>8. ASSUME NEW result \in Results, ProverPostsGarbled(result) PROVE Carried'
  <2>1. [tx |-> EmptyID, result |-> result].tx = EmptyID
    OBVIOUS
  <2> QED BY <1>8, <2>1 DEF ProverPostsGarbled, Carried
<1> QED BY <1>1, <1>2, <1>3, <1>4, <1>5, <1>6, <1>7, <1>8 DEF Next, Accepted, HandleAny

\* Each turn of the loop adds its transaction to the batch, whatever its call did.
LEMMA BatchedKept == ASSUME NodeInv, Next PROVE Batched'
<1> USE DEF NodeInv
<1>1. CASE Begin
  <2>1. step' \in {"listen", "store"} /\ pos' = 1 /\ batch' = {} /\ UNCHANGED blk
    BY <1>1 DEF Begin, Turn
  <2>2. {Chain[blk][i] : i \in 1 .. 1 - 1} = {}
    OBVIOUS
  <2> QED BY <2>1, <2>2 DEF Batched
<1>2. CASE ListenActions
  BY <1>2 DEF ListenActions, Batched
<1>3. CASE HandleAny
  <2>1. /\ UNCHANGED <<blk, pos, batch>> /\ step \in {"ask", "files", "verify"}
        /\ step' \in {"store", "files", "verify"}
    BY <1>3, CallsLeave
  <2> QED BY <2>1 DEF Batched
<1>4. CASE StoreTransaction
  <2>1. /\ step = "store" /\ UNCHANGED blk
        /\ IF pos < Len(Chain[blk]) THEN pos' = pos + 1 /\ step' = Turn(blk, pos + 1)
                                    ELSE pos' = pos /\ step' = "write"
        /\ batch' = IF StoreTransactions THEN batch \cup {Tx} ELSE batch
    BY <1>4 DEF StoreTransaction
  <2>2. blk \in 1 .. Len(Chain) /\ pos \in 1 .. Len(Chain[blk]) /\ Len(Chain[blk]) \in Nat
    BY <2>1, AtTx, BlockHasFirst, TypeParts
  <2>3. StoreTransactions => batch' = {Chain[blk][i] : i \in 1 .. pos}
    <3>1. pos \in Nat /\ 1 .. pos = (1 .. pos - 1) \cup {pos}
      BY <2>2
    <3>2. StoreTransactions => batch = {Chain[blk][i] : i \in 1 .. pos - 1}
      BY <2>1 DEF Batched
    <3> QED BY <2>1, <3>1, <3>2 DEF Tx
  <2>4. ~StoreTransactions => batch' = {}
    BY <2>1 DEF Batched
  <2>5. CASE pos < Len(Chain[blk])
    <3>1. step' \in {"listen", "store"} /\ pos' = pos + 1
      BY <2>1, <2>5 DEF Turn
    <3>2. pos' - 1 = pos
      BY <2>2, <3>1
    <3> QED BY <2>1, <2>3, <2>4, <3>1, <3>2 DEF Batched
  <2>6. CASE ~ (pos < Len(Chain[blk]))
    <3>1. step' = "write" /\ pos = Len(Chain[blk])
      BY <2>1, <2>2, <2>6
    <3>2. StoreTransactions => batch' = BlockTxs(blk)
      BY <2>3, <3>1 DEF BlockTxs
    <3>3. blk' = blk
      BY <2>1
    <3> QED BY <2>4, <3>1, <3>2, <3>3 DEF Batched
  <2> QED BY <2>5, <2>6
<1>5. CASE Write
  BY <1>5 DEF Write, Batched
<1>6. CASE Crash
  BY <1>6 DEF Crash, Batched
<1>7. CASE ~Accepted /\ ~Crash
  BY <1>7, OthersLeave DEF Batched
<1> QED BY <1>1, <1>2, <1>3, <1>4, <1>5, <1>6, <1>7 DEF Accepted, HandleAny

\* Every step keeps the invariant.
LEMMA NodeInvStep == NodeInv /\ [Next]_vars => NodeInv'
<1>1. ASSUME NodeInv, Next PROVE NodeInv'
  <2>1. TypeOK'
    BY <1>1, TypeStep DEF NodeInv
  <2> QED BY <1>1, <2>1, ListenedKept, AcknowledgedKept, KnownKept, CarriedKept, BatchedKept
          DEF NodeInv
<1>2. ASSUME NodeInv, UNCHANGED vars PROVE NodeInv'
  <2>1. TypeOK'
    BY <1>2, TypeStep DEF NodeInv
  <2>2. UNCHANGED <<Tx, Seen>>
    BY <1>2 DEF vars, Tx, Seen
  <2>3. Listened' /\ Acknowledged'
    BY <1>2, <2>2 DEF vars, NodeInv, Listened, Acknowledged
  <2>4. Known' /\ Carried' /\ Batched'
    BY <1>2, <2>2 DEF vars, NodeInv, Known, Carried, Batched
  <2> QED BY <2>1, <2>3, <2>4 DEF NodeInv
<1> QED BY <1>1, <1>2

\* It holds of a node that starts.
LEMMA NodeInvInit == Init => NodeInv
<1> SUFFICES ASSUME Init PROVE NodeInv
  OBVIOUS
<1>1. Listened /\ Acknowledged /\ Known /\ Carried /\ Batched
  BY DEF Init, Listened, Acknowledged, Known, Carried, Batched
<1> QED BY <1>1, TypeInit DEF NodeInv

\* The invariant of the node.
THEOREM NodeInvariant == Spec => []NodeInv
BY NodeInvInit, NodeInvStep, PTL DEF Spec

\* ListenActions comes before the first call to the prover: of what this run of
\* the node asks about, everything is already listened for.
THEOREM ListenedBeforeAsked == Spec => []AskedAreQueued
<1>1. NodeInv => AskedAreQueued
  BY DEF NodeInv, Listened, AskedAreQueued
<1> QED BY <1>1, NodeInvariant, PTL

\* The prover is asked to verify only files that it acknowledged, with the
\* proving system it took them for.
THEOREM VerifyNeedsFiles == Spec => []VerifyAfterFiles
<1>1. NodeInv => VerifyAfterFiles
  BY DEF NodeInv, Acknowledged, VerifyAfterFiles
<1> QED BY <1>1, NodeInvariant, PTL

\* A vote is a report, unaltered, on a transaction of an accepted block.
THEOREM OnlyReportsVoted == Spec => []VotesAreReports
<1>1. NodeInv => VotesAreReports
  BY DEF NodeInv, Carried, Known, Seen, VotesAreReports
<1> QED BY <1>1, NodeInvariant, PTL

\* The database grows by the whole of an accepted block, or not at all.
THEOREM WholeBlocksIndexed == Spec => IndexesWholeBlocks
<1>1. ASSUME NodeInv, [Next]_vars
      PROVE  [metaDB' # metaDB =>
                \E b \in 1 .. accepted : metaDB' = metaDB \cup BlockTxs(b)]_vars
  <2>1. CASE Write
    <3>1. blk \in 1 .. accepted /\ metaDB' = metaDB \cup batch
      BY <1>1, <2>1, AtTx, TypeParts DEF Write, NodeInv
    <3>2. batch = {} \/ batch = BlockTxs(blk)
      BY <1>1, <2>1 DEF NodeInv, Batched, Write
    <3> QED BY <3>1, <3>2
  <2>2. CASE Next /\ ~Write
    <3>1. UNCHANGED metaDB
      <4>1. CASE ~Accepted /\ ~Crash
        BY <1>1, <2>2, <4>1, OthersLeave DEF NodeInv
      <4>2. CASE Crash
        BY <4>2 DEF Crash
      <4>3. CASE HandleAny
        BY <4>3, CallsLeave
      <4>4. CASE Begin \/ ListenActions \/ StoreTransaction
        BY <4>4 DEF Begin, ListenActions, StoreTransaction
      <4> QED BY <2>2, <4>1, <4>2, <4>3, <4>4 DEF Accepted, HandleAny
    <3> QED BY <3>1
  <2>3. CASE UNCHANGED vars
    BY <2>3
  <2> QED BY <1>1, <2>1, <2>2, <2>3
<1> QED BY <1>1, NodeInvariant, PTL DEF Spec, IndexesWholeBlocks
=============================================================================
