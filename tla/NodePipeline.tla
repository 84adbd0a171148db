---------------------------- MODULE NodePipeline ----------------------------
(***************************************************************************)
(* One node between the chain and its prover: Controller.Accepted walks    *)
(* each accepted block and asks the prover about the verify actions in it, *)
(* one blocking call after the other; the prover reports to the node's     *)
(* /submit-result handler whenever it likes; each report becomes a vote    *)
(* transaction.  Handlers run concurrently with Accepted and each other.   *)
(* A node starts, and restarts, by pinging the hub and then the prover.    *)
(*                                                                         *)
(* External, modelled from how src/ uses it: consensus (accepts blocks and *)
(* hands them to Accepted one at a time), the prover (a Rust server), HTTP *)
(* (a call may fail at any time, and its request be handled late or never) *)
(* and the process itself (it may crash; what is only in memory is lost).  *)
(***************************************************************************)
EXTENDS Integers, Sequences, FiniteSets

CONSTANTS
  Chain,              \* the accepted blocks: a sequence of sequences of tx ids
  VerifyTxs,          \* the transactions that carry a verify action
  ActionOf,           \* the type of the verify action of each of them
  EmptyID,            \* ids.Empty
  StoreTransactions,  \* the configuration flag
  Reliable,           \* TRUE: no call, prover, price query or submit fails
  MaxCrashes,         \* bound on crashes
  MaxPosts            \* bound on the repeated and the garbled reports

BlockTxs(b) == {Chain[b][i] : i \in 1 .. Len(Chain[b])}
AllTxs      == UNION {BlockTxs(b) : b \in 1 .. Len(Chain)}

VerifyActions == {"SP1", "RiscZero", "Miden", "Jolt", "PLONKY2"}

ASSUME ChainAssumption ==
  /\ Chain \in Seq(Seq(AllTxs))
  /\ \A b \in 1 .. Len(Chain) : Chain[b] # <<>>
  /\ VerifyTxs \subseteq AllTxs /\ EmptyID \notin AllTxs
  /\ ActionOf \in [VerifyTxs -> VerifyActions]
ASSUME SettingAssumption ==
  StoreTransactions \in BOOLEAN /\ Reliable \in BOOLEAN
ASSUME BoundAssumption == MaxCrashes \in Nat /\ MaxPosts \in Nat

VARIABLES
  phase,     \* Initialize: the ping it is at, "up" or "failed"
  listener,  \* the HTTP server of ListenResults: "off", "on" or "dead"
  accepted,  \* consensus: the number of blocks accepted so far
  blk, pos,  \* Accepted: the block it is in, or the next one, and the index of tx
  step,      \* Accepted: what it does next
  reply,     \* Accepted: the prover's answer to the call it is blocked on
  batch,     \* Accepted: the transactions put into the database batch
  metaDB,    \* the transactions on disk
  queued,    \* trustless.queuedActions
  verified,  \* trustless.verifiedActions
  handlers,  \* submitResult calls between the map update and the submission
  votes,     \* the vote transactions submitted to the VM
  wire,      \* requests sent to the prover and not handled yet
  files,     \* prover: the transactions whose files it has taken, and for which system
  tasks,     \* prover: transactions it verifies
  posts,     \* reports on their way to /submit-result
  posted,    \* history: the well-formed reports the prover has sent
  nposts,    \* history: how many repeated or garbled reports it has sent
  epoch      \* history: how often the node has restarted

process  == <<phase, listener>>
acceptor == <<blk, pos, step, reply, batch>>
memory   == <<queued, verified, handlers>>
prover   == <<wire, files, tasks>>
reports  == <<posts, posted, nposts>>
vars == <<process, accepted, acceptor, metaDB, memory, votes, prover, reports, epoch>>

Steps   == {"idle", "listen", "ask", "files", "verify", "store", "write"}
Results == {"valid", "invalid"}
Ids     == VerifyTxs \cup {EmptyID}
Report  == [tx : Ids, result : Results]
Request == [kind : {"files", "verify"}, tx : VerifyTxs, system : VerifyActions, epoch : Nat]

Tx == Chain[blk][pos]

SP1VERIFY      == 1
MIDENVERIFY    == 2
RISCZEROVERFIY == 3
JOLTVERIFY     == 4
PLONKY2VERIFY  == 5

\* The prover's reading of a verify type.
Verifier == <<"SP1", "Miden", "RiscZero", "Jolt", "PLONKY2">>

-----------------------------------------------------------------------------
(* Initialize                                                              *)

\* Ping and PingSingle: a GET that is answered with success, or Initialize fails.
Ping(next) ==
  /\ \/ phase' = next
     \/ ~Reliable /\ phase' = "failed"
  /\ UNCHANGED <<listener, accepted, acceptor, metaDB, memory, votes, prover, reports, epoch>>

\* config.New: the hub names the ports of the prover and of the listener, and
\* the prover itself must answer.
PingHub    == phase = "hub" /\ Ping("prover")
PingProver == phase = "prover" /\ Ping("up")

Initialize == PingHub \/ PingProver

\* The goroutine that Initialize starts.  The error of ListenAndServe, which
\* comes at once if the port is taken, is dropped.
ListenResults ==
  /\ phase = "up" /\ listener = "off"
  /\ \/ listener' = "on"
     \/ ~Reliable /\ listener' = "dead"
  /\ UNCHANGED <<phase, accepted, acceptor, metaDB, memory, votes, prover, reports, epoch>>

-----------------------------------------------------------------------------
(* Controller.Accepted                                                     *)

\* Mutants: a verify action is asked about without being listened for first; a
\* verify action has no case in the switch.
Turn_Ask(b, i)  == IF Chain[b][i] \in VerifyTxs THEN "ask" ELSE "store"
Turn_Skip(b, i) == "store"

\* The first or next transaction of the block: a verify action is listened for
\* and asked about, any other goes straight to the database batch.
Turn(b, i) == IF Chain[b][i] \in VerifyTxs THEN "listen" ELSE "store"

\* batch := metaDB.NewBatch(), and into the loop.
Begin ==
  /\ phase = "up" /\ step = "idle" /\ blk <= accepted
  /\ pos' = 1 /\ step' = Turn(blk, 1) /\ batch' = {}
  /\ UNCHANGED <<process, accepted, blk, reply, metaDB, memory, votes, prover, reports, epoch>>

\* ListenActions, under the lock, before the prover hears of the transaction.
ListenActions ==
  /\ step = "listen"
  /\ queued' = queued \cup {Tx}
  /\ step' = "ask"
  /\ UNCHANGED <<process, accepted, blk, pos, reply, batch, metaDB, verified, handlers,
                 votes, prover, reports, epoch>>

\* NewRequest and cli.Do: the POST is sent and Accepted blocks on the reply.
Send(kind, system) ==
  /\ wire' = wire \cup {[kind |-> kind, tx |-> Tx, system |-> system, epoch |-> epoch]}
  /\ reply' = "waiting"
  /\ step' = kind
  /\ UNCHANGED <<process, accepted, blk, pos, batch, metaDB, memory, votes, files, tasks,
                 reports, epoch>>

\* The first call, with the file paths, to the endpoint of a proving system.
Ask(endpoint) == step = "ask" /\ Send("files", endpoint)

\* Mutant: IsSubmitted is not looked at.
Submitted_Always(verifyType) ==
  /\ step = "files" /\ reply \in {"yes", "no"}
  /\ Send("verify", Verifier[verifyType])

\* The second call, to /verify, is made only if IsSubmitted.
Submitted(verifyType) ==
  /\ step = "files" /\ reply = "yes"
  /\ Send("verify", Verifier[verifyType])

\* Mutant: the reply to the call is left for the next one to find.
HandlerReturns_Kept ==
  /\ \/ step = "verify" /\ reply \in {"yes", "no"}
     \/ step = "files" /\ reply = "no"
  /\ step' = "store"
  /\ UNCHANGED <<process, accepted, blk, pos, reply, batch, metaDB, memory, votes, prover,
                 reports, epoch>>

\* The handler returns nil: the files were not submitted, or the reply to
\* /verify was read (its IsSubmitted is not looked at).
HandlerReturns ==
  /\ \/ step = "verify" /\ reply \in {"yes", "no"}
     \/ step = "files" /\ reply = "no"
  /\ step' = "store" /\ reply' = "none"
  /\ UNCHANGED <<process, accepted, blk, pos, batch, metaDB, memory, votes, prover, reports, epoch>>

\* Mutant: a call that failed is made again.
CallFails_Retry ==
  /\ ~Reliable
  /\ step \in {"files", "verify"}
  /\ step' = "ask" /\ reply' = "none"
  /\ UNCHANGED <<process, accepted, blk, pos, batch, metaDB, memory, votes, prover, reports, epoch>>

\* A refused connection, the client's time-out or an unreadable reply: the
\* handler returns the error, Accepted logs it and goes on.  The request may
\* still be on its way.
CallFails ==
  /\ ~Reliable
  /\ step \in {"files", "verify"}
  /\ step' = "store" /\ reply' = "none"
  /\ UNCHANGED <<process, accepted, blk, pos, batch, metaDB, memory, votes, prover, reports, epoch>>

\* The five handlers are copies of one another, but for the endpoint and the
\* verify type; Accepted's switch picks one by the type of the action.
Handle(action, endpoint, verifyType) ==
  /\ step \in {"ask", "files", "verify"} /\ ActionOf[Tx] = action
  /\ Ask(endpoint) \/ Submitted(verifyType) \/ HandlerReturns \/ CallFails

HandleSP1      == Handle("SP1",      "SP1",      SP1VERIFY)
HandleRiscZero == Handle("RiscZero", "RiscZero", RISCZEROVERFIY)
HandleMiden    == Handle("Miden",    "Miden",    MIDENVERIFY)
HandleJolt     == Handle("Jolt",     "Jolt",     JOLTVERIFY)
HandlePlonky2  == Handle("PLONKY2",  "PLONKY2",  PLONKY2VERIFY)

\* Mutant: the transaction is put into the database itself.
StoreTransaction_Direct ==
  /\ step = "store"
  /\ metaDB' = IF StoreTransactions THEN metaDB \cup {Tx} ELSE metaDB
  /\ IF pos < Len(Chain[blk]) THEN pos' = pos + 1 /\ step' = Turn(blk, pos + 1)
                              ELSE pos' = pos /\ step' = "write"
  /\ UNCHANGED <<process, accepted, blk, reply, batch, memory, votes, prover, reports, epoch>>

\* StoreTransaction into the batch, if configured, and on to the next.
StoreTransaction ==
  /\ step = "store"
  /\ batch' = IF StoreTransactions THEN batch \cup {Tx} ELSE batch
  /\ IF pos < Len(Chain[blk]) THEN pos' = pos + 1 /\ step' = Turn(blk, pos + 1)
                              ELSE pos' = pos /\ step' = "write"
  /\ UNCHANGED <<process, accepted, blk, reply, metaDB, memory, votes, prover, reports, epoch>>

\* batch.Write(), the deferred Reset, and the return to the acceptor loop.
Write ==
  /\ step = "write"
  /\ metaDB' = metaDB \cup batch
  /\ batch' = {} /\ blk' = blk + 1 /\ step' = "idle"
  /\ UNCHANGED <<process, accepted, pos, reply, memory, votes, prover, reports, epoch>>

-----------------------------------------------------------------------------
(* trustless: the report handler                                           *)

\* submitResult up to the unlock.  An id that does not parse is answered with
\* 400 but handled on, as ids.Empty.
SubmitResult(p) ==
  /\ p \in posts /\ listener = "on"
  /\ posts' = posts \ {p}
  /\ verified' = [verified EXCEPT ![p.tx] = p.result]
  /\ handlers' = handlers \cup {p}
  /\ UNCHANGED <<process, accepted, acceptor, metaDB, queued, votes, prover, posted, nposts, epoch>>

\* Mutant: a transaction about the empty id is submitted like any other.
GenerateTransaction_Any(h) ==
  /\ h \in handlers
  /\ handlers' = handlers \ {h}
  /\ votes' = votes \cup {h}
  /\ UNCHANGED <<process, accepted, acceptor, metaDB, queued, verified, prover, reports, epoch>>

\* GenerateTransaction.  Sign re-parses what it signed, and the codec refuses an
\* empty TxID; the price query and the submission may fail too.
GenerateTransaction(h) ==
  /\ h \in handlers
  /\ handlers' = handlers \ {h}
  /\ \/ h.tx # EmptyID /\ votes' = votes \cup {h}
     \/ (h.tx = EmptyID \/ ~Reliable) /\ UNCHANGED votes
  /\ UNCHANGED <<process, accepted, acceptor, metaDB, queued, verified, prover, reports, epoch>>

-----------------------------------------------------------------------------
(* Environment                                                             *)

Accept ==
  /\ phase = "up" /\ accepted < Len(Chain)
  /\ accepted' = accepted + 1
  /\ UNCHANGED <<process, acceptor, metaDB, memory, votes, prover, reports, epoch>>

\* The reply reaches Accepted only while it waits for this very call.
Reply(r, ok) ==
  reply' = IF /\ reply = "waiting" /\ step = r.kind /\ Tx = r.tx /\ epoch = r.epoch
           THEN IF ok THEN "yes" ELSE "no" ELSE reply

ProverTakesFiles(r) ==
  /\ r \in wire /\ r.kind = "files"
  /\ wire' = wire \ {r}
  /\ \E ok \in {TRUE, Reliable} :
       /\ files' = IF ok THEN files \cup {<<r.tx, r.system>>} ELSE files
       /\ Reply(r, ok)
  /\ UNCHANGED <<process, accepted, blk, pos, step, batch, metaDB, memory, votes, tasks, reports, epoch>>

ProverTakesVerify(r) ==
  /\ r \in wire /\ r.kind = "verify"
  /\ wire' = wire \ {r}
  /\ LET known == <<r.tx, r.system>> \in files
     IN  /\ tasks' = IF known THEN tasks \cup {r.tx} ELSE tasks
         /\ Reply(r, known)
  /\ UNCHANGED <<process, accepted, blk, pos, step, batch, metaDB, memory, votes, files, reports, epoch>>

Reported(t) == \E p \in posted : p.tx = t

\* A report on a task, with either result, as often as the prover likes.
ProverPosts(t, result) ==
  LET p == [tx |-> t, result |-> result] IN
  /\ t \in tasks
  /\ IF Reported(t) THEN nposts < MaxPosts /\ nposts' = nposts + 1
                    ELSE UNCHANGED nposts
  /\ posts' = posts \cup {p} /\ posted' = posted \cup {p}
  /\ UNCHANGED <<process, accepted, acceptor, metaDB, memory, votes, prover, epoch>>

\* A report whose tx_id does not parse.
ProverPostsGarbled(result) ==
  /\ ~Reliable /\ nposts < MaxPosts
  /\ posts' = posts \cup {[tx |-> EmptyID, result |-> result]} /\ nposts' = nposts + 1
  /\ UNCHANGED <<process, accepted, acceptor, metaDB, memory, votes, prover, posted, epoch>>

\* Nobody listens: the prover's call is refused and its report is lost.
PostRefused(p) ==
  /\ ~Reliable /\ p \in posts /\ listener # "on"
  /\ posts' = posts \ {p}
  /\ UNCHANGED <<process, accepted, acceptor, metaDB, memory, votes, prover, posted,
                 nposts, epoch>>

\* The process dies and starts again.  The maps, the handlers and the batch are
\* gone, reports in flight may be; a block accepted but not finished may be
\* handed to Accepted again or not.
Crash ==
  /\ epoch < MaxCrashes
  /\ epoch' = epoch + 1
  /\ phase' = "hub" /\ listener' = "off"
  /\ \E b \in blk .. accepted + 1 : blk' = b
  /\ pos' = 1 /\ step' = "idle" /\ reply' = "none" /\ batch' = {}
  /\ queued' = {} /\ verified' = [i \in Ids |-> "none"] /\ handlers' = {}
  /\ \E kept \in SUBSET posts : posts' = kept
  /\ UNCHANGED <<accepted, metaDB, votes, prover, posted, nposts>>

Init ==
  /\ phase = "hub" /\ listener = "off"
  /\ accepted = 0
  /\ blk = 1 /\ pos = 1 /\ step = "idle" /\ reply = "none" /\ batch = {}
  /\ metaDB = {}
  /\ queued = {} /\ verified = [i \in Ids |-> "none"] /\ handlers = {}
  /\ votes = {}
  /\ wire = {} /\ files = {} /\ tasks = {}
  /\ posts = {} /\ posted = {} /\ nposts = 0
  /\ epoch = 0

Accepted ==
  \/ Begin \/ ListenActions
  \/ HandleSP1 \/ HandleRiscZero \/ HandleMiden \/ HandleJolt \/ HandlePlonky2
  \/ StoreTransaction \/ Write

Next ==
  \/ Initialize \/ ListenResults
  \/ Accepted
  \/ \E p \in posts : SubmitResult(p) \/ PostRefused(p)
  \/ \E h \in handlers : GenerateTransaction(h)
  \/ Accept
  \/ \E r \in wire : ProverTakesFiles(r) \/ ProverTakesVerify(r)
  \/ \E t \in tasks, result \in Results : ProverPosts(t, result)
  \/ \E result \in Results : ProverPostsGarbled(result)
  \/ Crash

Spec == Init /\ [][Next]_vars

\* The acceptor goroutine keeps running: a call it is blocked on ends with a
\* reply or, at the latest, with the client's time-out.
NodeSpec == Spec /\ WF_vars(Accepted)

\* Moreover the listener starts, and the handlers and the prover run on.
ReliableSpec ==
  /\ NodeSpec /\ WF_vars(ListenResults)
  /\ \A p \in Report : WF_vars(SubmitResult(p)) /\ WF_vars(GenerateTransaction(p))
  /\ \A t \in VerifyTxs :
       /\ WF_vars(\E r \in wire : r.tx = t /\ (ProverTakesFiles(r) \/ ProverTakesVerify(r)))
       /\ WF_vars(~Reported(t) /\ \E result \in Results : ProverPosts(t, result))

-----------------------------------------------------------------------------
(* Properties                                                              *)

TypeOK ==
  /\ phase \in {"hub", "prover", "up", "failed"}
  /\ listener \in {"off", "on", "dead"}
  /\ phase # "up" => step = "idle" /\ listener = "off" /\ handlers = {}
  /\ accepted \in 0 .. Len(Chain)
  /\ blk \in 1 .. accepted + 1
  /\ step \in Steps /\ reply \in {"none", "waiting", "yes", "no"}
  /\ step # "idle" => blk <= accepted /\ pos \in 1 .. Len(Chain[blk])
  /\ step \in {"listen", "ask", "files", "verify"} => Tx \in VerifyTxs
  /\ step \in {"files", "verify"} <=> reply # "none"
  /\ batch \subseteq AllTxs /\ metaDB \subseteq AllTxs
  /\ queued \subseteq VerifyTxs
  /\ verified \in [Ids -> Results \cup {"none"}]
  /\ handlers \subseteq Report /\ posts \subseteq Report
  /\ votes \subseteq [tx : VerifyTxs, result : Results]
  /\ posted \subseteq [tx : VerifyTxs, result : Results]
  /\ wire \subseteq Request
  /\ files \subseteq VerifyTxs \X VerifyActions /\ tasks \subseteq VerifyTxs
  /\ nposts \in 0 .. MaxPosts /\ epoch \in 0 .. MaxCrashes

\* The Tx query never sees half a block: whatever call fails and wherever the
\* process dies, transactions reach the database a whole block at a time.
IndexesWholeBlocks ==
  [][metaDB' # metaDB => \E b \in 1 .. accepted : metaDB' = metaDB \cup BlockTxs(b)]_vars

\* When the prover hears of a transaction from this run of the node, the node
\* already listens for it: ListenActions comes before the first call, so a
\* prompt report finds its entry.
AskedAreQueued ==
  /\ \A r \in wire : r.epoch = epoch => r.tx \in queued
  /\ step \in {"files", "verify"} => Tx \in queued

\* The prover is asked to verify only what it has acknowledged the files of, and
\* with the proving system it took them for, over late replies and restarts.
VerifyAfterFiles ==
  \A r \in wire : r.kind = "verify" => <<r.tx, r.system>> \in files

\* A vote that the node signs is a report of the prover on a transaction in an
\* accepted block; a report whose id does not parse never becomes a vote.
VotesAreReports ==
  /\ votes \subseteq posted
  /\ \A v \in votes : \E b \in 1 .. accepted : v.tx \in BlockTxs(b)

\* Every block that is handed to a running node is indexed unless the node dies
\* first, even if each call to the prover fails or times out, or its reports find
\* no listener: errors do not stop the acceptor, and a restart does not either.
BlocksIndexed ==
  \A b \in 1 .. Len(Chain), e \in 0 .. MaxCrashes :
    (phase = "up" /\ epoch = e /\ b \in blk .. accepted)
      ~> (BlockTxs(b) \subseteq metaDB \/ epoch > e)

\* With a reliable prover and no crash, each accepted proof gets a vote.
ProofsVoted ==
  \A t \in VerifyTxs :
    (\E b \in 1 .. accepted : t \in BlockTxs(b)) ~> (\E v \in votes : v.tx = t)
=============================================================================
