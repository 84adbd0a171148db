---------------------------- MODULE ClientProofs ----------------------------
(***************************************************************************)
(* Theorems about Client, for every set of keys, every scheme of each, and *)
(* any number of transactions: what the client signs with, what it tells   *)
(* the user of a transaction, and what success of a command means.         *)
(*                                                                         *)
(* What a command returned must stay true while the chain goes on and      *)
(* other commands run, so ClientInv says it of the command that ended last *)
(* (Refusals, Results, Successes), of every message still undelivered      *)
(* (Delivered), and of the index; and it says which transactions a         *)
(* websocket can have been told of, which is what tells the commands apart *)
(* from spam.                                                              *)
(***************************************************************************)
EXTENDS Client, TLAPS

\* What the chain may have been sent, and what became of it.
Tx == [by : Schemes \X Keys, fate : Fates \cup {"pending"}]

Decided(i) == txs[i].fate \in Fates

\* What the websocket may have delivered: the fates of transactions that are
\* registered on it.
Told == {[tx |-> i, fate |-> txs[i].fate] : i \in {j \in conn : Decided(j)}}

\* Shapes.
Shape ==
  /\ stored \subseteq Keys /\ default \subseteq stored
  /\ cmd = [at |-> cmd.at, name |-> cmd.name, key |-> cmd.key, action |-> cmd.action]
  /\ txs \in Seq(Tx)
  /\ conn \subseteq 1 .. Len(txs)
  /\ index \subseteq {i \in 1 .. Len(txs) : txs[i].fate \in {"failed", "done"}}
  /\ ended.tx \in 0 .. Len(txs)

\* A command that may still sign has the key of the user.
KeysStored ==
  cmd.at \in {"prompt", "confirm", "send", "listen", "spam"} => cmd.key \subseteq stored

\* What is delivered is true, and only spam has more than one transaction on its
\* websocket.
Delivered ==
  /\ inbox \in Seq(Told)
  /\ cmd.name # "dummy" => conn \subseteq (IF cmd.at = "listen" THEN {Len(txs)} ELSE {})

\* Which command is where.
Places ==
  /\ cmd.at = "idle" => cmd.name = "none"
  /\ cmd.at = "wait" => cmd.name = "wait"
  /\ cmd.at = "spam" => cmd.name = "dummy"

\* What sendAndWait reports in an error.
Refusals ==
  ended.why = "refused" =>
    \E i \in 1 .. ended.tx :
      txs[i].fate = "refused" /\ (ended.name # "dummy" => i = ended.tx)

\* What it reports as a result.
Results ==
  ended.why \in {"failed", "done"} => ended.tx # 0 /\ txs[ended.tx].fate = ended.why

\* What success means, with nothing that can change any more.
Successes ==
  ended.name \in Senders /\ ended.exit = "ok" =>
    \/ ended.why \in {"poor", "declined", "failed", "done"}
    \/ ended.why = "prompt" /\ ended.name = "register-image"

\* The inductive invariant.
ClientInv ==
  /\ Shape /\ SpendsFromStored /\ KeysStored /\ Delivered /\ Places
  /\ Refusals /\ Results /\ Successes

-----------------------------------------------------------------------------
(* Sequences                                                               *)

\* A sequence over a set is one over a larger set.
LEMMA SeqGrows ==
  ASSUME NEW S, NEW T, S \subseteq T, NEW s \in Seq(S)
  PROVE  s \in Seq(T)
OBVIOUS

\* What a sequence has, with one more.
LEMMA AppendHas ==
  ASSUME NEW S, NEW s \in Seq(S), NEW e \in S
  PROVE  /\ Append(s, e) \in Seq(S) /\ Len(Append(s, e)) = Len(s) + 1 /\ Len(s) \in Nat
         /\ \A i \in 1 .. Len(s) : Append(s, e)[i] = s[i]
         /\ Append(s, e)[Len(s) + 1] = e
OBVIOUS

\* The first message, and those after it.
LEMMA HeadAndTail ==
  ASSUME NEW S, NEW s \in Seq(S), s # <<>>
  PROVE  Head(s) \in S /\ Tail(s) \in Seq(S)
OBVIOUS

-----------------------------------------------------------------------------
(* Groups of steps                                                         *)

\* A step that leaves the transactions and what is known of them alone leaves
\* the history and the index as they should be.
LEMMA SameTxs ==
  ASSUME ClientInv, UNCHANGED <<txs, index>>, stored' \subseteq Keys, stored \subseteq stored'
  PROVE  /\ SpendsFromStored'
         /\ txs' \in Seq(Tx) /\ Len(txs) \in Nat
         /\ index' \subseteq {i \in 1 .. Len(txs') : txs'[i].fate \in {"failed", "done"}}
<1>1. SpendsFromStored'
  BY DEF ClientInv, SpendsFromStored
<1> QED BY <1>1 DEF ClientInv, Shape

\* A step of the user, before anything is sent or delivered.
LEMMA QuietKeeps ==
  ASSUME ClientInv, UNCHANGED <<txs, conn, inbox, index>>,
         ended' \in {ended, None},
         stored' \subseteq Keys, stored \subseteq stored', default' \subseteq stored',
         cmd' = [at |-> cmd'.at, name |-> cmd'.name, key |-> cmd'.key, action |-> cmd'.action],
         KeysStored', Places',
         cmd'.name # "dummy" => conn \subseteq (IF cmd'.at = "listen" THEN {Len(txs)} ELSE {})
  PROVE  ClientInv'
<1>1. SpendsFromStored' /\ Len(txs) \in Nat
  BY SameTxs
<1>2. ended'.tx \in 0 .. Len(txs)
  BY <1>1 DEF ClientInv, Shape, None
<1>3. Shape'
  BY <1>2 DEF ClientInv, Shape
<1>4. Delivered'
  BY DEF ClientInv, Delivered, Told, Decided
<1>5. Refusals' /\ Results' /\ Successes'
  <2>1. CASE ended' = ended
    BY <2>1 DEF ClientInv, Refusals, Results, Successes
  <2>2. CASE ended' = None
    BY <2>2 DEF Refusals, Results, Successes, None, Senders
  <2> QED BY <2>1, <2>2
<1> QED BY <1>1, <1>3, <1>4, <1>5 DEF ClientInv

\* A command, or a dummy transaction, ends in a way that says the truth.
LEMMA EndKeeps ==
  ASSUME ClientInv, NEW exit, NEW why, NEW tx \in 0 .. Len(txs), NEW in \in Seq(Told),
         End(exit, why, tx, in), UNCHANGED <<stored, default, txs, index>>,
         cmd.name = "dummy" => cmd.key \subseteq stored,
         why = "refused" => \E i \in 1 .. tx :
           txs[i].fate = "refused" /\ (cmd.name # "dummy" => i = tx),
         why \in {"failed", "done"} => tx # 0 /\ txs[tx].fate = why,
         cmd.name \in Senders /\ exit = "ok" =>
           \/ why \in {"poor", "declined", "failed", "done"}
           \/ why = "prompt" /\ cmd.name = "register-image"
  PROVE  ClientInv'
<1>1. ended' = [name |-> cmd.name, exit |-> exit, why |-> why, tx |-> tx]
  BY DEF End
<1>2. /\ ended'.name = cmd.name /\ ended'.exit = exit /\ ended'.why = why /\ ended'.tx = tx
  BY <1>1
<1>3. Refusals' /\ Results' /\ Successes'
  BY <1>2 DEF Refusals, Results, Successes
<1>4. SpendsFromStored'
  BY SameTxs DEF ClientInv, Shape
<1>5. CASE cmd.name = "dummy"
  <2>1. cmd' = [cmd EXCEPT !.at = "spam"] /\ inbox' = in /\ UNCHANGED conn
    BY <1>5 DEF End
  <2>2. cmd' = [at |-> "spam", name |-> "dummy", key |-> cmd.key, action |-> cmd.action]
    BY <1>5, <2>1 DEF ClientInv, Shape
  <2>3. Shape'
    BY <1>2, <2>1, <2>2 DEF ClientInv, Shape
  <2>4. KeysStored' /\ Places'
    BY <1>5, <2>2 DEF KeysStored, Places
  <2>5. Delivered'
    BY <2>1, <2>2 DEF Delivered, Told, Decided
  <2> QED BY <1>3, <1>4, <2>3, <2>4, <2>5 DEF ClientInv
<1>6. CASE cmd.name # "dummy"
  <2>1. cmd' = Idle /\ inbox' = <<>> /\ conn' = {}
    BY <1>6 DEF End
  <2>2. Shape'
    BY <1>2, <2>1 DEF ClientInv, Shape, Idle
  <2>3. KeysStored' /\ Places'
    BY <2>1 DEF KeysStored, Places, Idle
  <2>4. Delivered'
    BY <2>1 DEF Delivered
  <2> QED BY <1>3, <1>4, <2>2, <2>3, <2>4 DEF ClientInv
<1> QED BY <1>5, <1>6

\* An end that is neither a result nor a refusal.
LEMMA PlainEndKeeps ==
  ASSUME ClientInv, NEW exit, NEW why, NEW tx \in 0 .. Len(txs), NEW in \in {<<>>, inbox},
         End(exit, why, tx, in), UNCHANGED <<stored, default, txs, index>>,
         cmd.at \in {"prompt", "confirm", "send", "listen", "wait"},
         why \notin {"refused", "failed", "done"},
         cmd.name \in Senders /\ exit = "ok" =>
           \/ why \in {"poor", "declined"}
           \/ why = "prompt" /\ cmd.name = "register-image"
  PROVE  ClientInv'
<1>1. in \in Seq(Told)
  <2>1. <<>> \in Seq(Told)
    OBVIOUS
  <2> QED BY <2>1 DEF ClientInv, Delivered
<1>2. cmd.name = "dummy" => cmd.key \subseteq stored
  BY DEF ClientInv, KeysStored, Places
<1> QED BY <1>1, <1>2, EndKeeps

-----------------------------------------------------------------------------
(* The steps                                                               *)

\* Keys are only added, and commands start with a stored key and no websocket.
LEMMA UserStep ==
  ASSUME ClientInv,
         \/ \E k \in Keys : StoreKey(k) \/ SetKey(k) \/ StartSpam(k)
         \/ \E name \in Commands : Start(name)
         \/ Prompt
         \/ Confirm(TRUE)
         \/ SubmitDummy
         \/ \E i \in 1 .. MaxTxs : WaitForTransaction(i)
  PROVE  ClientInv'
<1> USE DEF ClientInv, Shape
<1>1. cmd.at = "idle" => cmd.name # "dummy" /\ conn = {}
  BY DEF Places, Delivered
<1>2. ASSUME NEW k \in Keys, StoreKey(k) PROVE ClientInv'
  <2>1. /\ stored' = stored \cup {k} /\ default' \subseteq stored'
        /\ UNCHANGED <<cmd, txs, conn, inbox, index, ended>>
    BY <1>2 DEF StoreKey
  <2>2. KeysStored' /\ Places'
    BY <2>1 DEF KeysStored, Places
  <2>3. cmd'.name # "dummy" => conn \subseteq (IF cmd'.at = "listen" THEN {Len(txs)} ELSE {})
    BY <2>1 DEF Delivered
  <2> QED BY <2>1, <2>2, <2>3, QuietKeeps
<1>3. ASSUME NEW k \in Keys, SetKey(k) PROVE ClientInv'
  <2>1. /\ stored' = stored /\ default' \subseteq stored'
        /\ UNCHANGED <<cmd, txs, conn, inbox, index, ended>>
    BY <1>3 DEF SetKey
  <2>2. KeysStored' /\ Places'
    BY <2>1 DEF KeysStored, Places
  <2>3. cmd'.name # "dummy" => conn \subseteq (IF cmd'.at = "listen" THEN {Len(txs)} ELSE {})
    BY <2>1 DEF Delivered
  <2> QED BY <2>1, <2>2, <2>3, QuietKeeps
<1>4. ASSUME NEW k \in Keys, StartSpam(k) PROVE ClientInv'
  <2>1. /\ cmd' = [at |-> "spam", name |-> "dummy", key |-> {k}, action |-> "transfer"]
        /\ k \in stored /\ ended' = None
        /\ UNCHANGED <<stored, default, txs, conn, inbox, index>>
    BY <1>4 DEF StartSpam
  <2>2. /\ cmd'.at = "spam" /\ cmd'.name = "dummy" /\ cmd'.key = {k}
        /\ cmd'.action = "transfer"
    BY <2>1
  <2>3. KeysStored' /\ Places'
    BY <2>1, <2>2 DEF KeysStored, Places
  <2> QED BY <2>1, <2>2, <2>3, QuietKeeps
<1>5. ASSUME NEW name \in Commands, Start(name) PROVE ClientInv'
  <2>1. /\ cmd' = [at |-> "prompt", name |-> name, key |-> default, action |-> "none"]
        /\ cmd.at = "idle" /\ ended' = None
        /\ UNCHANGED <<stored, default, txs, conn, inbox, index>>
    BY <1>5 DEF Start
  <2>2. cmd'.at = "prompt" /\ cmd'.name = name /\ cmd'.key = default /\ cmd'.action = "none"
    BY <2>1
  <2>3. KeysStored' /\ Places'
    BY <2>1, <2>2 DEF KeysStored, Places
  <2> QED BY <1>1, <2>1, <2>2, <2>3, QuietKeeps
<1>6. CASE Prompt
  <2>1. PICK a \in ActionsOf(cmd.name) : cmd' = [cmd EXCEPT !.at = "confirm", !.action = a]
    BY <1>6 DEF Prompt
  <2>2. /\ cmd' = [at |-> "confirm", name |-> cmd.name, key |-> cmd.key, action |-> a]
        /\ cmd.at = "prompt"
        /\ UNCHANGED <<stored, default, txs, conn, inbox, index, ended>>
    BY <1>6, <2>1 DEF Prompt
  <2>3. /\ cmd'.at = "confirm" /\ cmd'.name = cmd.name /\ cmd'.key = cmd.key
        /\ cmd'.action = a
    BY <2>2
  <2>4. KeysStored' /\ Places'
    BY <2>2, <2>3 DEF KeysStored, Places
  <2>5. cmd'.name # "dummy" => conn \subseteq (IF cmd'.at = "listen" THEN {Len(txs)} ELSE {})
    BY <2>2, <2>3 DEF Delivered
  <2> QED BY <2>2, <2>3, <2>4, <2>5, QuietKeeps
<1>7. CASE Confirm(TRUE)
  <2>1. /\ cmd' = [at |-> "send", name |-> cmd.name, key |-> cmd.key, action |-> cmd.action]
        /\ cmd.at = "confirm"
        /\ UNCHANGED <<stored, default, txs, conn, inbox, index, ended>>
    BY <1>7 DEF Confirm
  <2>2. /\ cmd'.at = "send" /\ cmd'.name = cmd.name /\ cmd'.key = cmd.key
        /\ cmd'.action = cmd.action
    BY <2>1
  <2>3. KeysStored' /\ Places'
    BY <2>1, <2>2 DEF KeysStored, Places
  <2>4. cmd'.name # "dummy" => conn \subseteq (IF cmd'.at = "listen" THEN {Len(txs)} ELSE {})
    BY <2>1, <2>2 DEF Delivered
  <2> QED BY <2>1, <2>2, <2>3, <2>4, QuietKeeps
<1>8. CASE SubmitDummy
  <2>1. /\ cmd' = [at |-> "send", name |-> cmd.name, key |-> cmd.key, action |-> cmd.action]
        /\ cmd.at = "spam" /\ ended' = None
        /\ UNCHANGED <<stored, default, txs, conn, inbox, index>>
    BY <1>8 DEF SubmitDummy
  <2>2. /\ cmd'.at = "send" /\ cmd'.name = cmd.name /\ cmd'.key = cmd.key
        /\ cmd'.action = cmd.action
    BY <2>1
  <2>3. KeysStored' /\ Places' /\ cmd'.name = "dummy"
    BY <2>1, <2>2 DEF KeysStored, Places
  <2> QED BY <2>1, <2>2, <2>3, QuietKeeps
<1>9. ASSUME NEW i \in 1 .. MaxTxs, WaitForTransaction(i) PROVE ClientInv'
  <2>1. /\ cmd' = [at |-> "wait", name |-> "wait", key |-> {i}, action |-> "none"]
        /\ cmd.at = "idle" /\ ended' = None
        /\ UNCHANGED <<stored, default, txs, conn, inbox, index>>
    BY <1>9 DEF WaitForTransaction, Idle
  <2>2. cmd'.at = "wait" /\ cmd'.name = "wait" /\ cmd'.key = {i} /\ cmd'.action = "none"
    BY <2>1
  <2>3. KeysStored' /\ Places'
    BY <2>1, <2>2 DEF KeysStored, Places
  <2> QED BY <1>1, <2>1, <2>2, <2>3, QuietKeeps
<1> QED BY <1>2, <1>3, <1>4, <1>5, <1>6, <1>7, <1>8, <1>9

\* The ends that say nothing of a transaction's fate.
LEMMA PlainStep ==
  ASSUME ClientInv,
         \/ NoFunds \/ PromptFails \/ Confirm(FALSE) \/ Broadcast \/ VerifyStatus
         \/ SendFails \/ GiveUp \/ PollFails
  PROVE  ClientInv'
<1>1. 0 \in 0 .. Len(txs) /\ Len(txs) \in 0 .. Len(txs)
  BY DEF ClientInv, Shape
<1>2. CASE NoFunds
  BY <1>1, <1>2, PlainEndKeeps DEF NoFunds
<1>3. CASE PromptFails
  <2>1. UNCHANGED <<stored, default, txs, index>> /\ cmd.at \in {"prompt", "confirm"}
    BY <1>3 DEF PromptFails
  <2>2. CASE End("error", "prompt", 0, <<>>)
    BY <1>1, <2>1, <2>2, PlainEndKeeps
  <2>3. CASE cmd.name \in {"register-image", "broadcast"} /\ End("ok", "prompt", 0, <<>>)
    BY <1>1, <2>1, <2>3, PlainEndKeeps DEF Senders
  <2> QED BY <1>3, <2>2, <2>3 DEF PromptFails
<1>4. CASE Confirm(FALSE)
  BY <1>1, <1>4, PlainEndKeeps DEF Confirm
<1>5. CASE Broadcast
  BY <1>1, <1>5, PlainEndKeeps DEF Broadcast, Senders
<1>6. CASE VerifyStatus
  BY <1>1, <1>6, PlainEndKeeps DEF VerifyStatus, Senders
<1>7. CASE SendFails
  BY <1>1, <1>7, PlainEndKeeps DEF SendFails
<1>8. CASE GiveUp
  BY <1>1, <1>8, PlainEndKeeps DEF GiveUp
<1>9. CASE PollFails
  BY <1>1, <1>9, PlainEndKeeps DEF PollFails
<1> QED BY <1>2, <1>3, <1>4, <1>5, <1>6, <1>7, <1>8, <1>9

\* sendAndWait ends with a true message, which outside spam is about its own
\* transaction, or skips one that is not.
LEMMA ListenStep == ASSUME ClientInv, Listen PROVE ClientInv'
<1> DEFINE m == Head(inbox)
           in == Tail(inbox)
<1>1. /\ cmd.at = "listen" /\ inbox # <<>> /\ Turn(m)
      /\ UNCHANGED <<stored, default, txs, index>>
  BY DEF Listen
<1>2. m \in Told /\ in \in Seq(Told)
  BY <1>1, HeadAndTail DEF ClientInv, Delivered
<1> HIDE DEF m, in
<1>3. /\ m.tx \in conn /\ m.fate = txs[m.tx].fate /\ m.fate \in Fates
      /\ m.tx \in 1 .. Len(txs) /\ Len(txs) \in Nat
      /\ cmd.name # "dummy" => m.tx = Len(txs)
  <2>1. m.tx \in conn /\ m.fate = txs[m.tx].fate /\ m.fate \in Fates
    BY <1>2 DEF Told, Decided
  <2> QED BY <1>1, <2>1 DEF ClientInv, Shape, Delivered
<1>4. Len(txs) \in 0 .. Len(txs) /\ Len(txs) # 0
  BY <1>3
<1>5. cmd.key \subseteq stored
  BY <1>1 DEF ClientInv, KeysStored
<1>6. CASE m.fate = "refused"
  <2>1. End("error", "refused", Len(txs), in)
    BY <1>1, <1>6 DEF Turn, in
  <2>2. \E i \in 1 .. Len(txs) : txs[i].fate = "refused" /\ (cmd.name # "dummy" => i = Len(txs))
    BY <1>3, <1>6
  <2> QED BY <1>1, <1>2, <1>4, <1>5, <2>1, <2>2, EndKeeps
<1>7. CASE m.fate # "refused" /\ m.tx = Len(txs)
  <2>1. End("ok", m.fate, Len(txs), in)
    BY <1>1, <1>7 DEF Turn, in
  <2>2. m.fate \in {"failed", "done"} /\ txs[Len(txs)].fate = m.fate
    BY <1>3, <1>7 DEF Fates
  <2> QED BY <1>1, <1>2, <1>4, <1>5, <2>1, <2>2, EndKeeps
<1>8. CASE m.fate # "refused" /\ m.tx # Len(txs)
  <2>1. inbox' = in /\ UNCHANGED <<stored, default, txs, index, cmd, conn, ended>>
    BY <1>1, <1>8 DEF Turn, in
  <2>2. Delivered'
    BY <1>2, <2>1 DEF ClientInv, Delivered, Told, Decided
  <2>3. Shape' /\ KeysStored' /\ Places' /\ Refusals' /\ Results' /\ Successes' /\ SpendsFromStored'
    BY <2>1 DEF ClientInv, Shape, KeysStored, Places, Refusals, Results, Successes,
                SpendsFromStored
  <2> QED BY <2>2, <2>3 DEF ClientInv
<1> QED BY <1>6, <1>7, <1>8

\* The index has only transactions that the chain accepted.
LEMMA FoundStep == ASSUME ClientInv, Found PROVE ClientInv'
<1>1. PICK i \in cmd.key \cap index : End("ok", txs[i].fate, i, <<>>)
  BY DEF Found
<1>2. /\ i \in 1 .. Len(txs) /\ Len(txs) \in Nat /\ txs[i].fate \in {"failed", "done"}
      /\ UNCHANGED <<stored, default, txs, index>> /\ cmd.name = "wait"
  BY DEF Found, ClientInv, Shape, Places
<1>3. i \in 0 .. Len(txs) /\ i # 0 /\ <<>> \in Seq(Told)
  BY <1>2
<1> QED BY <1>1, <1>2, <1>3, EndKeeps

\* The websocket goes, with what it had to deliver; spam goes on without one.
LEMMA CloseStep == ASSUME ClientInv, ListenFails \/ StopSpam PROVE ClientInv'
<1> USE DEF ClientInv, Shape
<1>1. /\ conn' = {} /\ inbox' = <<>> /\ UNCHANGED <<stored, default, txs, index>>
      /\ SpendsFromStored'
  <2>1. conn' = {} /\ inbox' = <<>> /\ UNCHANGED <<stored, default, txs, index>>
    BY DEF ListenFails, StopSpam
  <2> QED BY <2>1, SameTxs
<1>2. /\ cmd' = [at |-> cmd'.at, name |-> cmd'.name, key |-> cmd'.key, action |-> cmd'.action]
      /\ cmd' = Idle \/ (cmd'.at = "lost" /\ cmd'.name = "dummy")
  <2>1. CASE cmd' = Idle
    BY <2>1 DEF Idle
  <2>2. CASE cmd.name = "dummy" /\ cmd' = [cmd EXCEPT !.at = "lost"]
    <3>1. cmd' = [at |-> "lost", name |-> cmd.name, key |-> cmd.key, action |-> cmd.action]
      BY <2>2
    <3> QED BY <2>2, <3>1
  <2> QED BY <2>1, <2>2 DEF ListenFails, StopSpam
<1>3. KeysStored' /\ Places' /\ Delivered'
  <2>1. inbox' \in Seq(Told')
    BY <1>1
  <2> QED BY <1>1, <1>2, <2>1 DEF KeysStored, Places, Delivered, Idle
<1>4. /\ ended'.tx \in 0 .. Len(txs) /\ Refusals' /\ Results' /\ Successes'
  <2>1. CASE ListenFails
    <3>1. ended' = [name |-> cmd.name, exit |-> "error", why |-> "listen", tx |-> Len(txs)]
      BY <2>1 DEF ListenFails
    <3>2. ended'.why = "listen" /\ ended'.exit = "error" /\ ended'.tx = Len(txs)
      BY <3>1
    <3> QED BY <3>2 DEF Refusals, Results, Successes
  <2>2. CASE StopSpam
    BY <1>1, <2>2 DEF StopSpam, Refusals, Results, Successes
  <2> QED BY <2>1, <2>2
<1> QED BY <1>1, <1>2, <1>3, <1>4

\* A transaction is signed with the command's key, and is the only one on the
\* websocket of a command other than spam.
LEMMA RegisterStep == ASSUME ClientInv, RegisterTx PROVE ClientInv'
<1>1. PICK k \in cmd.key : txs' = Append(txs, [by |-> Signer(k), fate |-> "pending"])
  BY DEF RegisterTx
<1> DEFINE n == Len(txs)
           t == [by |-> Signer(k), fate |-> "pending"]
<1>2. /\ cmd.at = "send" /\ conn' = conn \cup {Len(txs')}
      /\ UNCHANGED <<stored, default, inbox, index, ended>>
  BY DEF RegisterTx
<1>3. cmd' = [at |-> "listen", name |-> cmd.name, key |-> cmd.key, action |-> cmd.action]
  BY DEF RegisterTx, ClientInv, Shape
<1>4. cmd'.at = "listen" /\ cmd'.name = cmd.name /\ cmd'.key = cmd.key /\ cmd'.action = cmd.action
  BY <1>3
<1>5. k \in stored /\ k \in Keys
  BY <1>2 DEF ClientInv, Shape, KeysStored
<1>6. Signer(k) = Address(k) /\ Signer(k) \in Schemes \X Keys
  BY <1>5, SchemeAssumption DEF Signer, Address, Factory
<1>7. t \in Tx
  BY <1>6 DEF Tx
<1>8. txs \in Seq(Tx)
  BY DEF ClientInv, Shape
<1>9. /\ txs' \in Seq(Tx) /\ Len(txs') = n + 1 /\ n \in Nat
      /\ \A i \in 1 .. n : txs'[i] = txs[i]
      /\ txs'[n + 1] = t
  <2> HIDE DEF t
  <2> QED BY <1>1, <1>7, <1>8, AppendHas DEF t
<1>10. conn \subseteq 1 .. n /\ n + 1 \notin conn
  BY <1>9 DEF ClientInv, Shape
<1>11. t.fate = "pending" /\ t.by = Address(k)
  BY <1>6
<1> HIDE DEF t, n
<1>12. Shape'
  BY <1>2, <1>3, <1>4, <1>9, <1>10 DEF ClientInv, Shape, n
<1>13. SpendsFromStored'
  <2>1. ASSUME NEW i \in DOMAIN txs' PROVE \E j \in stored' : txs'[i].by = Address(j)
    <3>1. i \in 1 .. n \/ i = n + 1
      BY <1>9
    <3>2. CASE i \in 1 .. n
      <4>1. \E j \in stored : txs[i].by = Address(j)
        BY <1>8, <3>2 DEF ClientInv, SpendsFromStored, n
      <4> QED BY <1>2, <1>9, <3>2, <4>1
    <3>3. CASE i = n + 1
      BY <1>2, <1>5, <1>9, <1>11, <3>3
    <3> QED BY <3>1, <3>2, <3>3
  <2> QED BY <2>1 DEF SpendsFromStored
<1>14. Told \subseteq Told'
  <2>1. ASSUME NEW j \in conn, Decided(j)
        PROVE  j \in conn' /\ Decided(j)' /\ txs'[j].fate = txs[j].fate
    BY <1>2, <1>9, <1>10, <2>1 DEF Decided
  <2> QED BY <2>1 DEF Told
<1>15. Delivered'
  <2>1. inbox' \in Seq(Told')
    BY <1>2, <1>14, SeqGrows DEF ClientInv, Delivered
  <2>2. cmd'.name # "dummy" => conn' \subseteq {Len(txs')}
    BY <1>2, <1>4 DEF ClientInv, Delivered
  <2> QED BY <1>4, <2>1, <2>2 DEF Delivered
<1>16. KeysStored' /\ Places'
  BY <1>2, <1>4 DEF ClientInv, KeysStored, Places
<1>17. Refusals' /\ Results' /\ Successes'
  <2>1. ended.tx \in 0 .. n /\ ended' = ended
    BY <1>2 DEF ClientInv, Shape, n
  <2>2. \A i \in 1 .. ended.tx : txs'[i] = txs[i]
    BY <1>9, <2>1
  <2>3. ended.tx # 0 => txs'[ended.tx] = txs[ended.tx]
    BY <1>9, <2>1
  <2> QED BY <2>1, <2>2, <2>3 DEF ClientInv, Refusals, Results, Successes
<1> QED BY <1>12, <1>13, <1>15, <1>16, <1>17 DEF ClientInv

\* The chain decides what is pending, once, and tells the websocket that.
LEMMA DecideStep ==
  ASSUME ClientInv, NEW i \in DOMAIN txs, NEW f \in Fates, Decide(i, f)
  PROVE  ClientInv'
<1>1. /\ txs[i].fate = "pending" /\ txs' = [txs EXCEPT ![i].fate = f]
      /\ inbox' = IF i \in conn THEN Append(inbox, [tx |-> i, fate |-> f]) ELSE inbox
      /\ UNCHANGED <<stored, default, cmd, conn, index, ended>>
  BY DEF Decide
<1>2. txs \in Seq(Tx) /\ i \in 1 .. Len(txs) /\ txs[i] \in Tx
  BY DEF ClientInv, Shape
<1>3. f \notin {"pending"} /\ "pending" \notin Fates
  BY DEF Fates
<1>4. /\ txs' \in Seq(Tx) /\ Len(txs') = Len(txs) /\ DOMAIN txs' = DOMAIN txs
      /\ txs'[i].fate = f
      /\ \A j \in DOMAIN txs : txs'[j].by = txs[j].by
      /\ \A j \in DOMAIN txs : j # i => txs'[j] = txs[j]
  <2>1. [txs[i] EXCEPT !.fate = f] \in Tx
    BY <1>2 DEF Tx
  <2>2. txs' = [txs EXCEPT ![i] = [txs[i] EXCEPT !.fate = f]]
    BY <1>1
  <2>3. [txs[i] EXCEPT !.fate = f].fate = f /\ [txs[i] EXCEPT !.fate = f].by = txs[i].by
    BY <1>2 DEF Tx
  <2> DEFINE e == [txs[i] EXCEPT !.fate = f]
  <2> HIDE DEF e
  <2>4. txs' \in Seq(Tx) /\ Len(txs') = Len(txs) /\ DOMAIN txs' = DOMAIN txs
    BY <1>2, <2>1, <2>2 DEF e
  <2>5. txs'[i] = e /\ \A j \in DOMAIN txs : j # i => txs'[j] = txs[j]
    BY <1>2, <2>2 DEF e
  <2> QED BY <2>3, <2>4, <2>5 DEF e
<1>5. \A j \in DOMAIN txs : txs[j].fate # "pending" => txs'[j] = txs[j]
  BY <1>1, <1>4
<1>6. DOMAIN txs = 1 .. Len(txs) /\ Len(txs) \in Nat
  BY <1>2
<1>7. Shape'
  BY <1>1, <1>4, <1>5, <1>6 DEF ClientInv, Shape
<1>8. SpendsFromStored'
  BY <1>1, <1>4 DEF ClientInv, SpendsFromStored
<1>9. Told \subseteq Told' /\ (i \in conn => [tx |-> i, fate |-> f] \in Told')
  <2>1. \A j \in conn : Decided(j) => Decided(j)' /\ txs'[j].fate = txs[j].fate
    BY <1>1, <1>3, <1>5, <1>6 DEF ClientInv, Shape, Decided
  <2>2. Decided(i)'
    BY <1>4 DEF Decided
  <2> QED BY <1>1, <1>4, <2>1, <2>2 DEF Told
<1>10. Delivered'
  <2>1. inbox \in Seq(Told')
    BY <1>9, SeqGrows DEF ClientInv, Delivered
  <2>2. inbox' \in Seq(Told')
    BY <1>1, <1>9, <2>1, AppendHas
  <2> QED BY <1>1, <1>4, <2>2 DEF ClientInv, Delivered
<1>11. KeysStored' /\ Places' /\ Successes'
  BY <1>1 DEF ClientInv, KeysStored, Places, Successes
<1>12. Refusals' /\ Results'
  <2>1. ended.tx \in 0 .. Len(txs)
    BY DEF ClientInv, Shape
  <2>2. ASSUME NEW j \in 1 .. ended.tx, txs[j].fate # "pending" PROVE txs'[j] = txs[j]
    BY <1>5, <1>6, <2>1, <2>2
  <2>3. ended.tx # 0 => ended.tx \in 1 .. ended.tx
    BY <1>6, <2>1
  <2> QED BY <1>1, <2>1, <2>2, <2>3 DEF ClientInv, Refusals, Results
<1> QED BY <1>7, <1>8, <1>10, <1>11, <1>12 DEF ClientInv

\* The node indexes what the chain accepted.
LEMMA IndexStep ==
  ASSUME ClientInv, NEW i \in DOMAIN txs, Index(i)
  PROVE  ClientInv'
<1>1. /\ txs[i].fate \in {"failed", "done"} /\ index' = index \cup {i}
      /\ UNCHANGED <<stored, default, cmd, txs, conn, inbox, ended>>
  BY DEF Index
<1>2. DOMAIN txs = 1 .. Len(txs)
  BY DEF ClientInv, Shape
<1>3. Shape'
  BY <1>1, <1>2 DEF ClientInv, Shape
<1>4. SpendsFromStored' /\ KeysStored' /\ Delivered' /\ Places' /\ Refusals' /\ Results' /\ Successes'
  BY <1>1 DEF ClientInv, SpendsFromStored, KeysStored, Delivered, Told, Decided, Places,
              Refusals, Results, Successes
<1> QED BY <1>3, <1>4 DEF ClientInv

-----------------------------------------------------------------------------
(* The invariant                                                           *)

\* Every step keeps the invariant.
LEMMA ClientInvStep == ClientInv /\ [Next]_vars => ClientInv'
<1>1. ASSUME ClientInv, Next PROVE ClientInv'
  BY <1>1, UserStep, PlainStep, ListenStep, FoundStep, CloseStep, RegisterStep, DecideStep,
     IndexStep DEF Next
<1>2. ASSUME ClientInv, UNCHANGED vars PROVE ClientInv'
  BY <1>2 DEF vars, ClientInv, Shape, SpendsFromStored, KeysStored, Delivered, Told, Decided,
              Places, Refusals, Results, Successes
<1> QED BY <1>1, <1>2

\* It holds of a new key store.
LEMMA ClientInvInit == Init => ClientInv
<1> SUFFICES ASSUME Init PROVE ClientInv
  OBVIOUS
<1>1. Shape
  BY DEF Init, Shape, Idle, None
<1>2. SpendsFromStored /\ KeysStored /\ Delivered /\ Places
  BY DEF Init, SpendsFromStored, KeysStored, Delivered, Places, Idle
<1>3. Refusals /\ Results /\ Successes
  BY DEF Init, Refusals, Results, Successes, None, Senders
<1> QED BY <1>1, <1>2, <1>3 DEF ClientInv

\* The invariant of the client.
THEOREM ClientInvariant == Spec => []ClientInv
BY ClientInvInit, ClientInvStep, PTL DEF Spec

\* Every transaction is signed by the address of a stored key, of its own scheme.
THEOREM SignsForStored == Spec => []SpendsFromStored
<1>1. ClientInv => SpendsFromStored
  BY DEF ClientInv
<1> QED BY <1>1, ClientInvariant, PTL

\* What sendAndWait and WaitForTransaction answer is about the transaction that
\* they were called for, or, in an error of spam's, about an earlier one.
THEOREM OwnAnswers == Spec => []AnswersAreOwn
<1>1. ASSUME ClientInv PROVE AnswersAreOwn
  <2>1. ASSUME ended.why = "refused"
        PROVE  \/ txs[ended.tx].fate = "refused"
               \/ /\ ended.name = "dummy"
                  /\ \E i \in 1 .. (ended.tx - 1) : txs[i].fate = "refused"
    <3>1. PICK i \in 1 .. ended.tx :
            txs[i].fate = "refused" /\ (ended.name # "dummy" => i = ended.tx)
      BY <1>1, <2>1 DEF ClientInv, Refusals
    <3>2. ended.tx \in Nat
      BY <1>1 DEF ClientInv, Shape
    <3>3. i # ended.tx => i \in 1 .. (ended.tx - 1)
      BY <3>2
    <3> QED BY <3>1, <3>3
  <2> QED BY <1>1, <2>1 DEF ClientInv, Results, AnswersAreOwn
<1> QED BY <1>1, ClientInvariant, PTL

\* A sending command that the user confirmed and that returns no error stands for
\* a transaction that the chain accepted.
THEOREM SuccessIsAccepted == Spec => []ExitMeansAccepted
<1>1. ClientInv => ExitMeansAccepted
  BY DEF ClientInv, Results, Successes, ExitMeansAccepted
<1> QED BY <1>1, ClientInvariant, PTL
=============================================================================
