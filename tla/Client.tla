------------------------------- MODULE Client -------------------------------
(* The command-line client: the key store and its default key, the commands *)
(* that ask the user, sign a transaction and wait for its result on a       *)
(* websocket (sendAndWait), the dummy transactions that spam submits one    *)
(* after another over ONE websocket, and the poll for an accepted           *)
(* transaction of the RPC client library.                                   *)
(*                                                                          *)
(* hypersdk (the key database, the prompts, the websocket and its server,   *)
(* spam's own loop) is external: it is modelled from how src/cmd uses it.   *)
EXTENDS Naturals, Sequences, FiniteSets

CONSTANTS
  Keys,       \* private keys
  SchemeOf,   \* the signature scheme each is a key of
  MaxTxs      \* bound: transactions sent in a behaviour

Schemes == {"ed25519", "secp256r1", "bls"}

ASSUME SchemeAssumption == SchemeOf \in [Keys -> Schemes]
ASSUME MaxTxsAssumption == MaxTxs \in Nat

VARIABLES
  stored,    \* keys in the client's database
  default,   \* the default key, or none: a set of at most one key
  cmd,       \* the command that runs: where it is, its name, key and action
  txs,       \* what the chain was sent: signer, action and fate, in order
  conn,      \* transactions registered on the open websocket
  inbox,     \* what the websocket has delivered and nobody has read
  index,     \* transactions that the node's index knows
  ended      \* how the last command, or dummy transaction, ended

vars == <<stored, default, cmd, txs, conn, inbox, index, ended>>

None == [name |-> "none", exit |-> "ok", why |-> "none", tx |-> 0]
Idle == [at |-> "idle", name |-> "none", key |-> {}, action |-> "none"]

Init == /\ stored = {}
        /\ default = {}
        /\ cmd = Idle
        /\ txs = <<>>
        /\ conn = {}
        /\ inbox = <<>>
        /\ index = {}
        /\ ended = None

-----------------------------------------------------------------------------
(* Keys.                                                                    *)

\* The scheme whose factory DefaultActor and getFactory build for an address
\* of each scheme.  The factory signs as that scheme's address of the key.
\* Mutant: the last two cases of the switch are swapped.
Factory_Swapped == [ed25519 |-> "ed25519", secp256r1 |-> "bls", bls |-> "secp256r1"]
Factory == [s \in Schemes |-> s]

Address(k) == <<SchemeOf[k], k>>
Signer(k)  == <<Factory[SchemeOf[k]], k>>

\* key generate and key import: the key is stored, and then, unless the second
\* write fails, made the default.
StoreKey(k) ==
  /\ cmd.at = "idle" /\ k \notin stored
  /\ stored' = stored \cup {k}
  /\ default' \in {default, {k}}
  /\ UNCHANGED <<cmd, txs, conn, inbox, index, ended>>

\* key set.
SetKey(k) ==
  /\ cmd.at = "idle" /\ k \in stored
  /\ default' = {k}
  /\ UNCHANGED <<stored, cmd, txs, conn, inbox, index, ended>>

-----------------------------------------------------------------------------
(* Commands, up to the transaction.                                         *)

Senders  == {"transfer", "register", "register-image", "verify"}
Commands == Senders \cup {"broadcast", "verify-status"}

\* The action a command builds, which for verify depends on a number: 6, which
\* the prompt calls Gnark, is accepted and leaves it nil.
ActionsOf(name) ==
  CASE name = "verify"   -> {"SP1", "Miden", "RiscZero", "Jolt", "PLONKY2", "nil"}
    [] name \in Senders  -> {name}
    [] OTHER             -> {"none"}

\* The command returns with what became of it, and its websocket is gone with
\* the process; a dummy transaction returns to the spam loop, and leaves the
\* websocket open with the messages in.
End(exit, why, tx, in) ==
  /\ ended' = [name |-> cmd.name, exit |-> exit, why |-> why, tx |-> tx]
  /\ IF cmd.name = "dummy"
       THEN cmd' = [cmd EXCEPT !.at = "spam"] /\ inbox' = in /\ UNCHANGED conn
       ELSE cmd' = Idle /\ inbox' = <<>> /\ conn' = {}

\* DefaultActor: without a default key, or when the node cannot be reached, the
\* command fails before it has begun.  It opens a websocket of its own.
Start(name) ==
  /\ cmd.at = "idle" /\ default # {}
  /\ cmd' = [at |-> "prompt", name |-> name, key |-> default, action |-> "none"]
  /\ ended' = None
  /\ UNCHANGED <<stored, default, txs, conn, inbox, index>>

\* transfer looks at the balance first and returns without an error if it is 0.
NoFunds ==
  /\ cmd.at = "prompt" /\ cmd.name = "transfer"
  /\ End("ok", "poor", 0, <<>>)
  /\ UNCHANGED <<stored, default, txs, index>>

\* A balance, a file, a prompt or PromptContinue fails.  A bad image ID ends register-image and
\* broadcast without an error.
PromptFails ==
  /\ \/ cmd.at \in {"prompt", "confirm"} /\ End("error", "prompt", 0, <<>>)
     \/ /\ cmd.at = "prompt" /\ cmd.name \in {"register-image", "broadcast"}
        /\ End("ok", "prompt", 0, <<>>)
  /\ UNCHANGED <<stored, default, txs, index>>

Prompt ==
  /\ cmd.at = "prompt"
  /\ \E a \in ActionsOf(cmd.name) :
       cmd' = [cmd EXCEPT !.at = "confirm", !.action = a]
  /\ UNCHANGED <<stored, default, txs, conn, inbox, index, ended>>

\* PromptContinue: a no ends the command without an error.
Confirm(yes) ==
  /\ cmd.at = "confirm"
  /\ IF yes THEN cmd' = [cmd EXCEPT !.at = "send"] /\ UNCHANGED <<conn, inbox, ended>>
            ELSE End("ok", "declined", 0, <<>>)
  /\ UNCHANGED <<stored, default, txs, index>>

\* SubmitChunks may fail: its error is dropped.
Broadcast ==
  /\ cmd.at = "send" /\ cmd.name = "broadcast"
  /\ End("ok", "called", 0, <<>>)
  /\ UNCHANGED <<stored, default, txs, index>>

VerifyStatus ==
  /\ cmd.at = "send" /\ cmd.name = "verify-status"
  /\ \E exit \in {"ok", "error"} : End(exit, "called", 0, <<>>)
  /\ UNCHANGED <<stored, default, txs, index>>

-----------------------------------------------------------------------------
(* sendAndWait.                                                             *)

\* Parser, GenerateTransaction or RegisterTx fails, and nothing is sent.
\* GenerateTransaction asks a nil action for its size and the client crashes.
SendFails ==
  /\ cmd.at = "send" /\ cmd.name \in Senders \cup {"dummy"}
  /\ \/ End("error", "send", 0, inbox)
     \/ cmd.action = "nil" /\ End("crash", "send", 0, inbox)
  /\ UNCHANGED <<stored, default, txs, index>>

RegisterTx ==
  /\ cmd.at = "send" /\ cmd.name \in Senders \cup {"dummy"}
  /\ cmd.action # "nil" /\ Len(txs) < MaxTxs
  /\ \E k \in cmd.key :
       txs' = Append(txs, [by |-> Signer(k), fate |-> "pending"])
  /\ conn' = conn \cup {Len(txs')}
  /\ cmd' = [cmd EXCEPT !.at = "listen"]
  /\ UNCHANGED <<stored, default, inbox, index, ended>>

\* One turn of the loop, on the message m: an error ends it whichever
\* transaction it is about, and only then is a result of another one skipped.
\* Mutant: the ID of the result is not compared.
\* Mutant: the error is not returned.
\* Mutant: an error is skipped like a result of another transaction.
Turn_AnyId(m) ==
  IF m.fate = "refused" THEN End("error", "refused", Len(txs), Tail(inbox))
                        ELSE End("ok", m.fate, Len(txs), Tail(inbox))
Turn_NoError(m) ==
  IF m.fate = "refused" \/ m.tx = Len(txs)
    THEN End("ok", m.fate, Len(txs), Tail(inbox))
    ELSE inbox' = Tail(inbox) /\ UNCHANGED <<cmd, conn, ended>>
Turn_SkipError(m) ==
  IF m.fate # "refused" /\ m.tx = Len(txs)
    THEN End("ok", m.fate, Len(txs), Tail(inbox))
    ELSE inbox' = Tail(inbox) /\ UNCHANGED <<cmd, conn, ended>>
Turn(m) ==
  IF m.fate = "refused"   THEN End("error", "refused", Len(txs), Tail(inbox))
  ELSE IF m.tx = Len(txs) THEN End("ok", m.fate, Len(txs), Tail(inbox))
  ELSE inbox' = Tail(inbox) /\ UNCHANGED <<cmd, conn, ended>>

Listen ==
  /\ cmd.at = "listen" /\ inbox # <<>>
  /\ Turn(Head(inbox))
  /\ UNCHANGED <<stored, default, txs, index>>

\* The connection is lost, and with it all that it had to deliver: spam's
\* later dummy transactions fail without being sent.
ListenFails ==
  /\ cmd.at = "listen"
  /\ ended' = [name |-> cmd.name, exit |-> "error", why |-> "listen", tx |-> Len(txs)]
  /\ cmd' = IF cmd.name = "dummy" THEN [cmd EXCEPT !.at = "lost"] ELSE Idle
  /\ conn' = {} /\ inbox' = <<>>
  /\ UNCHANGED <<stored, default, txs, index>>

-----------------------------------------------------------------------------
(* spam: its dummy transactions share the websocket that createClient       *)
(* opens, and each is given up when its context is done, with the           *)
(* transaction still registered.                                            *)

StartSpam(k) ==
  /\ cmd.at = "idle" /\ k \in stored
  /\ cmd' = [at |-> "spam", name |-> "dummy", key |-> {k}, action |-> "transfer"]
  /\ ended' = None
  /\ UNCHANGED <<stored, default, txs, conn, inbox, index>>

SubmitDummy ==
  /\ cmd.at = "spam"
  /\ cmd' = [cmd EXCEPT !.at = "send"]
  /\ ended' = None
  /\ UNCHANGED <<stored, default, txs, conn, inbox, index>>

GiveUp ==
  /\ cmd.at = "listen" /\ cmd.name = "dummy"
  /\ End("error", "context", Len(txs), inbox)
  /\ UNCHANGED <<stored, default, txs, index>>

StopSpam ==
  /\ cmd.at \in {"spam", "lost"}
  /\ cmd' = Idle /\ conn' = {} /\ inbox' = <<>>
  /\ UNCHANGED <<stored, default, txs, index, ended>>

-----------------------------------------------------------------------------
(* WaitForTransaction polls Tx, for which a transaction the index does not  *)
(* know is no error but one not found yet.                                  *)

WaitForTransaction(i) ==
  /\ cmd.at = "idle" /\ i \in 1 .. Len(txs)
  /\ cmd' = [Idle EXCEPT !.at = "wait", !.name = "wait", !.key = {i}]
  /\ ended' = None
  /\ UNCHANGED <<stored, default, txs, conn, inbox, index>>

Found ==
  /\ cmd.at = "wait"
  /\ \E i \in cmd.key \cap index : End("ok", txs[i].fate, i, <<>>)
  /\ UNCHANGED <<stored, default, txs, index>>

PollFails ==
  /\ cmd.at = "wait"
  /\ End("error", "poll", 0, <<>>)
  /\ UNCHANGED <<stored, default, txs, index>>

-----------------------------------------------------------------------------
(* The chain: a transaction is refused (by the mempool, or because it       *)
(* expired) or accepted, and its websocket is told; the index follows.      *)

Fates == {"refused", "failed", "done"}

Decide(i, f) ==
  /\ txs[i].fate = "pending"
  /\ txs' = [txs EXCEPT ![i].fate = f]
  /\ inbox' = IF i \in conn THEN Append(inbox, [tx |-> i, fate |-> f]) ELSE inbox
  /\ UNCHANGED <<stored, default, cmd, conn, index, ended>>

Index(i) ==
  /\ txs[i].fate \in {"failed", "done"} /\ i \notin index
  /\ index' = index \cup {i}
  /\ UNCHANGED <<stored, default, cmd, txs, conn, inbox, ended>>

-----------------------------------------------------------------------------
Next == \/ \E k \in Keys : StoreKey(k) \/ SetKey(k) \/ StartSpam(k)
        \/ \E name \in Commands : Start(name)
        \/ NoFunds \/ PromptFails \/ Prompt \/ Broadcast \/ VerifyStatus
        \/ \E yes \in BOOLEAN : Confirm(yes)
        \/ SendFails \/ RegisterTx \/ Listen \/ ListenFails
        \/ SubmitDummy \/ GiveUp \/ StopSpam
        \/ \E i \in 1 .. MaxTxs : WaitForTransaction(i)
        \/ Found \/ PollFails
        \/ \E i \in DOMAIN txs : Index(i) \/ \E f \in Fates : Decide(i, f)

\* The loops run on, the chain decides every transaction (a transaction has a
\* validity window) and the node indexes what it accepted.  Nothing makes the
\* user answer a prompt, and no context need ever be done.
Fairness == /\ WF_vars(Listen) /\ WF_vars(Found)
            /\ \A i \in 1 .. MaxTxs :
                 /\ WF_vars(i \in DOMAIN txs /\ \E f \in Fates : Decide(i, f))
                 /\ WF_vars(i \in DOMAIN txs /\ Index(i))

Spec == Init /\ [][Next]_vars /\ Fairness

-----------------------------------------------------------------------------
(* Properties.                                                              *)

\* Whichever of the four switches over key types is taken, what the chain is
\* sent is signed by an address that is in the key store, of the key the user
\* chose: never by the same key under another scheme (handler.go:47,
\* spam.go:26, key.go:51 and 85).
SpendsFromStored ==
  \A i \in DOMAIN txs : \E k \in stored : txs[i].by = Address(k)

\* A result that sendAndWait or WaitForTransaction returns is the one the chain
\* gave to that very transaction, on a shared websocket too; and outside spam,
\* an error it passes on is about its own transaction.  On spam's websocket it
\* may be about one that was given up before (resolutions.go:45 looks at the
\* error before it looks at the ID).
AnswersAreOwn ==
  /\ ended.why \in {"failed", "done"} => txs[ended.tx].fate = ended.why
  /\ ended.why = "refused" =>
       \/ txs[ended.tx].fate = "refused"
       \/ /\ ended.name = "dummy"
          /\ \E i \in 1 .. (ended.tx - 1) : txs[i].fate = "refused"

\* A sending command that the user confirmed and that returns no error has a
\* transaction that the chain accepted, if not one that succeeded (a failed
\* one is printed and returns no error either): a refusal, a lost connection
\* or a transaction that never left cannot look like success.
ExitMeansAccepted ==
  ended.name \in Senders /\ ended.exit = "ok" =>
    \/ ended.why \in {"poor", "declined"}
    \/ ended.why = "prompt" /\ ended.name = "register-image"
    \/ ended.tx # 0 /\ txs[ended.tx].fate \in {"failed", "done"}

\* sendAndWait does not wait for ever: the chain decides its transaction, the
\* websocket tells or is lost, and what it tells of others is skipped.  And
\* WaitForTransaction ends for a transaction that was accepted.
CommandsEnd ==
  /\ cmd.at = "listen" ~> cmd.at # "listen"
  /\ (cmd.at = "wait" /\ \E i \in cmd.key : txs[i].fate \in {"failed", "done"})
       ~> cmd.at # "wait"
=============================================================================
