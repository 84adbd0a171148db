# hyper-pvzk: verification project

TLA+ models of hyper-pvzk, a chain on hypersdk whose validators verify
zero-knowledge proofs off the chain and vote on the results on it.  TLC checks
the models on small instances; TLAPS proves theorems about all of them for every
value of the constants.  `PROJECT.json` has the runs, the mutants that show each
property can fail, the source lines of every definition, the findings, the
hazards and the theorems.

## The system

A user broadcasts the files of a proof and sends a *verify action* (SP1, RiscZero,
Miden, Jolt, PLONKY2).  Executing it stores a deadline for the transaction's id.
When the block is accepted each node's controller asks its own *prover*, a
separate server, to verify the proof.  The prover posts the result to the node's
`/submit-result` handler, which signs it with the validator's BLS key and submits
a *ValidatorVote* action.  Executing that checks the window and the signature,
adds the validator's weight to the transaction's tally and may mark it verified.

    verify tx --> chain (StoreTimeOut) --accepted--> Controller.Accepted
                                                      | HandleX: 2 POSTs
    chain <-- ValidatorVote tx <-- trustless <--POST-- prover

| component | source | state | operations | interacts with |
|---|---|---|---|---|
| proof voting | `actions/{sp1,risczero,miden,jolt,plonky2,validator_vote}.go`, `storage/storage.go` | records: time-out, weight, status, vote | Execute of each action | block time, validator set, state view |
| node pipeline | `controller/`, `accept_handlers/`, `trustless/`, `requester/` | acceptor's place in the block, database batch, `queuedActions`, `verifiedActions`, listener | Initialize, ListenResults, Accepted, five handlers, ListenActions, submitResult, GenerateTransaction | prover over HTTP, VM's submit, consensus |
| ledger | `storage/storage.go`, `storage/state_manager.go`, `actions/transfer.go`, `genesis/genesis.go` | balance records | Load, Transfer, CanDeduct, Deduct, Refund | every transaction's fee |
| ed25519 batches | `auth/ed25519.go` | current batch and two counters | GetBatchVerifier, Add, Done | block verification |
| transaction execution and records | `storage/`, `controller/` | the store, the index | keys and values of every record, GetTransaction | all of the above and the RPC |
| image registry | `actions/register_image.go`, `register.go` | root hash records | Register, RegisterImage | file names in the handlers |
| codecs and registry | `actions/*`, `registry/`, `auth/*` | none | Marshal, Unmarshal, Size | everything on the wire |
| configuration | `config/` | client and ports | New: ping hub, ping prover | hub, prover |
| rpc | `rpc/`, `controller/resolutions.go` | none | Genesis, Tx, Balance, VerifyStatus, WaitFor... | reads all records |
| genesis rules | `genesis/rules.go` | none | limits, view of the validators | blocks, ValidatorVote |
| command-line client | `cmd/morpheus-cli/cmd/` | keys, the default key, a websocket | key, action, testing and spam commands, sendAndWait | prompts, RPC, websocket |
| metrics, factory, versions, tests, scripts | | none of the protocol | | |

What is hard here, and what correctness means:

- *Voting*: several validators, accounts and keys act on one record in any
  order, around a deadline, with weights that are `uint64`.  Votes must fall into
  the window, be counted once, and sum up; closed is closed; a failing vote leaves
  nothing behind.
- *Pipeline*: the acceptor blocks on calls that time out, the handler runs
  concurrently with it, the prover may answer late, twice, differently or with
  garbage, and the process may die anywhere.  The database must hold whole blocks;
  every vote must be a report; asking must follow listening, and verifying must
  follow the files; errors must not stop the node.
- *Ledger*: value is conserved over roll-backs, removed records and dropped
  refunds, and credits cannot overflow.
- *Batches*: no signature of a block escapes verification at a batch boundary.
- *Records and wire*: eleven key functions and nine codecs are near copies of each
  other.  No record may overwrite another, what is sent is what is executed, and
  three cuts of a 64-bit type to 16 bits must agree.
- *Replicas*: each node executes votes with its own view of the validators and its
  own order of a map; where the views agree the state must.
- *Client*: answers come on a websocket that may carry those of other transactions;
  what the user is told must be about the user's own, and the wait must end.

`PROJECT.json` lists each hazard at its line with the properties that cover it.

## The modules

| module | models | kind |
|---|---|---|
| `Ballot` | what voting promises: windows open and close, an account votes once, the second yes may verify | abstract specification |
| `ProofVoting` | the records of the chain and Execute of the six actions | detailed specification |
| `ProofVotingProofs` | theorems about it, and that it implements `Ballot` | proofs |
| `NodePipeline`, `NodePipelineProofs` | one node's start, its prover, the HTTP between them, crashes | specification with fairness, and proofs |
| `Ledger`, `LedgerProofs` | balances | specification and proofs |
| `Ed25519Batch`, `Ed25519BatchProofs` | the batch verifier | specification and proofs |
| `ActionCodec` | type ids, the format of actions and signatures, the registries | operators |
| `StateStore` | keys and values of every record and of the index; EXTENDS `ActionCodec` | operators |
| `TxExecution` | a transaction from the wallet to the RPC's answers; EXTENDS `StateStore`, implements `ProofVoting` | specification |
| `TxExecutionProofs` | theorems about it, the codecs and the keys of the store, and that it implements `ProofVoting` | proofs |
| `Replicas`, `ReplicasProofs` | nodes that execute the same votes with different views | specification and proofs |
| `Client`, `ClientProofs` | the command-line client | specification with fairness, and proofs |
| `Sums` | sums over finite sets, folds and other recursive functions, induction, for the proofs | lemmas |
| `MCProofVoting`, `MCNodePipeline`, `MCLedger`, `MCTxExecution`, `MCReplicas`, `MCClient` | instances for TLC | |

Operators named `X_Something`, under a comment that starts with "Mutant", are
wrong versions of `X`.  No specification uses them.

### ProofVoting

`timeOut`, `weight`, `status` and `votes` are the four kinds of record of
`storage.go`; `opened`, `counted` and `succeeded` are history variables that no
guard reads.  `SP1` ... `PLONKY2` are the verify actions, all with the effect
`Verify`; `ValidatorVote` is the whole of its Execute, split by how it ends:

- `VoteCounted`: the loop body runs for exactly one validator and to its end;
- `VoteSkipped`: no validator matches; the action succeeds and writes nothing;
- `VoteFails`: any early return.  The chain discards the action's writes, those
  of an earlier iteration of the loop included: when two validators share the key
  the second iteration finds the vote that the first has stored.

`totalWeight` is a running sum over the matching validators, so where a vote is
counted it is that validator's own weight: the tally is compared with the weight
of the last voter, not with the whole stake.

Two properties of code outside the repository are the fields of `library`, chosen
in `Init` and never changed.  `interned` says whether two decodings of one public
key are the same object, `enforcesKeys` whether the state view refuses writes to
undeclared keys.  The BLS library allocates an object for each decoding and
hypersdk's view does refuse: as built, the program is `interned = FALSE`,
`enforcesKeys = TRUE`.  The other values show what the rest of the logic does, once
the comparison is repaired or the keys are declared.  A verify action's id is new
(the chain's replay protection), and a vote transaction's own id, `OwnTx`, is never
the id of a verify action.

### NodePipeline

`phase` is where Initialize is: it pings the hub, which names two ports, then the
prover, and fails for good if either does not answer; no block is accepted before
it is `up`.  `listener` is the HTTP server on its own goroutine: blocks may be
accepted before it listens, and if it cannot listen the error is dropped and the
node runs on, so that the prover's reports are refused (`PostRefused`).

`step` is where the acceptor is: `listen` and `ask` before the two calls, `files`
and `verify` blocked in them, then `store` and, after the last transaction,
`write`.  `Handle` is one of the five handlers at whichever of its steps;
`CallFails` is each of its error returns, at any time while it is blocked, and
leaves the request on the wire, so that the prover may handle it late.
`SubmitResult` ends at the unlock and `GenerateTransaction` follows in a step of
its own, so that handlers interleave.  An id that does not parse is carried on as
the empty id, as in the code, and stopped only by the codec when the signed
transaction is parsed again.  `Crash` loses the maps, the handlers, the batch and
any of the reports under way; consensus hands over the unfinished block again or
not.

External and modelled from how the code uses it: consensus, the prover, HTTP and
the process.  Reports are assumed to be about tasks the prover has, or garbled.

Fairness: `NodeSpec` has weak fairness of the acceptor's steps.  The VM runs it on
a goroutine of its own, and each blocking call ends at the client's time-out of
8 s at the latest.  `ReliableSpec` adds weak fairness of the start of the listener
and of the handlers (both run on goroutines of their own) and of the prover; there
`Reliable` removes failures, and a report that comes before the listener waits.
Nothing is assumed about when blocks are accepted.

### Ledger

A transaction is one step: hypersdk deducts the maximum fee, runs the action or
rolls it back, and refunds the rest, and transactions that share an account are
serialized by the keys they declare.  `burned` counts fees kept, and refunds
dropped because the sponsor's record was removed.

### Ed25519Batch

Signatures are their positions, a job is the set of positions it verifies.
`GetBatchVerifier` chooses the batch size in `Init`.

### TxExecution, over StateStore and ActionCodec

An action is a record of its fields.  `ActionCodec` describes each of the nine
formats twice, as Marshal writes it and as Unmarshal reads it, because the code
does; `MarshalAction` and `UnmarshalAction` interpret the two descriptions, over a
packer with the library's sticky error.  `StateStore` is storage.go over strings of
bytes: a store is a function from keys to values, and a view refuses undeclared
keys, and values longer than the chunks at the end of the key.  A "byte" has the
values below `Radix`, so that ids, addresses and integers stay short enough to
check; every length of the code is a constant.

`TxExecution` sends a request, executes it in a block that can hold its compute
units, accepts it at one node and answers queries.  `env` chooses the default limit
of compute units, or the one that the scripts set, and whether keys compare equal.
Signatures are not checked here: a vote is found invalid, matches no validator or
matches the one there is.  `VotingSpec` reads the four voting records back from
the bytes, through the key functions, and says that they behave as `ProofVoting`.
Which files a handler names are `Files`; fees and refunds are in `Ledger`.

### Replicas

`votesOf` is the chain, and each node executes it at its own pace with any view.
Execute is the loop of ValidatorVote as written, with the units of each return,
over any order of the map.  Whether the block lies in the window is part of the
vote, as the block decides it for every node.  `Resync` starts a node from genesis.

### Client

`cmd` is the command that runs, at a prompt, at the confirmation, sending, or
listening; `txs` is what the chain was sent, `inbox` what the websocket has
delivered.  A command opens a websocket of its own; spam's dummy transactions share
one, and each may be given up with its transaction still registered.  `ended` is
what the last command returned.  External: prompts, the key database, the websocket
and its server, the loop of spam, and the chain, which decides each transaction.

Fairness: the listening loop and the poll run on; the chain decides every
transaction, since its validity window ends; and the node indexes what it accepted.
Nobody need answer a prompt.

## The runs

| run | instance | distinct states | shows |
|---|---|---|---|
| `voting` | 1 tx, 3 accounts, 3 validators (2 under one key), requests 0, 1, 301, times 0, 20000, 20001, 300001, `Word` = 4, the four libraries | 136,400 | records, tally, window, finality, one vote per account; implements `Ballot`; as built votes have no effect; with declared keys enforced the status is never written |
| `voting_request`, `voting_success`, `voting_twice`, `voting_verified` | | | the four findings |
| `node` | 2 blocks, 2 proofs and a transfer, 1 crash, 1 extra report, every call may fail | 257,012 | safety of the pipeline; every block is indexed |
| `node_reliable` | 2 blocks, 3 proofs, reliable prover | 19,810 | every proof gets a vote |
| `ledger` | 3 accounts, largest balance 12, 3 genesis allocations | 420 | conservation, no overflow |
| `ed25519_batch` | 0 to 9 and 12 signatures, 1 to 3 cores, minimum batch 3 | 179 | every signature verified |
| `transactions` | up to 3 transactions out of 26, 8 and 3, 3 accounts, two block times, `Radix` = 64 | 33,636 | the wire, the store and the index are faithful; the byte store implements `ProofVoting` |
| `replicas` | 2 nodes, 3 validators (2 under one key), 2 votes of every kind | 148,322 | nodes agree where their views of the vote's key do |
| `client` | 2 keys of 2 schemes, 3 transactions | 569,475 | answers are about one's own transaction, and waits end |

Why the bounds are enough.  The deadline of a clamped request is 20 s or 300 s
after the block, so the four times are the opening, both sides of the shorter
deadline's boundary and the far side of the longer; `Word` = 4 makes two or three
votes of weight 1 or 2 wrap.  Three accounts vote with two keys, so that one
account can use several keys, several accounts one key, and two validators one
key.  The validator set may become any subset at any time.  In the pipeline two
blocks show a queue behind a slow call, and blocks of two transactions the order
within one; one repeated or garbled report and one crash meet every step.  The
node runs between them use all five handlers.  In the ledger one allocation
reaches the largest balance exactly, one repeats an account and stores a zero, and
one would overflow and is refused.  The batch counts lie below, at and between
multiples of each batch size.

In `transactions` the first request is any of the nine actions, well-formed or with
one field wanting, the second and third are those that can meet its records: votes
on it by two accounts, the same image under congruent and other types, the files of
a proof, balances that run out.  Types 1, 65 and 129 are one 16-bit type; a string
of 41 bytes fits its prefix and not its record, one of 64 not even its prefix.
Sending stops at a refusal, and one transaction waits at a time: the order of
execution is the order of sending, as the properties are about records and not
about races.  In `replicas` two votes are enough for a second one to find the
records of the first, under any pair of views; the stake cannot wrap a word, as it
is bounded by a supply.  In `client` three transactions let two be given up on the
websocket before the third.

Deadlock is checked in `client`, whose user can always do something, and in no
other run: chains, blocks and batches end, and a vote may always fail without a
step.  Accounts, and transactions, are symmetric; validators differ
in weight and key and are not.  In `replicas` nodes and accounts are symmetric.

## Findings

1. `README.md:23` gives 10 to 300 blocks as the range of time-outs; the code
   clamps to 20 to 300, and to seconds of block time (`storage/storage.go:412`).
2. `actions/validator_vote.go:120` compares pointers.  Every vote that passes the
   check at line 114 succeeds and none is recorded.
3. `actions/validator_vote.go:139` says a validator's second vote is not added; the
   record is the account's, so from another account it is.  Finding 2 hides it.
4. `cmd/morpheus-cli/cmd/resolutions.go:70` reports a verified proof when the
   verify action has only opened the vote.

Beyond these, `StatusNeverWritten` shows that repairing finding 2 alone would
leave the status unwritten: `StateKeys` declares it for the vote's own id.  With it
goes `PendingLooksUnknown`: the VerifyStatus query answers every id with an error.
`BuiltDisagreesOnlyOnCharges` and its condition show what the nodes' own views of
the validators can split: as built the charge of a vote, with the comparison
repaired also the records.  `SizeFallsShort` says by how many bytes Size is wrong,
`DefaultHoldsNoProof` that the default genesis admits no verify action at all.  In
the client, a transaction that failed on the chain, a bad image ID and a broadcast
whose chunks were refused all exit without an error, and verification type 6
crashes it.

## What is proved

For every value of the constants that the named assumptions of each module allow.
Each component has one inductive invariant: the properties of the runs are not
inductive alone, and what is added says how two parts of the state agree.

**Voting** (`ProofVotingProofs`): for every set of transactions, accounts,
validators, keys and times, every stake and word, and either value of each field of
`library`.

- `TypeCorrect`, `VotingInvariant`, and from them `WindowSafety`, `AccountSafety`,
  `StatusSafety`.  `VotingInv` adds that vote records and counted votes are the same
  thing, that weight records exist exactly for transactions with a yes vote, and
  that each deadline is the clamped request of an executed verify action.  The
  argument: `VoteCounted` needs the absence of the account's record, hence of a
  counted vote by it; it writes a status only where a weight record exists, hence a
  yes vote, which the previous fact makes another account's; and its guard puts the
  block between opening and deadline.
- `WeightSafety`: the weight record is the stake behind the yes votes, in the
  arithmetic of the word.  The record and the sum grow by the same stake, and
  equality modulo the word survives the addition.
- `ClosedFinality`, an action property: no step changes a deadline, or a record
  of a transaction past it.
- `BuiltVotesHaveNoEffect` for `interned = FALSE`, and `UndeclaredStatus` for
  `enforcesKeys = TRUE`, with an invariant that says where a status record can be.
- `ImplementsBallot`: under the refinement mapping (deadline and clock to the
  window, weight records to approval) every step is a step of `Ballot` or a
  stutter.

**Pipeline** (`NodePipelineProofs`): for every chain of blocks, whatever is stored,
and any number of crashes, failures and repeated reports.  `NodeInv` has five parts
besides the types: an asked transaction is listened for or its request is of an
earlier run; the handler that waits for the verify call has the prover's answer
about the files; the prover verifies what it was asked about with the files it took;
what handlers carry and submit comes from its reports; and the batch is the part of
the block before the acceptor's place.  From it `ListenedBeforeAsked`,
`VerifyNeedsFiles`, `OnlyReportsVoted`, and `WholeBlocksIndexed`, an action property.

**Ledger** (`LedgerProofs`): for every finite set of accounts, largest balance,
genesis allocations, values and fees.  `LedgerInv` is the types with `Conservation`;
each step is a chain of single-record updates, and an update changes the total by
what it changes the record.  That a credit fits (`CreditsAlwaysFit`) follows from
the total: what a transfer adds was taken from another record, and nothing is above
the supply, which Load has checked to fit.  `NoZeroRecordAppears` and
`OnlyTheSponsorPays` are action properties.

**Batches** (`Ed25519BatchProofs`): `BatchInvariant`, `EverySignatureVerified`,
`NoEmptyBatch`, for every number of signatures and cores.  The invariant says that
jobs and current batch together are the positions added so far, and that an empty
batch means more are to come.

**Replicas** (`ReplicasProofs`): for any nodes, votes, finite set of validators and
stakes that add up within a word.  Execute is a fold over the validators in the
order in which Go happens to iterate over the map.  `ExecuteIsResult` says that the
order does not matter: the result is a function of the vote, the records and the set
of validators under the vote's key, even where a fold over two of them fails on the
second.  `ReplayInv` then says that every node has what replaying the chain over the
sets it saw yields, and two replays over equal sets are equal, one vote after the
other: `Agreement`.  As built (`interned = FALSE`) a replay never writes a record,
whatever the sets: `BuiltAgreement`.

**Client** (`ClientProofs`): for any keys, accounts and number of transactions.
`ClientInv` adds to the properties that what the inbox holds is about transactions
registered on that connection and decided, where each command may be with which
transaction, and which ends have which reason.  From it `SignsForStored`,
`OwnAnswers` and `SuccessIsAccepted`.

**Transactions** (`TxExecutionProofs`): for any widths of ids, addresses, keys,
signatures and integers, any requests whose fields have Go's types, any blocks and
either value of `interned`.  The argument goes up from the bytes.

- The packer reads back what it wrote, field by field: an integer from its digits, a
  string from its length prefix as long as the prefix can count it, and after an error
  nothing.  A format is a fold over its fields, so what it reads is found by induction
  on their number, and each of the nine formats is a case.  `TxRoundTrip` follows, and
  `TxSizeFallsShort` with it: the length that Size names and the length written are
  two sums over one description, and they differ by the named number of bytes.
- A key begins with the prefix of its record and ends with its chunks, and what is
  between is read off by position.  So a write under one prefix meets no record of
  another, and two keys of one prefix are equal only if their ids are, or their
  addresses.  Each record of the store then has an invariant of its own: a verify
  action succeeded and has its deadline (`WindowsInv`), a deadline is of a transaction
  that was executed (`OpenedInv`), what the prover is asked is what the transactions
  named, in their order (`AskedInv`), balances of genesis and of transfers are positive
  and add up to what genesis gave out (`BalancesInv`).  They rest on `SentInv`,
  `StoreInv` and `NumbersInv`: what is sent has Go's types, what is stored is bytes, and
  each transaction is executed once.  Theorems `TxTypes`, `TxAskedHaveWindow`,
  `TxBalancesAddUp`.
- Root hashes: `HashKey` cuts a type to 16 bits, the handlers cut it again for the name
  of the file, and both cuts are remainders of one division (`CutsAgree`), so a key and
  a name tell apart exactly the images, and the types up to 2^16 (`HashKeys`).
  `RootsInv` says that the record of an image and a type holds the root registered last
  under a congruent type, or nothing; `TxFilesMatchRoots` follows.
- The index: StoreTransaction flattens the units of all dimensions into one string, and
  GetTransaction cuts it again.  `FlattenPieces` finds each integer where it is read,
  by induction on the number of dimensions, and `EntryHolds` the rest of the entry.
  `RowsInv` says that each row is the entry of its transaction's result and fee, and
  that rows do not meet; `TxRepliesWithResults` follows, for transactions accepted and
  for those unheard of.
- `TxImplementsVoting` is the step from bytes to `ProofVoting`.  The mapping reads the
  four kinds of voting record back from the store.  A transaction that fails, a
  transfer and a registration write nothing under their prefixes and are stutters, and
  so are sending and accepting; a block is a block; a verification writes one deadline,
  at a key that was free, because the transaction is executed for the first time and
  `OpenedInv` leaves no other source for it; a vote that counts writes a weight and a
  mark, which fit their chunks, are read back as written, and touch the record of no
  other transaction or account; and the status insert is refused, as the key is not
  among those declared.  What is proved of `ProofVoting` therefore speaks about the
  bytes too; that last inference is TLA+'s, by substitution, and not a theorem here.
- `TxPendingLooksUnknown` and `TxDefaultHoldsNoProof` state that the program has two of
  the faults named above whatever the requests.

**Induction.**  The induction theorems of the library take the predicate as a
parameter, which the provers cannot instantiate.  `Sums` does the induction
with a set in its place: the members for which a fact is known, and the least-number
principle (the library's first-order `WFMin`).  So that a recursive function exists
and has its equations is proved first, from the functions on the smaller subsets or
prefixes, and the sums of `Ledger` and `ProofVoting` and the loop of `Replicas` are
covered for all sizes.

**What the assumptions say of the code.**  Accounts are finitely many (an address has
33 bytes), as are validators; weights are `uint64` and, in `Replicas`, the stake of
all validators together fits a word, since it is bounded by the supply of the staked
token; in `ProofVoting` it need not.  Largest balance, values and fees are naturals,
an allocation a finite sequence.  Keys and weights are functions on the validators;
time-outs and times are naturals; a vote's own id is none of the transactions voted
on, as ids are hashes.  In `ActionCodec` and `StateStore` a byte has more values than
there are type ids, ids and integers have at least one byte, the length of a key or a
signature fits its prefix (`WidthAssumption`), and a chunk holds an integer of 64 and
of 16 bits, and the dimensions of a fee are counted by a natural (`ChunkAssumption`).  In `TxExecution` a request is an action of one of the nine types
and a signature, each with fields of Go's types, between accounts; there are fewer
requests than ids, and no vote is on its own id (`RequestAssumption`).  Genesis gives
each account a positive `uint64`, the accounts are finitely many, the units of a
scheme are naturals, and a block's time is one that leaves room for 300 s in an integer
(`ChainAssumption`): timestamps are milliseconds of the present, so the longest deadline
does not wrap.  The bytes of a transaction, and its units in each dimension, fit an
integer (`SizeAssumption`), which the size of a message and the limits of a block ensure.

Only model-checked: the liveness properties `BlocksIndexed`, `ProofsVoted` and the
client's, as liveness under fairness is out of the prover's reach.  Every invariant,
action property and refinement of a passing run is a theorem.

## Not modelled

- Configuration: the parsing of the file and the getters; only the pings are.
- Genesis rules other than the default compute limit and the view of validators:
  constants that the library reads.
- The cryptography of the three schemes, the state's Merkle tree, block building
  and consensus: they are the library's.
- `ChunkKey`, `GetRegistration`, the warp keys and `Broadcast`: nothing calls them.
- The client's Genesis cache and WaitForBalance, and the balances it displays; flags,
  chain selection, dashboards and the genesis file of `cmd/`.
- Metrics, factory and versions hold no protocol state.  `network/main.go` and
  `actions/gnark.go` are commented out.

## Plan

In order of weight; all are done.

1. `ProofVoting` with `Ballot`; its theorems.
2. `NodePipeline`: safety under failures, liveness under stated fairness.
3. `Ledger`.
4. `Ed25519Batch` with its theorems.
5. `ActionCodec`, `StateStore` and `TxExecution`: codecs, image registry, records,
   index and RPC, as an implementation of `ProofVoting`.
6. `Replicas`: nodes that execute one block under different validator sets.
7. `Client`.
8. Every combination of the library's properties in one voting run, and liveness
   and safety of the pipeline in one.
9. `NodePipelineProofs`, `LedgerProofs`, `ClientProofs`, `ReplicasProofs`, and the
   tally of `ProofVotingProofs`.
10. `TxExecutionProofs`: `RoundTrip` for every format, from lemmas on the codec, and
    the properties of the store that rest on keys of different prefixes.
11. `FilesMatchRoots`, from the root hash records by image and type; `TxReplies`, from
    the records of the index; and the step from the byte store to `ProofVoting`.  With
    these, what is left to TLC alone is liveness.
