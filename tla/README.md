# A TLA+ model of go-bazacoin

go-bazacoin is a proof-of-work and proof-of-authority blockchain node written
in Go. This directory holds TLA+ modules for its core, TLC configurations that
check them on small instances, and TLAPS proofs of the most important
properties for every instance. `PROJECT.json` lists the components, the runs,
the source lines behind each definition, the hazards and the theorems.

## The system

| Part | Source | State | Who runs it | Model |
|---|---|---|---|---|
| Block chain | `core/blockchain.go`, `headerchain.go`, `block_validator.go`, `database_util.go` | chain database, three head keys, three heads in memory, future-block queue | `InsertChain` (fetcher, downloader), the miner, the future-block timer, `SetHead` (API), start-up | `BlockChain`, `ForkChoice` |
| Clique engine | `consensus/clique` | snapshot (signers, votes, tally, recent signers), proposals, key | header verification, the miner, the API | `Clique`, `Voting` |
| Transaction pool | `core/tx_pool.go`, `tx_list.go`, `state/managed_state.go` | pending, queue, index, price heap, next nonces, local marks, price floor | API, peers, miner, event loop, expiry timer | `TxPool` |
| Miner | `miner` | current work, agents, unconfirmed blocks | event loop, result loop, agents | partly, as an actor of `BlockChain` |
| Bzhash engine | `consensus/bzhash` | none that lasts | header verification | verdicts only, in `BlockChain` |
| Fetcher | `bzc/fetcher` | announcements in four stages, import queue, per-peer counters | one loop, peers, timers | planned |
| Downloader | `bzc/downloader` | task queues, requests in flight, result cache, peers | one sync at a time with several goroutines | planned |
| Protocol manager | `bzc/handler.go`, `peer.go`, `sync.go` | peer set, known hashes | one goroutine per peer, sync loop | planned |
| Event feed, mux, filters | `event`, `bzc/filters` | subscriptions | every part | planned |
| State database | `core/state` | journal, snapshots, dirty objects | sequential | planned |
| Peer-to-peer server, discovery | `p2p` | peers, dial tasks, buckets | run loop, dialers, handshakes | planned |
| Light client, node lifecycle, RPC, keystore | `les`, `light`, `node`, `rpc`, `accounts` | see `PROJECT.json` | | later, or not |
| VM, trie, RLP, cryptography, command line, Whisper, Swarm | | data processing, I/O, or separate services | | not modelled |

A block reaches the chain through the fetcher, the downloader or the miner. The
consensus engine judges its header, the chain stores it and decides on the head,
and the new head is announced on the event mux to the pool, the miner, the
filters and the peers. The pool reads the state of the head, at a time of its
own choosing, and hands the miner the transactions to put into the next block.

## Modules

### BlockChain

Blocks are model values in a constant tree with parent, number, difficulty,
time, transactions and validity. The database is one variable per table
(`hdrs`, `bodies`, `states`, `blockReceipts`, `td`, `canon`, `lookup`,
`receipt`) and one per head key. Three mutexes matter. `chainmu` serialises
`InsertChain`; `mu` protects the heads inside `WriteBlock` and `SetHead`; the
miner takes only `mu`. So an import is a sequence of steps, between which the
others run:

| Step | Actions | Code |
|---|---|---|
| take `chainmu` for a batch | `StartInsert`, `StartFutureRound`, `InsertFuture` | `InsertChain`, `procFutureBlocks` |
| verify the headers, in any order and ahead of the rest | `VerifyHeaders` | `Bzhash.VerifyHeaders` |
| take the verdict, validate the body | `SkipKnown`, `QueueFuture`, `RejectBlock`, `AcceptBody` | `InsertChain`, `ValidateBody` |
| load the parent, run the block, commit the state | `ProcessBlock`, `ProcessPanics` | `InsertChain` |
| store the receipts | `WriteBlockReceipts` | `InsertChain` |
| read the parent's difficulty | `ReadParentTd`, `ParentTdMissing` | `WriteBlock` before `mu` |
| choose and store, under `mu` | `WriteCanonical`, `WriteSide`, `WriteReorgFailed` | `WriteBlock`, `reorg`, `insert` |
| index transactions and receipts | `WriteTransactions`, `WriteLateReceipts` | `InsertChain`, `worker.wait` after `mu` |

The verdicts in `results` may be old when `InsertChain` takes them, and the
parent that `ValidateBody` found may be gone when `ProcessBlock` loads it again;
the code then dereferences a nil block, and the node has to be restarted
(`ProcessPanics`). The miner builds on the head (`CommitNewWork`), seals while the
chain moves on (`Sealed`), and writes its results one by one (`CommitMined`, then
the steps of `WriteBlock`); a result may wait in `mined` for as long as it likes.

`SetHead` includes the `loadLastState` it ends with, and `wedged` records that
this would wait for the mutex already held. `Restart` may come between any two
steps: memory is lost and the heads come back from the database.

`ForkChoice` is what the rest of the node relies on: blocks are accepted after
their parents and never forgotten, and the head is a heaviest accepted block.
`BlockChain` without `SetHead` implements it (`ImplementsForkChoice`).

### Clique

One branch of a proof-of-authority chain. `InsertHeader` is a header from the
network that passes `verifySeal`, followed by the `apply` that the next lookup
of a snapshot makes; `stuck` records that `apply` refused what `verifySeal`
accepted. `Propose`, `Discard`, `Authorize`, `Prepare` and `Seal` are the local
signer, which may change its key at any time; a prepared header remembers the key
it was prepared for, which no action reads. Go's zero value for a missing tally entry is `NoTally`. Subtraction on
`uint64` is modelled with its wrap-around.

`Voting` keeps only the set of signers and of standing ballots and counts them
at every header; `Clique` implements it (`ImplementsVoting`).

`PreparePanics` is the division by zero of `inturn` when every signer has been
voted out. The code does not guard against an empty set of signers; the model
shows what follows and states no property about it.

### TxPool

Every operation of the pool holds its mutex, so each is one action; what makes
it hard is that one operation touches five structures through several internal
methods, and that the chain moves between operations. Internal methods are
operators on a record of the five structures, composed the way the code calls
them; the operators that iterate over a Go map or compare heartbeats return a
set of outcomes. `NewBlock` and `Reorg` (external) change the state of the head;
the pool notices at `resetState`, but `validateTx` already sees the new state.
Equal prices may be evicted in any order. The error paths on which the state of the
head cannot be opened are left out.

The loops that cut the pending lists down to `GlobalSlots` are translated round by
round (`AddOffender`, `Equalize`, `Equalized`). They look only at the lengths of the
lists, and so do the operators, which lets `EqualizesFairly` compare them with the
length they should end at for more accounts, lengths and limits than the pool of the
run can hold.

## Runs

| Run | Expectation | What it asks |
|---|---|---|
| `chain_race` | pass | import, mining, `SetHead` and restarts interleaved: `CanonicalChain`, `HeadsOnChain`, `TdCorrect`, `NeverWedged`, `HeadNeverLighter`, `TypeOK` |
| `chain_import` | pass | batches with invalid and future blocks, restarts, no miner: `IndexOnChain`, `HeaviestHead`, `ImplementsForkChoice` |
| `chain_live` | pass | `HeaviestAdopted`, `FutureBlocksImported` under fairness |
| `chain_numbers` | violation | "GetBlockByNumber always represents the canonical chain." |
| `chain_set_head` | violation | "everything above the new head will be deleted" |
| `chain_receipts` | violation | "receipts that were created in the fork must also be deleted" |
| `clique` | pass | signers come and go, a local signer changes its key: `VotesConsistent`, `ImplementsVoting`, `RecentsWindow`, `SomeoneCanSign`, `NeverStuck`, `PreparedVerifies`, `TypeOK` |
| `clique_early` | violation | `NeverStuck` with four signers: `number-limit` wraps around on block 2 |
| `clique_keys` | violation | "the protocol permits us to sign the block", when the key changed since `Prepare` |
| `txpool` | pass | `ListsTracked`, `PendingExecutable`, `NothingReadyQueued`, `EqualizesFairly`, `PendingBounded`, `ResetBoundsQueue`, `TypeOK` |
| `txpool_remove` | violation | "moving all subsequent transactions back to the future queue" |
| `txpool_reorg` | violation | a pending list's nonces are "strictly continuous" |

The violation runs are disagreements between the code and its own comments or
tests; the findings in `PROJECT.json` tell each story.

### Bounds

- Block trees have two branches on the genesis block. The three violation runs use
  three blocks on one branch and two on the other, whose first block outweighs two
  of the first branch and ties with all three. `chain_import` and `chain_live` leave
  out the third block, so that a shorter branch wins outright, and add a block with a
  bad header, a block with a bad body, two clock ticks and a future queue of two,
  so that it overflows. `chain_import` has batches of up to two blocks.
- `chain_race` has a smaller tree, two blocks on each branch, where the first block
  of one branch ties with both blocks of the other, so that a coin decides. The
  miner may seal one block (`a2`), `SetHead` is called with 0 or 1, batches have one
  block, and no block is invalid or early. The actors interleave without any other
  limit.
- `clique` and `clique_keys` have two signers, whose keys the node has, and the zero
  address, which headers without a vote name and which may itself be voted in. Five
  blocks with a checkpoint at the third are enough for the signers to grow to three,
  to shrink to one and to none, and for the window of recent signers to shrink and
  to grow again. Larger sets of signers are left to the proofs, which cover every
  property of this run, and to `clique_early`.
- `txpool` has two accounts, six transactions (a replacement, a price below the
  floor, a cost above the poorer balance, a local one), and limits small enough
  that every eviction path runs. Batches have up to two transactions.
  `EqualizesFairly` takes three accounts of up to four transactions each and every
  limit up to eight.

### Fairness

Only `chain_live` uses fairness. The goroutine inside `InsertChain` and the clock
get weak fairness: they are scheduled and hold what they need. The timer's
`InsertFuture` and each `StartInsert` get strong fairness, because they compete
for `chainmu`; Go's mutex and the repeated announcements and synchronisation
rounds justify that each gets its turn now and then. That every block is offered
again and again is an assumption about the peers, and a strong one: a block that
was evicted from the future queue comes back only that way, so the run shows that
eviction does no lasting harm, not that nothing is lost. Crashes and rewinds are
left out of that run.

## Proofs

All proofs are checked by TLAPS. Those about the block chain hold for every block
tree and every bound that satisfies the named assumptions of `BlockChain` (a tree
rooted at `Genesis`, numbers and difficulties that add up, `Chain` and `TotalDiff`
defined along parents). Those about Clique hold for every finite set of accounts,
every non-empty set of initial signers and every epoch length
(`CliqueAssumption`); `SnapshotsExist` has a condition of its own.

| Module | Theorem | Statement |
|---|---|---|
| `BlockChainTypeProofs` | `TypeCorrect` | `Spec => []TypeOK` |
| `BlockChainProofs` | `CanonicalChainHolds` | `Spec => [](CanonicalChain /\ ...)` |
| `BlockChainProofs` | `HeadNeverLighterHolds` | only `SetHead` makes the head lighter |
| `ForkChoiceProofs` | `HeaviestHeadHolds` | `ForwardSpec => []HeaviestHead` |
| `ForkChoiceProofs` | `Refinement` | `ForwardSpec => ImplementsForkChoice` |
| `CliqueVoteProofs` | `CliqueTypeCorrect` | `Spec => []TypeOK` |
| `CliqueVoteProofs` | `TallyIsCount` | `Spec => []VotesConsistent` |
| `CliqueVoteProofs` | `VotingRefinement` | `Spec => ImplementsVoting` |
| `CliqueRotationProofs` | `RecentsWindowHolds` | `Spec => []RecentsWindow` |
| `CliqueRotationProofs` | `RotationContinues` | `Spec => []SomeoneCanSign` |
| `CliqueRotationProofs` | `SnapshotsExist` | `Spec => []NeverStuck` with at most three initial signers |
| `CliqueRotationProofs` | `PreparedHeadersVerify` | `Spec => PreparedVerifies` |

`CanonicalChain` is not inductive. What it needs besides is that the heads are on
the head's chain and agree with their keys, that stored difficulties are right,
that a difficulty an actor has read in advance is the true one of the parent even
if `SetHead` deleted that parent since, and that a block in an actor's hands has
its state stored. The interesting step is `WriteCanonical` after such a deletion:
a block whose parent is gone cannot become the head, because `reorg` fails to
load it, unless its parent is the head, and the head is stored. For `SetHead` the
argument is that the head header is on the head's chain, so deleting from it
downwards leaves the chain below the target whole. `BlockChainStepProofs` has one
lemma per group of actions, `BlockChainProofs` combines them.

For Clique, `VotesConsistent` becomes inductive once it also says that the vote
list is finite and well typed (`VoteInv`). The relation `Counts(T, W, S)` (the
tally `T` counts the votes `W`, all of them to change a status under the signers
`S`) is what `uncast`, `cast` and a change of status each preserve, and `apply`
is their composition. The list has at most one vote per signer and account, so
the first vote that `apply` finds and replaces is the only one, and the votes
about an account correspond one to one to the signers with a ballot: hence the
refinement of `Voting`. `RecentsWindow` is inductive by itself: one vote changes
the limit by at most one, so the one extra delete after a signer is dropped is
enough. `SomeoneCanSign` follows because the window has at most half as many
blocks as there are signers. `NeverStuck` needs a bound on how fast the signers
can grow (`GrowthInv`: at most three, or at most two more than there are blocks),
so that the window never reaches back before the genesis block except on the
first block, where it is empty. With four initial signers it does, which is what
`clique_early` shows. `PreparedVerifies` rests on `WorkInv`: a prepared header is
stale, or was computed for the present signers and the key it names. With another
key than that the header need not verify, which is what `clique_keys` shows.

Only model-checked: liveness (outside the prover's reach), the transaction index,
everything about `TxPool`.

## Not modelled

Fast sync, light sync and header-only import; a crash inside the section under
`mu`, so `HeadsOnChain` and `CanonicalChain` say nothing about a reorganisation cut
short; the LRU caches. Readers fill those without `mu` while `SetHead` deletes and
purges, so a deleted entry may come back into a cache; the models read the database
and do not show what follows. Further the data of
blocks and transactions (formats, hashes, signatures, gas, difficulty formulas);
snapshots that Clique keeps on disk; heartbeats of the pool, which only choose
victims; events the pool posts. `PROJECT.json` gives the reason for every part.

## Plan

1. `Fetcher`: announce, fetch, complete and queue stages, per-peer counters,
   timers that race with deliveries. Counters equal map contents; nothing is
   fetched twice at a time; an announced block is imported or forgotten.
2. `DownloadQueue`, with an abstract specification (results come out in order,
   each once): reserve, deliver, expire, revoke, cancel. Proof that no task is
   lost or duplicated.
3. `Miner`: worker, agents, start and stop, the unconfirmed set; composed with
   `BlockChain`.
4. `Feed` and `Mux`: every send reaches every subscriber of that time exactly
   once, unsubscribing never blocks for ever; then the filter system on top.
5. `ChainCrash`: the section under `mu` split at every database write.
6. `FastSync` on `DownloadQueue` and `BlockChain`; `StateJournal`; dial scheduling
   and peer admission.
7. `TxPool` composed with `BlockChain` in place of its external chain.
