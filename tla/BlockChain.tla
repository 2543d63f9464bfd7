----------------------------- MODULE BlockChain -----------------------------
(***************************************************************************)
(* core.BlockChain in full-import mode: the chain database, the three head *)
(* pointers and the concurrent operations on them.                         *)
(*                                                                         *)
(* Blocks come from a constant tree.  A block is named by its hash, so a   *)
(* hash and the block it names are the same model value, and the header    *)
(* chain and the block chain share one universe.                           *)
(*                                                                         *)
(* InsertChain holds chainmu, but takes mu only inside WriteBlock; the     *)
(* miner calls WriteBlock without chainmu; SetHead takes mu alone.  An     *)
(* import is therefore a sequence of steps (verify the header, validate    *)
(* the body, commit the state, store the receipts, read the parent's total *)
(* difficulty, the part of WriteBlock under mu, write the transaction      *)
(* index) between which the other actors run.                              *)
(*                                                                         *)
(* The LRU caches of blocks, bodies, headers, difficulties and numbers are *)
(* left out: a lookup reads the database.  In the code a reader fills them *)
(* without mu, so that one which read an entry before SetHead deleted it   *)
(* may put it back after the purge; that race is not in the model.         *)
(***************************************************************************)
EXTENDS Integers, Sequences, FiniteSets

CONSTANTS
  Blocks,       \* every block a peer or the miner may present, with Genesis
  Genesis,
  Parent,       \* [Blocks \ {Genesis} -> Blocks]
  Number,       \* [Blocks -> Nat]
  Difficulty,   \* [Blocks -> Nat]
  Time,         \* [Blocks -> Nat], the timestamp of the header
  Chain,        \* [Blocks -> SUBSET Blocks], a block and its ancestors
  TotalDiff,    \* [Blocks -> Nat], difficulty summed along Chain
  Tx,           \* transactions
  Txs,          \* [Blocks -> SUBSET Tx], the transactions of a block
  BadHashes,    \* blocks whose hash is banned
  BadHeaders,   \* blocks whose header violates the consensus rules
  BadBlocks,    \* blocks whose body or resulting state does not check
  Minable,      \* blocks the local miner may seal
  Rewinds,      \* block numbers SetHead may be called with
  NoBlock,      \* the empty hash, a nil block
  NoTd,         \* an absent total difficulty
  MaxNumber,    \* bound: the highest block number
  MaxBatch,     \* bound: blocks in one InsertChain call
  MaxTime,      \* bound: the last value of the clock
  MaxTimeFuture,   \* maxTimeFutureBlocks
  MaxFutureBlocks  \* maxFutureBlocks, the capacity of the future queue

Actors == {"importer", "miner"}

ASSUME TreeAssumption ==
  /\ Genesis \in Blocks
  /\ Parent \in [Blocks \ {Genesis} -> Blocks]
  /\ Number \in [Blocks -> 0..MaxNumber]
  /\ Number[Genesis] = 0
  /\ \A b \in Blocks \ {Genesis} : Number[b] = Number[Parent[b]] + 1
  /\ Difficulty \in [Blocks -> Nat \ {0}]
  /\ Time \in [Blocks -> Nat]

ASSUME ChainAssumption ==
  /\ Chain \in [Blocks -> SUBSET Blocks]
  /\ Chain[Genesis] = {Genesis}
  /\ \A b \in Blocks \ {Genesis} : Chain[b] = Chain[Parent[b]] \cup {b}

ASSUME DifficultyAssumption ==
  /\ TotalDiff \in [Blocks -> Nat]
  /\ TotalDiff[Genesis] = Difficulty[Genesis]
  /\ \A b \in Blocks \ {Genesis} :
        TotalDiff[b] = TotalDiff[Parent[b]] + Difficulty[b]

ASSUME TxAssumption ==
  /\ Txs \in [Blocks -> SUBSET Tx]
  /\ \A b \in Blocks : \A x, y \in Chain[b] :
        x # y => Txs[x] \cap Txs[y] = {}

ASSUME BoundAssumption ==
  /\ NoBlock \notin Blocks
  /\ NoTd \notin Nat
  /\ MaxNumber \in Nat /\ MaxBatch \in Nat /\ MaxTime \in Nat
  /\ MaxTimeFuture \in Nat
  /\ MaxFutureBlocks \in Nat \ {0}
  /\ Minable \subseteq Blocks \ (BadHashes \cup BadHeaders \cup BadBlocks \cup {Genesis})
  /\ Rewinds \subseteq Nat
-----------------------------------------------------------------------------
VARIABLES
  \* the chain database
  hdrs,          \* blocks whose header is stored
  bodies,        \* blocks whose body is stored
  states,        \* blocks whose post-state trie is stored
  blockReceipts, \* blocks whose receipt list is stored
  td,            \* stored total difficulties
  canon,         \* number -> canonical hash
  headBlock,     \* the LastBlock key
  headHeader,    \* the LastHeader key
  headFast,      \* the LastFast key
  lookup,        \* transaction -> block recorded by WriteTransactions
  receipt,       \* transaction -> block whose receipt WriteReceipts stored
  \* memory
  currentBlock, currentHeader, currentFastBlock,
  futureBlocks,  \* blocks set aside until their time comes
  now,           \* the clock
  wedged,        \* SetHead is waiting for the mutex it holds itself
  \* the goroutines inside InsertChain, the miner and the future-block timer
  batch, pos,    \* the chain InsertChain works on and its loop index
  results,       \* the verdicts of VerifyHeaders on its headers so far
  stage, blk,    \* per actor: how far WriteBlock has come, and on which block
  ptd,           \* per actor: the parent difficulty WriteBlock has read
  lateReceipts,  \* mined blocks whose receipts a goroutine has yet to write
  round,         \* future blocks procFutureBlocks has still to insert
  sealing,       \* the block the miner's agents work on
  mined          \* sealed blocks in worker.recv

store == <<hdrs, bodies, states, blockReceipts, td, canon>>
keys  == <<headBlock, headHeader, headFast>>
index == <<lookup, receipt>>
heads == <<currentBlock, currentHeader, currentFastBlock>>
loop  == <<batch, pos, results>>
procs == <<loop, stage, blk, ptd>>
mining == <<sealing, mined>>
async == <<lateReceipts, round, mining>>
vars  == <<store, keys, index, heads, futureBlocks, now, wedged, procs, async>>

Stages == {"idle", "validated", "committed", "verified", "difficulty", "written"}

Results == {"pending", "ok", "unknownAncestor", "future", "invalid"}

NoResults == [i \in 1..MaxBatch |-> "pending"]

TypeOK ==
  /\ hdrs \subseteq Blocks /\ bodies \subseteq Blocks
  /\ states \subseteq Blocks /\ blockReceipts \subseteq Blocks
  /\ td \in [Blocks -> Nat \cup {NoTd}]
  /\ canon \in [0..MaxNumber -> Blocks \cup {NoBlock}]
  /\ headBlock \in Blocks /\ headHeader \in Blocks /\ headFast \in Blocks
  /\ lookup \in [Tx -> Blocks \cup {NoBlock}]
  /\ receipt \in [Tx -> Blocks \cup {NoBlock}]
  /\ currentBlock \in Blocks /\ currentHeader \in Blocks
  /\ currentFastBlock \in Blocks
  /\ futureBlocks \subseteq Blocks \ {Genesis}
  /\ now \in Nat
  /\ wedged \in BOOLEAN
  /\ batch \in Seq(Blocks \ {Genesis}) /\ pos \in Nat \ {0}
  /\ results \in [1..MaxBatch -> Results]
  /\ stage \in [Actors -> Stages]
  /\ blk \in [Actors -> (Blocks \ {Genesis}) \cup {NoBlock}]
  /\ ptd \in [Actors -> Nat]
  /\ lateReceipts \subseteq Blocks
  /\ round \subseteq Blocks \ {Genesis}
  /\ sealing \in (Blocks \ {Genesis}) \cup {NoBlock}
  /\ mined \subseteq Blocks \ {Genesis}
-----------------------------------------------------------------------------
\* What the database holds.

HasBlock(b) == b \in hdrs /\ b \in bodies

HasBlockAndState(b) == HasBlock(b) /\ b \in states

Init ==
  /\ hdrs = {Genesis} /\ bodies = {Genesis} /\ states = {Genesis}
  /\ blockReceipts = {Genesis}
  /\ td = [b \in Blocks |-> IF b = Genesis THEN Difficulty[b] ELSE NoTd]
  /\ canon = [n \in 0..MaxNumber |-> IF n = 0 THEN Genesis ELSE NoBlock]
  /\ headBlock = Genesis /\ headHeader = Genesis /\ headFast = Genesis
  /\ lookup = [t \in Tx |-> NoBlock] /\ receipt = [t \in Tx |-> NoBlock]
  /\ currentBlock = Genesis /\ currentHeader = Genesis
  /\ currentFastBlock = Genesis
  /\ futureBlocks = {} /\ now = 0 /\ wedged = FALSE
  /\ batch = <<>> /\ pos = 1 /\ results = NoResults
  /\ stage = [a \in Actors |-> "idle"] /\ blk = [a \in Actors |-> NoBlock]
  /\ ptd = [a \in Actors |-> 0]
  /\ lateReceipts = {} /\ round = {} /\ sealing = NoBlock /\ mined = {}
-----------------------------------------------------------------------------
(***************************************************************************)
(* InsertChain.  It owns chainmu from StartInsert until batch is empty.    *)
(***************************************************************************)
Contiguous(chain) ==
  \A i \in 1..(Len(chain) - 1) : Parent[chain[i + 1]] = chain[i]

StartInsert(chain) ==
  /\ batch = <<>> /\ chain # <<>>
  /\ Contiguous(chain)
  /\ batch' = chain /\ pos' = 1 /\ results' = NoResults
  /\ UNCHANGED <<store, keys, index, heads, futureBlocks, now, wedged,
                 stage, blk, ptd, async>>

\* The timer snapshots the queue, then inserts the blocks one at a time in the
\* order of their numbers, taking chainmu anew for each.
StartFutureRound ==
  /\ round = {} /\ futureBlocks # {}
  /\ round' = futureBlocks
  /\ UNCHANGED <<store, keys, index, heads, futureBlocks, now, wedged,
                 procs, lateReceipts, mining>>

InsertFuture ==
  \E b \in round :
    /\ \A x \in round : Number[b] <= Number[x]
    /\ batch = <<>>
    /\ batch' = <<b>> /\ pos' = 1 /\ results' = NoResults
    /\ round' = round \ {b}
    /\ UNCHANGED <<store, keys, index, heads, futureBlocks, now, wedged,
                   stage, blk, ptd, lateReceipts, mining>>

\* The verdict on the i-th header: only the first header's parent is looked up,
\* the others have the header before them as parent.
VerifyHeader(i) ==
  LET b == batch[i]
  IN  CASE i = 1 /\ Parent[b] \notin hdrs -> "unknownAncestor"
        [] b \in hdrs                     -> "ok"
        [] Time[b] > now                  -> "future"
        [] b \in BadHeaders               -> "invalid"
        [] OTHER                          -> "ok"

\* VerifyHeaders is started for the whole batch; its workers look at the headers
\* in any order, possibly long before InsertChain takes the verdict.
VerifyHeaders ==
  \E i \in 1..Len(batch) :
    /\ results[i] = "pending"
    /\ results' = [results EXCEPT ![i] = VerifyHeader(i)]
    /\ UNCHANGED <<store, keys, index, heads, futureBlocks, now, wedged, batch, pos,
                   stage, blk, ptd, async>>

ValidateBody(b) ==
  CASE HasBlockAndState(b)              -> "known"
    [] ~HasBlockAndState(Parent[b])     -> "unknownAncestor"
    [] b \in BadBlocks                  -> "invalid"
    [] OTHER                            -> "ok"

Verdict(b) ==
  IF b \in BadHashes THEN "invalid"
  ELSE IF results[pos] = "ok" THEN ValidateBody(b) ELSE results[pos]

\* Leaving the loop body for the next block (continue) or the function, which
\* aborts the verification.
Return == batch' = <<>> /\ pos' = 1 /\ results' = NoResults

Continue ==
  IF pos < Len(batch) THEN pos' = pos + 1 /\ UNCHANGED <<batch, results>> ELSE Return

\* futureBlocks is an LRU cache: at capacity an addition evicts an entry (the
\* least recently used in the code, any older one here).
AddFuture(b) ==
  \/ /\ Cardinality(futureBlocks \cup {b}) <= MaxFutureBlocks
     /\ futureBlocks' = futureBlocks \cup {b}
  \/ /\ Cardinality(futureBlocks \cup {b}) > MaxFutureBlocks
     /\ \E x \in futureBlocks \ {b} : futureBlocks' = (futureBlocks \ {x}) \cup {b}

\* A banned hash is noticed before the verdict on the header is waited for.
Examining(b) ==
  /\ stage["importer"] = "idle"
  /\ batch # <<>> /\ b = batch[pos]
  /\ b \in BadHashes \/ results[pos] # "pending"

SkipKnown ==
  \E b \in Blocks \ {Genesis} :
    /\ Examining(b) /\ Verdict(b) = "known"
    /\ Continue
    /\ UNCHANGED <<store, keys, index, heads, futureBlocks, now, wedged,
                   stage, blk, ptd, async>>

QueueFuture ==
  \E b \in Blocks \ {Genesis} :
    /\ Examining(b)
    /\ \/ Verdict(b) = "future" /\ Time[b] <= now + MaxTimeFuture
       \/ Verdict(b) = "unknownAncestor" /\ Parent[b] \in futureBlocks
    /\ AddFuture(b)
    /\ Continue
    /\ UNCHANGED <<store, keys, index, heads, now, wedged, stage, blk, ptd,
                   async>>

RejectBlock ==
  \E b \in Blocks \ {Genesis} :
    /\ Examining(b)
    /\ \/ Verdict(b) = "invalid"
       \/ Verdict(b) = "future" /\ Time[b] > now + MaxTimeFuture
       \/ Verdict(b) = "unknownAncestor" /\ Parent[b] \notin futureBlocks
    /\ Return
    /\ UNCHANGED <<store, keys, index, heads, futureBlocks, now, wedged,
                   stage, blk, ptd, async>>

\* The header and the body check.
AcceptBody ==
  \E b \in Blocks \ {Genesis} :
    /\ Examining(b) /\ Verdict(b) = "ok"
    /\ stage' = [stage EXCEPT !["importer"] = "validated"]
    /\ blk' = [blk EXCEPT !["importer"] = b]
    /\ UNCHANGED <<store, keys, index, heads, futureBlocks, now, wedged, loop, ptd,
                   async>>

\* The first block of a batch runs on the state of its parent, which is loaded
\* again; the others run on the state of the block before.
ParentLoaded == pos = 1 => HasBlock(Parent[blk["importer"]])

\* Run the block and commit its state.
ProcessBlock ==
  /\ stage["importer"] = "validated" /\ ParentLoaded
  /\ states' = states \cup {blk["importer"]}
  /\ stage' = [stage EXCEPT !["importer"] = "committed"]
  /\ UNCHANGED <<hdrs, bodies, blockReceipts, td, canon, keys, index, heads,
                 futureBlocks, now, wedged, loop, blk, ptd, async>>

WriteBlockReceipts ==
  /\ stage["importer"] = "committed"
  /\ blockReceipts' = blockReceipts \cup {blk["importer"]}
  /\ stage' = [stage EXCEPT !["importer"] = "verified"]
  /\ UNCHANGED <<hdrs, bodies, states, td, canon, keys, index, heads,
                 futureBlocks, now, wedged, loop, blk, ptd, async>>
-----------------------------------------------------------------------------
(***************************************************************************)
(* The miner: a block is built on the current head and sealed while the    *)
(* chain moves on.  Its results queue up until worker.wait writes them.    *)
(***************************************************************************)
\* New work takes the place of the old.  The timestamp may be a second ahead.
CommitNewWork(b) ==
  /\ b \in Minable /\ Parent[b] = currentBlock /\ Time[b] <= now + 1
  /\ sealing' = b
  /\ UNCHANGED <<store, keys, index, heads, futureBlocks, now, wedged, procs,
                 lateReceipts, round, mined>>

Sealed ==
  /\ sealing # NoBlock
  /\ mined' = mined \cup {sealing} /\ sealing' = NoBlock
  /\ UNCHANGED <<store, keys, index, heads, futureBlocks, now, wedged, procs,
                 lateReceipts, round>>

\* worker.wait commits the state of one result, any when there are several
\* agents, and goes on to WriteBlock.
CommitMined(b) ==
  /\ stage["miner"] = "idle" /\ b \in mined
  /\ states' = states \cup {b} /\ mined' = mined \ {b}
  /\ stage' = [stage EXCEPT !["miner"] = "verified"]
  /\ blk' = [blk EXCEPT !["miner"] = b]
  /\ UNCHANGED <<hdrs, bodies, blockReceipts, td, canon, keys, index, heads,
                 futureBlocks, now, wedged, loop, ptd, lateReceipts, round, sealing>>
-----------------------------------------------------------------------------
(***************************************************************************)
(* BlockChain.WriteBlock, run by either actor.  The parent's difficulty is *)
(* read before mu is taken; everything else happens under mu.              *)
(***************************************************************************)
\* The actor is done with its block: the importer goes on to the next one of
\* its batch, or gives the batch up when WriteBlock returned an error.
Finish(a, ok) ==
  /\ stage' = [stage EXCEPT ![a] = "idle"]
  /\ blk' = [blk EXCEPT ![a] = NoBlock]
  /\ ptd' = [ptd EXCEPT ![a] = 0]
  /\ CASE a = "miner"          -> UNCHANGED loop
       [] a = "importer" /\ ok -> Continue
       [] OTHER                -> Return

\* Variant: the nil check on the parent's difficulty is missing.
ReadParentTdUnchecked(a) ==
  /\ stage[a] = "verified"
  /\ ptd' = [ptd EXCEPT ![a] = td[Parent[blk[a]]]]
  /\ stage' = [stage EXCEPT ![a] = "difficulty"]
  /\ UNCHANGED <<store, keys, index, heads, futureBlocks, now, wedged, loop, blk,
                 async>>

ReadParentTd(a) ==
  /\ stage[a] = "verified"
  /\ td[Parent[blk[a]]] # NoTd
  /\ ptd' = [ptd EXCEPT ![a] = td[Parent[blk[a]]]]
  /\ stage' = [stage EXCEPT ![a] = "difficulty"]
  /\ UNCHANGED <<store, keys, index, heads, futureBlocks, now, wedged, loop, blk,
                 async>>

ParentTdMissing(a) ==
  /\ stage[a] = "verified"
  /\ td[Parent[blk[a]]] = NoTd
  /\ Finish(a, FALSE)
  /\ UNCHANGED <<store, keys, index, heads, futureBlocks, now, wedged, async>>

\* Written whatever the canonical status of the block.
StoreBlock(b, externTd) ==
  /\ td' = [td EXCEPT ![b] = externTd]
  /\ hdrs' = hdrs \cup {b}
  /\ bodies' = bodies \cup {b}
  /\ UNCHANGED <<states, blockReceipts>>

\* Variant: the difficulty is added to that of the head instead of the parent.
ExternTdOfHead(a) == td[currentBlock] + Difficulty[blk[a]]

ExternTd(a) == ptd[a] + Difficulty[blk[a]]

\* The blocks reorg loads to find the common ancestor of the head and b.  The
\* head and b themselves are at hand; each side is walked down to the highest
\* common block.
Walked(b) ==
  LET common == Chain[b] \cap Chain[currentBlock]
  IN  {x \in (Chain[b] \ {b}) \cup (Chain[currentBlock] \ {currentBlock}) :
         x \in common => \A y \in common : Number[y] <= Number[x]}

ReorgFails(b) ==
  /\ Parent[b] # currentBlock
  /\ ~(Walked(b) \subseteq (hdrs \cap bodies) \cup {b})

\* Variant: reorg forgets the blocks between the common ancestor and b.
NewChainHeadOnly(b) == {b}

\* The blocks insert is called with when b becomes the head: b, and the part
\* of its chain that leaves the old one.
NewChain(b) == {b} \cup (Chain[b] \ Chain[currentBlock])

\* What reorg itself calls newChain and oldChain: nothing when b is the head.
ReorgChain(b) == Chain[b] \ Chain[currentBlock]

OldChain(b) == Chain[currentBlock] \ Chain[b]

\* Variant: insert moves the other two heads only when the number was free.
ForcesHeadsFree(b) == {x \in NewChain(b) : canon[Number[x]] = NoBlock}

\* insert moves the head header and the head fast block along only when the
\* block's number is not yet assigned to it.
ForcesHeads(b) == {x \in NewChain(b) : canon[Number[x]] # x}

\* The calls of insert go from b downwards, and then to b again.
InsertHead(b) ==
  /\ canon' = [n \in 0..MaxNumber |->
                 IF \E x \in NewChain(b) : Number[x] = n
                 THEN CHOOSE x \in NewChain(b) : Number[x] = n
                 ELSE canon[n]]
  /\ headBlock' = b /\ currentBlock' = b
  /\ \/ /\ ForcesHeads(b) = {}
        /\ UNCHANGED <<headHeader, headFast, currentHeader, currentFastBlock>>
     \/ \E x \in ForcesHeads(b) :
          /\ \A y \in ForcesHeads(b) : Number[x] <= Number[y]
          /\ headHeader' = x /\ currentHeader' = x
          /\ headFast' = x /\ currentFastBlock' = x

\* The transaction and receipt index after reorg, nothing otherwise.
Carrier(t, S) == CHOOSE x \in S : t \in Txs[x]

\* Variant: reorg does not delete what the abandoned blocks had indexed.
ReindexAdditive(table, b, written) ==
  [t \in Tx |->
     IF \E x \in ReorgChain(b) \cap written : t \in Txs[x]
     THEN Carrier(t, ReorgChain(b) \cap written) ELSE table[t]]

Reindex(table, b, written) ==
  [t \in Tx |->
     IF \E x \in ReorgChain(b) \cap written : t \in Txs[x]
     THEN Carrier(t, ReorgChain(b) \cap written)
     ELSE IF (\E x \in OldChain(b) : t \in Txs[x])
             /\ ~\E x \in ReorgChain(b) : t \in Txs[x]
     THEN NoBlock
     ELSE table[t]]

ReorgIndex(b) ==
  IF Parent[b] = currentBlock THEN UNCHANGED index
  ELSE /\ lookup' = Reindex(lookup, b, Blocks)
       /\ receipt' = Reindex(receipt, b, blockReceipts)

\* Variant: the longest chain wins, not the heaviest.
AdoptsLongest(a) == Number[blk[a]] >= Number[currentBlock]

\* Variant: a written block is not taken out of the future queue.
DequeueNothing(b) == UNCHANGED futureBlocks

Dequeue(b) == futureBlocks' = futureBlocks \ {b}

Adopts(a) == \/ ExternTd(a) > td[currentBlock]
             \/ ExternTd(a) = td[currentBlock]   \* and the coin agrees

WriteCanonical(a) ==
  /\ stage[a] = "difficulty" /\ ~wedged
  /\ Adopts(a) /\ ~ReorgFails(blk[a])
  /\ StoreBlock(blk[a], ExternTd(a))
  /\ InsertHead(blk[a]) /\ ReorgIndex(blk[a])
  /\ Dequeue(blk[a])
  /\ stage' = [stage EXCEPT ![a] = "written"]
  /\ UNCHANGED <<now, wedged, loop, blk, ptd, async>>

WriteReorgFailed(a) ==
  /\ stage[a] = "difficulty" /\ ~wedged
  /\ Adopts(a) /\ ReorgFails(blk[a])
  /\ StoreBlock(blk[a], ExternTd(a))
  /\ Finish(a, FALSE)
  /\ UNCHANGED <<canon, keys, index, heads, futureBlocks, now, wedged, async>>

\* A mined block's receipts are stored by a goroutine, on the side chain too.
DeferReceipts(a) ==
  lateReceipts' = IF a = "miner" THEN lateReceipts \cup {blk[a]} ELSE lateReceipts

WriteSide(a) ==
  /\ stage[a] = "difficulty" /\ ~wedged
  /\ ~Adopts(a) \/ ExternTd(a) = td[currentBlock]
  /\ StoreBlock(blk[a], ExternTd(a))
  /\ Dequeue(blk[a])
  /\ DeferReceipts(a)
  /\ Finish(a, TRUE)
  /\ UNCHANGED <<canon, keys, index, heads, now, wedged, round, mining>>

\* mu is free again when the transactions and receipts are indexed.
WriteTransactions(a) ==
  /\ stage[a] = "written"
  /\ lookup' = [t \in Tx |-> IF t \in Txs[blk[a]] THEN blk[a] ELSE lookup[t]]
  /\ receipt' = [t \in Tx |-> IF t \in Txs[blk[a]] THEN blk[a] ELSE receipt[t]]
  /\ DeferReceipts(a)
  /\ Finish(a, TRUE)
  /\ UNCHANGED <<store, keys, heads, futureBlocks, now, wedged, round, mining>>

WriteLateReceipts(b) ==
  /\ b \in lateReceipts
  /\ blockReceipts' = blockReceipts \cup {b}
  /\ lateReceipts' = lateReceipts \ {b}
  /\ UNCHANGED <<hdrs, bodies, states, td, canon, keys, index, heads,
                 futureBlocks, now, wedged, procs, round, mining>>
-----------------------------------------------------------------------------
(***************************************************************************)
(* SetHead, the restart of the node, and the clock.                        *)
(***************************************************************************)
\* The headers HeaderChain.SetHead visits from the header `from' down: it
\* stops early at a header that is not stored.
HeaderPath(from) ==
  {x \in Chain[from] :
     \A y \in Chain[from] : Number[x] <= Number[y] /\ y # from => y \in hdrs}

Rewound(from, h) == {x \in HeaderPath(from) : Number[x] > h}

\* The header of the path at number h (or `from' when that is lower), Genesis
\* when the path stops before it.
HeaderAt(from, h) ==
  LET n == IF h < Number[from] THEN h ELSE Number[from]
  IN  IF \E x \in HeaderPath(from) : Number[x] = n
      THEN CHOOSE x \in HeaderPath(from) : Number[x] = n
      ELSE Genesis

\* Variant: the head block is not rewound with the header.
RewoundHeadKept(block, header, loadable) == block

\* A head block above the rewound header moves to it, or to Genesis when that
\* block cannot be loaded.
RewoundHead(block, header, loadable) ==
  IF Number[header] >= Number[block] THEN block
  ELSE IF header \in loadable THEN header ELSE Genesis

\* HeaderChain.SetHead: delete the path above h and the numbers up to the old
\* height; what is stored off the path stays.
RewindHeaders(from, h) ==
  /\ LET gone == Rewound(from, h)
     IN  /\ hdrs' = hdrs \ gone
         /\ bodies' = bodies \ gone
         /\ td' = [b \in Blocks |-> IF b \in gone THEN NoTd ELSE td[b]]
  /\ canon' = [n \in 0..MaxNumber |->
                 IF h < n /\ n <= Number[from] THEN NoBlock ELSE canon[n]]

SetHead(h) ==
  /\ ~wedged
  /\ RewindHeaders(currentHeader, h)
  /\ LET header == HeaderAt(currentHeader, h)
         loaded == hdrs' \cap bodies'
         moved  == RewoundHead(currentBlock, header, loaded)
         block  == IF moved \in states THEN moved ELSE Genesis
         fast   == RewoundHead(currentFastBlock, header, loaded)
     IN  /\ headBlock' = block /\ headFast' = fast
         \* loadLastState, still under mu: when it cannot load the head block
         \* it goes through Reset back into SetHead.
         /\ wedged' = (block \notin loaded)
         /\ currentBlock' = block
         /\ currentHeader' = IF header \in hdrs' THEN header ELSE block
         /\ headHeader' = currentHeader'
         /\ currentFastBlock' = IF fast \in loaded THEN fast ELSE block
  /\ futureBlocks' = {}
  /\ UNCHANGED <<states, blockReceipts, index, now, procs, async>>

\* The process dies between any two steps and comes back: memory is lost and
\* NewBlockChain restores the heads from the database, by way of Reset when the
\* head block cannot be loaded.
Restart ==
  /\ IF HasBlockAndState(headBlock)
     THEN /\ currentBlock' = headBlock
          /\ currentHeader' = IF headHeader \in hdrs THEN headHeader ELSE headBlock
          /\ headHeader' = currentHeader'
          /\ currentFastBlock' = IF HasBlock(headFast) THEN headFast ELSE headBlock
          /\ UNCHANGED <<store, headBlock, headFast>>
     ELSE /\ RewindHeaders(IF headBlock \in hdrs THEN headBlock ELSE Genesis, 0)
          /\ headBlock' = Genesis /\ headHeader' = Genesis /\ headFast' = Genesis
          /\ currentBlock' = Genesis /\ currentHeader' = Genesis
          /\ currentFastBlock' = Genesis
          /\ UNCHANGED <<states, blockReceipts>>
  /\ futureBlocks' = {} /\ wedged' = FALSE
  /\ batch' = <<>> /\ pos' = 1 /\ results' = NoResults
  /\ stage' = [a \in Actors |-> "idle"] /\ blk' = [a \in Actors |-> NoBlock]
  /\ ptd' = [a \in Actors |-> 0]
  /\ lateReceipts' = {} /\ round' = {} /\ sealing' = NoBlock /\ mined' = {}
  /\ UNCHANGED <<index, now>>

\* SetHead deleted the parent after ValidateBody saw it: InsertChain dereferences
\* the nil that GetBlock returns, and the node has to be started again.
ProcessPanics ==
  /\ stage["importer"] = "validated" /\ ~ParentLoaded
  /\ Restart

Tick ==
  /\ now < MaxTime
  /\ now' = now + 1
  /\ UNCHANGED <<store, keys, index, heads, futureBlocks, wedged, procs, async>>
-----------------------------------------------------------------------------
Batches == UNION {[1..n -> Blocks \ {Genesis}] : n \in 1..MaxBatch}

Import ==
  \/ \E chain \in Batches : StartInsert(chain)
  \/ StartFutureRound \/ InsertFuture
  \/ VerifyHeaders \/ SkipKnown \/ QueueFuture \/ RejectBlock
  \/ AcceptBody \/ ProcessBlock \/ WriteBlockReceipts

Mine == \/ \E b \in Blocks : CommitNewWork(b)
        \/ Sealed
        \/ \E b \in Blocks : CommitMined(b) \/ WriteLateReceipts(b)

Write(a) == \/ ReadParentTd(a) \/ ParentTdMissing(a)
            \/ WriteCanonical(a) \/ WriteReorgFailed(a) \/ WriteSide(a)
            \/ WriteTransactions(a)

Next == \/ Import \/ Mine \/ Tick
        \/ \E a \in Actors : Write(a)
        \/ \E h \in Rewinds : SetHead(h)
        \/ Restart \/ ProcessPanics

Spec == Init /\ [][Next]_vars

\* A node nobody rewinds.
ForwardNext == \/ Import \/ Mine \/ Tick
               \/ \E a \in Actors : Write(a)
               \/ Restart

ForwardSpec == Init /\ [][ForwardNext]_vars

\* A node that also keeps running.  Every block keeps being offered (by the
\* peers' announcements and the periodic synchronisation), the goroutine inside
\* InsertChain is scheduled, chainmu is granted to the timer, and time passes.
LiveNext == Import \/ Tick \/ \E a \in Actors : Write(a)

LiveSpec ==
  /\ Init /\ [][LiveNext]_vars
  /\ WF_vars(Tick) /\ WF_vars(StartFutureRound) /\ SF_vars(InsertFuture)
  /\ WF_vars(VerifyHeaders)
  /\ WF_vars(SkipKnown \/ QueueFuture \/ RejectBlock
             \/ AcceptBody \/ ProcessBlock \/ WriteBlockReceipts)
  /\ WF_vars(Write("importer"))
  /\ \A b \in Blocks \ {Genesis} : SF_vars(StartInsert(<<b>>))
-----------------------------------------------------------------------------
(***************************************************************************)
(* Properties.                                                             *)
(***************************************************************************)
\* Every block from the head down to Genesis is stored with its header, body
\* and state and is the one its number resolves to, whatever reorganisations,
\* failed writes, rewinds and restarts came before (insert, reorg, SetHead).
CanonicalChain ==
  \A x \in Chain[currentBlock] :
    HasBlockAndState(x) /\ canon[Number[x]] = x

\* The head header and the head fast block never leave the chain of the head
\* block, and the three keys in the database name the heads held in memory, so
\* that a restart resumes where the node stopped (insert, SetHead,
\* loadLastState).
HeadsOnChain ==
  /\ currentHeader \in Chain[currentBlock]
  /\ currentFastBlock \in Chain[currentBlock]
  /\ headBlock = currentBlock /\ headHeader = currentHeader
  /\ headFast = currentFastBlock

\* A stored header has the total difficulty that its chain adds up to, although
\* WriteBlock reads the parent's difficulty before it holds mu.
TdCorrect == \A b \in hdrs : td[b] = TotalDiff[b]

\* SetHead never finds its own new head unloadable, which would make
\* loadLastState call Reset and wait for the mutex SetHead holds.
NeverWedged == ~wedged

\* Only SetHead makes the head lighter: no import, mined block or restart does.
HeadNeverLighter ==
  [][ \/ TotalDiff[currentBlock'] >= TotalDiff[currentBlock]
      \/ \E h \in Rewinds : SetHead(h) ]_vars

\* Of all the blocks the node has stored, none is heavier than its head, as
\* long as nobody rewinds the chain (WriteBlock's fork choice).
HeaviestHead == \A b \in hdrs : TotalDiff[b] <= TotalDiff[currentBlock]

\* The importer alone keeps the transaction index on the canonical chain: reorg
\* removes what it abandons (TxDifference, DeleteTransaction, DeleteReceipt).  With
\* a miner beside it that is not so, see ForkReceiptsDeleted.
IndexOnChain ==
  \A t \in Tx : /\ lookup[t] # NoBlock => lookup[t] \in Chain[currentBlock]
                /\ receipt[t] # NoBlock => receipt[t] \in Chain[currentBlock]

\* The heaviest valid chain on offer becomes the canonical one for good,
\* blocks from the future and blocks offered before their parents included.
HeaviestAdopted ==
  <>[](\A b \in Blocks :
         Chain[b] \cap (BadHashes \cup BadHeaders \cup BadBlocks) = {}
           => TotalDiff[b] <= TotalDiff[currentBlock])

\* A valid block set aside for the future is stored and leaves the queue in the
\* end, also when it arrived before its parent, or when it or its parent was
\* evicted and has to be offered again (procFutureBlocks, WriteBlock).
FutureBlocksImported ==
  \A b \in Blocks :
    Chain[b] \cap (BadHashes \cup BadHeaders \cup BadBlocks) = {}
      => (b \in futureBlocks ~> b \in hdrs /\ b \notin futureBlocks)

\* The chain a node holds that nobody rewinds is a ForkChoice: what WriteBlock
\* stores is accepted, and currentBlock is the head.
Choice == INSTANCE ForkChoice WITH accepted <- hdrs, head <- currentBlock

ImplementsForkChoice == Choice!Spec
-----------------------------------------------------------------------------
(***************************************************************************)
(* What comments of the code say, stated as invariants.                    *)
(***************************************************************************)
\* "GetBlockByNumber always represents the canonical chain."
NumbersAreCanonical ==
  \A n \in 0..MaxNumber : canon[n] # NoBlock => canon[n] \in Chain[currentBlock]

\* SetHead: "In the case of headers, everything above the new head will be
\* deleted and the new one set."
SetHeadDeletesAbove ==
  [][ \A h \in Rewinds :
        SetHead(h) => \A x \in hdrs' \cap Chain[currentBlock] : Number[x] <= h ]_vars

\* reorg: "When transactions get deleted from the database that means the receipts
\* that were created in the fork must also be deleted".
ForkReceiptsDeleted ==
  (\A a \in Actors : stage[a] = "idle") =>
     \A t \in Tx : receipt[t] # NoBlock => receipt[t] \in Chain[currentBlock]
=============================================================================
