------------------------ MODULE BlockChainTypeProofs ------------------------
(***************************************************************************)
(* The block tree, and the types of BlockChain, for every block tree.      *)
(***************************************************************************)
EXTENDS BlockChain, WellFoundedInduction, TLAPS

-----------------------------------------------------------------------------
(***************************************************************************)
(* The block tree.                                                         *)
(***************************************************************************)
\* A nonempty set of naturals has a least element.
LEMMA NatLeast ==
  ASSUME NEW T, T \subseteq Nat, T # {}
  PROVE  \E x \in T : \A y \in T : x <= y
<1>1. PICK x \in T : \A y \in T : ~(<<y, x>> \in OpToRel(<, Nat))
  BY NatLessThanWellFounded, WFMin, Zenon
<1>2. \A y \in T : ~(y < x)
  BY <1>1, Zenon DEF OpToRel
<1>3. QED
  BY <1>2

\* A nonempty set of blocks has one with the lowest number.
LEMMA LowestBlock ==
  ASSUME NEW S, S \subseteq Blocks, S # {}
  PROVE  \E b \in S : \A c \in S : Number[b] <= Number[c]
<1> DEFINE T == {Number[b] : b \in S}
<1>1. T \subseteq Nat /\ T # {}
  BY TreeAssumption, BoundAssumption
<1>2. PICK n \in T : \A y \in T : n <= y
  <2> HIDE DEF T
  <2> QED BY <1>1, NatLeast, Zenon
<1>3. QED
  BY <1>2

\* What a block reaches through parent hashes includes itself and Genesis, and
\* nothing with a higher number.
LEMMA ChainBounds ==
  \A b \in Blocks : /\ b \in Chain[b] /\ Genesis \in Chain[b]
                    /\ \A x \in Chain[b] : Number[x] <= Number[b]
<1> DEFINE P(b) == /\ b \in Chain[b] /\ Genesis \in Chain[b]
                   /\ \A x \in Chain[b] : Number[x] <= Number[b]
           S == {b \in Blocks : ~P(b)}
<1>1. SUFFICES ASSUME S # {} PROVE FALSE
  OBVIOUS
<1>2. PICK b \in S : \A c \in S : Number[b] <= Number[c]
  <2> S \subseteq Blocks
    OBVIOUS
  <2> HIDE DEF S
  <2> QED BY <1>1, LowestBlock
<1>3. b # Genesis
  BY <1>2, TreeAssumption, ChainAssumption
<1>4. Parent[b] \in Blocks /\ Number[b] = Number[Parent[b]] + 1
      /\ Number[b] \in Nat /\ Number[Parent[b]] \in Nat
  BY <1>2, <1>3, TreeAssumption, BoundAssumption
<1>5. P(Parent[b])
  BY <1>2, <1>4
<1>6. P(b)
  <2>1. Chain[b] = Chain[Parent[b]] \cup {b}
    BY <1>2, <1>3, ChainAssumption
  <2>2. \A x \in Chain[Parent[b]] : Number[x] \in Nat
    BY <1>4, TreeAssumption, ChainAssumption, BoundAssumption
  <2> QED BY <2>1, <2>2, <1>4, <1>5
<1>7. QED
  BY <1>2, <1>6

\* The chain of an ancestor is part of the chain.
LEMMA ChainClosed ==
  \A b \in Blocks : \A x \in Chain[b] : Chain[x] \subseteq Chain[b]
<1> DEFINE P(b) == \A x \in Chain[b] : Chain[x] \subseteq Chain[b]
           S == {b \in Blocks : ~P(b)}
<1>1. SUFFICES ASSUME S # {} PROVE FALSE
  OBVIOUS
<1>2. PICK b \in S : \A c \in S : Number[b] <= Number[c]
  <2> S \subseteq Blocks
    OBVIOUS
  <2> HIDE DEF S
  <2> QED BY <1>1, LowestBlock
<1>3. b # Genesis
  BY <1>2, TreeAssumption, ChainAssumption
<1>4. Parent[b] \in Blocks /\ Number[b] = Number[Parent[b]] + 1
      /\ Number[b] \in Nat /\ Number[Parent[b]] \in Nat
  BY <1>2, <1>3, TreeAssumption, BoundAssumption
<1>5. P(Parent[b])
  BY <1>2, <1>4
<1>6. P(b)
  BY <1>2, <1>3, <1>5, ChainAssumption
<1>7. QED
  BY <1>2, <1>6

\* Of two blocks of a chain, the one with the lower number is an ancestor of the
\* other; in particular a chain holds one block per number.
LEMMA ChainLinear ==
  \A b \in Blocks : \A x, y \in Chain[b] : Number[x] <= Number[y] => x \in Chain[y]
<1> DEFINE P(b) == \A x, y \in Chain[b] : Number[x] <= Number[y] => x \in Chain[y]
           S == {b \in Blocks : ~P(b)}
<1>1. SUFFICES ASSUME S # {} PROVE FALSE
  OBVIOUS
<1>2. PICK b \in S : \A c \in S : Number[b] <= Number[c]
  <2> S \subseteq Blocks
    OBVIOUS
  <2> HIDE DEF S
  <2> QED BY <1>1, LowestBlock
<1>3. b # Genesis
  BY <1>2, TreeAssumption, ChainAssumption
<1>4. Parent[b] \in Blocks /\ Number[b] = Number[Parent[b]] + 1
      /\ Number[b] \in Nat /\ Number[Parent[b]] \in Nat
  BY <1>2, <1>3, TreeAssumption, BoundAssumption
<1>5. P(Parent[b])
  BY <1>2, <1>4
<1>6. P(b)
  <2>1. Chain[b] = Chain[Parent[b]] \cup {b}
    BY <1>2, <1>3, ChainAssumption
  <2>2. \A x \in Chain[Parent[b]] : Number[x] \in Nat /\ Number[x] < Number[b]
    BY <1>4, ChainBounds, TreeAssumption, ChainAssumption, BoundAssumption
  <2> QED BY <2>1, <2>2, <1>2, <1>4, <1>5
<1>7. QED
  BY <1>2, <1>6

\* A chain has one block per number.
LEMMA ChainNumbers ==
  \A b \in Blocks : \A x, y \in Chain[b] : Number[x] = Number[y] => x = y
<1> DEFINE P(b) == \A x, y \in Chain[b] : Number[x] = Number[y] => x = y
           S == {b \in Blocks : ~P(b)}
<1>1. SUFFICES ASSUME S # {} PROVE FALSE
  OBVIOUS
<1>2. PICK b \in S : \A c \in S : Number[b] <= Number[c]
  <2> S \subseteq Blocks
    OBVIOUS
  <2> HIDE DEF S
  <2> QED BY <1>1, LowestBlock
<1>3. b # Genesis
  BY <1>2, TreeAssumption, ChainAssumption
<1>4. Parent[b] \in Blocks /\ Number[b] = Number[Parent[b]] + 1
      /\ Number[b] \in Nat /\ Number[Parent[b]] \in Nat
  BY <1>2, <1>3, TreeAssumption, BoundAssumption
<1>5. P(Parent[b])
  BY <1>2, <1>4
<1>6. P(b)
  <2>1. Chain[b] = Chain[Parent[b]] \cup {b}
    BY <1>2, <1>3, ChainAssumption
  <2>2. \A x \in Chain[Parent[b]] : Number[x] \in Nat /\ Number[x] < Number[b]
    BY <1>4, ChainBounds, TreeAssumption, ChainAssumption, BoundAssumption
  <2> QED BY <2>1, <2>2, <1>4, <1>5
<1>7. QED
  BY <1>2, <1>6

\* Between a block and one of its ancestors lies a child of that ancestor.
LEMMA ChainDense ==
  \A b \in Blocks : \A p \in Chain[b] :
     p # b => \E z \in Chain[b] : z # Genesis /\ Parent[z] = p
<1> DEFINE P(b) == \A p \in Chain[b] :
                     p # b => \E z \in Chain[b] : z # Genesis /\ Parent[z] = p
           S == {b \in Blocks : ~P(b)}
<1>1. SUFFICES ASSUME S # {} PROVE FALSE
  OBVIOUS
<1>2. PICK b \in S : \A c \in S : Number[b] <= Number[c]
  <2> S \subseteq Blocks
    OBVIOUS
  <2> HIDE DEF S
  <2> QED BY <1>1, LowestBlock
<1>3. b # Genesis
  BY <1>2, TreeAssumption, ChainAssumption
<1>4. Parent[b] \in Blocks /\ Number[b] = Number[Parent[b]] + 1
      /\ Number[b] \in Nat /\ Number[Parent[b]] \in Nat
  BY <1>2, <1>3, TreeAssumption, BoundAssumption
<1>5. P(Parent[b])
  BY <1>2, <1>4
<1>6. Chain[b] = Chain[Parent[b]] \cup {b}
  BY <1>2, <1>3, ChainAssumption
<1>7. P(b)
  BY <1>3, <1>5, <1>6
<1>8. QED
  BY <1>2, <1>7

\* An ancestor is strictly lighter.
LEMMA ChainLighter ==
  \A b \in Blocks : \A x \in Chain[b] : x # b => TotalDiff[x] < TotalDiff[b]
<1> DEFINE P(b) == \A x \in Chain[b] : x # b => TotalDiff[x] < TotalDiff[b]
           S == {b \in Blocks : ~P(b)}
<1>1. SUFFICES ASSUME S # {} PROVE FALSE
  OBVIOUS
<1>2. PICK b \in S : \A c \in S : Number[b] <= Number[c]
  <2> S \subseteq Blocks
    OBVIOUS
  <2> HIDE DEF S
  <2> QED BY <1>1, LowestBlock
<1>3. b # Genesis
  BY <1>2, TreeAssumption, ChainAssumption
<1>4. Parent[b] \in Blocks /\ Number[b] = Number[Parent[b]] + 1
      /\ Number[b] \in Nat /\ Number[Parent[b]] \in Nat
  BY <1>2, <1>3, TreeAssumption, BoundAssumption
<1>5. P(Parent[b])
  BY <1>2, <1>4
<1>6. Chain[b] = Chain[Parent[b]] \cup {b}
  BY <1>2, <1>3, ChainAssumption
<1>7. /\ TotalDiff[b] \in Nat /\ TotalDiff[Parent[b]] \in Nat
      /\ TotalDiff[b] > TotalDiff[Parent[b]]
  BY <1>2, <1>3, <1>4, TreeAssumption, DifficultyAssumption
<1>8. \A x \in Chain[Parent[b]] : TotalDiff[x] \in Nat
  BY <1>4, ChainAssumption, DifficultyAssumption
<1>9. P(b)
  BY <1>5, <1>6, <1>7, <1>8
<1>10. QED
  BY <1>2, <1>9
-----------------------------------------------------------------------------
(***************************************************************************)
(* Type correctness.                                                       *)
(***************************************************************************)
\* An actor that is not idle holds a block.
Busy == \A a \in Actors : stage[a] # "idle" => blk[a] # NoBlock

TypeInv == TypeOK /\ Busy

\* The header SetHead stops at is on the chain it walks down.
LEMMA HeaderAtType ==
  ASSUME NEW from \in Blocks, NEW h
  PROVE  HeaderAt(from, h) \in Chain[from] /\ HeaderAt(from, h) \in Blocks
<1>1. HeaderPath(from) \subseteq Chain[from] /\ Genesis \in Chain[from]
      /\ Chain[from] \subseteq Blocks
  BY ChainBounds, ChainAssumption DEF HeaderPath
<1>2. QED
  BY <1>1 DEF HeaderAt

\* The goroutines of a node that has just started.
LEMMA FreshType ==
  /\ <<>> \in Seq(Blocks \ {Genesis}) /\ 1 \in Nat \ {0}
  /\ NoResults \in [1..MaxBatch -> Results]
  /\ [a \in Actors |-> "idle"] \in [Actors -> Stages]
  /\ [a \in Actors |-> NoBlock] \in [Actors -> (Blocks \ {Genesis}) \cup {NoBlock}]
  /\ [a \in Actors |-> 0] \in [Actors -> Nat]
BY DEF Stages, Results, NoResults

\* Both ways out of the loop body leave a well-formed batch and index.
LEMMA LoopType ==
  ASSUME batch \in Seq(Blocks \ {Genesis}), pos \in Nat \ {0},
         results \in [1..MaxBatch -> Results],
         Continue \/ Return
  PROVE  /\ batch' \in Seq(Blocks \ {Genesis}) /\ pos' \in Nat \ {0}
         /\ results' \in [1..MaxBatch -> Results]
<1>1. CASE Return
  BY <1>1, FreshType DEF Return
<1>2. CASE Continue /\ pos < Len(batch)
  BY <1>2 DEF Continue
<1>3. CASE Continue /\ ~(pos < Len(batch))
  BY <1>1, <1>3 DEF Continue
<1>4. QED
  BY <1>1, <1>2, <1>3

\* Leaving WriteBlock, with the next block of the batch or with none, keeps the
\* types.
LEMMA FinishType ==
  ASSUME TypeInv, NEW a \in Actors, NEW ok, Finish(a, ok)
  PROVE  /\ batch' \in Seq(Blocks \ {Genesis}) /\ pos' \in Nat \ {0}
         /\ results' \in [1..MaxBatch -> Results]
         /\ stage' \in [Actors -> Stages]
         /\ blk' \in [Actors -> (Blocks \ {Genesis}) \cup {NoBlock}]
         /\ ptd' \in [Actors -> Nat] /\ Busy'
<1>1. /\ batch' \in Seq(Blocks \ {Genesis}) /\ pos' \in Nat \ {0}
      /\ results' \in [1..MaxBatch -> Results]
  <2>1. (batch' = batch /\ pos' = pos /\ results' = results) \/ Continue \/ Return
    BY DEF Finish, Actors, loop
  <2>2. /\ batch \in Seq(Blocks \ {Genesis}) /\ pos \in Nat \ {0}
        /\ results \in [1..MaxBatch -> Results]
    BY DEF TypeInv, TypeOK
  <2> QED BY <2>1, <2>2, LoopType
<1>2. /\ stage' \in [Actors -> Stages]
      /\ blk' \in [Actors -> (Blocks \ {Genesis}) \cup {NoBlock}]
      /\ ptd' \in [Actors -> Nat] /\ Busy'
  BY DEF Finish, TypeInv, TypeOK, Busy, Stages
<1>3. QED
  BY <1>1, <1>2

\* The block WriteBlock works on and its total difficulty.
LEMMA ExternType ==
  ASSUME TypeInv, NEW a \in Actors, stage[a] # "idle"
  PROVE  /\ blk[a] \in Blocks \ {Genesis} /\ ExternTd(a) \in Nat
         /\ Parent[blk[a]] \in Blocks
<1>1. blk[a] \in Blocks \ {Genesis}
  BY DEF TypeInv, TypeOK, Busy
<1>2. ptd[a] \in Nat
  BY DEF TypeInv, TypeOK
<1>3. Difficulty[blk[a]] \in Nat /\ Parent[blk[a]] \in Blocks
  BY <1>1, TreeAssumption
<1>4. QED
  BY <1>1, <1>2, <1>3 DEF ExternTd

\* The initial state is well typed.
LEMMA TypeInit == Init => TypeInv
<1> SUFFICES ASSUME Init PROVE TypeInv
  OBVIOUS
<1>1. /\ td \in [Blocks -> Nat \cup {NoTd}]
      /\ canon \in [0..MaxNumber -> Blocks \cup {NoBlock}]
      /\ lookup \in [Tx -> Blocks \cup {NoBlock}]
      /\ receipt \in [Tx -> Blocks \cup {NoBlock}]
  BY TreeAssumption DEF Init
<1>2. Busy
  BY DEF Init, Busy
<1>3. wedged \in BOOLEAN
  BY Zenon DEF Init
<1>4. QED
  BY <1>1, <1>2, <1>3, FreshType, TreeAssumption DEF Init, TypeInv, TypeOK

\* Every action keeps the types.
LEMMA TypeStep == TypeInv /\ [Next]_vars => TypeInv'
<1> SUFFICES ASSUME TypeInv, [Next]_vars PROVE TypeInv'
  OBVIOUS
<1> USE DEF TypeInv, TypeOK, Busy, Stages, Actors
<1>1. ASSUME NEW chain \in Batches, StartInsert(chain) PROVE TypeInv'
  <2>1. chain \in Seq(Blocks \ {Genesis})
    BY <1>1, BoundAssumption DEF Batches
  <2> QED BY <1>1, <2>1, FreshType DEF StartInsert, store, keys, index, heads, async,
             mining
<1>2. CASE StartFutureRound
  BY <1>2 DEF StartFutureRound, store, keys, index, heads, procs, loop, mining
<1>3. CASE InsertFuture
  BY <1>3, FreshType DEF InsertFuture, store, keys, index, heads, mining
<1>4. CASE VerifyHeaders
  <2>1. PICK i \in 1..Len(batch) :
           /\ results[i] = "pending"
           /\ results' = [results EXCEPT ![i] = VerifyHeader(i)]
    BY <1>4 DEF VerifyHeaders
  <2>2. VerifyHeader(i) \in Results
    BY DEF VerifyHeader, Results
  <2>3. results' \in [1..MaxBatch -> Results]
    BY <2>1, <2>2
  <2> QED BY <1>4, <2>3 DEF VerifyHeaders, store, keys, index, heads, async, mining
<1>5. CASE SkipKnown
  BY <1>5, LoopType, SMTT(30) DEF SkipKnown, store, keys, index, heads, async, mining
<1>6. CASE QueueFuture
  BY <1>6, LoopType DEF QueueFuture, AddFuture, store, keys, index, heads, async,
     mining
<1>7. CASE RejectBlock
  BY <1>7, FreshType DEF RejectBlock, Return, store, keys, index, heads, async, mining
<1>8. CASE AcceptBody
  BY <1>8, BoundAssumption DEF AcceptBody, store, keys, index, heads, loop, async, mining
<1>9. CASE ProcessBlock
  BY <1>9, BoundAssumption DEF ProcessBlock, keys, index, heads, loop, async, mining
<1>10. CASE WriteBlockReceipts
  BY <1>10, BoundAssumption DEF WriteBlockReceipts, keys, index, heads, loop, async,
     mining
<1>11. ASSUME NEW b \in Blocks, CommitNewWork(b) PROVE TypeInv'
  BY <1>11, BoundAssumption
     DEF CommitNewWork, store, keys, index, heads, procs, loop
<1>12. CASE Sealed
  BY <1>12 DEF Sealed, store, keys, index, heads, procs, loop
<1>13. ASSUME NEW b \in Blocks, CommitMined(b) PROVE TypeInv'
  BY <1>13, BoundAssumption DEF CommitMined, keys, index, heads, loop
<1>14. ASSUME NEW b \in Blocks, WriteLateReceipts(b) PROVE TypeInv'
  BY <1>14 DEF WriteLateReceipts, keys, index, heads, procs, loop, mining
<1>15. CASE Tick
  BY <1>15 DEF Tick, store, keys, index, heads, procs, loop, async, mining
<1>16. ASSUME NEW a \in Actors, ReadParentTd(a) PROVE TypeInv'
  <2>1. td[Parent[blk[a]]] \in Nat
    BY <1>16, TreeAssumption, BoundAssumption, Zenon DEF ReadParentTd
  <2> QED BY <1>16, <2>1 DEF ReadParentTd, store, keys, index, heads, loop, async,
             mining
<1>17. ASSUME NEW a \in Actors, ParentTdMissing(a) PROVE TypeInv'
  BY <1>17, FinishType, Zenon DEF ParentTdMissing, store, keys, index, heads,
     async, mining
<1>18. ASSUME NEW a \in Actors, WriteCanonical(a) PROVE TypeInv'
  <2>1. blk[a] \in Blocks \ {Genesis} /\ ExternTd(a) \in Nat
    BY <1>18, ExternType, Zenon DEF WriteCanonical
  <2>2. NewChain(blk[a]) \subseteq Blocks /\ ReorgChain(blk[a]) \subseteq Blocks
    BY <2>1, ChainAssumption DEF NewChain, ReorgChain
  <2>3. canon' \in [0..MaxNumber -> Blocks \cup {NoBlock}]
    BY <1>18, <2>2 DEF WriteCanonical, InsertHead
  <2>4. /\ headBlock' \in Blocks /\ headHeader' \in Blocks /\ headFast' \in Blocks
        /\ currentBlock' \in Blocks /\ currentHeader' \in Blocks
        /\ currentFastBlock' \in Blocks
    BY <1>18, <2>1, <2>2 DEF WriteCanonical, InsertHead, ForcesHeads
  <2>5. \A table \in [Tx -> Blocks \cup {NoBlock}] : \A written :
          Reindex(table, blk[a], written) \in [Tx -> Blocks \cup {NoBlock}]
    BY <2>2 DEF Reindex, Carrier
  <2>6. /\ lookup' \in [Tx -> Blocks \cup {NoBlock}]
        /\ receipt' \in [Tx -> Blocks \cup {NoBlock}]
    BY <1>18, <2>5, SMTT(30) DEF WriteCanonical, ReorgIndex, index
  <2> QED BY <1>18, <2>1, <2>3, <2>4, <2>6, SMTT(30)
             DEF WriteCanonical, StoreBlock, Dequeue, loop, async, mining
<1>19. ASSUME NEW a \in Actors, WriteReorgFailed(a) PROVE TypeInv'
  <2>1. blk[a] \in Blocks \ {Genesis} /\ ExternTd(a) \in Nat
    BY <1>19, ExternType DEF WriteReorgFailed
  <2> QED BY <1>19, <2>1, FinishType, Zenon DEF WriteReorgFailed, StoreBlock, keys,
             index, heads, async, mining
<1>20. ASSUME NEW a \in Actors, WriteSide(a) PROVE TypeInv'
  <2>1. blk[a] \in Blocks \ {Genesis} /\ ExternTd(a) \in Nat
    BY <1>20, ExternType DEF WriteSide
  <2> QED BY <1>20, <2>1, FinishType, Zenon DEF WriteSide, StoreBlock, Dequeue, DeferReceipts,
             keys, index, heads, mining
<1>21. ASSUME NEW a \in Actors, WriteTransactions(a) PROVE TypeInv'
  <2>1. blk[a] \in Blocks \ {Genesis}
    BY <1>21, SMTT(30) DEF WriteTransactions
  <2> QED BY <1>21, <2>1, FinishType, Zenon DEF WriteTransactions, DeferReceipts,
             store, keys, heads, mining
<1>22. ASSUME NEW h \in Rewinds, SetHead(h) PROVE TypeInv'
  <2>1. HeaderAt(currentHeader, h) \in Blocks
    BY HeaderAtType, Zenon
  <2>2. \A b, header \in Blocks : \A loadable :
          RewoundHead(b, header, loadable) \in Blocks
    BY TreeAssumption DEF RewoundHead
  <2>3. /\ headBlock' \in Blocks /\ headHeader' \in Blocks /\ headFast' \in Blocks
        /\ currentBlock' \in Blocks /\ currentHeader' \in Blocks
        /\ currentFastBlock' \in Blocks /\ wedged' \in BOOLEAN
    BY <1>22, <2>1, <2>2, TreeAssumption DEF SetHead
  <2>4. /\ hdrs' \subseteq Blocks /\ bodies' \subseteq Blocks
        /\ td' \in [Blocks -> Nat \cup {NoTd}]
        /\ canon' \in [0..MaxNumber -> Blocks \cup {NoBlock}]
    BY <1>22, Zenon DEF SetHead, RewindHeaders
  <2>5. futureBlocks' = {} /\ UNCHANGED <<states, blockReceipts, index, now, procs, async>>
    BY <1>22 DEF SetHead
  <2> QED BY <2>3, <2>4, <2>5 DEF index, procs, loop, async, mining
<1>23. CASE Restart
  <2>1. /\ headBlock' \in Blocks /\ headHeader' \in Blocks /\ headFast' \in Blocks
        /\ currentBlock' \in Blocks /\ currentHeader' \in Blocks
        /\ currentFastBlock' \in Blocks
    BY <1>23, TreeAssumption, Zenon DEF Restart
  <2>2. /\ hdrs' \subseteq Blocks /\ bodies' \subseteq Blocks
        /\ states' \subseteq Blocks /\ blockReceipts' \subseteq Blocks
        /\ td' \in [Blocks -> Nat \cup {NoTd}]
        /\ canon' \in [0..MaxNumber -> Blocks \cup {NoBlock}]
    BY <1>23, Zenon DEF Restart, RewindHeaders, store
  <2>3. Busy'
    BY <1>23 DEF Restart
  <2>4. wedged' \in BOOLEAN
    BY <1>23, Zenon DEF Restart
  <2> QED BY <1>23, <2>1, <2>2, <2>3, <2>4, FreshType DEF Restart, index
<1>24. CASE UNCHANGED vars
  BY <1>24 DEF vars, store, keys, index, heads, procs, loop, async, mining
<1>25. QED
  BY <1>1, <1>2, <1>3, <1>4, <1>5, <1>6, <1>7, <1>8, <1>9, <1>10, <1>11, <1>12,
     <1>13, <1>14, <1>15, <1>16, <1>17, <1>18, <1>19, <1>20, <1>21, <1>22, <1>23,
     <1>24, Zenon
     DEF Next, Import, Mine, Write, ProcessPanics

\* Every variable keeps its type, and an actor inside WriteBlock has a block.
THEOREM TypeCorrect == Spec => []TypeOK
<1>1. TypeInv => TypeOK
  BY DEF TypeInv
<1>2. QED
  BY <1>1, TypeInit, TypeStep, PTL DEF Spec
=============================================================================
