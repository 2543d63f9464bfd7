-------------------------- MODULE ForkChoiceProofs --------------------------
(***************************************************************************)
(* A node nobody rewinds keeps a heaviest block as its head, and implements *)
(* ForkChoice.                                                             *)
(***************************************************************************)
EXTENDS BlockChainProofs

-----------------------------------------------------------------------------
(***************************************************************************)
(* A node nobody rewinds implements ForkChoice.                            *)
(***************************************************************************)
\* The parents of the blocks being imported, sealed or written are stored.
Parents ==
  /\ \A a \in Actors : stage[a] # "idle" => Parent[blk[a]] \in hdrs
  /\ sealing # NoBlock => Parent[sealing] \in hdrs
  /\ \A b \in mined : Parent[b] \in hdrs

\* Without SetHead nothing is deleted, so every stored block and every block
\* being written has its whole chain stored, and reorg cannot fail.
ForwardInv ==
  /\ ChainInv /\ HeaviestHead
  /\ hdrs \subseteq bodies
  /\ \A b \in hdrs \ {Genesis} : Parent[b] \in hdrs
  /\ Parents

\* A set of blocks that holds every parent holds whole chains.
LEMMA StoredChain ==
  ASSUME NEW D \in SUBSET Blocks, \A b \in D \ {Genesis} : Parent[b] \in D
  PROVE  \A b \in D : Chain[b] \subseteq D
<1> DEFINE S == {b \in D : ~(Chain[b] \subseteq D)}
<1>1. SUFFICES ASSUME S # {} PROVE FALSE
  OBVIOUS
<1>2. PICK b \in S : \A c \in S : Number[b] <= Number[c]
  <2> S \subseteq Blocks
    OBVIOUS
  <2> HIDE DEF S
  <2> QED BY <1>1, LowestBlock
<1>3. b # Genesis /\ b \in Blocks
  BY <1>2, ChainAssumption
<1>4. /\ Parent[b] \in D /\ Number[b] = Number[Parent[b]] + 1
      /\ Number[Parent[b]] \in Nat
  BY <1>2, <1>3, TreeAssumption, BoundAssumption
<1>5. Chain[Parent[b]] \subseteq D
  BY <1>2, <1>4
<1>6. QED
  BY <1>2, <1>3, <1>5, ChainAssumption

\* Without SetHead, reorg finds every block on both branches.
LEMMA ReorgSucceeds ==
  ASSUME ForwardInv, NEW a \in Actors, stage[a] # "idle"
  PROVE  ~ReorgFails(blk[a])
<1>1. blk[a] \in Blocks \ {Genesis} /\ hdrs \subseteq Blocks
      /\ currentBlock \in Blocks
  BY ExternType DEF ForwardInv, ChainInv, TypeInv, TypeOK
<1>2. Chain[Parent[blk[a]]] \subseteq hdrs
  BY <1>1, StoredChain DEF ForwardInv, Parents
<1>3. Chain[blk[a]] = Chain[Parent[blk[a]]] \cup {blk[a]}
  BY <1>1, ChainAssumption
<1>4. Chain[currentBlock] \subseteq hdrs
  BY DEF ForwardInv, ChainInv, CanonicalChain, HasBlockAndState, HasBlock
<1>5. QED
  BY <1>2, <1>3, <1>4 DEF ForwardInv, ReorgFails, Walked

\* The genesis block alone is its own heaviest head.
LEMMA ForwardInit == Init => ForwardInv
<1> SUFFICES ASSUME Init PROVE ForwardInv
  OBVIOUS
<1>1. HeaviestHead
  BY DifficultyAssumption, TreeAssumption DEF Init, HeaviestHead
<1>2. QED
  BY <1>1, ChainInit DEF Init, ForwardInv, Parents

\* The parent of a block that passes the checks is stored.
LEMMA OkHasParent ==
  ASSUME NEW b, Verdict(b) = "ok"
  PROVE  Parent[b] \in hdrs
<1>1. ValidateBody(b) = "ok"
  BY DEF Verdict
<1>2. HasBlockAndState(Parent[b])
  BY <1>1 DEF ValidateBody
<1>3. QED
  BY <1>2 DEF HasBlockAndState, HasBlock

\* The two difficulties WriteBlock compares are the true total difficulties.
LEMMA WeightStored ==
  ASSUME ChainInv, NEW a \in Actors, stage[a] = "difficulty"
  PROVE  /\ ExternTd(a) = TotalDiff[blk[a]] /\ blk[a] \in Blocks \ {Genesis}
         /\ td[currentBlock] = TotalDiff[currentBlock]
         /\ TotalDiff[blk[a]] \in Nat /\ TotalDiff[currentBlock] \in Nat
         /\ hdrs \subseteq Blocks /\ \A x \in hdrs : TotalDiff[x] \in Nat
<1>1. currentBlock \in Chain[currentBlock] /\ currentBlock \in Blocks
      /\ hdrs \subseteq Blocks
  BY ChainBounds DEF ChainInv, TypeInv, TypeOK
<1>2. td[currentBlock] = TotalDiff[currentBlock]
  BY <1>1 DEF ChainInv, StoreInv, CanonicalChain, HasBlockAndState, HasBlock
<1>3. QED
  BY <1>1, <1>2, ExternTotal, DifficultyAssumption

\* A block WriteBlock leaves on a side chain is no heavier than the head.
LEMMA SideLighter ==
  ASSUME ChainInv, NEW a \in Actors, WriteSide(a)
  PROVE  TotalDiff[blk[a]] <= TotalDiff[currentBlock]
<1>1. /\ stage[a] = "difficulty"
      /\ ~Adopts(a) \/ ExternTd(a) = td[currentBlock]
  BY DEF WriteSide
<1>2. QED
  BY <1>1, WeightStored DEF Adopts

\* Import, mining and restarts preserve the forward invariant.
LEMMA ForwardStep == ForwardInv /\ [ForwardNext]_vars => ForwardInv'
<1> SUFFICES ASSUME ForwardInv, [ForwardNext]_vars PROVE ForwardInv'
  OBVIOUS
<1>1. ChainInv /\ ChainInv'
  BY ChainStep DEF ForwardInv, ForwardNext, Next
<1> DEFINE Still == UNCHANGED <<hdrs, bodies, currentBlock>>
<1>2. SUFFICES \/ Still /\ Parents'
               \/ /\ Parents' /\ HeaviestHead'
                  /\ \E b \in Blocks : /\ hdrs' = hdrs \cup {b}
                                       /\ bodies' = bodies \cup {b}
                                       /\ Parent[b] \in hdrs
  BY <1>1 DEF ForwardInv, HeaviestHead
<1>3. /\ stage \in [Actors -> Stages]
      /\ blk \in [Actors -> (Blocks \ {Genesis}) \cup {NoBlock}]
  BY <1>1 DEF ChainInv, TypeInv, TypeOK
<1>4. ASSUME NEW chain \in Batches, StartInsert(chain) PROVE Still /\ Parents'
  BY <1>4 DEF StartInsert, ForwardInv, Parents, store, heads, async, mining
<1>5. CASE StartFutureRound \/ InsertFuture
  BY <1>5 DEF StartFutureRound, InsertFuture, ForwardInv, Parents, store, heads, procs,
     mining
<1>6. CASE VerifyHeaders \/ SkipKnown \/ QueueFuture \/ RejectBlock
  BY <1>6 DEF VerifyHeaders, SkipKnown, QueueFuture, RejectBlock, ForwardInv, Parents,
     store, heads, async, mining
<1>7. CASE AcceptBody
  <2>1. PICK b \in Blocks \ {Genesis} :
          /\ Verdict(b) = "ok"
          /\ stage' = [stage EXCEPT !["importer"] = "validated"]
          /\ blk' = [blk EXCEPT !["importer"] = b]
    BY <1>7, Zenon DEF AcceptBody
  <2>2. Parent[b] \in hdrs
    BY <2>1, OkHasParent
  <2>3. Still /\ UNCHANGED mining
    BY <1>7 DEF AcceptBody, store, heads, async
  <2>4. Parents'
    BY <1>3, <2>1, <2>2, <2>3 DEF ForwardInv, Parents, mining
  <2> QED BY <2>3, <2>4
<1>8. CASE ProcessBlock \/ WriteBlockReceipts
  BY <1>3, <1>8 DEF ProcessBlock, WriteBlockReceipts, ForwardInv, Parents, heads,
     async, mining
<1>9. ASSUME NEW b \in Blocks, CommitNewWork(b) PROVE Still /\ Parents'
  <2>1. Parent[b] \in hdrs
    BY <1>1, <1>9, ChainBounds, Zenon
       DEF CommitNewWork, ChainInv, TypeInv, TypeOK, CanonicalChain,
           HasBlockAndState, HasBlock
  <2>2. Still
    BY <1>9, Zenon DEF CommitNewWork, store, heads
  <2>3. Parents'
    BY <1>9, <2>1, <2>2 DEF CommitNewWork, ForwardInv, Parents, procs
  <2> QED BY <2>2, <2>3
<1>10. CASE Sealed
  BY <1>10 DEF Sealed, ForwardInv, Parents, store, heads, procs
<1>11. ASSUME NEW b \in Blocks, CommitMined(b) PROVE Still /\ Parents'
  BY <1>3, <1>11 DEF CommitMined, ForwardInv, Parents, heads
<1>12. ASSUME NEW b \in Blocks, WriteLateReceipts(b) PROVE Still /\ Parents'
  BY <1>12 DEF WriteLateReceipts, ForwardInv, Parents, heads, procs, mining
<1>13. CASE Tick
  BY <1>13 DEF Tick, ForwardInv, Parents, store, heads, procs, async, mining
<1>14. ASSUME NEW a \in Actors, ReadParentTd(a) PROVE Still /\ Parents'
  BY <1>3, <1>14 DEF ReadParentTd, ForwardInv, Parents, store, heads, async, mining
<1>15. ASSUME NEW a \in Actors, ParentTdMissing(a) \/ WriteTransactions(a)
       PROVE  Still /\ Parents'
  BY <1>3, <1>15
     DEF ParentTdMissing, WriteTransactions, Finish, ForwardInv, Parents, store,
         heads, async, mining
<1>16. ASSUME NEW a \in Actors, WriteCanonical(a)
       PROVE  /\ Parents' /\ HeaviestHead' /\ blk[a] \in Blocks
              /\ hdrs' = hdrs \cup {blk[a]} /\ bodies' = bodies \cup {blk[a]}
              /\ Parent[blk[a]] \in hdrs
  <2>1. Parent[blk[a]] \in hdrs
    BY <1>16 DEF WriteCanonical, ForwardInv, Parents
  <2>2. hdrs' = hdrs \cup {blk[a]} /\ bodies' = bodies \cup {blk[a]}
    BY <1>16, Zenon DEF WriteCanonical, StoreBlock
  <2>3. Parents'
    BY <1>3, <1>16, <2>2 DEF WriteCanonical, ForwardInv, Parents, async, mining
  <2>4. blk[a] \in Blocks
    BY <1>1, <1>16, ExternTotal DEF WriteCanonical
  <2>5. HeaviestHead'
    <3>1. stage[a] = "difficulty"
      BY <1>16 DEF WriteCanonical
    <3> QED BY <1>1, <1>16, <2>2, <3>1, CanonicalHeavier, WeightStored
               DEF ForwardInv, HeaviestHead
  <2> QED BY <2>1, <2>2, <2>3, <2>4, <2>5
<1>17. ASSUME NEW a \in Actors, WriteSide(a)
       PROVE  /\ Parents' /\ HeaviestHead' /\ blk[a] \in Blocks
              /\ hdrs' = hdrs \cup {blk[a]} /\ bodies' = bodies \cup {blk[a]}
              /\ Parent[blk[a]] \in hdrs
  <2>1. Parent[blk[a]] \in hdrs /\ stage[a] = "difficulty"
    BY <1>17 DEF WriteSide, ForwardInv, Parents
  <2>2. hdrs' = hdrs \cup {blk[a]} /\ bodies' = bodies \cup {blk[a]}
    BY <1>17 DEF WriteSide, StoreBlock
  <2>3. Parents'
    BY <1>3, <1>17, <2>2 DEF WriteSide, Finish, ForwardInv, Parents, mining
  <2>4. currentBlock' = currentBlock
    BY <1>17 DEF WriteSide, heads
  <2>5. TotalDiff[blk[a]] <= TotalDiff[currentBlock]
    BY <1>1, <1>17, SideLighter
  <2>6. HeaviestHead' /\ blk[a] \in Blocks
    BY <1>1, <2>1, <2>2, <2>4, <2>5, WeightStored DEF ForwardInv, HeaviestHead
  <2> QED BY <2>1, <2>2, <2>3, <2>6
<1>18. ASSUME NEW a \in Actors, WriteReorgFailed(a) PROVE FALSE
  BY <1>18, ReorgSucceeds DEF WriteReorgFailed
<1>19. CASE Restart
  <2>1. Still
    BY <1>1, <1>19, RestartStep DEF Quiet, heads
  <2>2. Parents'
    BY <1>19 DEF Restart, Parents
  <2> QED BY <2>1, <2>2
<1>20. CASE UNCHANGED vars
  BY <1>20 DEF vars, ForwardInv, Parents, store, heads, procs, async, mining
<1>21. QED
  BY <1>4, <1>5, <1>6, <1>7, <1>8, <1>9, <1>10, <1>11, <1>12, <1>13, <1>14,
     <1>15, <1>16, <1>17, <1>18, <1>19, <1>20 DEF ForwardNext, Import, Mine, Write

\* As long as nobody rewinds the chain, no stored block outweighs the head.
THEOREM HeaviestHeadHolds == ForwardSpec => []HeaviestHead
<1>1. ForwardInv => HeaviestHead
  BY DEF ForwardInv
<1>2. QED
  BY <1>1, ForwardInit, ForwardStep, PTL DEF ForwardSpec

\* Every step is one of the abstract fork choice or leaves its state alone.
LEMMA RefinementStep ==
  ASSUME ForwardInv, [ForwardNext]_vars
  PROVE  [Choice!Next]_<<hdrs, currentBlock>>
<1>1. ChainInv /\ [Next]_vars
  BY DEF ForwardInv, ForwardNext, Next
<1>2. ASSUME NEW a \in Actors, WriteCanonical(a) \/ WriteSide(a)
      PROVE  [Choice!Next]_<<hdrs, currentBlock>>
  <2>1. stage[a] = "difficulty" /\ Parent[blk[a]] \in hdrs
    BY <1>2, Zenon DEF WriteCanonical, WriteSide, ForwardInv, Parents
  <2>2. hdrs' = hdrs \cup {blk[a]}
    BY <1>2, Zenon DEF WriteCanonical, WriteSide, StoreBlock
  <2>3. \/ currentBlock' = blk[a] /\ TotalDiff[blk[a]] >= TotalDiff[currentBlock]
        \/ /\ currentBlock' = currentBlock
           /\ TotalDiff[blk[a]] <= TotalDiff[currentBlock]
    BY <1>1, <1>2, CanonicalHeavier, SideLighter, Zenon DEF WriteSide, heads
  <2>4. blk[a] \in Blocks \ {Genesis} /\ TotalDiff[blk[a]] \in Nat
        /\ TotalDiff[currentBlock] \in Nat
    BY <1>1, <2>1, WeightStored
  <2>5. CASE blk[a] \notin hdrs
    BY <2>1, <2>2, <2>3, <2>4, <2>5 DEF Choice!Next, Choice!Accept
  <2>6. CASE blk[a] \in hdrs
    <3>1. TotalDiff[blk[a]] <= TotalDiff[currentBlock]
      BY <2>6 DEF ForwardInv, HeaviestHead
    <3> QED BY <2>2, <2>3, <2>4, <2>6, <3>1 DEF Choice!Next, Choice!Switch
  <2> QED BY <2>5, <2>6
<1>3. ASSUME NEW a \in Actors, Write(a) PROVE [Choice!Next]_<<hdrs, currentBlock>>
  <2>1. ~WriteReorgFailed(a)
    BY ReorgSucceeds, Zenon DEF WriteReorgFailed
  <2>2. CASE ReadParentTd(a) \/ ParentTdMissing(a) \/ WriteTransactions(a)
    BY <2>2, Zenon DEF ReadParentTd, ParentTdMissing, WriteTransactions, store, heads
  <2> QED BY <1>2, <1>3, <2>1, <2>2 DEF Write
<1>4. CASE Restart
  BY <1>1, <1>4, RestartStep, SMTT(30) DEF Quiet, heads
<1>5. CASE Import \/ Mine \/ Tick
  BY <1>5, Zenon DEF Import, Mine, Tick, StartInsert, StartFutureRound, InsertFuture,
     VerifyHeaders, SkipKnown, QueueFuture, RejectBlock, AcceptBody, ProcessBlock,
     WriteBlockReceipts, CommitNewWork, Sealed, CommitMined, WriteLateReceipts, store,
     heads
<1>6. CASE UNCHANGED vars
  BY <1>6 DEF vars, store, heads
<1>7. QED
  BY <1>3, <1>4, <1>5, <1>6 DEF ForwardNext

\* Importing, mining and restarting, in every interleaving, is choosing a
\* heaviest one of the accepted blocks.
THEOREM Refinement == ForwardSpec => ImplementsForkChoice
<1>1. Init => Choice!Init
  BY DEF Init, Choice!Init
<1>2. QED
  BY <1>1, ForwardInit, ForwardStep, RefinementStep, PTL
     DEF ForwardSpec, ImplementsForkChoice, Choice!Spec
=============================================================================
