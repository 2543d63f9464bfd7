-------------------------- MODULE BlockChainProofs --------------------------
(***************************************************************************)
(* The canonical chain: what imports, mining, SetHead and restarts preserve *)
(* for every block tree.                                                   *)
(***************************************************************************)
EXTENDS BlockChainStepProofs

\* Every action of every actor preserves the inductive invariant.
LEMMA ChainStep == ChainInv /\ [Next]_vars => ChainInv'
<1> SUFFICES ASSUME ChainInv, [Next]_vars PROVE ChainInv'
  OBVIOUS
<1>1. TypeInv'
  BY TypeStep DEF ChainInv
<1>2. SUFFICES (Quiet /\ ProcInv') \/
               (StoreInv' /\ CanonicalChain' /\ HeadsOnChain' /\ NeverWedged'
                /\ ProcInv')
  BY <1>1, QuietStep DEF ChainInv
<1> USE DEF ChainInv
<1>3. ASSUME NEW chain \in Batches, StartInsert(chain) PROVE Quiet /\ ProcInv'
  BY <1>3 DEF StartInsert, Quiet, ProcInv, store, keys, heads
<1>4. CASE StartFutureRound \/ InsertFuture
  BY <1>4 DEF StartFutureRound, InsertFuture, Quiet, ProcInv, store, keys, heads,
     procs
<1>5. CASE VerifyHeaders \/ SkipKnown \/ QueueFuture \/ RejectBlock
  BY <1>5 DEF VerifyHeaders, SkipKnown, QueueFuture, RejectBlock, Quiet, ProcInv,
     store, keys, heads
<1>6. CASE AcceptBody
  <2>1. Quiet
    BY <1>6, Zenon DEF AcceptBody, Quiet, store, keys, heads
  <2>2. ProcInv'
    BY <1>6 DEF AcceptBody, ProcInv, TypeInv, TypeOK, store
  <2> QED BY <2>1, <2>2
<1>7. CASE ProcessBlock
  <2>1. Quiet
    BY <1>7, SMTT(30) DEF ProcessBlock, Quiet, keys, heads
  <2>2. ProcInv'
    BY <1>7 DEF ProcessBlock, ProcInv, TypeInv, TypeOK
  <2> QED BY <2>1, <2>2
<1>8. CASE WriteBlockReceipts
  <2>1. Quiet
    BY <1>8 DEF WriteBlockReceipts, Quiet, keys, heads
  <2>2. ProcInv'
    BY <1>8 DEF WriteBlockReceipts, ProcInv, TypeInv, TypeOK
  <2> QED BY <2>1, <2>2
<1>9. CASE Sealed \/ \E b \in Blocks : CommitNewWork(b)
  BY <1>9, Zenon DEF CommitNewWork, Sealed, Quiet, ProcInv, store, keys, heads, procs
<1>10. ASSUME NEW b \in Blocks, CommitMined(b) PROVE Quiet /\ ProcInv'
  <2>1. Quiet
    BY <1>10 DEF CommitMined, Quiet, keys, heads
  <2>2. ProcInv'
    BY <1>10 DEF CommitMined, ProcInv, TypeInv, TypeOK
  <2> QED BY <2>1, <2>2
<1>11. ASSUME NEW b \in Blocks, WriteLateReceipts(b) PROVE Quiet /\ ProcInv'
  BY <1>11, Zenon DEF WriteLateReceipts, Quiet, ProcInv, keys, heads, procs
<1>12. CASE Tick
  BY <1>12 DEF Tick, Quiet, ProcInv, store, keys, heads, procs
<1>13. ASSUME NEW a \in Actors, ReadParentTd(a) PROVE Quiet /\ ProcInv'
  <2>1. Quiet
    BY <1>13, Zenon DEF ReadParentTd, Quiet, store, keys, heads
  <2>2. td[Parent[blk[a]]] = TotalDiff[Parent[blk[a]]]
    BY <1>13, ExternType, SMTT(30) DEF ReadParentTd, StoreInv
  <2>3. ProcInv'
    BY <1>13, <2>2 DEF ReadParentTd, ProcInv, TypeInv, TypeOK, store
  <2> QED BY <2>1, <2>3, Zenon
<1>14. ASSUME NEW a \in Actors, ParentTdMissing(a) PROVE Quiet /\ ProcInv'
  BY <1>14, FinishProc, Zenon DEF ParentTdMissing, Quiet, store, keys, heads
<1>15. ASSUME NEW a \in Actors, WriteCanonical(a)
       PROVE  StoreInv' /\ CanonicalChain' /\ HeadsOnChain' /\ NeverWedged'
              /\ ProcInv'
  <2>1. StoreInv'
    BY <1>15, StoreBlockStep DEF WriteCanonical
  <2>2. ProcInv'
    BY <1>15, Zenon DEF WriteCanonical, StoreBlock, ProcInv, TypeInv, TypeOK
  <2>3. NeverWedged'
    BY <1>15 DEF WriteCanonical, NeverWedged
  <2> QED BY <1>15, <2>1, <2>2, <2>3, CanonicalStep
<1>16. ASSUME NEW a \in Actors, WriteReorgFailed(a) \/ WriteSide(a)
       PROVE  StoreInv' /\ CanonicalChain' /\ HeadsOnChain' /\ NeverWedged'
              /\ ProcInv'
  <2>1. StoreInv'
    BY <1>16, StoreBlockStep, Zenon DEF WriteReorgFailed, WriteSide
  <2>2. states' = states /\ \E ok : Finish(a, ok)
    BY <1>16, Zenon DEF WriteReorgFailed, WriteSide, StoreBlock
  <2>3. ProcInv'
    BY <2>2, FinishProc
  <2>4. /\ UNCHANGED <<canon, keys, heads, wedged, states>>
        /\ hdrs \subseteq hdrs' /\ bodies \subseteq bodies'
    BY <1>16, Zenon DEF WriteReorgFailed, WriteSide, StoreBlock
  <2>5. CanonicalChain'
    BY <2>4 DEF CanonicalChain, HasBlockAndState, HasBlock, heads
  <2>6. HeadsOnChain' /\ NeverWedged'
    BY <2>4 DEF HeadsOnChain, NeverWedged, keys, heads
  <2> QED BY <2>1, <2>3, <2>5, <2>6
<1>17. ASSUME NEW a \in Actors, WriteTransactions(a) PROVE Quiet /\ ProcInv'
  BY <1>17, FinishProc, Zenon DEF WriteTransactions, Quiet, store, keys, heads
<1>18. ASSUME NEW h \in Rewinds, SetHead(h)
       PROVE  StoreInv' /\ CanonicalChain' /\ HeadsOnChain' /\ NeverWedged'
              /\ ProcInv'
  BY <1>18, SetHeadStep, Zenon DEF SetHead, ProcInv, procs
<1>19. CASE Restart \/ ProcessPanics
  BY <1>19, RestartStep DEF ProcessPanics
<1>20. CASE UNCHANGED vars
  BY <1>20, Zenon DEF vars, Quiet, ProcInv, store, keys, heads, procs
<1>21. QED
  BY <1>3, <1>4, <1>5, <1>6, <1>7, <1>8, <1>9, <1>10, <1>11, <1>12, <1>13,
     <1>14, <1>15, <1>16, <1>17, <1>18, <1>19, <1>20 DEF Next, Import, Mine, Write

\* Whatever imports, mined blocks, failed writes, rewinds and restarts happen in
\* whatever order, the head's chain is stored and numbered, the three heads and
\* their keys stay on it, difficulties are right and SetHead cannot wait for
\* itself.
THEOREM CanonicalChainHolds ==
  Spec => [](CanonicalChain /\ HeadsOnChain /\ TdCorrect /\ NeverWedged)
<1>1. ChainInv => CanonicalChain /\ HeadsOnChain /\ TdCorrect /\ NeverWedged
  BY SMTT(30) DEF ChainInv, StoreInv, TdCorrect, TypeInv, TypeOK
<1>2. QED
  BY <1>1, ChainInit, ChainStep, PTL DEF Spec

\* A canonical write only moves the head to a block at least as heavy.
LEMMA CanonicalHeavier ==
  ASSUME ChainInv, NEW a \in Actors, WriteCanonical(a)
  PROVE  /\ currentBlock' = blk[a]
         /\ TotalDiff[blk[a]] >= TotalDiff[currentBlock]
<1>1. ExternTd(a) = TotalDiff[blk[a]] /\ blk[a] \in Blocks
  BY ExternTotal, Zenon DEF WriteCanonical
<1>2. currentBlock \in Blocks /\ currentBlock \in Chain[currentBlock]
  BY ChainBounds DEF ChainInv, TypeInv, TypeOK
<1>3. td[currentBlock] = TotalDiff[currentBlock]
  BY <1>2, Zenon DEF ChainInv, StoreInv, CanonicalChain, HasBlockAndState, HasBlock
<1>4. QED
  BY <1>1, <1>2, <1>3, DifficultyAssumption DEF WriteCanonical, InsertHead, Adopts

\* The steps that leave the head alone or put a block on top by its weight: all
\* but SetHead.
LEMMA HeadStep ==
  ASSUME ChainInv, [Next]_vars, ~\E h \in Rewinds : SetHead(h)
  PROVE  \/ currentBlock' = currentBlock
         \/ \E a \in Actors : WriteCanonical(a)
<1>1. ASSUME NEW a \in Actors, Write(a)
      PROVE  currentBlock' = currentBlock \/ WriteCanonical(a)
  BY <1>1, Zenon DEF Write, ReadParentTd, ParentTdMissing, WriteReorgFailed, WriteSide,
     WriteTransactions, heads
<1>2. CASE Restart \/ ProcessPanics
  BY <1>2, RestartStep DEF ProcessPanics, Quiet, heads
<1>3. CASE Import \/ Mine \/ Tick
  BY <1>3, Zenon DEF Import, Mine, Tick, StartInsert, StartFutureRound, InsertFuture,
     VerifyHeaders, SkipKnown, QueueFuture, RejectBlock, AcceptBody, ProcessBlock,
     WriteBlockReceipts, CommitNewWork, Sealed, CommitMined, WriteLateReceipts, heads
<1>4. CASE UNCHANGED vars
  BY <1>4 DEF vars, heads
<1>5. QED
  BY <1>1, <1>2, <1>3, <1>4 DEF Next

\* No import, mined block or restart replaces the head by a lighter block; only
\* SetHead does.
THEOREM HeadNeverLighterHolds == Spec => HeadNeverLighter
<1>1. ASSUME ChainInv, [Next]_vars
      PROVE  [ \/ TotalDiff[currentBlock'] >= TotalDiff[currentBlock]
               \/ \E h \in Rewinds : SetHead(h) ]_vars
  <2>1. TotalDiff[currentBlock] \in Nat
    BY <1>1, DifficultyAssumption DEF ChainInv, TypeInv, TypeOK
  <2> QED BY <1>1, <2>1, HeadStep, CanonicalHeavier, SMTT(30)
<1>2. QED
  BY <1>1, ChainInit, ChainStep, PTL DEF Spec, HeadNeverLighter
=============================================================================
