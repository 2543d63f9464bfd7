------------------------ MODULE BlockChainStepProofs ------------------------
(***************************************************************************)
(* The inductive invariant of the canonical chain, and what the steps that *)
(* write blocks, SetHead and a restart do to it.                           *)
(***************************************************************************)
EXTENDS BlockChainTypeProofs

-----------------------------------------------------------------------------
(***************************************************************************)
(* The canonical chain.                                                    *)
(***************************************************************************)
\* What the goroutines inside WriteBlock have done and read so far.
ProcInv ==
  \A a \in Actors :
    /\ stage[a] \in {"committed", "verified", "difficulty", "written"}
         => blk[a] \in states
    /\ stage[a] = "difficulty" => ptd[a] = TotalDiff[Parent[blk[a]]]

\* A header is only stored once its state is, and only together with the
\* difficulty of its chain.
StoreInv ==
  /\ hdrs \subseteq states
  /\ \A b \in Blocks : td[b] # NoTd => td[b] = TotalDiff[b]
  /\ \A b \in hdrs : td[b] # NoTd

\* The strengthening of CanonicalChain, HeadsOnChain, TdCorrect and NeverWedged
\* that a step preserves.  SetHead keeps the chain below its target because the
\* header it starts from is on the chain (HeadsOnChain); reorg ends on a chain
\* whose states are there because hdrs \subseteq states; and the block being
\* written has its difficulty because the parent's was right when it was read,
\* although the parent may be gone by then.
ChainInv == /\ TypeInv /\ ProcInv /\ StoreInv
            /\ CanonicalChain /\ HeadsOnChain /\ NeverWedged

\* A database that holds the genesis block only satisfies the invariant.
LEMMA ChainInit == Init => ChainInv
<1> SUFFICES ASSUME Init PROVE ChainInv
  OBVIOUS
<1>1. ProcInv
  BY DEF Init, ProcInv
<1>2. StoreInv
  BY DifficultyAssumption, TreeAssumption, BoundAssumption DEF Init, StoreInv
<1>3. CanonicalChain /\ HeadsOnChain /\ NeverWedged
  BY ChainAssumption, TreeAssumption, BoundAssumption
     DEF Init, CanonicalChain, HeadsOnChain, NeverWedged, HasBlockAndState, HasBlock
<1>4. QED
  BY <1>1, <1>2, <1>3, TypeInit DEF ChainInv

\* Steps that change neither blocks, numbers nor heads, and only add states.
Quiet == /\ UNCHANGED <<hdrs, bodies, td, canon, keys, heads, wedged>>
         /\ states \subseteq states'

\* A step that leaves the stored chain and the heads alone preserves what is
\* said about them.
LEMMA QuietStep ==
  ASSUME StoreInv, CanonicalChain, HeadsOnChain, NeverWedged, Quiet
  PROVE  StoreInv' /\ CanonicalChain' /\ HeadsOnChain' /\ NeverWedged'
BY DEF StoreInv, CanonicalChain, HeadsOnChain, NeverWedged, Quiet, keys, heads,
       HasBlockAndState, HasBlock

\* An actor that leaves WriteBlock, while the others stay where they are.
LEMMA FinishProc ==
  ASSUME TypeInv, ProcInv, NEW a \in Actors, NEW ok, Finish(a, ok),
         states \subseteq states'
  PROVE  ProcInv'
BY DEF TypeInv, TypeOK, ProcInv, Finish

\* The difficulty WriteBlock computes is the true one, and the state is stored,
\* even if SetHead deleted the parent since its difficulty was read.
LEMMA ExternTotal ==
  ASSUME ChainInv, NEW a \in Actors, stage[a] = "difficulty"
  PROVE  /\ ExternTd(a) = TotalDiff[blk[a]] /\ ExternTd(a) # NoTd
         /\ blk[a] \in Blocks \ {Genesis} /\ blk[a] \in states
<1>1. blk[a] \in Blocks \ {Genesis} /\ ExternTd(a) \in Nat
  BY ExternType DEF ChainInv
<1>2. ptd[a] = TotalDiff[Parent[blk[a]]] /\ blk[a] \in states
  BY DEF ChainInv, ProcInv
<1>3. QED
  BY <1>1, <1>2, DifficultyAssumption, BoundAssumption DEF ExternTd

\* Storing a block keeps StoreInv, on and off the canonical chain.
LEMMA StoreBlockStep ==
  ASSUME ChainInv, NEW a \in Actors, stage[a] = "difficulty",
         StoreBlock(blk[a], ExternTd(a))
  PROVE  StoreInv'
<1>1. /\ ExternTd(a) = TotalDiff[blk[a]] /\ ExternTd(a) # NoTd
      /\ blk[a] \in Blocks \ {Genesis} /\ blk[a] \in states
  BY ExternTotal
<1>2. td \in [Blocks -> Nat \cup {NoTd}] /\ hdrs \subseteq Blocks
  BY DEF ChainInv, TypeInv, TypeOK
<1>3. QED
  BY <1>1, <1>2 DEF ChainInv, StoreInv, StoreBlock

\* When no block of the new chain forces the heads to move, the heads are on it
\* already: otherwise the old chain's block next to the first new one would have
\* to share its canonical number.
LEMMA UnforcedHeads ==
  ASSUME ChainInv, NEW b \in Blocks, ForcesHeads(b) = {},
         TotalDiff[b] >= TotalDiff[currentBlock],
         NEW y \in Chain[currentBlock]
  PROVE  y \in Chain[b]
<1> DEFINE New == Chain[b] \ Chain[currentBlock]
<1>1. currentBlock \in Blocks
  BY DEF ChainInv, TypeInv, TypeOK
<1>2. CASE New = {}
  <2>1. b \in Chain[currentBlock]
    BY <1>2, ChainBounds
  <2>2. b = currentBlock
    BY <1>1, <2>1, ChainLighter, DifficultyAssumption
  <2> QED BY <2>2
<1>3. CASE New # {}
  <2>1. New \subseteq Blocks
    BY ChainAssumption
  <2>2. PICK x \in New : \A z \in New : Number[x] <= Number[z]
    <3> HIDE DEF New
    <3> QED BY <1>3, <2>1, LowestBlock
  <2>3. x \in Chain[b] /\ x \in Blocks /\ x # Genesis
    BY <2>1, <2>2, <1>1, ChainBounds
  <2>4. /\ Parent[x] \in Blocks /\ Number[x] = Number[Parent[x]] + 1
        /\ Number[x] \in Nat /\ Number[Parent[x]] \in Nat
    BY <2>3, TreeAssumption, BoundAssumption
  <2>5. Parent[x] \in Chain[b]
    <3>1. Parent[x] \in Chain[x]
      BY <2>3, <2>4, ChainBounds, ChainAssumption
    <3> QED BY <3>1, <2>3, ChainClosed
  <2>6. Parent[x] \in Chain[currentBlock]
    BY <2>2, <2>4, <2>5
  <2>7. SUFFICES ASSUME y \notin Chain[b] PROVE FALSE
    OBVIOUS
  <2>8. y \in Blocks /\ Number[y] \in Nat
    BY <1>1, ChainAssumption, TreeAssumption, BoundAssumption
  <2>9. y \notin Chain[Parent[x]]
    BY <2>5, <2>7, ChainClosed
  <2>10. Parent[x] \in Chain[y] /\ Parent[x] # y
    <3>1. Number[Parent[x]] <= Number[y]
      BY <1>1, <2>4, <2>6, <2>8, <2>9, ChainLinear
    <3> QED BY <3>1, <1>1, <2>5, <2>6, <2>7, ChainLinear
  <2>11. PICK z \in Chain[y] : z # Genesis /\ Parent[z] = Parent[x]
    BY <2>8, <2>10, ChainDense
  <2>12. z \in Chain[currentBlock] /\ z \in Blocks
    BY <1>1, <2>8, ChainClosed, ChainAssumption
  <2>13. Number[z] = Number[x]
    BY <2>3, <2>11, <2>12, TreeAssumption
  <2>14. canon[Number[x]] = z
    BY <2>12, <2>13 DEF ChainInv, CanonicalChain
  <2>15. canon[Number[x]] = x
    BY <2>2 DEF ForcesHeads, NewChain
  <2> QED BY <2>2, <2>12, <2>14, <2>15
<1>4. QED
  BY <1>2, <1>3

\* insert after reorg leaves the new head's chain stored and numbered.
LEMMA CanonicalStep ==
  ASSUME ChainInv, NEW a \in Actors, WriteCanonical(a)
  PROVE  CanonicalChain' /\ HeadsOnChain'
<1> DEFINE b == blk[a]
<1>1. /\ ExternTd(a) = TotalDiff[b] /\ b \in Blocks \ {Genesis} /\ b \in states
  BY ExternTotal DEF WriteCanonical
<1>2. currentBlock \in Blocks /\ Chain[b] \subseteq Blocks
      /\ currentBlock \in Chain[currentBlock]
  BY <1>1, ChainAssumption, ChainBounds DEF ChainInv, TypeInv, TypeOK
<1>3. TotalDiff[b] >= TotalDiff[currentBlock]
  <2>1. td[currentBlock] = TotalDiff[currentBlock]
    BY <1>2 DEF ChainInv, StoreInv, CanonicalChain, HasBlockAndState, HasBlock
  <2> QED BY <1>1, <1>2, <2>1, DifficultyAssumption DEF WriteCanonical, Adopts
<1>4. currentBlock' = b
  BY DEF WriteCanonical, InsertHead
<1>5. ASSUME NEW x \in Chain[b] PROVE HasBlockAndState(x)'
  <2>1. hdrs' = hdrs \cup {b} /\ bodies' = bodies \cup {b} /\ states' = states
    BY DEF WriteCanonical, StoreBlock
  <2>2. CASE x = b
    BY <1>1, <2>1, <2>2 DEF HasBlockAndState, HasBlock
  <2>3. CASE x \in Chain[currentBlock]
    BY <2>1, <2>3 DEF ChainInv, CanonicalChain, HasBlockAndState, HasBlock
  <2>4. CASE x # b /\ x \notin Chain[currentBlock]
    <3>1. Parent[b] # currentBlock
      BY <1>1, <2>4, ChainAssumption
    <3>2. x \in Walked(b)
      BY <1>5, <2>4 DEF Walked
    <3>3. x \in hdrs \cap bodies
      BY <2>4, <3>1, <3>2 DEF WriteCanonical, ReorgFails
    <3> QED BY <2>1, <3>3 DEF ChainInv, StoreInv, HasBlockAndState, HasBlock
  <2> QED BY <2>2, <2>3, <2>4
<1>6. ASSUME NEW x \in Chain[b] PROVE canon'[Number[x]] = x
  <2>1. Number[x] \in 0..MaxNumber
    BY <1>2, <1>6, TreeAssumption
  <2>2. \A y \in NewChain(b) : Number[y] = Number[x] => y = x
    BY <1>1, <1>6, ChainNumbers, ChainBounds DEF NewChain
  <2>3. CASE x \in NewChain(b)
    BY <2>1, <2>2, <2>3 DEF WriteCanonical, InsertHead
  <2>4. CASE x \notin NewChain(b)
    <3>1. canon'[Number[x]] = canon[Number[x]]
      BY <2>1, <2>2, <2>4 DEF WriteCanonical, InsertHead
    <3>2. x \in Chain[currentBlock]
      BY <1>6, <2>4 DEF NewChain
    <3> QED BY <3>1, <3>2 DEF ChainInv, CanonicalChain
  <2> QED BY <2>3, <2>4
<1>7. CanonicalChain'
  BY <1>4, <1>5, <1>6 DEF CanonicalChain
<1>8. HeadsOnChain'
  <2>1. CASE ForcesHeads(b) = {}
    <3>1. currentHeader \in Chain[b] /\ currentFastBlock \in Chain[b]
      BY <1>1, <1>3, <2>1, UnforcedHeads DEF ChainInv, HeadsOnChain
    <3> QED BY <1>4, <2>1, <3>1
               DEF WriteCanonical, InsertHead, ChainInv, HeadsOnChain
  <2>2. CASE ForcesHeads(b) # {}
    <3>1. ForcesHeads(b) \subseteq Chain[b]
      BY <1>1, ChainBounds DEF ForcesHeads, NewChain
    <3> QED BY <1>4, <2>2, <3>1 DEF WriteCanonical, InsertHead, HeadsOnChain
  <2> QED BY <2>1, <2>2
<1>9. QED
  BY <1>7, <1>8

\* SetHead ends on the block of the canonical chain its header walk stopped at,
\* and keeps everything below.
LEMMA SetHeadStep ==
  ASSUME ChainInv, NEW h \in Rewinds, SetHead(h)
  PROVE  StoreInv' /\ CanonicalChain' /\ HeadsOnChain' /\ NeverWedged'
<1> DEFINE loaded == hdrs' \cap bodies'
<1>0. PICK header : header = HeaderAt(currentHeader, h)
  OBVIOUS
<1>1. /\ currentBlock \in Blocks /\ currentHeader \in Blocks
      /\ currentFastBlock \in Blocks /\ h \in Nat
      /\ hdrs \subseteq Blocks /\ bodies \subseteq Blocks
      /\ td \in [Blocks -> Nat \cup {NoTd}]
  BY BoundAssumption DEF ChainInv, TypeInv, TypeOK
<1>2. \A x \in Blocks : Number[x] \in Nat /\ Number[x] \in 0..MaxNumber
  BY TreeAssumption, BoundAssumption
<1>3. /\ currentHeader \in Chain[currentBlock]
      /\ currentFastBlock \in Chain[currentBlock]
      /\ Chain[currentBlock] \subseteq Blocks
  BY <1>1, ChainAssumption DEF ChainInv, HeadsOnChain
<1>4. header \in Chain[currentBlock] /\ header \in Blocks
  BY <1>0, <1>1, <1>3, HeaderAtType, ChainClosed
<1>5. Number[header] <= h
  BY <1>0, <1>1, <1>2, TreeAssumption DEF HeaderAt
<1>6. ASSUME NEW x \in Chain[header]
      PROVE  /\ x \in Chain[currentBlock] /\ Number[x] <= h
             /\ HasBlockAndState(x)' /\ canon'[Number[x]] = x
  <2>1. x \in Chain[currentBlock] /\ x \in Blocks
    BY <1>1, <1>3, <1>4, <1>6, ChainClosed
  <2>2. Number[x] <= h
    BY <1>1, <1>2, <1>4, <1>5, <1>6, <2>1, ChainBounds
  <2>3. x \notin Rewound(currentHeader, h)
    BY <1>1, <1>2, <2>1, <2>2 DEF Rewound
  <2>4. x \in hdrs /\ x \in bodies /\ x \in states /\ canon[Number[x]] = x
    BY <2>1 DEF ChainInv, CanonicalChain, HasBlockAndState, HasBlock
  <2>5. HasBlockAndState(x)'
    BY <2>3, <2>4 DEF SetHead, RewindHeaders, HasBlockAndState, HasBlock
  <2>6. canon'[Number[x]] = x
    BY <1>1, <1>2, <2>1, <2>2, <2>4 DEF SetHead, RewindHeaders
  <2> QED BY <2>1, <2>2, <2>5, <2>6
<1>7. header \in loaded /\ header \in states
  <2>1. header \in Chain[header]
    BY <1>4, ChainBounds, SMTT(30)
  <2>2. HasBlockAndState(header)' /\ states' = states
    BY <1>6, <2>1 DEF SetHead
  <2> QED BY <2>2 DEF HasBlockAndState, HasBlock
<1>8. RewoundHead(currentBlock, header, loaded) = header
  <2>1. CASE Number[header] >= Number[currentBlock]
    <3>1. Number[header] = Number[currentBlock]
      BY <1>1, <1>2, <1>4, <2>1, ChainBounds
    <3>2. header = currentBlock
      BY <1>1, <1>4, <3>1, ChainBounds, ChainNumbers
    <3> QED BY <2>1, <3>2 DEF RewoundHead
  <2>2. CASE ~(Number[header] >= Number[currentBlock])
    BY <1>7, <2>2 DEF RewoundHead
  <2> QED BY <2>1, <2>2
<1>9. /\ RewoundHead(currentFastBlock, header, loaded) \in Chain[header]
      /\ RewoundHead(currentFastBlock, header, loaded) \in loaded
  <2>1. RewoundHead(currentFastBlock, header, loaded) \in Chain[header]
    <3>1. CASE Number[header] >= Number[currentFastBlock]
      <4>1. currentFastBlock \in Chain[header]
        BY <1>1, <1>2, <1>3, <1>4, <3>1, ChainLinear
      <4> QED BY <3>1, <4>1 DEF RewoundHead
    <3>2. CASE ~(Number[header] >= Number[currentFastBlock])
      BY <1>4, <1>7, <3>2, ChainBounds DEF RewoundHead
    <3> QED BY <3>1, <3>2
  <2>2. QED
    BY <1>6, <2>1 DEF HasBlockAndState, HasBlock
<1>10. /\ currentBlock' = header /\ headBlock' = header
       /\ currentHeader' = header /\ headHeader' = header
       /\ headFast' = RewoundHead(currentFastBlock, header, loaded)
       /\ currentFastBlock' = RewoundHead(currentFastBlock, header, loaded)
       /\ wedged' = (header \notin loaded)
  BY <1>0, <1>7, <1>8, <1>9 DEF SetHead
<1>11. NeverWedged'
  BY <1>7, <1>10, Zenon DEF NeverWedged
<1>12. CanonicalChain'
  BY <1>6, <1>10 DEF CanonicalChain
<1>13. HeadsOnChain'
  BY <1>4, <1>9, <1>10, ChainBounds DEF HeadsOnChain
<1>14. StoreInv'
  BY <1>1 DEF ChainInv, StoreInv, SetHead, RewindHeaders
<1>15. QED
  BY <1>11, <1>12, <1>13, <1>14

\* loadLastState finds the heads it left: a restart moves none of them.
LEMMA RestartStep ==
  ASSUME ChainInv, Restart
  PROVE  Quiet /\ ProcInv'
<1>1. /\ currentBlock \in Chain[currentBlock]
      /\ currentHeader \in Chain[currentBlock]
      /\ currentFastBlock \in Chain[currentBlock]
      /\ headBlock = currentBlock /\ headHeader = currentHeader
      /\ headFast = currentFastBlock
  BY ChainBounds DEF ChainInv, TypeInv, TypeOK, HeadsOnChain
<1>2. HasBlockAndState(headBlock) /\ headHeader \in hdrs /\ HasBlock(headFast)
  BY <1>1 DEF ChainInv, CanonicalChain, HasBlockAndState, HasBlock
<1>3. wedged = FALSE
  BY Zenon DEF ChainInv, NeverWedged, TypeInv, TypeOK
<1>4. /\ UNCHANGED <<hdrs, bodies, td, canon, keys, heads>>
      /\ states' = states
  BY <1>1, <1>2 DEF Restart, store, keys, heads
<1>5. wedged' = wedged
  BY <1>3, Zenon DEF Restart
<1>6. ProcInv'
  BY DEF Restart, ProcInv
<1>7. QED
  BY <1>4, <1>5, <1>6 DEF Quiet
=============================================================================
