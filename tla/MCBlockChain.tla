---------------------------- MODULE MCBlockChain ----------------------------
(***************************************************************************)
(* Values for the constants of BlockChain: the block trees the runs use.   *)
(***************************************************************************)
EXTENDS BlockChain, TLC

CONSTANTS g, a1, a2, a3, b1, b2, x1, x2, t1, t2

MCNoTd == -1

\* Two chains fork at the genesis block g.  b1 alone outweighs a1 - a2 and ties
\* with a1 - a2 - a3; b2 outweighs both chains.
ForkBlocks == {g, a1, a2, a3, b1, b2}

\* Without a3, and with a lighter b1: it ties with a1 - a2.
RaceBlocks == {g, a1, a2, b1, b2}

RaceDifficulty == [b \in Blocks |-> IF b = b1 THEN 2 ELSE 1]

RaceTotalDiff == [b \in Blocks |-> CASE b = g -> 1 [] b = a1 -> 2 [] b = b2 -> 4
                                      [] OTHER -> 3]

\* Without a3 either, with x1 on top of g, which is in the future and fails its header
\* checks, and x2 on top of a1, which fails its body or state checks.
MixedBlocks == {g, a1, a2, b1, b2, x1, x2}

MCParent == a1 :> g @@ a2 :> a1 @@ a3 :> a2 @@ b1 :> g @@ b2 :> b1
            @@ x1 :> g @@ x2 :> a1

MCNumber == g :> 0 @@ a1 :> 1 @@ a2 :> 2 @@ a3 :> 3 @@ b1 :> 1 @@ b2 :> 2
            @@ x1 :> 1 @@ x2 :> 2

MCDifficulty == g :> 1 @@ a1 :> 1 @@ a2 :> 1 @@ a3 :> 1 @@ b1 :> 3 @@ b2 :> 1
                @@ x1 :> 9 @@ x2 :> 9

MCChain == g :> {g} @@ a1 :> {g, a1} @@ a2 :> {g, a1, a2}
           @@ a3 :> {g, a1, a2, a3} @@ b1 :> {g, b1} @@ b2 :> {g, b1, b2}
           @@ x1 :> {g, x1} @@ x2 :> {g, a1, x2}

MCTotalDiff == g :> 1 @@ a1 :> 2 @@ a2 :> 3 @@ a3 :> 4 @@ b1 :> 4 @@ b2 :> 5
               @@ x1 :> 10 @@ x2 :> 11

\* All blocks are old, or some are one or two ticks ahead of the clock.
NoTime == [b \in Blocks |-> 0]

MixedTime == [b \in Blocks |-> CASE b = a1 -> 1 [] b = a2 -> 2 [] b = x1 -> 1
                                 [] OTHER -> 0]

\* t1 is only on the a chain, t2 on both.
MCTxs == [b \in Blocks |-> CASE b = a1 -> {t1} [] b = a2 -> {t2} [] b = b1 -> {t2}
                             [] OTHER -> {}]

NoTxs == [b \in Blocks |-> {}]

On(f) == [b \in Blocks |-> f[b]]

TreeParent == [b \in Blocks \ {Genesis} |-> MCParent[b]]
TreeNumber == On(MCNumber)
TreeDifficulty == On(MCDifficulty)
TreeChain == On(MCChain)
TreeTotalDiff == On(MCTotalDiff)
=============================================================================
