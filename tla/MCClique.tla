------------------------------ MODULE MCClique ------------------------------
(***************************************************************************)
(* Instances of Clique for TLC.  Account 0 is the zero address, which every *)
(* header without a vote names.                                            *)
(***************************************************************************)
EXTENDS Clique, TLC

TwoSigners  == {1, 2}

\* The two signers and the zero address, which can be voted on like any other.
FewAccounts == 0..2

\* Four signers and an account to vote on.
MoreAccounts == 0..4
FourSigners == {1, 2, 3, 4}
=============================================================================
