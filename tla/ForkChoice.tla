----------------------------- MODULE ForkChoice -----------------------------
(***************************************************************************)
(* What core.BlockChain promises to the rest of the node while nobody      *)
(* rewinds it: blocks are accepted one at a time, never before their       *)
(* parent and never forgotten, and the head is always a heaviest accepted  *)
(* block, the earlier one or the later one of two equals.                  *)
(***************************************************************************)
EXTENDS Integers

CONSTANTS Blocks, Genesis, Parent, TotalDiff

VARIABLES accepted, head

Init == accepted = {Genesis} /\ head = Genesis

Accept(b) ==
  /\ b \notin accepted /\ Parent[b] \in accepted
  /\ accepted' = accepted \cup {b}
  /\ \/ TotalDiff[b] >= TotalDiff[head] /\ head' = b
     \/ TotalDiff[b] <= TotalDiff[head] /\ head' = head

\* An accepted block written a second time may take the place of an equal head.
Switch(b) ==
  /\ b \in accepted /\ TotalDiff[b] = TotalDiff[head]
  /\ head' = b /\ accepted' = accepted

Next == \E b \in Blocks \ {Genesis} : Accept(b) \/ Switch(b)

Spec == Init /\ [][Next]_<<accepted, head>>
=============================================================================
