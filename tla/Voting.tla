------------------------------- MODULE Voting -------------------------------
(***************************************************************************)
(* What a chain of signed headers promises about its signers: each signer  *)
(* has at most one standing ballot per account, always to change that      *)
(* account's status, and the status changes when more than half of the     *)
(* signers have one.                                                       *)
(***************************************************************************)
EXTENDS Integers, FiniteSets

CONSTANTS Addresses, InitialSigners

VARIABLES signers, ballots

Init == signers = InitialSigners /\ ballots = {}

\* A header signed by s with a vote about c.  At a checkpoint the slate is wiped
\* first.  Ballots on an account end when its status changes, ballots of a signer
\* when it is dropped.
Header(s, c, authorize, checkpoint) ==
  LET kept  == (IF checkpoint THEN {} ELSE ballots) \ {<<s, c>>}
      cast  == IF authorize = (c \notin signers) THEN kept \cup {<<s, c>>} ELSE kept
      favor == {x \in signers : <<x, c>> \in cast}
  IN  /\ s \in signers
      /\ IF Cardinality(favor) <= Cardinality(signers) \div 2
         THEN signers' = signers /\ ballots' = cast
         ELSE /\ signers' = IF c \in signers THEN signers \ {c} ELSE signers \cup {c}
              /\ ballots' = {x \in cast : x[2] # c /\ x[1] \in signers'}

Next == \E s, c \in Addresses : \E authorize, checkpoint \in BOOLEAN :
          Header(s, c, authorize, checkpoint)

Spec == Init /\ [][Next]_<<signers, ballots>>
=============================================================================
