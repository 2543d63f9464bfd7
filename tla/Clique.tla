------------------------------- MODULE Clique -------------------------------
(***************************************************************************)
(* The proof-of-authority engine on one branch of the chain: the snapshot  *)
(* that apply derives from the headers, the checks of verifySeal, and the  *)
(* local signer (Prepare, Seal) with its proposals and its key.            *)
(*                                                                         *)
(* A header is its signer, the account it votes on (Coinbase), the vote    *)
(* (Nonce) and its difficulty.  The checks that look at the header alone   *)
(* (extra-data, mix digest, uncles, timestamps) are left out: a header     *)
(* that fails one is refused before any snapshot is touched.               *)
(***************************************************************************)
EXTENDS Integers, FiniteSets

CONSTANTS
  Addresses,       \* accounts, ordered like their bytes; 0 is the zero address
  InitialSigners,  \* the signers listed in the genesis block
  Epoch,           \* config.Epoch
  Keys,            \* accounts whose key the local node may be given
  MaxNumber        \* bound: the highest block number

ASSUME CliqueAssumption ==
  /\ Addresses \subseteq Nat /\ 0 \in Addresses /\ IsFiniteSet(Addresses)
  /\ InitialSigners \subseteq Addresses /\ InitialSigners # {}
  /\ Epoch \in Nat \ {0}
  /\ Keys \subseteq Addresses
  /\ MaxNumber \in Nat

VARIABLES
  number,     \* Snapshot.Number
  signers,    \* Snapshot.Signers
  recents,    \* Snapshot.Recents, as a set of [block, signer]
  votes,      \* Snapshot.Votes, as a set of [signer, block, address, authorize]
  tally,      \* Snapshot.Tally; a missing entry is the zero Tally, as in Go
  stuck,      \* the head was accepted, but no snapshot can be made for it
  signer,     \* Clique.signer, 0 before Authorize
  proposals,  \* Clique.proposals, as a set of <<address, authorize>>
  work,       \* the header Prepare built for the miner, or NoWork
  panicked    \* the process died of a division by zero

snap  == <<number, signers, recents, votes, tally>>
local == <<signer, proposals, work, panicked>>
vars  == <<snap, stuck, local>>

NoTally == [authorize |-> FALSE, votes |-> 0]

NoWork == [number |-> 0]

diffInTurn == 2
diffNoTurn == 1

Votes == [signer : Addresses, block : Nat, address : Addresses, authorize : BOOLEAN]

\* The header is prepared for a signer, which it does not name.
Works == [number : Nat, coinbase : Addresses, authorize : BOOLEAN,
          difficulty : {diffInTurn, diffNoTurn}, signer : Addresses]

TypeOK ==
  /\ number \in Nat
  /\ signers \subseteq Addresses
  /\ recents \subseteq [block : Nat, signer : Addresses]
  /\ votes \subseteq Votes
  /\ tally \in [Addresses -> [authorize : BOOLEAN, votes : Nat]]
  /\ stuck \in BOOLEAN /\ panicked \in BOOLEAN
  /\ signer \in Addresses
  /\ proposals \subseteq Addresses \X BOOLEAN
  /\ \A p, q \in proposals : p[1] = q[1] => p = q
  /\ work \in Works \cup {NoWork}

Init ==
  /\ number = 0 /\ signers = InitialSigners
  /\ recents = {} /\ votes = {} /\ tally = [a \in Addresses |-> NoTally]
  /\ stuck = FALSE
  /\ signer = 0 /\ proposals = {} /\ work = NoWork /\ panicked = FALSE
-----------------------------------------------------------------------------
(***************************************************************************)
(* The snapshot.                                                           *)
(***************************************************************************)
\* The number of consecutive blocks of which a signer may sign only one.
Limit(S) == Cardinality(S) \div 2 + 1

validVote(a, authorize) == authorize = (a \notin signers)

cast(T, a, authorize) ==
  IF T[a].votes > 0 THEN [T EXCEPT ![a].votes = @ + 1]
                    ELSE [T EXCEPT ![a] = [authorize |-> authorize, votes |-> 1]]

\* Variant: the votes of a dropped signer stay in the tally.
uncastNothing(T, V) == T

\* uncast for every vote of V: votes for the other side are not counted, and an
\* entry is deleted with its last vote.
uncast(T, V) ==
  [a \in Addresses |->
     LET counted == {v \in V : v.address = a /\ v.authorize = T[a].authorize}
     IN  IF Cardinality(counted) < T[a].votes
         THEN [T[a] EXCEPT !.votes = @ - Cardinality(counted)]
         ELSE NoTally]

\* Variant: the last entry of the window is kept one block too long.
ShiftLate(R, S, n) == {r \in R : ~(n >= Limit(S) /\ r.block = n - Limit(S) - 1)}

\* delete(snap.Recents, number - limit), guarded against underflow.
Shift(R, S, n) == {r \in R : ~(n >= Limit(S) /\ r.block = n - Limit(S))}

\* Variant: nothing is deleted when the list of signers shrinks.
DropLeftoverNone(R, S, n) == R

\* Dropping a signer shortens the window by at most one block.
DropLeftover(R, S, n) == Shift(R, S, n)

\* apply accepts a header signed by s.
Applies(s) ==
  /\ s \in signers
  /\ \A r \in Shift(recents, signers, number + 1) : r.signer # s

\* The votes the header of s about c is counted with: those of the epoch.
Standing(n) == IF n % Epoch = 0 THEN {} ELSE votes

Counted(n) == IF n % Epoch = 0 THEN [a \in Addresses |-> NoTally] ELSE tally

\* The vote of s on c that its header replaces: the first one in the list.
Previous(s, c, n) ==
  LET old == {v \in Standing(n) : v.signer = s /\ v.address = c}
  IN  {v \in old : \A w \in old : v.block <= w.block}

VotesAfter(s, c, authorize, n) ==
  LET kept == Standing(n) \ Previous(s, c, n)
  IN  IF validVote(c, authorize)
      THEN kept \cup {[signer |-> s, block |-> n, address |-> c, authorize |-> authorize]}
      ELSE kept

TallyAfter(s, c, authorize, n) ==
  LET kept == uncast(Counted(n), Previous(s, c, n))
  IN  IF validVote(c, authorize) THEN cast(kept, c, authorize) ELSE kept

\* Variant: half of the signers are enough.
PassedHalf(T, c) == T[c].votes > 0 /\ T[c].votes >= Cardinality(signers) \div 2

Passed(T, c) == T[c].votes > Cardinality(signers) \div 2

\* Snapshot.apply of one header: the vote is replaced and counted, and when it
\* passes, the account is added or dropped together with the votes on it (and the
\* votes it cast).
Apply(s, c, authorize) ==
  LET n    == number + 1
      V    == VotesAfter(s, c, authorize, n)
      T    == TallyAfter(s, c, authorize, n)
      R    == Shift(recents, signers, n) \cup {[block |-> n, signer |-> s]}
      cut  == {v \in V : v.signer = c}
  IN  /\ number' = n
      /\ \/ /\ ~Passed(T, c)
            /\ signers' = signers /\ recents' = R /\ votes' = V /\ tally' = T
         \/ /\ Passed(T, c) /\ T[c].authorize
            /\ signers' = signers \cup {c} /\ recents' = R
            /\ votes' = {v \in V : v.address # c}
            /\ tally' = [T EXCEPT ![c] = NoTally]
         \/ /\ Passed(T, c) /\ ~T[c].authorize
            /\ signers' = signers \ {c}
            /\ recents' = DropLeftover(R, signers \ {c}, n)
            /\ votes' = {v \in V : v.signer # c /\ v.address # c}
            /\ tally' = [uncast(T, cut) EXCEPT ![c] = NoTally]
-----------------------------------------------------------------------------
(***************************************************************************)
(* Headers from the network.                                               *)
(***************************************************************************)
\* The zero-based position of s among the sorted signers is the one whose turn
\* block n is.
inturn(n, s) ==
  /\ s \in signers
  /\ n % Cardinality(signers) = Cardinality({x \in signers : x < s})

\* Checkpoint blocks carry no vote.
VoteAllowed(n, c, authorize) == n % Epoch = 0 => c = 0 /\ ~authorize

\* Variant: the block that leaves the window is one too new.
recentlySignedLate(s, n) ==
  \E r \in recents : r.signer = s /\ n >= Limit(signers) /\ r.block > n - Limit(signers) + 1

\* "Signer is among recents, only fail if the current block doesn't shift it
\* out": seen > number-limit on uint64, where a negative difference wraps around
\* to a number no block has.
recentlySigned(s, n) ==
  \E r \in recents : r.signer = s /\ n >= Limit(signers) /\ r.block > n - Limit(signers)

verifySeal(s, n, difficulty) ==
  /\ s \in signers
  /\ ~recentlySigned(s, n)
  /\ difficulty = (IF inturn(n, s) THEN diffInTurn ELSE diffNoTurn)

\* A verified or locally sealed header becomes the head.  Its snapshot is made
\* when the next header is looked at, and may turn out not to exist.
Extend(s, c, authorize) ==
  \/ Applies(s) /\ Apply(s, c, authorize) /\ UNCHANGED stuck
  \/ ~Applies(s) /\ stuck' = TRUE /\ UNCHANGED snap

InsertHeader(s, c, authorize) ==
  /\ ~stuck /\ ~panicked /\ number < MaxNumber
  /\ VoteAllowed(number + 1, c, authorize)
  /\ \E difficulty \in {diffInTurn, diffNoTurn} : verifySeal(s, number + 1, difficulty)
  /\ Extend(s, c, authorize)
  /\ UNCHANGED local
-----------------------------------------------------------------------------
(***************************************************************************)
(* The local signer.                                                       *)
(***************************************************************************)
Propose(a, authorize) ==
  /\ ~panicked
  /\ proposals' = {p \in proposals : p[1] # a} \cup {<<a, authorize>>}
  /\ UNCHANGED <<snap, stuck, signer, work, panicked>>

Discard(a) ==
  /\ ~panicked
  /\ proposals' = {p \in proposals : p[1] # a}
  /\ UNCHANGED <<snap, stuck, signer, work, panicked>>

\* StartMining hands the engine the key of the coinbase account, also while the
\* miner is running.
Authorize(a) ==
  /\ ~panicked /\ a \in Keys
  /\ signer' = a
  /\ UNCHANGED <<snap, stuck, proposals, work, panicked>>

\* Variant: the difficulty is always that of a signer out of turn.
TurnDifficultyNever(n, s) == diffNoTurn

\* Variant: the default is not set before the turn is looked at.
TurnDifficultyUnset(n, s) == IF inturn(n, s) THEN diffInTurn ELSE 0

TurnDifficulty(n, s) == IF inturn(n, s) THEN diffInTurn ELSE diffNoTurn

\* The miner, once StartMining gave it a key, starts on a new head.  (Before that
\* a header is prepared on every new head too, but not handed to any agent.)
Prepare ==
  /\ ~stuck /\ ~panicked /\ signer \in Keys /\ number < MaxNumber
  /\ signers # {}
  /\ LET n     == number + 1
         sensible == {p \in proposals : validVote(p[1], p[2]) /\ n % Epoch # 0}
         ballots  == IF sensible = {} THEN {<<0, FALSE>>} ELSE sensible
     IN  \E p \in ballots :
           work' = [number |-> n, coinbase |-> p[1], authorize |-> p[2],
                    difficulty |-> TurnDifficulty(n, signer), signer |-> signer]
  /\ UNCHANGED <<snap, stuck, signer, proposals, panicked>>

\* inturn divides by the number of signers, whether the node mines or not.
PreparePanics ==
  /\ ~stuck /\ ~panicked /\ number < MaxNumber
  /\ signers = {}
  /\ panicked' = TRUE
  /\ UNCHANGED <<snap, stuck, signer, proposals, work>>

\* Seal has read the key and the snapshot and may sign: not among the recent
\* signers unless this block shifts it out.
MaySeal ==
  /\ signer \in signers
  /\ \A r \in recents :
       r.signer = signer => number + 1 >= Limit(signers)
                            /\ r.block <= number + 1 - Limit(signers)

\* The miner writes its own block without verifying it.  Work on an older head
\* was stopped when the head moved.
Seal ==
  /\ ~stuck /\ ~panicked
  /\ work # NoWork /\ work.number = number + 1
  /\ MaySeal
  /\ Extend(signer, work.coinbase, work.authorize)
  /\ work' = NoWork
  /\ UNCHANGED <<signer, proposals, panicked>>
-----------------------------------------------------------------------------
Network == \E s, c \in Addresses : \E authorize \in BOOLEAN : InsertHeader(s, c, authorize)

Local == \/ \E a \in Addresses, authorize \in BOOLEAN : Propose(a, authorize)
         \/ \E a \in Addresses : Discard(a) \/ Authorize(a)
         \/ Prepare \/ PreparePanics \/ Seal

Next == Network \/ Local

Spec == Init /\ [][Next]_vars

\* A node that does not sign.
FollowSpec == Init /\ [][Network]_vars
-----------------------------------------------------------------------------
(***************************************************************************)
(* Properties.                                                             *)
(***************************************************************************)
\* The cached tally of an account is the number of votes in the list about it,
\* all of them votes of current signers, at most one each, to change the
\* account's present status, after any sequence of replaced votes, passed votes,
\* dropped signers and checkpoints (apply, cast, uncast).
VotesConsistent ==
  /\ \A a \in Addresses :
       LET about == {v \in votes : v.address = a}
       IN  /\ tally[a].votes = Cardinality(about)
           /\ about # {} => tally[a].authorize = (a \notin signers)
  /\ \A v \in votes : v.signer \in signers /\ v.authorize = (v.address \notin signers)
  /\ \A v, w \in votes : v.signer = w.signer /\ v.address = w.address => v = w

\* Whether the set of signers grew or shrank, Recents has an entry for each of
\* the last limit - 1 blocks, which keep their signers from signing the next one,
\* none for a block before the last limit ones, and nobody twice.
RecentsWindow ==
  /\ \A r \in recents : 1 <= r.block /\ r.block <= number
                        /\ number < r.block + Limit(signers)
  /\ \A k \in 1..number :
       k > number + 1 - Limit(signers) => \E r \in recents : r.block = k
  /\ \A r, q \in recents : r.block = q.block \/ r.signer = q.signer => r = q

\* As long as there is a signer left, one of them may sign the next block: the
\* rotation rule never locks everybody out.
SomeoneCanSign == signers # {} /\ ~stuck => \E s \in signers : Applies(s)

\* A header that verifySeal accepted has a snapshot, so the chain can go on
\* from it (the recent-signer checks of verifySeal and apply agree).
NeverStuck == ~stuck

\* The snapshot implements Voting: tally and vote list decide as if the ballots
\* were counted at every block.
Ballots == INSTANCE Voting WITH ballots <- {<<v.signer, v.address>> : v \in votes}

ImplementsVoting == Ballots!Spec

\* A header that Seal signs with the key it was prepared for passes verifySeal at
\* every other node, however the keys, the proposals and the head changed between
\* Prepare and Seal.
PreparedVerifies ==
  [][Seal /\ signer = work.signer
       => verifySeal(signer, work.number, work.difficulty)]_vars

\* Seal: "Sweet, the protocol permits us to sign the block": whatever it signs
\* passes verifySeal.  Not so when Authorize changed the key since Prepare.
SealedVerifies == [][Seal => verifySeal(signer, work.number, work.difficulty)]_vars
=============================================================================
