-------------------------- MODULE CliqueVoteProofs --------------------------
(***************************************************************************)
(* The votes of a Clique snapshot, for every set of accounts and signers:  *)
(* the tally that apply maintains is the count of the votes in the list,   *)
(* and the snapshot implements Voting.                                     *)
(***************************************************************************)
EXTENDS Clique, FiniteSetTheorems, TLAPS

Tallies == [Addresses -> [authorize : BOOLEAN, votes : Nat]]

About(W, a) == {v \in W : v.address = a}

\* The tally T counts the votes W, all cast to change the status of an account
\* under the signers S.
Counts(T, W, S) ==
  /\ T \in Tallies /\ W \subseteq Votes /\ IsFiniteSet(W)
  /\ \A a \in Addresses :
       /\ T[a].votes = Cardinality(About(W, a))
       /\ About(W, a) # {} => T[a].authorize = (a \notin S)
  /\ \A v \in W : v.authorize = (v.address \notin S)

\* One ballot per signer and account.
Single(W) == \A v, w \in W : v.signer = w.signer /\ v.address = w.address => v = w

\* A part of a finite set of votes is finite and has at most as many members.
LEMMA AboutFinite ==
  ASSUME NEW W, IsFiniteSet(W), NEW a
  PROVE  IsFiniteSet(About(W, a)) /\ Cardinality(About(W, a)) \in Nat
<1>1. About(W, a) \in SUBSET W
  BY DEF About
<1>2. QED
  BY <1>1, FS_Subset, FS_CardinalityType

\* The zero Tally that stands for a missing entry has no votes.
LEMMA NoTallyType == NoTally \in [authorize : BOOLEAN, votes : Nat] /\ NoTally.votes = 0
BY DEF NoTally

\* uncast takes exactly the votes of V out of the count.
LEMMA UncastCounts ==
  ASSUME NEW T, NEW W, NEW S, NEW V \in SUBSET W, Counts(T, W, S)
  PROVE  Counts(uncast(T, V), W \ V, S)
<1> DEFINE counted(a) == {v \in V : v.address = a /\ v.authorize = T[a].authorize}
           U == uncast(T, V)
<1>1. IsFiniteSet(V) /\ IsFiniteSet(W \ V)
  BY FS_Subset, FS_Difference DEF Counts
<1>2. ASSUME NEW a \in Addresses
      PROVE  /\ counted(a) = About(V, a)
             /\ Cardinality(About(W \ V, a)) = Cardinality(About(W, a)) - Cardinality(About(V, a))
             /\ Cardinality(About(W \ V, a)) \in Nat
             /\ Cardinality(About(V, a)) \in Nat
             /\ IsFiniteSet(About(W \ V, a))
  <2>1. counted(a) = About(V, a)
    <3>1. ASSUME NEW v \in V, v.address = a PROVE v.authorize = T[a].authorize
      <4>1. v \in About(W, a)
        BY <3>1 DEF About
      <4>2. T[a].authorize = (a \notin S) /\ v.authorize = (a \notin S)
        BY <3>1, <4>1, Zenon DEF Counts
      <4>3. QED
        BY <4>2, Zenon
    <3>2. QED
      BY <3>1, Zenon DEF About
  <2>2. About(W \ V, a) = About(W, a) \ About(V, a) /\ About(W, a) \cap About(V, a) = About(V, a)
    BY DEF About
  <2>3. IsFiniteSet(About(W, a))
    BY AboutFinite DEF Counts
  <2>4. IsFiniteSet(About(V, a)) /\ IsFiniteSet(About(W \ V, a))
    BY <1>1, AboutFinite, Zenon
  <2>5. Cardinality(About(W, a) \ About(V, a))
          = Cardinality(About(W, a)) - Cardinality(About(W, a) \cap About(V, a))
    BY <2>3, FS_Difference, Zenon
  <2>6. Cardinality(About(W \ V, a)) \in Nat /\ Cardinality(About(V, a)) \in Nat
    BY <2>4, FS_CardinalityType, Zenon
  <2>7. QED
    BY <2>1, <2>2, <2>4, <2>5, <2>6, Zenon
<1>3. ASSUME NEW a \in Addresses
      PROVE  /\ U[a] \in [authorize : BOOLEAN, votes : Nat]
             /\ U[a].votes = Cardinality(About(W \ V, a))
             /\ About(W \ V, a) # {} => U[a].authorize = T[a].authorize
  <2>1. U[a] = IF Cardinality(About(V, a)) < T[a].votes
               THEN [T[a] EXCEPT !.votes = @ - Cardinality(About(V, a))]
               ELSE NoTally
    BY <1>2, Zenon DEF uncast
  <2>2. T[a] \in [authorize : BOOLEAN, votes : Nat] /\ T[a].votes = Cardinality(About(W, a))
    BY DEF Counts, Tallies
  <2>3. CASE Cardinality(About(V, a)) < T[a].votes
    BY <2>1, <2>2, <2>3, <1>2
  <2>4. CASE ~(Cardinality(About(V, a)) < T[a].votes)
    <3>1. Cardinality(About(W \ V, a)) = 0
      BY <2>2, <2>4, <1>2
    <3>2. About(W \ V, a) = {}
      BY <3>1, <1>2, FS_EmptySet
    <3>3. QED
      BY <2>1, <2>4, <3>1, <3>2, NoTallyType
  <2>5. QED
    BY <2>3, <2>4
<1>4. U \in Tallies
  BY <1>3 DEF Tallies, uncast
<1>5. ASSUME NEW a \in Addresses, About(W \ V, a) # {} PROVE U[a].authorize = (a \notin S)
  <2>1. About(W, a) # {}
    BY <1>5 DEF About
  <2>2. QED
    BY <1>3, <1>5, <2>1, Zenon DEF Counts
<1>6. QED
  BY <1>1, <1>3, <1>4, <1>5, Zenon DEF Counts

\* cast counts one more vote.
LEMMA CastCounts ==
  ASSUME NEW T, NEW W, NEW S, Counts(T, W, S), NEW v \in Votes \ W,
         v.authorize = (v.address \notin S)
  PROVE  Counts(cast(T, v.address, v.authorize), W \cup {v}, S)
<1> DEFINE c == v.address
           C == cast(T, c, v.authorize)
           X == W \cup {v}
<1>1. c \in Addresses /\ v.authorize \in BOOLEAN
  BY DEF Votes
<1>2. T \in Tallies /\ T[c].votes \in Nat
  BY <1>1 DEF Counts, Tallies
<1>3. X \subseteq Votes /\ IsFiniteSet(X)
  BY FS_AddElement DEF Counts
<1>4. Cardinality(About(X, c)) = Cardinality(About(W, c)) + 1 /\ About(X, c) # {}
  <2>1. About(X, c) = About(W, c) \cup {v} /\ v \notin About(W, c)
    BY DEF About
  <2>2. IsFiniteSet(About(W, c))
    BY AboutFinite, Zenon DEF Counts
  <2>3. QED
    BY <2>1, <2>2, FS_AddElement
<1>5. ASSUME NEW a \in Addresses, a # c PROVE About(X, a) = About(W, a)
  BY <1>5 DEF About
<1>6. \A x \in X : x.authorize = (x.address \notin S)
  BY Zenon DEF Counts
<1>7. /\ C \in Tallies /\ C[c].votes = T[c].votes + 1
      /\ \A a \in Addresses \ {c} : C[a] = T[a]
      /\ C[c].authorize = IF T[c].votes > 0 THEN T[c].authorize ELSE v.authorize
  <2>1. CASE T[c].votes > 0
    BY <1>1, <1>2, <2>1 DEF cast, Tallies
  <2>2. CASE ~(T[c].votes > 0)
    BY <1>1, <1>2, <2>2 DEF cast, Tallies
  <2>3. QED
    BY <2>1, <2>2
<1>8. C[c].authorize = (c \notin S)
  <2>1. CASE T[c].votes > 0
    <3>1. Cardinality(About(W, c)) # 0
      BY <2>1, <1>1 DEF Counts
    <3>2. About(W, c) # {}
      BY <3>1, FS_EmptySet
    <3>3. QED
      BY <1>1, <1>7, <2>1, <3>2, Zenon DEF Counts
  <2>2. CASE ~(T[c].votes > 0)
    BY <1>7, <2>2, Zenon
  <2>3. QED
    BY <2>1, <2>2, Zenon
<1>9. ASSUME NEW a \in Addresses
      PROVE  C[a].votes = Cardinality(About(X, a))
             /\ (About(X, a) # {} => C[a].authorize = (a \notin S))
  <2>1. CASE a = c
    BY <2>1, <1>4, <1>7, <1>8, <1>1, Zenon DEF Counts
  <2>2. CASE a # c
    BY <2>2, <1>5, <1>7, Zenon DEF Counts
  <2>3. QED
    BY <2>1, <2>2, Zenon
<1>10. QED
  BY <1>3, <1>6, <1>7, <1>9, Zenon DEF Counts

\* When the status of c changes, the votes on it and its tally are dropped.
LEMMA DropCounts ==
  ASSUME NEW T, NEW W, NEW S, Counts(T, W, S), NEW c \in Addresses, NEW R,
         \A a \in Addresses \ {c} : a \in R <=> a \in S
  PROVE  Counts([T EXCEPT ![c] = NoTally], {v \in W : v.address # c}, R)
<1> DEFINE D == [T EXCEPT ![c] = NoTally]
           X == {v \in W : v.address # c}
<1>1. X \subseteq Votes /\ IsFiniteSet(X)
  <2>1. X \in SUBSET W
    OBVIOUS
  <2>2. QED
    BY <2>1, FS_Subset DEF Counts
<1>2. D \in Tallies /\ D[c] = NoTally /\ \A a \in Addresses \ {c} : D[a] = T[a]
  BY NoTallyType DEF Counts, Tallies
<1>3. About(X, c) = {}
  BY DEF About
<1>4. ASSUME NEW a \in Addresses, a # c PROVE About(X, a) = About(W, a)
  BY <1>4 DEF About
<1>5. \A x \in X : x.authorize = (x.address \notin R)
  <2>1. ASSUME NEW x \in X PROVE x.authorize = (x.address \notin R)
    <3>1. x.address \in Addresses \ {c}
      BY <1>1 DEF Votes
    <3>2. QED
      BY <3>1, Zenon DEF Counts
  <2>2. QED
    BY <2>1, Zenon
<1>6. ASSUME NEW a \in Addresses
      PROVE  D[a].votes = Cardinality(About(X, a))
             /\ (About(X, a) # {} => D[a].authorize = (a \notin R))
  <2>1. CASE a = c
    BY <2>1, <1>2, <1>3, NoTallyType, FS_EmptySet
  <2>2. CASE a # c
    BY <2>2, <1>2, <1>4, Zenon DEF Counts
  <2>3. QED
    BY <2>1, <2>2, Zenon
<1>7. QED
  BY <1>1, <1>2, <1>5, <1>6, Zenon DEF Counts
-----------------------------------------------------------------------------
(***************************************************************************)
(* The inductive invariant.                                                *)
(***************************************************************************)
VoteInv ==
  /\ TypeOK
  /\ Counts(tally, votes, signers) /\ Single(votes)
  /\ \A v \in votes : v.signer \in signers

\* The inductive invariant contains what is claimed of the tally and the list.
LEMMA VoteInvImplies == VoteInv => VotesConsistent
<1> SUFFICES ASSUME VoteInv PROVE VotesConsistent
  OBVIOUS
<1>1. ASSUME NEW a \in Addresses
      PROVE  LET about == {v \in votes : v.address = a}
             IN  /\ tally[a].votes = Cardinality(about)
                 /\ about # {} => tally[a].authorize = (a \notin signers)
  BY Zenon DEF VoteInv, Counts, About
<1>2. QED
  BY <1>1, Zenon DEF VoteInv, Counts, Single, VotesConsistent

\* The votes and the tally a header starts from.
LEMMA StandingCounts ==
  ASSUME VoteInv, NEW n \in Nat
  PROVE  /\ Counts(Counted(n), Standing(n), signers) /\ Single(Standing(n))
         /\ \A v \in Standing(n) : v.signer \in signers
<1>1. CASE n % Epoch = 0
  <2>1. Standing(n) = {} /\ Counted(n) = [a \in Addresses |-> NoTally]
    BY <1>1 DEF Standing, Counted
  <2>2. \A a \in Addresses : About({}, a) = {}
    BY DEF About
  <2>3. Counts([a \in Addresses |-> NoTally], {}, signers)
    BY <2>2, NoTallyType, FS_EmptySet DEF Counts, Tallies
  <2>4. QED
    BY <2>1, <2>3, Zenon DEF Single
<1>2. CASE n % Epoch # 0
  BY <1>2, Zenon DEF Standing, Counted, VoteInv
<1>3. QED
  BY <1>1, <1>2, Zenon

\* The vote of s on c that is replaced is the only one.
LEMMA PreviousAll ==
  ASSUME VoteInv, NEW n \in Nat, NEW s, NEW c
  PROVE  /\ Previous(s, c, n) \in SUBSET Standing(n)
         /\ \A v \in Standing(n) \ Previous(s, c, n) : ~(v.signer = s /\ v.address = c)
<1>1. Previous(s, c, n) \in SUBSET Standing(n)
  BY DEF Previous
<1>2. ASSUME NEW v \in Standing(n), v.signer = s, v.address = c PROVE v \in Previous(s, c, n)
  <2>1. v.block \in Nat
    BY StandingCounts DEF Counts, Votes
  <2>2. \A w \in Standing(n) : w.signer = s /\ w.address = c => w = v
    BY <1>2, StandingCounts, Zenon DEF Single
  <2>3. QED
    BY <1>2, <2>1, <2>2 DEF Previous
<1>3. QED
  BY <1>1, <1>2, Zenon

\* Replacing and counting the vote of a header.
LEMMA AfterCounts ==
  ASSUME VoteInv, NEW n \in Nat, NEW s \in signers, NEW c \in Addresses,
         NEW authorize \in BOOLEAN
  PROVE  /\ Counts(TallyAfter(s, c, authorize, n), VotesAfter(s, c, authorize, n), signers)
         /\ Single(VotesAfter(s, c, authorize, n))
         /\ \A v \in VotesAfter(s, c, authorize, n) : v.signer \in signers
<1> DEFINE kept == Standing(n) \ Previous(s, c, n)
           T    == uncast(Counted(n), Previous(s, c, n))
           new  == [signer |-> s, block |-> n, address |-> c, authorize |-> authorize]
<1>1. Counts(T, kept, signers)
  BY StandingCounts, PreviousAll, UncastCounts
<1>2. Single(kept) /\ \A v \in kept : v.signer \in signers
  BY StandingCounts, Zenon DEF Single
<1>3. \A v \in kept : ~(v.signer = s /\ v.address = c)
  BY PreviousAll
<1>4. CASE validVote(c, authorize)
  <2>1. VotesAfter(s, c, authorize, n) = kept \cup {new}
        /\ TallyAfter(s, c, authorize, n) = cast(T, c, authorize)
    BY <1>4, Zenon DEF VotesAfter, TallyAfter
  <2>2. new.signer = s /\ new.address = c /\ new.authorize = authorize /\ new \in Votes
    BY DEF VoteInv, TypeOK, Votes
  <2>3. new \notin kept /\ Single(kept \cup {new})
    BY <1>2, <1>3, <2>2, Zenon DEF Single
  <2>4. new.authorize = (new.address \notin signers)
    BY <1>4, <2>2, Zenon DEF validVote
  <2> HIDE DEF new, kept, T
  <2>5. Counts(cast(T, new.address, new.authorize), kept \cup {new}, signers)
    BY <1>1, <2>2, <2>3, <2>4, CastCounts
  <2>6. QED
    BY <1>2, <2>1, <2>2, <2>3, <2>5, Zenon
<1>5. CASE ~validVote(c, authorize)
  BY <1>1, <1>2, <1>5, Zenon DEF VotesAfter, TallyAfter
<1>6. QED
  BY <1>4, <1>5, Zenon

\* Snapshot.apply keeps the tally equal to the count of the votes, whether the
\* vote of the header passes or not.
LEMMA ApplyCounts ==
  ASSUME VoteInv, NEW s \in signers, NEW c \in Addresses, NEW authorize \in BOOLEAN,
         Apply(s, c, authorize)
  PROVE  /\ Counts(tally', votes', signers') /\ Single(votes')
         /\ \A v \in votes' : v.signer \in signers'
         /\ signers' \subseteq Addresses
<1> DEFINE n   == number + 1
           V   == VotesAfter(s, c, authorize, n)
           T   == TallyAfter(s, c, authorize, n)
           cut == {v \in V : v.signer = c}
<1>1. n \in Nat /\ signers \subseteq Addresses
  BY DEF VoteInv, TypeOK
<1>2. Counts(T, V, signers) /\ Single(V) /\ \A v \in V : v.signer \in signers
  BY <1>1, AfterCounts
<1>3. \/ signers' = signers /\ votes' = V /\ tally' = T
      \/ /\ signers' = signers \cup {c} /\ votes' = {v \in V : v.address # c}
         /\ tally' = [T EXCEPT ![c] = NoTally]
      \/ /\ signers' = signers \ {c}
         /\ votes' = {v \in V : v.signer # c /\ v.address # c}
         /\ tally' = [uncast(T, cut) EXCEPT ![c] = NoTally]
  BY Zenon DEF Apply
<1> HIDE DEF V, T
<1>4. CASE signers' = signers /\ votes' = V /\ tally' = T
  BY <1>1, <1>2, <1>4, Zenon
<1>5. CASE /\ signers' = signers \cup {c} /\ votes' = {v \in V : v.address # c}
           /\ tally' = [T EXCEPT ![c] = NoTally]
  <2>1. Counts(tally', votes', signers')
    BY <1>2, <1>5, DropCounts
  <2>2. QED
    BY <1>1, <1>2, <1>5, <2>1, Zenon DEF Single
<1>6. CASE /\ signers' = signers \ {c}
           /\ votes' = {v \in V : v.signer # c /\ v.address # c}
           /\ tally' = [uncast(T, cut) EXCEPT ![c] = NoTally]
  <2>1. cut \in SUBSET V /\ votes' = {v \in V \ cut : v.address # c}
    BY <1>6
  <2>2. Counts(uncast(T, cut), V \ cut, signers)
    BY <1>2, <2>1, UncastCounts
  <2> HIDE DEF cut
  <2>3. Counts(tally', votes', signers')
    <3>1. \A a \in Addresses \ {c} : a \in signers \ {c} <=> a \in signers
      OBVIOUS
    <3>2. Counts([uncast(T, cut) EXCEPT ![c] = NoTally],
                 {v \in V \ cut : v.address # c}, signers \ {c})
      BY <2>2, <3>1, DropCounts, ZenonT(30)
    <3>3. QED
      BY <1>6, <2>1, <3>2, Zenon
  <2>4. QED
    BY <1>1, <1>2, <1>6, <2>3, Zenon DEF Single
<1>7. QED
  BY <1>3, <1>4, <1>5, <1>6, Zenon

\* Every entry of Recents names a block and an account, also after a step.
LEMMA ApplyTypes ==
  ASSUME TypeOK, NEW s \in signers, NEW c, NEW authorize, Apply(s, c, authorize)
  PROVE  number' \in Nat /\ recents' \subseteq [block : Nat, signer : Addresses]
<1> DEFINE n == number + 1
           R == Shift(recents, signers, n) \cup {[block |-> n, signer |-> s]}
<1>1. n \in Nat /\ number' = n
  BY DEF TypeOK, Apply
<1>2. recents' = R \/ recents' = Shift(R, signers \ {c}, n)
  BY Zenon DEF Apply, DropLeftover
<1>3. recents' \subseteq R
  BY <1>2, Zenon DEF Shift
<1>4. R \subseteq [block : Nat, signer : Addresses]
  BY <1>1 DEF Shift, TypeOK
<1>5. QED
  BY <1>1, <1>3, <1>4, Zenon

\* A header that becomes the head: its snapshot is made, or does not exist.
LEMMA ExtendInv ==
  ASSUME VoteInv, NEW s \in Addresses, NEW c \in Addresses, NEW authorize \in BOOLEAN,
         Extend(s, c, authorize)
  PROVE  /\ Counts(tally', votes', signers') /\ Single(votes')
         /\ \A v \in votes' : v.signer \in signers'
         /\ number' \in Nat /\ signers' \subseteq Addresses
         /\ recents' \subseteq [block : Nat, signer : Addresses]
         /\ stuck' \in BOOLEAN
<1>1. CASE Applies(s) /\ Apply(s, c, authorize) /\ UNCHANGED stuck
  <2>1. s \in signers
    BY <1>1 DEF Applies
  <2>2. TypeOK
    BY DEF VoteInv
  <2>3. stuck' \in BOOLEAN
    BY <1>1, <2>2, Zenon DEF TypeOK
  <2>4. QED
    BY <1>1, <2>1, <2>2, <2>3, ApplyCounts, ApplyTypes, Zenon
<1>2. CASE stuck' = TRUE /\ UNCHANGED snap
  <2>1. UNCHANGED <<number, signers, recents, votes, tally>>
    BY <1>2 DEF snap
  <2>2. /\ number' = number /\ signers' = signers /\ recents' = recents
        /\ votes' = votes /\ tally' = tally
    BY <2>1
  <2>3. QED
    BY <1>2, <2>2, Zenon DEF VoteInv, TypeOK
<1>3. QED
  BY <1>1, <1>2, Zenon DEF Extend

\* Only a header changes the snapshot; the local signer's calls do not.
LEMMA VoteInvStep == VoteInv /\ [Next]_vars => VoteInv'
<1> SUFFICES ASSUME VoteInv, [Next]_vars PROVE VoteInv'
  OBVIOUS
<1>0. /\ TypeOK /\ Counts(tally, votes, signers) /\ Single(votes)
      /\ \A v \in votes : v.signer \in signers
  BY DEF VoteInv
<1>1. ASSUME NEW s \in Addresses, NEW c \in Addresses, NEW authorize \in BOOLEAN,
             InsertHeader(s, c, authorize)
      PROVE  VoteInv'
  <2>1. Extend(s, c, authorize)
        /\ signer' = signer /\ proposals' = proposals /\ work' = work /\ panicked' = panicked
    BY <1>1 DEF InsertHeader, local
  <2>2. /\ Counts(tally', votes', signers') /\ Single(votes')
        /\ \A v \in votes' : v.signer \in signers'
        /\ number' \in Nat /\ signers' \subseteq Addresses
        /\ recents' \subseteq [block : Nat, signer : Addresses]
        /\ stuck' \in BOOLEAN
    BY <2>1, ExtendInv
  <2>3. votes' \subseteq Votes /\ tally' \in [Addresses -> [authorize : BOOLEAN, votes : Nat]]
    BY <2>2, Zenon DEF Counts, Tallies
  <2>4. TypeOK'
    BY <1>0, <2>1, <2>2, <2>3, Zenon DEF TypeOK
  <2>5. QED
    BY <2>2, <2>4, Zenon DEF VoteInv
<1>2. CASE Seal
  <2>1. Extend(signer, work.coinbase, work.authorize) /\ work' = NoWork
        /\ signer' = signer /\ proposals' = proposals /\ panicked' = panicked
    BY <1>2 DEF Seal
  <2>2. signer \in Addresses /\ work \in Works
    BY <1>0, <1>2, Zenon DEF Seal, TypeOK
  <2>3. work.coinbase \in Addresses /\ work.authorize \in BOOLEAN
    BY <2>2 DEF Works
  <2>4. /\ Counts(tally', votes', signers') /\ Single(votes')
        /\ \A v \in votes' : v.signer \in signers'
        /\ number' \in Nat /\ signers' \subseteq Addresses
        /\ recents' \subseteq [block : Nat, signer : Addresses]
        /\ stuck' \in BOOLEAN
    BY <2>1, <2>2, <2>3, ExtendInv
  <2>5. votes' \subseteq Votes /\ tally' \in [Addresses -> [authorize : BOOLEAN, votes : Nat]]
    BY <2>4, Zenon DEF Counts, Tallies
  <2>6. TypeOK'
    BY <1>0, <2>1, <2>4, <2>5, Zenon DEF TypeOK
  <2>7. QED
    BY <2>4, <2>6, Zenon DEF VoteInv
<1>3. ASSUME number' = number, signers' = signers, recents' = recents, votes' = votes,
             tally' = tally, stuck' = stuck, panicked' \in BOOLEAN, signer' \in Addresses,
             proposals' \subseteq Addresses \X BOOLEAN,
             \A p, q \in proposals' : p[1] = q[1] => p = q,
             work' \in Works \cup {NoWork}
      PROVE  VoteInv'
  BY <1>0, <1>3, Zenon DEF VoteInv, TypeOK
<1>4. ASSUME NEW a \in Addresses, NEW authorize \in BOOLEAN, Propose(a, authorize)
      PROVE  VoteInv'
  <2>1. proposals' \subseteq Addresses \X BOOLEAN
        /\ \A p, q \in proposals' : p[1] = q[1] => p = q
    BY <1>0, <1>4 DEF Propose, TypeOK
  <2>2. QED
    BY <1>0, <1>3, <1>4, <2>1, Zenon DEF Propose, TypeOK, snap
<1>5. ASSUME NEW a \in Addresses, Discard(a) PROVE VoteInv'
  <2>1. proposals' \subseteq proposals
    BY <1>5 DEF Discard
  <2>2. QED
    BY <1>0, <1>3, <1>5, <2>1, Zenon DEF Discard, TypeOK, snap
<1>6. ASSUME NEW a \in Addresses, Authorize(a) PROVE VoteInv'
  BY <1>0, <1>3, <1>6, Zenon DEF Authorize, TypeOK, snap
<1>7. CASE Prepare
  <2>1. work' \in Works
    <3> DEFINE sensible == {p \in proposals : validVote(p[1], p[2]) /\ (number + 1) % Epoch # 0}
               ballots  == IF sensible = {} THEN {<<0, FALSE>>} ELSE sensible
    <3>1. PICK p \in ballots :
            work' = [number |-> number + 1, coinbase |-> p[1], authorize |-> p[2],
                     difficulty |-> TurnDifficulty(number + 1, signer), signer |-> signer]
      BY <1>7, Zenon DEF Prepare
    <3>2. p \in Addresses \X BOOLEAN
      <4>1. p = <<0, FALSE>> \/ p \in proposals
        BY Zenon
      <4>2. <<0, FALSE>> \in Addresses \X BOOLEAN
        BY CliqueAssumption
      <4>3. QED
        BY <1>0, <4>1, <4>2, Zenon DEF TypeOK
    <3>3. /\ p[1] \in Addresses /\ p[2] \in BOOLEAN /\ number + 1 \in Nat
          /\ signer \in Addresses
      BY <1>0, <3>2 DEF TypeOK
    <3>4. TurnDifficulty(number + 1, signer) \in {diffInTurn, diffNoTurn}
      BY Zenon DEF TurnDifficulty
    <3>5. QED
      BY <3>1, <3>3, <3>4 DEF Works
  <2>2. QED
    BY <1>0, <1>3, <1>7, <2>1, Zenon DEF Prepare, TypeOK, snap
<1>8. CASE PreparePanics
  BY <1>0, <1>3, <1>8, Zenon DEF PreparePanics, TypeOK, snap
<1>9. CASE UNCHANGED vars
  BY <1>0, <1>3, <1>9, Zenon DEF vars, snap, local, TypeOK
<1>10. QED
  BY <1>1, <1>2, <1>4, <1>5, <1>6, <1>7, <1>8, <1>9, Zenon DEF Next, Network, Local

\* The genesis snapshot has no votes.
LEMMA VoteInvInit == Init => VoteInv
<1> SUFFICES ASSUME Init PROVE VoteInv
  OBVIOUS
<1>1. TypeOK
  BY CliqueAssumption, NoTallyType DEF Init, TypeOK
<1>2. \A a \in Addresses : About({}, a) = {}
  BY DEF About
<1>3. Counts(tally, votes, signers)
  BY <1>2, NoTallyType, FS_EmptySet DEF Init, Counts, Tallies
<1>4. QED
  BY <1>1, <1>3, Zenon DEF Init, VoteInv, Single

\* Type correctness of the engine's state and the facts about the votes, as one
\* inductive invariant: the tally can only be right when there is at most one
\* vote per signer and account and every vote is one to change a status.
THEOREM VoteInvariant == Spec => []VoteInv
BY VoteInvInit, VoteInvStep, PTL DEF Spec

\* Every variable of the engine keeps its type: a tally never goes below zero,
\* there is at most one proposal per account, and the miner's header is complete.
THEOREM CliqueTypeCorrect == Spec => []TypeOK
<1>1. VoteInv => TypeOK
  BY DEF VoteInv
<1>2. QED
  BY <1>1, VoteInvariant, PTL

\* The cached tally of every account is the number of votes in the list about
\* it, all of current signers, at most one each (apply, cast, uncast), for every
\* set of accounts, initial signers and epoch length.
THEOREM TallyIsCount == Spec => []VotesConsistent
BY VoteInvImplies, VoteInvariant, PTL
-----------------------------------------------------------------------------
(***************************************************************************)
(* The snapshot implements Voting.                                         *)
(***************************************************************************)
\* The ballots a vote list stands for, and the signers who have one about c.
Pairs(W) == {<<v.signer, v.address>> : v \in W}

Favor(W, S, c) == {x \in S : <<x, c>> \in Pairs(W)}

\* The ballots B after a header of s with a vote about c.
Cast(B, s, c, authorize, checkpoint) ==
  LET kept == (IF checkpoint THEN {} ELSE B) \ {<<s, c>>}
  IN  IF authorize = (c \notin signers) THEN kept \cup {<<s, c>>} ELSE kept

\* A ballot is in Pairs exactly when a vote stands for it.
LEMMA PairsMember ==
  ASSUME NEW W, NEW x, NEW a
  PROVE  <<x, a>> \in Pairs(W) <=> \E v \in W : v.signer = x /\ v.address = a
BY DEF Pairs

\* Voting counts with the same cardinality.
LEMMA SameCardinality == \A S : Ballots!Cardinality(S) = Cardinality(S)
BY DEF Ballots!Cardinality, Cardinality

\* The tally of an account is the number of signers with a ballot about it.
LEMMA TallyIsFavor ==
  ASSUME NEW T, NEW W, NEW S, Counts(T, W, S), Single(W),
         \A v \in W : v.signer \in S, NEW c \in Addresses
  PROVE  /\ IsFiniteSet(Favor(W, S, c)) /\ Cardinality(Favor(W, S, c)) = T[c].votes
         /\ Favor(W, S, c) # {} => T[c].authorize = (c \notin S)
<1> DEFINE A == About(W, c)
           F == Favor(W, S, c)
           f == [v \in A |-> v.signer]
<1>1. F = {x \in S : \E v \in A : v.signer = x}
  BY PairsMember DEF Favor, About
<1>2. f \in Bijection(A, F)
  <2>1. f \in [A -> F]
    BY <1>1 DEF About
  <2>2. \A v, w \in A : f[v] = f[w] => v = w
    BY DEF Single, About
  <2>3. \A x \in F : \E v \in A : f[v] = x
    BY <1>1
  <2>4. QED
    BY <2>1, <2>2, <2>3, Zenon DEF Bijection, Injection, Surjection, IsInjective
<1>3. IsFiniteSet(A) /\ Cardinality(A) \in Nat
  BY AboutFinite DEF Counts
<1>4. IsFiniteSet(F) /\ Cardinality(F) = Cardinality(A)
  <2>1. ExistsBijection(A, F)
    BY <1>2, Zenon DEF ExistsBijection
  <2>2. QED
    BY <1>3, <2>1, FS_Bijection
<1>5. F # {} => A # {}
  BY <1>1
<1>6. QED
  BY <1>4, <1>5, Zenon DEF Counts

\* The ballots after the vote of a header was replaced and counted.
LEMMA AfterPairs ==
  ASSUME VoteInv, NEW n \in Nat, NEW s \in signers, NEW c \in Addresses,
         NEW authorize \in BOOLEAN,
         NEW checkpoint \in BOOLEAN, checkpoint <=> n % Epoch = 0
  PROVE  Pairs(VotesAfter(s, c, authorize, n)) = Cast(Pairs(votes), s, c, authorize, checkpoint)
<1> DEFINE W    == Standing(n) \ Previous(s, c, n)
           new  == [signer |-> s, block |-> n, address |-> c, authorize |-> authorize]
           kept == (IF checkpoint THEN {} ELSE Pairs(votes)) \ {<<s, c>>}
<1>1. Pairs(Standing(n)) = IF checkpoint THEN {} ELSE Pairs(votes)
  BY DEF Standing, Pairs
<1>2. Pairs(W) = Pairs(Standing(n)) \ {<<s, c>>}
  <2>1. \A v \in Standing(n) : v \in W <=> ~(v.signer = s /\ v.address = c)
    BY PreviousAll DEF Previous
  <2> HIDE DEF W
  <2>2. W \subseteq Standing(n)
    BY DEF W
  <2>3. QED
    BY <2>1, <2>2 DEF Pairs
<1>3. CASE validVote(c, authorize)
  <2>1. VotesAfter(s, c, authorize, n) = W \cup {new}
    BY <1>3, Zenon DEF VotesAfter
  <2>2. Pairs(W \cup {new}) = Pairs(W) \cup {<<s, c>>}
    <3>1. new.signer = s /\ new.address = c
      OBVIOUS
    <3> HIDE DEF W, new
    <3>2. QED
      BY <3>1 DEF Pairs
  <2>3. QED
    BY <1>1, <1>2, <1>3, <2>1, <2>2, Zenon DEF validVote, Cast
<1>4. CASE ~validVote(c, authorize)
  <2>1. VotesAfter(s, c, authorize, n) = W
    BY <1>4, Zenon DEF VotesAfter
  <2>2. QED
    BY <1>1, <1>2, <1>4, <2>1, Zenon DEF validVote, Cast
<1>5. QED
  BY <1>3, <1>4, Zenon

\* Snapshot.apply of a header is one step of Voting.
LEMMA ApplyVotes ==
  ASSUME VoteInv, NEW s \in signers, NEW c \in Addresses, NEW authorize \in BOOLEAN,
         Apply(s, c, authorize),
         NEW checkpoint \in BOOLEAN, checkpoint <=> (number + 1) % Epoch = 0
  PROVE  Ballots!Header(s, c, authorize, checkpoint)
<1> DEFINE n   == number + 1
           V   == VotesAfter(s, c, authorize, n)
           T   == TallyAfter(s, c, authorize, n)
           cut == {v \in V : v.signer = c}
           castB == Cast(Pairs(votes), s, c, authorize, checkpoint)
<1>1. n \in Nat /\ signers \subseteq Addresses
  BY DEF VoteInv, TypeOK
<1>2. Counts(T, V, signers) /\ Single(V) /\ \A v \in V : v.signer \in signers
  BY <1>1, AfterCounts
<1>3. Pairs(V) = castB
  BY <1>1, AfterPairs, ZenonT(30)
<1>4. \/ /\ ~Passed(T, c) /\ signers' = signers /\ votes' = V
      \/ /\ Passed(T, c) /\ T[c].authorize /\ signers' = signers \cup {c}
         /\ votes' = {v \in V : v.address # c}
      \/ /\ Passed(T, c) /\ ~T[c].authorize /\ signers' = signers \ {c}
         /\ votes' = {v \in V : v.signer # c /\ v.address # c}
  BY Zenon DEF Apply
<1> HIDE DEF V, T
<1>5. /\ IsFiniteSet(Favor(V, signers, c)) /\ Cardinality(Favor(V, signers, c)) = T[c].votes
      /\ Favor(V, signers, c) # {} => T[c].authorize = (c \notin signers)
  BY <1>2, TallyIsFavor, Zenon
<1>6. IsFiniteSet(signers) /\ Cardinality(signers) \in Nat /\ T[c].votes \in Nat
  BY <1>1, <1>5, CliqueAssumption, FS_Subset, FS_CardinalityType
<1>7. Passed(T, c) => T[c].authorize = (c \notin signers)
  <2>1. Passed(T, c) => Cardinality(Favor(V, signers, c)) # 0
    BY <1>5, <1>6 DEF Passed
  <2>2. QED
    BY <1>5, <2>1, FS_EmptySet, Zenon
<1>8. Passed(T, c) <=> ~(Cardinality(Favor(V, signers, c)) <= Cardinality(signers) \div 2)
  BY <1>5, <1>6 DEF Passed
<1>9. /\ ~Passed(T, c) => signers' = signers /\ Pairs(votes') = castB
      /\ Passed(T, c) =>
           /\ signers' = IF c \in signers THEN signers \ {c} ELSE signers \cup {c}
           /\ Pairs(votes') = {x \in castB : x[2] # c /\ x[1] \in signers'}
  <2>1. CASE ~Passed(T, c)
    BY <1>3, <1>4, <2>1, Zenon
  <2>2. CASE Passed(T, c)
    <3>1. signers' = IF c \in signers THEN signers \ {c} ELSE signers \cup {c}
      BY <1>4, <1>7, <2>2, Zenon
    <3>2. votes' = {v \in V : v.address # c /\ v.signer \in signers'}
      BY <1>2, <1>4, <2>2, Zenon
    <3>3. Pairs(votes') = {x \in Pairs(V) : x[2] # c /\ x[1] \in signers'}
      BY <3>2 DEF Pairs
    <3>4. QED
      BY <1>3, <2>2, <3>1, <3>3, Zenon
  <2>3. QED
    BY <2>1, <2>2, Zenon
<1>10. Favor(V, signers, c) = {x \in signers : <<x, c>> \in castB}
  BY <1>3, Zenon DEF Favor
<1>11. IF Cardinality({x \in signers : <<x, c>> \in castB}) <= Cardinality(signers) \div 2
       THEN signers' = signers /\ Pairs(votes') = castB
       ELSE /\ signers' = IF c \in signers THEN signers \ {c} ELSE signers \cup {c}
            /\ Pairs(votes') = {x \in castB : x[2] # c /\ x[1] \in signers'}
  BY <1>8, <1>9, <1>10, Zenon
<1>12. QED
  BY <1>11, SameCardinality, Zenon DEF Ballots!Header, Pairs, Cast

\* A header whose snapshot does not exist leaves the votes alone.
LEMMA ExtendVotes ==
  ASSUME VoteInv, NEW s \in Addresses, NEW c \in Addresses, NEW authorize \in BOOLEAN,
         Extend(s, c, authorize)
  PROVE  [Ballots!Next]_<<signers, Pairs(votes)>>
<1>1. CASE Applies(s) /\ Apply(s, c, authorize)
  <2>1. s \in signers
    BY <1>1 DEF Applies
  <2>2. PICK checkpoint \in BOOLEAN : checkpoint <=> (number + 1) % Epoch = 0
    OBVIOUS
  <2>3. Ballots!Header(s, c, authorize, checkpoint)
    BY <1>1, <2>1, <2>2, ApplyVotes
  <2>4. QED
    BY <2>3, Zenon DEF Ballots!Next
<1>2. CASE UNCHANGED snap
  BY <1>2, Zenon DEF snap, Pairs
<1>3. QED
  BY <1>1, <1>2, Zenon DEF Extend

\* Every step of the engine is a step of Voting or leaves its state alone.
LEMMA VotingStep ==
  ASSUME VoteInv, [Next]_vars
  PROVE  [Ballots!Next]_<<signers, Pairs(votes)>>
<1>1. ASSUME NEW s \in Addresses, NEW c \in Addresses, NEW authorize \in BOOLEAN,
             InsertHeader(s, c, authorize)
      PROVE  [Ballots!Next]_<<signers, Pairs(votes)>>
  BY <1>1, ExtendVotes DEF InsertHeader
<1>2. CASE Seal
  <2>1. signer \in Addresses /\ work \in Works
    BY <1>2, Zenon DEF Seal, VoteInv, TypeOK
  <2>2. work.coinbase \in Addresses /\ work.authorize \in BOOLEAN
    BY <2>1 DEF Works
  <2>3. QED
    BY <1>2, <2>1, <2>2, ExtendVotes DEF Seal
<1>3. ASSUME UNCHANGED snap PROVE [Ballots!Next]_<<signers, Pairs(votes)>>
  BY <1>3, Zenon DEF snap, Pairs
<1>4. CASE \/ \E a \in Addresses, authorize \in BOOLEAN : Propose(a, authorize)
           \/ \E a \in Addresses : Discard(a) \/ Authorize(a)
           \/ Prepare \/ PreparePanics
  BY <1>3, <1>4, Zenon DEF Propose, Discard, Authorize, Prepare, PreparePanics
<1>5. CASE UNCHANGED vars
  BY <1>3, <1>5, Zenon DEF vars
<1>6. QED
  BY <1>1, <1>2, <1>4, <1>5, Zenon DEF Next, Network, Local

\* The snapshot implements Voting: the tally and the vote list that apply keeps
\* up to date incrementally decide as if the ballots were counted at every block.
THEOREM VotingRefinement == Spec => ImplementsVoting
<1>1. Init => Ballots!Init
  BY DEF Init, Ballots!Init
<1>2. VoteInv /\ [Next]_vars => [Ballots!Next]_<<signers, {<<v.signer, v.address>> : v \in votes}>>
  BY VotingStep, Zenon DEF Pairs
<1>3. QED
  BY <1>1, <1>2, VoteInvariant, PTL DEF Spec, ImplementsVoting, Ballots!Spec
=============================================================================
