------------------------ MODULE CliqueRotationProofs ------------------------
(***************************************************************************)
(* The rotation of the signers, for every set of accounts and signers: the *)
(* window of recent signers, and what follows from it for the headers that *)
(* verifySeal, Seal and apply accept.                                      *)
(***************************************************************************)
EXTENDS CliqueVoteProofs

\* The window moves by at most one block when one signer comes or goes.
LEMMA LimitFacts ==
  ASSUME NEW S \in SUBSET Addresses
  PROVE  /\ IsFiniteSet(S) /\ Cardinality(S) \in Nat
         /\ Limit(S) \in Nat /\ Limit(S) >= 1
         /\ \A c \in Addresses : /\ Limit(S \cup {c}) \in {Limit(S), Limit(S) + 1}
                                 /\ Limit(S \ {c}) \in {Limit(S), Limit(S) - 1}
<1>1. IsFiniteSet(S) /\ Cardinality(S) \in Nat
  BY CliqueAssumption, FS_Subset, FS_CardinalityType
<1>2. Limit(S) \in Nat /\ Limit(S) >= 1
  BY <1>1 DEF Limit
<1>3. ASSUME NEW c \in Addresses
      PROVE  /\ Limit(S \cup {c}) \in {Limit(S), Limit(S) + 1}
             /\ Limit(S \ {c}) \in {Limit(S), Limit(S) - 1}
  <2>1. Cardinality(S \cup {c}) \in {Cardinality(S), Cardinality(S) + 1}
    BY <1>1, FS_AddElement
  <2>2. Cardinality(S \ {c}) \in {Cardinality(S), Cardinality(S) - 1} /\ Cardinality(S \ {c}) \in Nat
    BY <1>1, FS_RemoveElement, FS_CardinalityType
  <2>3. QED
    BY <1>1, <2>1, <2>2 DEF Limit
<1>4. QED
  BY <1>1, <1>2, <1>3

\* R has entries for the last L - 1 blocks up to n, none for a block before the
\* last L, and no signer twice.
Window(R, L, n) ==
  /\ \A r \in R : 1 <= r.block /\ r.block <= n /\ n < r.block + L
  /\ \A k \in 1..n : k > n + 1 - L => \E r \in R : r.block = k
  /\ \A r, q \in R : r.block = q.block \/ r.signer = q.signer => r = q

\* The entries that apply's first delete leaves.
LEMMA Shifted ==
  ASSUME TypeOK, RecentsWindow
  PROVE  Shift(recents, signers, number + 1)
           = {r \in recents : r.block > (number + 1) - Limit(signers)}
<1>1. \A r \in recents : r.block \in Nat /\ 1 <= r.block /\ number < r.block + Limit(signers)
  BY DEF TypeOK, RecentsWindow
<1>2. number \in Nat /\ Limit(signers) \in Nat
  BY LimitFacts DEF TypeOK
<1>3. QED
  BY <1>1, <1>2 DEF Shift

\* apply keeps the window: the header's own entry comes in at one end, and one
\* or two entries go out at the other.
LEMMA ApplyWindow ==
  ASSUME TypeOK, RecentsWindow, NEW s, NEW c \in Addresses, NEW authorize,
         Applies(s), Apply(s, c, authorize)
  PROVE  RecentsWindow'
<1> DEFINE n == number + 1
           L == Limit(signers)
           A == {r \in recents : r.block > n - L}
           new == [block |-> n, signer |-> s]
           R == A \cup {new}
<1>1. /\ number \in Nat /\ n \in Nat /\ signers \in SUBSET Addresses
      /\ L \in Nat /\ L >= 1 /\ number' = n
  BY LimitFacts DEF TypeOK, Apply
<1>2. /\ \A r \in A : r.signer # s
      /\ \/ signers' = signers /\ recents' = R
         \/ signers' = signers \cup {c} /\ recents' = R
         \/ signers' = signers \ {c} /\ recents' = Shift(R, signers \ {c}, n)
  <2>1. Shift(recents, signers, n) = A
    BY Shifted, Zenon
  <2>2. /\ \A r \in Shift(recents, signers, n) : r.signer # s
        /\ \/ signers' = signers /\ recents' = Shift(recents, signers, n) \cup {new}
           \/ /\ signers' = signers \cup {c}
              /\ recents' = Shift(recents, signers, n) \cup {new}
           \/ /\ signers' = signers \ {c}
              /\ recents' = Shift(Shift(recents, signers, n) \cup {new}, signers \ {c}, n)
    BY Zenon DEF Apply, Applies, DropLeftover
  <2> HIDE DEF A, n, new
  <2>3. QED
    BY <2>1, <2>2, Zenon
<1>3. new.block = n /\ new.signer = s
  OBVIOUS
<1>4. \A r \in recents : r.block \in Nat /\ 1 <= r.block /\ r.block <= number
  BY DEF TypeOK, RecentsWindow
<1> HIDE DEF new
<1>5. \A r \in R : r.block \in Nat /\ 1 <= r.block /\ r.block <= n /\ r.block > n - L
  BY <1>1, <1>3, <1>4
<1>6. \A k \in 1..n : k > n - L => \E r \in R : r.block = k
  <2>1. ASSUME NEW k \in 1..n, k > n - L PROVE \E r \in R : r.block = k
    <3>1. CASE k = n
      BY <1>3, <3>1
    <3>2. CASE k # n
      <4>1. k \in 1..number /\ k > number + 1 - L
        BY <1>1, <2>1, <3>2
      <4>2. PICK r \in recents : r.block = k
        BY <4>1 DEF RecentsWindow
      <4>3. QED
        BY <2>1, <4>2
    <3>3. QED
      BY <3>1, <3>2
  <2>2. QED
    BY <2>1
<1>7. \A r, q \in R : r.block = q.block \/ r.signer = q.signer => r = q
  <2>1. \A r \in A : r.block # n
    BY <1>1, <1>4
  <2>2. QED
    BY <1>2, <1>3, <2>1, Zenon DEF RecentsWindow
<1> HIDE DEF R, L, n
<1>8. Window(recents', Limit(signers'), n)
  <2>1. CASE signers' = signers /\ recents' = R
    BY <2>1, <1>1, <1>5, <1>6, <1>7 DEF Window, L
  <2>2. CASE signers' = signers \cup {c} /\ recents' = R
    <3>1. Limit(signers') \in {L, L + 1}
      BY <2>2, <1>1, LimitFacts DEF L
    <3>2. QED
      BY <2>2, <3>1, <1>1, <1>5, <1>6, <1>7 DEF Window
  <2>3. CASE signers' = signers \ {c} /\ recents' = Shift(R, signers \ {c}, n)
    <3>1. Limit(signers') \in {L, L - 1} /\ Limit(signers') \in Nat /\ Limit(signers') >= 1
      BY <2>3, <1>1, LimitFacts DEF L
    <3>2. recents' = {r \in R : ~(n >= Limit(signers') /\ r.block = n - Limit(signers'))}
      BY <2>3 DEF Shift
    <3>3. \A r \in recents' : n < r.block + Limit(signers')
      BY <3>1, <3>2, <1>1, <1>5
    <3>4. \A k \in 1..n : k > n + 1 - Limit(signers') => \E r \in recents' : r.block = k
      BY <3>1, <3>2, <1>1, <1>6
    <3>5. QED
      BY <3>2, <3>3, <3>4, <1>5, <1>7 DEF Window
  <2>4. QED
    BY <1>2, <2>1, <2>2, <2>3, Zenon
<1>9. QED
  BY <1>1, <1>8, Zenon DEF Window, RecentsWindow

-----------------------------------------------------------------------------
(***************************************************************************)
(* A step changes the snapshot by apply, or not at all.                    *)
(***************************************************************************)
LEMMA SnapshotStep ==
  ASSUME TypeOK, [Next]_vars
  PROVE  \/ UNCHANGED snap
         \/ \E s, c \in Addresses : \E authorize \in BOOLEAN :
              Applies(s) /\ Apply(s, c, authorize)
<1>1. ASSUME NEW s \in Addresses, NEW c \in Addresses, NEW authorize \in BOOLEAN,
             Extend(s, c, authorize)
      PROVE  \/ UNCHANGED snap
             \/ \E s1, c1 \in Addresses : \E authorize1 \in BOOLEAN :
                  Applies(s1) /\ Apply(s1, c1, authorize1)
  BY <1>1, Zenon DEF Extend
<1>2. CASE Network
  BY <1>1, <1>2, Zenon DEF Network, InsertHeader
<1>3. CASE Seal
  <2>1. signer \in Addresses /\ work \in Works
    BY <1>3, Zenon DEF Seal, TypeOK
  <2>2. work.coinbase \in Addresses /\ work.authorize \in BOOLEAN
    BY <2>1 DEF Works
  <2>3. QED
    BY <1>1, <1>3, <2>1, <2>2, Zenon DEF Seal
<1>4. CASE \/ \E a \in Addresses, authorize \in BOOLEAN : Propose(a, authorize)
           \/ \E a \in Addresses : Discard(a) \/ Authorize(a)
           \/ Prepare \/ PreparePanics
  BY <1>4, Zenon DEF Propose, Discard, Authorize, Prepare, PreparePanics
<1>5. CASE UNCHANGED vars
  BY <1>5, Zenon DEF vars
<1>6. QED
  BY <1>2, <1>3, <1>4, <1>5, Zenon DEF Next, Local

\* RecentsWindow is inductive.
LEMMA WindowStep ==
  ASSUME TypeOK, RecentsWindow, [Next]_vars
  PROVE  RecentsWindow'
<1>1. CASE UNCHANGED snap
  <2>1. number' = number /\ signers' = signers /\ recents' = recents
    BY <1>1 DEF snap
  <2>2. QED
    BY <2>1, Zenon DEF RecentsWindow, Limit
<1>2. QED
  BY <1>1, SnapshotStep, ApplyWindow, Zenon

\* Recents covers the last limit - 1 blocks and none before the last limit ones,
\* with nobody in it twice, for every number of signers and every sequence of
\* passed votes: the two deletes of apply are enough.
THEOREM RecentsWindowHolds == Spec => []RecentsWindow
<1>1. Init => RecentsWindow
  BY DEF Init, RecentsWindow
<1>2. QED
  BY <1>1, WindowStep, CliqueTypeCorrect, PTL DEF Spec

\* Fewer signers are in the window than there are signers.
LEMMA WindowLeavesOne ==
  ASSUME TypeOK, RecentsWindow, signers # {}
  PROVE  \E s \in signers : Applies(s)
<1> DEFINE A == {r \in recents : r.block > (number + 1) - Limit(signers)}
           entry(s) == CHOOSE r \in A : r.signer = s
           f == [s \in signers |-> entry(s).block]
           I == (number + 2 - Limit(signers))..number
<1>1. SUFFICES ASSUME \A s \in signers : \E r \in A : r.signer = s PROVE FALSE
  BY Shifted, Zenon DEF Applies
<1>2. \A s \in signers : entry(s) \in A /\ entry(s).signer = s
  BY <1>1, Zenon
<1> HIDE DEF entry
<1>3. /\ number \in Nat /\ IsFiniteSet(signers) /\ Cardinality(signers) \in Nat
      /\ Limit(signers) \in Nat
  BY LimitFacts DEF TypeOK
<1>4. \A r \in A : r.block \in I
  BY <1>3 DEF TypeOK, RecentsWindow
<1>5. f \in Injection(signers, I)
  <2>1. f \in [signers -> I]
    BY <1>2, <1>4
  <2>2. \A s, t \in signers : f[s] = f[t] => s = t
    <3>1. ASSUME NEW s \in signers, NEW t \in signers, entry(s).block = entry(t).block
          PROVE  s = t
      <4>1. entry(s) \in recents /\ entry(t) \in recents
        BY <1>2
      <4>2. entry(s) = entry(t)
        BY <3>1, <4>1, Zenon DEF RecentsWindow
      <4>3. QED
        BY <1>2, <4>2, Zenon
    <3>2. QED
      BY <3>1
  <2>3. QED
    BY <2>1, <2>2, Zenon DEF Injection, IsInjective
<1>6. IsFiniteSet(I) /\ Cardinality(I) \in Nat /\ Cardinality(I) <= Cardinality(signers) \div 2
  <2> DEFINE low == number + 2 - Limit(signers)
  <2>1. low \in Int /\ number \in Int
    BY <1>3
  <2> HIDE DEF low
  <2>2. IsFiniteSet(low..number)
        /\ Cardinality(low..number) = IF low > number THEN 0 ELSE number - low + 1
    BY <2>1, FS_Interval, Zenon
  <2>3. Cardinality(low..number) \in Nat
        /\ Cardinality(low..number) <= Cardinality(signers) \div 2
    BY <1>3, <2>1, <2>2 DEF low, Limit
  <2>4. QED
    BY <2>2, <2>3, Zenon DEF low
<1>7. Cardinality(signers) <= Cardinality(I)
  BY <1>3, <1>5, <1>6, FS_Injection, Zenon DEF ExistsInjection
<1>8. Cardinality(signers) # 0
  BY <1>3, FS_EmptySet
<1> HIDE DEF I
<1>9. QED
  BY <1>3, <1>6, <1>7, <1>8

\* As long as there is a signer left, one of them may sign the next block,
\* whatever was voted: the rotation rule never locks everybody out.
THEOREM RotationContinues == Spec => []SomeoneCanSign
<1>1. TypeOK /\ RecentsWindow => SomeoneCanSign
  BY WindowLeavesOne DEF SomeoneCanSign
<1>2. QED
  BY <1>1, CliqueTypeCorrect, RecentsWindowHolds, PTL

-----------------------------------------------------------------------------
(***************************************************************************)
(* Accepted headers have a snapshot.                                       *)
(***************************************************************************)
\* There are never so many signers that the window reaches back before the
\* genesis block: below block Limit the subtraction in verifySeal wraps around.
GrowthInv ==
  /\ Cardinality(signers) <= 3 \/ Cardinality(signers) <= number + 2
  /\ number = 0 => votes = {}

\* The vote of the first header cannot pass against three signers.
LEMMA FirstVote ==
  ASSUME VoteInv, votes = {}, NEW n \in Nat, NEW s \in signers, NEW c \in Addresses,
         NEW authorize \in BOOLEAN
  PROVE  TallyAfter(s, c, authorize, n)[c].votes \in {0, 1}
<1> DEFINE V   == VotesAfter(s, c, authorize, n)
           T   == TallyAfter(s, c, authorize, n)
           new == [signer |-> s, block |-> n, address |-> c, authorize |-> authorize]
<1>1. T[c].votes = Cardinality(About(V, c))
  BY AfterCounts, Zenon DEF Counts
<1>2. Standing(n) = {}
  BY Zenon DEF Standing
<1>3. V \subseteq {new}
  BY <1>2, Zenon DEF VotesAfter
<1>4. About(V, c) = {} \/ About(V, c) = {new}
  BY <1>3 DEF About
<1>5. Cardinality({}) = 0 /\ Cardinality({new}) = 1
  BY FS_EmptySet, FS_Singleton
<1>6. QED
  BY <1>1, <1>4, <1>5, Zenon

\* One block admits at most one signer.
LEMMA GrowthStep ==
  ASSUME VoteInv, GrowthInv, [Next]_vars
  PROVE  GrowthInv'
<1>0. TypeOK /\ number \in Nat /\ signers \in SUBSET Addresses
  BY DEF VoteInv, TypeOK
<1>1. CASE UNCHANGED snap
  <2>1. number' = number /\ signers' = signers /\ votes' = votes
    BY <1>1 DEF snap
  <2>2. QED
    BY <2>1, Zenon DEF GrowthInv
<1>2. ASSUME NEW s \in Addresses, NEW c \in Addresses, NEW authorize \in BOOLEAN,
             Applies(s), Apply(s, c, authorize)
      PROVE  GrowthInv'
  <2> DEFINE T == TallyAfter(s, c, authorize, number + 1)
  <2>1. /\ number' = number + 1
        /\ \/ signers' = signers
           \/ Passed(T, c) /\ signers' = signers \cup {c}
           \/ signers' = signers \ {c}
    BY <1>2, Zenon DEF Apply
  <2>2. IsFiniteSet(signers) /\ Cardinality(signers) \in Nat
    BY <1>0, LimitFacts
  <2>3. /\ Cardinality(signers \cup {c}) \in {Cardinality(signers), Cardinality(signers) + 1}
        /\ Cardinality(signers \ {c}) \in {Cardinality(signers), Cardinality(signers) - 1}
    BY <2>2, FS_AddElement, FS_RemoveElement
  <2>4. CASE number = 0
    <3>1. T[c].votes \in {0, 1}
      BY <1>0, <1>2, <2>4, FirstVote DEF GrowthInv, Applies
    <3>2. Passed(T, c) => Cardinality(signers) <= 2
      <4> HIDE DEF T
      <4>1. Cardinality(signers) <= 3
        BY <1>0, <2>2, <2>4 DEF GrowthInv
      <4>2. QED
        BY <2>2, <3>1, <4>1 DEF Passed
    <3> HIDE DEF T
    <3>3. QED
      BY <2>1, <2>2, <2>3, <2>4, <3>2 DEF GrowthInv
  <2>5. CASE number # 0
    <3>1. Cardinality(signers) <= number + 2
      BY <1>0, <2>2, <2>5 DEF GrowthInv
    <3>2. QED
      BY <1>0, <2>1, <2>2, <2>3, <2>5, <3>1 DEF GrowthInv
  <2>6. QED
    BY <2>4, <2>5
<1>3. QED
  BY <1>0, <1>1, <1>2, SnapshotStep, Zenon

\* verifySeal lets nobody through whom apply refuses.
LEMMA VerifiedApplies ==
  ASSUME TypeOK, RecentsWindow, GrowthInv, NEW s, ~recentlySigned(s, number + 1), s \in signers
  PROVE  Applies(s)
<1>1. /\ number \in Nat /\ Cardinality(signers) \in Nat
      /\ Limit(signers) = Cardinality(signers) \div 2 + 1 /\ Limit(signers) \in Nat
  BY LimitFacts DEF TypeOK, Limit
<1>2. SUFFICES ASSUME NEW r \in recents, r.block > (number + 1) - Limit(signers), r.signer = s
               PROVE  FALSE
  BY Shifted, Zenon DEF Applies
<1>3. r.block \in Nat /\ 1 <= r.block /\ r.block <= number
  BY DEF TypeOK, RecentsWindow
<1>4. ~(number + 1 >= Limit(signers))
  BY <1>1, <1>2, <1>3 DEF recentlySigned
<1>5. Cardinality(signers) <= number + 2
  BY <1>1, <1>3 DEF GrowthInv
<1>6. QED
  BY <1>1, <1>3, <1>4, <1>5

\* Seal signs only when apply accepts the block.
LEMMA MaySealApplies ==
  ASSUME TypeOK, RecentsWindow, MaySeal
  PROVE  Applies(signer)
<1>1. number \in Nat /\ Limit(signers) \in Nat
  BY LimitFacts DEF TypeOK
<1>2. \A r \in recents : r.signer = signer => ~(r.block > (number + 1) - Limit(signers))
  BY <1>1 DEF MaySeal, TypeOK
<1>3. QED
  BY <1>2, Shifted, Zenon DEF MaySeal, Applies

\* With at most three initial signers, a header that verifySeal accepted, or that
\* Seal signed, has a snapshot, however many signers are voted in later: the
\* recent-signer checks of verifySeal and apply agree.
THEOREM SnapshotsExist ==
  ASSUME Cardinality(InitialSigners) <= 3
  PROVE  Spec => []NeverStuck
<1>1. Init => GrowthInv /\ NeverStuck
  BY DEF Init, GrowthInv, NeverStuck
<1>2. ASSUME TypeOK, RecentsWindow, GrowthInv, NeverStuck, [Next]_vars PROVE NeverStuck'
  <2>1. CASE Network
    <3>1. PICK s \in Addresses, c \in Addresses, authorize \in BOOLEAN :
            InsertHeader(s, c, authorize)
      BY <2>1, Zenon DEF Network
    <3>2. Applies(s)
      BY <1>2, <3>1, VerifiedApplies DEF InsertHeader, verifySeal
    <3>3. QED
      BY <1>2, <3>1, <3>2, Zenon DEF InsertHeader, Extend, NeverStuck
  <2>2. CASE Seal
    <3>1. Applies(signer)
      BY <1>2, <2>2, MaySealApplies DEF Seal
    <3>2. QED
      BY <1>2, <2>2, <3>1, Zenon DEF Seal, Extend, NeverStuck
  <2>3. CASE \/ \E a \in Addresses, authorize \in BOOLEAN : Propose(a, authorize)
             \/ \E a \in Addresses : Discard(a) \/ Authorize(a)
             \/ Prepare \/ PreparePanics
    BY <1>2, <2>3, Zenon DEF Propose, Discard, Authorize, Prepare, PreparePanics, NeverStuck
  <2>4. CASE UNCHANGED vars
    BY <1>2, <2>4, Zenon DEF vars, NeverStuck
  <2>5. QED
    BY <1>2, <2>1, <2>2, <2>3, <2>4, Zenon DEF Next, Local
<1>3. QED
  BY <1>1, <1>2, GrowthStep, VoteInvariant, CliqueTypeCorrect, RecentsWindowHolds, PTL DEF Spec

-----------------------------------------------------------------------------
(***************************************************************************)
(* Sealed headers verify.                                                  *)
(***************************************************************************)
\* The header in the miner's hands, if it is one for the next block, has the
\* difficulty that the present signers give to the key it was prepared for.
WorkInv ==
  work # NoWork =>
    /\ work.number <= number + 1
    /\ work.number = number + 1 =>
         work.difficulty = TurnDifficulty(number + 1, work.signer)

\* A new head makes the header stale; a new key does not touch it.
LEMMA WorkStep ==
  ASSUME TypeOK, WorkInv, [Next]_vars
  PROVE  WorkInv'
<1>1. CASE Seal
  BY <1>1, Zenon DEF Seal, WorkInv
<1>2. ASSUME number' = number, signers' = signers, work' = work
      PROVE  WorkInv'
  BY <1>2, Zenon DEF WorkInv, TurnDifficulty, inturn
<1>3. CASE Network
  <2>1. PICK s \in Addresses, c \in Addresses, authorize \in BOOLEAN :
          Extend(s, c, authorize) /\ work' = work
    BY <1>3, Zenon DEF Network, InsertHeader, local
  <2>2. CASE UNCHANGED snap
    BY <1>2, <2>1, <2>2, Zenon DEF snap
  <2>3. CASE Apply(s, c, authorize)
    <3>1. number' = number + 1 /\ number \in Nat
      BY <2>3, Zenon DEF Apply, TypeOK
    <3>2. work # NoWork => work.number \in Nat
      BY DEF TypeOK, Works
    <3>3. work' # NoWork => /\ work'.number <= number' + 1
                            /\ work'.number # number' + 1
      BY <2>1, <3>1, <3>2 DEF WorkInv
    <3>4. QED
      BY <3>3, Zenon DEF WorkInv
  <2>4. QED
    BY <2>1, <2>2, <2>3, Zenon DEF Extend
<1>4. CASE \/ \E a \in Addresses, authorize \in BOOLEAN : Propose(a, authorize)
           \/ \E a \in Addresses : Discard(a) \/ Authorize(a)
           \/ PreparePanics
  BY <1>2, <1>4, Zenon DEF Propose, Discard, Authorize, PreparePanics, snap
<1>5. CASE Prepare
  <2>1. /\ number' = number /\ signers' = signers
        /\ \E coinbase, authorize :
             work' = [number |-> number + 1, coinbase |-> coinbase, authorize |-> authorize,
                      difficulty |-> TurnDifficulty(number + 1, signer), signer |-> signer]
    BY <1>5, Zenon DEF Prepare, snap
  <2>2. /\ work'.number = number + 1 /\ work'.signer = signer
        /\ work'.difficulty = TurnDifficulty(number + 1, signer)
    BY <2>1
  <2>3. \A s : TurnDifficulty(number + 1, s)' = TurnDifficulty(number + 1, s)
    BY <2>1, Zenon DEF TurnDifficulty, inturn
  <2>4. number + 1 <= number + 1
    BY DEF TypeOK
  <2>5. QED
    BY <2>1, <2>2, <2>3, <2>4, Zenon DEF WorkInv
<1>6. CASE UNCHANGED vars
  BY <1>2, <1>6, Zenon DEF vars, snap, local
<1>7. QED
  BY <1>1, <1>3, <1>4, <1>5, <1>6, Zenon DEF Next, Local

\* A header that Seal signs with the key Prepare made it for passes verifySeal at
\* every other node, whatever happened to the chain, the proposals and the key in
\* between, for any set of keys.
THEOREM PreparedHeadersVerify == Spec => PreparedVerifies
<1>1. Init => WorkInv
  BY DEF Init, WorkInv
<1>2. ASSUME TypeOK, WorkInv, [Next]_vars, Seal, signer = work.signer
      PROVE  verifySeal(signer, work.number, work.difficulty)
  <2>1. number \in Nat /\ Limit(signers) \in Nat /\ \A r \in recents : r.block \in Nat
    BY <1>2, LimitFacts DEF TypeOK
  <2>2. MaySeal /\ work # NoWork /\ work.number = number + 1
    BY <1>2 DEF Seal
  <2>3. ~recentlySigned(signer, number + 1)
    BY <2>1, <2>2 DEF MaySeal, recentlySigned
  <2>4. QED
    BY <1>2, <2>2, <2>3, Zenon DEF WorkInv, MaySeal, verifySeal, TurnDifficulty
<1>3. TypeOK /\ WorkInv /\ [Next]_vars
        => [Seal /\ signer = work.signer
              => verifySeal(signer, work.number, work.difficulty)]_vars
  BY <1>2
<1>4. TypeOK /\ WorkInv /\ [Next]_vars => WorkInv'
  BY WorkStep
<1>5. QED
  BY <1>1, <1>3, <1>4, CliqueTypeCorrect, PTL DEF Spec, PreparedVerifies
=============================================================================
