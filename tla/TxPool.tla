------------------------------- MODULE TxPool -------------------------------
(***************************************************************************)
(* core.TxPool: executable (pending) and future (queue) transactions per   *)
(* account, the index of all of them, the heap by price, and the nonces    *)
(* handed out to callers.  Every operation holds the pool's mutex, so each *)
(* is one action; the chain moves between them, and the pool learns of it  *)
(* only when the event loop gets to resetState.                            *)
(*                                                                         *)
(* A list of an account is the set of its transactions in pending or queue.*)
(* Cost stands for value, gas and block gas limit together.  Heartbeats    *)
(* are left out: any account may be the one that expires or is dropped     *)
(* first.  Stale entries of the price heap have no effect but to decide    *)
(* when it is rebuilt, so priced holds the live ones and a rebuild may     *)
(* follow any removal.                                                     *)
(***************************************************************************)
EXTENDS Integers, FiniteSets, SequencesExt

CONSTANTS
  Accounts,
  Txs,           \* transactions that pass the checks on the transaction alone
  Sender,        \* [Txs -> Accounts]
  Nonce,         \* [Txs -> 0..MaxNonce]
  Price,         \* [Txs -> Nat]
  Cost,          \* [Txs -> Nat]
  Locals,        \* transactions that may be submitted through the local API
  PriceBump, AccountSlots, GlobalSlots, AccountQueue, GlobalQueue,
  GasPrices,     \* minimum prices the operator may set
  Balances,      \* balances an account may have
  MaxNonce,      \* bound: the highest nonce
  MaxBatch       \* bound: transactions per call

ASSUME TxPoolAssumption ==
  /\ Sender \in [Txs -> Accounts] /\ Nonce \in [Txs -> 0..MaxNonce]
  /\ Price \in [Txs -> Nat] /\ Cost \in [Txs -> Nat]
  /\ AccountSlots \in Nat \ {0} /\ GlobalSlots \in Nat /\ AccountQueue \in Nat
  /\ GlobalQueue \in Nat /\ GlobalSlots + GlobalQueue > 0

VARIABLES
  all,         \* pool.all
  pending,     \* pool.pending
  queue,       \* pool.queue
  nonces,      \* pool.pendingState
  priced,      \* live entries of pool.priced
  locals,      \* pool.locals
  gasPrice,    \* pool.gasPrice
  stateNonce,  \* account nonces at the head of the chain
  balance      \* account balances at the head of the chain

pool  == <<all, pending, queue, nonces, priced>>
chain == <<stateNonce, balance>>
vars  == <<pool, locals, gasPrice, chain>>

TypeOK ==
  /\ all \subseteq Txs /\ pending \subseteq Txs /\ queue \subseteq Txs
  /\ priced \subseteq all /\ locals \subseteq Txs
  /\ nonces \in [Accounts -> 0..MaxNonce + 1]
  /\ gasPrice \in Nat
  /\ stateNonce \in [Accounts -> 0..MaxNonce]
  /\ balance \in [Accounts -> Balances]

Init ==
  /\ all = {} /\ pending = {} /\ queue = {} /\ priced = {} /\ locals = {}
  /\ nonces = [a \in Accounts |-> 0] /\ stateNonce = [a \in Accounts |-> 0]
  /\ gasPrice = 1
  /\ balance \in [Accounts -> Balances]
-----------------------------------------------------------------------------
(***************************************************************************)
(* Lists.                                                                  *)
(***************************************************************************)
Of(S, a) == {t \in S : Sender[t] = a}

\* The transaction of S with the sender and nonce of t, if any.
Slot(S, t) == {x \in Of(S, Sender[t]) : Nonce[x] = Nonce[t]}

Above(S, t) == {x \in Of(S, Sender[t]) : Nonce[x] > Nonce[t]}

\* The n transactions of a list with the lowest nonces.
Lowest(L, n) == {x \in L : Cardinality({y \in L : Nonce[y] < Nonce[x]}) < n}

Dearer(new, old) == Price[new] > (Price[old] * (100 + PriceBump)) \div 100

ByNonce(S) == SetToSortSeq(S, LAMBDA x, y : Nonce[x] < Nonce[y])

\* The orders in which the heap may yield the transactions of S: by price, those
\* of the same price in any order.
ByPrice(S) ==
  {s \in SetToSeqs(S) :
     \A i, j \in DOMAIN s : i < j => Price[s[i]] <= Price[s[j]]}

\* The pool as a value, to compose the internal methods of one locked section.
Pool == [removed |-> FALSE, all |-> all, pending |-> pending, queue |-> queue,
         nonces |-> nonces, priced |-> priced]

\* delete(pool.all, hash) and priced.Removed() for every transaction of S.
Forget(P, S) ==
  [P EXCEPT !.all = @ \ S, !.priced = @ \ S, !.removed = @ \/ S # {}]

\* pool.all[hash] = tx and priced.Put(tx).
Track(P, t) == [P EXCEPT !.all = @ \cup {t}, !.priced = @ \cup {t}]

\* After a removal the heap may have been rebuilt from pool.all.
Reheaped(P) ==
  {P} \cup {[P EXCEPT !.priced = x] : x \in IF P.removed THEN {P.all} ELSE {}}

Store(P) ==
  \E Q \in Reheaped(P) : /\ all' = Q.all /\ pending' = Q.pending /\ queue' = Q.queue
                         /\ nonces' = Q.nonces /\ priced' = Q.priced
-----------------------------------------------------------------------------
(***************************************************************************)
(* Internal methods.                                                       *)
(***************************************************************************)
enqueueTx(P, t) ==
  LET old == Slot(P.queue, t)
  IN  IF \E o \in old : ~Dearer(t, o) THEN P
      ELSE Track([Forget(P, old) EXCEPT !.queue = (@ \ old) \cup {t}], t)

promoteTx(P, t) ==
  LET old == Slot(P.pending, t)
      Q   == IF t \in P.all THEN P ELSE Track(P, t)
  IN  IF \E o \in old : ~Dearer(t, o) THEN Forget(P, {t})
      ELSE [Forget(Q, old) EXCEPT !.pending = (@ \ old) \cup {t},
                                  !.nonces[Sender[t]] = Nonce[t] + 1]

\* Variant: the nonce before the removed one is handed out next.
LowerNonceMore(P, a, n) == [P EXCEPT !.nonces[a] = n - 1]

LowerNonce(P, a, n) == IF P.nonces[a] > n THEN [P EXCEPT !.nonces[a] = n] ELSE P

\* Variant: the lists keep the transaction.
removeTxIndex(P, t) == Forget(P, {t})

\* Lists are searched by nonce.  What follows a removed pending transaction goes
\* back to the queue, unless nothing is left in front of it.
removeTx(P, t) ==
  LET a    == Sender[t]
      Q    == Forget(P, {t})
      here == Slot(P.pending, t)
      rest == P.pending \ (here \cup Above(P.pending, t))
      back == IF Of(rest, a) = {} THEN {} ELSE Above(P.pending, t)
  IN  IF t \notin P.all THEN P
      ELSE IF here # {}
      THEN LowerNonce(FoldLeft(enqueueTx, [Q EXCEPT !.pending = rest], ByNonce(back)),
                      a, Nonce[t])
      ELSE [Q EXCEPT !.queue = @ \ Slot(@, t)]

removeEach(P, txs) == FoldLeft(removeTx, P, txs)
-----------------------------------------------------------------------------
(***************************************************************************)
(* promoteExecutables and demoteUnexecutables.                             *)
(***************************************************************************)
Unpayable(L, a) == {t \in L : Nonce[t] < stateNonce[a] \/ Cost[t] > balance[a]}

\* Variant: a list that starts at the account's next nonce is not ready.
ReadyLate(L, start) ==
  IF \A t \in L : Nonce[t] >= start THEN {}
  ELSE {t \in L : \A x \in L : \A n \in Nonce[x]..Nonce[t] : \E y \in L : Nonce[y] = n}

\* The run of consecutive nonces at the front of the list, when it does not
\* start above the account's next nonce.
Ready(L, start) ==
  IF \A t \in L : Nonce[t] > start THEN {}
  ELSE {t \in L : \A x \in L : \A n \in Nonce[x]..Nonce[t] : \E y \in L : Nonce[y] = n}

PromoteAccount(P, a) ==
  LET gone == Unpayable(Of(P.queue, a), a)
      Q    == [Forget(P, gone) EXCEPT !.queue = @ \ gone]
      go   == Ready(Of(Q.queue, a), Q.nonces[a])
      R    == FoldLeft(promoteTx, [Q EXCEPT !.queue = @ \ go], ByNonce(go))
      over == Of(R.queue, a) \ Lowest(Of(R.queue, a), AccountQueue)
  IN  [Forget(R, over) EXCEPT !.queue = @ \ over]

\* The accounts over their guaranteed slots that are not local.  One transaction
\* of the list, any, is looked at to tell.
Spammers(P) ==
  LET large(a) == Cardinality(Of(P.pending, a)) > AccountSlots
      must == {a \in Accounts : large(a) /\ Of(P.pending, a) \cap locals = {}}
      may  == {a \in Accounts : large(a) /\ ~(Of(P.pending, a) \subseteq locals)}
  IN  {A \in SUBSET may : must \subseteq A}

\* The orders in which the queue by length may yield them: the longest first.
ByLength(len, A) ==
  {s \in SetToSeqs(A) : \A i, j \in DOMAIN s : i < j => len[s[i]] >= len[s[j]]}

\* Every account of A loses the last transaction of its list.
Shorten(len, A) == [a \in DOMAIN len |-> IF a \in A THEN len[a] - 1 ELSE len[a]]

RECURSIVE Equalize(_, _, _, _, _)

\* The lists of A are shortened in rounds until the limit is met or the list of
\* account a is down to n.
Equalize(len, A, a, n, limit) ==
  IF SumFunction(len) > limit /\ len[a] > n
  THEN Equalize(Shorten(len, A), A, a, n, limit) ELSE len

\* Variant: the new offender is shortened with the others.
AddOffenderToo(r, a, limit) ==
  IF SumFunction(r.len) <= limit THEN r
  ELSE [offenders |-> Append(r.offenders, a),
        len |-> IF r.offenders = <<>> THEN r.len
                ELSE Equalize(r.len, ToSet(r.offenders) \cup {a}, Last(r.offenders),
                              r.len[a], limit)]

\* While the limit is exceeded, the next offender is added, after those before it
\* were equalised with it.
AddOffender(r, a, limit) ==
  IF SumFunction(r.len) <= limit THEN r
  ELSE [offenders |-> Append(r.offenders, a),
        len |-> IF r.offenders = <<>> THEN r.len
                ELSE Equalize(r.len, ToSet(r.offenders), Last(r.offenders),
                              r.len[a], limit)]

\* Then all offenders together are reduced, at most to the guaranteed slots.
Equalized(len, spammers, limit) ==
  LET r == FoldLeft(LAMBDA q, a : AddOffender(q, a, limit),
                    [offenders |-> <<>>, len |-> len], spammers)
  IN  IF r.offenders = <<>> THEN r.len
      ELSE Equalize(r.len, ToSet(r.offenders), Last(r.offenders), AccountSlots, limit)

\* The loops only look at the lengths of the lists; what is cut off is dropped and
\* the accounts' next nonces are lowered to it.
CutTo(P, len) ==
  LET keep == UNION {Lowest(Of(P.pending, a), len[a]) : a \in Accounts}
      drop == P.pending \ keep
  IN  FoldLeft(LAMBDA Q, t : LowerNonce(Q, Sender[t], Nonce[t]),
               [Forget(P, drop) EXCEPT !.pending = keep], SetToSeq(drop))

\* Variant: one transaction too many is let pass.
CapPendingLate(P) ==
  LET len == [a \in Accounts |-> Cardinality(Of(P.pending, a))]
  IN  IF Cardinality(P.pending) <= GlobalSlots + 1 THEN {P}
      ELSE UNION {{CutTo(P, Equalized(len, s, GlobalSlots)) : s \in ByLength(len, A)} :
                    A \in Spammers(P)}

CapPending(P) ==
  LET len == [a \in Accounts |-> Cardinality(Of(P.pending, a))]
  IN  IF Cardinality(P.pending) <= GlobalSlots THEN {P}
      ELSE UNION {{CutTo(P, Equalized(len, s, GlobalSlots)) : s \in ByLength(len, A)} :
                    A \in Spammers(P)}

\* Over the limit, whole accounts are dropped from the queue, and the last one in
\* part.  Only the accounts just promoted are counted.
CapQueue(P, A) ==
  LET queued  == Cardinality({t \in P.queue : Sender[t] \in A})
      of(F)   == {t \in P.queue : Sender[t] \in F}
      left(F) == queued - GlobalQueue - Cardinality(of(F))
      top(a, n) == Of(P.queue, a) \ Lowest(Of(P.queue, a), Cardinality(Of(P.queue, a)) - n)
      whole   == {F \in SUBSET Accounts : left(F) >= 0 /\ \A a \in F : Of(P.queue, a) # {}}
  IN  IF queued <= GlobalQueue THEN {P}
      ELSE {removeEach(P, ByNonce(of(F))) : F \in {F \in whole : left(F) = 0}}
           \cup UNION {{removeEach(P, ByNonce(of(F) \cup top(a, left(F)))) :
                          a \in {a \in Accounts \ F : Cardinality(Of(P.queue, a)) > left(F)}}
                       : F \in {F \in whole : left(F) > 0}}

promoteExecutables(P, A) ==
  UNION {CapQueue(Q, A) : Q \in CapPending(FoldLeft(PromoteAccount, P, SetToSeq(A)))}

\* Variant: what comes after it stays.
DemoteAccountGap(P, a) ==
  LET gone == Unpayable(Of(P.pending, a), a)
  IN  [Forget(P, gone) EXCEPT !.pending = @ \ gone]

\* What comes after a transaction that cannot be paid goes back to the queue.
DemoteAccount(P, a) ==
  LET old   == {t \in Of(P.pending, a) : Nonce[t] < stateNonce[a]}
      drops == {t \in Of(P.pending, a) \ old : Cost[t] > balance[a]}
      back  == (UNION {Above(P.pending, t) : t \in drops}) \ drops
      Q     == [Forget(P, old \cup drops) EXCEPT !.pending = @ \ (old \cup drops \cup back)]
  IN  FoldLeft(enqueueTx, Q, ByNonce(back))

demoteUnexecutables(P) == FoldLeft(DemoteAccount, P, SetToSeq(Accounts))
-----------------------------------------------------------------------------
(***************************************************************************)
(* add.                                                                    *)
(***************************************************************************)
validateTx(t) ==
  /\ t \in locals \/ Price[t] >= gasPrice
  /\ stateNonce[Sender[t]] <= Nonce[t]
  /\ Cost[t] <= balance[Sender[t]]

Full(P) == Cardinality(P.all) >= GlobalSlots + GlobalQueue

Underpriced(P, t) ==
  t \notin locals /\ P.priced # {} /\ \A x \in P.priced : Price[x] >= Price[t]

\* The cheapest remote transactions, n of them; fewer when the heap holds no more,
\* or holds one of them twice.
Discard(P, n) ==
  LET remote == P.priced \ locals
  IN  {D \in SUBSET remote :
         /\ Cardinality(D) <= n
         /\ D # {} \/ remote = {}
         /\ \A d \in D, x \in remote \ D : Price[d] <= Price[x]}

MakeRoom(P) ==
  IF ~Full(P) THEN {P}
  ELSE UNION {{removeEach([P EXCEPT !.priced = @ \ D], drop) : drop \in ByPrice(D)} :
                D \in Discard(P, Cardinality(P.all) - (GlobalSlots + GlobalQueue - 1))}

\* The pool with t in it, and the accounts to promote: none for a replacement.
Insert(P, t) ==
  LET old == Slot(P.pending, t)
  IN  CASE \E o \in old : ~Dearer(t, o) -> [pool |-> P, dirty |-> {}]
        [] old # {} /\ \A o \in old : Dearer(t, o) ->
             [pool |-> Track([Forget(P, old) EXCEPT !.pending = (@ \ old) \cup {t}], t),
              dirty |-> {}]
        [] OTHER -> [pool |-> enqueueTx(P, t),
                     dirty |-> IF Slot(P.queue, t) = {} THEN {Sender[t]} ELSE {}]

add(P, t) ==
  IF t \in P.all \/ ~validateTx(t) \/ (Full(P) /\ Underpriced(P, t))
  THEN {[pool |-> P, dirty |-> {}]}
  ELSE {Insert(Q, t) : Q \in MakeRoom(P)}

addEach(txs) ==
  FoldLeft(LAMBDA results, t :
             UNION {UNION {{[pool |-> s.pool, dirty |-> r.dirty \cup s.dirty] :
                              s \in add(Q, t)} : Q \in Reheaped(r.pool)} : r \in results},
           {[pool |-> Pool, dirty |-> {}]}, txs)
-----------------------------------------------------------------------------
(***************************************************************************)
(* Operations.                                                             *)
(***************************************************************************)
\* Add, and AddBatch for peers and for transactions a reorganisation abandoned.
AddBatch(txs) ==
  /\ \E r \in addEach(txs) :
       \E Q \in IF r.dirty = {} THEN {r.pool} ELSE promoteExecutables(r.pool, r.dirty) :
         Store(Q)
  /\ UNCHANGED <<locals, gasPrice, chain>>

\* Remove, and RemoveBatch for transactions the miner could not apply.
RemoveBatch(txs) ==
  /\ Store(removeEach(Pool, txs))
  /\ UNCHANGED <<locals, gasPrice, chain>>

\* The local API marks a transaction before it adds it; old marks expire.
SetLocal(t) ==
  /\ t \in Locals
  /\ \E old \in SUBSET locals : locals' = (locals \cup {t}) \ old
  /\ UNCHANGED <<pool, gasPrice, chain>>

\* priced.Cap pops the first transaction at or above the price too, and only the
\* local ones are put back.  (A demoted transaction is in the heap twice.)
SetGasPrice(p) ==
  /\ gasPrice' = p
  /\ LET drop == {t \in priced : Price[t] < p} \ locals
         rest == {t \in priced : Price[t] >= p}
         next == {{t} : t \in {t \in rest : \A x \in rest : Price[t] <= Price[x]}}
     IN  \E lost \in next \cup {{}}, txs \in ByPrice(drop) :
           Store(removeEach([Pool EXCEPT !.priced = @ \ (drop \cup lost)], txs))
  /\ UNCHANGED <<locals, chain>>

\* expirationLoop, for an account without a recent heartbeat.
Expire(a) ==
  /\ Of(queue, a) # {}
  /\ Store(removeEach(Pool, ByNonce(Of(queue, a))))
  /\ UNCHANGED <<locals, gasPrice, chain>>

\* Variant: only the accounts with pending transactions are promoted and counted.
AfterResetPending ==
  LET P == demoteUnexecutables([Pool EXCEPT !.nonces = stateNonce])
      next(R, a) == [R EXCEPT !.nonces[a] = Max({Nonce[t] : t \in Of(P.pending, a)}) + 1]
      Q == FoldLeft(next, P, SetToSeq({Sender[t] : t \in P.pending}))
  IN  promoteExecutables(Q, {Sender[t] : t \in Q.pending})

\* What resetState makes of the pool, with the state of the head at that time.
AfterReset ==
  LET P == demoteUnexecutables([Pool EXCEPT !.nonces = stateNonce])
      next(R, a) == [R EXCEPT !.nonces[a] = Max({Nonce[t] : t \in Of(P.pending, a)}) + 1]
      Q == FoldLeft(next, P, SetToSeq({Sender[t] : t \in P.pending}))
  IN  promoteExecutables(Q, {Sender[t] : t \in Q.queue})

\* The event loop after a ChainHeadEvent.
\* (It gives up when the state of the head cannot be opened, and so do Add and
\* AddBatch before they promote; BlockChain's CanonicalChain says that it can be.)
resetState ==
  /\ \E P \in AfterReset : Store(P)
  /\ UNCHANGED <<locals, gasPrice, chain>>

\* External: a new head changes an account.
NewBlock(a, n, b) ==
  /\ n >= stateNonce[a]
  /\ stateNonce' = [stateNonce EXCEPT ![a] = n]
  /\ balance' = [balance EXCEPT ![a] = b]
  /\ UNCHANGED <<pool, locals, gasPrice>>

\* External: the new head is on another branch, on which the account sent less.
Reorg(a, n) ==
  /\ n < stateNonce[a]
  /\ stateNonce' = [stateNonce EXCEPT ![a] = n]
  /\ UNCHANGED <<pool, locals, gasPrice, balance>>

Batches == {s \in UNION {[1..n -> Txs] : n \in 1..MaxBatch} : IsInjective(s)}

Operation == \/ \E txs \in Batches : AddBatch(txs) \/ RemoveBatch(txs)
             \/ \E t \in Txs : SetLocal(t)
             \/ \E p \in GasPrices : SetGasPrice(p)
             \/ \E a \in Accounts : Expire(a)
             \/ resetState

Next == Operation \/ \E a \in Accounts, n \in 0..MaxNonce, b \in Balances : NewBlock(a, n, b)

Spec == Init /\ [][Next]_vars

ReorgSpec == Init /\ [][Next \/ \E a \in Accounts, n \in 0..MaxNonce : Reorg(a, n)]_vars
-----------------------------------------------------------------------------
(***************************************************************************)
(* Properties.                                                             *)
(***************************************************************************)
\* Whatever pool.pending or pool.queue lists is in pool.all, where lookups and
\* removals find it, and an account has one transaction per nonce in the two
\* lists together.
ListsTracked ==
  /\ pending \cup queue \subseteq all
  /\ \A t \in pending \cup queue : Slot(pending \cup queue, t) = {t}
  /\ pending \cap queue = {}

\* The pending transactions of an account have consecutive nonces, from one the
\* chain has reached up to just below the one that pendingState hands out next: the
\* miner can run them in order, and a caller is given the first nonce that no
\* pending transaction uses.
PendingExecutable ==
  \A a \in Accounts :
    \E low \in 0..stateNonce[a] :
      {Nonce[t] : t \in Of(pending, a)} = low..(nonces[a] - 1)

\* No transaction waits in the queue that could be pending.
NothingReadyQueued == \A t \in queue : Nonce[t] > nonces[Sender[t]]

\* Whenever the number of pending transactions grew there are at most GlobalSlots
\* of them, unless the accounts over AccountSlots have local ones.
PendingBounded ==
  [][ \/ Cardinality(pending') <= Cardinality(pending)
      \/ Cardinality(pending') <= GlobalSlots
      \/ \A a \in Accounts : Cardinality(Of(pending', a)) > AccountSlots
                               => Of(pending', a) \cap locals # {} ]_vars

\* Taking offenders up one by one and shortening them in rounds ends where cutting
\* all of them to the largest common length that meets the limit ends, not below
\* AccountSlots, however the lengths and ties of three accounts are arranged and
\* whichever of them are local.  (It does not depend on the state of the pool, so
\* the start is as good as any.)
EqualizesFairly ==
  Init =>
    \A len \in [1..3 -> 0..4], limit \in 0..8 : \A A \in SUBSET {a \in 1..3 : len[a] > AccountSlots} :
      LET cut(n) == [a \in 1..3 |-> IF a \in A /\ len[a] > n THEN n ELSE len[a]]
          fits   == {n \in AccountSlots..4 : SumFunction(cut(n)) <= limit}
      IN  \A s \in ByLength(len, A) :
            Equalized(len, s, limit) = cut(IF fits = {} THEN AccountSlots ELSE Max(fits))

\* Add and AddBatch count only the accounts they touched, so that the queue may
\* exceed GlobalQueue; the next resetState counts all of them and brings it down,
\* whatever it demoted just before.
ResetBoundsQueue == \A P \in AfterReset : Cardinality(P.queue) <= GlobalQueue
-----------------------------------------------------------------------------
(***************************************************************************)
(* What comments and tests say, stated as invariants.                      *)
(***************************************************************************)
\* "Ensure the total transaction set is consistent with pending + queued", and
\* removeTx "removes a single transaction from the queue, moving all subsequent
\* transactions back to the future queue".
AllListed == all = pending \cup queue

\* A pending list is strict: "Whether nonces are strictly continuous or not".
PendingStrict ==
  \A t, u \in pending : Sender[t] = Sender[u] =>
    \A n \in Nonce[t]..Nonce[u] : \E x \in Of(pending, Sender[t]) : Nonce[x] = n
=============================================================================
