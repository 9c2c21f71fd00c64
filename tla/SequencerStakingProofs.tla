----------------------- MODULE SequencerStakingProofs -----------------------
(***************************************************************************)
(* For every set of accounts, every configuration and every number of      *)
(* rounds: the storage of the staking pallet keeps its types, the cached   *)
(* metadata of every candidate is that of its lists, the candidate pool is *)
(* exactly the active candidates with their counted stake, and nobody is   *)
(* candidate and delegator at once. The entry of a delegator and the book  *)
(* of its candidate hold the same delegations, the totals of both are the  *)
(* sums they stand for, every scheduled request fits what it is about, the *)
(* pallet's account covers all the stake, a step moves BTC between a       *)
(* wallet and its own stake only, and a delegation shrinks only by one of  *)
(* three rules. The sorted vectors of the storage follow the sets that the *)
(* ledger keeps.                                                           *)
(***************************************************************************)
EXTENDS StakingSets, CandidateBookProofs

\* The inductive invariant. MetadataMatchesBook needs SelfRequestsFit, because
\* executing a self-bond decrease subtracts from bond and counted separately
\* and saturating; both need the types.
IInv == /\ TypeOK
        /\ MetadataMatchesBook
        /\ SelfRequestsFit
        /\ PoolMatchesActive
        /\ RolesExclusive

----------------------------------------------------------------------------
(* The candidate pool.                                                     *)

\* The pool stays that of the active candidates when the entry of the one
\* candidate that changed is replaced by what its new state calls for.
LEMMA PoolStep ==
  ASSUME PoolMatchesActive, NEW c \in Accounts,
         \A a \in Accounts \ {c} : /\ is_active(a)' <=> is_active(a)
                                   /\ book'[a].counted = book[a].counted,
         pool' = WithoutOwner(c) \cup
                   (IF is_active(c)' THEN {PoolEntry(c, book'[c].counted)} ELSE {})
  PROVE  PoolMatchesActive'
<1> DEFINE Q(p) == \E a \in Accounts : is_active(a)' /\ p = PoolEntry(a, book'[a].counted)
<1>1. \A p : p \in pool <=> \E a \in Accounts : is_active(a) /\ p = PoolEntry(a, book[a].counted)
  BY Zenon DEF PoolMatchesActive
<1>2. \A p : p \in WithoutOwner(c) <=>
               \E a \in Accounts \ {c} : is_active(a) /\ p = PoolEntry(a, book[a].counted)
  <2>1. \A a, n : PoolEntry(a, n).owner = a
    BY DEF PoolEntry
  <2>2. \A p : p \in WithoutOwner(c) <=> p \in pool /\ p.owner # c
    BY DEF WithoutOwner
  <2>3. ASSUME NEW p, p \in WithoutOwner(c)
        PROVE  \E a \in Accounts \ {c} : is_active(a) /\ p = PoolEntry(a, book[a].counted)
    <3>1. PICK a \in Accounts : is_active(a) /\ p = PoolEntry(a, book[a].counted)
      BY <1>1, <2>2, <2>3, Zenon
    <3>2. a # c
      BY <2>1, <2>2, <2>3, <3>1, Zenon
    <3> QED
      BY <3>1, <3>2, Zenon
  <2>4. ASSUME NEW a \in Accounts \ {c}, is_active(a)
        PROVE  PoolEntry(a, book[a].counted) \in WithoutOwner(c)
    <3>1. a \in Accounts /\ a # c
      OBVIOUS
    <3>2. PoolEntry(a, book[a].counted) \in pool
      BY <1>1, <2>4, <3>1, Zenon
    <3>3. PoolEntry(a, book[a].counted).owner # c
      BY <2>1, <3>1, Zenon
    <3> QED
      BY <2>2, <3>2, <3>3, Zenon
  <2> QED
    BY <2>3, <2>4, Zenon
<1>3. \A p : p \in WithoutOwner(c) <=>
               \E a \in Accounts \ {c} : is_active(a)' /\ p = PoolEntry(a, book'[a].counted)
  BY <1>2, Zenon
<1>4. \A p : p \in pool' <=> Q(p)
  <2>1. CASE is_active(c)'
    <3>1. \A p : p \in pool' <=> p \in WithoutOwner(c) \/ p = PoolEntry(c, book'[c].counted)
      BY <2>1
    <3> QED
      BY <1>3, <2>1, <3>1, Zenon
  <2>2. CASE ~is_active(c)'
    <3>1. \A p : p \in pool' <=> p \in WithoutOwner(c)
      BY <2>2
    <3> QED
      BY <1>3, <2>2, <3>1, Zenon
  <2> QED
    BY <2>1, <2>2
<1>5. pool' = {PoolEntry(a, book'[a].counted) : a \in {e \in Accounts : is_active(e)'}}
  BY <1>4, Zenon
<1> QED
  BY <1>5 DEF PoolMatchesActive, PoolEntry

\* An inactive candidate has no entry in the pool.
LEMMA NoEntry ==
  ASSUME PoolMatchesActive, NEW c \in Accounts, ~is_active(c)
  PROVE  WithoutOwner(c) = pool
<1>1. \A p \in pool : p.owner # c
  BY DEF PoolMatchesActive, PoolEntry
<1> QED
  BY <1>1 DEF WithoutOwner

\* The entries of a pool of active candidates are bonds.
LEMMA PoolType ==
  ASSUME PoolMatchesActive', book' \in [Accounts -> Book]
  PROVE  pool' \subseteq Bond
<1>1. SUFFICES ASSUME NEW p \in pool' PROVE p \in Bond
  OBVIOUS
<1>2. PICK a \in Accounts : p = PoolEntry(a, book'[a].counted)
  BY DEF PoolMatchesActive, PoolEntry
<1>3. book'[a].counted \in Nat
  BY DEF Book
<1> QED
  BY <1>2, <1>3 DEF PoolEntry, Bond

----------------------------------------------------------------------------
(* Storage values and the books.                                           *)

\* Every candidate has a good book.
LEMMA BooksGood ==
  ASSUME TypeOK, MetadataMatchesBook, NEW c \in Accounts
  PROVE  GoodBook(book[c]) /\ book[c] \in Book
  BY DEF TypeOK, MetadataMatchesBook, GoodBook

\* The empty values are of their types.
LEMMA EmptyTypes ==
  NoRequest \in Request /\ NoCandidate \in Candidate /\ NewCandidate \in Candidate
  /\ NoDelegator \in Delegator
<1>1. NoRequest \in Request
  BY DEF NoRequest, Request
<1>2. NoCandidate \in Candidate /\ NewCandidate \in Candidate
  BY <1>1 DEF NoCandidate, NewCandidate, Candidate
<1>3. NoDelegator \in Delegator
  BY DEF NoDelegator, Delegator
<1> QED
  BY <1>1, <1>2, <1>3

\* Replacing one book by a good one keeps all of them good.
LEMMA BookChange ==
  ASSUME TypeOK, MetadataMatchesBook, NEW c \in Accounts, NEW b, GoodBook(b),
         book' = [book EXCEPT ![c] = b]
  PROVE  /\ book' \in [Accounts -> Book]
         /\ MetadataMatchesBook'
         /\ book'[c] = b
         /\ \A a \in Accounts \ {c} : book'[a] = book[a]
<1>1. book \in [Accounts -> Book] /\ b \in Book
  BY DEF TypeOK, GoodBook
<1>2. /\ book' \in [Accounts -> Book] /\ book'[c] = b
      /\ \A a \in Accounts \ {c} : book'[a] = book[a]
  BY <1>1
<1>3. MetadataOK(b) /\ \A a \in Accounts : MetadataOK(book[a])
  BY DEF GoodBook, MetadataMatchesBook
<1>4. \A a \in Accounts : MetadataOK(book'[a])
  BY <1>2, <1>3, Zenon
<1> QED
  BY <1>2, <1>4, Zenon DEF MetadataMatchesBook

\* A call that changes the book of c without its self bond, and refreshes the
\* pool as reset_top_data does, keeps what the candidates' side must satisfy.
LEMMA BookStep ==
  ASSUME IInv, NEW c \in Accounts, NEW b, KeepsGood(book[c], b),
         book' = [book EXCEPT ![c] = b], pool' = pool_after(c, b),
         candidateInfo' = candidateInfo
  PROVE  /\ book' \in [Accounts -> Book] /\ pool' \subseteq Bond
         /\ MetadataMatchesBook' /\ SelfRequestsFit' /\ PoolMatchesActive'
<1>1. /\ TypeOK /\ MetadataMatchesBook /\ SelfRequestsFit /\ PoolMatchesActive
      /\ GoodBook(b) /\ b.bond = book[c].bond
  BY DEF IInv, KeepsGood
<1>2. /\ book' \in [Accounts -> Book] /\ MetadataMatchesBook' /\ book'[c] = b
      /\ \A a \in Accounts \ {c} : book'[a] = book[a]
  BY <1>1, BookChange
<1>3. SelfRequestsFit'
  <2>1. \A a \in Accounts : book'[a].bond = book[a].bond
    BY <1>1, <1>2, Zenon
  <2> QED
    BY <1>1, <2>1, Zenon DEF SelfRequestsFit
<1>4. PoolMatchesActive'
  <2>1. \A a \in Accounts : is_active(a)' <=> is_active(a)
    BY DEF is_active
  <2>2. CASE is_active(c) /\ b.counted # book[c].counted
    <3>1. pool' = WithoutOwner(c) \cup {PoolEntry(c, book'[c].counted)}
      BY <1>2, <2>2, Zenon DEF pool_after, update_active
    <3> QED
      BY <1>1, <1>2, <2>1, <2>2, <3>1, PoolStep
  <2>3. CASE ~is_active(c)
    <3>1. pool' = WithoutOwner(c) \cup {}
      BY <1>1, <2>3, NoEntry DEF pool_after
    <3> QED
      BY <1>1, <1>2, <2>1, <2>3, <3>1, PoolStep
  <2>4. CASE b.counted = book[c].counted
    <3>1. \A a \in Accounts : book'[a].counted = book[a].counted
      BY <1>2, <2>4, Zenon
    <3>2. pool' = pool
      BY <2>4, Zenon DEF pool_after
    <3> QED
      BY <1>1, <2>1, <3>1, <3>2 DEF PoolMatchesActive, PoolEntry
  <2> QED
    BY <2>2, <2>3, <2>4
<1> QED
  BY <1>2, <1>3, <1>4, PoolType

\* bond_more and bond_less refresh the pool entry of an active candidate.
LEMMA PoolRefresh ==
  ASSUME PoolMatchesActive, NEW c \in Accounts, NEW b,
         book'[c] = b, \A a \in Accounts \ {c} : book'[a] = book[a],
         \A a \in Accounts : is_active(a)' <=> is_active(a),
         pool' = IF is_active(c) THEN update_active(c, b.counted) ELSE pool
  PROVE  PoolMatchesActive'
<1>1. CASE is_active(c)
  <2>1. pool' = WithoutOwner(c) \cup {PoolEntry(c, book'[c].counted)}
    BY <1>1, Zenon DEF update_active
  <2> QED
    BY <1>1, <2>1, PoolStep
<1>2. CASE ~is_active(c)
  <2>1. pool' = WithoutOwner(c) \cup {}
    BY <1>2, NoEntry
  <2> QED
    BY <1>2, <2>1, PoolStep
<1> QED
  BY <1>1, <1>2

\* Transfers into the pallet keep balances in their type.
LEMMA PaidInType ==
  ASSUME TypeOK, NEW who \in Accounts, NEW amount \in Nat, pay_in(who, amount)
  PROVE  wallet' \in [Accounts -> Nat] /\ palletBtc' \in Nat
  BY DEF TypeOK, pay_in

\* So do transfers out of the pallet.
LEMMA PaidOutType ==
  ASSUME TypeOK, NEW who \in Accounts, NEW amount \in Nat, pay_out(who, amount)
  PROVE  wallet' \in [Accounts -> Nat] /\ palletBtc' \in Nat
  BY DEF TypeOK, pay_out

\* A step that leaves books, pool, status and roles alone keeps the invariant if
\* the requests of the self bonds it writes fit.
LEMMA QuietStep ==
  ASSUME IInv, SelfRequestsFit', UNCHANGED <<book, pool, locks>>,
         \A a \in Accounts : candidateInfo'[a].status = candidateInfo[a].status,
         \A a \in Accounts : is_delegator(a)' <=> is_delegator(a),
         TypeOK'
  PROVE  IInv'
<1>1. MetadataMatchesBook /\ PoolMatchesActive /\ RolesExclusive
  BY DEF IInv
<1>2. MetadataMatchesBook'
  BY <1>1 DEF MetadataMatchesBook
<1>3. PoolMatchesActive'
  BY <1>1 DEF PoolMatchesActive, PoolEntry, is_active
<1>4. RolesExclusive'
  BY <1>1 DEF RolesExclusive, is_candidate
<1> QED
  BY <1>2, <1>3, <1>4 DEF IInv

\* A step in the books of one candidate, after which no account has become a
\* delegator that is a candidate.
LEMMA DelegationStep ==
  ASSUME IInv, NEW c \in Accounts, NEW b, KeepsGood(book[c], b),
         book' = [book EXCEPT ![c] = b], pool' = pool_after(c, b),
         UNCHANGED <<round, candidateInfo, locks>>,
         \A a \in Accounts : is_delegator(a)' => is_delegator(a) \/ ~is_candidate(a),
         delegatorState' \in [Accounts -> Delegator],
         requests' \in [Accounts -> [Accounts -> Request]],
         total' \in Nat, wallet' \in [Accounts -> Nat], palletBtc' \in Nat
  PROVE  IInv'
<1>1. TypeOK /\ RolesExclusive
  BY DEF IInv
<1>2. /\ book' \in [Accounts -> Book] /\ pool' \subseteq Bond
      /\ MetadataMatchesBook' /\ SelfRequestsFit' /\ PoolMatchesActive'
  BY BookStep
<1>3. RolesExclusive'
  <2>1. \A a \in Accounts : is_candidate(a)' <=> is_candidate(a)
    BY DEF is_candidate
  <2> QED
    BY <1>1, <2>1 DEF RolesExclusive
<1>4. TypeOK'
  BY <1>1, <1>2 DEF TypeOK
<1> QED
  BY <1>2, <1>3, <1>4 DEF IInv

\* Dropping requests keeps the map of requests in its type.
LEMMA DroppedType ==
  ASSUME TypeOK, NEW c \in Accounts, NEW owners
  PROVE  drop_requests(c, owners) \in [Accounts -> [Accounts -> Request]]
<1>1. requests \in [Accounts -> [Accounts -> Request]] /\ NoRequest \in Request
  BY EmptyTypes DEF TypeOK
<1>2. [d \in Accounts |-> IF d \in owners THEN NoRequest ELSE requests[c][d]]
        \in [Accounts -> Request]
  BY <1>1
<1> QED
  BY <1>1, <1>2 DEF drop_requests

\* Removing a delegation from a delegator's entry keeps it an entry, of a
\* delegator exactly when it was one.
LEMMA RemovedType ==
  ASSUME NEW st \in Delegator, NEW c \in Accounts, NEW r \in Request
  PROVE  /\ rm_delegation(st, c, r) \in Delegator
         /\ rm_delegation(st, c, r).present = st.present
<1>1. /\ st.bonds \in [Accounts -> Nat] /\ st.bonds[c] \in Nat /\ st.total \in Nat
      /\ st.lessTotal \in Nat /\ r.amount \in Nat
  BY DEF Delegator, Request
<1> DEFINE t == SatSub(st.total, st.bonds[c])
           l == SatSub(st.lessTotal, r.amount)
<1>2. t \in Nat /\ l \in Nat
  BY <1>1, SatSubType, Zenon
<1>3. rm_delegation(st, c, r) = [st EXCEPT !.bonds[c] = 0, !.total = t, !.lessTotal = l]
  BY DEF rm_delegation
<1> DEFINE n == [st.bonds EXCEPT ![c] = 0]
<1>4. n \in [Accounts -> Nat]
  BY <1>1
<1>5. rm_delegation(st, c, r) = [st EXCEPT !.bonds = n, !.total = t, !.lessTotal = l]
  BY <1>3 DEF Delegator
<1> HIDE DEF t, l, n
<1> QED
  BY <1>2, <1>4, <1>5 DEF Delegator

----------------------------------------------------------------------------
(* Every action keeps the inductive invariant: calls of candidates.        *)

\* A candidate that schedules its exit leaves the pool.
LEMMA ScheduleLeaveCandidatesStep ==
  ASSUME IInv, NEW c \in Accounts, schedule_leave_candidates(c)
  PROVE  IInv'
<1>1. TypeOK /\ MetadataMatchesBook /\ SelfRequestsFit /\ PoolMatchesActive /\ RolesExclusive
  BY DEF IInv
<1>2. /\ candidateInfo' \in [Accounts -> Candidate]
      /\ \A a \in Accounts : candidateInfo'[a].request = candidateInfo[a].request
      /\ \A a \in Accounts : is_candidate(a)' <=> is_candidate(a)
      /\ ~is_active(c)'
      /\ \A a \in Accounts \ {c} : is_active(a)' <=> is_active(a)
  <2>1. round + LeaveCandidatesDelay \in Nat
    BY <1>1, StakingAssumption DEF TypeOK
  <2>2. candidateInfo \in [Accounts -> Candidate] /\ candidateInfo[c] \in Candidate
    BY <1>1 DEF TypeOK
  <2> DEFINE n == [candidateInfo[c] EXCEPT !.status = "leaving",
                                           !.leaveAt = round + LeaveCandidatesDelay]
  <2>3. /\ n \in Candidate /\ n.status = "leaving" /\ n.request = candidateInfo[c].request
    BY <2>1, <2>2 DEF Candidate
  <2>4. candidateInfo' = [candidateInfo EXCEPT ![c] = n]
    BY <2>2 DEF schedule_leave_candidates, schedule_leave
  <2> HIDE DEF n
  <2>5. is_candidate(c)
    BY DEF schedule_leave_candidates
  <2> QED
    BY <2>2, <2>3, <2>4, <2>5 DEF is_candidate, is_active
<1>3. PoolMatchesActive'
  <2>1. pool' = WithoutOwner(c) \cup {}
    BY DEF schedule_leave_candidates
  <2> QED
    BY <1>1, <1>2, <2>1, PoolStep DEF schedule_leave_candidates
<1>4. MetadataMatchesBook' /\ SelfRequestsFit'
  BY <1>1, <1>2 DEF schedule_leave_candidates, MetadataMatchesBook, SelfRequestsFit
<1>5. RolesExclusive'
  BY <1>1, <1>2, Zenon DEF schedule_leave_candidates, RolesExclusive, is_delegator
<1>6. TypeOK'
  BY <1>1, <1>2, <1>3, PoolType DEF schedule_leave_candidates, TypeOK
<1> QED
  BY <1>3, <1>4, <1>5, <1>6 DEF IInv

\* A candidate that cancels its exit returns to the pool with its counted stake.
LEMMA CancelLeaveCandidatesStep ==
  ASSUME IInv, NEW c \in Accounts, cancel_leave_candidates(c)
  PROVE  IInv'
<1>1. TypeOK /\ MetadataMatchesBook /\ SelfRequestsFit /\ PoolMatchesActive /\ RolesExclusive
  BY DEF IInv
<1>2. /\ candidateInfo' \in [Accounts -> Candidate]
      /\ \A a \in Accounts : candidateInfo'[a].request = candidateInfo[a].request
      /\ \A a \in Accounts : is_candidate(a)' <=> is_candidate(a)
      /\ is_active(c)'
      /\ \A a \in Accounts \ {c} : is_active(a)' <=> is_active(a)
  <2>1. candidateInfo \in [Accounts -> Candidate] /\ candidateInfo[c] \in Candidate
    BY <1>1 DEF TypeOK
  <2> DEFINE n == candidateInfo'[c]
  <2>2. /\ n \in Candidate /\ n.status = "active" /\ n.request = candidateInfo[c].request
        /\ candidateInfo' = [candidateInfo EXCEPT ![c] = n]
    BY <2>1 DEF cancel_leave_candidates, Candidate
  <2> HIDE DEF n
  <2>3. is_candidate(c)
    BY DEF cancel_leave_candidates, is_candidate, is_leaving
  <2> QED
    BY <2>1, <2>2, <2>3 DEF is_candidate, is_active
<1>3. PoolMatchesActive'
  <2>1. pool' = WithoutOwner(c) \cup {PoolEntry(c, book'[c].counted)}
    BY <1>1, NoEntry DEF cancel_leave_candidates, is_active, is_leaving
  <2> QED
    BY <1>1, <1>2, <2>1, PoolStep DEF cancel_leave_candidates
<1>4. MetadataMatchesBook' /\ SelfRequestsFit'
  BY <1>1, <1>2 DEF cancel_leave_candidates, MetadataMatchesBook, SelfRequestsFit
<1>5. RolesExclusive'
  BY <1>1, <1>2, Zenon DEF cancel_leave_candidates, RolesExclusive, is_delegator
<1>6. TypeOK'
  BY <1>1, <1>2, <1>3, PoolType DEF cancel_leave_candidates, TypeOK
<1> QED
  BY <1>3, <1>4, <1>5, <1>6 DEF IInv

\* A candidate that goes offline leaves the pool.
LEMMA GoOfflineStep ==
  ASSUME IInv, NEW c \in Accounts, go_offline(c)
  PROVE  IInv'
<1>1. TypeOK /\ MetadataMatchesBook /\ SelfRequestsFit /\ PoolMatchesActive /\ RolesExclusive
  BY DEF IInv
<1>2. /\ candidateInfo' \in [Accounts -> Candidate]
      /\ \A a \in Accounts : candidateInfo'[a].request = candidateInfo[a].request
      /\ \A a \in Accounts : is_candidate(a)' <=> is_candidate(a)
      /\ ~is_active(c)'
      /\ \A a \in Accounts \ {c} : is_active(a)' <=> is_active(a)
  BY <1>1, StakingAssumption DEF go_offline, TypeOK, Candidate, is_candidate, is_active, is_leaving
<1>3. PoolMatchesActive'
  <2>1. pool' = WithoutOwner(c) \cup {}
    BY DEF go_offline
  <2> QED
    BY <1>1, <1>2, <2>1, PoolStep DEF go_offline
<1>4. MetadataMatchesBook' /\ SelfRequestsFit'
  BY <1>1, <1>2 DEF go_offline, MetadataMatchesBook, SelfRequestsFit
<1>5. RolesExclusive'
  BY <1>1, <1>2, Zenon DEF go_offline, RolesExclusive, is_delegator
<1>6. TypeOK'
  BY <1>1, <1>2, <1>3, PoolType DEF go_offline, TypeOK
<1> QED
  BY <1>3, <1>4, <1>5, <1>6 DEF IInv

\* A candidate that goes online returns to the pool with its counted stake.
LEMMA GoOnlineStep ==
  ASSUME IInv, NEW c \in Accounts, go_online(c)
  PROVE  IInv'
<1>1. TypeOK /\ MetadataMatchesBook /\ SelfRequestsFit /\ PoolMatchesActive /\ RolesExclusive
  BY DEF IInv
<1>2. /\ candidateInfo' \in [Accounts -> Candidate]
      /\ \A a \in Accounts : candidateInfo'[a].request = candidateInfo[a].request
      /\ \A a \in Accounts : is_candidate(a)' <=> is_candidate(a)
      /\ is_active(c)'
      /\ \A a \in Accounts \ {c} : is_active(a)' <=> is_active(a)
  <2>1. candidateInfo \in [Accounts -> Candidate] /\ candidateInfo[c] \in Candidate
    BY <1>1 DEF TypeOK
  <2> DEFINE n == candidateInfo'[c]
  <2>2. /\ n \in Candidate /\ n.status = "active" /\ n.request = candidateInfo[c].request
        /\ candidateInfo' = [candidateInfo EXCEPT ![c] = n]
    BY <2>1 DEF go_online, Candidate
  <2> HIDE DEF n
  <2>3. is_candidate(c)
    BY DEF go_online, is_candidate, is_leaving
  <2> QED
    BY <2>1, <2>2, <2>3 DEF is_candidate, is_active
<1>3. PoolMatchesActive'
  <2>1. pool' = WithoutOwner(c) \cup {PoolEntry(c, book'[c].counted)}
    BY <1>1, NoEntry DEF go_online, is_active, is_leaving
  <2> QED
    BY <1>1, <1>2, <2>1, PoolStep DEF go_online
<1>4. MetadataMatchesBook' /\ SelfRequestsFit'
  BY <1>1, <1>2 DEF go_online, MetadataMatchesBook, SelfRequestsFit
<1>5. RolesExclusive'
  BY <1>1, <1>2, Zenon DEF go_online, RolesExclusive, is_delegator
<1>6. TypeOK'
  BY <1>1, <1>2, <1>3, PoolType DEF go_online, TypeOK
<1> QED
  BY <1>3, <1>4, <1>5, <1>6 DEF IInv

\* join_candidates: the new candidate has an empty book and a fresh pool entry.
LEMMA JoinCandidatesStep ==
  ASSUME IInv, NEW c \in Accounts, join_candidates(c)
  PROVE  IInv'
<1>1. TypeOK /\ MetadataMatchesBook /\ SelfRequestsFit /\ PoolMatchesActive /\ RolesExclusive
  BY DEF IInv
<1>2. /\ book' \in [Accounts -> Book] /\ MetadataMatchesBook' /\ book'[c] = EmptyBook
      /\ \A a \in Accounts \ {c} : book'[a] = book[a]
  BY <1>1, BookChange, EmptyBookGood DEF join_candidates
<1>3. /\ candidateInfo' \in [Accounts -> Candidate] /\ candidateInfo'[c] = NewCandidate
      /\ \A a \in Accounts \ {c} : candidateInfo'[a] = candidateInfo[a]
  BY <1>1, EmptyTypes DEF join_candidates, TypeOK
<1>4. is_active(c)' /\ is_candidate(c)' /\ candidateInfo'[c].request = NoRequest
  BY <1>3 DEF is_active, is_candidate, NewCandidate, NoCandidate
<1>5. \A a \in Accounts \ {c} : /\ is_active(a)' <=> is_active(a)
                                /\ is_candidate(a)' <=> is_candidate(a)
  BY <1>3 DEF is_active, is_candidate
<1>6. PoolMatchesActive'
  <2>1. WithoutOwner(c) = pool
    BY <1>1, NoEntry DEF join_candidates, is_active, is_candidate
  <2>2. book'[c].counted = 0
    BY <1>2 DEF EmptyBook
  <2>3. pool' = WithoutOwner(c) \cup {PoolEntry(c, book'[c].counted)}
    BY <2>1, <2>2, Zenon DEF join_candidates
  <2> QED
    BY <1>1, <1>2, <1>4, <1>5, <2>3, PoolStep
<1>7. SelfRequestsFit'
  BY <1>1, <1>2, <1>3, <1>4, Zenon DEF SelfRequestsFit
<1>8. RolesExclusive'
  BY <1>1, <1>4, <1>5 DEF join_candidates, RolesExclusive, is_delegator
<1>9. TypeOK'
  BY <1>1, <1>2, <1>3, <1>6, PoolType DEF join_candidates, TypeOK
<1> QED
  BY <1>2, <1>6, <1>7, <1>8, <1>9 DEF IInv

\* candidate_bond_more: the self bond only grows, so a scheduled decrease still fits.
LEMMA CandidateBondMoreStep ==
  ASSUME IInv, NEW c \in Accounts, NEW more \in Amounts, candidate_bond_more(c, more)
  PROVE  IInv'
<1> DEFINE b == [book[c] EXCEPT !.bond = @ + more, !.counted = @ + more]
<1>1. TypeOK /\ MetadataMatchesBook /\ SelfRequestsFit /\ PoolMatchesActive /\ RolesExclusive
  BY DEF IInv
<1>2. more \in Nat
  BY StakingAssumption
<1>3. GoodBook(b) /\ b.bond = book[c].bond + more
  BY <1>1, <1>2, BooksGood, BondMore
<1>4. /\ book' = [book EXCEPT ![c] = b]
      /\ pool' = IF is_active(c) THEN update_active(c, b.counted) ELSE pool
  BY DEF candidate_bond_more, bond_more
<1> HIDE DEF b
<1>5. /\ book' \in [Accounts -> Book] /\ MetadataMatchesBook' /\ book'[c] = b
      /\ \A a \in Accounts \ {c} : book'[a] = book[a]
  BY <1>1, <1>3, <1>4, BookChange
<1>6. PoolMatchesActive'
  <2>1. \A a \in Accounts : is_active(a)' <=> is_active(a)
    BY DEF candidate_bond_more, is_active
  <2> QED
    BY <1>1, <1>4, <1>5, <2>1, PoolRefresh
<1>7. SelfRequestsFit'
  <2>1. SUFFICES ASSUME NEW a \in Accounts, candidateInfo[a].request # NoRequest
                 PROVE  candidateInfo[a].request.amount < book'[a].bond
    BY DEF SelfRequestsFit, candidate_bond_more
  <2>2. candidateInfo[a].request.amount < book[a].bond
    BY <1>1, <2>1 DEF SelfRequestsFit
  <2>3. candidateInfo[a].request.amount \in Nat /\ book[a].bond \in Nat
    BY <1>1 DEF TypeOK, Candidate, Request, Book
  <2>4. CASE a = c
    BY <1>2, <1>3, <1>5, <2>2, <2>3, <2>4
  <2>5. CASE a # c
    BY <1>5, <2>2, <2>5
  <2> QED
    BY <2>4, <2>5
<1>8. RolesExclusive'
  BY <1>1 DEF candidate_bond_more, RolesExclusive, is_candidate, is_delegator
<1>9. TypeOK'
  <2>1. wallet' \in [Accounts -> Nat] /\ palletBtc' \in Nat
    BY <1>1, <1>2, PaidInType DEF candidate_bond_more
  <2>2. total' \in Nat
    BY <1>1, <1>2 DEF TypeOK, candidate_bond_more
  <2> QED
    BY <1>1, <1>5, <1>6, <2>1, <2>2, PoolType DEF candidate_bond_more, TypeOK
<1> QED
  BY <1>5, <1>6, <1>7, <1>8, <1>9 DEF IInv

\* execute_candidate_bond_less: the scheduled amount is less than the self bond.
LEMMA ExecuteCandidateBondLessStep ==
  ASSUME IInv, NEW c \in Accounts, execute_candidate_bond_less(c)
  PROVE  IInv'
<1> DEFINE less == candidateInfo[c].request.amount
           b    == [book[c] EXCEPT !.bond = SatSub(@, less), !.counted = SatSub(@, less)]
<1>1. TypeOK /\ MetadataMatchesBook /\ SelfRequestsFit /\ PoolMatchesActive /\ RolesExclusive
  BY DEF IInv
<1>2. less \in Nat
  BY <1>1 DEF TypeOK, Candidate, Request
<1>3. less < book[c].bond
  BY <1>1 DEF execute_candidate_bond_less, Due, SelfRequestsFit, NoRequest
<1>4. /\ book' = [book EXCEPT ![c] = b]
      /\ pool' = IF is_active(c) THEN update_active(c, b.counted) ELSE pool
  BY DEF execute_candidate_bond_less, bond_less
<1>5. pay_out(c, less) /\ total' = SatSub(total, less)
  BY DEF execute_candidate_bond_less
<1> HIDE DEF less
<1>6. GoodBook(b)
  BY <1>1, <1>2, <1>3, BooksGood, BondLess
<1> HIDE DEF b
<1>7. /\ book' \in [Accounts -> Book] /\ MetadataMatchesBook' /\ book'[c] = b
      /\ \A a \in Accounts \ {c} : book'[a] = book[a]
  BY <1>1, <1>4, <1>6, BookChange
<1>8. /\ candidateInfo' \in [Accounts -> Candidate]
      /\ candidateInfo'[c].request = NoRequest
      /\ \A a \in Accounts \ {c} : candidateInfo'[a] = candidateInfo[a]
      /\ \A a \in Accounts : candidateInfo'[a].status = candidateInfo[a].status
  BY <1>1, EmptyTypes DEF execute_candidate_bond_less, TypeOK, Candidate
<1>9. PoolMatchesActive'
  <2>1. \A a \in Accounts : is_active(a)' <=> is_active(a)
    BY <1>8 DEF is_active
  <2> QED
    BY <1>1, <1>4, <1>7, <2>1, PoolRefresh
<1>10. SelfRequestsFit'
  BY <1>1, <1>7, <1>8, Zenon DEF SelfRequestsFit
<1>11. RolesExclusive'
  BY <1>1, <1>8 DEF execute_candidate_bond_less, RolesExclusive, is_candidate, is_delegator
<1>12. TypeOK'
  <2>1. wallet' \in [Accounts -> Nat] /\ palletBtc' \in Nat
    BY <1>1, <1>2, <1>5, PaidOutType
  <2>2. total' \in Nat
    BY <1>1, <1>2, <1>5, SatSubType DEF TypeOK
  <2> QED
    BY <1>1, <1>7, <1>8, <1>9, <2>1, <2>2, PoolType DEF execute_candidate_bond_less, TypeOK
<1> QED
  BY <1>7, <1>9, <1>10, <1>11, <1>12 DEF IInv

\* schedule_candidate_bond_less: the request is for less than the self bond.
LEMMA ScheduleCandidateBondLessStep ==
  ASSUME IInv, NEW c \in Accounts, NEW less \in Amounts, schedule_candidate_bond_less(c, less)
  PROVE  IInv'
<1> DEFINE r == [kind |-> "decrease", amount |-> less, at |-> round + CandidateBondLessDelay]
<1>1. TypeOK /\ SelfRequestsFit
  BY DEF IInv
<1>2. r \in Request /\ r.amount = less
  BY <1>1, StakingAssumption DEF TypeOK, Request
<1>3. candidateInfo' = [candidateInfo EXCEPT ![c].request = r] /\ less < book[c].bond
  <2>1. less \in Nat /\ book[c].bond \in Nat
    BY <1>1, StakingAssumption DEF TypeOK, Book
  <2>2. book[c].bond > less
    BY DEF schedule_candidate_bond_less
  <2>3. candidateInfo' = [candidateInfo EXCEPT ![c].request = r]
    BY DEF schedule_candidate_bond_less
  <2> HIDE DEF r
  <2> QED
    BY <2>1, <2>2, <2>3
<1> HIDE DEF r
<1>4. /\ candidateInfo' \in [Accounts -> Candidate] /\ candidateInfo'[c].request = r
      /\ \A a \in Accounts \ {c} : candidateInfo'[a] = candidateInfo[a]
      /\ \A a \in Accounts : candidateInfo'[a].status = candidateInfo[a].status
  BY <1>1, <1>2, <1>3 DEF TypeOK, Candidate
<1>5. UNCHANGED <<round, book, pool, delegatorState, requests, total, locks, wallet, palletBtc>>
  BY DEF schedule_candidate_bond_less
<1>6. SelfRequestsFit'
  <2>1. SUFFICES ASSUME NEW a \in Accounts, candidateInfo'[a].request # NoRequest
                 PROVE  candidateInfo'[a].request.amount < book[a].bond
    BY <1>5 DEF SelfRequestsFit
  <2>2. CASE a = c
    BY <1>2, <1>3, <1>4, <2>2
  <2>3. CASE a # c
    BY <1>1, <1>4, <2>1, <2>3 DEF SelfRequestsFit
  <2> QED
    BY <2>2, <2>3
<1>7. TypeOK'
  BY <1>1, <1>4, <1>5 DEF TypeOK
<1> QED
  BY <1>4, <1>5, <1>6, <1>7, QuietStep DEF is_delegator

\* cancel_candidate_bond_less
LEMMA CancelCandidateBondLessStep ==
  ASSUME IInv, NEW c \in Accounts, cancel_candidate_bond_less(c)
  PROVE  IInv'
<1>1. TypeOK /\ SelfRequestsFit
  BY DEF IInv
<1>2. /\ candidateInfo' \in [Accounts -> Candidate] /\ candidateInfo'[c].request = NoRequest
      /\ \A a \in Accounts \ {c} : candidateInfo'[a] = candidateInfo[a]
      /\ \A a \in Accounts : candidateInfo'[a].status = candidateInfo[a].status
  BY <1>1, EmptyTypes DEF cancel_candidate_bond_less, TypeOK, Candidate
<1>3. UNCHANGED <<round, book, pool, delegatorState, requests, total, locks, wallet, palletBtc>>
  BY DEF cancel_candidate_bond_less
<1>4. SelfRequestsFit'
  BY <1>1, <1>2, <1>3, Zenon DEF SelfRequestsFit
<1>5. TypeOK'
  BY <1>1, <1>2, <1>3 DEF TypeOK
<1> QED
  BY <1>2, <1>3, <1>4, <1>5, QuietStep DEF is_delegator

----------------------------------------------------------------------------
(* Calls of delegators.                                                    *)

\* Scheduling a revoke or a decrease.
LEMMA ScheduleRequestStep ==
  ASSUME IInv, NEW c \in Accounts, NEW d \in Accounts, NEW kind \in {"revoke", "decrease"},
         NEW amount \in Nat, ScheduleRequest(c, d, kind, amount)
  PROVE  IInv'
<1> DEFINE r == [kind |-> kind, amount |-> amount, at |-> round + RevokeDelegationDelay]
           l == delegatorState[d].lessTotal + amount
<1>1. TypeOK /\ SelfRequestsFit
  BY DEF IInv
<1>2. r \in Request
  BY <1>1, StakingAssumption DEF TypeOK, Request
<1>3. l \in Nat
  BY <1>1 DEF TypeOK, Delegator
<1>4. /\ requests' = [requests EXCEPT ![c][d] = r]
      /\ delegatorState' = [delegatorState EXCEPT ![d].lessTotal = l]
      /\ UNCHANGED <<round, candidateInfo, book, pool, total, locks, wallet, palletBtc>>
  BY DEF ScheduleRequest
<1> HIDE DEF r, l
<1>5. requests' \in [Accounts -> [Accounts -> Request]]
  BY <1>1, <1>2, <1>4 DEF TypeOK
<1>6. /\ delegatorState' \in [Accounts -> Delegator]
      /\ \A a \in Accounts : delegatorState'[a].present = delegatorState[a].present
  BY <1>1, <1>3, <1>4 DEF TypeOK, Delegator
<1>7. TypeOK'
  BY <1>1, <1>4, <1>5, <1>6 DEF TypeOK
<1>8. SelfRequestsFit'
  BY <1>1, <1>4 DEF SelfRequestsFit
<1>9. /\ \A a \in Accounts : candidateInfo'[a].status = candidateInfo[a].status
      /\ \A a \in Accounts : is_delegator(a)' <=> is_delegator(a)
  BY <1>4, <1>6 DEF is_delegator
<1> QED
  BY <1>4, <1>7, <1>8, <1>9, QuietStep

\* cancel_delegation_request
LEMMA CancelDelegationRequestStep ==
  ASSUME IInv, NEW c \in Accounts, NEW d \in Accounts, cancel_delegation_request(c, d)
  PROVE  IInv'
<1> DEFINE l == SatSub(delegatorState[d].lessTotal, requests[c][d].amount)
<1>1. TypeOK /\ SelfRequestsFit
  BY DEF IInv
<1>2. l \in Nat
  <2>1. delegatorState[d].lessTotal \in Nat /\ requests[c][d].amount \in Nat
    BY <1>1 DEF TypeOK, Delegator, Request
  <2> QED
    BY <2>1, SatSubType, Zenon
<1>3. /\ requests' = drop_requests(c, {d})
      /\ delegatorState' = [delegatorState EXCEPT ![d].lessTotal = l]
      /\ UNCHANGED <<round, candidateInfo, book, pool, total, locks, wallet, palletBtc>>
  BY DEF cancel_delegation_request
<1> HIDE DEF l
<1>4. requests' \in [Accounts -> [Accounts -> Request]]
  BY <1>1, <1>3, DroppedType
<1>5. /\ delegatorState' \in [Accounts -> Delegator]
      /\ \A a \in Accounts : delegatorState'[a].present = delegatorState[a].present
  BY <1>1, <1>2, <1>3 DEF TypeOK, Delegator
<1>6. TypeOK'
  BY <1>1, <1>3, <1>4, <1>5 DEF TypeOK
<1>7. SelfRequestsFit'
  BY <1>1, <1>3 DEF SelfRequestsFit
<1>8. /\ \A a \in Accounts : candidateInfo'[a].status = candidateInfo[a].status
      /\ \A a \in Accounts : is_delegator(a)' <=> is_delegator(a)
  BY <1>3, <1>5 DEF is_delegator
<1> QED
  BY <1>3, <1>6, <1>7, <1>8, QuietStep

\* The entry of a delegator, new or not, with a new delegation.
LEMMA AddedType ==
  ASSUME NEW st \in Delegator, NEW c \in Accounts, NEW amount \in Nat, NEW t \in Nat
  PROVE  [st EXCEPT !.present = TRUE, !.bonds[c] = amount, !.total = t] \in Delegator
<1> DEFINE n == [st.bonds EXCEPT ![c] = amount]
<1>1. n \in [Accounts -> Nat]
  BY DEF Delegator
<1>2. [st EXCEPT !.present = TRUE, !.bonds[c] = amount, !.total = t]
         = [st EXCEPT !.present = TRUE, !.bonds = n, !.total = t]
  BY DEF Delegator
<1> HIDE DEF n
<1> QED
  BY <1>1, <1>2 DEF Delegator

\* The stake Total gains when a delegation is added.
LEMMA AddedTotal ==
  ASSUME TypeOK, NEW c \in Accounts, NEW x \in Bond, AddToCandidate(c, x)
  PROVE  total' \in Nat
<1>1. total \in Nat /\ x.amount \in Nat /\ book[c].lowestBottom \in Nat
  BY DEF TypeOK, Bond, Book
<1>2. less_total_staked(book[c], x) \in Nat
  BY <1>1 DEF less_total_staked
<1>3. SatSub(x.amount, less_total_staked(book[c], x)) \in Nat
  BY <1>1, <1>2, SatSubType, Zenon
<1>4. total' = total + SatSub(x.amount, less_total_staked(book[c], x))
  BY DEF AddToCandidate
<1> QED
  BY <1>1, <1>3, <1>4

\* delegate, with room for the delegation.
LEMMA DelegateStep ==
  ASSUME IInv, NEW c \in Accounts, NEW d \in Accounts, NEW amount \in Amounts,
         delegate(c, d, amount)
  PROVE  IInv'
<1> DEFINE x == [owner |-> d, amount |-> amount]
           b == add_delegation(book[c], x)
           st == added_state(d, c, amount)
<1>1. TypeOK /\ MetadataMatchesBook
  BY DEF IInv
<1>2. amount \in Nat /\ x \in Bond
  BY StakingAssumption DEF Bond
<1>3. /\ CanDelegate(c, d, amount) /\ AddToCandidate(c, x) /\ pay_in(d, amount)
      /\ delegatorState' = [delegatorState EXCEPT ![d] = st]
      /\ requests' = requests
  BY DEF delegate
<1> HIDE DEF x
<1>4. KeepsGood(book[c], b)
  BY <1>1, <1>2, BooksGood, AddDelegation
<1>5. /\ book' = [book EXCEPT ![c] = b] /\ pool' = pool_after(c, b)
      /\ UNCHANGED <<round, candidateInfo, locks>>
  BY <1>3 DEF AddToCandidate
<1>6. st \in Delegator
  <2>1. delegatorState[d] \in Delegator /\ delegatorState[d].total + amount \in Nat
    BY <1>1, <1>2 DEF TypeOK, Delegator
  <2> QED
    BY <1>2, <2>1, AddedType DEF added_state
<1> HIDE DEF b, st
<1>7. /\ delegatorState' \in [Accounts -> Delegator]
      /\ \A a \in Accounts \ {d} : delegatorState'[a] = delegatorState[a]
  BY <1>1, <1>3, <1>6 DEF TypeOK
<1>8. \A a \in Accounts : is_delegator(a)' => is_delegator(a) \/ ~is_candidate(a)
  BY <1>3, <1>7, Zenon DEF CanDelegate, CanBecomeDelegator, is_delegator
<1>9. /\ wallet' \in [Accounts -> Nat] /\ palletBtc' \in Nat /\ total' \in Nat
      /\ requests' \in [Accounts -> [Accounts -> Request]]
  BY <1>1, <1>2, <1>3, PaidInType, AddedTotal DEF TypeOK
<1> QED
  BY <1>4, <1>5, <1>7, <1>8, <1>9, DelegationStep

\* delegate, when the lowest delegation of a full candidate is kicked.
LEMMA DelegateKickingStep ==
  ASSUME IInv, NEW c \in Accounts, NEW d \in Accounts, NEW amount \in Amounts,
         delegate_kicking(c, d, amount)
  PROVE  IInv'
<1> DEFINE x == [owner |-> d, amount |-> amount]
           b == add_delegation(book[c], x)
           st == added_state(d, c, amount)
<1>1. TypeOK /\ MetadataMatchesBook
  BY DEF IInv
<1>2. amount \in Nat /\ x \in Bond
  BY StakingAssumption DEF Bond
<1>3. PICK kicked \in KickedBy(book[c], x) :
         /\ palletBtc >= delegatorState[kicked.owner].bonds[c]
         /\ palletBtc' = palletBtc - delegatorState[kicked.owner].bonds[c] + amount
         /\ wallet' = [wallet EXCEPT ![kicked.owner] = @ + delegatorState[kicked.owner].bonds[c],
                                     ![d] = @ - amount]
         /\ delegatorState' = [delegatorState EXCEPT
                                  ![kicked.owner] = kicked_state(kicked.owner, c), ![d] = st]
         /\ requests' = drop_requests(c, {kicked.owner})
  BY DEF delegate_kicking
<1>4. CanDelegate(c, d, amount) /\ AddToCandidate(c, x)
  BY DEF delegate_kicking
<1> HIDE DEF x
<1>5. KeepsGood(book[c], b)
  BY <1>1, <1>2, BooksGood, AddDelegation
<1>6. /\ book' = [book EXCEPT ![c] = b] /\ pool' = pool_after(c, b)
      /\ UNCHANGED <<round, candidateInfo, locks>>
  BY <1>4 DEF AddToCandidate
<1> DEFINE k  == kicked.owner
           ks == kicked_state(k, c)
           back == delegatorState[k].bonds[c]
<1>7. k \in Accounts
  <2>1. GoodBook(book[c])
    BY <1>1, BooksGood
  <2>2. /\ book[c].bottom \in Seq(Bond) /\ Len(book[c].bottom) = MaxBottomDelegationsPerCandidate
        /\ kicked = Last(book[c].bottom)
    BY <1>3, <2>1, GoodBookFacts DEF KickedBy
  <2>3. kicked \in Bond
    BY <2>2, CapacityAssumption, FrontLastType, EmptySeq
  <2> QED
    BY <2>3 DEF Bond
<1>8. st \in Delegator
  <2>1. delegatorState[d] \in Delegator /\ delegatorState[d].total + amount \in Nat
    BY <1>1, <1>2 DEF TypeOK, Delegator
  <2> QED
    BY <1>2, <2>1, AddedType DEF added_state
<1> HIDE DEF b, st, k
<1>9. ks \in Delegator /\ (ks.present => delegatorState[k].present)
  <2>1. delegatorState[k] \in Delegator /\ requests[c][k] \in Request
    BY <1>1, <1>7 DEF TypeOK
  <2>2. /\ rm_delegation(delegatorState[k], c, requests[c][k]) \in Delegator
        /\ rm_delegation(delegatorState[k], c, requests[c][k]).present = delegatorState[k].present
    BY <2>1, RemovedType
  <2>3. NoDelegator \in Delegator /\ ~NoDelegator.present
    BY EmptyTypes DEF NoDelegator
  <2> QED
    BY <2>2, <2>3, Zenon DEF kicked_state
<1>10. back \in Nat
  BY <1>1, <1>7 DEF TypeOK, Delegator
<1>11. /\ palletBtc' = palletBtc - back + amount /\ palletBtc >= back
       /\ wallet' = [wallet EXCEPT ![k] = @ + back, ![d] = @ - amount]
       /\ delegatorState' = [delegatorState EXCEPT ![k] = ks, ![d] = st]
       /\ requests' = drop_requests(c, {k})
  BY <1>3 DEF k
<1> HIDE DEF ks, back
<1>12. /\ delegatorState' \in [Accounts -> Delegator]
       /\ \A a \in Accounts \ {d, k} : delegatorState'[a] = delegatorState[a]
       /\ k # d => delegatorState'[k] = ks
  BY <1>1, <1>7, <1>8, <1>9, <1>11 DEF TypeOK
<1>13. \A a \in Accounts : is_delegator(a)' => is_delegator(a) \/ ~is_candidate(a)
  <2>1. SUFFICES ASSUME NEW a \in Accounts, is_delegator(a)'
                 PROVE  is_delegator(a) \/ ~is_candidate(a)
    OBVIOUS
  <2>2. CASE a = d
    BY <1>4, <2>2, Zenon DEF CanDelegate, CanBecomeDelegator
  <2>3. CASE a # d /\ a = k
    BY <1>9, <1>12, <2>1, <2>3, Zenon DEF is_delegator
  <2>4. CASE a # d /\ a # k
    BY <1>12, <2>1, <2>4, Zenon DEF is_delegator
  <2> QED
    BY <2>2, <2>3, <2>4
<1>14. palletBtc' \in Nat
  BY <1>1, <1>2, <1>10, <1>11 DEF TypeOK
<1>15. wallet' \in [Accounts -> Nat]
  <2>1. wallet \in [Accounts -> Nat] /\ wallet[d] >= amount
    BY <1>1, <1>4 DEF TypeOK, CanDelegate
  <2>2. wallet[k] + back \in Nat
    BY <1>7, <1>10, <2>1
  <2>3. \A a \in Accounts : wallet'[a] \in Nat
    <3>1. SUFFICES ASSUME NEW a \in Accounts PROVE wallet'[a] \in Nat
      OBVIOUS
    <3>2. CASE a = d /\ k = d
      BY <1>2, <1>7, <1>10, <1>11, <2>1, <2>2, <3>2
    <3>3. CASE a = d /\ k # d
      BY <1>2, <1>7, <1>10, <1>11, <2>1, <2>2, <3>3
    <3>4. CASE a # d
      BY <1>2, <1>7, <1>10, <1>11, <2>1, <2>2, <3>4
    <3> QED
      BY <3>2, <3>3, <3>4
  <2>4. wallet' = [a \in Accounts |-> wallet'[a]]
    BY <1>11, <2>1
  <2> QED
    BY <2>3, <2>4
<1>16. requests' \in [Accounts -> [Accounts -> Request]]
  BY <1>1, <1>11, DroppedType
<1>17. total' \in Nat
  BY <1>1, <1>2, <1>4, AddedTotal
<1> QED
  BY <1>5, <1>6, <1>12, <1>13, <1>14, <1>15, <1>16, <1>17, DelegationStep

\* delegator_bond_more
LEMMA DelegatorBondMoreStep ==
  ASSUME IInv, NEW c \in Accounts, NEW d \in Accounts, NEW more \in Amounts,
         delegator_bond_more(c, d, more)
  PROVE  IInv'
<1> DEFINE bond == delegatorState[d].bonds[c]
           b    == increase_delegation(book[c], d, bond, more)
           m    == bond + more
           t    == delegatorState[d].total + more
           n    == [delegatorState[d].bonds EXCEPT ![c] = m]
           st   == [delegatorState[d] EXCEPT !.bonds = n, !.total = t]
<1>1. TypeOK /\ MetadataMatchesBook
  BY DEF IInv
<1>2. more \in Nat
  BY StakingAssumption
<1>3. /\ delegatorState \in [Accounts -> Delegator] /\ delegatorState[d] \in Delegator
      /\ bond \in Nat /\ m \in Nat /\ t \in Nat
  BY <1>1, <1>2 DEF TypeOK, Delegator
<1>4. /\ book' = [book EXCEPT ![c] = b] /\ pool' = pool_after(c, b)
      /\ can_change_delegation(book[c], d, bond) /\ pay_in(d, more) /\ total' = total + more
      /\ UNCHANGED <<round, candidateInfo, requests, locks>>
  BY DEF delegator_bond_more
<1>5. delegatorState' = [delegatorState EXCEPT ![d] = st]
  <2>1. delegatorState' = [delegatorState EXCEPT ![d].bonds[c] = m, ![d].total = t]
    BY <1>3 DEF delegator_bond_more
  <2> HIDE DEF m, t
  <2> QED
    BY <1>3, <2>1 DEF Delegator
<1> HIDE DEF bond, m, t
<1>6. st \in Delegator /\ st.present = delegatorState[d].present
  <2>1. n \in [Accounts -> Nat]
    BY <1>3 DEF Delegator
  <2> HIDE DEF n
  <2> QED
    BY <1>3, <2>1 DEF Delegator
<1>7. KeepsGood(book[c], b)
  BY <1>1, <1>2, <1>3, <1>4, BooksGood, IncreaseDelegation
<1> HIDE DEF b, st
<1>8. /\ delegatorState' \in [Accounts -> Delegator]
      /\ \A a \in Accounts : delegatorState'[a].present = delegatorState[a].present
  BY <1>3, <1>5, <1>6
<1>9. /\ wallet' \in [Accounts -> Nat] /\ palletBtc' \in Nat
  BY <1>1, <1>2, <1>4, PaidInType
<1>10. total' \in Nat /\ requests' \in [Accounts -> [Accounts -> Request]]
  BY <1>1, <1>2, <1>4 DEF TypeOK
<1>11. \A a \in Accounts : is_delegator(a)' => is_delegator(a) \/ ~is_candidate(a)
  BY <1>8 DEF is_delegator
<1> QED
  BY <1>4, <1>7, <1>8, <1>9, <1>10, <1>11, DelegationStep

\* execute_delegation_request of a revoke
LEMMA ExecuteRevokeStep ==
  ASSUME IInv, NEW c \in Accounts, NEW d \in Accounts, execute_revoke(c, d)
  PROVE  IInv'
<1> DEFINE amount == requests[c][d].amount
           b      == rm_delegation_if_exists(book[c], d, amount)
           leaving == Cardinality(Delegations(delegatorState[d])) = 1
           rest   == rm_delegation(delegatorState[d], c, requests[c][d])
           st     == IF leaving THEN NoDelegator ELSE rest
<1>1. TypeOK /\ MetadataMatchesBook
  BY DEF IInv
<1>2. /\ delegatorState \in [Accounts -> Delegator] /\ delegatorState[d] \in Delegator
      /\ delegatorState[d].bonds[c] \in Nat /\ requests[c][d] \in Request /\ amount \in Nat
  BY <1>1 DEF TypeOK, Delegator, Request
<1>3. /\ book' = [book EXCEPT ![c] = b] /\ pool' = pool_after(c, b)
      /\ can_rm_delegation(book[c], d, amount) /\ pay_out(d, delegatorState[d].bonds[c])
      /\ total' = SatSub(total, amount) /\ requests' = drop_requests(c, {d})
      /\ delegatorState' = [delegatorState EXCEPT ![d] = st]
      /\ UNCHANGED <<round, candidateInfo, locks>>
  BY DEF execute_revoke, delegator_leaves_candidate
<1>4. rest \in Delegator /\ rest.present = delegatorState[d].present
  BY <1>2, RemovedType
<1> HIDE DEF amount, leaving, rest
<1>5. st \in Delegator /\ (st.present => delegatorState[d].present)
  <2>1. NoDelegator \in Delegator /\ ~NoDelegator.present
    BY EmptyTypes DEF NoDelegator
  <2> QED
    BY <1>4, <2>1, Zenon
<1>6. KeepsGood(book[c], b)
  BY <1>1, <1>3, BooksGood, RmDelegation
<1> HIDE DEF b, st
<1>7. /\ delegatorState' \in [Accounts -> Delegator]
      /\ \A a \in Accounts : delegatorState'[a].present => delegatorState[a].present
  BY <1>2, <1>3, <1>5
<1>8. /\ wallet' \in [Accounts -> Nat] /\ palletBtc' \in Nat
  BY <1>1, <1>2, <1>3, PaidOutType
<1>9. total' \in Nat
  BY <1>1, <1>2, <1>3, SatSubType DEF TypeOK
<1>10. requests' \in [Accounts -> [Accounts -> Request]]
  BY <1>1, <1>3, DroppedType
<1>11. \A a \in Accounts : is_delegator(a)' => is_delegator(a) \/ ~is_candidate(a)
  BY <1>7 DEF is_delegator
<1> QED
  BY <1>3, <1>6, <1>7, <1>8, <1>9, <1>10, <1>11, DelegationStep

\* execute_delegation_request of a decrease
LEMMA ExecuteDecreaseStep ==
  ASSUME IInv, NEW c \in Accounts, NEW d \in Accounts, execute_decrease(c, d)
  PROVE  IInv'
<1> DEFINE less == requests[c][d].amount
           bond == delegatorState[d].bonds[c]
           b    == decrease_delegation(book[c], d, bond, less)
           m    == SatSub(bond, less)
           t    == SatSub(delegatorState[d].total, less)
           l    == SatSub(delegatorState[d].lessTotal, less)
           n    == [delegatorState[d].bonds EXCEPT ![c] = m]
           st   == [delegatorState[d] EXCEPT !.bonds = n, !.total = t, !.lessTotal = l]
<1>1. TypeOK /\ MetadataMatchesBook
  BY DEF IInv
<1>2. /\ delegatorState \in [Accounts -> Delegator] /\ delegatorState[d] \in Delegator
      /\ bond \in Nat /\ less \in Nat
      /\ delegatorState[d].total \in Nat /\ delegatorState[d].lessTotal \in Nat
  BY <1>1 DEF TypeOK, Delegator, Request
<1>3. m \in Nat /\ t \in Nat /\ l \in Nat
  BY <1>2, SatSubType, Zenon
<1>4. /\ book' = [book EXCEPT ![c] = b] /\ pool' = pool_after(c, b)
      /\ can_change_delegation(book[c], d, bond) /\ pay_out(d, less)
      /\ total' = SatSub(total, less) /\ requests' = drop_requests(c, {d})
      /\ UNCHANGED <<round, candidateInfo, locks>>
  BY DEF execute_decrease
<1>5. delegatorState' = [delegatorState EXCEPT ![d] = st]
  <2>1. delegatorState' = [delegatorState EXCEPT ![d].bonds[c] = m, ![d].total = t,
            ![d].lessTotal = l]
    BY <1>2 DEF execute_decrease
  <2> HIDE DEF m, t, l
  <2> QED
    BY <1>2, <2>1 DEF Delegator
<1> HIDE DEF less, bond, m, t, l
<1>6. n \in [Accounts -> Nat]
  BY <1>2, <1>3 DEF Delegator
<1> HIDE DEF n
<1>7. st \in Delegator /\ st.present = delegatorState[d].present
  BY <1>2, <1>3, <1>6 DEF Delegator
<1>8. KeepsGood(book[c], b)
  BY <1>1, <1>2, <1>4, BooksGood, DecreaseDelegation
<1> HIDE DEF b, st
<1>9. /\ delegatorState' \in [Accounts -> Delegator]
      /\ \A a \in Accounts : delegatorState'[a].present = delegatorState[a].present
  BY <1>2, <1>5, <1>7
<1>10. /\ wallet' \in [Accounts -> Nat] /\ palletBtc' \in Nat
  BY <1>1, <1>2, <1>4, PaidOutType
<1>11. total' \in Nat
  BY <1>1, <1>2, <1>4, SatSubType DEF TypeOK
<1>12. requests' \in [Accounts -> [Accounts -> Request]]
  BY <1>1, <1>4, DroppedType
<1>13. \A a \in Accounts : is_delegator(a)' => is_delegator(a) \/ ~is_candidate(a)
  BY <1>9 DEF is_delegator
<1> QED
  BY <1>4, <1>8, <1>9, <1>10, <1>11, <1>12, <1>13, DelegationStep

\* execute_leave_candidates: a leaving candidate is not in the pool, its lock and
\* its book go together with its entry.
LEMMA ExecuteLeaveCandidatesStep ==
  ASSUME IInv, NEW c \in Accounts, execute_leave_candidates(c)
  PROVE  IInv'
<1> DEFINE owners == {d \in Owners(book[c].top) \cup Owners(book[c].bottom) :
                        delegatorState[d].bonds[c] > 0}
           backing == book[c].bond + book[c].topTotal + book[c].bottomTotal
<1>1. TypeOK /\ MetadataMatchesBook /\ SelfRequestsFit /\ PoolMatchesActive /\ RolesExclusive
  BY DEF IInv
<1>2. /\ is_leaving(c)
      /\ wallet' = [a \in Accounts |->
                       IF a \in owners THEN wallet[a] + delegatorState[a].bonds[c] ELSE wallet[a]]
      /\ delegatorState' = [a \in Accounts |->
                               IF a \in owners THEN returned_state(a, c) ELSE delegatorState[a]]
      /\ requests' = drop_requests(c, Accounts)
      /\ candidateInfo' = [candidateInfo EXCEPT ![c] = NoCandidate]
      /\ book' = [book EXCEPT ![c] = EmptyBook]
      /\ locks' = locks \ {c}
      /\ total' = SatSub(total, backing)
      /\ UNCHANGED <<round, pool>>
  BY DEF execute_leave_candidates, can_leave
<1>3. palletBtc' \in Nat
  <2>1. \E left \in 0 .. palletBtc : palletBtc' = left
    BY Zenon DEF execute_leave_candidates
  <2> QED
    BY <1>1, <2>1 DEF TypeOK
<1>4. total' \in Nat
  <2>1. total \in Nat /\ backing \in Nat
    BY <1>1 DEF TypeOK, Book
  <2> HIDE DEF backing
  <2> QED
    BY <1>2, <2>1, SatSubType, Zenon
<1> HIDE DEF owners, backing
<1>5. /\ book' \in [Accounts -> Book] /\ MetadataMatchesBook' /\ book'[c] = EmptyBook
      /\ \A a \in Accounts \ {c} : book'[a] = book[a]
  BY <1>1, <1>2, BookChange, EmptyBookGood
<1>6. /\ candidateInfo' \in [Accounts -> Candidate] /\ candidateInfo'[c] = NoCandidate
      /\ \A a \in Accounts \ {c} : candidateInfo'[a] = candidateInfo[a]
  BY <1>1, <1>2, EmptyTypes DEF TypeOK
<1>7. ~is_active(c)' /\ ~is_candidate(c)' /\ candidateInfo'[c].request = NoRequest
  BY <1>6 DEF is_active, is_candidate, NoCandidate
<1>8. \A a \in Accounts \ {c} : /\ is_active(a)' <=> is_active(a)
                                /\ is_candidate(a)' <=> is_candidate(a)
  BY <1>6 DEF is_active, is_candidate
<1>9. PoolMatchesActive'
  <2>1. pool' = WithoutOwner(c) \cup {}
    BY <1>1, <1>2, NoEntry DEF is_leaving, is_active
  <2> QED
    BY <1>1, <1>5, <1>7, <1>8, <2>1, PoolStep
<1>10. SelfRequestsFit'
  BY <1>1, <1>5, <1>6, <1>7, Zenon DEF SelfRequestsFit
<1>11. \A a \in Accounts : /\ returned_state(a, c) \in Delegator
                           /\ returned_state(a, c).present => delegatorState[a].present
  <2>1. SUFFICES ASSUME NEW a \in Accounts
                 PROVE  /\ returned_state(a, c) \in Delegator
                        /\ returned_state(a, c).present => delegatorState[a].present
    OBVIOUS
  <2>2. delegatorState[a] \in Delegator /\ requests[c][a] \in Request
    BY <1>1 DEF TypeOK
  <2>3. /\ rm_delegation(delegatorState[a], c, requests[c][a]) \in Delegator
        /\ rm_delegation(delegatorState[a], c, requests[c][a]).present = delegatorState[a].present
    BY <2>2, RemovedType
  <2>4. NoDelegator \in Delegator /\ ~NoDelegator.present
    BY EmptyTypes DEF NoDelegator
  <2> QED
    BY <2>3, <2>4, Zenon DEF returned_state
<1>12. /\ delegatorState' \in [Accounts -> Delegator]
       /\ \A a \in Accounts : delegatorState'[a].present => delegatorState[a].present
  <2>1. delegatorState \in [Accounts -> Delegator]
    BY <1>1 DEF TypeOK
  <2> QED
    BY <1>2, <1>11, <2>1
<1>13. wallet' \in [Accounts -> Nat]
  <2>1. \A a \in Accounts : wallet[a] \in Nat /\ delegatorState[a].bonds[c] \in Nat
    BY <1>1 DEF TypeOK, Delegator
  <2>2. \A a \in Accounts : wallet[a] + delegatorState[a].bonds[c] \in Nat
    BY <2>1, AddType, Zenon
  <2> QED
    BY <1>2, <2>1, <2>2
<1>14. RolesExclusive'
  BY <1>1, <1>2, <1>7, <1>8, <1>12 DEF RolesExclusive, is_delegator
<1>15. TypeOK'
  <2>1. requests' \in [Accounts -> [Accounts -> Request]]
    BY <1>1, <1>2, DroppedType
  <2>2. round' \in Nat /\ locks' \subseteq Accounts
    BY <1>1, <1>2 DEF TypeOK
  <2> QED
    BY <1>3, <1>4, <1>5, <1>6, <1>9, <1>12, <1>13, <2>1, <2>2, PoolType DEF TypeOK
<1> QED
  BY <1>5, <1>9, <1>10, <1>14, <1>15 DEF IInv

----------------------------------------------------------------------------
(* The theorems.                                                           *)

\* Genesis without stakers satisfies the invariant.
LEMMA InitIInv == Init => IInv
<1> SUFFICES ASSUME Init PROVE IInv
  OBVIOUS
<1>1. TypeOK
  <2>1. EmptyBook \in Book
    BY EmptyBookGood DEF GoodBook
  <2>2. pool \subseteq Bond
    BY StakingAssumption DEF Init, Bond
  <2>3. candidateInfo \in [Accounts -> Candidate]
    BY EmptyTypes DEF Init
  <2> QED
    BY <2>1, <2>2, <2>3, EmptyTypes, StakingAssumption DEF Init, TypeOK
<1>2. MetadataMatchesBook
  BY EmptyBookGood DEF Init, MetadataMatchesBook, GoodBook
<1>3. SelfRequestsFit
  BY DEF Init, SelfRequestsFit, NoCandidate, NewCandidate
<1>4. PoolMatchesActive
  <2>1. {a \in Accounts : is_active(a)} = GenesisCandidates
    BY StakingAssumption DEF Init, is_active, NoCandidate, NewCandidate
  <2>2. \A c \in GenesisCandidates : book[c].counted = 0
    BY StakingAssumption DEF Init, EmptyBook
  <2> QED
    BY <2>1, <2>2 DEF Init, PoolMatchesActive, PoolEntry
<1>5. RolesExclusive
  BY StakingAssumption
     DEF Init, RolesExclusive, is_candidate, is_delegator, NoCandidate, NewCandidate, NoDelegator
<1> QED
  BY <1>1, <1>2, <1>3, <1>4, <1>5 DEF IInv

\* Every call, and every new round, keeps the invariant.
LEMMA NextIInv == IInv /\ [Next]_vars => IInv'
<1> SUFFICES ASSUME IInv, [Next]_vars PROVE IInv'
  OBVIOUS
<1>1. TypeOK /\ SelfRequestsFit
  BY DEF IInv
<1>2. CASE new_round
  <2>1. TypeOK'
    BY <1>1, <1>2 DEF new_round, TypeOK
  <2>2. SelfRequestsFit'
    BY <1>1, <1>2 DEF new_round, SelfRequestsFit
  <2> QED
    BY <1>2, <2>1, <2>2, QuietStep DEF new_round, is_delegator
<1>3. ASSUME NEW c \in Joiners, join_candidates(c) \/ force_join_candidates(c) PROVE IInv'
  BY <1>3, JoinCandidatesStep, StakingAssumption DEF force_join_candidates
<1>4. ASSUME NEW c \in Accounts, CandidateStep(c) PROVE IInv'
  BY <1>4, ScheduleLeaveCandidatesStep, CancelLeaveCandidatesStep, ExecuteLeaveCandidatesStep,
     GoOfflineStep, GoOnlineStep, CandidateBondMoreStep, ScheduleCandidateBondLessStep,
     ExecuteCandidateBondLessStep, CancelCandidateBondLessStep, Zenon DEF CandidateStep
<1>5. ASSUME NEW c \in Accounts, NEW d \in Backers, NEW amount \in Amounts,
             delegate(c, d, amount) \/ delegate_kicking(c, d, amount)
      PROVE  IInv'
  BY <1>5, DelegateStep, DelegateKickingStep, StakingAssumption
<1>6. ASSUME NEW c \in Accounts, NEW d \in Accounts, DelegatorStep(c, d) PROVE IInv'
  <2>1. CASE schedule_revoke_delegation(c, d)
    <3>1. delegatorState[d].bonds[c] \in Nat
      BY <1>1 DEF TypeOK, Delegator
    <3> QED
      BY <2>1, <3>1, ScheduleRequestStep DEF schedule_revoke_delegation
  <2>2. ASSUME NEW less \in Amounts, schedule_delegator_bond_less(c, d, less) PROVE IInv'
    <3>1. less \in Nat /\ ScheduleRequest(c, d, "decrease", less)
      BY <2>2, StakingAssumption DEF schedule_delegator_bond_less
    <3> QED
      BY <3>1, ScheduleRequestStep
  <2> QED
    BY <1>6, <2>1, <2>2, DelegatorBondMoreStep, CancelDelegationRequestStep,
       ExecuteRevokeStep, ExecuteDecreaseStep, Zenon DEF DelegatorStep
<1>7. CASE UNCHANGED vars
  <2>1. TypeOK' /\ SelfRequestsFit'
    BY <1>1, <1>7 DEF vars, TypeOK, SelfRequestsFit
  <2> QED
    BY <1>7, <2>1, QuietStep DEF vars, is_delegator
<1> QED
  BY <1>2, <1>3, <1>4, <1>5, <1>6, <1>7, Zenon DEF Next, LedgerExtrinsic

\* The inductive invariant holds in every reachable state.
THEOREM Invariance == Spec => []IInv
  BY InitIInv, NextIInv, PTL DEF Spec

\* Every storage item of the staking pallet keeps its declared type, whatever the
\* calls. That nothing is lost where a subtraction saturates is not said here.
THEOREM TypeCorrect == Spec => []TypeOK
<1>1. IInv => TypeOK
  BY DEF IInv
<1> QED
  BY <1>1, Invariance, PTL

\* The amounts, capacities and the count by which the pallet decides where a
\* delegation is are those of the two lists, within their capacities.
THEOREM MetadataCorrect == Spec => []MetadataMatchesBook
<1>1. IInv => MetadataMatchesBook
  BY DEF IInv
<1> QED
  BY <1>1, Invariance, PTL

\* What the selection of sequencers ranks is never stale: the pool holds exactly
\* the active candidates, each with its counted stake.
THEOREM PoolCorrect == Spec => []PoolMatchesActive
<1>1. IInv => PoolMatchesActive
  BY DEF IInv
<1> QED
  BY <1>1, Invariance, PTL

\* Nobody is candidate and delegator at once, and exactly the candidates hold
\* the lock of join_candidates.
THEOREM RolesCorrect == Spec => []RolesExclusive
<1>1. IInv => RolesExclusive
  BY DEF IInv
<1> QED
  BY <1>1, Invariance, PTL

----------------------------------------------------------------------------
(* One delegator: its entry and its requests towards the candidates.       *)

AmountsOf(q) == [c \in Accounts |-> q[c].amount]

\* A request fits the delegation of n it is about: a revoke is for the whole of
\* it, a decrease leaves MinDelegation.
Fits(n, r) ==
    /\ n = 0 \/ n >= MinDelegation
    /\ r.kind = "none" => r = NoRequest
    /\ r.kind = "revoke" => n > 0 /\ r.amount = n
    /\ r.kind = "decrease" => n >= r.amount + MinDelegation

\* The entry st of a delegator with the requests q: it exists as long as it has
\* a delegation, and its two totals are the sums of delegations and requests.
EntryOK(st, q) ==
    /\ \A c \in Accounts : Fits(st.bonds[c], q[c])
    /\ st.present <=> \E c \in Accounts : st.bonds[c] > 0
    /\ st.total = SumFunction(st.bonds)
    /\ st.lessTotal = SumFunction(AmountsOf(q))

\* What the declared types say of an entry and its requests.
LEMMA EntryTypes ==
  ASSUME NEW st \in Delegator, NEW q \in [Accounts -> Request]
  PROVE  /\ st.bonds \in [Accounts -> Nat] /\ st.present \in BOOLEAN
         /\ st.total \in Nat /\ st.lessTotal \in Nat
         /\ \A c \in Accounts : st.bonds[c] \in Nat /\ q[c] \in Request /\ q[c].amount \in Nat
         /\ AmountsOf(q) \in [Accounts -> Nat] /\ \A c \in Accounts : AmountsOf(q)[c] = q[c].amount
<1>1. /\ st.bonds \in [Accounts -> Nat] /\ st.present \in BOOLEAN
      /\ st.total \in Nat /\ st.lessTotal \in Nat
  BY DEF Delegator
<1>2. \A c \in Accounts : st.bonds[c] \in Nat /\ q[c] \in Request /\ q[c].amount \in Nat
  BY <1>1 DEF Request
<1>3. AmountsOf(q) \in [Accounts -> Nat] /\ \A c \in Accounts : AmountsOf(q)[c] = q[c].amount
  BY <1>2 DEF AmountsOf
<1> QED
  BY <1>1, <1>2, <1>3

\* A function over the accounts is summed over the accounts.
LEMMA SumOverAccounts ==
  ASSUME NEW f \in [Accounts -> Nat]
  PROVE  SumFunction(f) = SumFunctionOnSet(f, Accounts) /\ SumFunction(f) \in Nat
<1>1. DOMAIN f = Accounts
  OBVIOUS
<1>2. SumFunction(f) = SumFunctionOnSet(f, Accounts)
  BY <1>1, Zenon DEF SumFunction
<1>3. SumFunctionOnSet(f, Accounts) \in Nat
  BY AccountsAssumption, SumPicks
<1> QED
  BY <1>2, <1>3

\* One value changes, and the sum by as much.
LEMMA AccountsSumChanges ==
  ASSUME NEW f \in [Accounts -> Nat], NEW g \in [Accounts -> Nat], NEW c \in Accounts,
         \A a \in Accounts \ {c} : g[a] = f[a]
  PROVE  SumFunction(g) + f[c] = SumFunction(f) + g[c]
<1>1. SumFunctionOnSet(g, Accounts) + f[c] = SumFunctionOnSet(f, Accounts) + g[c]
  <2>1. \A x \in Accounts : f[x] \in Nat /\ g[x] \in Nat
    OBVIOUS
  <2> QED
    BY <2>1, AccountsAssumption, SumChanges
<1>2. /\ SumFunction(f) = SumFunctionOnSet(f, Accounts)
      /\ SumFunction(g) = SumFunctionOnSet(g, Accounts)
  BY SumOverAccounts
<1> QED
  BY <1>1, <1>2, Zenon

\* The sum of nothing but zeros.
LEMMA AccountsSumZero ==
  ASSUME NEW f \in [Accounts -> Nat], \A a \in Accounts : f[a] = 0
  PROVE  SumFunction(f) = 0
<1>1. SumFunctionOnSet(f, Accounts) = SumFunctionOnSet(f, {})
  <2>1. /\ \A x \in Accounts : f[x] \in Nat
        /\ {} \in SUBSET Accounts
        /\ \A x \in Accounts \ {} : f[x] = 0
    OBVIOUS
  <2> QED
    BY <2>1, AccountsAssumption, SumSkips
<1>2. SumFunctionOnSet(f, {}) = 0
  BY SumUnfolds, FS_EmptySet
<1>3. SumFunction(f) = SumFunctionOnSet(f, Accounts)
  BY SumOverAccounts
<1> QED
  BY <1>1, <1>2, <1>3

\* A value is at most the sum.
LEMMA AccountsSumCovers ==
  ASSUME NEW f \in [Accounts -> Nat], NEW c \in Accounts
  PROVE  f[c] <= SumFunction(f)
<1>1. \A x \in Accounts : f[x] \in Nat
  OBVIOUS
<1>2. f[c] <= SumFunctionOnSet(f, Accounts)
  BY <1>1, AccountsAssumption, SumCovers
<1>3. SumFunction(f) = SumFunctionOnSet(f, Accounts)
  BY SumOverAccounts
<1> QED
  BY <1>2, <1>3, Zenon

\* A change of one delegation and of the request about it keeps an entry, when
\* the totals follow.
LEMMA EntryChange ==
  ASSUME NEW st \in Delegator, NEW q \in [Accounts -> Request], EntryOK(st, q),
         NEW r \in Delegator, NEW p \in [Accounts -> Request], NEW c \in Accounts,
         \A a \in Accounts \ {c} : r.bonds[a] = st.bonds[a] /\ p[a] = q[a],
         Fits(r.bonds[c], p[c]),
         r.present <=> \E a \in Accounts : r.bonds[a] > 0,
         r.total + st.bonds[c] = st.total + r.bonds[c],
         r.lessTotal + q[c].amount = st.lessTotal + p[c].amount
  PROVE  EntryOK(r, p)
<1>1. /\ st.bonds \in [Accounts -> Nat] /\ st.bonds[c] \in Nat
      /\ st.total \in Nat /\ st.lessTotal \in Nat
      /\ AmountsOf(q) \in [Accounts -> Nat] /\ q[c].amount \in Nat
      /\ \A a \in Accounts : AmountsOf(q)[a] = q[a].amount
  BY EntryTypes
<1>2. /\ r.bonds \in [Accounts -> Nat] /\ r.bonds[c] \in Nat
      /\ r.total \in Nat /\ r.lessTotal \in Nat
      /\ AmountsOf(p) \in [Accounts -> Nat] /\ p[c].amount \in Nat
      /\ \A a \in Accounts : AmountsOf(p)[a] = p[a].amount
  BY EntryTypes
<1>3. /\ \A a \in Accounts : Fits(st.bonds[a], q[a])
      /\ st.total = SumFunction(st.bonds) /\ st.lessTotal = SumFunction(AmountsOf(q))
  BY DEF EntryOK
<1>4. \A a \in Accounts : Fits(r.bonds[a], p[a])
  BY <1>3, Zenon
<1>5. r.total = SumFunction(r.bonds)
  <2>1. SumFunction(r.bonds) + st.bonds[c] = SumFunction(st.bonds) + r.bonds[c]
    BY <1>1, <1>2, AccountsSumChanges
  <2>2. SumFunction(r.bonds) \in Nat
    BY <1>2, SumOverAccounts
  <2>3. SumFunction(r.bonds) + st.bonds[c] = r.total + st.bonds[c]
    BY <1>3, <2>1, Zenon
  <2>4. \A l, m, n \in Nat : l + n = m + n => m = l
    OBVIOUS
  <2>5. r.total \in Nat /\ st.bonds[c] \in Nat
    BY <1>1, <1>2
  <2> QED
    BY <2>2, <2>3, <2>4, <2>5, Zenon
<1>6. r.lessTotal = SumFunction(AmountsOf(p))
  <2>1. \A a \in Accounts \ {c} : AmountsOf(p)[a] = AmountsOf(q)[a]
    BY <1>1, <1>2, Zenon
  <2>2. SumFunction(AmountsOf(p)) + AmountsOf(q)[c] = SumFunction(AmountsOf(q)) + AmountsOf(p)[c]
    BY <1>1, <1>2, <2>1, AccountsSumChanges
  <2>3. SumFunction(AmountsOf(p)) + q[c].amount = SumFunction(AmountsOf(q)) + p[c].amount
    BY <1>1, <1>2, <2>2, Zenon
  <2>4. SumFunction(AmountsOf(p)) \in Nat
    BY <1>2, SumOverAccounts
  <2> QED
    BY <1>1, <1>2, <1>3, <2>3, <2>4
<1> QED
  BY <1>4, <1>5, <1>6, Zenon DEF EntryOK

\* An account that has neither delegations nor requests.
LEMMA EmptyEntry ==
  ASSUME NEW q \in [Accounts -> Request], \A a \in Accounts : q[a] = NoRequest
  PROVE  EntryOK(NoDelegator, q)
<1>1. /\ NoDelegator.bonds \in [Accounts -> Nat] /\ NoDelegator.present = FALSE
      /\ NoDelegator.total = 0 /\ NoDelegator.lessTotal = 0
      /\ \A a \in Accounts : NoDelegator.bonds[a] = 0
  BY DEF NoDelegator
<1>2. /\ AmountsOf(q) \in [Accounts -> Nat]
      /\ \A a \in Accounts : AmountsOf(q)[a] = 0
  BY DEF AmountsOf, NoRequest
<1>3. SumFunction(NoDelegator.bonds) = 0 /\ SumFunction(AmountsOf(q)) = 0
  BY <1>1, <1>2, AccountsSumZero
<1>4. \A a \in Accounts : Fits(NoDelegator.bonds[a], q[a])
  BY <1>1 DEF Fits, NoRequest
<1> QED
  BY <1>1, <1>3, <1>4 DEF EntryOK

\* The totals cover every delegation and every request, and an absent
\* delegation has no request.
LEMMA EntryBounds ==
  ASSUME NEW st \in Delegator, NEW q \in [Accounts -> Request], EntryOK(st, q), NEW c \in Accounts
  PROVE  /\ st.bonds[c] <= st.total /\ q[c].amount <= st.lessTotal
         /\ st.bonds[c] = 0 => q[c] = NoRequest
<1>1. /\ st.bonds \in [Accounts -> Nat] /\ AmountsOf(q) \in [Accounts -> Nat]
      /\ q[c].amount \in Nat /\ q[c] \in Request /\ AmountsOf(q)[c] = q[c].amount
  BY EntryTypes
<1>2. /\ st.total = SumFunction(st.bonds) /\ st.lessTotal = SumFunction(AmountsOf(q))
      /\ Fits(st.bonds[c], q[c])
  BY DEF EntryOK
<1>3. st.bonds[c] <= SumFunction(st.bonds) /\ AmountsOf(q)[c] <= SumFunction(AmountsOf(q))
  BY <1>1, AccountsSumCovers
<1>4. st.bonds[c] = 0 => q[c] = NoRequest
  BY <1>1, <1>2, StakingAssumption DEF Fits, Request
<1> QED
  BY <1>1, <1>2, <1>3, <1>4

\* The sum has a positive value exactly when it is positive.
LEMMA PositiveSum ==
  ASSUME NEW f \in [Accounts -> Nat]
  PROVE  SumFunction(f) > 0 <=> \E a \in Accounts : f[a] > 0
<1>1. SumFunction(f) \in Nat
  BY SumOverAccounts
<1>2. ASSUME \A a \in Accounts : ~(f[a] > 0) PROVE SumFunction(f) = 0
  <2>1. \A a \in Accounts : f[a] = 0
    BY <1>2
  <2> QED
    BY <2>1, AccountsSumZero
<1>3. ASSUME NEW a \in Accounts, f[a] > 0 PROVE SumFunction(f) > 0
  <2>1. f[a] <= SumFunction(f) /\ f[a] \in Nat
    BY AccountsSumCovers
  <2> QED
    BY <1>1, <1>3, <2>1
<1> QED
  BY <1>1, <1>2, <1>3

\* c is the only candidate the entry lists.
LEMMA OnlyDelegation ==
  ASSUME NEW st \in Delegator, NEW c \in Accounts, st.bonds[c] > 0
  PROVE  Cardinality(Delegations(st)) = 1 <=> ~\E a \in Accounts \ {c} : st.bonds[a] > 0
<1>1. c \in Delegations(st) /\ \A a : a \in Delegations(st) <=> a \in Accounts /\ st.bonds[a] > 0
  BY DEF Delegations
<1>2. IsFiniteSet(Delegations(st))
  <2>1. Delegations(st) \in SUBSET Accounts
    BY DEF Delegations
  <2> QED
    BY <2>1, AccountsAssumption, FS_Subset
<1>3. Cardinality(Delegations(st)) = 1 <=> \E x : Delegations(st) = {x}
  BY <1>2, FS_Singleton
<1>4. (\E x : Delegations(st) = {x}) <=> ~\E a \in Accounts \ {c} : st.bonds[a] > 0
  <2>1. ASSUME NEW x, Delegations(st) = {x}, NEW a \in Accounts \ {c}, st.bonds[a] > 0
        PROVE  FALSE
    BY <1>1, <2>1
  <2>2. ASSUME ~\E a \in Accounts \ {c} : st.bonds[a] > 0
        PROVE  Delegations(st) = {c}
    BY <1>1, <2>2
  <2> QED
    BY <2>1, <2>2
<1> QED
  BY <1>3, <1>4

\* What rm_delegation leaves of an entry, and that an entry without delegations
\* is the one that is removed: by either of the tests the pallet uses.
LEMMA RemovedEntry ==
  ASSUME NEW st \in Delegator, NEW q \in [Accounts -> Request], EntryOK(st, q),
         NEW p \in [Accounts -> Request], NEW c \in Accounts, st.bonds[c] > 0,
         \A a \in Accounts \ {c} : p[a] = q[a], p[c] = NoRequest
  PROVE  LET rest == rm_delegation(st, c, q[c])
             r == IF Cardinality(Delegations(st)) = 1 THEN NoDelegator ELSE rest
         IN  /\ r = IF rest.total = 0 THEN NoDelegator ELSE rest
             /\ r \in Delegator /\ EntryOK(r, p)
             /\ r.bonds[c] = 0 /\ \A a \in Accounts \ {c} : r.bonds[a] = st.bonds[a]
             /\ r.total + st.bonds[c] = st.total
<1> DEFINE rest == rm_delegation(st, c, q[c])
           alone == Cardinality(Delegations(st)) = 1
           r == IF alone THEN NoDelegator ELSE rest
           t == SatSub(st.total, st.bonds[c])
           l == SatSub(st.lessTotal, q[c].amount)
           n == [st.bonds EXCEPT ![c] = 0]
<1>1. /\ st.bonds \in [Accounts -> Nat] /\ st.bonds[c] \in Nat /\ q[c] \in Request
      /\ st.total \in Nat /\ st.lessTotal \in Nat /\ q[c].amount \in Nat
  BY EntryTypes
<1>2. st.bonds[c] <= st.total /\ q[c].amount <= st.lessTotal
  BY EntryBounds
<1>3. t \in Nat /\ l \in Nat /\ t + st.bonds[c] = st.total /\ l + q[c].amount = st.lessTotal
  BY <1>1, <1>2 DEF SatSub
<1>4. n \in [Accounts -> Nat] /\ n[c] = 0 /\ \A a \in Accounts \ {c} : n[a] = st.bonds[a]
  BY <1>1
<1>5. rest = [st EXCEPT !.bonds = n, !.total = t, !.lessTotal = l]
  <2>1. rest = [st EXCEPT !.bonds[c] = 0, !.total = t, !.lessTotal = l]
    BY DEF rm_delegation
  <2> HIDE DEF t, l
  <2> QED
    BY <2>1 DEF Delegator
<1> HIDE DEF t, l, n, rest
<1>6. /\ rest \in Delegator /\ rest.bonds = n /\ rest.total = t /\ rest.lessTotal = l
      /\ rest.present = st.present
  BY <1>3, <1>4, <1>5 DEF Delegator
<1>7. alone <=> ~\E a \in Accounts \ {c} : st.bonds[a] > 0
  BY OnlyDelegation
<1> HIDE DEF alone
<1>8. t = 0 <=> alone
  <2>1. SumFunction(n) + st.bonds[c] = SumFunction(st.bonds) + n[c]
    BY <1>1, <1>4, AccountsSumChanges
  <2>2. SumFunction(n) \in Nat
    BY <1>4, SumOverAccounts
  <2>3. st.total = SumFunction(st.bonds)
    BY DEF EntryOK
  <2>4. t = SumFunction(n)
    BY <1>1, <1>3, <1>4, <2>1, <2>2, <2>3
  <2>5. SumFunction(n) > 0 <=> \E a \in Accounts : n[a] > 0
    BY <1>4, PositiveSum
  <2>6. (\E a \in Accounts : n[a] > 0) <=> \E a \in Accounts \ {c} : st.bonds[a] > 0
    BY <1>4
  <2> QED
    BY <1>3, <1>7, <2>4, <2>5, <2>6
<1> DEFINE Good == /\ r = IF rest.total = 0 THEN NoDelegator ELSE rest
                   /\ r \in Delegator /\ EntryOK(r, p)
                   /\ r.bonds[c] = 0 /\ \A a \in Accounts \ {c} : r.bonds[a] = st.bonds[a]
                   /\ r.total + st.bonds[c] = st.total
<1>9. ASSUME alone PROVE Good
  <2>1. /\ NoDelegator \in Delegator /\ NoDelegator.total = 0
        /\ \A a \in Accounts : NoDelegator.bonds[a] = 0
    BY EmptyTypes DEF NoDelegator
  <2>2. \A a \in Accounts \ {c} : st.bonds[a] = 0 /\ p[a] = NoRequest
    <3>1. SUFFICES ASSUME NEW a \in Accounts \ {c} PROVE st.bonds[a] = 0 /\ p[a] = NoRequest
      OBVIOUS
    <3>2. st.bonds[a] = 0
      BY <1>1, <1>7, <1>9
    <3>3. q[a] = NoRequest
      BY <3>2, EntryBounds
    <3> QED
      BY <3>2, <3>3
  <2>3. EntryOK(NoDelegator, p)
    <3>1. \A a \in Accounts : p[a] = NoRequest
      BY <2>2
    <3> QED
      BY <3>1, EmptyEntry
  <2>4. NoDelegator.total + st.bonds[c] = st.total
    BY <1>1, <1>3, <1>8, <1>9, <2>1
  <2> QED
    BY <1>6, <1>8, <1>9, <2>1, <2>2, <2>3, <2>4
<1>10. ASSUME ~alone PROVE Good
  <2>1. \A a \in Accounts \ {c} : rest.bonds[a] = st.bonds[a] /\ p[a] = q[a]
    BY <1>4, <1>6
  <2>2. Fits(rest.bonds[c], p[c])
    BY <1>4, <1>6 DEF Fits, NoRequest
  <2>3. rest.present <=> \E a \in Accounts : rest.bonds[a] > 0
    <3>1. st.present
      BY DEF EntryOK
    <3>2. \E a \in Accounts : rest.bonds[a] > 0
      BY <1>7, <1>10, <2>1
    <3> QED
      BY <1>6, <3>1, <3>2
  <2>4. rest.total + st.bonds[c] = st.total + rest.bonds[c]
    BY <1>1, <1>3, <1>4, <1>6
  <2>5. rest.lessTotal + q[c].amount = st.lessTotal + p[c].amount
    <3>1. p[c].amount = 0
      BY DEF NoRequest
    <3> QED
      BY <1>1, <1>3, <1>6, <3>1
  <2>6. EntryOK(rest, p)
    BY <1>6, <2>1, <2>2, <2>3, <2>4, <2>5, EntryChange
  <2> QED
    BY <1>3, <1>4, <1>6, <1>8, <1>10, <2>1, <2>6
<1>11. Good
  BY <1>9, <1>10, Zenon
<1> QED
  BY <1>11, Zenon DEF rest, alone

\* The entry st with a delegation of n to c.
EntryAfterAdding(st, c, n) == [st EXCEPT !.present = TRUE, !.bonds[c] = n, !.total = @ + n]

\* The entry of a delegator that gets a delegation of n to c.
LEMMA AddedEntry ==
  ASSUME NEW st \in Delegator, NEW q \in [Accounts -> Request], EntryOK(st, q),
         NEW c \in Accounts, st.bonds[c] = 0, NEW n \in Nat, n >= MinDelegation
  PROVE  LET r == EntryAfterAdding(st, c, n)
         IN  /\ r \in Delegator /\ EntryOK(r, q)
             /\ r.bonds[c] = n /\ \A a \in Accounts \ {c} : r.bonds[a] = st.bonds[a]
             /\ r.total = st.total + n
<1> DEFINE t == st.total + n
           m == [st.bonds EXCEPT ![c] = n]
           r == EntryAfterAdding(st, c, n)
<1>1. /\ st.bonds \in [Accounts -> Nat] /\ st.total \in Nat /\ st.lessTotal \in Nat
      /\ q[c].amount \in Nat /\ MinDelegation \in Nat \ {0}
  BY EntryTypes, StakingAssumption
<1>2. m \in [Accounts -> Nat] /\ m[c] = n /\ \A a \in Accounts \ {c} : m[a] = st.bonds[a]
  BY <1>1
<1>3. t \in Nat /\ t + st.bonds[c] = st.total + m[c]
  BY <1>1, <1>2
<1>4. r = [st EXCEPT !.present = TRUE, !.bonds = m, !.total = t]
  BY DEF EntryAfterAdding, Delegator
<1> HIDE DEF m, r
<1>5. /\ r \in Delegator /\ r.bonds = m /\ r.total = t /\ r.lessTotal = st.lessTotal /\ r.present
  <2> HIDE DEF t
  <2> QED
    BY <1>2, <1>3, <1>4 DEF Delegator
<1>6. \A a \in Accounts \ {c} : r.bonds[a] = st.bonds[a] /\ q[a] = q[a]
  BY <1>2, <1>5
<1>7. Fits(r.bonds[c], q[c])
  <2>1. q[c] = NoRequest
    BY EntryBounds
  <2> QED
    BY <1>2, <1>5, <2>1 DEF Fits, NoRequest
<1>8. r.present <=> \E a \in Accounts : r.bonds[a] > 0
  BY <1>1, <1>2, <1>5
<1>9. r.total + st.bonds[c] = st.total + r.bonds[c]
  BY <1>3, <1>5, Zenon
<1>10. r.lessTotal + q[c].amount = st.lessTotal + q[c].amount
  BY <1>5
<1>11. EntryOK(r, q)
  BY <1>5, <1>6, <1>7, <1>8, <1>9, <1>10, EntryChange
<1> QED
  BY <1>2, <1>5, <1>6, <1>11, Zenon DEF r

\* The delegation of st to c becomes m and its totals t and l, and its requests p.
Moves(st, q, p, c, m, t, l) ==
    /\ st \in Delegator /\ q \in [Accounts -> Request] /\ EntryOK(st, q)
    /\ p \in [Accounts -> Request] /\ \A a \in Accounts \ {c} : p[a] = q[a]
    /\ st.bonds[c] > 0 /\ m \in Nat /\ m > 0 /\ Fits(m, p[c])
    /\ t \in Nat /\ t + st.bonds[c] = st.total + m
    /\ l \in Nat /\ l + q[c].amount = st.lessTotal + p[c].amount

Moved(st, c, m, t, l) == [st EXCEPT !.bonds[c] = m, !.total = t, !.lessTotal = l]

\* The entry of a delegator whose delegation to c becomes m, with the request p[c].
LEMMA ChangedEntry ==
  ASSUME NEW st, NEW q, NEW p, NEW c \in Accounts, NEW m, NEW t, NEW l,
         Moves(st, q, p, c, m, t, l)
  PROVE  LET r == Moved(st, c, m, t, l)
         IN  /\ r \in Delegator /\ EntryOK(r, p)
             /\ r.bonds[c] = m /\ \A a \in Accounts \ {c} : r.bonds[a] = st.bonds[a]
             /\ r.total = t
<1> DEFINE n == [st.bonds EXCEPT ![c] = m]
           r == Moved(st, c, m, t, l)
<1>0. /\ st \in Delegator /\ q \in [Accounts -> Request] /\ EntryOK(st, q)
      /\ p \in [Accounts -> Request] /\ \A a \in Accounts \ {c} : p[a] = q[a]
      /\ st.bonds[c] > 0 /\ m \in Nat /\ m > 0 /\ Fits(m, p[c])
      /\ t \in Nat /\ t + st.bonds[c] = st.total + m
      /\ l \in Nat /\ l + q[c].amount = st.lessTotal + p[c].amount
  BY DEF Moves
<1>1. st.bonds \in [Accounts -> Nat]
  BY <1>0, EntryTypes
<1>2. n \in [Accounts -> Nat] /\ n[c] = m /\ \A a \in Accounts \ {c} : n[a] = st.bonds[a]
  BY <1>0, <1>1
<1>3. r = [st EXCEPT !.bonds = n, !.total = t, !.lessTotal = l]
  BY <1>0 DEF Moved, Delegator
<1> HIDE DEF n, r
<1>4. /\ r \in Delegator /\ r.bonds = n /\ r.total = t /\ r.lessTotal = l
      /\ r.present = st.present
  BY <1>0, <1>2, <1>3 DEF Delegator
<1>5. \A a \in Accounts \ {c} : r.bonds[a] = st.bonds[a] /\ p[a] = q[a]
  BY <1>0, <1>2, <1>4
<1>6. Fits(r.bonds[c], p[c])
  BY <1>0, <1>2, <1>4
<1>7. r.present <=> \E a \in Accounts : r.bonds[a] > 0
  <2>1. st.present
    BY <1>0 DEF EntryOK
  <2> QED
    BY <1>0, <1>2, <1>4, <2>1
<1>8. r.total + st.bonds[c] = st.total + r.bonds[c]
  BY <1>0, <1>2, <1>4, Zenon
<1>9. r.lessTotal + q[c].amount = st.lessTotal + p[c].amount
  BY <1>0, <1>4, Zenon
<1>10. EntryOK(r, p)
  BY <1>0, <1>4, <1>5, <1>6, <1>7, <1>8, <1>9, EntryChange
<1> QED
  BY <1>2, <1>4, <1>5, <1>10, Zenon DEF r

\* The entry of a delegator whose request towards c becomes p[c].
LEMMA RequestedEntry ==
  ASSUME NEW st \in Delegator, NEW q \in [Accounts -> Request], EntryOK(st, q),
         NEW p \in [Accounts -> Request], NEW c \in Accounts,
         \A a \in Accounts \ {c} : p[a] = q[a], Fits(st.bonds[c], p[c]),
         NEW l \in Nat, l + q[c].amount = st.lessTotal + p[c].amount
  PROVE  LET r == [st EXCEPT !.lessTotal = l]
         IN  /\ r \in Delegator /\ EntryOK(r, p)
             /\ r.bonds = st.bonds /\ r.total = st.total
<1> DEFINE r == [st EXCEPT !.lessTotal = l]
<1>1. /\ r \in Delegator /\ r.bonds = st.bonds /\ r.total = st.total /\ r.lessTotal = l
      /\ r.present = st.present
  BY DEF Delegator
<1> HIDE DEF r
<1>2. \A a \in Accounts \ {c} : r.bonds[a] = st.bonds[a] /\ p[a] = q[a]
  BY <1>1
<1>3. Fits(r.bonds[c], p[c])
  BY <1>1
<1>4. r.present <=> \E a \in Accounts : r.bonds[a] > 0
  BY <1>1 DEF EntryOK
<1>5. r.total + st.bonds[c] = st.total + r.bonds[c]
  BY <1>1
<1>6. r.lessTotal + q[c].amount = st.lessTotal + p[c].amount
  BY <1>1, Zenon
<1>7. EntryOK(r, p)
  BY <1>1, <1>2, <1>3, <1>4, <1>5, <1>6, EntryChange
<1> QED
  BY <1>1, <1>7, Zenon DEF r

----------------------------------------------------------------------------
(* One candidate: its book and the delegations to it.                      *)

\* The bonds of the book b are the delegations n: n[d] is what d delegates.
HeldBy(b, n) ==
    /\ \A d \in Accounts : n[d] > 0 => [owner |-> d, amount |-> n[d]] \in Held(b)
    /\ \A x \in Held(b) : x.amount > 0 /\ n[x.owner] = x.amount

\* The BTC staked on the candidate of the book b
StakeIn(b) == b.bond + SumOf(b.top) + SumOf(b.bottom)

\* It is the self bond and what the bonds of the book amount to.
LEMMA StakeIsWorth ==
  ASSUME NEW b \in Book, Arranged(b)
  PROVE  StakeIn(b) = b.bond + Worth(Held(b)) /\ StakeIn(b) \in Nat /\ Worth(Held(b)) \in Nat
<1>1. /\ SumOf(b.top) + SumOf(b.bottom) = Worth(Held(b)) /\ Worth(Held(b)) \in Nat
  BY HeldFacts
<1>2. SumOf(b.top) \in Nat /\ SumOf(b.bottom) \in Nat
  BY SumOfBonds DEF Arranged
<1>3. b.bond \in Nat
  BY DEF Book
<1> QED
  BY <1>1, <1>2, <1>3 DEF StakeIn

\* The delegations n become m when the bonds of K leave a book that holds H, and
\* those of X enter it.
Becomes(n, m, H, K, X) ==
    /\ K \in SUBSET H /\ X \in SUBSET Bond
    /\ \A x \in X : x.amount > 0 /\ m[x.owner] = x.amount
    /\ \A x \in X, y \in H \ K : x.owner # y.owner
    /\ \A y \in K : m[y.owner] = 0 \/ \E x \in X : x.owner = y.owner
    /\ \A d \in Accounts : m[d] = n[d] \/ (\E x \in X : x.owner = d) \/ (\E y \in K : y.owner = d)

\* Then its bonds are the delegations m.
LEMMA HeldByChange ==
  ASSUME NEW b, Held(b) \in SUBSET Bond, NEW n, HeldBy(b, n), NEW r, NEW m,
         NEW K, NEW X, Becomes(n, m, Held(b), K, X), Held(r) = (Held(b) \ K) \cup X
  PROVE  HeldBy(r, m)
<1>0. /\ K \in SUBSET Held(b) /\ X \in SUBSET Bond
      /\ \A x \in X : x.amount > 0 /\ m[x.owner] = x.amount
      /\ \A x \in X, y \in Held(b) \ K : x.owner # y.owner
      /\ \A y \in K : m[y.owner] = 0 \/ \E x \in X : x.owner = y.owner
      /\ \A d \in Accounts : m[d] = n[d] \/ (\E x \in X : x.owner = d) \/ (\E y \in K : y.owner = d)
  BY DEF Becomes
<1>1. \A x \in Bond : x.owner \in Accounts /\ x.amount \in Nat
                      /\ x = [owner |-> x.owner, amount |-> x.amount]
  BY DEF Bond
<1>2. /\ \A d \in Accounts : n[d] > 0 => [owner |-> d, amount |-> n[d]] \in Held(b)
      /\ \A x \in Held(b) : x.amount > 0 /\ n[x.owner] = x.amount
  BY DEF HeldBy
<1>3. \A x, y \in Held(b) : x.owner = y.owner => x = y
  <2>1. SUFFICES ASSUME NEW x \in Held(b), NEW y \in Held(b), x.owner = y.owner PROVE x = y
    OBVIOUS
  <2>2. x.amount = y.amount
    BY <1>2, <2>1
  <2>3. x = [owner |-> x.owner, amount |-> x.amount] /\ y = [owner |-> y.owner, amount |-> y.amount]
    BY <1>1
  <2> QED
    BY <2>1, <2>2, <2>3, Zenon
<1>4. ASSUME NEW d \in Accounts, m[d] > 0 PROVE [owner |-> d, amount |-> m[d]] \in Held(r)
  <2>1. CASE \E x \in X : x.owner = d
    <3>1. PICK x \in X : x.owner = d
      BY <2>1
    <3>2. x \in Bond /\ m[d] = x.amount
      BY <1>0, <3>1
    <3>3. x = [owner |-> d, amount |-> m[d]]
      BY <1>1, <3>1, <3>2, Zenon
    <3> QED
      BY <3>3
  <2>2. CASE ~\E x \in X : x.owner = d
    <3>1. ~\E y \in K : y.owner = d
      <4>1. SUFFICES ASSUME NEW y \in K, y.owner = d PROVE FALSE
        OBVIOUS
      <4>2. m[d] = 0
        BY <1>0, <2>2, <4>1
      <4> QED
        BY <1>4, <4>2
    <3>2. m[d] = n[d]
      BY <1>0, <2>2, <3>1
    <3>3. [owner |-> d, amount |-> m[d]] \in Held(b)
      BY <1>2, <1>4, <3>2, Zenon
    <3>4. [owner |-> d, amount |-> m[d]] \notin K
      <4>1. [owner |-> d, amount |-> m[d]].owner = d
        OBVIOUS
      <4> QED
        BY <3>1, <4>1, Zenon
    <3> QED
      BY <3>3, <3>4
  <2> QED
    BY <2>1, <2>2
<1>5. ASSUME NEW z \in Held(r) PROVE z.amount > 0 /\ m[z.owner] = z.amount
  <2>1. CASE z \in X
    BY <1>0, <2>1
  <2>2. CASE z \in Held(b) \ K
    <3>1. z.amount > 0 /\ n[z.owner] = z.amount /\ z.owner \in Accounts
      BY <1>1, <1>2, <2>2
    <3>2. ~\E x \in X : x.owner = z.owner
      BY <1>0, <2>2
    <3>3. ~\E y \in K : y.owner = z.owner
      BY <1>0, <1>3, <2>2
    <3>4. m[z.owner] = n[z.owner]
      BY <1>0, <3>1, <3>2, <3>3
    <3> QED
      BY <3>1, <3>4
  <2> QED
    BY <2>1, <2>2
<1> QED
  BY <1>4, <1>5 DEF HeldBy

\* A delegation for which there is room: the stake grows by its amount.
LEMMA AddedBook ==
  ASSUME NEW b, GoodBook(b), Arranged(b), NEW n, HeldBy(b, n),
         NEW x \in Bond, x.amount > 0, n[x.owner] = 0, can_add_delegation(b, x),
         KickedBy(b, x) = {},
         NEW m, m[x.owner] = x.amount, \A d \in Accounts \ {x.owner} : m[d] = n[d]
  PROVE  LET r == add_delegation(b, x)
         IN  /\ KeepsGood(b, r) /\ Arranged(r) /\ HeldBy(r, m)
             /\ less_total_staked(b, x) = 0
             /\ StakeIn(r) = StakeIn(b) + x.amount
<1> DEFINE r == add_delegation(b, x)
<1>1. KeepsGood(b, r) /\ r \in Book /\ b \in Book /\ r.bond = b.bond /\ b.bond \in Nat
  BY AddDelegation DEF KeepsGood, GoodBook, Book
<1>2. x.amount \in Nat /\ x.owner \in Accounts
  BY DEF Bond
<1>3. /\ Held(b) \in SUBSET Bond /\ IsFiniteSet(Held(b))
      /\ \A y \in Held(b) : y.owner # x.owner
  <2>1. \A y \in Held(b) : y.amount > 0 /\ n[y.owner] = y.amount
    BY DEF HeldBy
  <2> QED
    BY <2>1, HeldFacts
<1>4. /\ Arranged(r) /\ Held(r) = (Held(b) \ {}) \cup {x} /\ less_total_staked(b, x) = 0
  BY <1>3, AddArranged
<1> HIDE DEF r
<1>5. HeldBy(r, m)
  <2>1. Becomes(n, m, Held(b), {}, {x})
    BY <1>3, <1>4 DEF Becomes
  <2> QED
    BY <1>3, <1>4, <2>1, HeldByChange
<1>6. Worth(Held(r)) = Worth(Held(b)) + x.amount /\ Worth(Held(b)) \in Nat
  <2>1. x \notin Held(b)
    BY <1>3
  <2>2. Held(r) = Held(b) \cup {x}
    BY <1>4
  <2> QED
    BY <1>3, <2>1, <2>2, WorthGrows
<1>7. StakeIn(r) = r.bond + Worth(Held(r)) /\ StakeIn(b) = b.bond + Worth(Held(b))
  BY <1>1, <1>4, StakeIsWorth
<1>8. StakeIn(r) = StakeIn(b) + x.amount
  BY <1>1, <1>2, <1>6, <1>7
<1> QED
  BY <1>1, <1>4, <1>5, <1>8, Zenon DEF r

\* One bond y of a book gives way to x.
LEMMA SwapWorth ==
  ASSUME NEW B \in SUBSET Bond, IsFiniteSet(B), NEW y \in B, NEW x \in Bond, x \notin B \ {y}
  PROVE  /\ Worth(B) \in Nat /\ Worth((B \ {y}) \cup {x}) \in Nat
         /\ Worth((B \ {y}) \cup {x}) + y.amount = Worth(B) + x.amount
<1> DEFINE C == B \ {y}
<1>1. IsFiniteSet(C) /\ Worth(C) \in Nat /\ y.amount \in Nat /\ Worth(B) = Worth(C) + y.amount
  BY WorthFalls
<1>2. Worth(C \cup {x}) = Worth(C) + x.amount
  <2>1. C \in SUBSET Bond /\ x \notin C
    OBVIOUS
  <2> HIDE DEF C
  <2> QED
    BY <1>1, <2>1, WorthGrows
<1>3. x.amount \in Nat
  BY DEF Bond
<1> HIDE DEF C
<1>4. /\ Worth(B) \in Nat /\ Worth(C \cup {x}) \in Nat
      /\ Worth(C \cup {x}) + y.amount = Worth(B) + x.amount
  BY <1>1, <1>2, <1>3
<1> QED
  BY <1>4 DEF C

\* A delegation to a full candidate: the bond that is kicked is smaller, and its
\* amount is what add_delegation reports.
LEMMA KickedBook ==
  ASSUME NEW b, GoodBook(b), Arranged(b), NEW n, HeldBy(b, n),
         NEW x \in Bond, x.amount > 0, n[x.owner] = 0, can_add_delegation(b, x),
         NEW y \in KickedBy(b, x),
         NEW m, m[x.owner] = x.amount, m[y.owner] = 0,
         \A d \in Accounts \ {x.owner, y.owner} : m[d] = n[d]
  PROVE  LET r == add_delegation(b, x)
         IN  /\ KeepsGood(b, r) /\ Arranged(r) /\ HeldBy(r, m)
             /\ y \in Bond /\ y.owner # x.owner /\ n[y.owner] = y.amount /\ y.amount > 0
             /\ y.amount = less_total_staked(b, x) /\ y.amount < x.amount
             /\ StakeIn(r) + y.amount = StakeIn(b) + x.amount
             /\ Len(b.bottom) = MaxBottomDelegationsPerCandidate
             /\ b.bottom[MaxBottomDelegationsPerCandidate] = y
<1> DEFINE r == add_delegation(b, x)
<1>1. KeepsGood(b, r) /\ r \in Book /\ b \in Book /\ r.bond = b.bond /\ b.bond \in Nat
  BY AddDelegation DEF KeepsGood, GoodBook, Book
<1>2. x.amount \in Nat /\ x.owner \in Accounts
  BY DEF Bond
<1>3. /\ Held(b) \in SUBSET Bond /\ IsFiniteSet(Held(b))
      /\ \A z \in Held(b) : z.owner # x.owner /\ z.amount > 0 /\ n[z.owner] = z.amount
      /\ \A z, u \in Held(b) : z.owner = u.owner => z = u
  <2>1. \A z \in Held(b) : z.amount > 0 /\ n[z.owner] = z.amount
    BY DEF HeldBy
  <2> QED
    BY <2>1, HeldFacts
<1>4. /\ Arranged(r) /\ Held(r) = (Held(b) \ {y}) \cup {x} /\ y \in Held(b)
      /\ y.amount = less_total_staked(b, x) /\ y.amount < x.amount
      /\ Len(b.bottom) = MaxBottomDelegationsPerCandidate
      /\ b.bottom[MaxBottomDelegationsPerCandidate] = y
  BY <1>3, AddArranged
<1> HIDE DEF r
<1>5. y \in Bond /\ y.owner # x.owner /\ n[y.owner] = y.amount /\ y.amount > 0 /\ y.amount \in Nat
  BY <1>3, <1>4 DEF Bond
<1>6. HeldBy(r, m)
  <2>1. Becomes(n, m, Held(b), {y}, {x})
    BY <1>3, <1>4 DEF Becomes
  <2> QED
    BY <1>3, <1>4, <2>1, HeldByChange
<1>7. /\ Worth(Held(b)) \in Nat /\ Worth(Held(r)) \in Nat
      /\ Worth(Held(r)) + y.amount = Worth(Held(b)) + x.amount
  <2>1. x \notin Held(b) \ {y}
    BY <1>3
  <2> QED
    BY <1>3, <1>4, <2>1, SwapWorth
<1>8. StakeIn(r) = r.bond + Worth(Held(r)) /\ StakeIn(b) = b.bond + Worth(Held(b))
  BY <1>1, <1>4, StakeIsWorth
<1>9. StakeIn(r) + y.amount = StakeIn(b) + x.amount
  BY <1>1, <1>2, <1>5, <1>7, <1>8
<1> QED
  BY <1>1, <1>4, <1>5, <1>6, <1>9, Zenon DEF r

\* The delegation of an owner to a candidate is a bond of the candidate's book.
LEMMA BondOf ==
  ASSUME NEW b, Arranged(b), NEW n, HeldBy(b, n), NEW d \in Accounts, n[d] > 0
  PROVE  /\ [owner |-> d, amount |-> n[d]] \in Held(b) /\ [owner |-> d, amount |-> n[d]] \in Bond
         /\ \A z \in Held(b) : z.owner = d => z = [owner |-> d, amount |-> n[d]]
<1> DEFINE y == [owner |-> d, amount |-> n[d]]
<1>1. y \in Held(b)
  BY DEF HeldBy
<1>2. y.owner = d
  OBVIOUS
<1> HIDE DEF y
<1>3. Held(b) \in SUBSET Bond /\ \A u, z \in Held(b) : u.owner = z.owner => u = z
  BY HeldFacts
<1>4. y \in Bond /\ \A z \in Held(b) : z.owner = d => z = y
  BY <1>1, <1>2, <1>3
<1> QED
  BY <1>1, <1>4 DEF y

\* A delegation is removed: the stake falls by its amount.
LEMMA RemovedBook ==
  ASSUME NEW b, GoodBook(b), Arranged(b), NEW n, HeldBy(b, n), NEW d \in Accounts, n[d] > 0,
         NEW amount, can_rm_delegation(b, d, amount),
         NEW m, m[d] = 0, \A a \in Accounts \ {d} : m[a] = n[a]
  PROVE  LET r == rm_delegation_if_exists(b, d, amount)
         IN  /\ KeepsGood(b, r) /\ Arranged(r) /\ HeldBy(r, m)
             /\ StakeIn(r) + n[d] = StakeIn(b) /\ n[d] \in Nat
<1> DEFINE r == rm_delegation_if_exists(b, d, amount)
           y == [owner |-> d, amount |-> n[d]]
<1>1. KeepsGood(b, r) /\ r \in Book /\ b \in Book /\ r.bond = b.bond /\ b.bond \in Nat
  BY RmDelegation DEF KeepsGood, GoodBook, Book
<1>2. Held(b) \in SUBSET Bond /\ IsFiniteSet(Held(b))
  BY HeldFacts
<1>3. y \in Held(b)
  BY BondOf
<1>4. y.owner = d /\ y.amount = n[d]
  OBVIOUS
<1> HIDE DEF y
<1>5. Arranged(r) /\ Held(r) = Held(b) \ {y}
  BY <1>3, <1>4, RmArranged
<1> HIDE DEF r
<1>6. HeldBy(r, m)
  <2>1. Becomes(n, m, Held(b), {y}, {})
    BY <1>3, <1>4 DEF Becomes
  <2>2. Held(r) = (Held(b) \ {y}) \cup {}
    BY <1>5
  <2> QED
    BY <1>2, <2>1, <2>2, HeldByChange
<1>7. y.amount \in Nat /\ Worth(Held(r)) \in Nat /\ Worth(Held(b)) = Worth(Held(r)) + y.amount
  BY <1>2, <1>3, <1>5, WorthFalls
<1>8. StakeIn(r) = r.bond + Worth(Held(r)) /\ StakeIn(b) = b.bond + Worth(Held(b))
  BY <1>1, <1>5, StakeIsWorth
<1>9. StakeIn(r) + y.amount = StakeIn(b)
  BY <1>1, <1>7, <1>8
<1> QED
  BY <1>1, <1>4, <1>5, <1>6, <1>7, <1>9, Zenon DEF r

\* A book in which one bond changed its amount, with the same self bond.
LEMMA ChangedBook ==
  ASSUME NEW b \in Book, Arranged(b), NEW n, HeldBy(b, n), NEW d \in Accounts, n[d] > 0,
         NEW v \in Nat, v > 0, NEW r \in Book, Arranged(r), r.bond = b.bond,
         Held(r) = (Held(b) \ {[owner |-> d, amount |-> n[d]]}) \cup {[owner |-> d, amount |-> v]},
         NEW m, m[d] = v, \A a \in Accounts \ {d} : m[a] = n[a]
  PROVE  HeldBy(r, m) /\ StakeIn(r) + n[d] = StakeIn(b) + v
<1> DEFINE y == [owner |-> d, amount |-> n[d]]
           x == [owner |-> d, amount |-> v]
<1>1. Held(b) \in SUBSET Bond /\ IsFiniteSet(Held(b))
  BY HeldFacts
<1>2. y \in Held(b) /\ y \in Bond /\ \A z \in Held(b) : z.owner = d => z = y
  BY BondOf
<1>3. y.owner = d /\ y.amount = n[d] /\ x.owner = d /\ x.amount = v /\ x \in Bond
  BY DEF Bond
<1> HIDE DEF x, y
<1>4. Held(r) = (Held(b) \ {y}) \cup {x}
  BY DEF x, y
<1>5. Becomes(n, m, Held(b), {y}, {x})
  BY <1>2, <1>3 DEF Becomes
<1>6. HeldBy(r, m)
  BY <1>1, <1>4, <1>5, HeldByChange
<1>7. /\ Worth(Held(b)) \in Nat /\ Worth(Held(r)) \in Nat
      /\ Worth(Held(r)) + y.amount = Worth(Held(b)) + x.amount
  <2>1. x \notin Held(b) \ {y}
    BY <1>2, <1>3
  <2> QED
    BY <1>1, <1>2, <1>3, <1>4, <2>1, SwapWorth
<1>8. StakeIn(r) = r.bond + Worth(Held(r)) /\ StakeIn(b) = b.bond + Worth(Held(b))
  BY StakeIsWorth
<1>9. b.bond \in Nat /\ y.amount \in Nat
  BY <1>2 DEF Book, Bond
<1>10. StakeIn(r) + y.amount = StakeIn(b) + x.amount
  BY <1>3, <1>7, <1>8, <1>9
<1> QED
  BY <1>3, <1>6, <1>10

\* increase_delegation raises the delegation of d by v.
LEMMA IncreasedBook ==
  ASSUME NEW b, GoodBook(b), Arranged(b), NEW n, HeldBy(b, n), NEW d \in Accounts, n[d] > 0,
         NEW v \in Nat, can_change_delegation(b, d, n[d]),
         NEW m, m[d] = n[d] + v, \A a \in Accounts \ {d} : m[a] = n[a]
  PROVE  LET r == increase_delegation(b, d, n[d], v)
         IN  /\ KeepsGood(b, r) /\ Arranged(r) /\ HeldBy(r, m)
             /\ StakeIn(r) = StakeIn(b) + v /\ n[d] \in Nat
<1> DEFINE r == increase_delegation(b, d, n[d], v)
           y == [owner |-> d, amount |-> n[d]]
           w == n[d] + v
<1>1. y \in Held(b) /\ y \in Bond
  BY BondOf
<1>2. y.owner = d /\ y.amount = n[d]
  OBVIOUS
<1> HIDE DEF y
<1>3. n[d] \in Nat /\ w \in Nat /\ w > 0
  BY <1>1, <1>2 DEF Bond
<1>4. KeepsGood(b, r) /\ r \in Book /\ b \in Book /\ r.bond = b.bond
  <2>1. KeepsGood(b, r)
    BY <1>3, IncreaseDelegation
  <2> QED
    BY <2>1 DEF KeepsGood, GoodBook
<1>5. Arranged(r) /\ Held(r) = (Held(b) \ {y}) \cup {[owner |-> d, amount |-> w]}
  BY <1>1, <1>2, ChangeArranged
<1> HIDE DEF r, w
<1>6. m[d] = w
  BY DEF w
<1>7. HeldBy(r, m) /\ StakeIn(r) + n[d] = StakeIn(b) + w
  <2>1. Held(r) = (Held(b) \ {[owner |-> d, amount |-> n[d]]}) \cup {[owner |-> d, amount |-> w]}
    BY <1>5 DEF y
  <2> QED
    BY <1>3, <1>4, <1>5, <1>6, <2>1, ChangedBook
<1>8. StakeIn(r) = StakeIn(b) + v
  <2>1. StakeIn(r) \in Nat /\ StakeIn(b) \in Nat
    BY <1>4, <1>5, StakeIsWorth
  <2> QED
    BY <1>3, <1>7, <2>1 DEF w
<1> QED
  BY <1>3, <1>4, <1>5, <1>7, <1>8 DEF r

\* decrease_delegation lowers the delegation of d by v, and leaves some of it.
LEMMA DecreasedBook ==
  ASSUME NEW b, GoodBook(b), Arranged(b), NEW n, HeldBy(b, n), NEW d \in Accounts,
         NEW v \in Nat, v < n[d], n[d] > 0, can_change_delegation(b, d, n[d]),
         NEW m, m[d] = n[d] - v, \A a \in Accounts \ {d} : m[a] = n[a]
  PROVE  LET r == decrease_delegation(b, d, n[d], v)
         IN  /\ KeepsGood(b, r) /\ Arranged(r) /\ HeldBy(r, m)
             /\ StakeIn(r) + v = StakeIn(b) /\ n[d] \in Nat
<1> DEFINE r == decrease_delegation(b, d, n[d], v)
           y == [owner |-> d, amount |-> n[d]]
           w == n[d] - v
<1>1. y \in Held(b) /\ y \in Bond
  BY BondOf
<1>2. y.owner = d /\ y.amount = n[d]
  OBVIOUS
<1> HIDE DEF y
<1>3. n[d] \in Nat /\ w \in Nat /\ w > 0
  BY <1>1, <1>2 DEF Bond
<1>4. KeepsGood(b, r) /\ r \in Book /\ b \in Book /\ r.bond = b.bond
  <2>1. KeepsGood(b, r)
    BY <1>3, DecreaseDelegation
  <2> QED
    BY <2>1 DEF KeepsGood, GoodBook
<1>5. Arranged(r) /\ Held(r) = (Held(b) \ {y}) \cup {[owner |-> d, amount |-> w]}
  BY <1>1, <1>2, ChangeArranged
<1> HIDE DEF r, w
<1>6. m[d] = w
  BY DEF w
<1>7. HeldBy(r, m) /\ StakeIn(r) + n[d] = StakeIn(b) + w
  <2>1. Held(r) = (Held(b) \ {[owner |-> d, amount |-> n[d]]}) \cup {[owner |-> d, amount |-> w]}
    BY <1>5 DEF y
  <2> QED
    BY <1>3, <1>4, <1>5, <1>6, <2>1, ChangedBook
<1>8. StakeIn(r) + v = StakeIn(b)
  <2>1. StakeIn(r) \in Nat /\ StakeIn(b) \in Nat
    BY <1>4, <1>5, StakeIsWorth
  <2> QED
    BY <1>3, <1>7, <2>1 DEF w
<1> QED
  BY <1>3, <1>4, <1>5, <1>7, <1>8 DEF r

----------------------------------------------------------------------------
(* The ledger.                                                             *)

BondsTo(c) == [d \in Accounts |-> delegatorState[d].bonds[c]]
RequestsOf(d) == [c \in Accounts |-> requests[c][d]]

\* A book holds what the delegators' entries say; who is no candidate has none.
BookRecorded(c) ==
    /\ Arranged(book[c])
    /\ HeldBy(book[c], BondsTo(c))
    /\ ~is_candidate(c) => book[c] = EmptyBook

EntryRecorded(d) == EntryOK(delegatorState[d], RequestsOf(d))

\* The inductive invariant of the records and the sums, next to IInv. Neither
\* side is inductive alone: a book finds a delegation by the amount in the entry,
\* an entry is paid from what the book returns, and Total follows the book.
LedgerInv ==
    /\ \A c \in Accounts : BookRecorded(c)
    /\ \A d \in Accounts : EntryRecorded(d)
    /\ PalletCoversStakes

\* The types of what the ledger holds.
LEMMA LedgerTypes ==
  ASSUME TypeOK, NEW c \in Accounts, NEW d \in Accounts
  PROVE  /\ book[c] \in Book /\ book[c].bond \in Nat
         /\ delegatorState[d] \in Delegator /\ RequestsOf(d) \in [Accounts -> Request]
         /\ RequestsOf(d)[c] = requests[c][d] /\ BondsTo(c)[d] = delegatorState[d].bonds[c]
         /\ delegatorState[d].bonds[c] \in Nat /\ requests[c][d] \in Request
         /\ requests[c][d].amount \in Nat
         /\ delegatorState[d].total \in Nat /\ delegatorState[d].lessTotal \in Nat
         /\ total \in Nat /\ palletBtc \in Nat /\ wallet[d] \in Nat /\ round \in Nat
<1>1. /\ book[c] \in Book /\ delegatorState[d] \in Delegator
      /\ requests \in [Accounts -> [Accounts -> Request]]
      /\ total \in Nat /\ palletBtc \in Nat /\ wallet[d] \in Nat /\ round \in Nat
  BY DEF TypeOK
<1>2. RequestsOf(d) \in [Accounts -> Request] /\ RequestsOf(d)[c] = requests[c][d]
      /\ requests[c][d] \in Request
  BY <1>1 DEF RequestsOf
<1>3. BondsTo(c)[d] = delegatorState[d].bonds[c]
  BY DEF BondsTo
<1>4. /\ delegatorState[d].bonds[c] \in Nat /\ delegatorState[d].total \in Nat
      /\ delegatorState[d].lessTotal \in Nat
  BY <1>1 DEF Delegator
<1>5. requests[c][d].amount \in Nat
  BY <1>2 DEF Request
<1>6. book[c].bond \in Nat
  BY <1>1 DEF Book
<1> QED
  BY <1>1, <1>2, <1>3, <1>4, <1>5, <1>6, Zenon

\* A step in the book of one candidate: the stake on it changes by no more than
\* the pallet's BTC, and by no less than Total.
LEMMA LedgerStep ==
  ASSUME TypeOK, TypeOK', LedgerInv, NEW c \in Accounts,
         \A a \in Accounts \ {c} : book'[a] = book[a] /\ (is_candidate(a) => is_candidate(a)'),
         \A d \in Accounts : \A a \in Accounts \ {c} :
            delegatorState'[d].bonds[a] = delegatorState[d].bonds[a],
         BookRecorded(c)', \A d \in Accounts : EntryRecorded(d)',
         palletBtc' + StakeIn(book[c]) >= palletBtc + StakeIn(book'[c]),
         total' = 0 \/ total' + StakeIn(book[c]) <= total + StakeIn(book'[c])
  PROVE  LedgerInv'
<1>1. ASSUME NEW a \in Accounts PROVE BookRecorded(a)'
  <2>1. CASE a = c
    BY <2>1
  <2>2. CASE a # c
    <3>1. /\ book'[a] = book[a] /\ (~is_candidate(a)' => ~is_candidate(a))
          /\ \A d \in Accounts : delegatorState'[d].bonds[a] = delegatorState[d].bonds[a]
      BY <2>2
    <3>2. BondsTo(a)' = BondsTo(a)
      BY <3>1 DEF BondsTo
    <3>3. BookRecorded(a)
      BY DEF LedgerInv
    <3> QED
      BY <3>1, <3>2, <3>3 DEF BookRecorded
  <2> QED
    BY <2>1, <2>2
<1>2. PalletCoversStakes'
  <2> DEFINE f == [a \in Accounts |-> StakeOf(a)]
             g == [a \in Accounts |-> StakeOf(a)']
  <2>1. \A a \in Accounts : /\ StakeOf(a) = StakeIn(book[a]) /\ StakeOf(a) \in Nat
                            /\ StakeOf(a)' = StakeIn(book'[a]) /\ StakeOf(a)' \in Nat
    <3>1. SUFFICES ASSUME NEW a \in Accounts
                   PROVE  /\ StakeOf(a) = StakeIn(book[a]) /\ StakeOf(a) \in Nat
                          /\ StakeOf(a)' = StakeIn(book'[a]) /\ StakeOf(a)' \in Nat
      OBVIOUS
    <3>2. Arranged(book[a]) /\ Arranged(book'[a]) /\ book[a] \in Book /\ book'[a] \in Book
      BY <1>1 DEF LedgerInv, BookRecorded, TypeOK
    <3>3. StakeIn(book[a]) \in Nat /\ StakeIn(book'[a]) \in Nat
      BY <3>2, StakeIsWorth
    <3> QED
      BY <3>3 DEF StakeOf, StakeIn
  <2>2. AllStake = SumFunction(f) /\ AllStake' = SumFunction(g)
    BY DEF AllStake
  <2>3. f \in [Accounts -> Nat] /\ g \in [Accounts -> Nat]
    BY <2>1
  <2>4. f[c] = StakeIn(book[c]) /\ g[c] = StakeIn(book'[c])
    BY <2>1
  <2>5. \A a \in Accounts \ {c} : g[a] = f[a]
    BY <2>1
  <2> HIDE DEF f, g
  <2>6. SumFunction(g) + f[c] = SumFunction(f) + g[c]
    BY <2>3, <2>5, AccountsSumChanges
  <2>7. SumFunction(f) \in Nat /\ SumFunction(g) \in Nat /\ f[c] \in Nat /\ g[c] \in Nat
    BY <2>3, SumOverAccounts
  <2>8. total \in Nat /\ palletBtc \in Nat /\ total' \in Nat /\ palletBtc' \in Nat
    BY DEF TypeOK
  <2>9. total <= SumFunction(f) /\ SumFunction(f) <= palletBtc
    BY <2>2 DEF LedgerInv, PalletCoversStakes
  <2>10. /\ palletBtc' + f[c] >= palletBtc + g[c]
         /\ total' = 0 \/ total' + f[c] <= total + g[c]
    BY <2>4
  <2>11. total' <= SumFunction(g) /\ SumFunction(g) <= palletBtc'
    BY <2>6, <2>7, <2>8, <2>9, <2>10
  <2> QED
    BY <2>2, <2>11, Zenon DEF PalletCoversStakes
<1> QED
  BY <1>1, <1>2 DEF LedgerInv

\* A step in which the entries account for the wallets keeps everybody's wealth.
LEMMA WealthStep ==
  ASSUME LedgerInv, LedgerInv',
         \A a \in Accounts :
            \/ wallet'[a] + delegatorState'[a].total + book'[a].bond
                 = wallet[a] + delegatorState[a].total + book[a].bond
            \/ is_candidate(a) /\ ~is_candidate(a)'
  PROVE  WealthKept
<1>1. \A a \in Accounts : /\ delegatorState[a].total = SumFunction(delegatorState[a].bonds)
                          /\ delegatorState'[a].total = SumFunction(delegatorState'[a].bonds)
  BY DEF LedgerInv, EntryRecorded, EntryOK
<1> QED
  BY <1>1 DEF WealthKept, Wealth

\* What every step does to the ledger.
LedgerKept == LedgerInv' /\ WealthKept /\ StakeFallsByRule

\* A step that leaves the stakes and the requests alone.
LEMMA StillStep ==
  ASSUME TypeOK, LedgerInv, UNCHANGED <<book, delegatorState, requests, total, wallet, palletBtc>>,
         \A a \in Accounts : is_candidate(a) => is_candidate(a)'
  PROVE  LedgerKept
<1>1. /\ book' = book /\ delegatorState' = delegatorState /\ requests' = requests
      /\ total' = total /\ wallet' = wallet /\ palletBtc' = palletBtc
  OBVIOUS
<1>2. \A c \in Accounts : BookRecorded(c)'
  <2>1. SUFFICES ASSUME NEW c \in Accounts PROVE BookRecorded(c)'
    OBVIOUS
  <2>2. BookRecorded(c)
    BY DEF LedgerInv
  <2>3. BondsTo(c)' = BondsTo(c)
    BY <1>1 DEF BondsTo
  <2> QED
    BY <1>1, <2>2, <2>3, Zenon DEF BookRecorded
<1>3. \A d \in Accounts : EntryRecorded(d)'
  <2>1. SUFFICES ASSUME NEW d \in Accounts PROVE EntryRecorded(d)'
    OBVIOUS
  <2>2. EntryRecorded(d)
    BY DEF LedgerInv
  <2>3. RequestsOf(d)' = RequestsOf(d)
    BY <1>1 DEF RequestsOf
  <2> QED
    BY <1>1, <2>2, <2>3, Zenon DEF EntryRecorded
<1>4. PalletCoversStakes'
  <2>1. PalletCoversStakes
    BY DEF LedgerInv
  <2>2. \A a \in Accounts : StakeOf(a)' = StakeOf(a)
    BY <1>1, Zenon DEF StakeOf
  <2>3. AllStake' = AllStake
    BY <2>2 DEF AllStake
  <2> QED
    BY <1>1, <2>1, <2>3, Zenon DEF PalletCoversStakes
<1>5. LedgerInv'
  BY <1>2, <1>3, <1>4, Zenon DEF LedgerInv
<1>6. WealthKept
  BY <1>1, <1>5, WealthStep
<1>7. StakeFallsByRule
  <2>1. \A c, d \in Accounts : delegatorState[d].bonds[c] \in Nat
    BY LedgerTypes
  <2>2. \A c, d \in Accounts : ~(delegatorState'[d].bonds[c] < delegatorState[d].bonds[c])
    BY <1>1, <2>1
  <2> QED
    BY <2>2, Zenon DEF StakeFallsByRule
<1> QED
  BY <1>5, <1>6, <1>7 DEF LedgerKept

\* No delegation shrinks in a step that leaves the delegations alone.
LEMMA NothingFalls ==
  ASSUME TypeOK, \A c, d \in Accounts : delegatorState'[d].bonds[c] = delegatorState[d].bonds[c]
  PROVE  StakeFallsByRule
<1>1. \A c, d \in Accounts : delegatorState[d].bonds[c] \in Nat
  BY LedgerTypes
<1>2. \A c, d \in Accounts : ~(delegatorState'[d].bonds[c] < delegatorState[d].bonds[c])
  BY <1>1
<1> QED
  BY <1>2, Zenon DEF StakeFallsByRule

\* The book with another self bond is as good a record.
LEMMA BondChanged ==
  ASSUME NEW b, Arranged(b), NEW n, HeldBy(b, n), NEW r,
         r.top = b.top, r.topTotal = b.topTotal, r.bottom = b.bottom, r.bottomTotal = b.bottomTotal
  PROVE  Arranged(r) /\ HeldBy(r, n) /\ StakeIn(r) = r.bond + SumOf(b.top) + SumOf(b.bottom)
<1>1. Arranged(r)
  BY DEF Arranged
<1>2. Held(r) = Held(b)
  BY DEF Held
<1> QED
  BY <1>1, <1>2 DEF HeldBy, StakeIn

\* A candidate pays into its self bond, or is paid from it.
LEMMA SelfBondStep ==
  ASSUME TypeOK, TypeOK', LedgerInv, NEW c \in Accounts, is_candidate(c)',
         \A a \in Accounts : is_candidate(a) => is_candidate(a)',
         UNCHANGED <<delegatorState, requests>>,
         NEW b, book' = [book EXCEPT ![c] = b],
         b.top = book[c].top, b.topTotal = book[c].topTotal,
         b.bottom = book[c].bottom, b.bottomTotal = book[c].bottomTotal,
         wallet'[c] + b.bond = wallet[c] + book[c].bond,
         \A a \in Accounts \ {c} : wallet'[a] = wallet[a],
         palletBtc' + book[c].bond = palletBtc + b.bond,
         total' = 0 \/ total' + book[c].bond <= total + b.bond
  PROVE  LedgerKept
<1>1. delegatorState' = delegatorState /\ requests' = requests
  OBVIOUS
<1>2. /\ book'[c] = b /\ \A a \in Accounts \ {c} : book'[a] = book[a]
      /\ b \in Book /\ b.bond \in Nat
  <2>1. book'[c] = b /\ \A a \in Accounts \ {c} : book'[a] = book[a]
    BY DEF TypeOK
  <2>2. book'[c] \in Book
    BY DEF TypeOK
  <2>3. b \in Book
    BY <2>1, <2>2
  <2>4. b.bond \in Nat
    BY <2>3 DEF Book
  <2> QED
    BY <2>1, <2>3, <2>4
<1>3. Arranged(book[c]) /\ HeldBy(book[c], BondsTo(c))
  BY DEF LedgerInv, BookRecorded
<1>4. /\ Arranged(b) /\ HeldBy(b, BondsTo(c))
      /\ StakeIn(b) = b.bond + SumOf(book[c].top) + SumOf(book[c].bottom)
  BY <1>3, BondChanged
<1>5. BookRecorded(c)'
  <2>1. BondsTo(c)' = BondsTo(c)
    BY <1>1 DEF BondsTo
  <2> QED
    BY <1>2, <1>4, <2>1, Zenon DEF BookRecorded
<1>6. \A d \in Accounts : EntryRecorded(d)'
  <2>1. SUFFICES ASSUME NEW d \in Accounts PROVE EntryRecorded(d)'
    OBVIOUS
  <2>2. EntryRecorded(d)
    BY DEF LedgerInv
  <2>3. RequestsOf(d)' = RequestsOf(d)
    BY <1>1 DEF RequestsOf
  <2> QED
    BY <1>1, <2>2, <2>3, Zenon DEF EntryRecorded
<1>7. /\ palletBtc' + StakeIn(book[c]) >= palletBtc + StakeIn(book'[c])
      /\ total' = 0 \/ total' + StakeIn(book[c]) <= total + StakeIn(book'[c])
  <2> DEFINE x == SumOf(book[c].top)
             y == SumOf(book[c].bottom)
  <2>1. x \in Nat /\ y \in Nat
    BY <1>3, SumOfBonds DEF Arranged
  <2>2. StakeIn(book[c]) = book[c].bond + x + y /\ StakeIn(book'[c]) = b.bond + x + y
    BY <1>2, <1>4 DEF StakeIn
  <2>3. /\ book[c].bond \in Nat /\ total \in Nat /\ palletBtc \in Nat
        /\ total' \in Nat /\ palletBtc' \in Nat
    BY LedgerTypes DEF TypeOK
  <2> HIDE DEF x, y
  <2> QED
    BY <1>2, <2>1, <2>2, <2>3
<1>8. LedgerInv'
  <2>1. \A a \in Accounts \ {c} : book'[a] = book[a] /\ (is_candidate(a) => is_candidate(a)')
    BY <1>2
  <2>2. \A d \in Accounts : \A a \in Accounts \ {c} :
           delegatorState'[d].bonds[a] = delegatorState[d].bonds[a]
    BY <1>1
  <2> QED
    BY <1>5, <1>6, <1>7, <2>1, <2>2, LedgerStep
<1>9. WealthKept
  <2>1. SUFFICES ASSUME NEW a \in Accounts
                 PROVE  wallet'[a] + delegatorState'[a].total + book'[a].bond
                          = wallet[a] + delegatorState[a].total + book[a].bond
    BY <1>8, WealthStep
  <2>2. /\ wallet[a] \in Nat /\ wallet'[a] \in Nat /\ delegatorState[a].total \in Nat
        /\ book[a].bond \in Nat
    BY LedgerTypes DEF TypeOK
  <2>3. CASE a = c
    BY <1>1, <1>2, <2>2, <2>3
  <2>4. CASE a # c
    BY <1>1, <1>2, <2>2, <2>4
  <2> QED
    BY <2>3, <2>4
<1>10. StakeFallsByRule
  BY <1>1, NothingFalls
<1> QED
  BY <1>8, <1>9, <1>10 DEF LedgerKept

\* candidate_bond_more
LEMMA CandidateBondMoreKeeps ==
  ASSUME IInv, IInv', LedgerInv, NEW c \in Accounts, NEW more \in Amounts,
         candidate_bond_more(c, more)
  PROVE  LedgerKept
<1> DEFINE b == bond_more(book[c], more)
<1>1. TypeOK /\ TypeOK' /\ more \in Nat
  BY StakingAssumption DEF IInv
<1>2. /\ is_candidate(c) /\ pay_in(c, more) /\ total' = total + more
      /\ book' = [book EXCEPT ![c] = b] /\ UNCHANGED <<candidateInfo, delegatorState, requests>>
  BY DEF candidate_bond_more
<1>3. /\ b.top = book[c].top /\ b.topTotal = book[c].topTotal /\ b.bottom = book[c].bottom
      /\ b.bottomTotal = book[c].bottomTotal /\ b.bond = book[c].bond + more
  <2>1. book[c] \in Book
    BY <1>1, LedgerTypes
  <2> QED
    BY <2>1 DEF bond_more, Book
<1> HIDE DEF b
<1>4. /\ wallet[c] \in Nat /\ wallet[c] >= more /\ wallet'[c] = wallet[c] - more
      /\ \A a \in Accounts \ {c} : wallet'[a] = wallet[a]
      /\ palletBtc' = palletBtc + more
  BY <1>1, <1>2 DEF pay_in, TypeOK
<1>5. /\ total \in Nat /\ palletBtc \in Nat /\ book[c].bond \in Nat
  BY <1>1, LedgerTypes
<1>6. /\ wallet'[c] + b.bond = wallet[c] + book[c].bond
      /\ palletBtc' + book[c].bond = palletBtc + b.bond
      /\ total' + book[c].bond <= total + b.bond
  BY <1>1, <1>2, <1>3, <1>4, <1>5
<1>7. \A a \in Accounts : is_candidate(a) => is_candidate(a)'
  BY <1>2 DEF is_candidate
<1>8. is_candidate(c)' /\ UNCHANGED <<delegatorState, requests>>
  BY <1>2, <1>7
<1> QED
  BY <1>1, <1>2, <1>3, <1>4, <1>6, <1>7, <1>8, SelfBondStep

\* execute_candidate_bond_less
LEMMA ExecuteCandidateBondLessKeeps ==
  ASSUME IInv, IInv', LedgerInv, NEW c \in Accounts, execute_candidate_bond_less(c)
  PROVE  LedgerKept
<1> DEFINE less == candidateInfo[c].request.amount
           b    == bond_less(book[c], less)
<1>1. TypeOK /\ TypeOK' /\ SelfRequestsFit
  BY DEF IInv
<1>2. /\ is_candidate(c) /\ Due(candidateInfo[c].request) /\ pay_out(c, less)
      /\ total' = SatSub(total, less) /\ book' = [book EXCEPT ![c] = b]
      /\ candidateInfo' = [candidateInfo EXCEPT ![c].request = NoRequest]
      /\ UNCHANGED <<delegatorState, requests>>
  BY DEF execute_candidate_bond_less
<1>3. less \in Nat /\ less < book[c].bond /\ book[c] \in Book /\ book[c].bond \in Nat
  <2>1. less \in Nat
    BY <1>1 DEF TypeOK, Candidate, Request
  <2>2. less < book[c].bond
    BY <1>1, <1>2 DEF Due, SelfRequestsFit, NoRequest
  <2> QED
    BY <1>1, <2>1, <2>2, LedgerTypes
<1> HIDE DEF less
<1>4. /\ b.top = book[c].top /\ b.topTotal = book[c].topTotal /\ b.bottom = book[c].bottom
      /\ b.bottomTotal = book[c].bottomTotal /\ b.bond = SatSub(book[c].bond, less)
  BY <1>3 DEF bond_less, Book
<1> HIDE DEF b
<1>5. b.bond = book[c].bond - less
  BY <1>3, <1>4 DEF SatSub
<1>6. /\ wallet[c] \in Nat /\ wallet'[c] = wallet[c] + less
      /\ \A a \in Accounts \ {c} : wallet'[a] = wallet[a]
      /\ palletBtc' = palletBtc - less /\ palletBtc >= less
  BY <1>1, <1>2, <1>3 DEF pay_out, TypeOK
<1>7. /\ total \in Nat /\ palletBtc \in Nat
  BY <1>1, LedgerTypes
<1>8. /\ wallet'[c] + b.bond = wallet[c] + book[c].bond
      /\ palletBtc' + book[c].bond = palletBtc + b.bond
  BY <1>3, <1>5, <1>6, <1>7
<1>9. total' = 0 \/ total' + book[c].bond <= total + b.bond
  BY <1>2, <1>3, <1>5, <1>7 DEF SatSub
<1>10. \A a \in Accounts : is_candidate(a) => is_candidate(a)'
  BY <1>1, <1>2 DEF is_candidate, TypeOK, Candidate
<1>11. is_candidate(c)' /\ UNCHANGED <<delegatorState, requests>>
  BY <1>2, <1>10
<1>12. /\ book' = [book EXCEPT ![c] = b]
       /\ b.top = book[c].top /\ b.topTotal = book[c].topTotal
       /\ b.bottom = book[c].bottom /\ b.bottomTotal = book[c].bottomTotal
       /\ \A a \in Accounts \ {c} : wallet'[a] = wallet[a]
  BY <1>2, <1>4, <1>6
<1>13. TypeOK /\ TypeOK'
  BY <1>1
<1> QED
  BY <1>8, <1>9, <1>10, <1>11, <1>12, <1>13, SelfBondStep

----------------------------------------------------------------------------
(* Requests.                                                               *)

\* The request of d towards c becomes r, and its entry follows.
LEMMA RequestStep ==
  ASSUME TypeOK, TypeOK', LedgerInv, NEW c \in Accounts, NEW d \in Accounts, NEW r \in Request,
         Fits(delegatorState[d].bonds[c], r),
         NEW l \in Nat, l + requests[c][d].amount = delegatorState[d].lessTotal + r.amount,
         delegatorState' = [delegatorState EXCEPT ![d].lessTotal = l],
         requests' = [requests EXCEPT ![c][d] = r],
         UNCHANGED <<candidateInfo, book, total, wallet, palletBtc>>
  PROVE  LedgerKept
<1> DEFINE st == delegatorState[d]
           q == RequestsOf(d)
           p == RequestsOf(d)'
           n == [st EXCEPT !.lessTotal = l]
<1>1. /\ st \in Delegator /\ q \in [Accounts -> Request] /\ q[c] = requests[c][d]
  BY LedgerTypes
<1>2. EntryOK(st, q)
  BY DEF LedgerInv, EntryRecorded
<1>3. /\ p \in [Accounts -> Request] /\ p[c] = r /\ \A a \in Accounts \ {c} : p[a] = q[a]
  BY DEF RequestsOf, TypeOK
<1>4. delegatorState'[d] = n /\ \A e \in Accounts \ {d} : delegatorState'[e] = delegatorState[e]
  BY DEF TypeOK
<1> HIDE DEF st, q, p, n
<1>5. EntryOK(n, p) /\ n.bonds = st.bonds /\ n.total = st.total
  <2>1. Fits(st.bonds[c], p[c])
    BY <1>3 DEF st
  <2>2. l + q[c].amount = st.lessTotal + p[c].amount
    BY <1>1, <1>3 DEF st
  <2>3. LET m == [st EXCEPT !.lessTotal = l]
        IN  /\ m \in Delegator /\ EntryOK(m, p)
            /\ m.bonds = st.bonds /\ m.total = st.total
    BY <1>1, <1>2, <1>3, <2>1, <2>2, RequestedEntry
  <2> QED
    BY <2>3 DEF n
<1>6. \A e \in Accounts : /\ delegatorState'[e].bonds = delegatorState[e].bonds
                          /\ delegatorState'[e].total = delegatorState[e].total
  BY <1>4, <1>5 DEF st
<1>7. \A e \in Accounts : EntryRecorded(e)'
  <2>1. SUFFICES ASSUME NEW e \in Accounts PROVE EntryRecorded(e)'
    OBVIOUS
  <2>2. CASE e = d
    BY <1>4, <1>5, <2>2, Zenon DEF EntryRecorded, p
  <2>3. CASE e # d
    <3>1. RequestsOf(e)' = RequestsOf(e)
      BY <2>3 DEF RequestsOf, TypeOK
    <3>2. EntryRecorded(e) /\ delegatorState'[e] = delegatorState[e]
      BY <1>4, <2>3 DEF LedgerInv
    <3> QED
      BY <3>1, <3>2, Zenon DEF EntryRecorded
  <2> QED
    BY <2>2, <2>3
<1>8. BookRecorded(c)'
  <2>1. BookRecorded(c)
    BY DEF LedgerInv
  <2>2. BondsTo(c)' = BondsTo(c)
    BY <1>6 DEF BondsTo
  <2>3. is_candidate(c)' = is_candidate(c)
    BY DEF is_candidate
  <2> QED
    BY <2>1, <2>2, <2>3, Zenon DEF BookRecorded
<1>9. /\ \A a \in Accounts \ {c} : book'[a] = book[a] /\ (is_candidate(a) => is_candidate(a)')
      /\ \A e \in Accounts : \A a \in Accounts \ {c} :
            delegatorState'[e].bonds[a] = delegatorState[e].bonds[a]
  BY <1>6 DEF is_candidate
<1>10. /\ palletBtc' + StakeIn(book[c]) >= palletBtc + StakeIn(book'[c])
       /\ total' = 0 \/ total' + StakeIn(book[c]) <= total + StakeIn(book'[c])
  <2>1. Arranged(book[c]) /\ book[c] \in Book /\ total \in Nat /\ palletBtc \in Nat
    BY LedgerTypes DEF LedgerInv, BookRecorded
  <2>2. StakeIn(book[c]) \in Nat
    BY <2>1, StakeIsWorth
  <2> QED
    BY <2>1, <2>2
<1>11. LedgerInv'
  BY <1>7, <1>8, <1>9, <1>10, LedgerStep
<1>12. WealthKept
  BY <1>6, <1>11, WealthStep
<1>13. StakeFallsByRule
  BY <1>6, NothingFalls
<1> QED
  BY <1>11, <1>12, <1>13 DEF LedgerKept

\* What the entry of a delegator says of one of its delegations.
LEMMA EntrySays ==
  ASSUME TypeOK, LedgerInv, NEW c \in Accounts, NEW d \in Accounts
  PROVE  /\ delegatorState[d].bonds[c] = 0 \/ delegatorState[d].bonds[c] >= MinDelegation
         /\ Fits(delegatorState[d].bonds[c], requests[c][d])
         /\ delegatorState[d].bonds[c] = 0 => requests[c][d] = NoRequest
         /\ requests[c][d].amount <= delegatorState[d].lessTotal
         /\ delegatorState[d].bonds[c] <= delegatorState[d].total
         /\ is_delegator(d) <=> \E a \in Accounts : delegatorState[d].bonds[a] > 0
<1>1. /\ delegatorState[d] \in Delegator /\ RequestsOf(d) \in [Accounts -> Request]
      /\ RequestsOf(d)[c] = requests[c][d]
  BY LedgerTypes
<1>2. EntryOK(delegatorState[d], RequestsOf(d))
  BY DEF LedgerInv, EntryRecorded
<1>3. /\ Fits(delegatorState[d].bonds[c], requests[c][d])
      /\ is_delegator(d) <=> \E a \in Accounts : delegatorState[d].bonds[a] > 0
  BY <1>1, <1>2 DEF EntryOK, is_delegator
<1>4. /\ delegatorState[d].bonds[c] <= delegatorState[d].total
      /\ RequestsOf(d)[c].amount <= delegatorState[d].lessTotal
      /\ delegatorState[d].bonds[c] = 0 => RequestsOf(d)[c] = NoRequest
  BY <1>1, <1>2, EntryBounds
<1>5. delegatorState[d].bonds[c] = 0 \/ delegatorState[d].bonds[c] >= MinDelegation
  BY <1>3 DEF Fits
<1> QED
  BY <1>1, <1>3, <1>4, <1>5

\* schedule_revoke_delegation and schedule_delegator_bond_less
LEMMA ScheduleRequestKeeps ==
  ASSUME IInv, IInv', LedgerInv, NEW c \in Accounts, NEW d \in Accounts,
         NEW kind, NEW amount \in Nat, ScheduleRequest(c, d, kind, amount),
         \/ kind = "revoke" /\ amount = delegatorState[d].bonds[c]
         \/ kind = "decrease" /\ delegatorState[d].bonds[c] >= amount + MinDelegation
  PROVE  LedgerKept
<1> DEFINE r == [kind |-> kind, amount |-> amount, at |-> round + RevokeDelegationDelay]
           l == delegatorState[d].lessTotal + amount
           n == delegatorState[d].bonds[c]
<1>1. TypeOK /\ TypeOK'
  BY DEF IInv
<1>2. /\ requests[c][d] = NoRequest /\ n > 0
      /\ requests' = [requests EXCEPT ![c][d] = r]
      /\ delegatorState' = [delegatorState EXCEPT ![d].lessTotal = l]
      /\ UNCHANGED <<candidateInfo, book, total, wallet, palletBtc>>
  <2>1. delegatorState' = [delegatorState EXCEPT
                               ![d].lessTotal = delegatorState[d].lessTotal + amount]
    BY <1>1 DEF ScheduleRequest, TypeOK, Delegator
  <2> QED
    BY <2>1 DEF ScheduleRequest
<1>3. /\ n \in Nat /\ round \in Nat /\ delegatorState[d].lessTotal \in Nat
      /\ RevokeDelegationDelay \in Nat /\ MinDelegation \in Nat
  BY <1>1, LedgerTypes, StakingAssumption
<1>4. l \in Nat /\ r \in Request /\ r.amount = amount /\ r.kind = kind
  BY <1>3 DEF Request
<1>5. l + requests[c][d].amount = delegatorState[d].lessTotal + r.amount
  <2>1. requests[c][d].amount = 0
    BY <1>2 DEF NoRequest
  <2> QED
    BY <1>3, <1>4, <2>1
<1>6. Fits(n, r)
  <2>1. n = 0 \/ n >= MinDelegation
    BY <1>1, EntrySays
  <2>2. n >= MinDelegation
    BY <1>2, <2>1
  <2>3. r.kind = "revoke" => n > 0 /\ r.amount = n
    BY <1>2, <1>4
  <2>4. r.kind = "decrease" => n >= r.amount + MinDelegation
    BY <1>4
  <2>5. r.kind # "none"
    BY <1>4
  <2> HIDE DEF r, n
  <2> QED
    BY <2>2, <2>3, <2>4, <2>5 DEF Fits
<1> HIDE DEF l, r
<1> QED
  BY <1>1, <1>2, <1>4, <1>5, <1>6, RequestStep

\* Dropping the requests of one owner.
LEMMA DropOne ==
  ASSUME TypeOK, NEW c \in Accounts, NEW d \in Accounts
  PROVE  drop_requests(c, {d}) = [requests EXCEPT ![c][d] = NoRequest]
<1>1. requests \in [Accounts -> [Accounts -> Request]]
  BY DEF TypeOK
<1>2. [e \in Accounts |-> IF e \in {d} THEN NoRequest ELSE requests[c][e]]
        = [requests[c] EXCEPT ![d] = NoRequest]
  BY <1>1
<1> QED
  BY <1>2 DEF drop_requests

\* cancel_delegation_request
LEMMA CancelDelegationRequestKeeps ==
  ASSUME IInv, IInv', LedgerInv, NEW c \in Accounts, NEW d \in Accounts,
         cancel_delegation_request(c, d)
  PROVE  LedgerKept
<1> DEFINE l == SatSub(delegatorState[d].lessTotal, requests[c][d].amount)
<1>1. TypeOK /\ TypeOK'
  BY DEF IInv
<1>2. /\ delegatorState' = [delegatorState EXCEPT ![d].lessTotal = l]
      /\ requests' = [requests EXCEPT ![c][d] = NoRequest]
      /\ UNCHANGED <<candidateInfo, book, total, wallet, palletBtc>>
  BY <1>1, DropOne DEF cancel_delegation_request, TypeOK, Delegator
<1>3. /\ delegatorState[d].lessTotal \in Nat /\ requests[c][d].amount \in Nat
      /\ requests[c][d].amount <= delegatorState[d].lessTotal
  BY <1>1, LedgerTypes, EntrySays
<1>4. /\ l \in Nat /\ NoRequest \in Request
      /\ l + requests[c][d].amount = delegatorState[d].lessTotal + NoRequest.amount
  BY <1>3, EmptyTypes DEF SatSub, NoRequest
<1>5. Fits(delegatorState[d].bonds[c], NoRequest)
  <2>1. delegatorState[d].bonds[c] = 0 \/ delegatorState[d].bonds[c] >= MinDelegation
    BY <1>1, EntrySays
  <2> QED
    BY <2>1 DEF Fits, NoRequest
<1> HIDE DEF l
<1> QED
  BY <1>1, <1>2, <1>4, <1>5, RequestStep

----------------------------------------------------------------------------
(* Delegations.                                                            *)

\* Nothing changes for an account whose entry and requests stay.
LEMMA EntryStays ==
  ASSUME LedgerInv, NEW e \in Accounts, delegatorState'[e] = delegatorState[e],
         \A a \in Accounts : requests'[a][e] = requests[a][e]
  PROVE  EntryRecorded(e)'
<1>1. RequestsOf(e)' = RequestsOf(e)
  BY DEF RequestsOf
<1>2. EntryRecorded(e)
  BY DEF LedgerInv
<1> QED
  BY <1>1, <1>2, Zenon DEF EntryRecorded

\* The delegation of d to c changes, with the book of c, d's entry and wallet, and
\* its request towards c.
LEMMA DelegationChanges ==
  ASSUME TypeOK, TypeOK', LedgerInv, NEW c \in Accounts, NEW d \in Accounts,
         is_candidate(c), candidateInfo' = candidateInfo,
         NEW b, book' = [book EXCEPT ![c] = b],
         KeepsGood(book[c], b), Arranged(b), HeldBy(b, BondsTo(c)'),
         NEW r, delegatorState' = [delegatorState EXCEPT ![d] = r],
         EntryOK(r, RequestsOf(d)'),
         \A a \in Accounts \ {c} : r.bonds[a] = delegatorState[d].bonds[a],
         \A e \in Accounts \ {d} : \A a \in Accounts : requests'[a][e] = requests[a][e],
         wallet'[d] + r.total = wallet[d] + delegatorState[d].total,
         \A e \in Accounts \ {d} : wallet'[e] = wallet[e],
         palletBtc' + StakeIn(book[c]) >= palletBtc + StakeIn(b),
         total' = 0 \/ total' + StakeIn(book[c]) <= total + StakeIn(b)
  PROVE  LedgerInv' /\ WealthKept
<1>1. /\ book'[c] = b /\ \A a \in Accounts \ {c} : book'[a] = book[a]
      /\ \A a \in Accounts : book'[a].bond = book[a].bond
      /\ delegatorState'[d] = r /\ \A e \in Accounts \ {d} : delegatorState'[e] = delegatorState[e]
  <2>1. /\ book'[c] = b /\ \A a \in Accounts \ {c} : book'[a] = book[a]
        /\ delegatorState'[d] = r /\ \A e \in Accounts \ {d} : delegatorState'[e] = delegatorState[e]
    BY DEF TypeOK
  <2>2. b.bond = book[c].bond
    BY DEF KeepsGood
  <2> QED
    BY <2>1, <2>2
<1>2. \A a \in Accounts : is_candidate(a) => is_candidate(a)'
  BY DEF is_candidate
<1>3. BookRecorded(c)'
  BY <1>1, <1>2 DEF BookRecorded
<1>4. \A e \in Accounts : EntryRecorded(e)'
  <2>1. SUFFICES ASSUME NEW e \in Accounts PROVE EntryRecorded(e)'
    OBVIOUS
  <2>2. CASE e = d
    BY <1>1, <2>2 DEF EntryRecorded
  <2>3. CASE e # d
    BY <1>1, <2>3, EntryStays
  <2> QED
    BY <2>2, <2>3
<1>5. \A e \in Accounts : \A a \in Accounts \ {c} :
         delegatorState'[e].bonds[a] = delegatorState[e].bonds[a]
  BY <1>1
<1>6. LedgerInv'
  <2>1. \A a \in Accounts \ {c} : book'[a] = book[a] /\ (is_candidate(a) => is_candidate(a)')
    BY <1>1, <1>2
  <2>2. /\ palletBtc' + StakeIn(book[c]) >= palletBtc + StakeIn(book'[c])
        /\ total' = 0 \/ total' + StakeIn(book[c]) <= total + StakeIn(book'[c])
    BY <1>1
  <2> QED
    BY <1>3, <1>4, <1>5, <2>1, <2>2, LedgerStep
<1>7. WealthKept
  <2>1. SUFFICES ASSUME NEW a \in Accounts
                 PROVE  wallet'[a] + delegatorState'[a].total + book'[a].bond
                          = wallet[a] + delegatorState[a].total + book[a].bond
    BY <1>6, WealthStep
  <2>2. wallet[a] \in Nat /\ delegatorState[a].total \in Nat /\ book[a].bond \in Nat
    BY LedgerTypes
  <2>3. wallet'[a] \in Nat /\ delegatorState'[a].total \in Nat
    BY DEF TypeOK, Delegator
  <2>4. wallet'[a] + delegatorState'[a].total = wallet[a] + delegatorState[a].total
    BY <1>1
  <2>5. book'[a].bond = book[a].bond
    BY <1>1
  <2> QED
    BY <2>2, <2>3, <2>4, <2>5
<1> QED
  BY <1>6, <1>7

\* What the ledger says of a candidate's book.
LEMMA BookSays ==
  ASSUME IInv, LedgerInv, NEW c \in Accounts
  PROVE  /\ GoodBook(book[c]) /\ book[c] \in Book /\ Arranged(book[c])
         /\ HeldBy(book[c], BondsTo(c)) /\ StakeIn(book[c]) \in Nat
         /\ ~is_candidate(c) => book[c] = EmptyBook
<1>1. GoodBook(book[c]) /\ book[c] \in Book
  BY BooksGood DEF IInv
<1>2. Arranged(book[c]) /\ HeldBy(book[c], BondsTo(c)) /\ (~is_candidate(c) => book[c] = EmptyBook)
  BY DEF LedgerInv, BookRecorded
<1> QED
  BY <1>1, <1>2, StakeIsWorth

\* The delegations to c when one entry changes.
LEMMA BondsMove ==
  ASSUME TypeOK, NEW c \in Accounts, NEW d \in Accounts, NEW r,
         delegatorState' = [delegatorState EXCEPT ![d] = r]
  PROVE  /\ (BondsTo(c)')[d] = r.bonds[c]
         /\ \A e \in Accounts \ {d} : (BondsTo(c)')[e] = BondsTo(c)[e]
  BY DEF TypeOK, BondsTo

\* When only the delegation of d to c changes, only it can shrink.
LEMMA FallsHere ==
  ASSUME TypeOK, NEW c \in Accounts, NEW d \in Accounts,
         \A a, e \in Accounts :
            a # c \/ e # d => delegatorState'[e].bonds[a] = delegatorState[e].bonds[a],
         delegatorState'[d].bonds[c] < delegatorState[d].bonds[c] =>
            OwnRequestRuns(c, d) \/ KickedByLarger(c, d) \/ CandidateExits(c)
  PROVE  StakeFallsByRule
<1>1. \A a, e \in Accounts : delegatorState[e].bonds[a] \in Nat
  BY LedgerTypes
<1>2. ASSUME NEW a \in Accounts, NEW e \in Accounts,
             delegatorState'[e].bonds[a] < delegatorState[e].bonds[a]
      PROVE  OwnRequestRuns(a, e) \/ KickedByLarger(a, e) \/ CandidateExits(a)
  <2>1. e = d /\ a = c
    BY <1>1, <1>2
  <2> QED
    BY <1>2, <2>1
<1> QED
  BY <1>2, Zenon DEF StakeFallsByRule

\* delegator_bond_more
LEMMA DelegatorBondMoreKeeps ==
  ASSUME IInv, IInv', LedgerInv, NEW c \in Accounts, NEW d \in Accounts,
         NEW more \in Amounts, delegator_bond_more(c, d, more)
  PROVE  LedgerKept
<1> DEFINE st == delegatorState[d]
           bond == st.bonds[c]
           b == increase_delegation(book[c], d, bond, more)
           v == bond + more
           t == st.total + more
           r == Moved(st, c, v, t, st.lessTotal)
           q == RequestsOf(d)
<1>1. TypeOK /\ TypeOK' /\ more \in Nat /\ more > 0
  BY StakingAssumption DEF IInv
<1>2. /\ st \in Delegator /\ bond \in Nat /\ st.total \in Nat /\ st.lessTotal \in Nat
      /\ q \in [Accounts -> Request] /\ q[c] = requests[c][d] /\ BondsTo(c)[d] = bond
      /\ total \in Nat /\ palletBtc \in Nat /\ wallet[d] \in Nat
      /\ q[c].amount \in Nat
  BY <1>1, LedgerTypes
<1>3. /\ requests[c][d].kind # "revoke" /\ bond > 0
      /\ pay_in(d, more) /\ is_candidate(c) /\ can_change_delegation(book[c], d, bond)
      /\ book' = [book EXCEPT ![c] = b] /\ total' = total + more
      /\ UNCHANGED <<candidateInfo, requests>>
  BY DEF delegator_bond_more, delegation_request_revoke_exists
<1>4. delegatorState' = [delegatorState EXCEPT ![d] = r]
  <2>1. delegatorState' = [delegatorState EXCEPT ![d].bonds[c] = v, ![d].total = t]
    BY <1>1 DEF delegator_bond_more, TypeOK, Delegator
  <2>2. delegatorState \in [Accounts -> Delegator]
    BY <1>1 DEF TypeOK
  <2>3. r = [st EXCEPT !.bonds[c] = v, !.total = t]
    BY <1>2 DEF Delegator, Moved
  <2> HIDE DEF v, t, r
  <2> QED
    BY <2>1, <2>2, <2>3 DEF Delegator
<1>5. EntryOK(st, q) /\ Fits(bond, q[c])
  BY <1>1, <1>2, EntrySays DEF LedgerInv, EntryRecorded
<1>6. v \in Nat /\ v > 0 /\ t \in Nat /\ t + bond = st.total + v
  BY <1>1, <1>2
<1>7. Fits(v, q[c])
  <2>1. q[c].kind # "revoke" /\ MinDelegation \in Nat
    BY <1>2, <1>3, StakingAssumption
  <2> QED
    BY <1>1, <1>2, <1>3, <1>5, <2>1 DEF Fits
<1> HIDE DEF st, v, t, q
<1>8. /\ r \in Delegator /\ EntryOK(r, q) /\ r.bonds[c] = v
      /\ \A a \in Accounts \ {c} : r.bonds[a] = st.bonds[a]
      /\ r.total = t
  <2> DEFINE l == st.lessTotal
  <2>1. l \in Nat /\ l + q[c].amount = st.lessTotal + q[c].amount
    BY <1>2
  <2>2. st.bonds[c] > 0 /\ t + st.bonds[c] = st.total + v
    BY <1>3, <1>6 DEF st
  <2>3. \A a \in Accounts \ {c} : q[a] = q[a]
    OBVIOUS
  <2>4. v \in Nat /\ v > 0 /\ t \in Nat
    BY <1>6
  <2>5. st \in Delegator /\ q \in [Accounts -> Request] /\ EntryOK(st, q)
    BY <1>2, <1>5
  <2> HIDE DEF l
  <2>6. Moves(st, q, q, c, v, t, l)
    BY <1>7, <2>1, <2>2, <2>3, <2>4, <2>5 DEF Moves
  <2>7. LET z == Moved(st, c, v, t, l)
        IN  /\ z \in Delegator /\ EntryOK(z, q)
            /\ z.bonds[c] = v /\ \A a \in Accounts \ {c} : z.bonds[a] = st.bonds[a]
            /\ z.total = t
    BY <2>6, ChangedEntry
  <2> QED
    BY <2>7 DEF l
<1> HIDE DEF r
<1>9. EntryOK(r, RequestsOf(d)')
  <2>1. RequestsOf(d)' = q
    BY <1>3 DEF q, RequestsOf
  <2> QED
    BY <1>8, <2>1, Zenon
<1>10. /\ (BondsTo(c)')[d] = v
       /\ \A e \in Accounts \ {d} : (BondsTo(c)')[e] = BondsTo(c)[e]
  BY <1>1, <1>4, <1>8, BondsMove
<1>11. KeepsGood(book[c], b) /\ Arranged(b) /\ HeldBy(b, BondsTo(c)')
       /\ StakeIn(b) = StakeIn(book[c]) + more
  <2> DEFINE n == BondsTo(c)
             m == BondsTo(c)'
  <2>1. /\ GoodBook(book[c]) /\ Arranged(book[c]) /\ HeldBy(book[c], n)
    BY BookSays
  <2>2. n[d] = bond /\ m[d] = n[d] + more /\ \A a \in Accounts \ {d} : m[a] = n[a]
    BY <1>2, <1>10 DEF v
  <2>3. n[d] > 0 /\ can_change_delegation(book[c], d, n[d])
    BY <1>3, <2>2
  <2> HIDE DEF n, m
  <2>4. LET z == increase_delegation(book[c], d, n[d], more)
        IN  /\ KeepsGood(book[c], z) /\ Arranged(z) /\ HeldBy(z, m)
            /\ StakeIn(z) = StakeIn(book[c]) + more /\ n[d] \in Nat
    BY <1>1, <2>1, <2>2, <2>3, IncreasedBook
  <2>5. b = increase_delegation(book[c], d, n[d], more)
    BY <2>2
  <2> QED
    BY <2>4, <2>5 DEF m
<1>12. StakeIn(book[c]) \in Nat
  BY BookSays
<1> HIDE DEF b
<1>13. /\ wallet'[d] + r.total = wallet[d] + st.total
       /\ \A e \in Accounts \ {d} : wallet'[e] = wallet[e]
       /\ palletBtc' + StakeIn(book[c]) >= palletBtc + StakeIn(b)
       /\ total' + StakeIn(book[c]) <= total + StakeIn(b)
  <2>1. /\ wallet[d] >= more /\ wallet'[d] = wallet[d] - more
        /\ \A e \in Accounts \ {d} : wallet'[e] = wallet[e]
        /\ palletBtc' = palletBtc + more
    BY <1>1, <1>3 DEF pay_in, TypeOK
  <2> QED
    BY <1>1, <1>2, <1>3, <1>8, <1>11, <1>12, <2>1 DEF t
<1>14. \A e \in Accounts \ {d} : \A a \in Accounts : requests'[a][e] = requests[a][e]
  BY <1>3
<1>15. LedgerInv' /\ WealthKept
  <2>1. candidateInfo' = candidateInfo /\ is_candidate(c) /\ book' = [book EXCEPT ![c] = b]
    BY <1>3
  <2>2. KeepsGood(book[c], b) /\ Arranged(b) /\ HeldBy(b, BondsTo(c)')
    BY <1>11
  <2>3. \A a \in Accounts \ {c} : r.bonds[a] = delegatorState[d].bonds[a]
    BY <1>8 DEF st
  <2>4. /\ wallet'[d] + r.total = wallet[d] + delegatorState[d].total
        /\ \A e \in Accounts \ {d} : wallet'[e] = wallet[e]
        /\ palletBtc' + StakeIn(book[c]) >= palletBtc + StakeIn(b)
        /\ total' = 0 \/ total' + StakeIn(book[c]) <= total + StakeIn(b)
    BY <1>13 DEF st
  <2> QED
    BY <1>1, <1>4, <1>9, <1>14, <2>1, <2>2, <2>3, <2>4, DelegationChanges

<1>16. StakeFallsByRule
  <2>1. ~(v < bond)
    BY <1>1, <1>2 DEF v
  <2>2. delegatorState'[d] = r /\ \A e \in Accounts \ {d} : delegatorState'[e] = delegatorState[e]
    BY <1>1, <1>4 DEF TypeOK
  <2>3. ~(delegatorState'[d].bonds[c] < delegatorState[d].bonds[c])
    BY <1>8, <2>1, <2>2 DEF st
  <2>4. \A a, e \in Accounts :
           a # c \/ e # d => delegatorState'[e].bonds[a] = delegatorState[e].bonds[a]
    BY <1>8, <2>2 DEF st
  <2> QED
    BY <1>1, <2>3, <2>4, FallsHere
<1> QED
  BY <1>15, <1>16 DEF LedgerKept

\* execute_delegation_request of a decrease
LEMMA ExecuteDecreaseKeeps ==
  ASSUME IInv, IInv', LedgerInv, NEW c \in Accounts, NEW d \in Accounts, execute_decrease(c, d)
  PROVE  LedgerKept
<1> DEFINE st == delegatorState[d]
           bond == st.bonds[c]
           less == requests[c][d].amount
           b == decrease_delegation(book[c], d, bond, less)
           v == SatSub(bond, less)
           t == SatSub(st.total, less)
           l == SatSub(st.lessTotal, less)
           r == Moved(st, c, v, t, l)
           q == RequestsOf(d)
           p == RequestsOf(d)'
<1>1. TypeOK /\ TypeOK'
  BY DEF IInv
<1>2. /\ st \in Delegator /\ bond \in Nat /\ st.total \in Nat /\ st.lessTotal \in Nat
      /\ q \in [Accounts -> Request] /\ q[c] = requests[c][d] /\ BondsTo(c)[d] = bond
      /\ total \in Nat /\ palletBtc \in Nat /\ wallet[d] \in Nat
      /\ q[c].amount = less /\ less \in Nat
  BY <1>1, LedgerTypes
<1>3. /\ Due(requests[c][d]) /\ bond > less /\ is_candidate(c)
      /\ requests[c][d].kind = "decrease"
      /\ pay_out(d, less) /\ can_change_delegation(book[c], d, bond)
      /\ book' = [book EXCEPT ![c] = b] /\ total' = SatSub(total, less)
      /\ requests' = [requests EXCEPT ![c][d] = NoRequest]
      /\ candidateInfo' = candidateInfo
  BY <1>1, DropOne DEF execute_decrease
<1>4. delegatorState' = [delegatorState EXCEPT ![d] = r]
  <2>1. delegatorState' = [delegatorState EXCEPT ![d].bonds[c] = v, ![d].total = t,
            ![d].lessTotal = l]
    BY <1>1 DEF execute_decrease, TypeOK, Delegator
  <2>2. delegatorState \in [Accounts -> Delegator]
    BY <1>1 DEF TypeOK
  <2>3. r = [st EXCEPT !.bonds[c] = v, !.total = t, !.lessTotal = l]
    BY DEF Moved
  <2> HIDE DEF v, t, l, r
  <2> QED
    BY <2>1, <2>2, <2>3 DEF Delegator
<1>5. /\ EntryOK(st, q) /\ Fits(bond, q[c]) /\ less <= st.lessTotal /\ bond <= st.total
  BY <1>1, <1>2, EntrySays DEF LedgerInv, EntryRecorded
<1>6. /\ p \in [Accounts -> Request] /\ p[c] = NoRequest /\ \A a \in Accounts \ {c} : p[a] = q[a]
  BY <1>1, <1>3 DEF RequestsOf, TypeOK
<1> HIDE DEF st, q, p, less
<1>7. v = bond - less /\ v \in Nat /\ v > 0 /\ v >= MinDelegation
  <2>1. bond >= less + MinDelegation /\ MinDelegation \in Nat
    BY <1>2, <1>3, <1>5, StakingAssumption DEF Fits
  <2> QED
    BY <1>2, <1>3, <2>1 DEF SatSub
<1>8. t = st.total - less /\ t \in Nat /\ t + bond = st.total + v
  BY <1>2, <1>3, <1>5, <1>7 DEF SatSub
<1>9. l \in Nat /\ l + less = st.lessTotal + 0
  BY <1>2, <1>5 DEF SatSub
<1>10. Fits(v, p[c])
  BY <1>6, <1>7 DEF Fits, NoRequest
<1> HIDE DEF v, t, l
<1>11. /\ r \in Delegator /\ EntryOK(r, p) /\ r.bonds[c] = v
       /\ \A a \in Accounts \ {c} : r.bonds[a] = st.bonds[a]
       /\ r.total = t
  <2>1. p[c].amount = 0
    BY <1>6 DEF NoRequest
  <2>2. st.bonds[c] > 0
    BY <1>2, <1>3
  <2>3. Moves(st, q, p, c, v, t, l)
    BY <1>2, <1>5, <1>6, <1>7, <1>8, <1>9, <1>10, <2>1, <2>2 DEF Moves
  <2> QED
    BY <2>3, ChangedEntry
<1> HIDE DEF r
<1>12. /\ (BondsTo(c)')[d] = v
       /\ \A e \in Accounts \ {d} : (BondsTo(c)')[e] = BondsTo(c)[e]
  BY <1>1, <1>4, <1>11, BondsMove
<1>13. KeepsGood(book[c], b) /\ Arranged(b) /\ HeldBy(b, BondsTo(c)')
       /\ StakeIn(b) + less = StakeIn(book[c])
  <2> DEFINE n == BondsTo(c)
             m == BondsTo(c)'
  <2>1. /\ GoodBook(book[c]) /\ Arranged(book[c]) /\ HeldBy(book[c], n)
    BY BookSays
  <2>2. n[d] = bond /\ m[d] = n[d] - less /\ \A a \in Accounts \ {d} : m[a] = n[a]
    BY <1>2, <1>7, <1>12
  <2>3. less < n[d] /\ n[d] > 0 /\ can_change_delegation(book[c], d, n[d])
    BY <1>2, <1>3, <2>2
  <2> HIDE DEF n, m
  <2>4. LET z == decrease_delegation(book[c], d, n[d], less)
        IN  /\ KeepsGood(book[c], z) /\ Arranged(z) /\ HeldBy(z, m)
            /\ StakeIn(z) + less = StakeIn(book[c]) /\ n[d] \in Nat
    BY <1>2, <2>1, <2>2, <2>3, DecreasedBook
  <2>5. b = decrease_delegation(book[c], d, n[d], less)
    BY <2>2
  <2> QED
    BY <2>4, <2>5 DEF m
<1>14. StakeIn(book[c]) \in Nat /\ StakeIn(b) \in Nat
  <2>1. b \in Book
    BY <1>13 DEF KeepsGood, GoodBook
  <2> QED
    BY <1>13, <2>1, BookSays, StakeIsWorth
<1> HIDE DEF b
<1>15. /\ wallet'[d] + r.total = wallet[d] + st.total
       /\ \A e \in Accounts \ {d} : wallet'[e] = wallet[e]
       /\ palletBtc' + StakeIn(book[c]) >= palletBtc + StakeIn(b)
  <2>1. /\ palletBtc >= less /\ wallet'[d] = wallet[d] + less
        /\ \A e \in Accounts \ {d} : wallet'[e] = wallet[e]
        /\ palletBtc' = palletBtc - less
    BY <1>1, <1>3 DEF pay_out, TypeOK
  <2> QED
    BY <1>2, <1>8, <1>11, <1>13, <1>14, <2>1
<1>16. total' = 0 \/ total' + StakeIn(book[c]) <= total + StakeIn(b)
  BY <1>2, <1>3, <1>13, <1>14 DEF SatSub
<1>17. LedgerInv' /\ WealthKept
  <2>1. candidateInfo' = candidateInfo /\ is_candidate(c) /\ book' = [book EXCEPT ![c] = b]
    BY <1>3
  <2>2. KeepsGood(book[c], b) /\ Arranged(b) /\ HeldBy(b, BondsTo(c)')
    BY <1>13
  <2>3. \A a \in Accounts \ {c} : r.bonds[a] = delegatorState[d].bonds[a]
    BY <1>11 DEF st
  <2>4. /\ wallet'[d] + r.total = wallet[d] + delegatorState[d].total
        /\ \A e \in Accounts \ {d} : wallet'[e] = wallet[e]
        /\ palletBtc' + StakeIn(book[c]) >= palletBtc + StakeIn(b)
    BY <1>15 DEF st
  <2>5. \A e \in Accounts \ {d} : \A a \in Accounts : requests'[a][e] = requests[a][e]
    BY <1>1, <1>3 DEF TypeOK
  <2>6. EntryOK(r, RequestsOf(d)')
    BY <1>11 DEF p
  <2> QED
    BY <1>1, <1>4, <1>16, <2>1, <2>2, <2>3, <2>4, <2>5, <2>6, DelegationChanges
<1>18. StakeFallsByRule
  <2>1. delegatorState'[d] = r /\ \A e \in Accounts \ {d} : delegatorState'[e] = delegatorState[e]
    BY <1>1, <1>4 DEF TypeOK
  <2>2. OwnRequestRuns(c, d)
    <3>1. delegatorState[d].bonds[c] - delegatorState'[d].bonds[c] = requests[c][d].amount
      BY <1>2, <1>7, <1>11, <2>1 DEF st, less
    <3> QED
      BY <1>3, <3>1 DEF OwnRequestRuns
  <2>3. \A a, e \in Accounts :
           a # c \/ e # d => delegatorState'[e].bonds[a] = delegatorState[e].bonds[a]
    BY <1>11, <2>1 DEF st
  <2> QED
    BY <1>1, <2>2, <2>3, FallsHere
<1> QED
  BY <1>17, <1>18 DEF LedgerKept

\* execute_delegation_request of a revoke
LEMMA ExecuteRevokeKeeps ==
  ASSUME IInv, IInv', LedgerInv, NEW c \in Accounts, NEW d \in Accounts, execute_revoke(c, d)
  PROVE  LedgerKept
<1> DEFINE st == delegatorState[d]
           bond == st.bonds[c]
           amount == requests[c][d].amount
           b == rm_delegation_if_exists(book[c], d, amount)
           q == RequestsOf(d)
           p == RequestsOf(d)'
           r == IF Cardinality(Delegations(st)) = 1 THEN NoDelegator ELSE rm_delegation(st, c, q[c])
<1>1. TypeOK /\ TypeOK'
  BY DEF IInv
<1>2. /\ st \in Delegator /\ bond \in Nat /\ st.total \in Nat
      /\ q \in [Accounts -> Request] /\ q[c] = requests[c][d] /\ BondsTo(c)[d] = bond
      /\ total \in Nat /\ palletBtc \in Nat /\ wallet[d] \in Nat
  BY <1>1, LedgerTypes
<1>3. /\ Due(requests[c][d]) /\ is_candidate(c)
      /\ requests[c][d].kind = "revoke"
      /\ pay_out(d, bond) /\ can_rm_delegation(book[c], d, amount)
      /\ book' = [book EXCEPT ![c] = b] /\ total' = SatSub(total, amount)
      /\ requests' = [requests EXCEPT ![c][d] = NoRequest]
      /\ candidateInfo' = candidateInfo
  BY <1>1, DropOne DEF execute_revoke, delegator_leaves_candidate
<1>4. delegatorState' = [delegatorState EXCEPT ![d] = r]
  BY <1>2, Zenon DEF execute_revoke
<1>5. EntryOK(st, q) /\ Fits(bond, q[c])
  BY <1>1, <1>2, EntrySays DEF LedgerInv, EntryRecorded
<1>6. /\ p \in [Accounts -> Request] /\ p[c] = NoRequest /\ \A a \in Accounts \ {c} : p[a] = q[a]
  BY <1>1, <1>3 DEF RequestsOf, TypeOK
<1>7. bond > 0 /\ amount = bond
  BY <1>2, <1>3, <1>5 DEF Fits
<1> HIDE DEF st, q, p, amount
<1>8. /\ r \in Delegator /\ EntryOK(r, p) /\ r.bonds[c] = 0
      /\ \A a \in Accounts \ {c} : r.bonds[a] = st.bonds[a]
      /\ r.total + bond = st.total
  <2>1. LET rest == rm_delegation(st, c, q[c])
            z == IF Cardinality(Delegations(st)) = 1 THEN NoDelegator ELSE rest
        IN  /\ z = IF rest.total = 0 THEN NoDelegator ELSE rest
            /\ z \in Delegator /\ EntryOK(z, p)
            /\ z.bonds[c] = 0 /\ \A a \in Accounts \ {c} : z.bonds[a] = st.bonds[a]
            /\ z.total + st.bonds[c] = st.total
    BY <1>2, <1>5, <1>6, <1>7, RemovedEntry
  <2> QED
    BY <2>1
<1> HIDE DEF r
<1>9. /\ (BondsTo(c)')[d] = 0
      /\ \A e \in Accounts \ {d} : (BondsTo(c)')[e] = BondsTo(c)[e]
  BY <1>1, <1>4, <1>8, BondsMove
<1>10. KeepsGood(book[c], b) /\ Arranged(b) /\ HeldBy(b, BondsTo(c)')
       /\ StakeIn(b) + bond = StakeIn(book[c])
  <2> DEFINE n == BondsTo(c)
             m == BondsTo(c)'
  <2>1. /\ GoodBook(book[c]) /\ Arranged(book[c]) /\ HeldBy(book[c], n)
    BY BookSays
  <2>2. n[d] = bond /\ n[d] > 0 /\ m[d] = 0 /\ \A a \in Accounts \ {d} : m[a] = n[a]
    BY <1>2, <1>7, <1>9
  <2> HIDE DEF n, m
  <2>3. LET z == rm_delegation_if_exists(book[c], d, amount)
        IN  /\ KeepsGood(book[c], z) /\ Arranged(z) /\ HeldBy(z, m)
            /\ StakeIn(z) + n[d] = StakeIn(book[c]) /\ n[d] \in Nat
    BY <1>3, <2>1, <2>2, RemovedBook
  <2> QED
    BY <2>2, <2>3 DEF m
<1>11. StakeIn(book[c]) \in Nat /\ StakeIn(b) \in Nat
  <2>1. b \in Book
    BY <1>10 DEF KeepsGood, GoodBook
  <2> QED
    BY <1>10, <2>1, BookSays, StakeIsWorth
<1> HIDE DEF b
<1>12. r.total \in Nat
  BY <1>8 DEF Delegator
<1>13. /\ wallet'[d] + r.total = wallet[d] + st.total
       /\ \A e \in Accounts \ {d} : wallet'[e] = wallet[e]
       /\ palletBtc' + StakeIn(book[c]) >= palletBtc + StakeIn(b)
  <2>1. /\ palletBtc >= bond /\ wallet'[d] = wallet[d] + bond
        /\ \A e \in Accounts \ {d} : wallet'[e] = wallet[e]
        /\ palletBtc' = palletBtc - bond
    BY <1>1, <1>3 DEF pay_out, TypeOK
  <2> QED
    BY <1>2, <1>8, <1>10, <1>11, <1>12, <2>1
<1>14. total' = 0 \/ total' + StakeIn(book[c]) <= total + StakeIn(b)
  BY <1>2, <1>3, <1>7, <1>10, <1>11 DEF SatSub
<1>15. LedgerInv' /\ WealthKept
  <2>1. candidateInfo' = candidateInfo /\ is_candidate(c) /\ book' = [book EXCEPT ![c] = b]
    BY <1>3
  <2>2. KeepsGood(book[c], b) /\ Arranged(b) /\ HeldBy(b, BondsTo(c)')
    BY <1>10
  <2>3. \A a \in Accounts \ {c} : r.bonds[a] = delegatorState[d].bonds[a]
    BY <1>8 DEF st
  <2>4. /\ wallet'[d] + r.total = wallet[d] + delegatorState[d].total
        /\ \A e \in Accounts \ {d} : wallet'[e] = wallet[e]
        /\ palletBtc' + StakeIn(book[c]) >= palletBtc + StakeIn(b)
    BY <1>13 DEF st
  <2>5. \A e \in Accounts \ {d} : \A a \in Accounts : requests'[a][e] = requests[a][e]
    BY <1>1, <1>3 DEF TypeOK
  <2>6. EntryOK(r, RequestsOf(d)')
    BY <1>8 DEF p
  <2> QED
    BY <1>1, <1>4, <1>14, <2>1, <2>2, <2>3, <2>4, <2>5, <2>6, DelegationChanges
<1>16. StakeFallsByRule
  <2>1. delegatorState'[d] = r /\ \A e \in Accounts \ {d} : delegatorState'[e] = delegatorState[e]
    BY <1>1, <1>4 DEF TypeOK
  <2>2. OwnRequestRuns(c, d)
    <3>1. delegatorState[d].bonds[c] - delegatorState'[d].bonds[c] = requests[c][d].amount
      BY <1>2, <1>7, <1>8, <2>1 DEF st, amount
    <3> QED
      BY <1>3, <3>1 DEF OwnRequestRuns
  <2>3. \A a, e \in Accounts :
           a # c \/ e # d => delegatorState'[e].bonds[a] = delegatorState[e].bonds[a]
    BY <1>8, <2>1 DEF st
  <2> QED
    BY <1>1, <2>2, <2>3, FallsHere
<1> QED
  BY <1>15, <1>16 DEF LedgerKept

\* What CanDelegate says of the delegator: it has no delegation to c yet.
LEMMA CanDelegateSays ==
  ASSUME TypeOK, LedgerInv, NEW c \in Accounts, NEW d \in Accounts, NEW amount \in Amounts,
         CanDelegate(c, d, amount)
  PROVE  /\ is_candidate(c) /\ delegatorState[d].bonds[c] = 0
         /\ amount \in Nat /\ amount > 0 /\ amount >= MinDelegation /\ wallet[d] >= amount
         /\ can_add_delegation(book[c], [owner |-> d, amount |-> amount])
         /\ [owner |-> d, amount |-> amount] \in Bond
<1>1. /\ is_candidate(c) /\ amount >= MinDelegation /\ wallet[d] >= amount
      /\ can_add_delegation(book[c], [owner |-> d, amount |-> amount])
  BY DEF CanDelegate, is_candidate, is_active
<1>2. amount \in Nat /\ amount > 0
  BY StakingAssumption
<1>3. delegatorState[d].bonds[c] = 0
  <2>1. CASE is_delegator(d)
    BY <2>1 DEF CanDelegate
  <2>2. CASE ~is_delegator(d)
    <3>1. ~(delegatorState[d].bonds[c] > 0) /\ delegatorState[d].bonds[c] \in Nat
      BY <2>2, EntrySays, LedgerTypes
    <3> QED
      BY <3>1
  <2> QED
    BY <2>1, <2>2
<1> QED
  BY <1>1, <1>2, <1>3 DEF Bond

\* The entry of the new delegator.
LEMMA EntryAdded ==
  ASSUME TypeOK, LedgerInv, NEW c \in Accounts, NEW d \in Accounts, NEW amount \in Amounts,
         CanDelegate(c, d, amount)
  PROVE  LET r == added_state(d, c, amount)
         IN  /\ r \in Delegator /\ EntryOK(r, RequestsOf(d)) /\ r.bonds[c] = amount
             /\ \A a \in Accounts \ {c} : r.bonds[a] = delegatorState[d].bonds[a]
             /\ r.total = delegatorState[d].total + amount
<1> DEFINE st == delegatorState[d]
           q == RequestsOf(d)
<1>1. st \in Delegator /\ q \in [Accounts -> Request] /\ EntryOK(st, q)
  BY LedgerTypes DEF LedgerInv, EntryRecorded
<1>2. st.bonds[c] = 0 /\ amount \in Nat /\ amount >= MinDelegation
  BY CanDelegateSays
<1>3. added_state(d, c, amount) = EntryAfterAdding(st, c, amount)
  BY DEF added_state, EntryAfterAdding
<1> HIDE DEF st, q
<1>4. LET r == EntryAfterAdding(st, c, amount)
      IN  /\ r \in Delegator /\ EntryOK(r, q)
          /\ r.bonds[c] = amount /\ \A a \in Accounts \ {c} : r.bonds[a] = st.bonds[a]
          /\ r.total = st.total + amount
  BY <1>1, <1>2, AddedEntry
<1>5. LET r == added_state(d, c, amount)
      IN  /\ r \in Delegator /\ EntryOK(r, q) /\ r.bonds[c] = amount
          /\ \A a \in Accounts \ {c} : r.bonds[a] = st.bonds[a]
          /\ r.total = st.total + amount
  BY <1>3, <1>4, Zenon
<1> QED
  BY <1>5, Zenon DEF st, q

\* delegate: there is room for the delegation.
LEMMA DelegateKeeps ==
  ASSUME IInv, IInv', LedgerInv, NEW c \in Accounts, NEW d \in Accounts,
         NEW amount \in Amounts, delegate(c, d, amount)
  PROVE  LedgerKept
<1> DEFINE x == [owner |-> d, amount |-> amount]
           b == add_delegation(book[c], x)
           r == added_state(d, c, amount)
           less == less_total_staked(book[c], x)
<1>1. TypeOK /\ TypeOK'
  BY DEF IInv
<1>2. CanDelegate(c, d, amount)
  BY DEF delegate
<1>3. /\ KickedBy(book[c], x) = {}
      /\ book' = [book EXCEPT ![c] = b] /\ total' = total + SatSub(amount, less)
      /\ pay_in(d, amount) /\ delegatorState' = [delegatorState EXCEPT ![d] = r]
      /\ UNCHANGED <<candidateInfo, requests>>
  BY DEF delegate, AddToCandidate
<1>4. /\ is_candidate(c) /\ delegatorState[d].bonds[c] = 0
      /\ amount \in Nat /\ amount > 0 /\ amount >= MinDelegation /\ wallet[d] >= amount
      /\ can_add_delegation(book[c], x) /\ x \in Bond
  BY <1>1, <1>2, CanDelegateSays
<1>5. x.owner = d /\ x.amount = amount
  OBVIOUS
<1>6. /\ r \in Delegator /\ EntryOK(r, RequestsOf(d)) /\ r.bonds[c] = amount
      /\ \A a \in Accounts \ {c} : r.bonds[a] = delegatorState[d].bonds[a]
      /\ r.total = delegatorState[d].total + amount
  BY <1>1, <1>2, EntryAdded
<1> HIDE DEF x, r
<1>7. /\ (BondsTo(c)')[d] = amount
      /\ \A e \in Accounts \ {d} : (BondsTo(c)')[e] = BondsTo(c)[e]
  BY <1>1, <1>3, <1>6, BondsMove
<1>8. /\ KeepsGood(book[c], b) /\ Arranged(b) /\ HeldBy(b, BondsTo(c)')
      /\ less = 0 /\ StakeIn(b) = StakeIn(book[c]) + amount
  <2> DEFINE n == BondsTo(c)
             m == BondsTo(c)'
  <2>1. /\ GoodBook(book[c]) /\ Arranged(book[c]) /\ HeldBy(book[c], n)
    BY BookSays
  <2>2. n[x.owner] = 0 /\ m[x.owner] = x.amount /\ \A a \in Accounts \ {x.owner} : m[a] = n[a]
    BY <1>4, <1>5, <1>7 DEF BondsTo
  <2>3. x \in Bond /\ x.amount > 0 /\ can_add_delegation(book[c], x) /\ KickedBy(book[c], x) = {}
    BY <1>3, <1>4, <1>5
  <2> HIDE DEF n, m
  <2>4. LET z == add_delegation(book[c], x)
        IN  /\ KeepsGood(book[c], z) /\ Arranged(z) /\ HeldBy(z, m)
            /\ less_total_staked(book[c], x) = 0
            /\ StakeIn(z) = StakeIn(book[c]) + x.amount
    BY <2>1, <2>2, <2>3, AddedBook
  <2> QED
    BY <1>5, <2>4 DEF m
<1> HIDE DEF b, less
<1>9. /\ StakeIn(book[c]) \in Nat /\ total \in Nat /\ palletBtc \in Nat /\ wallet[d] \in Nat
      /\ delegatorState[d].total \in Nat
  BY <1>1, BookSays, LedgerTypes
<1>10. /\ wallet'[d] = wallet[d] - amount /\ palletBtc' = palletBtc + amount
       /\ \A e \in Accounts \ {d} : wallet'[e] = wallet[e]
  BY <1>1, <1>3 DEF pay_in, TypeOK
<1>11. total' = total + amount
  BY <1>3, <1>4, <1>8 DEF SatSub
<1>12. /\ wallet'[d] + r.total = wallet[d] + delegatorState[d].total
       /\ palletBtc' + StakeIn(book[c]) >= palletBtc + StakeIn(b)
       /\ total' + StakeIn(book[c]) <= total + StakeIn(b)
  BY <1>4, <1>6, <1>8, <1>9, <1>10, <1>11
<1>13. LedgerInv' /\ WealthKept
  <2>1. candidateInfo' = candidateInfo /\ is_candidate(c) /\ book' = [book EXCEPT ![c] = b]
    BY <1>3, <1>4
  <2>2. RequestsOf(d)' = RequestsOf(d)
    BY <1>3 DEF RequestsOf
  <2>3. EntryOK(r, RequestsOf(d)')
    BY <1>6, <2>2, Zenon
  <2>4. \A e \in Accounts \ {d} : \A a \in Accounts : requests'[a][e] = requests[a][e]
    BY <1>3
  <2>5. KeepsGood(book[c], b) /\ Arranged(b) /\ HeldBy(b, BondsTo(c)')
    BY <1>8
  <2>6. delegatorState' = [delegatorState EXCEPT ![d] = r]
    BY <1>3
  <2> QED
    BY <1>1, <1>6, <1>10, <1>12, <2>1, <2>3, <2>4, <2>5, <2>6, DelegationChanges
<1>14. StakeFallsByRule
  <2>1. delegatorState'[d] = r /\ \A e \in Accounts \ {d} : delegatorState'[e] = delegatorState[e]
    BY <1>1, <1>3 DEF TypeOK
  <2>2. ~(delegatorState'[d].bonds[c] < delegatorState[d].bonds[c])
    BY <1>4, <1>6, <2>1
  <2>3. \A a, e \in Accounts :
           a # c \/ e # d => delegatorState'[e].bonds[a] = delegatorState[e].bonds[a]
    BY <1>6, <2>1
  <2> QED
    BY <1>1, <2>2, <2>3, FallsHere
<1> QED
  BY <1>13, <1>14 DEF LedgerKept

\* The entry of a kicked delegator.
LEMMA EntryKicked ==
  ASSUME TypeOK, LedgerInv, NEW c \in Accounts, NEW k \in Accounts,
         delegatorState[k].bonds[c] > 0, NEW p \in [Accounts -> Request],
         \A a \in Accounts \ {c} : p[a] = RequestsOf(k)[a], p[c] = NoRequest
  PROVE  LET r == kicked_state(k, c)
         IN  /\ r \in Delegator /\ EntryOK(r, p) /\ r.bonds[c] = 0
             /\ \A a \in Accounts \ {c} : r.bonds[a] = delegatorState[k].bonds[a]
             /\ r.total + delegatorState[k].bonds[c] = delegatorState[k].total
<1> DEFINE st == delegatorState[k]
           q == RequestsOf(k)
<1>1. /\ st \in Delegator /\ q \in [Accounts -> Request] /\ EntryOK(st, q)
      /\ q[c] = requests[c][k]
  BY LedgerTypes DEF LedgerInv, EntryRecorded
<1>2. kicked_state(k, c) =
        IF Cardinality(Delegations(st)) = 1 THEN NoDelegator ELSE rm_delegation(st, c, q[c])
  BY <1>1, Zenon DEF kicked_state
<1>3. st.bonds[c] > 0 /\ \A a \in Accounts \ {c} : p[a] = q[a]
  OBVIOUS
<1> HIDE DEF st, q
<1>4. LET rest == rm_delegation(st, c, q[c])
          r == IF Cardinality(Delegations(st)) = 1 THEN NoDelegator ELSE rest
      IN  /\ r = IF rest.total = 0 THEN NoDelegator ELSE rest
          /\ r \in Delegator /\ EntryOK(r, p)
          /\ r.bonds[c] = 0 /\ \A a \in Accounts \ {c} : r.bonds[a] = st.bonds[a]
          /\ r.total + st.bonds[c] = st.total
  BY <1>1, <1>3, RemovedEntry
<1>5. LET r == kicked_state(k, c)
      IN  /\ r \in Delegator /\ EntryOK(r, p)
          /\ r.bonds[c] = 0 /\ \A a \in Accounts \ {c} : r.bonds[a] = st.bonds[a]
          /\ r.total + st.bonds[c] = st.total
  BY <1>2, <1>4, Zenon
<1> QED
  BY <1>5, Zenon DEF st

\* The entry of a delegator whose stake is returned: the other test for an entry
\* without delegations comes to the same.
LEMMA EntryReturned ==
  ASSUME TypeOK, LedgerInv, NEW c \in Accounts, NEW k \in Accounts,
         delegatorState[k].bonds[c] > 0, NEW p \in [Accounts -> Request],
         \A a \in Accounts \ {c} : p[a] = RequestsOf(k)[a], p[c] = NoRequest
  PROVE  LET r == returned_state(k, c)
         IN  /\ r \in Delegator /\ EntryOK(r, p) /\ r.bonds[c] = 0
             /\ \A a \in Accounts \ {c} : r.bonds[a] = delegatorState[k].bonds[a]
             /\ r.total + delegatorState[k].bonds[c] = delegatorState[k].total
<1> DEFINE st == delegatorState[k]
           q == RequestsOf(k)
           rest == rm_delegation(st, c, q[c])
<1>1. /\ st \in Delegator /\ q \in [Accounts -> Request] /\ EntryOK(st, q)
      /\ q[c] = requests[c][k]
  BY LedgerTypes DEF LedgerInv, EntryRecorded
<1>2. returned_state(k, c) = IF rest.total = 0 THEN NoDelegator ELSE rest
  BY <1>1, Zenon DEF returned_state
<1>3. st.bonds[c] > 0 /\ \A a \in Accounts \ {c} : p[a] = q[a]
  OBVIOUS
<1> HIDE DEF st, q
<1> DEFINE z == IF Cardinality(Delegations(st)) = 1 THEN NoDelegator ELSE rest
<1>4. /\ z = IF rest.total = 0 THEN NoDelegator ELSE rest
      /\ z \in Delegator /\ EntryOK(z, p)
      /\ z.bonds[c] = 0 /\ \A a \in Accounts \ {c} : z.bonds[a] = st.bonds[a]
      /\ z.total + st.bonds[c] = st.total
  BY <1>1, <1>3, RemovedEntry
<1> HIDE DEF rest, z
<1>5. returned_state(k, c) = z
  BY <1>2, <1>4, Zenon
<1>6. LET r == returned_state(k, c)
      IN  /\ r \in Delegator /\ EntryOK(r, p)
          /\ r.bonds[c] = 0 /\ \A a \in Accounts \ {c} : r.bonds[a] = st.bonds[a]
          /\ r.total + st.bonds[c] = st.total
  BY <1>4, <1>5, Zenon
<1> QED
  BY <1>6, Zenon DEF st

\* Who is kicked is somebody else.
LEMMA KickedOwner ==
  ASSUME NEW b, GoodBook(b), Arranged(b), NEW n, HeldBy(b, n),
         NEW x \in Bond, n[x.owner] = 0, can_add_delegation(b, x), NEW y \in KickedBy(b, x)
  PROVE  y.owner # x.owner /\ y.owner \in Accounts /\ n[y.owner] > 0
<1>1. /\ Held(b) \in SUBSET Bond /\ \A z \in Held(b) : z.amount > 0 /\ n[z.owner] = z.amount
  BY HeldFacts DEF HeldBy
<1>2. \A z \in Held(b) : z.owner # x.owner
  BY <1>1
<1>3. y \in Held(b)
  BY <1>2, AddArranged
<1> QED
  BY <1>1, <1>2, <1>3 DEF Bond

\* delegate_kicking: the lowest delegation to a full candidate goes back.
LEMMA DelegateKickingKeeps ==
  ASSUME IInv, IInv', LedgerInv, NEW c \in Accounts, NEW d \in Accounts,
         NEW amount \in Amounts, delegate_kicking(c, d, amount)
  PROVE  LedgerKept
<1> DEFINE x == [owner |-> d, amount |-> amount]
           b == add_delegation(book[c], x)
           r == added_state(d, c, amount)
           less == less_total_staked(book[c], x)
<1>1. TypeOK /\ TypeOK'
  BY DEF IInv
<1>2. CanDelegate(c, d, amount)
  BY DEF delegate_kicking
<1>3. /\ is_candidate(c) /\ delegatorState[d].bonds[c] = 0
      /\ amount \in Nat /\ amount > 0 /\ amount >= MinDelegation /\ wallet[d] >= amount
      /\ can_add_delegation(book[c], x) /\ x \in Bond
  BY <1>1, <1>2, CanDelegateSays
<1>4. PICK kicked \in KickedBy(book[c], x) :
         LET k    == kicked.owner
             back == delegatorState[k].bonds[c]
         IN  /\ palletBtc >= back
             /\ palletBtc' = palletBtc - back + amount
             /\ wallet' = [wallet EXCEPT ![k] = @ + back, ![d] = @ - amount]
             /\ delegatorState' = [delegatorState EXCEPT ![k] = kicked_state(k, c),
                                                         ![d] = added_state(d, c, amount)]
             /\ requests' = drop_requests(c, {k})
  BY DEF delegate_kicking
<1> DEFINE k    == kicked.owner
           back == delegatorState[k].bonds[c]
           s    == kicked_state(k, c)
<1>5. /\ book' = [book EXCEPT ![c] = b] /\ total' = total + SatSub(amount, less)
      /\ candidateInfo' = candidateInfo
  BY DEF delegate_kicking, AddToCandidate
<1>6. x.owner = d /\ x.amount = amount
  OBVIOUS
<1>7. /\ GoodBook(book[c]) /\ Arranged(book[c]) /\ HeldBy(book[c], BondsTo(c))
      /\ StakeIn(book[c]) \in Nat
  BY BookSays
<1> HIDE DEF x
<1>8. k # d /\ k \in Accounts /\ back > 0
  <2>1. BondsTo(c)[x.owner] = 0
    BY <1>3, <1>6 DEF BondsTo
  <2>2. k # x.owner /\ k \in Accounts /\ BondsTo(c)[k] > 0
    BY <1>3, <1>7, <2>1, KickedOwner
  <2> QED
    BY <1>6, <2>2 DEF BondsTo
<1>9. /\ delegatorState'[d] = r /\ delegatorState'[k] = s
      /\ \A e \in Accounts \ {d, k} : delegatorState'[e] = delegatorState[e]
      /\ wallet'[d] = wallet[d] - amount /\ wallet'[k] = wallet[k] + back
      /\ \A e \in Accounts \ {d, k} : wallet'[e] = wallet[e]
  <2>1. delegatorState' = [delegatorState EXCEPT ![k] = s, ![d] = r]
    BY <1>4, Zenon
  <2>2. wallet' = [wallet EXCEPT ![k] = @ + back, ![d] = @ - amount]
    BY <1>4, Zenon
  <2>3. delegatorState \in [Accounts -> Delegator] /\ wallet \in [Accounts -> Nat]
    BY <1>1 DEF TypeOK
  <2> HIDE DEF k, back, s, r
  <2> QED
    BY <1>8, <2>1, <2>2, <2>3
<1>10. requests' = [requests EXCEPT ![c][k] = NoRequest]
  BY <1>1, <1>4, <1>8, DropOne
<1>11. (palletBtc' = (palletBtc - back) + amount) /\ palletBtc >= back
  BY <1>4
<1>12. kicked \in KickedBy(book[c], x)
  BY <1>4
<1>13. /\ r \in Delegator /\ EntryOK(r, RequestsOf(d)) /\ r.bonds[c] = amount
       /\ \A a \in Accounts \ {c} : r.bonds[a] = delegatorState[d].bonds[a]
       /\ r.total = delegatorState[d].total + amount
  BY <1>1, <1>2, EntryAdded
<1>14. /\ s \in Delegator /\ EntryOK(s, RequestsOf(k)') /\ s.bonds[c] = 0
       /\ \A a \in Accounts \ {c} : s.bonds[a] = delegatorState[k].bonds[a]
       /\ s.total + back = delegatorState[k].total
  <2> DEFINE p == RequestsOf(k)'
  <2>1. /\ p \in [Accounts -> Request] /\ p[c] = NoRequest
        /\ \A a \in Accounts \ {c} : p[a] = RequestsOf(k)[a]
    BY <1>1, <1>8, <1>10 DEF RequestsOf, TypeOK
  <2> HIDE DEF k, p
  <2>2. LET z == kicked_state(k, c)
        IN  /\ z \in Delegator /\ EntryOK(z, p) /\ z.bonds[c] = 0
            /\ \A a \in Accounts \ {c} : z.bonds[a] = delegatorState[k].bonds[a]
            /\ z.total + delegatorState[k].bonds[c] = delegatorState[k].total
    BY <1>1, <1>8, <2>1, EntryKicked
  <2> QED
    BY <2>2 DEF p
<1> HIDE DEF r, s

<1>15. /\ (BondsTo(c)')[d] = amount /\ (BondsTo(c)')[k] = 0
       /\ \A e \in Accounts \ {d, k} : (BondsTo(c)')[e] = BondsTo(c)[e]
  BY <1>8, <1>9, <1>13, <1>14 DEF BondsTo
<1>16. BondsTo(c)[d] = 0 /\ BondsTo(c)[k] = back
  BY <1>3, <1>8 DEF BondsTo
<1>17. /\ KeepsGood(book[c], b) /\ Arranged(b) /\ HeldBy(b, BondsTo(c)')
       /\ back = less /\ back < amount
       /\ StakeIn(b) + back = StakeIn(book[c]) + amount
       /\ Len(book[c].bottom) = MaxBottomDelegationsPerCandidate
       /\ book[c].bottom[MaxBottomDelegationsPerCandidate] = kicked
  <2> DEFINE n == BondsTo(c)
             m == BondsTo(c)'
  <2>1. /\ n[x.owner] = 0 /\ m[x.owner] = x.amount /\ m[kicked.owner] = 0
        /\ \A a \in Accounts \ {x.owner, kicked.owner} : m[a] = n[a]
    BY <1>6, <1>15, <1>16
  <2>2. x \in Bond /\ x.amount > 0 /\ can_add_delegation(book[c], x)
    BY <1>3, <1>6
  <2>3. n[kicked.owner] = back
    BY <1>16
  <2>4. /\ GoodBook(book[c]) /\ Arranged(book[c]) /\ HeldBy(book[c], n)
    BY <1>7
  <2> HIDE DEF n, m, back, k
  <2>5. LET z == add_delegation(book[c], x)
        IN  /\ KeepsGood(book[c], z) /\ Arranged(z) /\ HeldBy(z, m)
            /\ kicked \in Bond /\ kicked.owner # x.owner /\ n[kicked.owner] = kicked.amount
            /\ kicked.amount > 0
            /\ kicked.amount = less_total_staked(book[c], x) /\ kicked.amount < x.amount
            /\ StakeIn(z) + kicked.amount = StakeIn(book[c]) + x.amount
            /\ Len(book[c].bottom) = MaxBottomDelegationsPerCandidate
            /\ book[c].bottom[MaxBottomDelegationsPerCandidate] = kicked
    BY <1>12, <2>1, <2>2, <2>4, KickedBook
  <2>6. kicked.amount = back
    BY <2>3, <2>5
  <2> QED
    BY <1>6, <2>5, <2>6 DEF m
<1> HIDE DEF b, less
<1>18. /\ book'[c] = b /\ \A a \in Accounts \ {c} : book'[a] = book[a]
       /\ \A a \in Accounts : book'[a].bond = book[a].bond
       /\ \A a \in Accounts : is_candidate(a)' = is_candidate(a)
  <2>1. /\ book'[c] = b /\ \A a \in Accounts \ {c} : book'[a] = book[a]
    BY <1>1, <1>5 DEF TypeOK
  <2>2. b.bond = book[c].bond
    BY <1>17 DEF KeepsGood
  <2> QED
    BY <1>5, <2>1, <2>2 DEF is_candidate
<1>19. /\ back \in Nat /\ total \in Nat /\ palletBtc \in Nat
       /\ StakeIn(b) \in Nat /\ wallet[k] \in Nat /\ wallet[d] \in Nat
       /\ delegatorState[d].total \in Nat /\ s.total \in Nat
  <2>1. b \in Book
    BY <1>17 DEF KeepsGood, GoodBook
  <2>2. StakeIn(b) \in Nat
    BY <1>17, <2>1, StakeIsWorth
  <2>3. s.total \in Nat
    BY <1>14 DEF Delegator
  <2> QED
    BY <1>1, <1>8, <2>2, <2>3, LedgerTypes
<1>20. /\ palletBtc' + StakeIn(book[c]) >= palletBtc + StakeIn(b)
       /\ total' + StakeIn(book[c]) <= total + StakeIn(b)
  <2>1. total' = total + (amount - back)
    BY <1>3, <1>5, <1>17, <1>19 DEF SatSub
  <2>2. StakeIn(b) + back = StakeIn(book[c]) + amount
    BY <1>17
  <2>3. \A p, q, m, l, z \in Nat :
          q + l = p + m => /\ ((z - l) + m) + p >= z + q
                           /\ (z + (m - l)) + p <= z + q
    OBVIOUS
  <2> QED
    BY <1>3, <1>7, <1>11, <1>19, <2>1, <2>2, <2>3, Zenon
<1>21. \A e \in Accounts : EntryRecorded(e)'
  <2>1. SUFFICES ASSUME NEW e \in Accounts PROVE EntryRecorded(e)'
    OBVIOUS
  <2>2. CASE e = k
    BY <1>9, <1>14, <2>2, Zenon DEF EntryRecorded
  <2>3. CASE e # k
    <3>1. RequestsOf(e)' = RequestsOf(e)
      BY <1>1, <1>8, <1>10, <2>3 DEF RequestsOf, TypeOK
    <3>2. CASE e = d
      BY <1>9, <1>13, <3>1, <3>2, Zenon DEF EntryRecorded
    <3>3. CASE e # d
      <4>1. delegatorState'[e] = delegatorState[e]
        BY <1>9, <2>3, <3>3
      <4>2. EntryRecorded(e)
        BY DEF LedgerInv
      <4> QED
        BY <3>1, <4>1, <4>2, Zenon DEF EntryRecorded
    <3> QED
      BY <3>2, <3>3
  <2> QED
    BY <2>2, <2>3
<1>22. LedgerInv'
  <2>1. BookRecorded(c)'
    BY <1>3, <1>17, <1>18 DEF BookRecorded
  <2>2. \A a \in Accounts \ {c} : book'[a] = book[a] /\ (is_candidate(a) => is_candidate(a)')
    BY <1>18
  <2>3. \A e \in Accounts : \A a \in Accounts \ {c} :
           delegatorState'[e].bonds[a] = delegatorState[e].bonds[a]
    BY <1>9, <1>13, <1>14
  <2>4. /\ palletBtc' + StakeIn(book[c]) >= palletBtc + StakeIn(book'[c])
        /\ total' = 0 \/ total' + StakeIn(book[c]) <= total + StakeIn(book'[c])
    BY <1>18, <1>20
  <2> QED
    BY <1>1, <1>21, <2>1, <2>2, <2>3, <2>4, LedgerStep
<1>23. WealthKept
  <2>1. SUFFICES ASSUME NEW a \in Accounts
                 PROVE  wallet'[a] + delegatorState'[a].total + book'[a].bond
                          = wallet[a] + delegatorState[a].total + book[a].bond
    BY <1>22, WealthStep
  <2>2. wallet[a] \in Nat /\ delegatorState[a].total \in Nat /\ book[a].bond \in Nat
    BY <1>1, LedgerTypes
  <2>3. book'[a].bond = book[a].bond
    BY <1>18
  <2>4. CASE a = d
    BY <1>3, <1>9, <1>13, <2>2, <2>3, <2>4
  <2>5. CASE a = k
    BY <1>9, <1>14, <1>19, <2>2, <2>3, <2>5
  <2>6. CASE a \in Accounts \ {d, k}
    BY <1>9, <2>3, <2>6
  <2> QED
    BY <2>4, <2>5, <2>6
<1>24. StakeFallsByRule
  <2>1. SUFFICES ASSUME NEW a \in Accounts, NEW e \in Accounts,
                        delegatorState'[e].bonds[a] < delegatorState[e].bonds[a]
                 PROVE  KickedByLarger(a, e)
    BY Zenon DEF StakeFallsByRule
  <2>2. delegatorState[e].bonds[a] \in Nat
    BY <1>1, LedgerTypes
  <2>3. a = c
    BY <1>9, <1>13, <1>14, <2>1, <2>2
  <2>4. e = k
    BY <1>3, <1>9, <1>13, <2>1, <2>2, <2>3
  <2>5. delegatorState[d].bonds[c] = 0 /\ delegatorState'[d].bonds[c] > delegatorState[k].bonds[c]
    BY <1>3, <1>9, <1>13, <1>17, <1>19
  <2> QED
    BY <1>17, <2>3, <2>4, <2>5, Zenon DEF KickedByLarger
<1> QED
  BY <1>22, <1>23, <1>24 DEF LedgerKept

\* The owners of the bonds of a book are those who delegate, and what they
\* delegate is what the bonds amount to.
LEMMA OwnersHold ==
  ASSUME NEW b, Arranged(b), NEW n, HeldBy(b, n)
  PROVE  LET W == {d \in Owners(b.top) \cup Owners(b.bottom) : n[d] > 0}
         IN  /\ Owners(b.top) \cup Owners(b.bottom) \in SUBSET Accounts
             /\ W \in SUBSET Accounts /\ \A d \in Accounts : n[d] > 0 <=> d \in W
             /\ SumFunction([d \in W |-> n[d]]) = SumOf(b.top) + SumOf(b.bottom)
<1> DEFINE W == {d \in Owners(b.top) \cup Owners(b.bottom) : n[d] > 0}
           k == [d \in W |-> [owner |-> d, amount |-> n[d]]]
           h == [d \in W |-> n[d]]
<1>1. /\ Held(b) \in SUBSET Bond
      /\ SumOf(b.top) + SumOf(b.bottom) = Worth(Held(b))
      /\ \A who : who \in Owners(b.top) \cup Owners(b.bottom) <=> \E y \in Held(b) : y.owner = who
  BY HeldFacts
<1>2. /\ \A d \in Accounts : n[d] > 0 => [owner |-> d, amount |-> n[d]] \in Held(b)
      /\ \A x \in Held(b) : x.amount > 0 /\ n[x.owner] = x.amount
  BY DEF HeldBy
<1>3. \A x \in Bond : x.owner \in Accounts /\ x.amount \in Nat
                      /\ x = [owner |-> x.owner, amount |-> x.amount]
  BY DEF Bond
<1>4. Owners(b.top) \cup Owners(b.bottom) \in SUBSET Accounts /\ W \in SUBSET Accounts
  <2>1. SUFFICES ASSUME NEW d \in Owners(b.top) \cup Owners(b.bottom) PROVE d \in Accounts
    OBVIOUS
  <2>2. PICK y \in Held(b) : y.owner = d
    BY <1>1
  <2> QED
    BY <1>1, <1>3, <2>2
<1>5. \A d \in Accounts : n[d] > 0 <=> d \in W
  <2>1. SUFFICES ASSUME NEW d \in Accounts, n[d] > 0 PROVE d \in Owners(b.top) \cup Owners(b.bottom)
    OBVIOUS
  <2>2. [owner |-> d, amount |-> n[d]] \in Held(b) /\ [owner |-> d, amount |-> n[d]].owner = d
    BY <1>2, <2>1
  <2> QED
    BY <1>1, <2>2, Zenon
<1> HIDE DEF W
<1>6. /\ \A d \in W : k[d] = [owner |-> d, amount |-> n[d]] /\ k[d].owner = d /\ k[d].amount = n[d]
                /\ h[d] = n[d]
      /\ DOMAIN h = W
  OBVIOUS
<1> HIDE DEF k, h
<1>7. {k[d] : d \in W} = Held(b)
  <2>1. ASSUME NEW d \in W PROVE k[d] \in Held(b)
    <3>1. d \in Accounts /\ n[d] > 0
      BY <1>4, <1>5
    <3> QED
      BY <1>2, <1>6, <3>1, Zenon
  <2>2. ASSUME NEW x \in Held(b) PROVE \E d \in W : x = k[d]
    <3>1. x.owner \in Accounts /\ x = [owner |-> x.owner, amount |-> n[x.owner]] /\ n[x.owner] > 0
      BY <1>1, <1>2, <1>3
    <3>2. x.owner \in W
      BY <1>5, <3>1
    <3>3. k[x.owner] = x
      BY <1>6, <3>1, <3>2, Zenon
    <3> QED
      BY <3>2, <3>3
  <2> QED
    BY <2>1, <2>2
<1>8. IsFiniteSet(W)
  BY <1>4, AccountsAssumption, FS_Subset
<1>9. \A x, y \in W : k[x] = k[y] => x = y
  BY <1>6
<1>10. \A d \in W : AmountOf[k[d]] \in Nat /\ h[d] = AmountOf[k[d]]
  <2>1. SUFFICES ASSUME NEW d \in W PROVE AmountOf[k[d]] \in Nat /\ h[d] = AmountOf[k[d]]
    OBVIOUS
  <2>2. k[d] \in Bond
    BY <1>1, <1>7
  <2>3. AmountOf[k[d]] = k[d].amount /\ k[d].amount \in Nat
    BY <2>2 DEF AmountOf, Bond
  <2>4. k[d].amount = n[d]
    BY <1>6
  <2> QED
    BY <1>6, <2>3, <2>4
<1>11. SumFunctionOnSet(h, W) = SumFunctionOnSet(AmountOf, {k[d] : d \in W})
  <2> DEFINE I == {k[d] : d \in W}
  <2>1. I = {k[d] : d \in W}
    OBVIOUS
  <2> HIDE DEF I
  <2>2. SumFunctionOnSet(h, W) = SumFunctionOnSet(AmountOf, I)
    BY <1>8, <1>9, <1>10, <2>1, SumsOverImages
  <2> QED
    BY <2>2 DEF I
<1>12. SumFunction(h) = SumOf(b.top) + SumOf(b.bottom)
  BY <1>1, <1>6, <1>7, <1>11, Zenon DEF SumFunction, Worth
<1> QED
  BY <1>4, <1>5, <1>12, Zenon DEF W, h

\* A candidate that is none is recorded by an empty book.
LEMMA EmptyBookRecords ==
  ASSUME NEW n, \A d \in Accounts : n[d] = 0
  PROVE  Arranged(EmptyBook) /\ HeldBy(EmptyBook, n) /\ StakeIn(EmptyBook) = 0
<1>1. EmptyBook.bond = 0 /\ EmptyBook.top = <<>> /\ EmptyBook.bottom = <<>>
      /\ EmptyBook.topTotal = 0 /\ EmptyBook.bottomTotal = 0
  BY DEF EmptyBook
<1>2. Tidy(<<>>) /\ Bonds(<<>>) = {}
  BY DEF Tidy, Bonds, OnePlaceEach, Sorted
<1>3. SumOf(<<>>) = 0
  <2>1. SumOf(<<>>) = Worth({})
    BY <1>2, SumOfBonds
  <2> QED
    BY <2>1, SumUnfolds, FS_EmptySet DEF Worth
<1>4. Arranged(EmptyBook)
  BY <1>1, <1>2, <1>3 DEF Arranged
<1>5. Held(EmptyBook) = {}
  BY <1>1, <1>2 DEF Held
<1>6. HeldBy(EmptyBook, n)
  BY <1>5 DEF HeldBy
<1> QED
  BY <1>1, <1>3, <1>4, <1>6 DEF StakeIn

\* execute_leave_candidates
LEMMA ExecuteLeaveCandidatesKeeps ==
  ASSUME IInv, IInv', LedgerInv, NEW c \in Accounts, execute_leave_candidates(c)
  PROVE  LedgerKept
<1> DEFINE owners == {d \in Owners(book[c].top) \cup Owners(book[c].bottom) :
                        delegatorState[d].bonds[c] > 0}
           backing == book[c].bond + book[c].topTotal + book[c].bottomTotal
           stake == SumOf(book[c].top) + SumOf(book[c].bottom)
<1>1. TypeOK /\ TypeOK'
  BY DEF IInv
<1>2. /\ is_leaving(c) /\ round >= candidateInfo[c].leaveAt
      /\ wallet' = [a \in Accounts |->
                       IF a \in owners THEN wallet[a] + delegatorState[a].bonds[c] ELSE wallet[a]]
      /\ delegatorState' = [a \in Accounts |->
                               IF a \in owners THEN returned_state(a, c) ELSE delegatorState[a]]
      /\ requests' = drop_requests(c, Accounts)
      /\ candidateInfo' = [candidateInfo EXCEPT ![c] = NoCandidate]
      /\ book' = [book EXCEPT ![c] = EmptyBook]
      /\ total' = SatSub(total, backing)
  BY DEF execute_leave_candidates, can_leave
<1>3. palletBtc' + SumFunction([d \in owners |-> delegatorState[d].bonds[c]]) = palletBtc
  <2>1. \E left \in 0 .. palletBtc :
           /\ left + SumFunction([d \in owners |-> delegatorState[d].bonds[c]]) = palletBtc
           /\ palletBtc' = left
    BY Zenon DEF execute_leave_candidates
  <2> QED
    BY <2>1, Zenon
<1>4. /\ book[c] \in Book /\ Arranged(book[c]) /\ HeldBy(book[c], BondsTo(c))
      /\ StakeIn(book[c]) \in Nat
  BY BookSays
<1>5. /\ \A d \in Accounts : delegatorState[d].bonds[c] > 0 <=> d \in owners
      /\ palletBtc' + stake = palletBtc
  <2> DEFINE n == BondsTo(c)
             W == {d \in Owners(book[c].top) \cup Owners(book[c].bottom) : n[d] > 0}
  <2>1. /\ Owners(book[c].top) \cup Owners(book[c].bottom) \in SUBSET Accounts
        /\ W \in SUBSET Accounts /\ \A d \in Accounts : n[d] > 0 <=> d \in W
        /\ SumFunction([d \in W |-> n[d]]) = stake
    <3>1. HeldBy(book[c], n)
      BY <1>4
    <3> HIDE DEF n
    <3> QED
      BY <1>4, <3>1, OwnersHold
  <2>2. \A d \in Accounts : n[d] = delegatorState[d].bonds[c]
    BY DEF BondsTo
  <2> HIDE DEF n, stake
  <2>3. owners = W
    BY <2>1, <2>2
  <2>4. [d \in owners |-> delegatorState[d].bonds[c]] = [d \in W |-> n[d]]
    BY <2>1, <2>2, <2>3
  <2> HIDE DEF W, owners
  <2> QED
    BY <1>3, <2>1, <2>2, <2>3, <2>4
<1>6. /\ book[c].bond \in Nat /\ SumOf(book[c].top) \in Nat /\ SumOf(book[c].bottom) \in Nat
      /\ book[c].topTotal = SumOf(book[c].top) /\ book[c].bottomTotal >= SumOf(book[c].bottom)
      /\ book[c].bottomTotal \in Nat
  BY <1>4, SumOfBonds DEF Arranged, Book
<1>7. stake \in Nat /\ backing \in Nat /\ StakeIn(book[c]) = book[c].bond + stake
      /\ backing >= StakeIn(book[c])
  BY <1>6 DEF StakeIn
<1> HIDE DEF owners, backing, stake
<1>8. \A e \in Accounts : /\ (RequestsOf(e)')[c] = NoRequest
                          /\ \A a \in Accounts \ {c} : (RequestsOf(e)')[a] = RequestsOf(e)[a]
                          /\ RequestsOf(e)' \in [Accounts -> Request]
                          /\ RequestsOf(e) \in [Accounts -> Request]
                          /\ RequestsOf(e)[c] = requests[c][e]
  BY <1>1, <1>2 DEF RequestsOf, TypeOK, drop_requests
<1>9. \A e \in Accounts :
         /\ EntryRecorded(e)'
         /\ delegatorState'[e].bonds[c] = 0
         /\ \A a \in Accounts \ {c} : delegatorState'[e].bonds[a] = delegatorState[e].bonds[a]
         /\ wallet'[e] + delegatorState'[e].total = wallet[e] + delegatorState[e].total
  <2>1. SUFFICES ASSUME NEW e \in Accounts
                 PROVE  /\ EntryRecorded(e)'
                        /\ delegatorState'[e].bonds[c] = 0
                        /\ \A a \in Accounts \ {c} :
                              delegatorState'[e].bonds[a] = delegatorState[e].bonds[a]
                        /\ wallet'[e] + delegatorState'[e].total
                               = wallet[e] + delegatorState[e].total
    OBVIOUS
  <2>2. /\ delegatorState[e].bonds[c] \in Nat /\ delegatorState[e].total \in Nat
        /\ wallet[e] \in Nat
    BY <1>1, LedgerTypes
  <2>3. CASE e \in owners
    <3> DEFINE p == RequestsOf(e)'
    <3>1. delegatorState[e].bonds[c] > 0
      BY <1>5, <2>3
    <3>2. /\ p \in [Accounts -> Request] /\ p[c] = NoRequest
          /\ \A a \in Accounts \ {c} : p[a] = RequestsOf(e)[a]
      BY <1>8
    <3> HIDE DEF p
    <3>3. LET r == returned_state(e, c)
          IN  /\ r \in Delegator /\ EntryOK(r, p) /\ r.bonds[c] = 0
              /\ \A a \in Accounts \ {c} : r.bonds[a] = delegatorState[e].bonds[a]
              /\ r.total + delegatorState[e].bonds[c] = delegatorState[e].total
      BY <1>1, <3>1, <3>2, EntryReturned
    <3>4. /\ delegatorState'[e] = returned_state(e, c)
          /\ wallet'[e] = wallet[e] + delegatorState[e].bonds[c]
      BY <1>2, <2>3
    <3>5. EntryRecorded(e)'
      BY <3>3, <3>4, Zenon DEF EntryRecorded, p
    <3>6. /\ delegatorState'[e].bonds[c] = 0
          /\ \A a \in Accounts \ {c} : delegatorState'[e].bonds[a] = delegatorState[e].bonds[a]
      BY <3>3, <3>4, Zenon
    <3>7. wallet'[e] + delegatorState'[e].total = wallet[e] + delegatorState[e].total
      <4>1. /\ delegatorState'[e].total + delegatorState[e].bonds[c] = delegatorState[e].total
            /\ delegatorState'[e].total \in Nat
        BY <3>3, <3>4 DEF Delegator
      <4> QED
        BY <2>2, <3>4, <4>1
    <3> QED
      BY <3>5, <3>6, <3>7
  <2>4. CASE e \notin owners
    <3>1. delegatorState'[e] = delegatorState[e] /\ wallet'[e] = wallet[e]
      BY <1>2, <2>4
    <3>2. delegatorState[e].bonds[c] = 0
      BY <1>5, <2>2, <2>4
    <3>3. requests[c][e] = NoRequest
      BY <1>1, <3>2, EntrySays
    <3>4. RequestsOf(e)' = RequestsOf(e)
      <4>1. \A a \in Accounts : (RequestsOf(e)')[a] = RequestsOf(e)[a]
        BY <1>8, <3>3
      <4> QED
        BY <1>8, <4>1
    <3>5. EntryRecorded(e)
      BY DEF LedgerInv
    <3>6. EntryRecorded(e)'
      BY <3>1, <3>4, <3>5, Zenon DEF EntryRecorded
    <3> QED
      BY <3>1, <3>2, <3>6
  <2> QED
    BY <2>3, <2>4
<1>10. /\ book'[c] = EmptyBook /\ \A a \in Accounts \ {c} : book'[a] = book[a]
       /\ is_candidate(c) /\ ~is_candidate(c)'
       /\ \A a \in Accounts \ {c} : is_candidate(a) => is_candidate(a)'
  BY <1>1, <1>2 DEF TypeOK, is_candidate, is_leaving, NoCandidate
<1>11. Arranged(EmptyBook) /\ HeldBy(EmptyBook, BondsTo(c)') /\ StakeIn(EmptyBook) = 0
  <2> DEFINE m == BondsTo(c)'
  <2>1. \A d \in Accounts : m[d] = 0
    BY <1>9 DEF BondsTo
  <2> HIDE DEF m
  <2>2. Arranged(EmptyBook) /\ HeldBy(EmptyBook, m) /\ StakeIn(EmptyBook) = 0
    BY <2>1, EmptyBookRecords
  <2> QED
    BY <2>2 DEF m
<1>12. total \in Nat /\ palletBtc \in Nat /\ palletBtc' \in Nat
  BY <1>1 DEF TypeOK
<1>13. /\ palletBtc' + StakeIn(book[c]) >= palletBtc + StakeIn(book'[c])
       /\ total' = 0 \/ total' + StakeIn(book[c]) <= total + StakeIn(book'[c])
  <2>1. palletBtc' + StakeIn(book[c]) >= palletBtc
    <3>1. palletBtc' + stake = palletBtc
      BY <1>5
    <3>2. StakeIn(book[c]) = book[c].bond + stake /\ stake \in Nat /\ book[c].bond \in Nat
      BY <1>6, <1>7
    <3>3. \A x, s, z, w \in Nat : x + s = z => x + (w + s) >= z
      OBVIOUS
    <3>4. palletBtc' \in Nat /\ palletBtc \in Nat
      BY <1>12
    <3>5. palletBtc' + (book[c].bond + stake) >= palletBtc
      BY <3>1, <3>2, <3>3, <3>4, Zenon
    <3> QED
      BY <3>2, <3>5, Zenon
  <2>2. total' = 0 \/ total' + StakeIn(book[c]) <= total
    BY <1>2, <1>4, <1>7, <1>12 DEF SatSub
  <2> QED
    BY <1>10, <1>11, <1>12, <2>1, <2>2
<1>14. LedgerInv'
  <2>1. BookRecorded(c)'
    BY <1>10, <1>11 DEF BookRecorded
  <2>2. \A a \in Accounts \ {c} : book'[a] = book[a] /\ (is_candidate(a) => is_candidate(a)')
    BY <1>10
  <2>3. \A e \in Accounts : \A a \in Accounts \ {c} :
           delegatorState'[e].bonds[a] = delegatorState[e].bonds[a]
    BY <1>9
  <2>4. \A e \in Accounts : EntryRecorded(e)'
    BY <1>9
  <2> QED
    BY <1>1, <1>13, <2>1, <2>2, <2>3, <2>4, LedgerStep
<1>15. WealthKept
  <2>1. SUFFICES ASSUME NEW a \in Accounts
                 PROVE  \/ wallet'[a] + delegatorState'[a].total + book'[a].bond
                             = wallet[a] + delegatorState[a].total + book[a].bond
                        \/ is_candidate(a) /\ ~is_candidate(a)'
    BY <1>14, WealthStep
  <2>2. CASE a = c
    BY <1>10, <2>2
  <2>3. CASE a # c
    <3>1. book'[a].bond = book[a].bond
      BY <1>10, <2>3
    <3>2. wallet'[a] + delegatorState'[a].total = wallet[a] + delegatorState[a].total
      BY <1>9
    <3> QED
      BY <3>1, <3>2, Zenon
  <2> QED
    BY <2>2, <2>3
<1>16. StakeFallsByRule
  <2>1. SUFFICES ASSUME NEW a \in Accounts, NEW e \in Accounts,
                        delegatorState'[e].bonds[a] < delegatorState[e].bonds[a]
                 PROVE  CandidateExits(a)
    BY Zenon DEF StakeFallsByRule
  <2>2. delegatorState[e].bonds[a] \in Nat
    BY <1>1, LedgerTypes
  <2>3. a = c
    BY <1>9, <2>1, <2>2
  <2> QED
    BY <1>2, <1>10, <2>3 DEF CandidateExits
<1> QED
  BY <1>14, <1>15, <1>16 DEF LedgerKept

----------------------------------------------------------------------------
(* The other steps, and the theorems.                                      *)

\* The calls that only change a candidate's record.
LEMMA CandidateCallKeeps ==
  ASSUME IInv, LedgerInv, NEW c \in Accounts,
         \/ schedule_leave_candidates(c) \/ cancel_leave_candidates(c)
         \/ go_offline(c) \/ go_online(c) \/ cancel_candidate_bond_less(c)
         \/ \E less \in Amounts : schedule_candidate_bond_less(c, less)
  PROVE  LedgerKept
<1>1. TypeOK
  BY DEF IInv
<1> DEFINE Still == /\ UNCHANGED <<book, delegatorState, requests, total, wallet, palletBtc>>
                    /\ \A a \in Accounts : is_candidate(a) => is_candidate(a)'
<1>2. ASSUME schedule_leave_candidates(c) PROVE Still
  BY <1>1, <1>2 DEF schedule_leave_candidates, schedule_leave, is_candidate, TypeOK, Candidate
<1>3. ASSUME cancel_leave_candidates(c) PROVE Still
  BY <1>1, <1>3 DEF cancel_leave_candidates, is_candidate, TypeOK, Candidate
<1>4. ASSUME go_offline(c) PROVE Still
  BY <1>1, <1>4 DEF go_offline, is_candidate, TypeOK, Candidate
<1>5. ASSUME go_online(c) PROVE Still
  BY <1>1, <1>5 DEF go_online, is_candidate, TypeOK, Candidate
<1>6. ASSUME cancel_candidate_bond_less(c) PROVE Still
  BY <1>1, <1>6 DEF cancel_candidate_bond_less, is_candidate, TypeOK, Candidate
<1>7. ASSUME NEW less \in Amounts, schedule_candidate_bond_less(c, less) PROVE Still
  BY <1>1, <1>7 DEF schedule_candidate_bond_less, is_candidate, TypeOK, Candidate
<1>8. Still
  BY <1>2, <1>3, <1>4, <1>5, <1>6, <1>7, Zenon
<1> QED
  BY <1>1, <1>8, StillStep

\* join_candidates: who is no candidate has an empty book already.
LEMMA JoinCandidatesKeeps ==
  ASSUME IInv, LedgerInv, NEW c \in Accounts, join_candidates(c)
  PROVE  LedgerKept
<1>1. TypeOK
  BY DEF IInv
<1>2. /\ ~is_candidate(c) /\ candidateInfo' = [candidateInfo EXCEPT ![c] = NewCandidate]
      /\ book' = [book EXCEPT ![c] = EmptyBook]
      /\ UNCHANGED <<delegatorState, requests, total, wallet, palletBtc>>
  BY DEF join_candidates
<1>3. book[c] = EmptyBook
  BY <1>2, BookSays
<1>4. book' = book
  BY <1>1, <1>2, <1>3 DEF TypeOK
<1>5. \A a \in Accounts : is_candidate(a) => is_candidate(a)'
  BY <1>1, <1>2 DEF is_candidate, TypeOK
<1>6. UNCHANGED <<book, delegatorState, requests, total, wallet, palletBtc>>
  BY <1>2, <1>4
<1> QED
  BY <1>1, <1>5, <1>6, StillStep

\* The invariant holds at genesis: nothing is staked.
LEMMA InitLedgerInv == Init => LedgerInv
<1> SUFFICES ASSUME Init PROVE LedgerInv
  OBVIOUS
<1>1. /\ \A c \in Accounts : book[c] = EmptyBook
      /\ \A d \in Accounts : delegatorState[d] = NoDelegator
      /\ \A c, d \in Accounts : requests[c][d] = NoRequest
      /\ total = 0 /\ palletBtc = 0
  BY DEF Init
<1>2. \A c, d \in Accounts : NoDelegator.bonds[c] = 0
  BY DEF NoDelegator
<1>3. ASSUME NEW c \in Accounts PROVE BookRecorded(c) /\ StakeOf(c) = 0
  <2> DEFINE n == BondsTo(c)
  <2>1. \A d \in Accounts : n[d] = 0
    BY <1>1, <1>2 DEF BondsTo
  <2> HIDE DEF n
  <2>2. Arranged(EmptyBook) /\ HeldBy(EmptyBook, n) /\ StakeIn(EmptyBook) = 0
    BY <2>1, EmptyBookRecords
  <2>3. BookRecorded(c)
    BY <1>1, <2>2 DEF BookRecorded, n
  <2>4. StakeOf(c) = StakeIn(book[c])
    BY DEF StakeOf, StakeIn
  <2> QED
    BY <1>1, <2>2, <2>3, <2>4, Zenon
<1>4. ASSUME NEW d \in Accounts PROVE EntryRecorded(d)
  <2> DEFINE q == RequestsOf(d)
  <2>1. q \in [Accounts -> Request] /\ \A a \in Accounts : q[a] = NoRequest
    BY <1>1, EmptyTypes DEF RequestsOf
  <2> HIDE DEF q
  <2>2. EntryOK(NoDelegator, q)
    BY <2>1, EmptyEntry
  <2> QED
    BY <1>1, <2>2 DEF EntryRecorded, q
<1>5. PalletCoversStakes
  <2> DEFINE f == [c \in Accounts |-> StakeOf(c)]
  <2>1. f \in [Accounts -> Nat] /\ \A a \in Accounts : f[a] = 0
    BY <1>3
  <2> HIDE DEF f
  <2>2. SumFunction(f) = 0
    BY <2>1, AccountsSumZero
  <2>3. AllStake = 0
    BY <2>2, Zenon DEF AllStake, f
  <2> QED
    BY <1>1, <2>3 DEF PalletCoversStakes
<1> QED
  BY <1>3, <1>4, <1>5 DEF LedgerInv

\* Every step keeps the invariant, everybody's wealth and the rules of stake.
LEMMA NextLedger == IInv /\ LedgerInv /\ [Next]_vars => LedgerKept
<1> SUFFICES ASSUME IInv, LedgerInv, [Next]_vars PROVE LedgerKept
  OBVIOUS
<1>1. IInv' /\ TypeOK
  BY NextIInv DEF IInv
<1>2. CASE new_round
  <2>1. /\ UNCHANGED <<book, delegatorState, requests, total, wallet, palletBtc>>
        /\ \A a \in Accounts : is_candidate(a) => is_candidate(a)'
    BY <1>2 DEF new_round, is_candidate
  <2> QED
    BY <1>1, <2>1, StillStep
<1>3. ASSUME NEW c \in Joiners, join_candidates(c) \/ force_join_candidates(c) PROVE LedgerKept
  BY <1>3, JoinCandidatesKeeps, StakingAssumption DEF force_join_candidates
<1>4. ASSUME NEW c \in Accounts, CandidateStep(c) PROVE LedgerKept
  <2>1. CASE execute_leave_candidates(c)
    BY <1>1, <2>1, ExecuteLeaveCandidatesKeeps
  <2>2. ASSUME NEW more \in Amounts, candidate_bond_more(c, more) PROVE LedgerKept
    BY <1>1, <2>2, CandidateBondMoreKeeps
  <2>3. CASE execute_candidate_bond_less(c)
    BY <1>1, <2>3, ExecuteCandidateBondLessKeeps
  <2>4. CASE \/ schedule_leave_candidates(c) \/ cancel_leave_candidates(c)
             \/ go_offline(c) \/ go_online(c) \/ cancel_candidate_bond_less(c)
             \/ \E less \in Amounts : schedule_candidate_bond_less(c, less)
    BY <2>4, CandidateCallKeeps
  <2> QED
    BY <1>4, <2>1, <2>2, <2>3, <2>4, Zenon DEF CandidateStep
<1>5. ASSUME NEW c \in Accounts, NEW d \in Backers, NEW amount \in Amounts,
             delegate(c, d, amount) \/ delegate_kicking(c, d, amount)
      PROVE  LedgerKept
  BY <1>1, <1>5, DelegateKeeps, DelegateKickingKeeps, StakingAssumption
<1>6. ASSUME NEW c \in Accounts, NEW d \in Accounts, DelegatorStep(c, d) PROVE LedgerKept
  <2>1. CASE schedule_revoke_delegation(c, d)
    <3>1. delegatorState[d].bonds[c] \in Nat
      BY <1>1, LedgerTypes
    <3>2. ScheduleRequest(c, d, "revoke", delegatorState[d].bonds[c])
      BY <2>1 DEF schedule_revoke_delegation
    <3> QED
      BY <1>1, <3>1, <3>2, ScheduleRequestKeeps
  <2>2. ASSUME NEW less \in Amounts, schedule_delegator_bond_less(c, d, less) PROVE LedgerKept
    <3>1. /\ less \in Nat /\ MinDelegation \in Nat /\ ScheduleRequest(c, d, "decrease", less)
          /\ delegatorState[d].bonds[c] \in Nat
          /\ delegatorState[d].bonds[c] > less
          /\ delegatorState[d].bonds[c] - less >= MinDelegation
      BY <1>1, <2>2, StakingAssumption, LedgerTypes DEF schedule_delegator_bond_less
    <3>2. delegatorState[d].bonds[c] >= less + MinDelegation
      BY <3>1
    <3> QED
      BY <1>1, <3>1, <3>2, ScheduleRequestKeeps
  <2>3. ASSUME NEW more \in Amounts, delegator_bond_more(c, d, more) PROVE LedgerKept
    BY <1>1, <2>3, DelegatorBondMoreKeeps
  <2>4. CASE cancel_delegation_request(c, d)
    BY <1>1, <2>4, CancelDelegationRequestKeeps
  <2>5. CASE execute_revoke(c, d)
    BY <1>1, <2>5, ExecuteRevokeKeeps
  <2>6. CASE execute_decrease(c, d)
    BY <1>1, <2>6, ExecuteDecreaseKeeps
  <2> QED
    BY <1>6, <2>1, <2>2, <2>3, <2>4, <2>5, <2>6, Zenon DEF DelegatorStep
<1>7. CASE UNCHANGED vars
  <2>1. /\ UNCHANGED <<book, delegatorState, requests, total, wallet, palletBtc>>
        /\ \A a \in Accounts : is_candidate(a) => is_candidate(a)'
    BY <1>7 DEF vars, is_candidate
  <2> QED
    BY <1>1, <2>1, StillStep
<1> QED
  BY <1>2, <1>3, <1>4, <1>5, <1>6, <1>7, Zenon DEF Next, LedgerExtrinsic

\* The records and the sums of the ledger agree in every reachable state.
THEOREM LedgerInvariance == Spec => []LedgerInv
<1>1. IInv /\ LedgerInv /\ [Next]_vars => LedgerInv'
  BY NextLedger DEF LedgerKept
<1> QED
  BY <1>1, InitLedgerInv, Invariance, PTL DEF Spec

\* A step moves BTC between an account's wallet and its own stake only; the exit
\* of a candidate is the one exception.
THEOREM WealthCorrect == Spec => WealthPreserved
<1>1. IInv /\ LedgerInv /\ [Next]_vars => [WealthKept]_vars
  BY NextLedger DEF LedgerKept
<1> QED
  BY <1>1, LedgerInvariance, Invariance, PTL DEF Spec, WealthPreserved

\* A delegation shrinks only by its own due request, by being kicked by a larger
\* one, or by the due exit of its candidate.
THEOREM StakeFallsCorrect == Spec => StakeFallsOnlyByRule
<1>1. IInv /\ LedgerInv /\ [Next]_vars => [StakeFallsByRule]_vars
  BY NextLedger DEF LedgerKept
<1> QED
  BY <1>1, LedgerInvariance, Invariance, PTL DEF Spec, StakeFallsOnlyByRule

\* The pallet's account holds all the BTC that is staked, and Total never claims
\* more than is staked.
THEOREM PalletCorrect == Spec => []PalletCoversStakes
<1>1. LedgerInv => PalletCoversStakes
  BY DEF LedgerInv
<1> QED
  BY <1>1, LedgerInvariance, PTL

\* The stake a candidate is ranked by is the sum of its counted delegations, and
\* the bottom total is at least the sum of the others.
THEOREM TotalsCorrect == Spec => []TotalsMatchBook
<1>1. LedgerInv => TotalsMatchBook
  BY DEF LedgerInv, BookRecorded, Arranged, TotalsMatchBook
<1> QED
  BY <1>1, LedgerInvariance, PTL

\* Where the delegation of d is in a tidy list.
LEMMA PlaceInList ==
  ASSUME NEW s, Tidy(s), NEW d
  PROVE  LET P == {i \in DOMAIN s : s[i].owner = d}
         IN  \/ d \notin Owners(s) /\ AmountIn(s, d) = 0 /\ Cardinality(P) = 0
             \/ /\ \E y \in Bonds(s) : y.owner = d /\ AmountIn(s, d) = y.amount
                /\ d \in Owners(s) /\ Cardinality(P) = 1
<1> DEFINE P == {i \in DOMAIN s : s[i].owner = d}
<1>1. /\ s \in Seq(Bond) /\ DOMAIN s = 1 .. Len(s)
      /\ \A i \in 1 .. Len(s) : s[i] \in Bonds(s)
      /\ \A i, j \in 1 .. Len(s) : s[i].owner = s[j].owner => i = j
  BY TidyFacts
<1>2. d \in Owners(s) <=> \E i \in DOMAIN s : s[i].owner = d
  BY DEF Owners
<1>3. CASE d \notin Owners(s)
  <2>1. P = {}
    BY <1>2, <1>3
  <2>2. Cardinality(P) = 0
    BY <2>1, FS_EmptySet, Zenon
  <2>3. AmountIn(s, d) = 0
    BY <1>3 DEF AmountIn
  <2> QED
    BY <1>3, <2>2, <2>3
<1>4. CASE d \in Owners(s)
  <2> DEFINE k == IndexOf(s, d)
  <2>1. k \in DOMAIN s /\ s[k].owner = d
    BY <1>2, <1>4 DEF IndexOf
  <2>2. AmountIn(s, d) = s[k].amount
    BY <1>4 DEF AmountIn
  <2> HIDE DEF k
  <2>3. P = {k}
    BY <1>1, <2>1
  <2>4. Cardinality(P) = 1
    BY <2>3, FS_Singleton
  <2>5. s[k] \in Bonds(s)
    BY <1>1, <2>1
  <2> QED
    BY <1>4, <2>1, <2>2, <2>4, <2>5
<1> QED
  BY <1>3, <1>4

\* The two lists of an arranged book, read one after the other, are sorted.
LEMMA BothListsSorted ==
  ASSUME NEW b, Arranged(b)
  PROVE  Sorted(b.top \o b.bottom)
<1> DEFINE s == b.top
           z == b.bottom
<1>1. Tidy(s) /\ Tidy(z) /\ \A x \in Bonds(s), y \in Bonds(z) : x.amount >= y.amount
  BY DEF Arranged
<1>2. /\ s \in Seq(Bond) /\ Len(s) \in Nat
      /\ \A i \in 1 .. Len(s) : s[i] \in Bonds(s) /\ s[i].amount \in Nat
      /\ \A i, j \in 1 .. Len(s) : i < j => s[i].amount >= s[j].amount
  BY <1>1, TidyFacts
<1>3. /\ z \in Seq(Bond) /\ Len(z) \in Nat
      /\ \A i \in 1 .. Len(z) : z[i] \in Bonds(z) /\ z[i].amount \in Nat
      /\ \A i, j \in 1 .. Len(z) : i < j => z[i].amount >= z[j].amount
  BY <1>1, TidyFacts
<1> HIDE DEF s, z
<1>4. /\ Len(s \o z) = Len(s) + Len(z) /\ s \o z \in Seq(Bond)
      /\ \A i \in 1 .. Len(s) + Len(z) : (s \o z)[i] = IF i <= Len(s) THEN s[i] ELSE z[i - Len(s)]
  BY <1>2, <1>3, ConcatProperties
<1>5. DOMAIN (s \o z) = 1 .. Len(s) + Len(z)
  BY <1>4, LenProperties
<1>6. ASSUME NEW i \in 1 .. Len(s) + Len(z), NEW j \in 1 .. Len(s) + Len(z), i < j
      PROVE  (s \o z)[i].amount >= (s \o z)[j].amount
  <2>1. CASE j <= Len(s)
    <3>1. i \in 1 .. Len(s) /\ j \in 1 .. Len(s) /\ i <= Len(s)
      BY <1>2, <1>3, <1>6, <2>1
    <3> QED
      BY <1>2, <1>4, <1>6, <2>1, <3>1
  <2>2. CASE i <= Len(s) /\ ~(j <= Len(s))
    <3>1. i \in 1 .. Len(s) /\ j - Len(s) \in 1 .. Len(z)
      BY <1>2, <1>3, <1>6, <2>2
    <3>2. (s \o z)[i] = s[i] /\ (s \o z)[j] = z[j - Len(s)]
      BY <1>4, <2>2
    <3>3. s[i] \in Bonds(s) /\ z[j - Len(s)] \in Bonds(z)
      BY <1>2, <1>3, <3>1
    <3> QED
      BY <1>1, <3>2, <3>3 DEF s, z
  <2>3. CASE ~(i <= Len(s))
    <3> DEFINE u == i - Len(s)
               v == j - Len(s)
    <3>1. u \in 1 .. Len(z) /\ v \in 1 .. Len(z) /\ u < v /\ ~(j <= Len(s))
      BY <1>2, <1>3, <1>6, <2>3
    <3>2. (s \o z)[i] = z[u] /\ (s \o z)[j] = z[v]
      BY <1>4, <2>3, <3>1
    <3> HIDE DEF u, v
    <3>3. z[u].amount >= z[v].amount
      BY <1>3, <3>1
    <3> QED
      BY <3>2, <3>3, Zenon
  <2> QED
    BY <2>1, <2>2, <2>3
<1>7. Sorted(s \o z)
  BY <1>5, <1>6 DEF Sorted
<1> QED
  BY <1>7 DEF s, z

\* The counted list holds the largest delegations, and the bottom list is used
\* only when it is full.
THEOREM TopCorrect == Spec => []TopIsTheLargest
<1>1. LedgerInv => TopIsTheLargest
  <2>1. SUFFICES ASSUME LedgerInv, NEW c \in Accounts
                 PROVE  /\ Sorted(book[c].top \o book[c].bottom)
                        /\ book[c].bottom # <<>> => Len(book[c].top) = MaxTopDelegationsPerCandidate
    BY Zenon DEF TopIsTheLargest
  <2>2. Arranged(book[c])
    BY <2>1 DEF LedgerInv, BookRecorded
  <2>3. Sorted(book[c].top \o book[c].bottom)
    BY <2>2, BothListsSorted
  <2> QED
    BY <2>2, <2>3 DEF Arranged
<1> QED
  BY <1>1, LedgerInvariance, PTL

\* One delegation: the entry and exactly one place of the book hold its amount.
LEMMA DelegationRecorded ==
  ASSUME TypeOK, LedgerInv, NEW c \in Accounts, NEW d \in Accounts
  PROVE  LET b == book[c]
             n == delegatorState[d].bonds[c]
         IN  /\ n = AmountIn(b.top, d) + AmountIn(b.bottom, d)
             /\ n = 0 \/ n >= MinDelegation
             /\ Cardinality({i \in DOMAIN b.top : b.top[i].owner = d})
                  + Cardinality({i \in DOMAIN b.bottom : b.bottom[i].owner = d}) <= 1
<1> DEFINE b == book[c]
           n == delegatorState[d].bonds[c]
           s == b.top
           z == b.bottom
           P == {i \in DOMAIN s : s[i].owner = d}
           Q == {i \in DOMAIN z : z[i].owner = d}
<1>1. Arranged(b) /\ HeldBy(b, BondsTo(c))
  BY DEF LedgerInv, BookRecorded
<1>2. BondsTo(c)[d] = n /\ n \in Nat
  BY LedgerTypes
<1>3. n = 0 \/ n >= MinDelegation
  BY EntrySays
<1>4. /\ n > 0 => [owner |-> d, amount |-> n] \in Held(b)
      /\ \A x \in Held(b) : x.owner = d => x.amount > 0 /\ n = x.amount
  <2> HIDE DEF b, n
  <2> QED
    BY <1>1, <1>2, Zenon DEF HeldBy
<1>5. Tidy(s) /\ Tidy(z)
  BY <1>1 DEF Arranged
<1>6. /\ \A who : who \in Owners(s) \cup Owners(z) <=> \E y \in Held(b) : y.owner = who
      /\ \A y \in Bonds(s) : y \in Held(b) /\ y.owner \notin Owners(z)
      /\ \A y \in Bonds(z) : y \in Held(b)
      /\ \A y \in Held(b) : y.amount \in Nat
  <2>1. /\ \A who : who \in Owners(s) \cup Owners(z) <=> \E y \in Held(b) : y.owner = who
        /\ Held(b) \in SUBSET Bond
    BY <1>1, HeldFacts
  <2>2. \A y \in Bonds(s) : y.owner \notin Owners(z)
    BY <1>1, CrossFacts
  <2>3. Held(b) = Bonds(s) \cup Bonds(z)
    BY DEF Held
  <2>4. \A y \in Held(b) : y.amount \in Nat
    BY <2>1 DEF Bond
  <2> HIDE DEF b, s, z
  <2> QED
    BY <2>1, <2>2, <2>3, <2>4
<1> HIDE DEF b, n, s, z
<1>7. \/ d \notin Owners(s) /\ AmountIn(s, d) = 0 /\ Cardinality(P) = 0
      \/ /\ \E y \in Bonds(s) : y.owner = d /\ AmountIn(s, d) = y.amount
         /\ d \in Owners(s) /\ Cardinality(P) = 1
  BY <1>5, PlaceInList
<1>8. \/ d \notin Owners(z) /\ AmountIn(z, d) = 0 /\ Cardinality(Q) = 0
      \/ /\ \E y \in Bonds(z) : y.owner = d /\ AmountIn(z, d) = y.amount
         /\ d \in Owners(z) /\ Cardinality(Q) = 1
  <2>1. Tidy(z)
    BY <1>5
  <2> QED
    BY <2>1, PlaceInList
<1> HIDE DEF P, Q
<1>9. n = AmountIn(s, d) + AmountIn(z, d) /\ Cardinality(P) + Cardinality(Q) <= 1
  <2>1. CASE d \in Owners(s)
    <3>1. PICK y \in Bonds(s) : y.owner = d /\ AmountIn(s, d) = y.amount
      BY <1>7, <2>1
    <3>2. n = y.amount /\ d \notin Owners(z)
      BY <1>4, <1>6, <3>1
    <3> QED
      BY <1>2, <1>7, <1>8, <2>1, <3>1, <3>2
  <2>2. CASE d \in Owners(z)
    <3>1. PICK y \in Bonds(z) : y.owner = d /\ AmountIn(z, d) = y.amount
      BY <1>8, <2>2
    <3>2. n = y.amount
      BY <1>4, <1>6, <3>1
    <3>3. d \notin Owners(s)
      <4>1. ASSUME d \in Owners(s) PROVE FALSE
        BY <1>6, <1>7, <2>2, <4>1
      <4> QED
        BY <4>1
    <3> QED
      BY <1>2, <1>7, <1>8, <2>2, <3>1, <3>2, <3>3
  <2>3. CASE d \notin Owners(s) /\ d \notin Owners(z)
    <3>1. n = 0
      <4>1. SUFFICES ASSUME n > 0 PROVE FALSE
        BY <1>2
      <4>2. [owner |-> d, amount |-> n] \in Held(b) /\ [owner |-> d, amount |-> n].owner = d
        BY <1>4, <4>1
      <4> QED
        BY <1>6, <2>3, <4>2, Zenon
    <3> QED
      BY <1>7, <1>8, <2>3, <3>1
  <2> QED
    BY <2>1, <2>2, <2>3
<1> QED
  BY <1>3, <1>9 DEF b, n, s, z, P, Q

\* The two records of a delegation, and the totals of the entries, agree.
THEOREM RecordsCorrect == Spec => []RecordsAgree
<1>1. TypeOK /\ LedgerInv => RecordsAgree
  <2> SUFFICES ASSUME TypeOK, LedgerInv PROVE RecordsAgree
    OBVIOUS
  <2>1. \A d \in Accounts :
          LET st == delegatorState[d]
          IN  /\ st.present <=> Delegations(st) # {}
              /\ st.total = SumFunction(st.bonds)
    BY DEF LedgerInv, EntryRecorded, EntryOK, Delegations
  <2> QED
    BY <2>1, DelegationRecorded DEF RecordsAgree
<1> QED
  BY <1>1, LedgerInvariance, TypeCorrect, PTL

\* A scheduled request fits the delegation or the self bond it is about, and a
\* delegator's less_total is the sum of its requests.
THEOREM RequestsCorrect == Spec => []RequestsFitBonds
<1>1. IInv /\ LedgerInv => RequestsFitBonds
  <2> SUFFICES ASSUME IInv, LedgerInv PROVE RequestsFitBonds
    OBVIOUS
  <2>1. TypeOK /\ SelfRequestsFit
    BY DEF IInv
  <2>2. \A c, d \in Accounts : Fits(delegatorState[d].bonds[c], requests[c][d])
    BY <2>1, EntrySays
  <2>3. \A d \in Accounts : delegatorState[d].lessTotal =
                               SumFunction([c \in Accounts |-> requests[c][d].amount])
    <3>1. SUFFICES ASSUME NEW d \in Accounts
                   PROVE  delegatorState[d].lessTotal =
                            SumFunction([c \in Accounts |-> requests[c][d].amount])
      OBVIOUS
    <3>2. delegatorState[d].lessTotal = SumFunction(AmountsOf(RequestsOf(d)))
      BY DEF LedgerInv, EntryRecorded, EntryOK
    <3>3. AmountsOf(RequestsOf(d)) = [c \in Accounts |-> requests[c][d].amount]
      BY DEF AmountsOf, RequestsOf
    <3> QED
      BY <3>2, <3>3, Zenon
  <2> QED
    BY <2>1, <2>2, <2>3 DEF RequestsFitBonds, Fits
<1> QED
  BY <1>1, LedgerInvariance, Invariance, PTL

----------------------------------------------------------------------------
(* The sorted vectors.                                                     *)

\* Every account has a place of its own in the order of the accounts.
LEMMA PlaceOfAccount ==
  /\ AccountOrder \in Seq(Accounts) /\ Len(AccountOrder) \in Nat
  /\ \A a \in Accounts : /\ Place(a) \in 1 .. Len(AccountOrder) /\ Place(a) \in Nat
                         /\ AccountOrder[Place(a)] = a
<1>1. /\ AccountOrder \in Seq(Accounts) /\ Len(AccountOrder) \in Nat
      /\ DOMAIN AccountOrder = 1 .. Len(AccountOrder)
  BY SetsAssumption
<1>2. \A a \in Accounts : \E i \in DOMAIN AccountOrder : AccountOrder[i] = a
  BY SetsAssumption, Zenon
<1>3. \A a \in Accounts : Place(a) \in DOMAIN AccountOrder /\ AccountOrder[Place(a)] = a
  BY <1>2, Zenon DEF Place
<1> QED
  BY <1>1, <1>3

\* Bonds with at most one for each owner
OneEach(S) == S \in SUBSET Bond /\ \A x, y \in S : x.owner = y.owner => x = y

\* The place of the owner of each bond
PlacesOf(S) == [x \in S |-> Place(x.owner)]

\* v lists S in the order of the owners.
Enumerates(v, S, n) ==
    /\ v \in [1 .. n -> S]
    /\ \A x \in S : \E i \in 1 .. n : v[i] = x
    /\ \A i, j \in 1 .. n : i < j => Precedes(v[i], v[j])

\* The owners of different bonds have different places.
LEMMA PlacesDiffer ==
  ASSUME NEW S, OneEach(S)
  PROVE  /\ IsFiniteSet(S) /\ Cardinality(S) \in Nat
         /\ PlacesOf(S) \in [S -> Nat]
         /\ \A x \in S : PlacesOf(S)[x] = Place(x.owner) /\ Place(x.owner) \in Nat
         /\ \A x, y \in S : PlacesOf(S)[x] = PlacesOf(S)[y] => x = y
<1>1. \A x \in S : x.owner \in Accounts
  BY DEF OneEach, Bond
<1>2. \A x \in S : Place(x.owner) \in Nat /\ AccountOrder[Place(x.owner)] = x.owner
  BY <1>1, PlaceOfAccount
<1>3. \A x, y \in S : Place(x.owner) = Place(y.owner) => x = y
  BY <1>2 DEF OneEach
<1>4. IsFiniteSet(S)
  <2> DEFINE f == [x \in S |-> x.owner]
  <2>1. f \in [S -> Accounts] /\ \A x, y \in S : f[x] = f[y] => x = y
    BY <1>1 DEF OneEach
  <2> HIDE DEF f
  <2>2. f \in Injection(S, Accounts)
    BY <2>1 DEF Injection, IsInjective
  <2> QED
    BY <2>2, AccountsAssumption, FS_Injection
<1> QED
  BY <1>2, <1>3, <1>4, FS_CardinalityType DEF PlacesOf

\* The i-th bond of such a list has i - 1 before it.
LEMMA ListedRank ==
  ASSUME NEW S, OneEach(S), NEW n \in Nat, NEW v, Enumerates(v, S, n)
  PROVE  /\ n = Cardinality(S)
         /\ \A i, j \in 1 .. n : v[i] = v[j] => i = j
         /\ \A i \in 1 .. n : Rank(S, PlacesOf(S), v[i]) = i - 1
<1>1. /\ v \in [1 .. n -> S] /\ \A x \in S : \E i \in 1 .. n : v[i] = x
      /\ \A i, j \in 1 .. n : i < j => Place(v[i].owner) < Place(v[j].owner)
  BY DEF Enumerates, Precedes
<1>2. \A i \in 1 .. n : v[i] \in S /\ Place(v[i].owner) \in Nat
  BY <1>1, PlacesDiffer
<1>3. \A i, j \in 1 .. n : v[i] = v[j] => i = j
  <2> SUFFICES ASSUME NEW i \in 1 .. n, NEW j \in 1 .. n, v[i] = v[j], i # j PROVE FALSE
    OBVIOUS
  <2>1. i < j \/ j < i
    OBVIOUS
  <2>2. Place(v[i].owner) < Place(v[j].owner) \/ Place(v[j].owner) < Place(v[i].owner)
    BY <1>1, <2>1
  <2>3. Place(v[i].owner) \in Nat /\ Place(v[j].owner) = Place(v[i].owner)
    BY <1>2
  <2> QED
    BY <2>2, <2>3
<1>4. n = Cardinality(S)
  <2>1. v \in Injection(1 .. n, S) /\ v \in Surjection(1 .. n, S)
    BY <1>1, <1>3 DEF Injection, IsInjective, Surjection
  <2>2. Cardinality(1 .. n) = n /\ IsFiniteSet(1 .. n)
    BY IntervalSize
  <2> QED
    BY <2>1, <2>2, FS_Surjection
<1>5. ASSUME NEW i \in 1 .. n PROVE Rank(S, PlacesOf(S), v[i]) = i - 1
  <2> DEFINE B == {y \in S : PlacesOf(S)[y] < PlacesOf(S)[v[i]]}
             m == i - 1
             f == [j \in 1 .. m |-> v[j]]
  <2>1. m \in Nat /\ m < n /\ i = m + 1
    OBVIOUS
  <2>2. \A y \in S : PlacesOf(S)[y] = Place(y.owner)
    BY PlacesDiffer
  <2>3. \A j \in 1 .. m : v[j] \in B
    BY <1>1, <1>2, <2>1, <2>2
  <2>4. \A y \in B : \E j \in 1 .. m : v[j] = y
    <3> SUFFICES ASSUME NEW y \in B PROVE \E j \in 1 .. m : v[j] = y
      OBVIOUS
    <3>1. PICK j \in 1 .. n : v[j] = y
      BY <1>1
    <3>2. Place(v[j].owner) < Place(v[i].owner)
      BY <1>2, <2>2, <3>1
    <3>3. Place(v[i].owner) \in Nat /\ Place(v[j].owner) \in Nat
      BY <1>2
    <3>4. ~ (Place(v[i].owner) < Place(v[j].owner)) /\ i # j
      BY <3>2, <3>3
    <3>5. ~ (i < j)
      BY <1>1, <3>4
    <3> QED
      BY <2>1, <3>1, <3>4, <3>5
  <2>5. f \in [1 .. m -> B] /\ (\A j \in 1 .. m : f[j] = v[j])
        /\ \A j, k \in 1 .. m : f[j] = f[k] => j = k
    BY <1>3, <2>1, <2>3
  <2> HIDE DEF f, B, m
  <2>6. f \in Injection(1 .. m, B) /\ f \in Surjection(1 .. m, B)
    BY <2>4, <2>5 DEF Injection, IsInjective, Surjection
  <2>7. Cardinality(1 .. m) = m /\ IsFiniteSet(1 .. m)
    BY <2>1, IntervalSize
  <2>8. Cardinality(B) = m
    BY <2>6, <2>7, FS_Surjection
  <2> QED
    BY <2>8 DEF Rank, B, m
<1> QED
  BY <1>3, <1>4, <1>5

\* There is one such list only.
LEMMA ListedOneWay ==
  ASSUME NEW S, OneEach(S), NEW n \in Nat, NEW m \in Nat,
         NEW v, Enumerates(v, S, n), NEW w, Enumerates(w, S, m)
  PROVE  n = m /\ v = w
<1>1. n = m
  BY ListedRank
<1>2. v \in [1 .. n -> S] /\ w \in [1 .. n -> S]
  BY <1>1 DEF Enumerates
<1>3. ASSUME NEW i \in 1 .. n PROVE v[i] = w[i]
  <2>1. v[i] \in S /\ w[i] \in S
    BY <1>2
  <2>2. PlacesOf(S) \in [S -> Nat] /\ IsFiniteSet(S) /\ Cardinality(S) \in Nat
    BY PlacesDiffer
  <2>3. Rank(S, PlacesOf(S), v[i]) = i - 1 /\ Rank(S, PlacesOf(S), w[i]) = i - 1
    BY <1>1, ListedRank
  <2>4. \A x, y \in S : PlacesOf(S)[x] < PlacesOf(S)[y]
                          => Rank(S, PlacesOf(S), x) < Rank(S, PlacesOf(S), y)
    BY <2>2, RankGrows
  <2>5. PlacesOf(S)[v[i]] = PlacesOf(S)[w[i]]
    BY <2>1, <2>2, <2>3, <2>4
  <2> QED
    BY <2>1, <2>5, PlacesDiffer
<1> QED
  BY <1>1, <1>2, <1>3

\* VectorOf is such a list.
LEMMA VectorLists ==
  ASSUME NEW S, OneEach(S)
  PROVE  Enumerates(VectorOf(S), S, Cardinality(S)) /\ Cardinality(S) \in Nat
<1> DEFINE n == Cardinality(S)
           key == PlacesOf(S)
           u == [i \in 1 .. n |-> CHOOSE x \in S : Rank(S, key, x) = i - 1]
<1>1. /\ IsFiniteSet(S) /\ n \in Nat /\ key \in [S -> Nat]
      /\ \A x, y \in S : key[x] = key[y] => x = y
      /\ \A x \in S : key[x] = Place(x.owner) /\ Place(x.owner) \in Nat
  BY PlacesDiffer
<1> HIDE DEF n, key
<1>2. \A k \in 0 .. n - 1 : \E x \in S : Rank(S, key, x) = k
  BY <1>1, RankIsOnto DEF n
<1>3. \A i \in 1 .. n : u[i] \in S /\ Rank(S, key, u[i]) = i - 1
  <2> SUFFICES ASSUME NEW i \in 1 .. n PROVE u[i] \in S /\ Rank(S, key, u[i]) = i - 1
    OBVIOUS
  <2>1. i - 1 \in 0 .. n - 1
    BY <1>1
  <2>2. \E x \in S : Rank(S, key, x) = i - 1
    BY <1>2, <2>1
  <2> QED
    BY <2>2
<1>4. u \in [1 .. n -> S]
  BY <1>3
<1> HIDE DEF u
<1>5. \A i, j \in 1 .. n : i < j => Precedes(u[i], u[j])
  <2> SUFFICES ASSUME NEW i \in 1 .. n, NEW j \in 1 .. n, i < j PROVE Precedes(u[i], u[j])
    OBVIOUS
  <2>1. u[i] \in S /\ u[j] \in S /\ Rank(S, key, u[i]) < Rank(S, key, u[j])
    BY <1>3
  <2>2. /\ Rank(S, key, u[i]) \in Nat /\ Rank(S, key, u[j]) \in Nat
        /\ key[u[j]] < key[u[i]] => Rank(S, key, u[j]) < Rank(S, key, u[i])
    BY <1>1, <2>1, RankGrows DEF n
  <2>3. key[u[i]] # key[u[j]]
    BY <1>1, <2>1, <2>2
  <2>4. key[u[i]] \in Nat /\ key[u[j]] \in Nat
    BY <1>1, <2>1
  <2>5. key[u[i]] < key[u[j]]
    BY <2>1, <2>2, <2>3, <2>4
  <2> QED
    BY <1>1, <2>1, <2>5 DEF Precedes
<1> DEFINE Ordered(v) == \A i, j \in DOMAIN v : i < j => Precedes(v[i], v[j])
<1>6. Ordered(u)
  BY <1>4, <1>5
<1> HIDE DEF Ordered
<1>7. VectorOf(S) = CHOOSE v \in [1 .. n -> S] : Ordered(v)
  BY Zenon DEF VectorOf, n, Ordered
<1> DEFINE v == VectorOf(S)
<1>8. v \in [1 .. n -> S] /\ Ordered(v)
  BY <1>4, <1>6, <1>7, Zenon
<1> HIDE DEF v
<1>9. \A i, j \in 1 .. n : i < j => Precedes(v[i], v[j])
  BY <1>8 DEF Ordered
<1>10. \A x \in S : \E i \in 1 .. n : v[i] = x
  <2>1. \A i, j \in 1 .. n : i < j => Place(v[i].owner) < Place(v[j].owner)
    BY <1>9 DEF Precedes
  <2>2. \A i \in 1 .. n : v[i] \in S /\ Place(v[i].owner) \in Nat
    BY <1>1, <1>8
  <2>3. \A i, j \in 1 .. n : v[i] = v[j] => i = j
    BY <1>1, <2>1, <2>2
  <2>4. v \in Injection(1 .. n, S)
    BY <1>8, <2>3 DEF Injection, IsInjective
  <2>5. Cardinality(1 .. n) = n /\ IsFiniteSet(1 .. n)
    BY <1>1, IntervalSize
  <2>6. v \in Surjection(1 .. n, S)
    BY <1>1, <2>4, <2>5, FS_Injection DEF n
  <2> QED
    BY <2>6 DEF Surjection
<1> QED
  BY <1>1, <1>8, <1>9, <1>10 DEF Enumerates, v, n

\* The facts about a vector: it is a sequence of the bonds of S, each at one place,
\* in order.
LEMMA VectorFacts ==
  ASSUME NEW S, OneEach(S)
  PROVE  LET v == VectorOf(S)
         IN  /\ v \in Seq(S) /\ Len(v) \in Nat /\ Len(v) = Cardinality(S)
             /\ DOMAIN v = 1 .. Len(v) /\ v \in [1 .. Len(v) -> S]
             /\ \A i \in 1 .. Len(v) : /\ v[i] \in S /\ v[i] \in Bond
                                       /\ v[i].owner \in Accounts /\ Place(v[i].owner) \in Nat
             /\ \A x \in S : \E i \in 1 .. Len(v) : v[i] = x
             /\ \A i, j \in 1 .. Len(v) : v[i].owner = v[j].owner => i = j
             /\ \A i, j \in 1 .. Len(v) : i < j => Place(v[i].owner) < Place(v[j].owner)
<1> DEFINE v == VectorOf(S)
           n == Cardinality(S)
<1>1. Enumerates(v, S, n) /\ n \in Nat
  BY VectorLists
<1> HIDE DEF v, n
<1>2. /\ v \in [1 .. n -> S] /\ \A x \in S : \E i \in 1 .. n : v[i] = x
      /\ \A i, j \in 1 .. n : i < j => Place(v[i].owner) < Place(v[j].owner)
  BY <1>1 DEF Enumerates, Precedes
<1>3. v \in Seq(S) /\ Len(v) = n /\ DOMAIN v = 1 .. n
  BY <1>1, <1>2, SeqDef
<1>4. \A i \in 1 .. n : /\ v[i] \in S /\ v[i] \in Bond
                        /\ v[i].owner \in Accounts /\ Place(v[i].owner) \in Nat
  <2>1. \A x \in S : x \in Bond /\ x.owner \in Accounts
    BY DEF OneEach, Bond
  <2>2. \A x \in S : Place(x.owner) \in Nat
    BY PlacesDiffer
  <2> QED
    BY <1>2, <2>1, <2>2
<1>5. \A i, j \in 1 .. n : v[i].owner = v[j].owner => i = j
  <2>1. \A i, j \in 1 .. n : v[i] = v[j] => i = j
    BY <1>1, ListedRank
  <2> QED
    BY <1>4, <2>1 DEF OneEach
<1> QED
  BY <1>1, <1>2, <1>3, <1>4, <1>5 DEF v, n

\* A sequence that lists S in order is its vector.
LEMMA VectorIs ==
  ASSUME NEW S, OneEach(S), NEW w \in Seq(S), \A x \in S : \E i \in 1 .. Len(w) : w[i] = x,
         \A i, j \in 1 .. Len(w) : i < j => Place(w[i].owner) < Place(w[j].owner)
  PROVE  w = VectorOf(S)
<1>1. Len(w) \in Nat /\ w \in [1 .. Len(w) -> S]
  BY LenProperties
<1>2. Enumerates(w, S, Len(w))
  BY <1>1 DEF Enumerates, Precedes
<1> QED
  BY <1>1, <1>2, VectorLists, ListedOneWay

----------------------------------------------------------------------------
(* What the methods do to the vectors.                                     *)

\* What contains finds: an owner of S.
LEMMA ContainsOwner ==
  ASSUME NEW S, OneEach(S), NEW x
  PROVE  contains(VectorOf(S), x) <=> \E y \in S : y.owner = x.owner
<1> DEFINE v == VectorOf(S)
<1>1. /\ DOMAIN v = 1 .. Len(v) /\ \A i \in 1 .. Len(v) : v[i] \in S
      /\ \A y \in S : \E i \in 1 .. Len(v) : v[i] = y
  BY VectorFacts
<1> HIDE DEF v
<1>2. contains(v, x) <=> \E i \in 1 .. Len(v) : v[i].owner = x.owner
  BY <1>1 DEF contains, Hits
<1> QED
  BY <1>1, <1>2 DEF v

\* insert puts a bond of a new owner in its place.
LEMMA InsertLists ==
  ASSUME NEW S, OneEach(S), NEW x \in Bond, \A y \in S : y.owner # x.owner
  PROVE  OneEach(S \cup {x}) /\ insert(VectorOf(S), x) = VectorOf(S \cup {x})
<1> DEFINE T == S \cup {x}
           v == VectorOf(S)
           n == Len(v)
           P == {i \in DOMAIN v : Precedes(v[i], x)}
           k == 1 + Cardinality(P)
           w == InsertAt(v, k, x)
<1>1. OneEach(T)
  BY DEF OneEach
<1>2. /\ v \in Seq(S) /\ n \in Nat /\ DOMAIN v = 1 .. n
      /\ \A i \in 1 .. n : v[i] \in S /\ Place(v[i].owner) \in Nat
      /\ \A y \in S : \E i \in 1 .. n : v[i] = y
      /\ \A i, j \in 1 .. n : i < j => Place(v[i].owner) < Place(v[j].owner)
  BY VectorFacts
<1>3. ~ contains(v, x)
  BY ContainsOwner
<1>4. insert(v, x) = w
  BY <1>3 DEF insert, Slot
<1> HIDE DEF v, n
<1>5. Place(x.owner) \in Nat /\ \A i \in 1 .. n : Place(v[i].owner) # Place(x.owner)
  <2>1. T \in SUBSET Bond /\ x \in T
    BY <1>1 DEF OneEach
  <2>2. \A y \in T : PlacesOf(T)[y] = Place(y.owner) /\ Place(y.owner) \in Nat
    BY <1>1, PlacesDiffer
  <2>3. \A y \in S : PlacesOf(T)[y] = PlacesOf(T)[x] => y = x
    BY <1>1, PlacesDiffer
  <2>4. \A i \in 1 .. n : v[i] \in S /\ v[i] \in T /\ v[i] # x
    BY <1>2
  <2> QED
    BY <2>1, <2>2, <2>3, <2>4
<1>6. P = 1 .. Cardinality(P) /\ Cardinality(P) \in 0 .. n
  <2>1. P \in SUBSET (1 .. n)
    BY <1>2
  <2>2. ASSUME NEW j \in P, NEW i \in 1 .. j PROVE i \in P
    <3>1. j \in 1 .. n /\ Place(v[j].owner) < Place(x.owner)
      BY <1>2, <2>2 DEF Precedes
    <3>2. i \in 1 .. n /\ (i < j \/ i = j)
      BY <1>2, <3>1
    <3>3. Place(v[i].owner) \in Nat /\ Place(v[j].owner) \in Nat /\ Place(x.owner) \in Nat
      BY <1>2, <1>5, <3>1, <3>2
    <3>4. Place(v[i].owner) < Place(v[j].owner) \/ i = j
      BY <1>2, <3>1, <3>2
    <3>5. Place(v[i].owner) < Place(x.owner)
      BY <3>1, <3>3, <3>4
    <3> QED
      BY <1>2, <3>2, <3>5 DEF Precedes
  <2> HIDE DEF P
  <2> QED
    BY <1>2, <2>1, <2>2, InitialSegment
<1>7. k \in 1 .. n + 1
  BY <1>2, <1>6
<1>8. \A i \in 1 .. n : IF i < k THEN Place(v[i].owner) < Place(x.owner)
                                 ELSE Place(x.owner) < Place(v[i].owner)
  <2> SUFFICES ASSUME NEW i \in 1 .. n
               PROVE  IF i < k THEN Place(v[i].owner) < Place(x.owner)
                               ELSE Place(x.owner) < Place(v[i].owner)
    OBVIOUS
  <2>1. i \in P <=> i < k
    <3> HIDE DEF P
    <3>1. i \in 1 .. Cardinality(P) <=> i < k
      BY <1>2, <1>6
    <3> QED
      BY <1>6, <3>1
  <2>2. i \in P <=> Place(v[i].owner) < Place(x.owner)
    BY <1>2 DEF Precedes
  <2>3. Place(v[i].owner) \in Nat /\ Place(v[i].owner) # Place(x.owner) /\ Place(x.owner) \in Nat
    BY <1>2, <1>5
  <2> QED
    BY <2>1, <2>2, <2>3
<1> HIDE DEF P, k
<1>9. /\ v \in Seq(T) /\ w \in Seq(T) /\ Len(w) = n + 1
      /\ \A j \in 1 .. n + 1 : w[j] = IF j < k THEN v[j] ELSE IF j = k THEN x ELSE v[j - 1]
  <2>1. v \in Seq(T)
    BY <1>2, SeqMonotonic
  <2>2. x \in T /\ k \in 1 .. Len(v) + 1 /\ n = Len(v)
    BY <1>7 DEF n
  <2> HIDE DEF T
  <2>3. InsertAt(v, k, x) \in Seq(T) /\ Len(InsertAt(v, k, x)) = Len(v) + 1
    BY <2>1, <2>2, InsertAtType
  <2>4. \A j \in 1 .. Len(v) + 1 :
          InsertAt(v, k, x)[j] = IF j < k THEN v[j] ELSE IF j = k THEN x ELSE v[j - 1]
    BY <2>1, <2>2, InsertAtPlaces
  <2> QED
    BY <2>1, <2>2, <2>3, <2>4
<1> HIDE DEF w
<1>10. ASSUME NEW y \in T PROVE \E j \in 1 .. Len(w) : w[j] = y
  <2>1. CASE y = x
    <3>1. k \in 1 .. n + 1 /\ ~ (k < k)
      BY <1>7
    <3>2. w[k] = x
      BY <1>9, <3>1
    <3> QED
      BY <1>9, <2>1, <3>1, <3>2
  <2>2. CASE y \in S
    <3>1. PICK i \in 1 .. n : v[i] = y
      BY <1>2, <2>2
    <3>2. CASE i < k
      <4>1. i \in 1 .. n + 1
        BY <1>2
      <4>2. w[i] = v[i]
        BY <1>9, <3>2, <4>1
      <4> QED
        BY <1>9, <3>1, <4>1, <4>2
    <3>3. CASE ~ (i < k)
      <4>1. i + 1 \in 1 .. n + 1 /\ ~ (i + 1 < k) /\ i + 1 # k /\ (i + 1) - 1 = i
        BY <1>2, <1>7, <3>3
      <4>2. w[i + 1] = v[i]
        BY <1>9, <4>1
      <4> QED
        BY <1>9, <3>1, <4>1, <4>2
    <3> QED
      BY <3>2, <3>3
  <2> QED
    BY <2>1, <2>2
<1>11. ASSUME NEW i \in 1 .. Len(w), NEW j \in 1 .. Len(w), i < j
       PROVE  Place(w[i].owner) < Place(w[j].owner)
  <2>0. i \in 1 .. n + 1 /\ j \in 1 .. n + 1 /\ k \in Nat /\ n \in Nat
    BY <1>2, <1>7, <1>9
  <2>1. CASE j < k
    <3>1. w[i] = v[i] /\ w[j] = v[j] /\ i \in 1 .. n /\ j \in 1 .. n
      BY <1>7, <1>9, <1>11, <2>0, <2>1
    <3> QED
      BY <1>2, <1>11, <3>1
  <2>2. CASE j = k
    <3>1. w[i] = v[i] /\ w[j] = x /\ i \in 1 .. n /\ i < k
      BY <1>7, <1>9, <1>11, <2>0, <2>2
    <3> QED
      BY <1>8, <3>1
  <2>3. CASE j > k
    <3>1. w[j] = v[j - 1] /\ j - 1 \in 1 .. n /\ ~ (j - 1 < k)
      BY <1>7, <1>9, <2>0, <2>3
    <3>2. CASE i < k
      <4>1. w[i] = v[i] /\ i \in 1 .. n /\ i < j - 1
        BY <1>7, <1>9, <2>0, <2>3, <3>2
      <4> QED
        BY <1>2, <3>1, <4>1
    <3>3. CASE i = k
      <4>1. w[i] = x
        BY <1>9, <2>0, <3>3
      <4>2. Place(x.owner) < Place(v[j - 1].owner)
        BY <1>8, <3>1
      <4> QED
        BY <3>1, <4>1, <4>2
    <3>4. CASE i > k
      <4>1. w[i] = v[i - 1] /\ i - 1 \in 1 .. n /\ i - 1 < j - 1
        BY <1>7, <1>9, <1>11, <2>0, <3>4
      <4> QED
        BY <1>2, <3>1, <4>1
    <3> QED
      BY <2>0, <3>2, <3>3, <3>4
  <2> QED
    BY <2>0, <2>1, <2>2, <2>3
<1> HIDE DEF T
<1>12. w = VectorOf(T)
  BY <1>1, <1>9, <1>10, <1>11, VectorIs
<1> QED
  BY <1>1, <1>4, <1>12 DEF T, v

\* remove takes out the bond of the owner it is given.
LEMMA RemoveLists ==
  ASSUME NEW S, OneEach(S), NEW x \in S, NEW q, q.owner = x.owner
  PROVE  OneEach(S \ {x}) /\ remove(VectorOf(S), q) = VectorOf(S \ {x})
<1> DEFINE T == S \ {x}
           v == VectorOf(S)
           n == Len(v)
<1>1. OneEach(T)
  BY DEF OneEach
<1>2. /\ v \in Seq(S) /\ n \in Nat /\ DOMAIN v = 1 .. n
      /\ \A i \in 1 .. n : v[i] \in S
      /\ \A y \in S : \E i \in 1 .. n : v[i] = y
      /\ \A i, j \in 1 .. n : v[i].owner = v[j].owner => i = j
      /\ \A i, j \in 1 .. n : i < j => Place(v[i].owner) < Place(v[j].owner)
  BY VectorFacts
<1>3. contains(v, q)
  BY ContainsOwner
<1> HIDE DEF v, n
<1>4. PICK k \in 1 .. n : v[k] = x
  BY <1>2
<1>5. Hits(v, q) = {k}
  BY <1>2, <1>4 DEF Hits
<1> DEFINE w == RemoveAt(v, k)
<1>6. remove(v, q) = w
  BY <1>3, <1>5 DEF remove
<1>7. /\ w \in Seq(S) /\ Len(w) = n - 1
      /\ \A j \in 1 .. n - 1 : w[j] = IF j < k THEN v[j] ELSE v[j + 1]
  <2>1. k \in 1 .. Len(v) /\ n = Len(v) /\ v \in Seq(S)
    BY <1>2, <1>4 DEF n
  <2>2. RemoveAt(v, k) \in Seq(S) /\ Len(RemoveAt(v, k)) = Len(v) - 1
    BY <2>1, RemoveAtType
  <2>3. \A j \in 1 .. Len(v) - 1 : RemoveAt(v, k)[j] = IF j < k THEN v[j] ELSE v[j + 1]
    BY <2>1, RemoveAtPlaces
  <2> QED
    BY <2>1, <2>2, <2>3
<1> HIDE DEF w
<1>8. w \in Seq(T)
  <2>1. ASSUME NEW j \in 1 .. n - 1 PROVE w[j] \in T
    <3>1. /\ j \in 1 .. n /\ j + 1 \in 1 .. n /\ j # j + 1
          /\ (j < k => j # k) /\ (~ (j < k) => j + 1 # k)
      BY <1>2, <1>4
    <3>2. PICK i \in 1 .. n : w[j] = v[i] /\ i # k
      BY <1>7, <3>1
    <3>3. v[i] \in S /\ v[i] # x
      BY <1>2, <1>4, <3>2
    <3> QED
      BY <3>2, <3>3
  <2>2. w \in [1 .. n - 1 -> S] /\ n - 1 \in Nat
    BY <1>2, <1>4, <1>7, LenProperties
  <2>3. w \in [1 .. n - 1 -> T]
    BY <2>1, <2>2
  <2> HIDE DEF T
  <2> QED
    BY <2>2, <2>3, SeqDef
<1>9. ASSUME NEW y \in T PROVE \E j \in 1 .. Len(w) : w[j] = y
  <2>1. PICK i \in 1 .. n : v[i] = y
    BY <1>2
  <2>2. i # k
    BY <1>4, <2>1
  <2>3. CASE i < k
    BY <1>2, <1>4, <1>7, <2>1, <2>3
  <2>4. CASE i > k
    <3>1. i - 1 \in 1 .. n - 1 /\ ~ (i - 1 < k) /\ (i - 1) + 1 = i
      BY <1>2, <1>4, <2>4
    <3>2. w[i - 1] = v[i]
      BY <1>7, <3>1
    <3> QED
      BY <1>7, <2>1, <3>1, <3>2
  <2> QED
    BY <1>2, <1>4, <2>2, <2>3, <2>4
<1>10. ASSUME NEW i \in 1 .. Len(w), NEW j \in 1 .. Len(w), i < j
       PROVE  Place(w[i].owner) < Place(w[j].owner)
  <2>0. /\ i \in 1 .. n - 1 /\ j \in 1 .. n - 1 /\ k \in 1 .. n /\ n \in Nat
        /\ i \in 1 .. n /\ i + 1 \in 1 .. n /\ j \in 1 .. n /\ j + 1 \in 1 .. n
        /\ i < j + 1 /\ i + 1 < j + 1
    BY <1>2, <1>4, <1>7, <1>10
  <2>1. CASE j < k
    <3>1. w[i] = v[i] /\ w[j] = v[j]
      BY <1>7, <1>10, <2>0, <2>1
    <3> QED
      BY <1>2, <1>10, <2>0, <3>1
  <2>2. CASE ~ (j < k) /\ i < k
    <3>1. w[i] = v[i] /\ w[j] = v[j + 1]
      BY <1>7, <2>0, <2>2
    <3> QED
      BY <1>2, <2>0, <3>1
  <2>3. CASE ~ (i < k)
    <3>1. ~ (j < k)
      BY <1>10, <2>0, <2>3
    <3>2. w[i] = v[i + 1] /\ w[j] = v[j + 1]
      BY <1>7, <2>0, <2>3, <3>1
    <3>3. Place(v[i + 1].owner) < Place(v[j + 1].owner)
      BY <1>2, <2>0
    <3> QED
      BY <3>2, <3>3
  <2> QED
    BY <2>1, <2>2, <2>3
<1> HIDE DEF T
<1>11. w = VectorOf(T)
  BY <1>1, <1>8, <1>9, <1>10, VectorIs
<1> QED
  BY <1>1, <1>6, <1>11 DEF T, v

\* A change of the amount in place is a change of the bond of that owner.
LEMMA ChangeLists ==
  ASSUME NEW S, OneEach(S), NEW x \in S, NEW y \in Bond, y.owner = x.owner,
         NEW T, T = (S \ {x}) \cup {y}
  PROVE  Changed(VectorOf(S), VectorOf(T), y)
<1> DEFINE v == VectorOf(S)
           n == Len(v)
<1>1. OneEach(T)
  BY DEF OneEach
<1>2. /\ v \in Seq(S) /\ n \in Nat /\ DOMAIN v = 1 .. n /\ v \in [1 .. n -> S]
      /\ \A i \in 1 .. n : v[i] \in S /\ v[i] \in Bond
      /\ \A z \in S : \E i \in 1 .. n : v[i] = z
      /\ \A i, j \in 1 .. n : v[i].owner = v[j].owner => i = j
      /\ \A i, j \in 1 .. n : i < j => Place(v[i].owner) < Place(v[j].owner)
  BY VectorFacts
<1> HIDE DEF v, n
<1>3. PICK k \in 1 .. n : v[k] = x
  BY <1>2
<1> DEFINE w == [v EXCEPT ![k].amount = y.amount]
<1>4. [x EXCEPT !.amount = y.amount] = y
  <2>1. x \in Bond
    BY DEF OneEach
  <2> QED
    BY <2>1 DEF Bond
<1>5. /\ DOMAIN w = 1 .. n /\ w[k] = y
      /\ \A i \in 1 .. n : i # k => w[i] = v[i]
      /\ \A i \in 1 .. n : w[i].owner = v[i].owner
  BY <1>2, <1>3, <1>4
<1>6. w \in [1 .. n -> T]
  <2>1. \A i \in 1 .. n : i # k => v[i] # x /\ v[i] \in S
    BY <1>2, <1>3
  <2>2. \A i \in 1 .. n : w[i] \in T
    BY <1>3, <1>5, <2>1
  <2> QED
    BY <1>2, <2>2
<1> HIDE DEF w
<1>7. w \in Seq(T) /\ Len(w) = n
  BY <1>2, <1>6, SeqDef
<1>8. ASSUME NEW z \in T PROVE \E i \in 1 .. Len(w) : w[i] = z
  <2>1. CASE z = y
    BY <1>3, <1>5, <1>7, <2>1
  <2>2. CASE z # y
    <3>1. z \in S /\ z # x
      BY <2>2
    <3>2. PICK i \in 1 .. n : v[i] = z
      BY <1>2, <3>1
    <3> QED
      BY <1>3, <1>5, <1>7, <3>1, <3>2
  <2> QED
    BY <2>1, <2>2
<1>9. \A i, j \in 1 .. Len(w) : i < j => Place(w[i].owner) < Place(w[j].owner)
  BY <1>2, <1>5, <1>7
<1>10. w = VectorOf(T)
  BY <1>1, <1>7, <1>8, <1>9, VectorIs
<1>11. k \in DOMAIN v /\ v[k].owner = y.owner
  BY <1>2, <1>3
<1> QED
  BY <1>10, <1>11 DEF Changed, w, v

\* The bonds of other owners, and their places in a vector
Others(S, c) == {y \in S : y.owner # c}
OtherPlaces(v, c) == {i \in DOMAIN v : v[i].owner # c}

\* from, of a vector without some owner, is the vector of the other bonds.
LEMMA FromLists ==
  ASSUME NEW S, OneEach(S), NEW c
  PROVE  from(VectorOf(S), OtherPlaces(VectorOf(S), c)) = VectorOf(Others(S, c))
<1> DEFINE v == VectorOf(S)
           R == Others(S, c)
           K == OtherPlaces(v, c)
           F == {i \in K : \A j \in K : j < i => v[j].owner # v[i].owner}
<1>1. /\ Len(v) \in Nat /\ DOMAIN v = 1 .. Len(v) /\ \A i \in 1 .. Len(v) : v[i] \in S
      /\ \A y \in S : \E i \in 1 .. Len(v) : v[i] = y
      /\ \A i, j \in 1 .. Len(v) : v[i].owner = v[j].owner => i = j
  BY VectorFacts
<1> HIDE DEF v
<1>0. K = {i \in DOMAIN v : v[i].owner # c}
  BY DEF OtherPlaces
<1>2. F = K
  BY <1>0, <1>1
<1>3. {v[i] : i \in K} = R
  <2> HIDE DEF K
  <2> QED
    BY <1>0, <1>1 DEF Others
<1> HIDE DEF K, R
<1>4. from(v, K) = VectorOf({v[i] : i \in F})
  BY Zenon DEF from
<1> HIDE DEF F
<1>5. from(v, K) = VectorOf(R)
  BY <1>2, <1>3, <1>4, Zenon
<1> QED
  BY <1>5 DEF v, K, R

\* from, of one bond.
LEMMA FromOne ==
  ASSUME NEW x
  PROVE  from(<<x>>, {1}) = VectorOf({x})
<1> DEFINE F == {i \in {1} : \A j \in {1} : j < i => <<x>>[j].owner # <<x>>[i].owner}
<1>1. F = {1}
  OBVIOUS
<1>2. {<<x>>[i] : i \in F} = {x}
  BY <1>1
<1>3. from(<<x>>, {1}) = VectorOf({<<x>>[i] : i \in F})
  BY Zenon DEF from
<1> QED
  BY <1>2, <1>3, Zenon

\* The vector of no bonds is empty, and no other.
LEMMA EmptyVector ==
  ASSUME NEW S, OneEach(S)
  PROVE  VectorOf(S) = <<>> <=> S = {}
<1> DEFINE v == VectorOf(S)
<1>1. /\ v \in Seq(S) /\ Len(v) \in Nat /\ DOMAIN v = 1 .. Len(v)
      /\ \A i \in 1 .. Len(v) : v[i] \in S
      /\ \A y \in S : \E i \in 1 .. Len(v) : v[i] = y
  BY VectorFacts
<1> HIDE DEF v
<1>2. v = <<>> <=> Len(v) = 0
  BY <1>1, EmptySeq
<1>3. S = {} <=> Len(v) = 0
  BY <1>1
<1> QED
  BY <1>2, <1>3 DEF v

----------------------------------------------------------------------------
(* The vector of the candidate pool.                                       *)

\* What a step may do to the pool by the entry of c
PoolEdit(c) ==
    \/ pool' = WithoutOwner(c)
    \/ can_insert(c) /\ pool' = pool \cup {PoolEntry(c, book'[c].counted)}
    \/ is_active(c) /\ pool' = update_active(c, book'[c].counted)

PoolEdited == pool' = pool \/ \E c \in Accounts : PoolEdit(c)

\* The refresh of the pool is one of these.
LEMMA RefreshEdits ==
  ASSUME TypeOK, NEW c \in Accounts, NEW b, book' = [book EXCEPT ![c] = b],
         pool' = pool_after(c, b) \/ pool' = IF is_active(c) THEN update_active(c, b.counted) ELSE pool
  PROVE  PoolEdited
<1>1. book'[c] = b
  BY DEF TypeOK
<1>2. pool' = pool \/ (is_active(c) /\ pool' = update_active(c, b.counted))
  <2>1. CASE pool' = pool_after(c, b)
    BY <2>1, Zenon DEF pool_after
  <2>2. CASE pool' = IF is_active(c) THEN update_active(c, b.counted) ELSE pool
    BY <2>2, Zenon
  <2> QED
    BY <2>1, <2>2
<1> QED
  BY <1>1, <1>2, Zenon DEF PoolEdit, PoolEdited

\* So is a new entry of c, which the book of c counts.
LEMMA EntryEdits ==
  ASSUME NEW c \in Accounts, NEW n, n = book'[c].counted, can_insert(c),
         pool' = pool \cup {PoolEntry(c, n)}
  PROVE  PoolEdited
  BY Zenon DEF PoolEdit, PoolEdited

\* What every step does to the pool
LEMMA StepEditsPool ==
  ASSUME TypeOK, [Next]_vars
  PROVE  PoolEdited
<1>1. pool' = pool => PoolEdited
  BY DEF PoolEdited
<1>2. \A c \in Accounts : pool' = WithoutOwner(c) => PoolEdited
  BY Zenon DEF PoolEdit, PoolEdited
<1>3. ASSUME NEW c \in Joiners PROVE join_candidates(c) \/ force_join_candidates(c) => PoolEdited
  <2> SUFFICES ASSUME join_candidates(c) PROVE PoolEdited
    BY DEF force_join_candidates
  <2>1. c \in Accounts /\ book' = [book EXCEPT ![c] = EmptyBook] /\ book \in [Accounts -> Book]
    BY StakingAssumption DEF join_candidates, TypeOK
  <2>2. book'[c].counted = 0
    BY <2>1 DEF EmptyBook
  <2>3. can_insert(c) /\ pool' = pool \cup {PoolEntry(c, 0)}
    BY DEF join_candidates
  <2> QED
    BY <2>1, <2>2, <2>3, EntryEdits
<1>4. \A c \in Accounts : CandidateStep(c) => PoolEdited
  <2> SUFFICES ASSUME NEW c \in Accounts PROVE CandidateStep(c) => PoolEdited
    OBVIOUS
  <2>1. schedule_leave_candidates(c) \/ go_offline(c) => PoolEdited
    BY <1>2 DEF schedule_leave_candidates, go_offline
  <2>2. cancel_leave_candidates(c) \/ go_online(c) => PoolEdited
    <3> SUFFICES ASSUME cancel_leave_candidates(c) \/ go_online(c) PROVE PoolEdited
      OBVIOUS
    <3>1. can_insert(c) /\ pool' = pool \cup {PoolEntry(c, book[c].counted)} /\ book' = book
      BY DEF cancel_leave_candidates, go_online
    <3> QED
      BY <3>1, EntryEdits
  <2>3. \A more : candidate_bond_more(c, more) => PoolEdited
    BY RefreshEdits DEF candidate_bond_more
  <2>4. execute_candidate_bond_less(c) => PoolEdited
    BY RefreshEdits DEF execute_candidate_bond_less
  <2>5. execute_leave_candidates(c) \/ cancel_candidate_bond_less(c) => PoolEdited
    BY <1>1 DEF execute_leave_candidates, cancel_candidate_bond_less
  <2>6. \A less : schedule_candidate_bond_less(c, less) => PoolEdited
    BY <1>1 DEF schedule_candidate_bond_less
  <2> QED
    BY <2>1, <2>2, <2>3, <2>4, <2>5, <2>6 DEF CandidateStep
<1>5. \A c, d \in Accounts : DelegatorStep(c, d) => PoolEdited
  <2> SUFFICES ASSUME NEW c \in Accounts, NEW d \in Accounts, DelegatorStep(c, d) PROVE PoolEdited
    OBVIOUS
  <2>1. \A more : delegator_bond_more(c, d, more) => PoolEdited
    BY RefreshEdits DEF delegator_bond_more
  <2>2. \A kind, amount : ScheduleRequest(c, d, kind, amount) => PoolEdited
    BY <1>1 DEF ScheduleRequest
  <2>3. cancel_delegation_request(c, d) => PoolEdited
    BY <1>1 DEF cancel_delegation_request
  <2>4. execute_revoke(c, d) => PoolEdited
    BY RefreshEdits DEF execute_revoke, delegator_leaves_candidate
  <2>5. execute_decrease(c, d) => PoolEdited
    BY RefreshEdits DEF execute_decrease
  <2> QED
    BY <2>1, <2>2, <2>3, <2>4, <2>5 DEF DelegatorStep, schedule_revoke_delegation, schedule_delegator_bond_less
<1>6. \A c \in Accounts : \A d, amount : delegate(c, d, amount) \/ delegate_kicking(c, d, amount) => PoolEdited
  <2>1. \A c \in Accounts : \A x : AddToCandidate(c, x) => PoolEdited
    BY RefreshEdits DEF AddToCandidate
  <2> QED
    BY <2>1 DEF delegate, delegate_kicking
<1>7. new_round \/ UNCHANGED vars => PoolEdited
  BY <1>1 DEF new_round, vars
<1> QED
  BY <1>3, <1>4, <1>5, <1>6, <1>7 DEF Next, LedgerExtrinsic

\* The pool has finitely many entries, one for each owner.
LEMMA PoolEntries ==
  ASSUME IInv
  PROVE  /\ IsFiniteSet(pool) /\ OneEach(pool)
         /\ \A q \in pool : q.owner \in Accounts /\ q.amount \in Nat
         /\ \A p, q \in pool : p.owner = q.owner => p = q
<1>1. pool \in SUBSET Bond /\ \A q \in pool : q.owner \in Accounts /\ q.amount \in Nat
  BY DEF IInv, TypeOK, Bond
<1>2. \A q \in pool : q = PoolEntry(q.owner, book[q.owner].counted)
  BY DEF IInv, PoolMatchesActive, PoolEntry
<1>3. \A p, q \in pool : p.owner = q.owner => p = q
  <2> SUFFICES ASSUME NEW p \in pool, NEW q \in pool, p.owner = q.owner PROVE p = q
    OBVIOUS
  <2>1. p = PoolEntry(p.owner, book[p.owner].counted) /\ q = PoolEntry(q.owner, book[q.owner].counted)
    BY <1>2
  <2> QED
    BY <2>1
<1>4. OneEach(pool)
  BY <1>1, <1>3 DEF OneEach
<1> QED
  BY <1>1, <1>3, <1>4, PlacesDiffer

\* Without the owner of one entry the pool is without that entry.
LEMMA PoolWithout ==
  ASSUME IInv, NEW q \in pool
  PROVE  /\ WithoutOwner(q.owner) = pool \ {q}
         /\ Cardinality(pool \ {q}) = Cardinality(pool) - 1 /\ Cardinality(pool) \in Nat
<1>1. WithoutOwner(q.owner) = pool \ {q}
  BY PoolEntries DEF WithoutOwner
<1>2. IsFiniteSet(pool) /\ Cardinality(pool) \in Nat
  BY PoolEntries, FS_CardinalityType
<1> QED
  BY <1>1, <1>2, FS_RemoveElement

\* An active candidate has its entry.
LEMMA ActiveEntry ==
  ASSUME IInv, NEW c \in Accounts, is_active(c)
  PROVE  \E q \in pool : q.owner = c
<1>1. PoolEntry(c, book[c].counted) \in pool
  BY DEF IInv, PoolMatchesActive
<1> QED
  BY <1>1 DEF PoolEntry

\* The pool is never over its capacity.
PoolFits == Cardinality(pool) <= MaxCandidates

\* No step takes the pool over its capacity: who is given a new entry has an old
\* one.
LEMMA PoolKeepsFitting ==
  ASSUME IInv, PoolFits, [Next]_vars
  PROVE  PoolFits'
<1>1. IsFiniteSet(pool) /\ Cardinality(pool) \in Nat /\ MaxCandidates \in Nat
  BY PoolEntries, FS_CardinalityType, StakingAssumption
<1>2. \A c : /\ WithoutOwner(c) \in SUBSET pool /\ IsFiniteSet(WithoutOwner(c))
             /\ Cardinality(WithoutOwner(c)) <= Cardinality(pool)
             /\ Cardinality(WithoutOwner(c)) \in Nat
  <2>1. \A c : WithoutOwner(c) \in SUBSET pool
    BY DEF WithoutOwner
  <2> QED
    BY <1>1, <2>1, FS_Subset, FS_CardinalityType
<1>3. \A S, e : IsFiniteSet(S) => \/ Cardinality(S \cup {e}) = Cardinality(S)
                                  \/ Cardinality(S \cup {e}) = Cardinality(S) + 1
  BY FS_AddElement
<1>4. ASSUME NEW c \in Accounts, PoolEdit(c) PROVE PoolFits'
  <2>1. CASE pool' = WithoutOwner(c)
    BY <1>1, <1>2, <2>1 DEF PoolFits
  <2>2. CASE can_insert(c) /\ pool' = pool \cup {PoolEntry(c, book'[c].counted)}
    <3>1. Cardinality(pool) < MaxCandidates
      BY <2>2 DEF can_insert
    <3>2. Cardinality(pool') = Cardinality(pool) \/ Cardinality(pool') = Cardinality(pool) + 1
      BY <1>1, <1>3, <2>2
    <3> QED
      BY <1>1, <3>1, <3>2 DEF PoolFits
  <2>3. CASE is_active(c) /\ pool' = update_active(c, book'[c].counted)
    <3>1. PICK q \in pool : q.owner = c
      BY <2>3, ActiveEntry
    <3>2. Cardinality(WithoutOwner(c)) = Cardinality(pool) - 1
      BY <3>1, PoolWithout
    <3>3. \/ Cardinality(pool') = Cardinality(WithoutOwner(c))
          \/ Cardinality(pool') = Cardinality(WithoutOwner(c)) + 1
      BY <1>2, <1>3, <2>3 DEF update_active
    <3> QED
      BY <1>1, <3>2, <3>3 DEF PoolFits
  <2> QED
    BY <1>4, <2>1, <2>2, <2>3 DEF PoolEdit
<1>5. TypeOK
  BY DEF IInv
<1>6. pool' = pool => PoolFits'
  BY DEF PoolFits
<1> QED
  BY <1>4, <1>5, <1>6, StepEditsPool DEF PoolEdited

\* The vector of the pool is changed as its methods say.
LEMMA PoolFollows ==
  ASSUME IInv, PoolFits, PoolEdited, TypeOK', poolVector(pool) # poolVector(pool')
  PROVE  \E c \in Accounts :
            LET x == PoolEntry(c, book'[c].counted)
            IN  \/ Inserted(poolVector(pool), poolVector(pool'), x)
                \/ Removed(poolVector(pool), poolVector(pool'), x)
                \/ Updated(poolVector(pool), poolVector(pool'), x)
<1>1. PICK c \in Accounts : PoolEdit(c)
  BY DEF PoolEdited
<1> DEFINE x == PoolEntry(c, book'[c].counted)
           v == VectorOf(pool)
           w == VectorOf(pool')
<1>2. x \in Bond /\ x.owner = c /\ PoolEntry(c, 0).owner = c
  BY DEF TypeOK, Book, PoolEntry, Bond
<1>3. v # w
  BY DEF poolVector
<1>4. /\ OneEach(pool) /\ Len(v) = Cardinality(pool) /\ Cardinality(pool) \in Nat
      /\ MaxCandidates \in Nat /\ Cardinality(pool) <= MaxCandidates
  BY PoolEntries, VectorFacts, StakingAssumption DEF PoolFits
<1>5. ASSUME NEW q \in pool, q.owner = c
      PROVE  /\ contains(v, x) /\ WithoutOwner(c) = pool \ {q}
             /\ OneEach(pool \ {q}) /\ remove(v, PoolEntry(c, 0)) = VectorOf(pool \ {q})
             /\ Len(VectorOf(pool \ {q})) < MaxCandidates
  <2>1. WithoutOwner(c) = pool \ {q} /\ Cardinality(pool \ {q}) = Cardinality(pool) - 1
    BY <1>5, PoolWithout
  <2>2. OneEach(pool \ {q}) /\ remove(v, PoolEntry(c, 0)) = VectorOf(pool \ {q})
    BY <1>2, <1>4, <1>5, RemoveLists
  <2>3. contains(v, x)
    BY <1>2, <1>4, <1>5, ContainsOwner
  <2>4. Len(VectorOf(pool \ {q})) = Cardinality(pool \ {q})
    BY <2>2, VectorFacts
  <2> QED
    BY <1>4, <2>1, <2>2, <2>3, <2>4
<1> HIDE DEF x, v
<1>6. CASE pool' = WithoutOwner(c)
  <2>1. PICK q \in pool : q.owner = c
    BY <1>3, <1>6 DEF WithoutOwner, v
  <2>2. Removed(v, w, x)
    BY <1>2, <1>5, <1>6, <2>1 DEF Removed
  <2> QED
    BY <2>2 DEF v, x, poolVector
<1>7. CASE can_insert(c) /\ pool' = pool \cup {x}
  <2>1. \A y \in pool : y.owner # x.owner
    BY <1>2, <1>7 DEF can_insert, WithoutOwner
  <2>2. ~ contains(v, x)
    BY <1>4, <2>1, ContainsOwner DEF v
  <2>3. insert(v, x) = w
    BY <1>2, <1>4, <1>7, <2>1, InsertLists DEF v
  <2>4. ~ (Len(v) >= MaxCandidates)
    BY <1>4, <1>7 DEF can_insert
  <2>5. Inserted(v, w, x)
    BY <2>2, <2>3, <2>4 DEF Inserted, try_insert_fails
  <2> QED
    BY <2>5 DEF v, x, poolVector
<1>8. CASE is_active(c) /\ pool' = WithoutOwner(c) \cup {x}
  <2>1. PICK q \in pool : q.owner = c
    BY <1>8, ActiveEntry
  <2>2. /\ OneEach(pool \ {q}) /\ remove(v, PoolEntry(c, 0)) = VectorOf(pool \ {q})
        /\ Len(VectorOf(pool \ {q})) < MaxCandidates
        /\ pool' = (pool \ {q}) \cup {x}
    BY <1>5, <1>8, <2>1
  <2>3. \A y \in pool \ {q} : y.owner # x.owner
    BY <1>2, <1>5, <2>1 DEF WithoutOwner
  <2>4. insert(VectorOf(pool \ {q}), x) = w
    BY <1>2, <2>2, <2>3, InsertLists
  <2>5. ~ (Len(VectorOf(pool \ {q})) >= MaxCandidates)
    <3>1. Len(VectorOf(pool \ {q})) \in Nat
      BY <2>2, VectorFacts
    <3> QED
      BY <1>4, <2>2, <3>1
  <2>6. Updated(v, w, x)
    BY <1>2, <2>2, <2>4, <2>5 DEF Updated, try_insert_fails
  <2> QED
    BY <2>6 DEF v, x, poolVector
<1> QED
  BY <1>1, <1>6, <1>7, <1>8 DEF PoolEdit, update_active, x

----------------------------------------------------------------------------
(* The vectors of the delegations.                                         *)

\* The bonds of an entry, and those with other candidates than c
BondsOf(st) == {PoolEntry(c, st.bonds[c]) : c \in Delegations(st)}
BondsBut(st, c) == {PoolEntry(e, st.bonds[e]) : e \in Delegations(st) \ {c}}

\* An entry has one bond for each candidate: the one with c, and the others.
LEMMA BondsOfEntry ==
  ASSUME NEW st \in Delegator, NEW c \in Accounts
  PROVE  /\ OneEach(BondsOf(st)) /\ OneEach(BondsBut(st, c))
         /\ \A y \in BondsBut(st, c) : y.owner # c
         /\ PoolEntry(c, st.bonds[c]) \in Bond /\ PoolEntry(c, st.bonds[c]).owner = c
         /\ st.bonds[c] \in Nat
         /\ BondsBut(st, c) = {y \in BondsOf(st) : y.owner # c}
         /\ st.bonds[c] = 0 => BondsOf(st) = BondsBut(st, c)
         /\ st.bonds[c] > 0 => /\ BondsOf(st) = BondsBut(st, c) \cup {PoolEntry(c, st.bonds[c])}
                               /\ BondsBut(st, c) = BondsOf(st) \ {PoolEntry(c, st.bonds[c])}
<1>1. \A e \in Accounts : st.bonds[e] \in Nat
  BY DEF Delegator
<1>2. \A e, n : PoolEntry(e, n).owner = e
  BY DEF PoolEntry
<1>3. \A e \in Accounts : PoolEntry(e, st.bonds[e]) \in Bond
  BY <1>1 DEF PoolEntry, Bond
<1>4. \A y \in BondsOf(st) : /\ y.owner \in Accounts /\ st.bonds[y.owner] > 0
                             /\ y = PoolEntry(y.owner, st.bonds[y.owner])
  BY <1>2 DEF BondsOf, Delegations
<1>5. \A e \in Accounts : st.bonds[e] > 0 => PoolEntry(e, st.bonds[e]) \in BondsOf(st)
  BY DEF BondsOf, Delegations
<1>6. BondsBut(st, c) = {y \in BondsOf(st) : y.owner # c}
  BY <1>2 DEF BondsBut, BondsOf
<1>7. OneEach(BondsOf(st))
  <2>1. BondsOf(st) \in SUBSET Bond
    BY <1>3, <1>4
  <2>2. \A x, y \in BondsOf(st) : x.owner = y.owner => x = y
    BY <1>4, Zenon
  <2> QED
    BY <2>1, <2>2 DEF OneEach
<1>8. OneEach(BondsBut(st, c))
  BY <1>6, <1>7 DEF OneEach
<1>9. st.bonds[c] = 0 => \A y \in BondsOf(st) : y.owner # c
  BY <1>1, <1>4
<1>10. st.bonds[c] > 0 => \A y \in BondsOf(st) : y.owner = c <=> y = PoolEntry(c, st.bonds[c])
  BY <1>2, <1>4
<1> QED
  BY <1>1, <1>2, <1>3, <1>5, <1>6, <1>7, <1>8, <1>9, <1>10

\* An entry that changes in its delegation to c has its vector changed as the
\* methods say.
LEMMA EntryFollows ==
  ASSUME NEW st \in Delegator, NEW nu \in Delegator, NEW c \in Accounts,
         \A e \in Accounts \ {c} : nu.bonds[e] = st.bonds[e],
         NEW v, v = delegationVector(st), NEW w, w = delegationVector(nu), v # w,
         NEW x, x = PoolEntry(c, nu.bonds[c])
  PROVE  Created(v, w, x) \/ Added(v, w, x) \/ Dropped(v, w, x) \/ Changed(v, w, x)
<1> DEFINE S == BondsOf(st)
           T == BondsOf(nu)
           R == BondsBut(st, c)
           old == PoolEntry(c, st.bonds[c])
<1>1. v = VectorOf(S) /\ w = VectorOf(T)
  BY DEF delegationVector, BondsOf
<1>2. BondsBut(nu, c) = R
  BY DEF BondsBut, Delegations
<1>3. /\ OneEach(S) /\ OneEach(R) /\ (\A y \in R : y.owner # c)
      /\ old \in Bond /\ old.owner = c /\ st.bonds[c] \in Nat
      /\ R = {y \in S : y.owner # c}
      /\ st.bonds[c] = 0 => S = R
      /\ st.bonds[c] > 0 => S = R \cup {old} /\ R = S \ {old}
  BY BondsOfEntry
<1>4. /\ OneEach(T) /\ x \in Bond /\ x.owner = c /\ nu.bonds[c] \in Nat
      /\ nu.bonds[c] = 0 => T = R
      /\ nu.bonds[c] > 0 => T = R \cup {x}
  BY <1>2, BondsOfEntry
<1> HIDE DEF S, T, R, old
<1>5. CASE st.bonds[c] = 0 /\ nu.bonds[c] = 0
  BY <1>1, <1>3, <1>4, <1>5
<1>6. CASE st.bonds[c] = 0 /\ nu.bonds[c] > 0
  <2>1. S = R /\ T = R \cup {x} /\ \A y \in S : y.owner # x.owner
    BY <1>3, <1>4, <1>6
  <2>2. CASE v = <<>>
    <3>1. S = {}
      BY <1>1, <1>3, <2>2, EmptyVector
    <3>2. T = {x}
      BY <2>1, <3>1
    <3>3. Created(v, w, x)
      BY <1>1, <2>2, <3>2, FromOne DEF Created
    <3> QED
      BY <3>3
  <2>3. CASE v # <<>>
    <3>1. ~ contains(v, x)
      BY <1>1, <1>3, <2>1, ContainsOwner
    <3>2. insert(v, x) = w
      BY <1>1, <1>3, <1>4, <2>1, InsertLists
    <3>3. Added(v, w, x)
      BY <2>3, <3>1, <3>2 DEF Added
    <3> QED
      BY <3>3
  <2> QED
    BY <2>2, <2>3
<1>7. CASE st.bonds[c] > 0 /\ nu.bonds[c] = 0
  <2>1. old \in S /\ T = R
    BY <1>3, <1>4, <1>7
  <2>2. contains(v, x)
    BY <1>1, <1>3, <1>4, <2>1, ContainsOwner
  <2>3. from(VectorOf(S), OtherPlaces(VectorOf(S), c)) = VectorOf(Others(S, c))
    BY <1>3, FromLists
  <2>4. w = from(v, OtherPlaces(v, c))
    BY <1>1, <1>3, <2>1, <2>3 DEF Others
  <2>5. Dropped(v, w, x)
    BY <1>4, <2>2, <2>4 DEF Dropped, OtherPlaces
  <2> QED
    BY <2>5
<1>8. CASE st.bonds[c] > 0 /\ nu.bonds[c] > 0
  <2>1. old \in S /\ T = (S \ {old}) \cup {x} /\ x.owner = old.owner
    BY <1>3, <1>4, <1>8
  <2>2. Changed(v, w, x)
    BY <1>1, <1>3, <1>4, <2>1, ChangeLists
  <2> QED
    BY <2>2
<1> QED
  BY <1>3, <1>4, <1>5, <1>6, <1>7, <1>8

\* What every step does to the delegations: those to other candidates than c stay.
OthersStay(c) ==
    \A d \in Accounts : \A e \in Accounts \ {c} :
        delegatorState'[d].bonds[e] = delegatorState[d].bonds[e]

\* An entry that loses its delegation to c, and goes when it was the only one, has
\* the others still.
LEMMA OthersKept ==
  ASSUME TypeOK, LedgerInv, NEW c \in Accounts, NEW k \in Accounts, delegatorState[k].bonds[c] > 0
  PROVE  \A e \in Accounts \ {c} : /\ kicked_state(k, c).bonds[e] = delegatorState[k].bonds[e]
                                   /\ returned_state(k, c).bonds[e] = delegatorState[k].bonds[e]
<1> DEFINE q == RequestsOf(k)
           p == [q EXCEPT ![c] = NoRequest]
<1>1. q \in [Accounts -> Request] /\ NoRequest \in Request
  BY LedgerTypes, EmptyTypes
<1> HIDE DEF q
<1>2. /\ p \in [Accounts -> Request] /\ p[c] = NoRequest /\ \A a \in Accounts \ {c} : p[a] = q[a]
  BY <1>1
<1> HIDE DEF p
<1>3. LET r == kicked_state(k, c)
      IN  /\ r \in Delegator /\ EntryOK(r, p) /\ r.bonds[c] = 0
          /\ \A a \in Accounts \ {c} : r.bonds[a] = delegatorState[k].bonds[a]
          /\ r.total + delegatorState[k].bonds[c] = delegatorState[k].total
  BY <1>2, EntryKicked DEF q
<1>4. LET r == returned_state(k, c)
      IN  /\ r \in Delegator /\ EntryOK(r, p) /\ r.bonds[c] = 0
          /\ \A a \in Accounts \ {c} : r.bonds[a] = delegatorState[k].bonds[a]
          /\ r.total + delegatorState[k].bonds[c] = delegatorState[k].total
  BY <1>2, EntryReturned DEF q
<1> QED
  BY <1>3, <1>4

\* delegate, and the delegation a kick makes room for
LEMMA AddedStays ==
  ASSUME TypeOK, NEW c \in Accounts, NEW d \in Accounts, NEW amount
  PROVE  \A e \in Accounts \ {c} : added_state(d, c, amount).bonds[e] = delegatorState[d].bonds[e]
  BY DEF TypeOK, Delegator, added_state

\* delegate_kicking
LEMMA KickingStays ==
  ASSUME IInv, LedgerInv, NEW c \in Accounts, NEW d \in Accounts,
         NEW amount \in Amounts, delegate_kicking(c, d, amount)
  PROVE  OthersStay(c)
<1> DEFINE x == [owner |-> d, amount |-> amount]
<1>1. TypeOK
  BY DEF IInv
<1>2. CanDelegate(c, d, amount)
  BY DEF delegate_kicking
<1>3. /\ delegatorState[d].bonds[c] = 0 /\ can_add_delegation(book[c], x) /\ x \in Bond
  BY <1>1, <1>2, CanDelegateSays
<1>4. PICK kicked \in KickedBy(book[c], x) :
         delegatorState' = [delegatorState EXCEPT ![kicked.owner] = kicked_state(kicked.owner, c),
                                                  ![d] = added_state(d, c, amount)]
  BY DEF delegate_kicking
<1> DEFINE k == kicked.owner
           s == kicked_state(k, c)
           r == added_state(d, c, amount)
<1>5. /\ GoodBook(book[c]) /\ Arranged(book[c]) /\ HeldBy(book[c], BondsTo(c))
  BY BookSays
<1>6. x.owner = d
  OBVIOUS
<1> HIDE DEF x
<1>7. k # d /\ k \in Accounts /\ delegatorState[k].bonds[c] > 0
  <2>1. BondsTo(c)[x.owner] = 0
    BY <1>3, <1>6 DEF BondsTo
  <2>2. k # x.owner /\ k \in Accounts /\ BondsTo(c)[k] > 0
    BY <1>3, <1>5, <2>1, KickedOwner
  <2> QED
    BY <1>6, <2>2 DEF BondsTo
<1>8. /\ delegatorState'[d] = r /\ delegatorState'[k] = s
      /\ \A e \in Accounts \ {d, k} : delegatorState'[e] = delegatorState[e]
  <2>1. delegatorState' = [delegatorState EXCEPT ![k] = s, ![d] = r]
    BY <1>4
  <2>2. delegatorState \in [Accounts -> Delegator]
    BY <1>1 DEF TypeOK
  <2> HIDE DEF k, s, r
  <2> QED
    BY <1>7, <2>1, <2>2
<1>9. \A e \in Accounts \ {c} : s.bonds[e] = delegatorState[k].bonds[e]
  BY <1>1, <1>7, OthersKept
<1>10. \A e \in Accounts \ {c} : r.bonds[e] = delegatorState[d].bonds[e]
  BY <1>1, AddedStays
<1> HIDE DEF k, s, r
<1> QED
  BY <1>7, <1>8, <1>9, <1>10 DEF OthersStay

\* The calls of one delegator
LEMMA DelegatorStays ==
  ASSUME IInv, LedgerInv, NEW c \in Accounts, NEW d \in Accounts, DelegatorStep(c, d)
  PROVE  OthersStay(c)
<1>1. /\ TypeOK /\ delegatorState \in [Accounts -> Delegator]
      /\ delegatorState[d] \in Delegator /\ delegatorState[d].bonds \in [Accounts -> Nat]
  BY DEF IInv, TypeOK, Delegator
<1> DEFINE st == delegatorState[d]
<1>2. \A f, n : f = [st EXCEPT !.lessTotal = n] => f.bonds = st.bonds
  BY <1>1 DEF Delegator
<1>3. \A f, n, t, l : f = [st EXCEPT !.bonds[c] = n, !.total = t] \/
                      f = [st EXCEPT !.bonds[c] = n, !.total = t, !.lessTotal = l] =>
         \A e \in Accounts \ {c} : f.bonds[e] = st.bonds[e]
  BY <1>1 DEF Delegator
<1>4. \A kind, amount : ScheduleRequest(c, d, kind, amount) => OthersStay(c)
  <2> SUFFICES ASSUME NEW kind, NEW amount, ScheduleRequest(c, d, kind, amount) PROVE OthersStay(c)
    OBVIOUS
  <2>1. delegatorState' = [delegatorState EXCEPT ![d] = [st EXCEPT !.lessTotal = @ + amount]]
    BY DEF ScheduleRequest
  <2> QED
    BY <1>1, <1>2, <2>1 DEF OthersStay
<1>5. cancel_delegation_request(c, d) => OthersStay(c)
  <2> SUFFICES ASSUME cancel_delegation_request(c, d) PROVE OthersStay(c)
    OBVIOUS
  <2>1. delegatorState' = [delegatorState EXCEPT ![d] =
                              [st EXCEPT !.lessTotal = SatSub(@, requests[c][d].amount)]]
    BY DEF cancel_delegation_request
  <2> QED
    BY <1>1, <1>2, <2>1 DEF OthersStay
<1>6. \A more : delegator_bond_more(c, d, more) => OthersStay(c)
  <2> SUFFICES ASSUME NEW more, delegator_bond_more(c, d, more) PROVE OthersStay(c)
    OBVIOUS
  <2> DEFINE n == st.bonds[c] + more
             t == st.total + more
             f == [st EXCEPT !.bonds[c] = n, !.total = t]
  <2>1. delegatorState' = [delegatorState EXCEPT ![d] = f]
    BY Zenon DEF delegator_bond_more
  <2> HIDE DEF n, t
  <2>2. \A e \in Accounts \ {c} : f.bonds[e] = st.bonds[e]
    BY <1>3, Zenon
  <2> HIDE DEF f
  <2> QED
    BY <1>1, <2>1, <2>2 DEF OthersStay
<1>7. execute_decrease(c, d) => OthersStay(c)
  <2> SUFFICES ASSUME execute_decrease(c, d) PROVE OthersStay(c)
    OBVIOUS
  <2> DEFINE less == requests[c][d].amount
             n == SatSub(st.bonds[c], less)
             t == SatSub(st.total, less)
             l == SatSub(st.lessTotal, less)
             f == [st EXCEPT !.bonds[c] = n, !.total = t, !.lessTotal = l]
  <2>1. delegatorState' = [delegatorState EXCEPT ![d] = f]
    BY Zenon DEF execute_decrease
  <2> HIDE DEF n, t, l
  <2>2. \A e \in Accounts \ {c} : f.bonds[e] = st.bonds[e]
    BY <1>3, Zenon
  <2> HIDE DEF f
  <2> QED
    BY <1>1, <2>1, <2>2 DEF OthersStay
<1>8. execute_revoke(c, d) => OthersStay(c)
  <2> SUFFICES ASSUME execute_revoke(c, d) PROVE OthersStay(c)
    OBVIOUS
  <2>1. delegatorState' = [delegatorState EXCEPT ![d] = kicked_state(d, c)]
    BY Zenon DEF execute_revoke, kicked_state
  <2>2. delegatorState[d].bonds[c] > 0
    <3>1. EntryOK(st, RequestsOf(d)) /\ RequestsOf(d)[c] = requests[c][d] /\ requests[c][d].kind = "revoke"
      BY <1>1, LedgerTypes DEF LedgerInv, EntryRecorded, execute_revoke
    <3>2. Fits(st.bonds[c], requests[c][d])
      BY <3>1 DEF EntryOK
    <3> QED
      BY <3>1, <3>2 DEF Fits
  <2>3. \A e \in Accounts \ {c} : kicked_state(d, c).bonds[e] = st.bonds[e]
    BY <1>1, <2>2, OthersKept
  <2> QED
    BY <1>1, <2>1, <2>3 DEF OthersStay
<1> QED
  BY <1>4, <1>5, <1>6, <1>7, <1>8 DEF DelegatorStep, schedule_revoke_delegation, schedule_delegator_bond_less

\* Every step leaves all delegations but those to one candidate alone.
LEMMA StepOthersStay ==
  ASSUME IInv, LedgerInv, [Next]_vars, Accounts # {}
  PROVE  \E c \in Accounts : OthersStay(c)
<1>1. TypeOK
  BY DEF IInv
<1>2. delegatorState' = delegatorState => \A c : OthersStay(c)
  BY DEF OthersStay
<1>3. ASSUME NEW c \in Joiners, join_candidates(c) \/ force_join_candidates(c)
      PROVE  \E a \in Accounts : OthersStay(a)
  BY <1>2, <1>3 DEF join_candidates, force_join_candidates
<1>4. ASSUME NEW c \in Accounts, CandidateStep(c) PROVE OthersStay(c)
  <2>1. execute_leave_candidates(c) => OthersStay(c)
    <3> SUFFICES ASSUME execute_leave_candidates(c) PROVE OthersStay(c)
      OBVIOUS
    <3> DEFINE owners == {d \in Owners(book[c].top) \cup Owners(book[c].bottom) : delegatorState[d].bonds[c] > 0}
    <3>1. delegatorState' = [a \in Accounts |->
                               IF a \in owners THEN returned_state(a, c) ELSE delegatorState[a]]
      BY DEF execute_leave_candidates
    <3>2. \A a \in owners : delegatorState[a].bonds[c] > 0
      OBVIOUS
    <3> HIDE DEF owners
    <3>3. ASSUME NEW d \in Accounts, NEW e \in Accounts \ {c}
          PROVE  delegatorState'[d].bonds[e] = delegatorState[d].bonds[e]
      <4>1. CASE d \in owners
        BY <1>1, <3>1, <3>2, <4>1, OthersKept
      <4>2. CASE d \notin owners
        BY <3>1, <4>2
      <4> QED
        BY <4>1, <4>2
    <3> QED
      BY <3>3 DEF OthersStay
  <2>2. (schedule_leave_candidates(c) \/ cancel_leave_candidates(c) \/ go_offline(c)
           \/ go_online(c) \/ cancel_candidate_bond_less(c)) => OthersStay(c)
    BY <1>2 DEF schedule_leave_candidates, cancel_leave_candidates, go_offline, go_online,
                cancel_candidate_bond_less
  <2>3. \A n : schedule_candidate_bond_less(c, n) \/ candidate_bond_more(c, n) => OthersStay(c)
    BY <1>2 DEF schedule_candidate_bond_less, candidate_bond_more
  <2>4. execute_candidate_bond_less(c) => OthersStay(c)
    BY <1>2 DEF execute_candidate_bond_less
  <2> QED
    BY <1>4, <2>1, <2>2, <2>3, <2>4 DEF CandidateStep
<1>5. ASSUME NEW c \in Accounts, NEW d \in Accounts, NEW amount \in Amounts,
             delegate(c, d, amount) \/ delegate_kicking(c, d, amount)
      PROVE  OthersStay(c)
  <2>1. CASE delegate(c, d, amount)
    <3>1. delegatorState' = [delegatorState EXCEPT ![d] = added_state(d, c, amount)]
      BY <2>1 DEF delegate
    <3>2. \A e \in Accounts \ {c} :
             added_state(d, c, amount).bonds[e] = delegatorState[d].bonds[e]
      BY <1>1, AddedStays
    <3> QED
      BY <1>1, <3>1, <3>2 DEF TypeOK, OthersStay
  <2>2. CASE delegate_kicking(c, d, amount)
    BY <2>2, KickingStays
  <2> QED
    BY <1>5, <2>1, <2>2
<1>6. ASSUME NEW c \in Accounts, NEW d \in Accounts, DelegatorStep(c, d) PROVE OthersStay(c)
  BY <1>6, DelegatorStays
<1>7. CASE new_round \/ UNCHANGED vars
  BY <1>2, <1>7 DEF new_round, vars
<1>8. Backers \subseteq Accounts
  BY StakingAssumption
<1> QED
  BY <1>3, <1>4, <1>5, <1>6, <1>7, <1>8 DEF Next, LedgerExtrinsic

\* The genesis candidates fit into the pool.
LEMMA PoolFitsAtFirst == Init => PoolFits
<1> SUFFICES ASSUME Init PROVE PoolFits
  OBVIOUS
<1> DEFINE f == [q \in pool |-> q.owner]
<1>1. pool = {PoolEntry(c, 0) : c \in GenesisCandidates}
  BY DEF Init, PoolEntry
<1>2. f \in Injection(pool, GenesisCandidates)
  <2>1. \A q \in pool : q = PoolEntry(q.owner, 0) /\ q.owner \in GenesisCandidates
    BY <1>1 DEF PoolEntry
  <2>2. f \in [pool -> GenesisCandidates] /\ \A p, q \in pool : f[p] = f[q] => p = q
    BY <2>1
  <2> HIDE DEF f
  <2> QED
    BY <2>2 DEF Injection, IsInjective
<1> HIDE DEF f
<1>3. IsFiniteSet(GenesisCandidates)
  BY AccountsAssumption, StakingAssumption, FS_Subset
<1>4. IsFiniteSet(pool) /\ Cardinality(pool) <= Cardinality(GenesisCandidates)
  BY <1>2, <1>3, FS_Injection
<1>5. Cardinality(pool) \in Nat /\ Cardinality(GenesisCandidates) \in Nat
  BY <1>3, <1>4, FS_CardinalityType
<1> QED
  BY <1>4, <1>5, GenesisAssumption, StakingAssumption DEF PoolFits

\* The pool holds its capacity in every reachable state.
LEMMA PoolAlwaysFits == Spec => []PoolFits
<1>1. IInv /\ PoolFits /\ [Next]_vars => PoolFits'
  BY PoolKeepsFitting
<1> QED
  BY <1>1, PoolFitsAtFirst, Invariance, PTL DEF Spec

\* What a step does to the two sets
LEMMA StepFollows ==
  ASSUME IInv, LedgerInv, PoolFits, [Next]_vars
  PROVE  SetsFollow
<1>1. TypeOK /\ TypeOK'
  BY NextIInv DEF IInv
<1>2. PoolEdited
  BY <1>1, StepEditsPool
<1>3. poolVector(pool) # poolVector(pool') =>
         \E c \in Accounts :
            LET x == PoolEntry(c, book'[c].counted)
            IN  \/ Inserted(poolVector(pool), poolVector(pool'), x)
                \/ Removed(poolVector(pool), poolVector(pool'), x)
                \/ Updated(poolVector(pool), poolVector(pool'), x)
  BY <1>1, <1>2, PoolFollows
<1>4. ASSUME NEW d \in Accounts
      PROVE  LET v == delegationVector(delegatorState[d])
                 w == delegationVector(delegatorState'[d])
             IN  v # w => \E c \in Accounts :
                             LET x == PoolEntry(c, delegatorState'[d].bonds[c])
                             IN  \/ Created(v, w, x) \/ Added(v, w, x)
                                 \/ Dropped(v, w, x) \/ Changed(v, w, x)
  <2> DEFINE v == delegationVector(delegatorState[d])
             w == delegationVector(delegatorState'[d])
             Did(x) == Created(v, w, x) \/ Added(v, w, x) \/ Dropped(v, w, x) \/ Changed(v, w, x)
  <2>1. delegatorState[d] \in Delegator /\ delegatorState'[d] \in Delegator
    BY <1>1 DEF TypeOK
  <2>2. PICK c \in Accounts : OthersStay(c)
    BY StepOthersStay
  <2>3. \A e \in Accounts \ {c} : delegatorState'[d].bonds[e] = delegatorState[d].bonds[e]
    BY <2>2 DEF OthersStay
  <2>4. v # w => Did(PoolEntry(c, delegatorState'[d].bonds[c]))
    BY <2>1, <2>3, EntryFollows
  <2> HIDE DEF v, w, Did
  <2>5. v # w => \E a \in Accounts : Did(PoolEntry(a, delegatorState'[d].bonds[a]))
    BY <2>4
  <2> QED
    BY <2>5 DEF v, w, Did
<1> QED
  BY <1>3, <1>4, Zenon DEF SetsFollow

\* Every call changes the ordered sets as their methods change the vectors: a
\* sorted vector stays sorted with one bond per owner, a search finds what it must,
\* and update_active has room.
THEOREM SetsCorrect == Spec => SetsFollowVectors
<1>1. IInv /\ LedgerInv /\ PoolFits /\ [Next]_vars => [SetsFollow]_vars
  BY StepFollows
<1> QED
  BY <1>1, PoolAlwaysFits, LedgerInvariance, Invariance, PTL DEF Spec, SetsFollowVectors
=============================================================================
