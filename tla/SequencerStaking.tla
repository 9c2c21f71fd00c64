-------------------------- MODULE SequencerStaking --------------------------
(***************************************************************************)
(* The staking ledger of pallet sequencer-staking: candidates, delegators, *)
(* their scheduled requests, the candidate pool and the BTC they lock.     *)
(* One action per extrinsic of lib.rs; delegation_requests.rs and types.rs *)
(* hold what the extrinsics call.                                          *)
(*                                                                         *)
(* Extrinsics are transactional: a call that returns an error changes      *)
(* nothing, so its conditions are the guard of the action and the failing  *)
(* call is a stuttering step. The weight hints (candidate_count and the    *)
(* like) are arguments the caller is free to choose large enough; they     *)
(* restrict nothing and are left out.                                      *)
(***************************************************************************)
EXTENDS CandidateBook

CONSTANTS
    Amounts,                     \* amounts a call may carry
    InitialBtc,                  \* the BTC each account starts with
    MaxRound,                    \* bound on the rounds explored
    GenesisCandidates,           \* candidates of the genesis configuration
    Joiners,                     \* accounts that may ask to join the candidates
    Backers,                     \* accounts that may ask to delegate
    MaxCandidates,               \* capacity of the candidate pool
    MinDelegation,
    MaxDelegationsPerDelegator,
    LeaveCandidatesDelay,
    CandidateBondLessDelay,
    RevokeDelegationDelay

\* There are finitely many account ids.
ASSUME AccountsAssumption == IsFiniteSet(Accounts)

ASSUME StakingAssumption ==
    /\ Amounts \subseteq Nat \ {0}
    /\ InitialBtc \in [Accounts -> Nat]
    /\ MaxRound \in Nat \ {0}
    /\ GenesisCandidates \subseteq Accounts
    /\ Joiners \subseteq Accounts /\ Backers \subseteq Accounts
    /\ MaxCandidates \in Nat
    /\ MinDelegation \in Nat \ {0}
    /\ MaxDelegationsPerDelegator \in Nat
    /\ LeaveCandidatesDelay \in Nat /\ CandidateBondLessDelay \in Nat
    /\ RevokeDelegationDelay \in Nat

\* The genesis candidates join one by one, while the pool has room.
ASSUME GenesisAssumption == Cardinality(GenesisCandidates) <= MaxCandidates

VARIABLES
    round,            \* Round.current
    candidateInfo,    \* CandidateInfo: status, exit round, pending bond-less request
    book,             \* the rest of CandidateInfo, TopDelegations, BottomDelegations
    pool,             \* CandidatePool
    delegatorState,   \* DelegatorState
    requests,         \* DelegationScheduledRequests, by candidate and delegator
    total,            \* Total
    locks,            \* accounts whose native stake carries SEQUENCER_LOCK_ID
    wallet,           \* free BTC of every account
    palletBtc         \* BTC held by the pallet's account

vars == <<round, candidateInfo, book, pool, delegatorState, requests, total,
          locks, wallet, palletBtc>>

----------------------------------------------------------------------------
(* Storage values.                                                         *)

\* ScheduledRequest and CandidateBondLessRequest; "none" is an absent entry.
Request == [kind : {"none", "revoke", "decrease"}, amount : Nat, at : Nat]
NoRequest == [kind |-> "none", amount |-> 0, at |-> 0]

\* A candidate's status; "none" when CandidateInfo has no entry.
Candidate == [status : {"none", "active", "idle", "leaving"}, leaveAt : Nat,
              request : Request]
NoCandidate == [status |-> "none", leaveAt |-> 0, request |-> NoRequest]
NewCandidate == [NoCandidate EXCEPT !.status = "active"]

\* A delegator's bonds by candidate, 0 for none: MinDelegation is positive.
Delegator == [present : BOOLEAN, bonds : [Accounts -> Nat], total : Nat, lessTotal : Nat]
NoDelegator == [present |-> FALSE, bonds |-> [c \in Accounts |-> 0], total |-> 0,
                lessTotal |-> 0]

is_candidate(a) == candidateInfo[a].status # "none"
is_active(a) == candidateInfo[a].status = "active"
is_leaving(a) == candidateInfo[a].status = "leaving"
is_delegator(a) == delegatorState[a].present

\* The candidates a delegator's entry lists.
Delegations(st) == {c \in Accounts : st.bonds[c] > 0}

Due(request) == request.kind # "none" /\ request.at <= round

\* Genesis: its candidates join, its delegations are left to the first round.
Init ==
    /\ round = 1
    /\ candidateInfo = [c \in Accounts |->
                           IF c \in GenesisCandidates THEN NewCandidate ELSE NoCandidate]
    /\ book = [c \in Accounts |-> EmptyBook]
    /\ pool = {[owner |-> c, amount |-> 0] : c \in GenesisCandidates}
    /\ delegatorState = [d \in Accounts |-> NoDelegator]
    /\ requests = [c \in Accounts |-> [d \in Accounts |-> NoRequest]]
    /\ total = 0
    /\ locks = GenesisCandidates
    /\ wallet = InitialBtc
    /\ palletBtc = 0

----------------------------------------------------------------------------
(* Transfers of the BTC asset (pallet-assets, minimum balance 1): refused  *)
(* when the payer has less than the amount.                                *)

pay_in(who, amount) ==
    /\ wallet[who] >= amount
    /\ wallet' = [wallet EXCEPT ![who] = @ - amount]
    /\ palletBtc' = palletBtc + amount

pay_out(who, amount) ==
    /\ palletBtc >= amount
    /\ wallet' = [wallet EXCEPT ![who] = @ + amount]
    /\ palletBtc' = palletBtc - amount

----------------------------------------------------------------------------
(* The candidate pool: a bounded set with one entry per owner.             *)

PoolEntry(c, amount) == [owner |-> c, amount |-> amount]
WithoutOwner(c) == {p \in pool : p.owner # c}

\* BoundedOrderedSet::try_insert inserts: the owner is new and there is room.
can_insert(c) == WithoutOwner(c) = pool /\ Cardinality(pool) < MaxCandidates

\* Mutant: the old entry of c stays in the pool.
insert_active(c, amount) == pool \cup {PoolEntry(c, amount)}

update_active(c, amount) == WithoutOwner(c) \cup {PoolEntry(c, amount)}

\* Mutant: the pool keeps the old value when the top total changes.
pool_not_refreshed(c, b) == pool

\* reset_top_data's refresh of the pool when c's book becomes b.
pool_after(c, b) ==
    IF b.counted # book[c].counted /\ is_active(c) THEN update_active(c, b.counted)
                                                  ELSE pool

----------------------------------------------------------------------------
(* Candidates.                                                             *)

\* join_candidates_inner
join_candidates(c) ==
    /\ ~is_candidate(c) /\ ~is_delegator(c)
    /\ can_insert(c)
    /\ pool' = pool \cup {PoolEntry(c, 0)}
    /\ locks' = locks \cup {c}
    /\ candidateInfo' = [candidateInfo EXCEPT ![c] = NewCandidate]
    /\ book' = [book EXCEPT ![c] = EmptyBook]
    /\ UNCHANGED <<round, delegatorState, requests, total, wallet, palletBtc>>

\* Root's call ignores the bond it is given and checks what join_candidates checks.
force_join_candidates(c) == join_candidates(c)

\* CandidateMetadata::schedule_leave
schedule_leave(info) ==
    [info EXCEPT !.status = "leaving", !.leaveAt = round + LeaveCandidatesDelay]

\* CandidateMetadata::can_leave
can_leave(c) == is_leaving(c) /\ round >= candidateInfo[c].leaveAt

schedule_leave_candidates(c) ==
    /\ is_candidate(c) /\ ~is_leaving(c)
    /\ candidateInfo' = [candidateInfo EXCEPT ![c] = schedule_leave(@)]
    /\ pool' = WithoutOwner(c)
    /\ UNCHANGED <<round, book, delegatorState, requests, total, locks, wallet, palletBtc>>

cancel_leave_candidates(c) ==
    /\ is_leaving(c)
    /\ can_insert(c)
    /\ candidateInfo' = [candidateInfo EXCEPT ![c].status = "active", ![c].leaveAt = 0]
    /\ pool' = pool \cup {PoolEntry(c, book[c].counted)}
    /\ UNCHANGED <<round, book, delegatorState, requests, total, locks, wallet, palletBtc>>

go_offline(c) ==
    /\ is_active(c)
    /\ candidateInfo' = [candidateInfo EXCEPT ![c].status = "idle"]
    /\ pool' = WithoutOwner(c)
    /\ UNCHANGED <<round, book, delegatorState, requests, total, locks, wallet, palletBtc>>

go_online(c) ==
    /\ is_candidate(c) /\ ~is_active(c) /\ ~is_leaving(c)
    /\ can_insert(c)
    /\ candidateInfo' = [candidateInfo EXCEPT ![c].status = "active"]
    /\ pool' = pool \cup {PoolEntry(c, book[c].counted)}
    /\ UNCHANGED <<round, book, delegatorState, requests, total, locks, wallet, palletBtc>>

\* CandidateMetadata::bond_more and bond_less
bond_more(b, more) == [b EXCEPT !.bond = @ + more, !.counted = @ + more]
bond_less(b, less) == [b EXCEPT !.bond = SatSub(@, less), !.counted = SatSub(@, less)]

candidate_bond_more(c, more) ==
    LET b == bond_more(book[c], more)
    IN  /\ is_candidate(c)
        /\ pay_in(c, more)
        /\ total' = total + more
        /\ book' = [book EXCEPT ![c] = b]
        /\ pool' = IF is_active(c) THEN update_active(c, b.counted) ELSE pool
        /\ UNCHANGED <<round, candidateInfo, delegatorState, requests, locks>>

schedule_candidate_bond_less(c, less) ==
    /\ is_candidate(c)
    /\ candidateInfo[c].request = NoRequest
    /\ book[c].bond > less
    /\ candidateInfo' = [candidateInfo EXCEPT ![c].request =
                            [kind |-> "decrease", amount |-> less,
                             at |-> round + CandidateBondLessDelay]]
    /\ UNCHANGED <<round, book, pool, delegatorState, requests, total, locks,
                   wallet, palletBtc>>

execute_candidate_bond_less(c) ==
    LET less == candidateInfo[c].request.amount
        b    == bond_less(book[c], less)
    IN  /\ is_candidate(c)
        /\ Due(candidateInfo[c].request)
        /\ pay_out(c, less)
        /\ total' = SatSub(total, less)
        /\ book' = [book EXCEPT ![c] = b]
        /\ pool' = IF is_active(c) THEN update_active(c, b.counted) ELSE pool
        /\ candidateInfo' = [candidateInfo EXCEPT ![c].request = NoRequest]
        /\ UNCHANGED <<round, delegatorState, requests, locks>>

cancel_candidate_bond_less(c) ==
    /\ is_candidate(c)
    /\ candidateInfo[c].request # NoRequest
    /\ candidateInfo' = [candidateInfo EXCEPT ![c].request = NoRequest]
    /\ UNCHANGED <<round, book, pool, delegatorState, requests, total, locks,
                   wallet, palletBtc>>

----------------------------------------------------------------------------
(* Delegators.                                                             *)

\* Delegator::rm_delegation of c, then delegation_remove_request_with_state.
rm_delegation(st, c, request) ==
    [st EXCEPT !.bonds[c] = 0, !.total = SatSub(@, st.bonds[c]),
               !.lessTotal = SatSub(@, request.amount)]

\* Mutant: the request of a delegation that goes away stays scheduled.
keep_requests(c, owners) == requests

\* The requests towards c of the owners whose delegation goes away.
drop_requests(c, owners) ==
    [requests EXCEPT ![c] = [d \in Accounts |-> IF d \in owners THEN NoRequest ELSE @[d]]]

\* Mutant: the entry of a kicked delegator is not touched.
kicked_state_kept(d, c) == delegatorState[d]

\* Mutant: a kicked delegator loses its entry, other delegations included.
kicked_state_removed(d, c) == NoDelegator

\* The entry of a kicked delegator: removed when this was its only delegation.
kicked_state(d, c) ==
    IF Cardinality(Delegations(delegatorState[d])) = 1 THEN NoDelegator
    ELSE rm_delegation(delegatorState[d], c, requests[c][d])

\* Delegator::new, or add_delegation to an existing entry.
added_state(d, c, amount) ==
    [delegatorState[d] EXCEPT !.present = TRUE, !.bonds[c] = amount, !.total = @ + amount]

\* Mutant: a candidate may become a delegator.
AnyDelegator(d) == TRUE

\* CandidateExists is not returned to an account without delegations.
CanBecomeDelegator(d) == ~is_candidate(d)

\* The checks of delegate_inner, up to and including those of add_delegation.
CanDelegate(c, d, amount) ==
    /\ is_active(c)
    /\ wallet[d] >= amount
    /\ amount >= MinDelegation
    /\ IF is_delegator(d)
       THEN /\ Cardinality(Delegations(delegatorState[d])) < MaxDelegationsPerDelegator
            /\ delegatorState[d].bonds[c] = 0
       ELSE CanBecomeDelegator(d)
    /\ can_add_delegation(book[c], [owner |-> d, amount |-> amount])

\* The candidate's side of a delegation, and Total.
AddToCandidate(c, x) ==
    LET b == add_delegation(book[c], x)
    IN  /\ book' = [book EXCEPT ![c] = b]
        /\ pool' = pool_after(c, b)
        /\ total' = total + SatSub(x.amount, less_total_staked(book[c], x))
        /\ UNCHANGED <<round, candidateInfo, locks>>

\* A delegation for which there is room.
delegate(c, d, amount) ==
    LET x == [owner |-> d, amount |-> amount]
    IN  /\ CanDelegate(c, d, amount)
        /\ KickedBy(book[c], x) = {}
        /\ AddToCandidate(c, x)
        /\ pay_in(d, amount)
        /\ delegatorState' = [delegatorState EXCEPT ![d] = added_state(d, c, amount)]
        /\ UNCHANGED requests

\* A delegation to a full candidate pushes the lowest bottom delegation out:
\* its owner k is paid back, and k's request towards c is dropped.
delegate_kicking(c, d, amount) ==
    LET x == [owner |-> d, amount |-> amount]
    IN  /\ CanDelegate(c, d, amount)
        /\ AddToCandidate(c, x)
        /\ \E kicked \in KickedBy(book[c], x) :
              LET k    == kicked.owner
                  back == delegatorState[k].bonds[c]
              IN  /\ palletBtc >= back
                  /\ palletBtc' = palletBtc - back + amount
                  /\ wallet' = [wallet EXCEPT ![k] = @ + back, ![d] = @ - amount]
                  /\ delegatorState' = [delegatorState EXCEPT
                                           ![k] = kicked_state(k, c),
                                           ![d] = added_state(d, c, amount)]
                  /\ requests' = drop_requests(c, {k})

\* Mutant: a pending revoke is not looked for.
no_revoke_exists(c, d) == FALSE

delegation_request_revoke_exists(c, d) == requests[c][d].kind = "revoke"

\* delegator_bond_more. A pending revoke forbids it, a pending decrease does not.
delegator_bond_more(c, d, more) ==
    LET bond == delegatorState[d].bonds[c]
        b    == increase_delegation(book[c], d, bond, more)
    IN  /\ is_delegator(d)
        /\ ~delegation_request_revoke_exists(c, d)
        /\ bond > 0
        /\ pay_in(d, more)
        /\ is_candidate(c)
        /\ can_change_delegation(book[c], d, bond)
        /\ book' = [book EXCEPT ![c] = b]
        /\ pool' = pool_after(c, b)
        /\ total' = total + more
        /\ delegatorState' = [delegatorState EXCEPT ![d].bonds[c] = @ + more,
                                                    ![d].total = @ + more]
        /\ UNCHANGED <<round, candidateInfo, requests, locks>>

\* Pushes a request of d towards c, for which the bounded vector needs room.
ScheduleRequest(c, d, kind, amount) ==
    /\ is_delegator(d)
    /\ requests[c][d] = NoRequest
    /\ delegatorState[d].bonds[c] > 0
    /\ Cardinality({e \in Accounts : requests[c][e] # NoRequest})
         < MaxTopDelegationsPerCandidate + MaxBottomDelegationsPerCandidate
    /\ requests' = [requests EXCEPT ![c][d] =
                       [kind |-> kind, amount |-> amount, at |-> round + RevokeDelegationDelay]]
    /\ delegatorState' = [delegatorState EXCEPT ![d].lessTotal = @ + amount]
    /\ UNCHANGED <<round, candidateInfo, book, pool, total, locks, wallet, palletBtc>>

schedule_revoke_delegation(c, d) ==
    ScheduleRequest(c, d, "revoke", delegatorState[d].bonds[c])

\* The delay is RevokeDelegationDelay here too.
schedule_delegator_bond_less(c, d, less) ==
    LET st == delegatorState[d]
    IN  /\ st.bonds[c] > less
        /\ st.bonds[c] - less >= MinDelegation
        /\ less <= SatSub(SatSub(st.total, st.lessTotal), MinDelegation)
        /\ ScheduleRequest(c, d, "decrease", less)

cancel_delegation_request(c, d) ==
    /\ is_delegator(d)
    /\ requests[c][d] # NoRequest
    /\ delegatorState' = [delegatorState EXCEPT ![d].lessTotal =
                             SatSub(@, requests[c][d].amount)]
    /\ requests' = drop_requests(c, {d})
    /\ UNCHANGED <<round, candidateInfo, book, pool, total, locks, wallet, palletBtc>>

\* The candidate's side of a revoke
delegator_leaves_candidate(c, d, amount) ==
    LET b == rm_delegation_if_exists(book[c], d, amount)
    IN  /\ is_candidate(c)
        /\ can_rm_delegation(book[c], d, amount)
        /\ book' = [book EXCEPT ![c] = b]
        /\ pool' = pool_after(c, b)
        /\ total' = SatSub(total, amount)

\* execute_delegation_request of a revoke
execute_revoke(c, d) ==
    LET st      == delegatorState[d]
        amount  == requests[c][d].amount
        leaving == Cardinality(Delegations(st)) = 1
    IN  /\ is_delegator(d)
        /\ requests[c][d].kind = "revoke" /\ Due(requests[c][d])
        /\ leaving \/ SatSub(st.total, MinDelegation) >= amount
        /\ pay_out(d, st.bonds[c])
        /\ delegator_leaves_candidate(c, d, amount)
        /\ requests' = drop_requests(c, {d})
        /\ delegatorState' = [delegatorState EXCEPT ![d] =
                                 IF leaving THEN NoDelegator
                                 ELSE rm_delegation(st, c, requests[c][d])]
        /\ UNCHANGED <<round, candidateInfo, locks>>

\* execute_delegation_request of a decrease
execute_decrease(c, d) ==
    LET st   == delegatorState[d]
        bond == st.bonds[c]
        less == requests[c][d].amount
        b    == decrease_delegation(book[c], d, bond, less)
    IN  /\ is_delegator(d)
        /\ requests[c][d].kind = "decrease" /\ Due(requests[c][d])
        /\ bond > less
        /\ is_candidate(c)
        /\ SatSub(st.total, less) >= MinDelegation
        /\ pay_out(d, less)
        /\ can_change_delegation(book[c], d, bond)
        /\ book' = [book EXCEPT ![c] = b]
        /\ pool' = pool_after(c, b)
        /\ total' = SatSub(total, less)
        /\ requests' = drop_requests(c, {d})
        /\ delegatorState' = [delegatorState EXCEPT ![d].bonds[c] = SatSub(@, less),
                                                    ![d].total = SatSub(@, less),
                                                    ![d].lessTotal = SatSub(@, less)]
        /\ UNCHANGED <<round, candidateInfo, locks>>

----------------------------------------------------------------------------
(* A candidate leaves.                                                     *)

\* Mutant: the delegation that is returned stays in the delegator's entry.
returned_state_kept(d, c) == delegatorState[d]

\* Mutant: the delegator's entry goes, whatever else it holds.
returned_state_dropped(d, c) == NoDelegator

\* The entry of a delegator whose stake is returned: removed when nothing remains.
returned_state(d, c) ==
    LET st == rm_delegation(delegatorState[d], c, requests[c][d])
    IN  IF st.total = 0 THEN NoDelegator ELSE st

\* Returns every delegation and drops the candidate. Total falls by the totals
\* of the record, the wallets rise by what the delegators had bonded; the self
\* bond is not transferred.
execute_leave_candidates(c) ==
    LET b       == book[c]
        owners  == {d \in Owners(b.top) \cup Owners(b.bottom) : delegatorState[d].bonds[c] > 0}
        backing == b.bond + b.topTotal + b.bottomTotal
    IN  /\ can_leave(c)
        /\ \E left \in 0 .. palletBtc :
              /\ left + SumFunction([d \in owners |-> delegatorState[d].bonds[c]]) = palletBtc
              /\ palletBtc' = left
        /\ wallet' = [a \in Accounts |->
                         IF a \in owners THEN wallet[a] + delegatorState[a].bonds[c] ELSE wallet[a]]
        /\ delegatorState' = [a \in Accounts |->
                                 IF a \in owners THEN returned_state(a, c) ELSE delegatorState[a]]
        /\ requests' = drop_requests(c, Accounts)
        /\ candidateInfo' = [candidateInfo EXCEPT ![c] = NoCandidate]
        /\ book' = [book EXCEPT ![c] = EmptyBook]
        /\ locks' = locks \ {c}
        /\ total' = SatSub(total, backing)
        /\ UNCHANGED <<round, pool>>

\* on_initialize opens a round. The ledger only reads the round; what else the
\* hook does (payouts, snapshots) reads the ledger and does not write it.
new_round ==
    /\ round < MaxRound
    /\ round' = round + 1
    /\ UNCHANGED <<candidateInfo, book, pool, delegatorState, requests, total, locks,
                   wallet, palletBtc>>

----------------------------------------------------------------------------
CandidateStep(c) ==
    \/ schedule_leave_candidates(c)
    \/ execute_leave_candidates(c)
    \/ cancel_leave_candidates(c)
    \/ go_offline(c)
    \/ go_online(c)
    \/ \E more \in Amounts : candidate_bond_more(c, more)
    \/ \E less \in Amounts : schedule_candidate_bond_less(c, less)
    \/ execute_candidate_bond_less(c)
    \/ cancel_candidate_bond_less(c)

DelegatorStep(c, d) ==
    \/ \E more \in Amounts : delegator_bond_more(c, d, more)
    \/ schedule_revoke_delegation(c, d)
    \/ \E less \in Amounts : schedule_delegator_bond_less(c, d, less)
    \/ cancel_delegation_request(c, d)
    \/ execute_revoke(c, d)
    \/ execute_decrease(c, d)

LedgerExtrinsic ==
    \/ \E c \in Joiners : join_candidates(c) \/ force_join_candidates(c)
    \/ \E c \in Accounts : CandidateStep(c)
    \/ \E c \in Accounts, d \in Backers, amount \in Amounts :
          delegate(c, d, amount) \/ delegate_kicking(c, d, amount)
    \/ \E c \in Accounts, d \in Accounts : DelegatorStep(c, d)

Next == new_round \/ LedgerExtrinsic

Spec == Init /\ [][Next]_vars

----------------------------------------------------------------------------
(* What makes the ledger correct.                                          *)

\* Type invariant: every storage item holds values of its declared type.
TypeOK ==
    /\ round \in Nat
    /\ candidateInfo \in [Accounts -> Candidate]
    /\ book \in [Accounts -> Book]
    /\ pool \subseteq Bond
    /\ delegatorState \in [Accounts -> Delegator]
    /\ requests \in [Accounts -> [Accounts -> Request]]
    /\ total \in Nat
    /\ locks \subseteq Accounts
    /\ wallet \in [Accounts -> Nat]
    /\ palletBtc \in Nat

\* CandidatePool holds exactly the active candidates, each with the stake its
\* metadata counts: what compute_top_candidates ranks is never stale, although
\* a dozen calls change the one or the other.
PoolMatchesActive ==
    pool = {PoolEntry(c, book[c].counted) : c \in {a \in Accounts : is_active(a)}}

\* An account is never a candidate and a delegator at once, and the native lock
\* of join_candidates is held by exactly the candidates.
RolesExclusive ==
    \A a \in Accounts : /\ ~(is_candidate(a) /\ is_delegator(a))
                        /\ a \in locks <=> is_candidate(a)

AmountIn(s, d) == IF d \in Owners(s) THEN s[IndexOf(s, d)].amount ELSE 0

\* The amounts, capacities and the count cached in CandidateMetadata, by which
\* add, rm, increase and decrease decide where a delegation is, are those of the
\* two lists, and the lists respect their capacities.
MetadataMatchesBook == \A c \in Accounts : MetadataOK(book[c])

\* The stake a candidate is ranked by is the sum of its counted delegations;
\* the bottom total, stale after a decrease, is at least the sum of the others.
TotalsMatchBook ==
    \A c \in Accounts : /\ book[c].topTotal = SumOf(book[c].top)
                        /\ book[c].bottomTotal >= SumOf(book[c].bottom)

\* The counted list holds the largest delegations: both lists are sorted, no
\* bottom delegation exceeds a top one, and the bottom is used only when the top
\* is full.
TopIsTheLargest ==
    \A c \in Accounts :
        LET b == book[c]
        IN  /\ Sorted(b.top \o b.bottom)
            /\ b.bottom # <<>> => Len(b.top) = MaxTopDelegationsPerCandidate

\* The two records of a delegation agree: the delegator's entry and exactly one
\* place of the candidate's book hold the same amount, at least MinDelegation;
\* a delegator exists as long as it has a delegation and its total is their sum.
RecordsAgree ==
    /\ \A c, d \in Accounts :
          LET b == book[c]
              n == delegatorState[d].bonds[c]
          IN  /\ n = AmountIn(b.top, d) + AmountIn(b.bottom, d)
              /\ n = 0 \/ n >= MinDelegation
              /\ Cardinality({i \in DOMAIN b.top : b.top[i].owner = d})
                   + Cardinality({i \in DOMAIN b.bottom : b.bottom[i].owner = d}) <= 1
    /\ \A d \in Accounts :
          LET st == delegatorState[d]
          IN  /\ st.present <=> Delegations(st) # {}
              /\ st.total = SumFunction(st.bonds)

\* A scheduled decrease of a self bond leaves some of it.
SelfRequestsFit ==
    \A c \in Accounts : candidateInfo[c].request # NoRequest =>
                           candidateInfo[c].request.amount < book[c].bond

\* A scheduled request always fits the delegation it is about, whatever was
\* bonded, kicked or returned since: a revoke is for the whole bond, a decrease
\* leaves MinDelegation, a self-bond decrease is covered by the self bond; and a
\* delegator's less_total is the sum of its pending requests.
RequestsFitBonds ==
    /\ \A c, d \in Accounts :
          LET r == requests[c][d]
              n == delegatorState[d].bonds[c]
          IN  /\ r.kind = "revoke" => n > 0 /\ r.amount = n
              /\ r.kind = "decrease" => n >= r.amount + MinDelegation
    /\ SelfRequestsFit
    /\ \A d \in Accounts : delegatorState[d].lessTotal =
                               SumFunction([c \in Accounts |-> requests[c][d].amount])

StakeOf(c) == book[c].bond + SumOf(book[c].top) + SumOf(book[c].bottom)
AllStake == SumFunction([c \in Accounts |-> StakeOf(c)])

\* The pallet's account holds all the BTC that is staked, so no return of stake
\* can fail ("Decreasing lock cannot fail, qed"); and Total, which goes stale
\* after a bottom decrease, never claims more than is staked.
PalletCoversStakes == total <= AllStake /\ AllStake <= palletBtc

\* No request is ever stuck: once due, it can be executed, and so can the exit
\* of a leaving candidate (every call on the way finds its entry and its BTC).
NoRequestStuck ==
    \A c \in Accounts :
        /\ Due(candidateInfo[c].request) => ENABLED execute_candidate_bond_less(c)
        /\ is_leaving(c) /\ round >= candidateInfo[c].leaveAt => ENABLED execute_leave_candidates(c)
        /\ \A d \in Accounts : Due(requests[c][d]) =>
              ENABLED (execute_revoke(c, d) \/ execute_decrease(c, d))

\* What an account owns: free BTC, its delegations and its self bond.
Wealth(a) == wallet[a] + SumFunction(delegatorState[a].bonds) + book[a].bond

WealthKept ==
    \A a \in Accounts : Wealth(a)' = Wealth(a) \/ (is_candidate(a) /\ ~is_candidate(a)')

\* A step moves BTC between an account's wallet and its own stake only: nobody
\* pays for another's call, and a kicked or returned delegation is paid in full.
\* The exit of a candidate keeps its self bond (see SelfBondReturned).
WealthPreserved == [][WealthKept]_vars

\* The three ways in which the delegation of d to c may shrink.
OwnRequestRuns(c, d) ==
    /\ Due(requests[c][d])
    /\ delegatorState[d].bonds[c] - delegatorState'[d].bonds[c] = requests[c][d].amount

KickedByLarger(c, d) ==
    /\ Len(book[c].bottom) = MaxBottomDelegationsPerCandidate
    /\ book[c].bottom[MaxBottomDelegationsPerCandidate].owner = d
    /\ \E e \in Accounts : /\ delegatorState[e].bonds[c] = 0
                           /\ delegatorState'[e].bonds[c] > delegatorState[d].bonds[c]

CandidateExits(c) == is_leaving(c) /\ round >= candidateInfo[c].leaveAt /\ ~is_candidate(c)'

StakeFallsByRule ==
    \A c, d \in Accounts :
        delegatorState'[d].bonds[c] < delegatorState[d].bonds[c] =>
            OwnRequestRuns(c, d) \/ KickedByLarger(c, d) \/ CandidateExits(c)

\* A delegation shrinks only by its own due request, by being the lowest of a
\* full candidate when a larger one arrives, or by the due exit of its candidate.
StakeFallsOnlyByRule == [][StakeFallsByRule]_vars

----------------------------------------------------------------------------
(* What the repository says and the code does not do.                      *)

\* "Total capital locked by this staking pallet" (lib.rs, storage item Total).
TotalIsCapitalLocked == total = AllStake

\* LeaveCandidatesDelay is the "Number of rounds that candidates remain bonded
\* before exit request is executable" and CandidateLeft reports the self bond in
\* unlocked_amount: after the exit the self bond is back in the wallet.
SelfBondReturned ==
    [][\A a \in Accounts : is_candidate(a) /\ ~is_candidate(a)' => Wealth(a)' = Wealth(a)]_vars
=============================================================================
