---------------------------- MODULE StakingSets ----------------------------
(***************************************************************************)
(* The ledger keeps CandidatePool and the delegations of a delegator as    *)
(* what their ordered sets stand for. Here they are read as the vectors    *)
(* the storage holds, and every step of the ledger is compared with what   *)
(* the methods of OrderedSet do to those vectors.                          *)
(***************************************************************************)
EXTENDS SequencerStaking, OrderedSet

\* Every account has its place in the order.
ASSUME SetsAssumption ==
    AccountOrder \in Seq(Accounts) /\ Accounts = {AccountOrder[i] : i \in DOMAIN AccountOrder}

poolVector(S) == VectorOf(S)

delegationVector(st) == VectorOf({PoolEntry(c, st.bonds[c]) : c \in Delegations(st)})

\* join_candidates, cancel_leave_candidates, go_online: try_insert returns Ok(true)
Inserted(v, w, x) ==
    ~contains(v, x) /\ ~try_insert_fails(v, x, MaxCandidates) /\ w = insert(v, x)

\* schedule_leave_candidates, go_offline: remove, found by the owner alone
Removed(v, w, x) == contains(v, x) /\ w = remove(v, PoolEntry(x.owner, 0))

\* update_active: remove, then try_insert, which must find room (its expect)
Updated(v, w, x) ==
    LET rest == remove(v, PoolEntry(x.owner, 0))
    IN  ~try_insert_fails(rest, x, MaxCandidates) /\ w = insert(rest, x)

\* Delegator::new: the set is made from the one bond
Created(v, w, x) == v = <<>> /\ w = from(<<x>>, {1})

\* Delegator::add_delegation: insert must return true
Added(v, w, x) == v # <<>> /\ ~contains(v, x) /\ w = insert(v, x)

\* Delegator::rm_delegation: the others, collected into a new set
Dropped(v, w, x) == contains(v, x) /\ w = from(v, {i \in DOMAIN v : v[i].owner # x.owner})

\* increase_delegation and a decrease change the amount in place.
Changed(v, w, x) ==
    \E i \in DOMAIN v : v[i].owner = x.owner /\ w = [v EXCEPT ![i].amount = x.amount]

SetsFollow ==
    /\ LET v == poolVector(pool)
           w == poolVector(pool')
       IN  v # w => \E c \in Accounts :
                       LET x == PoolEntry(c, book'[c].counted)
                       IN  Inserted(v, w, x) \/ Removed(v, w, x) \/ Updated(v, w, x)
    /\ \A d \in Accounts :
          LET v == delegationVector(delegatorState[d])
              w == delegationVector(delegatorState'[d])
          IN  v # w => \E c \in Accounts :
                          LET x == PoolEntry(c, delegatorState'[d].bonds[c])
                          IN  \/ Created(v, w, x) \/ Added(v, w, x)
                              \/ Dropped(v, w, x) \/ Changed(v, w, x)

\* Every call of any account changes the two sets as the methods of OrderedSet
\* change their vectors: the vectors stay sorted with one bond per owner, or the
\* next search would go wrong, and the pool always has room when update_active
\* expects it.
SetsFollowVectors == [][SetsFollow]_vars
=============================================================================
