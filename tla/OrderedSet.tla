----------------------------- MODULE OrderedSet -----------------------------
(***************************************************************************)
(* The ordered sets of pallet sequencer-staking (set.rs): vectors of Bond  *)
(* records kept sorted by owner and searched by bisection. A Bond compares *)
(* and equals by its owner alone (types.rs), so the set works as a map     *)
(* from owners to amounts.                                                 *)
(*                                                                         *)
(* CandidatePool is a BoundedOrderedSet, the delegations of a delegator    *)
(* are an OrderedSet; the ledger keeps both as what they stand for.        *)
(***************************************************************************)
EXTENDS Naturals, Sequences, FiniteSets, SequencesExt

CONSTANT AccountOrder    \* the accounts, ordered as AccountId is

ASSUME OrderAssumption == IsInjective(AccountOrder)

Place(a) == CHOOSE i \in DOMAIN AccountOrder : AccountOrder[i] = a

\* Ord of Bond: by owner, whatever the amounts.
Precedes(x, y) == Place(x.owner) < Place(y.owner)

----------------------------------------------------------------------------
(* slice::binary_search on a sorted vector: Ok where an equal element is,  *)
(* Err with the place where it belongs.                                    *)

Hits(v, x) == {i \in DOMAIN v : v[i].owner = x.owner}

Slot(v, x) == 1 + Cardinality({i \in DOMAIN v : Precedes(v[i], x)})

----------------------------------------------------------------------------
(* OrderedSet and BoundedOrderedSet.                                       *)

contains(v, x) == Hits(v, x) # {}

\* Mutant: a new element is appended.
insert_last(v, x) == IF contains(v, x) THEN v ELSE Append(v, x)

\* insert, and what try_insert does when there is room
insert(v, x) == IF contains(v, x) THEN v ELSE InsertAt(v, Slot(v, x), x)

\* try_insert: Err when the element is new and the vector full, else Ok.
try_insert_fails(v, x, bound) == ~contains(v, x) /\ Len(v) >= bound

remove(v, x) == IF contains(v, x) THEN RemoveAt(v, CHOOSE i \in Hits(v, x) : TRUE) ELSE v

----------------------------------------------------------------------------
(* What the vectors stand for.                                             *)

\* The vector that holds the bonds of S, with one bond per owner.
VectorOf(S) ==
    CHOOSE v \in [1 .. Cardinality(S) -> S] : \A i, j \in DOMAIN v : i < j => Precedes(v[i], v[j])

\* from, of the elements of v at the places kept: sort, which keeps the order of
\* equal elements, then dedup, which keeps the first of them.
from(v, kept) ==
    VectorOf({v[i] : i \in {k \in kept : \A j \in kept : j < k => v[j].owner # v[k].owner}})
=============================================================================
