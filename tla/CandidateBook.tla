--------------------------- MODULE CandidateBook ---------------------------
(***************************************************************************)
(* The delegation book of one sequencer candidate: the part of             *)
(* CandidateMetadata that summarises the book, together with the           *)
(* TopDelegations and BottomDelegations storage entries of the candidate   *)
(* (pallets/sequencer-staking/src/types.rs).                               *)
(*                                                                         *)
(* The three storage items are always read and written by the same call,   *)
(* so they are one record here:                                            *)
(*                                                                         *)
(*   bond           self bond of the candidate                             *)
(*   count          delegation_count                                       *)
(*   counted        total_counted: bond plus the top total                 *)
(*   lowestTop, highestBottom, lowestBottom                                *)
(*                  cached amounts that decide where a delegation is       *)
(*                  looked for                                             *)
(*   topCapacity, bottomCapacity                                           *)
(*                  cached CapacityStatus                                  *)
(*   top, topTotal, bottom, bottomTotal                                    *)
(*                  the two lists, greatest first, with their totals       *)
(*                                                                         *)
(* An operator is the whole method of the same name as a function of the   *)
(* book; that a method finds the delegation it looks for (otherwise it     *)
(* returns DelegationDNE) is a predicate of its own.                       *)
(***************************************************************************)
EXTENDS Naturals, Sequences, FiniteSets, SequencesExt

CONSTANTS
    Accounts,                          \* account ids
    MaxTopDelegationsPerCandidate,     \* capacity of the top list
    MaxBottomDelegationsPerCandidate   \* capacity of the bottom list

ASSUME CapacityAssumption ==
    /\ MaxTopDelegationsPerCandidate \in Nat \ {0}
    /\ MaxBottomDelegationsPerCandidate \in Nat \ {0}

CapacityStatus == {"Full", "Empty", "Partial"}

Bond == [owner : Accounts, amount : Nat]

Book == [bond : Nat, count : Nat, counted : Nat,
         lowestTop : Nat, highestBottom : Nat, lowestBottom : Nat,
         topCapacity : CapacityStatus, bottomCapacity : CapacityStatus,
         top : Seq(Bond), topTotal : Nat,
         bottom : Seq(Bond), bottomTotal : Nat]

\* CandidateMetadata::new(0) with two empty lists.
EmptyBook == [bond |-> 0, count |-> 0, counted |-> 0,
              lowestTop |-> 0, highestBottom |-> 0, lowestBottom |-> 0,
              topCapacity |-> "Empty", bottomCapacity |-> "Empty",
              top |-> <<>>, topTotal |-> 0,
              bottom |-> <<>>, bottomTotal |-> 0]

----------------------------------------------------------------------------
(* Delegations: one list, greatest amount first.                           *)

\* Mutant: a plain subtraction.
plain_sub(a, b) == a - b

\* saturating_sub of the balance types
SatSub(a, b) == IF a >= b THEN a - b ELSE 0

Owners(s) == {s[i].owner : i \in DOMAIN s}

\* The position of who's delegation; a book holds at most one per owner.
IndexOf(s, who) == CHOOSE i \in DOMAIN s : s[i].owner = who

lowest_delegation_amount(s) == IF s = <<>> THEN 0 ELSE s[Len(s)].amount
highest_delegation_amount(s) == IF s = <<>> THEN 0 ELSE s[1].amount

capacity(s, max) == IF Len(s) >= max THEN "Full"
                    ELSE IF s = <<>> THEN "Empty" ELSE "Partial"
top_capacity(s) == capacity(s, MaxTopDelegationsPerCandidate)
bottom_capacity(s) == capacity(s, MaxBottomDelegationsPerCandidate)

\* Mutant: the new bond is pushed without looking for its place.
push_last(s, x) == Append(s, x)

\* On a sorted list the early push, the binary search and the walk over equal
\* amounts all end behind the last delegation of at least x's amount.
insert_sorted_greatest_to_least(s, x) ==
    InsertAt(s, Cardinality({i \in DOMAIN s : s[i].amount >= x.amount}) + 1, x)

\* sort_greatest_to_least after the amount of entry i became a. The sort is
\* stable: an equal entry stays on the side of entry i where it was.
sort_greatest_to_least(s, i, a) ==
    LET before == {j \in DOMAIN s : \/ j < i /\ s[j].amount >= a
                                    \/ j > i /\ s[j].amount > a}
    IN  InsertAt(RemoveAt(s, i), Cardinality(before) + 1, [s[i] EXCEPT !.amount = a])

----------------------------------------------------------------------------
(* CandidateMetadata: the cached summaries.                                *)

\* Writes the top list and everything derived from it. The candidate pool,
\* which the method also refreshes, belongs to the caller's state.
reset_top_data(b, s, total) ==
    [b EXCEPT !.top = s, !.topTotal = total,
              !.lowestTop = lowest_delegation_amount(s),
              !.topCapacity = top_capacity(s),
              !.counted = b.bond + total]

\* Mutant: the highest bottom amount is not refreshed.
reset_bottom_data_keep_highest(b, s, total) ==
    [b EXCEPT !.bottom = s, !.bottomTotal = total,
              !.lowestBottom = lowest_delegation_amount(s),
              !.bottomCapacity = bottom_capacity(s)]

reset_bottom_data(b, s, total) ==
    [b EXCEPT !.bottom = s, !.bottomTotal = total,
              !.lowestBottom = lowest_delegation_amount(s),
              !.highestBottom = highest_delegation_amount(s),
              !.bottomCapacity = bottom_capacity(s)]

----------------------------------------------------------------------------
(* Adding a delegation.                                                    *)

add_bottom_delegation(bumped_from_top, b, x) ==
    LET full  == Len(b.bottom) = MaxBottomDelegationsPerCandidate
        s     == IF full THEN Front(b.bottom) ELSE b.bottom
        total == IF full THEN SatSub(b.bottomTotal, Last(b.bottom).amount)
                         ELSE b.bottomTotal
        count == IF full \/ bumped_from_top THEN b.count ELSE b.count + 1
    IN  reset_bottom_data([b EXCEPT !.count = count],
                          insert_sorted_greatest_to_least(s, x), total + x.amount)

add_top_delegation(b, x) ==
    LET full    == Len(b.top) = MaxTopDelegationsPerCandidate
        s       == IF full THEN Front(b.top) ELSE b.top
        total   == IF full THEN SatSub(b.topTotal, Last(b.top).amount) ELSE b.topTotal
        below   == IF full THEN add_bottom_delegation(TRUE, b, Last(b.top)) ELSE b
        kicks   == full /\ b.bottomCapacity = "Full"
        count   == IF kicks THEN below.count ELSE below.count + 1
    IN  reset_top_data([below EXCEPT !.count = count],
                       insert_sorted_greatest_to_least(s, x), total + x.amount)

\* A delegation enters the top unless the top is full of amounts at least as large.
AddsToBottom(b, x) == b.topCapacity = "Full" /\ b.lowestTop >= x.amount

\* Mutant: the refusal of an amount that only equals the lowest bottom is lost.
can_add_equal_to_lowest(b, x) ==
    AddsToBottom(b, x) /\ b.bottomCapacity = "Full" => x.amount >= b.lowestBottom

\* CannotDelegateLessThanOrEqualToLowestBottomWhenFull is not returned.
can_add_delegation(b, x) ==
    AddsToBottom(b, x) /\ b.bottomCapacity = "Full" => x.amount > b.lowestBottom

add_delegation(b, x) ==
    IF AddsToBottom(b, x) THEN add_bottom_delegation(FALSE, b, x)
                          ELSE add_top_delegation(b, x)

\* Mutant: no remainder is reported for the delegation that is kicked.
no_less_total(b, x) == 0

\* The remainder add_delegation reports to be taken off Total: 0 for None.
less_total_staked(b, x) ==
    IF b.topCapacity = "Full" /\ b.bottomCapacity = "Full" THEN b.lowestBottom ELSE 0

\* The bonds add_bottom_delegation pops to make room for x: at most one.
KickedBy(b, x) ==
    IF /\ AddsToBottom(b, x) \/ Len(b.top) = MaxTopDelegationsPerCandidate
       /\ Len(b.bottom) = MaxBottomDelegationsPerCandidate
    THEN {Last(b.bottom)} ELSE {}

----------------------------------------------------------------------------
(* Removing a delegation.                                                  *)

LowestTopEqHighestBottom(b) == b.lowestTop = b.highestBottom

\* Mutant: the amount that moves up is not added to the top total.
rm_top_forgets_next(b, who) ==
    LET i     == IndexOf(b.top, who)
        s     == RemoveAt(b.top, i)
        total == SatSub(b.topTotal, b.top[i].amount)
        next  == Head(b.bottom)
        less1 == [b EXCEPT !.count = SatSub(b.count, 1)]
    IN  IF b.bottomCapacity = "Empty"
        THEN reset_top_data(less1, s, total)
        ELSE reset_top_data(
                 reset_bottom_data(less1, Tail(b.bottom), SatSub(b.bottomTotal, next.amount)),
                 insert_sorted_greatest_to_least(s, next), total)

rm_top_delegation(b, who) ==
    LET i     == IndexOf(b.top, who)
        s     == RemoveAt(b.top, i)
        total == SatSub(b.topTotal, b.top[i].amount)
        next  == Head(b.bottom)
        less1 == [b EXCEPT !.count = SatSub(b.count, 1)]
    IN  IF b.bottomCapacity = "Empty"
        THEN reset_top_data(less1, s, total)
        ELSE reset_top_data(
                 reset_bottom_data(less1, Tail(b.bottom), SatSub(b.bottomTotal, next.amount)),
                 insert_sorted_greatest_to_least(s, next), total + next.amount)

rm_bottom_delegation(b, who) ==
    LET i == IndexOf(b.bottom, who)
    IN  reset_bottom_data([b EXCEPT !.count = SatSub(b.count, 1)],
                          RemoveAt(b.bottom, i), SatSub(b.bottomTotal, b.bottom[i].amount))

\* Which list rm_delegation_if_exists removes from, decided from cached amounts.
RemovesFromTop(b, who, amount) ==
    \/ b.topCapacity # "Full"
    \/ /\ amount >= b.lowestTop
       /\ LowestTopEqHighestBottom(b) => who \in Owners(b.top)

can_rm_delegation(b, who, amount) ==
    who \in Owners(IF RemovesFromTop(b, who, amount) THEN b.top ELSE b.bottom)

rm_delegation_if_exists(b, who, amount) ==
    IF RemovesFromTop(b, who, amount) THEN rm_top_delegation(b, who)
                                      ELSE rm_bottom_delegation(b, who)

----------------------------------------------------------------------------
(* Changing the amount of a delegation.                                    *)

\* Mutant: a tie between the lists is always resolved to the top.
LooksInTopOnTie(b, who, bond) == bond >= b.lowestTop

\* Which list increase_delegation and decrease_delegation change.
LooksInTop(b, who, bond) ==
    bond >= b.lowestTop /\ (LowestTopEqHighestBottom(b) => who \in Owners(b.top))

can_change_delegation(b, who, bond) ==
    who \in Owners(IF LooksInTop(b, who, bond) THEN b.top ELSE b.bottom)

increase_top_delegation(b, who, more) ==
    LET i == IndexOf(b.top, who)
    IN  reset_top_data(b, sort_greatest_to_least(b.top, i, b.top[i].amount + more),
                       b.topTotal + more)

increase_bottom_delegation(b, who, bond, more) ==
    LET i      == IndexOf(b.bottom, who)
        raised == [b.bottom[i] EXCEPT !.amount = @ + more]
        full   == top_capacity(b.top) = "Full"
        popped == Last(b.top)
        rest   == RemoveAt(b.bottom, i)
        below  == SatSub(b.bottomTotal, bond)
    IN  IF bond + more <= b.lowestTop
        THEN reset_bottom_data(b, sort_greatest_to_least(b.bottom, i, raised.amount),
                               b.bottomTotal + more)
        ELSE IF full
        THEN reset_bottom_data(
                 reset_top_data(b, insert_sorted_greatest_to_least(Front(b.top), raised),
                                SatSub(b.topTotal, popped.amount) + raised.amount),
                 insert_sorted_greatest_to_least(rest, popped), below + popped.amount)
        ELSE reset_bottom_data(
                 reset_top_data(b, insert_sorted_greatest_to_least(b.top, raised),
                                b.topTotal + raised.amount),
                 rest, below)

increase_delegation(b, who, bond, more) ==
    IF LooksInTop(b, who, bond) THEN increase_top_delegation(b, who, more)
                                ELSE increase_bottom_delegation(b, who, bond, more)

decrease_top_delegation(b, who, bond, less) ==
    LET i       == IndexOf(b.top, who)
        lowered == [b.top[i] EXCEPT !.amount = SatSub(@, less)]
        next    == Head(b.bottom)
        falls   == /\ SatSub(bond, less) < b.highestBottom
                   /\ b.topCapacity = "Full" /\ b.bottomCapacity # "Empty"
    IN  IF ~falls
        THEN reset_top_data(b, sort_greatest_to_least(b.top, i, lowered.amount),
                            SatSub(b.topTotal, less))
        ELSE reset_top_data(
                 reset_bottom_data(b, insert_sorted_greatest_to_least(Tail(b.bottom), lowered),
                                   SatSub(b.bottomTotal, next.amount) + lowered.amount),
                 insert_sorted_greatest_to_least(RemoveAt(b.top, i), next),
                 SatSub(b.topTotal, b.top[i].amount) + next.amount)

\* The list's total is left as it was.
decrease_bottom_delegation(b, who, less) ==
    LET i == IndexOf(b.bottom, who)
    IN  reset_bottom_data(b, sort_greatest_to_least(b.bottom, i, SatSub(b.bottom[i].amount, less)),
                          b.bottomTotal)

decrease_delegation(b, who, bond, less) ==
    IF LooksInTop(b, who, bond) THEN decrease_top_delegation(b, who, bond, less)
                                ELSE decrease_bottom_delegation(b, who, less)

----------------------------------------------------------------------------
(* What the lists and the cached summaries of a book must say.             *)

\* Greatest amount first
Sorted(s) == \A i, j \in DOMAIN s : i < j => s[i].amount >= s[j].amount

SumOf(s) == SumFunction([i \in DOMAIN s |-> s[i].amount])

TopMetadataOK(b) ==
    /\ b.lowestTop = lowest_delegation_amount(b.top)
    /\ b.topCapacity = top_capacity(b.top)
    /\ b.counted = b.bond + b.topTotal
    /\ Len(b.top) <= MaxTopDelegationsPerCandidate

BottomMetadataOK(b) ==
    /\ b.highestBottom = highest_delegation_amount(b.bottom)
    /\ b.lowestBottom = lowest_delegation_amount(b.bottom)
    /\ b.bottomCapacity = bottom_capacity(b.bottom)
    /\ Len(b.bottom) <= MaxBottomDelegationsPerCandidate

MetadataOK(b) ==
    /\ TopMetadataOK(b)
    /\ BottomMetadataOK(b)
    /\ b.count = Len(b.top) + Len(b.bottom)
=============================================================================
