------------------------ MODULE CandidateBookProofs ------------------------
(***************************************************************************)
(* What every operation on a candidate's book preserves: the book stays of *)
(* its type and the cached metadata stays that of the lists. And what it   *)
(* does to the bonds the book holds: a sorted book stays sorted, with one  *)
(* place per owner, and exactly the bonds the call is about come and go.   *)
(***************************************************************************)
EXTENDS CandidateBook, FiniteInduction, SequenceTheorems

----------------------------------------------------------------------------
(* Sequences.                                                              *)

\* Inserting an element at a position of the sequence, or behind its end,
\* yields a sequence longer by one (Vec::insert, Vec::push).
LEMMA InsertAtType ==
  ASSUME NEW S, NEW s \in Seq(S), NEW x \in S, NEW i \in 1 .. Len(s) + 1
  PROVE  InsertAt(s, i, x) \in Seq(S) /\ Len(InsertAt(s, i, x)) = Len(s) + 1
<1> DEFINE a == SubSeq(s, 1, i-1)
           z == SubSeq(s, i, Len(s))
           ax == a \o <<x>>
<1>1. a \in Seq(S) /\ Len(a) = i - 1
  BY SubSeqProperties
<1>2. z \in Seq(S) /\ Len(z) = Len(s) + 1 - i
  BY SubSeqProperties
<1>3. <<x>> \in Seq(S) /\ Len(<<x>>) = 1
  OBVIOUS
<1>4. InsertAt(s, i, x) = ax \o z
  BY DEF InsertAt
<1> HIDE DEF a, z
<1>5. ax \in Seq(S) /\ Len(ax) = i
  BY <1>1, <1>3, ConcatProperties
<1> HIDE DEF ax
<1>6. ax \o z \in Seq(S) /\ Len(ax \o z) = Len(s) + 1
  BY <1>2, <1>5, ConcatProperties
<1> QED
  BY <1>4, <1>6

\* Removing the element at a position yields a sequence shorter by one.
LEMMA RemoveAtType ==
  ASSUME NEW S, NEW s \in Seq(S), NEW i \in 1 .. Len(s)
  PROVE  RemoveAt(s, i) \in Seq(S) /\ Len(RemoveAt(s, i)) = Len(s) - 1
<1> DEFINE a == SubSeq(s, 1, i-1)
           z == SubSeq(s, i+1, Len(s))
<1>1. a \in Seq(S) /\ Len(a) = i - 1
  BY SubSeqProperties
<1>2. z \in Seq(S) /\ Len(z) = Len(s) - i
  BY SubSeqProperties
<1>3. RemoveAt(s, i) = a \o z
  BY DEF RemoveAt
<1> HIDE DEF a, z
<1>4. a \o z \in Seq(S) /\ Len(a \o z) = Len(s) - 1
  BY <1>1, <1>2, ConcatProperties
<1> QED
  BY <1>3, <1>4

\* Vec::pop of a nonempty list.
LEMMA FrontLastType ==
  ASSUME NEW S, NEW s \in Seq(S), s # <<>>
  PROVE  Front(s) \in Seq(S) /\ Len(Front(s)) = Len(s) - 1 /\ Last(s) \in S
<1>1. Len(s) \in Nat /\ Len(s) > 0
  BY EmptySeq, LenProperties
<1>2. \A i \in 1 .. Len(s) : s[i] \in S
  OBVIOUS
<1>3. Front(s) \in Seq(S) /\ Len(Front(s)) = Len(s) - 1
  <2> DEFINE n == Len(s) - 1
  <2>1. n \in Nat /\ \A i \in 1 .. n : s[i] \in S
    BY <1>1, <1>2
  <2> HIDE DEF n
  <2>2. SubSeq(s, 1, n) \in Seq(S) /\ Len(SubSeq(s, 1, n)) = n
    BY <2>1, SubSeqProperties
  <2> QED
    BY <2>2 DEF Front, n
<1>4. Last(s) \in S
  BY <1>1, <1>2 DEF Last
<1> QED
  BY <1>3, <1>4

\* Vec::remove(0) of a nonempty list.
LEMMA HeadTailType ==
  ASSUME NEW S, NEW s \in Seq(S), s # <<>>
  PROVE  Tail(s) \in Seq(S) /\ Len(Tail(s)) = Len(s) - 1 /\ Head(s) \in S
  BY HeadTailProperties

----------------------------------------------------------------------------
(* Lists of bonds.                                                         *)

\* saturating_sub stays in the balance type.
LEMMA SatSubType == \A a, b \in Nat : SatSub(a, b) \in Nat
  BY DEF SatSub

\* So does addition.
LEMMA AddType == \A a, b \in Nat : a + b \in Nat
  OBVIOUS

\* The delegation count of a book that gains a bond in one list or the other.
LEMMA CountUp ==
  \A k : \A m, n \in Nat : k = m + n => k + 1 = m + (n + 1) /\ k + 1 = (m + 1) + n
  OBVIOUS

\* The delegation count of a book that loses a top bond.
LEMMA CountDownTop ==
  \A k : \A m, n \in Nat : k = m + n /\ m > 0 => SatSub(k, 1) = (m - 1) + n
  BY DEF SatSub

\* The same for a bottom bond.
LEMMA CountDownBottom ==
  \A k : \A m, n \in Nat : k = m + n /\ n > 0 => SatSub(k, 1) = m + (n - 1)
  BY DEF SatSub

\* The delegation count of a book in which a bond moves up.
LEMMA CountMove ==
  \A k : \A m, n \in Nat : k = m + n /\ n > 0 => k = (m + 1) + (n - 1)
  OBVIOUS

\* The number of positions of a list of length n.
LEMMA IntervalSize ==
  ASSUME NEW n \in Nat
  PROVE  IsFiniteSet(1 .. n) /\ Cardinality(1 .. n) = n
<1>1. IsFiniteSet(1 .. n) /\ Cardinality(1 .. n) = IF 1 > n THEN 0 ELSE n - 1 + 1
  BY FS_Interval, 1 \in Int, n \in Int, Zenon
<1> QED
  BY <1>1

\* A set of positions of a list has at most as many elements as the list.
LEMMA PositionsBound ==
  ASSUME NEW S, NEW s \in Seq(S), NEW P, P \subseteq DOMAIN s
  PROVE  Cardinality(P) \in 0 .. Len(s)
<1>1. DOMAIN s = 1 .. Len(s) /\ Len(s) \in Nat
  BY LenProperties
<1>2. IsFiniteSet(1 .. Len(s)) /\ Cardinality(1 .. Len(s)) = Len(s)
  BY <1>1, IntervalSize
<1>3. IsFiniteSet(P) /\ Cardinality(P) <= Cardinality(1 .. Len(s))
  BY <1>1, <1>2, FS_Subset
<1>4. Cardinality(P) \in Nat
  BY <1>3, FS_CardinalityType
<1> QED
  BY <1>1, <1>2, <1>3, <1>4

\* insert_sorted_greatest_to_least adds one bond to a list of bonds.
LEMMA InsertSortedType ==
  ASSUME NEW s \in Seq(Bond), NEW x \in Bond
  PROVE  /\ insert_sorted_greatest_to_least(s, x) \in Seq(Bond)
         /\ Len(insert_sorted_greatest_to_least(s, x)) = Len(s) + 1
<1> DEFINE n == Cardinality({i \in DOMAIN s : s[i].amount >= x.amount})
<1>1. n \in 0 .. Len(s)
  BY PositionsBound
<1> HIDE DEF n
<1>2. n + 1 \in 1 .. Len(s) + 1
  BY <1>1, LenProperties
<1>3. InsertAt(s, n + 1, x) \in Seq(Bond) /\ Len(InsertAt(s, n + 1, x)) = Len(s) + 1
  BY <1>2, InsertAtType
<1> QED
  BY <1>3 DEF insert_sorted_greatest_to_least, n

\* Sorting again after one amount changed keeps the list a list of as many bonds.
LEMMA SortType ==
  ASSUME NEW s \in Seq(Bond), NEW i \in DOMAIN s, NEW a \in Nat
  PROVE  /\ sort_greatest_to_least(s, i, a) \in Seq(Bond)
         /\ Len(sort_greatest_to_least(s, i, a)) = Len(s)
<1> DEFINE P == {j \in DOMAIN s : \/ j < i /\ s[j].amount >= a
                                  \/ j > i /\ s[j].amount > a}
           n == Cardinality(P)
           r == RemoveAt(s, i)
           x == [s[i] EXCEPT !.amount = a]
<1>0. DOMAIN s = 1 .. Len(s) /\ Len(s) \in Nat
  BY LenProperties
<1>1. r \in Seq(Bond) /\ Len(r) = Len(s) - 1
  BY <1>0, RemoveAtType
<1>2. x \in Bond
  <2>1. s[i] \in Bond
    BY <1>0
  <2> QED
    BY <2>1 DEF Bond
<1>3. n \in 0 .. Len(s) - 1
  <2>1. P \subseteq DOMAIN s \ {i}
    BY <1>0
  <2>2. IsFiniteSet(DOMAIN s) /\ Cardinality(DOMAIN s) = Len(s)
    BY <1>0, IntervalSize
  <2>3. IsFiniteSet(DOMAIN s \ {i}) /\ Cardinality(DOMAIN s \ {i}) = Len(s) - 1
    BY <2>2, FS_RemoveElement
  <2>4. IsFiniteSet(P) /\ Cardinality(P) <= Len(s) - 1
    BY <2>1, <2>3, FS_Subset
  <2> QED
    BY <1>0, <2>4, FS_CardinalityType
<1>4. sort_greatest_to_least(s, i, a) = InsertAt(r, n + 1, x)
  BY DEF sort_greatest_to_least
<1> HIDE DEF P, n, r, x
<1>5. n + 1 \in 1 .. Len(r) + 1
  BY <1>0, <1>1, <1>3
<1>6. InsertAt(r, n + 1, x) \in Seq(Bond) /\ Len(InsertAt(r, n + 1, x)) = Len(r) + 1
  BY <1>1, <1>2, <1>5, InsertAtType
<1> QED
  BY <1>0, <1>1, <1>4, <1>6

\* The position of an owner that is in the list.
LEMMA IndexOfType ==
  ASSUME NEW s \in Seq(Bond), NEW who \in Owners(s)
  PROVE  /\ IndexOf(s, who) \in DOMAIN s
         /\ IndexOf(s, who) \in 1 .. Len(s)
         /\ s[IndexOf(s, who)] \in Bond
         /\ s # <<>>
<1>1. \E i \in DOMAIN s : s[i].owner = who
  BY DEF Owners
<1>2. IndexOf(s, who) \in DOMAIN s
  BY <1>1 DEF IndexOf
<1> QED
  BY <1>2, LenProperties

----------------------------------------------------------------------------
(* Refreshing the metadata.                                                *)

\* A book of its type whose metadata is that of its lists.
GoodBook(b) == b \in Book /\ MetadataOK(b)

\* r is a good book with the self bond of b.
KeepsGood(b, r) == GoodBook(r) /\ r.bond = b.bond

\* The lowest and highest amount and the capacity of a list are of their types.
LEMMA SummaryType ==
  ASSUME NEW s \in Seq(Bond)
  PROVE  /\ lowest_delegation_amount(s) \in Nat
         /\ highest_delegation_amount(s) \in Nat
         /\ top_capacity(s) \in CapacityStatus
         /\ bottom_capacity(s) \in CapacityStatus
<1>1. s # <<>> => s[1] \in Bond /\ s[Len(s)] \in Bond
  BY LenProperties, EmptySeq
<1> QED
  BY <1>1 DEF Bond, lowest_delegation_amount, highest_delegation_amount,
              top_capacity, bottom_capacity, capacity, CapacityStatus

\* reset_top_data installs a top list within capacity with matching metadata
\* and leaves the bottom list and its metadata alone.
LEMMA ResetTop ==
  ASSUME NEW b \in Book, NEW s \in Seq(Bond), NEW t \in Nat,
         Len(s) <= MaxTopDelegationsPerCandidate
  PROVE  LET r == reset_top_data(b, s, t)
         IN  /\ r \in Book
             /\ TopMetadataOK(r)
             /\ BottomMetadataOK(b) => BottomMetadataOK(r)
             /\ r.count = b.count /\ r.bond = b.bond /\ r.top = s /\ r.bottom = b.bottom
<1> DEFINE r == reset_top_data(b, s, t)
<1>1. r \in Book
  <2>1. b.bond + t \in Nat
    BY DEF Book
  <2>2. lowest_delegation_amount(s) \in Nat /\ top_capacity(s) \in CapacityStatus
    BY SummaryType
  <2> QED
    BY <2>1, <2>2 DEF reset_top_data, Book
<1>2. TopMetadataOK(r)
  BY DEF TopMetadataOK, reset_top_data, Book
<1>3. BottomMetadataOK(b) => BottomMetadataOK(r)
  BY DEF BottomMetadataOK, reset_top_data, Book
<1>4. r.count = b.count /\ r.bond = b.bond /\ r.top = s /\ r.bottom = b.bottom
  BY DEF reset_top_data, Book
<1> QED
  BY <1>1, <1>2, <1>3, <1>4

\* reset_bottom_data does the same for the bottom list.
LEMMA ResetBottom ==
  ASSUME NEW b \in Book, NEW s \in Seq(Bond), NEW t \in Nat,
         Len(s) <= MaxBottomDelegationsPerCandidate
  PROVE  LET r == reset_bottom_data(b, s, t)
         IN  /\ r \in Book
             /\ BottomMetadataOK(r)
             /\ TopMetadataOK(b) => TopMetadataOK(r)
             /\ r.count = b.count /\ r.bond = b.bond /\ r.top = b.top /\ r.bottom = s
<1> DEFINE r == reset_bottom_data(b, s, t)
<1>1. r \in Book
  BY SummaryType DEF reset_bottom_data, Book
<1>2. BottomMetadataOK(r)
  BY DEF BottomMetadataOK, reset_bottom_data, Book
<1>3. TopMetadataOK(b) => TopMetadataOK(r)
  BY DEF TopMetadataOK, reset_bottom_data, Book
<1>4. r.count = b.count /\ r.bond = b.bond /\ r.top = b.top /\ r.bottom = s
  BY DEF reset_bottom_data, Book
<1> QED
  BY <1>1, <1>2, <1>3, <1>4

\* Changing the count touches nothing else.
LEMMA SetCount ==
  ASSUME NEW b \in Book, NEW n \in Nat
  PROVE  LET r == [b EXCEPT !.count = n]
         IN  /\ r \in Book
             /\ TopMetadataOK(b) => TopMetadataOK(r)
             /\ BottomMetadataOK(b) => BottomMetadataOK(r)
             /\ r.count = n /\ r.bond = b.bond /\ r.top = b.top /\ r.bottom = b.bottom
  BY DEF Book, TopMetadataOK, BottomMetadataOK

\* The facts about a good book that the operations rely on: a list is empty or
\* full exactly when its cached capacity says so.
LEMMA GoodBookFacts ==
  ASSUME NEW b, GoodBook(b)
  PROVE  /\ b \in Book
         /\ b.top \in Seq(Bond) /\ b.bottom \in Seq(Bond)
         /\ b.topTotal \in Nat /\ b.bottomTotal \in Nat /\ b.count \in Nat
         /\ Len(b.top) \in Nat /\ Len(b.bottom) \in Nat
         /\ Len(b.top) <= MaxTopDelegationsPerCandidate
         /\ Len(b.bottom) <= MaxBottomDelegationsPerCandidate
         /\ b.count = Len(b.top) + Len(b.bottom)
         /\ b.topCapacity = "Full" <=> Len(b.top) = MaxTopDelegationsPerCandidate
         /\ b.bottomCapacity = "Full" <=> Len(b.bottom) = MaxBottomDelegationsPerCandidate
         /\ b.bottomCapacity = "Empty" <=> b.bottom = <<>>
<1>1. b \in Book /\ TopMetadataOK(b) /\ BottomMetadataOK(b) /\ b.count = Len(b.top) + Len(b.bottom)
  BY DEF GoodBook, MetadataOK
<1>2. b.top \in Seq(Bond) /\ b.bottom \in Seq(Bond)
      /\ b.topTotal \in Nat /\ b.bottomTotal \in Nat /\ b.count \in Nat
  BY <1>1 DEF Book
<1>3. Len(b.top) \in Nat /\ Len(b.bottom) \in Nat /\ (b.bottom = <<>> <=> Len(b.bottom) = 0)
  BY <1>2, LenProperties, EmptySeq
<1>4. /\ Len(b.top) <= MaxTopDelegationsPerCandidate
      /\ b.topCapacity = capacity(b.top, MaxTopDelegationsPerCandidate)
      /\ Len(b.bottom) <= MaxBottomDelegationsPerCandidate
      /\ b.bottomCapacity = capacity(b.bottom, MaxBottomDelegationsPerCandidate)
  BY <1>1 DEF TopMetadataOK, BottomMetadataOK, top_capacity, bottom_capacity
<1>5. b.topCapacity = "Full" <=> Len(b.top) = MaxTopDelegationsPerCandidate
  BY <1>3, <1>4, CapacityAssumption DEF capacity
<1>6. /\ b.bottomCapacity = "Full" <=> Len(b.bottom) = MaxBottomDelegationsPerCandidate
      /\ b.bottomCapacity = "Empty" <=> b.bottom = <<>>
  BY <1>3, <1>4, CapacityAssumption DEF capacity
<1> QED
  BY <1>1, <1>2, <1>3, <1>4, <1>5, <1>6

----------------------------------------------------------------------------
(* Every operation keeps a good book good.                                 *)

\* A candidate starts with a good book.
LEMMA EmptyBookGood == GoodBook(EmptyBook)
<1>1. EmptyBook \in Book
  BY DEF EmptyBook, Book, CapacityStatus
<1>2. Len(<<>>) = 0
  OBVIOUS
<1>3. MetadataOK(EmptyBook)
  BY <1>2, CapacityAssumption DEF EmptyBook, MetadataOK, TopMetadataOK, BottomMetadataOK,
     lowest_delegation_amount, highest_delegation_amount, top_capacity, bottom_capacity, capacity
<1> QED
  BY <1>1, <1>3 DEF GoodBook

\* add_bottom_delegation: the bottom stays within capacity, and the count rises
\* exactly when a delegation new to the book found a free place.
LEMMA AddBottom ==
  ASSUME NEW b, GoodBook(b), NEW x \in Bond, NEW bumped \in BOOLEAN
  PROVE  LET r == add_bottom_delegation(bumped, b, x)
         IN  /\ r \in Book /\ TopMetadataOK(r) /\ BottomMetadataOK(r)
             /\ r.top = b.top /\ r.bond = b.bond
             /\ r.count = IF bumped \/ b.bottomCapacity = "Full" THEN b.count ELSE b.count + 1
             /\ Len(r.bottom) = IF b.bottomCapacity = "Full" THEN Len(b.bottom)
                                                             ELSE Len(b.bottom) + 1
<1> DEFINE full  == Len(b.bottom) = MaxBottomDelegationsPerCandidate
           s     == IF full THEN Front(b.bottom) ELSE b.bottom
           t     == IF full THEN SatSub(b.bottomTotal, Last(b.bottom).amount)
                            ELSE b.bottomTotal
           n     == IF full \/ bumped THEN b.count ELSE b.count + 1
           b1    == [b EXCEPT !.count = n]
           s1    == insert_sorted_greatest_to_least(s, x)
           t1    == t + x.amount
<1>0. add_bottom_delegation(bumped, b, x) = reset_bottom_data(b1, s1, t1)
  BY DEF add_bottom_delegation
<1>1. /\ b \in Book /\ b.bottom \in Seq(Bond) /\ b.bottomTotal \in Nat /\ b.count \in Nat
      /\ Len(b.bottom) \in Nat /\ Len(b.bottom) <= MaxBottomDelegationsPerCandidate
      /\ b.bottomCapacity = "Full" <=> full
  BY GoodBookFacts
<1>2. TopMetadataOK(b) /\ BottomMetadataOK(b)
  BY DEF GoodBook, MetadataOK
<1>3. full => /\ b.bottom # <<>> /\ Front(b.bottom) \in Seq(Bond)
              /\ Len(Front(b.bottom)) = Len(b.bottom) - 1 /\ Last(b.bottom) \in Bond
  BY <1>1, FrontLastType, CapacityAssumption, EmptySeq
<1>4. s \in Seq(Bond) /\ Len(s) = IF full THEN Len(b.bottom) - 1 ELSE Len(b.bottom)
  BY <1>1, <1>3
<1>5. t \in Nat
  BY <1>1, <1>3, SatSubType DEF Bond
<1>6. t1 \in Nat
  BY <1>5 DEF Bond
<1>7. n \in Nat
  BY <1>1
<1> HIDE DEF s, t, n
<1>8. s1 \in Seq(Bond) /\ Len(s1) = Len(s) + 1
  BY <1>4, InsertSortedType
<1>9. Len(s1) <= MaxBottomDelegationsPerCandidate
  BY <1>1, <1>4, <1>8, CapacityAssumption
<1>10. /\ b1 \in Book /\ TopMetadataOK(b1) /\ BottomMetadataOK(b1)
       /\ b1.count = n /\ b1.bond = b.bond /\ b1.top = b.top /\ b1.bottom = b.bottom
  BY <1>1, <1>2, <1>7, SetCount
<1> HIDE DEF b1, s1, t1
<1>11. LET r == reset_bottom_data(b1, s1, t1)
       IN  /\ r \in Book /\ BottomMetadataOK(r) /\ TopMetadataOK(r)
           /\ r.count = n /\ r.bond = b.bond /\ r.top = b.top /\ r.bottom = s1
  BY <1>6, <1>8, <1>9, <1>10, ResetBottom
<1> QED
  BY <1>0, <1>1, <1>4, <1>8, <1>11 DEF n

\* add_top_delegation: the lowest top delegation makes room in a full top.
LEMMA AddTop ==
  ASSUME NEW b, GoodBook(b), NEW x \in Bond
  PROVE  KeepsGood(b, add_top_delegation(b, x))
<1> DEFINE full  == Len(b.top) = MaxTopDelegationsPerCandidate
           s     == IF full THEN Front(b.top) ELSE b.top
           t     == IF full THEN SatSub(b.topTotal, Last(b.top).amount) ELSE b.topTotal
           below == IF full THEN add_bottom_delegation(TRUE, b, Last(b.top)) ELSE b
           kicks == full /\ b.bottomCapacity = "Full"
           n     == IF kicks THEN below.count ELSE below.count + 1
           b1    == [below EXCEPT !.count = n]
           s1    == insert_sorted_greatest_to_least(s, x)
           t1    == t + x.amount
<1>0. add_top_delegation(b, x) = reset_top_data(b1, s1, t1)
  BY DEF add_top_delegation
<1>1. /\ b \in Book /\ b.top \in Seq(Bond) /\ b.topTotal \in Nat /\ b.count \in Nat
      /\ Len(b.top) \in Nat /\ Len(b.top) <= MaxTopDelegationsPerCandidate
      /\ Len(b.bottom) \in Nat
      /\ b.count = Len(b.top) + Len(b.bottom)
  BY GoodBookFacts
<1>2. TopMetadataOK(b) /\ BottomMetadataOK(b)
  BY DEF GoodBook, MetadataOK
<1>3. full => /\ b.top # <<>> /\ Front(b.top) \in Seq(Bond)
              /\ Len(Front(b.top)) = Len(b.top) - 1 /\ Last(b.top) \in Bond
  BY <1>1, FrontLastType, CapacityAssumption, EmptySeq
<1>4. s \in Seq(Bond) /\ Len(s) = IF full THEN Len(b.top) - 1 ELSE Len(b.top)
  BY <1>1, <1>3
<1>5. t \in Nat
  BY <1>1, <1>3, SatSubType DEF Bond
<1>6. t1 \in Nat
  BY <1>5 DEF Bond
<1>7. /\ below \in Book /\ TopMetadataOK(below) /\ BottomMetadataOK(below)
      /\ below.count = b.count /\ below.bond = b.bond
      /\ Len(below.bottom) = IF full /\ b.bottomCapacity # "Full" THEN Len(b.bottom) + 1
                                                                  ELSE Len(b.bottom)
  BY <1>1, <1>2, <1>3, AddBottom
<1> HIDE DEF s, t, below, kicks
<1>8. n \in Nat /\ n = IF kicks THEN b.count ELSE b.count + 1
  <2>1. below.count = b.count /\ b.count \in Nat
    BY <1>1, <1>7
  <2> QED
    BY <2>1
<1>9. s1 \in Seq(Bond) /\ Len(s1) = Len(s) + 1
  BY <1>4, InsertSortedType
<1>10. Len(s1) <= MaxTopDelegationsPerCandidate
  BY <1>1, <1>4, <1>9, CapacityAssumption
<1>11. /\ b1 \in Book /\ TopMetadataOK(b1) /\ BottomMetadataOK(b1)
       /\ b1.count = n /\ b1.bond = b.bond /\ b1.bottom = below.bottom
  BY <1>7, <1>8, SetCount
<1>12. n = Len(s1) + Len(below.bottom)
  <2>1. Len(below.bottom) = IF full /\ ~kicks THEN Len(b.bottom) + 1 ELSE Len(b.bottom)
    BY <1>7 DEF kicks
  <2>2. Len(s1) = IF full THEN Len(b.top) ELSE Len(b.top) + 1
    BY <1>1, <1>4, <1>9
  <2>3. kicks => full
    BY DEF kicks
  <2> HIDE DEF n, s1, full
  <2>4. CASE kicks
    BY <1>1, <1>8, <2>1, <2>2, <2>3, <2>4
  <2>5. CASE full /\ ~kicks
    <3>1. n = b.count + 1 /\ Len(below.bottom) = Len(b.bottom) + 1 /\ Len(s1) = Len(b.top)
      BY <1>8, <2>1, <2>2, <2>5
    <3>2. b.count + 1 = Len(b.top) + (Len(b.bottom) + 1)
      BY <1>1, CountUp, Zenon
    <3> QED
      BY <3>1, <3>2, Zenon
  <2>6. CASE ~full
    <3>1. n = b.count + 1 /\ Len(below.bottom) = Len(b.bottom) /\ Len(s1) = Len(b.top) + 1
      BY <1>8, <2>1, <2>2, <2>3, <2>6
    <3>2. b.count + 1 = (Len(b.top) + 1) + Len(b.bottom)
      BY <1>1, CountUp, Zenon
    <3> QED
      BY <3>1, <3>2, Zenon
  <2> QED
    BY <2>3, <2>4, <2>5, <2>6
<1> HIDE DEF b1, s1, t1, n
<1>13. LET r == reset_top_data(b1, s1, t1)
       IN  /\ r \in Book /\ TopMetadataOK(r) /\ BottomMetadataOK(r)
           /\ r.count = n /\ r.bond = b.bond /\ r.top = s1 /\ r.bottom = below.bottom
  BY <1>6, <1>9, <1>10, <1>11, ResetTop
<1> QED
  BY <1>0, <1>12, <1>13 DEF KeepsGood, GoodBook, MetadataOK

\* add_delegation, whichever list takes the bond.
LEMMA AddDelegation ==
  ASSUME NEW b, GoodBook(b), NEW x \in Bond
  PROVE  KeepsGood(b, add_delegation(b, x))
<1>1. CASE AddsToBottom(b, x)
  <2> DEFINE r == add_bottom_delegation(FALSE, b, x)
  <2>1. /\ r \in Book /\ TopMetadataOK(r) /\ BottomMetadataOK(r) /\ r.top = b.top /\ r.bond = b.bond
        /\ r.count = IF b.bottomCapacity = "Full" THEN b.count ELSE b.count + 1
        /\ Len(r.bottom) = IF b.bottomCapacity = "Full" THEN Len(b.bottom) ELSE Len(b.bottom) + 1
    BY AddBottom
  <2>2. b.count = Len(b.top) + Len(b.bottom) /\ Len(b.top) \in Nat /\ Len(b.bottom) \in Nat
    BY GoodBookFacts
  <2>3. add_delegation(b, x) = r
    BY <1>1 DEF add_delegation
  <2> HIDE DEF r
  <2>4. r.count = Len(r.top) + Len(r.bottom)
    <3>1. CASE b.bottomCapacity = "Full"
      BY <2>1, <2>2, <3>1
    <3>2. CASE b.bottomCapacity # "Full"
      <4>1. r.count = b.count + 1 /\ Len(r.bottom) = Len(b.bottom) + 1 /\ r.top = b.top
        BY <2>1, <3>2
      <4>2. b.count + 1 = Len(b.top) + (Len(b.bottom) + 1)
        BY <2>2, CountUp, Zenon
      <4> QED
        BY <4>1, <4>2, Zenon
    <3> QED
      BY <3>1, <3>2
  <2> QED
    BY <2>1, <2>3, <2>4 DEF KeepsGood, GoodBook, MetadataOK
<1>2. CASE ~AddsToBottom(b, x)
  BY <1>2, AddTop DEF add_delegation
<1> QED
  BY <1>1, <1>2

\* A refreshed top list that agrees with the count gives a good book.
LEMMA NewTop ==
  ASSUME NEW b \in Book, BottomMetadataOK(b), NEW s \in Seq(Bond), NEW t \in Nat,
         Len(s) <= MaxTopDelegationsPerCandidate, b.count = Len(s) + Len(b.bottom)
  PROVE  KeepsGood(b, reset_top_data(b, s, t))
  BY ResetTop DEF KeepsGood, GoodBook, MetadataOK

\* A refreshed bottom list that agrees with the count gives a good book.
LEMMA NewBottom ==
  ASSUME NEW b \in Book, TopMetadataOK(b), NEW z \in Seq(Bond), NEW u \in Nat,
         Len(z) <= MaxBottomDelegationsPerCandidate, b.count = Len(b.top) + Len(z)
  PROVE  KeepsGood(b, reset_bottom_data(b, z, u))
  BY ResetBottom DEF KeepsGood, GoodBook, MetadataOK

\* Both lists refreshed, in either order.
LEMMA NewBoth ==
  ASSUME NEW b \in Book, NEW s \in Seq(Bond), NEW t \in Nat, NEW z \in Seq(Bond), NEW u \in Nat,
         Len(s) <= MaxTopDelegationsPerCandidate, Len(z) <= MaxBottomDelegationsPerCandidate,
         b.count = Len(s) + Len(z)
  PROVE  /\ KeepsGood(b, reset_bottom_data(reset_top_data(b, s, t), z, u))
         /\ KeepsGood(b, reset_top_data(reset_bottom_data(b, z, u), s, t))
<1> DEFINE r == reset_top_data(b, s, t)
           q == reset_bottom_data(b, z, u)
<1>1. r \in Book /\ TopMetadataOK(r) /\ r.count = b.count /\ r.bond = b.bond /\ r.top = s
  BY ResetTop
<1>2. q \in Book /\ BottomMetadataOK(q) /\ q.count = b.count /\ q.bond = b.bond /\ q.bottom = z
  BY ResetBottom
<1> HIDE DEF r, q
<1>3. KeepsGood(r, reset_bottom_data(r, z, u))
  BY <1>1, NewBottom
<1>4. KeepsGood(q, reset_top_data(q, s, t))
  BY <1>2, NewTop
<1> QED
  BY <1>1, <1>2, <1>3, <1>4 DEF r, q, KeepsGood

\* rm_top_delegation: the highest bottom delegation, if any, moves up.
LEMMA RmTop ==
  ASSUME NEW b, GoodBook(b), NEW who \in Owners(b.top)
  PROVE  KeepsGood(b, rm_top_delegation(b, who))
<1> DEFINE i    == IndexOf(b.top, who)
           s    == RemoveAt(b.top, i)
           t    == SatSub(b.topTotal, b.top[i].amount)
           next == Head(b.bottom)
           n    == SatSub(b.count, 1)
           b1   == [b EXCEPT !.count = n]
           s1   == insert_sorted_greatest_to_least(s, next)
           t1   == t + next.amount
           z    == Tail(b.bottom)
           u    == SatSub(b.bottomTotal, next.amount)
<1>1. /\ b \in Book /\ b.top \in Seq(Bond) /\ b.bottom \in Seq(Bond)
      /\ b.topTotal \in Nat /\ b.bottomTotal \in Nat /\ b.count \in Nat
      /\ Len(b.top) \in Nat /\ Len(b.bottom) \in Nat
      /\ Len(b.top) <= MaxTopDelegationsPerCandidate
      /\ Len(b.bottom) <= MaxBottomDelegationsPerCandidate
      /\ b.count = Len(b.top) + Len(b.bottom)
      /\ b.bottomCapacity = "Empty" <=> b.bottom = <<>>
  BY GoodBookFacts
<1>2. BottomMetadataOK(b)
  BY DEF GoodBook, MetadataOK
<1>3. i \in 1 .. Len(b.top) /\ b.top[i] \in Bond
  BY <1>1, IndexOfType
<1>4. t \in Nat /\ n \in Nat
  BY <1>1, <1>3, SatSubType DEF Bond
<1> HIDE DEF i
<1>5. s \in Seq(Bond) /\ Len(s) = Len(b.top) - 1 /\ Len(b.top) > 0
  BY <1>1, <1>3, RemoveAtType
<1>6. n = (Len(b.top) - 1) + Len(b.bottom)
  BY <1>1, <1>5, CountDownTop, Zenon
<1> HIDE DEF n
<1>7. /\ b1 \in Book /\ BottomMetadataOK(b1) /\ b1.count = n /\ b1.bond = b.bond
      /\ b1.bottom = b.bottom
  BY <1>1, <1>2, <1>4, SetCount
<1> HIDE DEF s, t, b1
<1>8. CASE b.bottomCapacity = "Empty"
  <2>1. rm_top_delegation(b, who) = reset_top_data(b1, s, t)
    BY <1>8 DEF rm_top_delegation, s, t, b1, n, i
  <2>2. b1.count = Len(s) + Len(b1.bottom)
    BY <1>5, <1>6, <1>7, Zenon
  <2>3. Len(s) <= MaxTopDelegationsPerCandidate
    BY <1>1, <1>5, CapacityAssumption
  <2>4. KeepsGood(b1, reset_top_data(b1, s, t))
    BY <1>4, <1>5, <1>7, <2>2, <2>3, NewTop
  <2> QED
    BY <1>7, <2>1, <2>4 DEF KeepsGood
<1>9. CASE b.bottomCapacity # "Empty"
  <2>1. rm_top_delegation(b, who) = reset_top_data(reset_bottom_data(b1, z, u), s1, t1)
    BY <1>9 DEF rm_top_delegation, s, t, b1, n, i
  <2>2. z \in Seq(Bond) /\ Len(z) = Len(b.bottom) - 1 /\ next \in Bond
    BY <1>1, <1>9, HeadTailType
  <2>3. t1 \in Nat /\ u \in Nat
    <3>1. next.amount \in Nat
      BY <2>2 DEF Bond
    <3> HIDE DEF next
    <3>2. t1 \in Nat
      BY <1>4, <3>1, AddType, Zenon
    <3>3. u \in Nat
      BY <1>1, <3>1, SatSubType, Zenon
    <3> QED
      BY <3>2, <3>3
  <2> HIDE DEF next, u, z, t1
  <2>4. s1 \in Seq(Bond) /\ Len(s1) = Len(s) + 1
    BY <1>5, <2>2, InsertSortedType
  <2> HIDE DEF s1
  <2>5. Len(s1) = Len(b.top) /\ Len(b.bottom) > 0
    <3>1. Len(s1) = Len(b.top)
      BY <1>1, <1>5, <2>4
    <3>2. Len(b.bottom) # 0
      BY <1>1, <1>9, EmptySeq
    <3> QED
      BY <1>1, <3>1, <3>2
  <2>6. n = Len(b.top) + (Len(b.bottom) - 1)
    <3>1. Len(b.top) \in Nat /\ Len(b.bottom) \in Nat /\ b.count = Len(b.top) + Len(b.bottom)
      BY <1>1
    <3> QED
      BY <2>5, <3>1, CountDownBottom, Zenon DEF n
  <2>7. b1.count = Len(s1) + Len(z)
    BY <1>7, <2>2, <2>5, <2>6, Zenon
  <2>8. Len(s1) <= MaxTopDelegationsPerCandidate /\ Len(z) <= MaxBottomDelegationsPerCandidate
    BY <1>1, <2>2, <2>5, CapacityAssumption
  <2>9. KeepsGood(b1, reset_top_data(reset_bottom_data(b1, z, u), s1, t1))
    BY <1>7, <2>2, <2>3, <2>4, <2>7, <2>8, NewBoth
  <2> QED
    BY <1>7, <2>1, <2>9 DEF KeepsGood
<1> QED
  BY <1>8, <1>9

\* rm_bottom_delegation
LEMMA RmBottom ==
  ASSUME NEW b, GoodBook(b), NEW who \in Owners(b.bottom)
  PROVE  KeepsGood(b, rm_bottom_delegation(b, who))
<1> DEFINE i  == IndexOf(b.bottom, who)
           z  == RemoveAt(b.bottom, i)
           u  == SatSub(b.bottomTotal, b.bottom[i].amount)
           n  == SatSub(b.count, 1)
           b1 == [b EXCEPT !.count = n]
<1>1. /\ b \in Book /\ b.bottom \in Seq(Bond)
      /\ b.bottomTotal \in Nat /\ b.count \in Nat
      /\ Len(b.top) \in Nat /\ Len(b.bottom) \in Nat
      /\ Len(b.bottom) <= MaxBottomDelegationsPerCandidate
      /\ b.count = Len(b.top) + Len(b.bottom)
  BY GoodBookFacts
<1>2. TopMetadataOK(b)
  BY DEF GoodBook, MetadataOK
<1>3. i \in 1 .. Len(b.bottom) /\ b.bottom[i] \in Bond
  BY <1>1, IndexOfType
<1>4. u \in Nat /\ n \in Nat
  <2>1. b.bottom[i].amount \in Nat
    BY <1>3 DEF Bond
  <2>2. u \in Nat
    BY <1>1, <2>1, SatSubType, Zenon
  <2>3. n \in Nat
    BY <1>1, SatSubType
  <2> QED
    BY <2>2, <2>3
<1>5. rm_bottom_delegation(b, who) = reset_bottom_data(b1, z, u)
  BY DEF rm_bottom_delegation
<1> HIDE DEF i
<1>6. z \in Seq(Bond) /\ Len(z) = Len(b.bottom) - 1 /\ Len(b.bottom) > 0
  <2>1. z \in Seq(Bond) /\ Len(z) = Len(b.bottom) - 1
    BY <1>1, <1>3, RemoveAtType
  <2>2. Len(b.bottom) > 0
    BY <1>1, <1>3
  <2> QED
    BY <2>1, <2>2
<1>7. n = Len(b.top) + (Len(b.bottom) - 1)
  <2>1. Len(b.top) \in Nat /\ Len(b.bottom) \in Nat /\ b.count = Len(b.top) + Len(b.bottom)
    BY <1>1
  <2> QED
    BY <1>6, <2>1, CountDownBottom, Zenon
<1> HIDE DEF n
<1>8. b1 \in Book /\ TopMetadataOK(b1) /\ b1.count = n /\ b1.bond = b.bond /\ b1.top = b.top
  BY <1>1, <1>2, <1>4, SetCount
<1> HIDE DEF z, u, b1
<1>9. b1.count = Len(b1.top) + Len(z)
  BY <1>6, <1>7, <1>8, Zenon
<1>10. Len(z) <= MaxBottomDelegationsPerCandidate
  BY <1>1, <1>6, CapacityAssumption
<1>11. KeepsGood(b1, reset_bottom_data(b1, z, u))
  BY <1>4, <1>6, <1>8, <1>9, <1>10, NewBottom
<1> QED
  BY <1>5, <1>8, <1>11 DEF KeepsGood

\* rm_delegation_if_exists, when the list it looks in has the delegation.
LEMMA RmDelegation ==
  ASSUME NEW b, GoodBook(b), NEW who, NEW amount, can_rm_delegation(b, who, amount)
  PROVE  KeepsGood(b, rm_delegation_if_exists(b, who, amount))
<1>1. CASE RemovesFromTop(b, who, amount)
  <2>1. who \in Owners(b.top)
    BY <1>1 DEF can_rm_delegation
  <2> QED
    BY <1>1, <2>1, RmTop DEF rm_delegation_if_exists
<1>2. CASE ~RemovesFromTop(b, who, amount)
  <2>1. who \in Owners(b.bottom)
    BY <1>2 DEF can_rm_delegation
  <2> QED
    BY <1>2, <2>1, RmBottom DEF rm_delegation_if_exists
<1> QED
  BY <1>1, <1>2

\* A top list of the same length leaves the count right.
LEMMA SameLengthTop ==
  ASSUME NEW b, GoodBook(b), NEW s \in Seq(Bond), Len(s) = Len(b.top), NEW t \in Nat
  PROVE  KeepsGood(b, reset_top_data(b, s, t))
<1>1. /\ b \in Book /\ Len(b.top) <= MaxTopDelegationsPerCandidate
      /\ b.count = Len(b.top) + Len(b.bottom)
  BY GoodBookFacts
<1>2. BottomMetadataOK(b)
  BY DEF GoodBook, MetadataOK
<1>3. b.count = Len(s) + Len(b.bottom) /\ Len(s) <= MaxTopDelegationsPerCandidate
  BY <1>1, Zenon
<1> QED
  BY <1>1, <1>2, <1>3, NewTop

\* A bottom list of the same length leaves the count right.
LEMMA SameLengthBottom ==
  ASSUME NEW b, GoodBook(b), NEW z \in Seq(Bond), Len(z) = Len(b.bottom), NEW u \in Nat
  PROVE  KeepsGood(b, reset_bottom_data(b, z, u))
<1>1. /\ b \in Book /\ Len(b.bottom) <= MaxBottomDelegationsPerCandidate
      /\ b.count = Len(b.top) + Len(b.bottom)
  BY GoodBookFacts
<1>2. TopMetadataOK(b)
  BY DEF GoodBook, MetadataOK
<1>3. b.count = Len(b.top) + Len(z) /\ Len(z) <= MaxBottomDelegationsPerCandidate
  BY <1>1, Zenon
<1> QED
  BY <1>1, <1>2, <1>3, NewBottom

\* Two lists of the same lengths, written in either order.
LEMMA SameLengthBoth ==
  ASSUME NEW b, GoodBook(b), NEW s \in Seq(Bond), Len(s) = Len(b.top), NEW t \in Nat,
         NEW z \in Seq(Bond), Len(z) = Len(b.bottom), NEW u \in Nat
  PROVE  /\ KeepsGood(b, reset_bottom_data(reset_top_data(b, s, t), z, u))
         /\ KeepsGood(b, reset_top_data(reset_bottom_data(b, z, u), s, t))
<1>1. /\ b \in Book /\ Len(b.bottom) <= MaxBottomDelegationsPerCandidate
      /\ Len(b.top) <= MaxTopDelegationsPerCandidate
      /\ b.count = Len(b.top) + Len(b.bottom)
  BY GoodBookFacts
<1>2. /\ b.count = Len(s) + Len(z) /\ Len(s) <= MaxTopDelegationsPerCandidate
      /\ Len(z) <= MaxBottomDelegationsPerCandidate
  BY <1>1, Zenon
<1> QED
  BY <1>1, <1>2, NewBoth

\* increase_top_delegation
LEMMA IncreaseTop ==
  ASSUME NEW b, GoodBook(b), NEW who \in Owners(b.top), NEW more \in Nat
  PROVE  KeepsGood(b, increase_top_delegation(b, who, more))
<1> DEFINE i == IndexOf(b.top, who)
           a == b.top[i].amount + more
           s == sort_greatest_to_least(b.top, i, a)
           t == b.topTotal + more
<1>1. b.top \in Seq(Bond) /\ b.topTotal \in Nat
  BY GoodBookFacts
<1>2. i \in DOMAIN b.top /\ b.top[i] \in Bond
  BY <1>1, IndexOfType
<1>3. increase_top_delegation(b, who, more) = reset_top_data(b, s, t)
  BY DEF increase_top_delegation
<1> HIDE DEF i
<1>4. a \in Nat /\ t \in Nat
  <2>1. b.top[i].amount \in Nat
    BY <1>2 DEF Bond
  <2> QED
    BY <1>1, <2>1, AddType, Zenon
<1> HIDE DEF a, t
<1>5. s \in Seq(Bond) /\ Len(s) = Len(b.top)
  BY <1>1, <1>2, <1>4, SortType
<1> HIDE DEF s
<1> QED
  BY <1>3, <1>4, <1>5, SameLengthTop

\* increase_bottom_delegation: a delegation that outgrows the lowest of the top
\* takes its place, or simply moves up when the top has room.
LEMMA IncreaseBottom ==
  ASSUME NEW b, GoodBook(b), NEW who \in Owners(b.bottom), NEW bond \in Nat, NEW more \in Nat
  PROVE  KeepsGood(b, increase_bottom_delegation(b, who, bond, more))
<1> DEFINE i      == IndexOf(b.bottom, who)
           raised == [b.bottom[i] EXCEPT !.amount = @ + more]
           full   == top_capacity(b.top) = "Full"
           popped == Last(b.top)
           rest   == RemoveAt(b.bottom, i)
           below  == SatSub(b.bottomTotal, bond)
           result == increase_bottom_delegation(b, who, bond, more)
<1>1. /\ b \in Book /\ b.top \in Seq(Bond) /\ b.bottom \in Seq(Bond)
      /\ b.topTotal \in Nat /\ b.bottomTotal \in Nat
      /\ Len(b.top) \in Nat /\ Len(b.bottom) \in Nat
      /\ Len(b.top) <= MaxTopDelegationsPerCandidate
      /\ Len(b.bottom) <= MaxBottomDelegationsPerCandidate
      /\ b.count = Len(b.top) + Len(b.bottom)
  BY GoodBookFacts
<1>2. full <=> Len(b.top) = MaxTopDelegationsPerCandidate
  <2>1. b.topCapacity = "Full" <=> Len(b.top) = MaxTopDelegationsPerCandidate
    BY GoodBookFacts
  <2>2. b.topCapacity = top_capacity(b.top)
    BY DEF GoodBook, MetadataOK, TopMetadataOK
  <2> QED
    BY <2>1, <2>2
<1>3. i \in DOMAIN b.bottom /\ i \in 1 .. Len(b.bottom) /\ b.bottom[i] \in Bond
  BY <1>1, IndexOfType
<1>4. raised \in Bond /\ raised.amount \in Nat
  BY <1>3 DEF Bond
<1>5. below \in Nat
  BY <1>1, SatSubType, Zenon
<1>6. CASE bond + more <= b.lowestTop
  <2> DEFINE z == sort_greatest_to_least(b.bottom, i, raised.amount)
             u == b.bottomTotal + more
  <2>1. result = reset_bottom_data(b, z, u)
    BY <1>6 DEF increase_bottom_delegation
  <2> HIDE DEF i, raised
  <2>2. z \in Seq(Bond) /\ Len(z) = Len(b.bottom)
    BY <1>1, <1>3, <1>4, SortType
  <2>3. u \in Nat
    BY <1>1, AddType, Zenon
  <2> HIDE DEF z, u, result
  <2>4. KeepsGood(b, reset_bottom_data(b, z, u))
    BY <2>2, <2>3, SameLengthBottom
  <2> QED
    BY <2>1, <2>4 DEF result
<1>7. CASE ~(bond + more <= b.lowestTop) /\ full
  <2> DEFINE f == Front(b.top)
             s == insert_sorted_greatest_to_least(f, raised)
             t == SatSub(b.topTotal, popped.amount) + raised.amount
             z == insert_sorted_greatest_to_least(rest, popped)
             u == below + popped.amount
  <2>1. result = reset_bottom_data(reset_top_data(b, s, t), z, u)
    BY <1>7 DEF increase_bottom_delegation
  <2> HIDE DEF i, raised, below
  <2>2. b.top # <<>>
    BY <1>1, <1>2, <1>7, CapacityAssumption, EmptySeq
  <2>3. f \in Seq(Bond) /\ Len(f) = Len(b.top) - 1 /\ popped \in Bond
    BY <1>1, <2>2, FrontLastType
  <2>4. popped.amount \in Nat
    BY <2>3 DEF Bond
  <2>5. rest \in Seq(Bond) /\ Len(rest) = Len(b.bottom) - 1
    BY <1>1, <1>3, RemoveAtType
  <2> HIDE DEF f, popped, rest
  <2>6. SatSub(b.topTotal, popped.amount) \in Nat
    BY <1>1, <2>4, SatSubType, Zenon
  <2>7. t \in Nat /\ u \in Nat
    BY <1>4, <1>5, <2>4, <2>6, AddType, Zenon
  <2>8. s \in Seq(Bond) /\ Len(s) = Len(f) + 1
    BY <1>4, <2>3, InsertSortedType
  <2>9. z \in Seq(Bond) /\ Len(z) = Len(rest) + 1
    BY <2>3, <2>5, InsertSortedType
  <2> HIDE DEF s, t, z, u, result
  <2>10. Len(s) = Len(b.top) /\ Len(z) = Len(b.bottom)
    BY <1>1, <2>3, <2>5, <2>8, <2>9
  <2>11. KeepsGood(b, reset_bottom_data(reset_top_data(b, s, t), z, u))
    BY <2>7, <2>8, <2>9, <2>10, SameLengthBoth
  <2> QED
    BY <2>1, <2>11 DEF result
<1>8. CASE ~(bond + more <= b.lowestTop) /\ ~full
  <2> DEFINE s == insert_sorted_greatest_to_least(b.top, raised)
             t == b.topTotal + raised.amount
  <2>1. result = reset_bottom_data(reset_top_data(b, s, t), rest, below)
    BY <1>8 DEF increase_bottom_delegation
  <2> HIDE DEF i, raised, below
  <2>2. rest \in Seq(Bond) /\ Len(rest) = Len(b.bottom) - 1 /\ Len(b.bottom) > 0
    <3>1. rest \in Seq(Bond) /\ Len(rest) = Len(b.bottom) - 1
      BY <1>1, <1>3, RemoveAtType
    <3>2. Len(b.bottom) > 0
      BY <1>1, <1>3
    <3> QED
      BY <3>1, <3>2
  <2>3. s \in Seq(Bond) /\ Len(s) = Len(b.top) + 1
    BY <1>1, <1>4, InsertSortedType
  <2>4. t \in Nat
    BY <1>1, <1>4, AddType, Zenon
  <2> HIDE DEF s, t, rest, result
  <2>5. b.count = (Len(b.top) + 1) + (Len(b.bottom) - 1)
    BY <1>1, <2>2, CountMove, Zenon
  <2>6. b.count = Len(s) + Len(rest)
    BY <2>2, <2>3, <2>5, Zenon
  <2>7. Len(s) <= MaxTopDelegationsPerCandidate /\ Len(rest) <= MaxBottomDelegationsPerCandidate
    BY <1>1, <1>2, <1>8, <2>2, <2>3, CapacityAssumption
  <2>8. KeepsGood(b, reset_bottom_data(reset_top_data(b, s, t), rest, below))
    BY <1>1, <1>5, <2>2, <2>3, <2>4, <2>6, <2>7, NewBoth
  <2> QED
    BY <2>1, <2>8 DEF result
<1> QED
  BY <1>6, <1>7, <1>8 DEF result

\* increase_delegation, when the list it looks in has the delegation.
LEMMA IncreaseDelegation ==
  ASSUME NEW b, GoodBook(b), NEW who, NEW bond \in Nat, NEW more \in Nat,
         can_change_delegation(b, who, bond)
  PROVE  KeepsGood(b, increase_delegation(b, who, bond, more))
<1>1. CASE LooksInTop(b, who, bond)
  <2>1. who \in Owners(b.top)
    BY <1>1 DEF can_change_delegation
  <2> QED
    BY <1>1, <2>1, IncreaseTop DEF increase_delegation
<1>2. CASE ~LooksInTop(b, who, bond)
  <2>1. who \in Owners(b.bottom)
    BY <1>2 DEF can_change_delegation
  <2> QED
    BY <1>2, <2>1, IncreaseBottom DEF increase_delegation
<1> QED
  BY <1>1, <1>2

\* decrease_top_delegation: a delegation that falls below the highest of the
\* bottom changes places with it.
LEMMA DecreaseTop ==
  ASSUME NEW b, GoodBook(b), NEW who \in Owners(b.top), NEW bond \in Nat, NEW less \in Nat
  PROVE  KeepsGood(b, decrease_top_delegation(b, who, bond, less))
<1> DEFINE i       == IndexOf(b.top, who)
           lowered == [b.top[i] EXCEPT !.amount = SatSub(@, less)]
           next    == Head(b.bottom)
           falls   == /\ SatSub(bond, less) < b.highestBottom
                      /\ b.topCapacity = "Full" /\ b.bottomCapacity # "Empty"
           result  == decrease_top_delegation(b, who, bond, less)
<1>1. /\ b.top \in Seq(Bond) /\ b.bottom \in Seq(Bond)
      /\ b.topTotal \in Nat /\ b.bottomTotal \in Nat
      /\ Len(b.top) \in Nat /\ Len(b.bottom) \in Nat
      /\ b.bottomCapacity = "Empty" <=> b.bottom = <<>>
  BY GoodBookFacts
<1>2. i \in DOMAIN b.top /\ i \in 1 .. Len(b.top) /\ b.top[i] \in Bond
  BY <1>1, IndexOfType
<1>3. b.top[i].amount \in Nat
  BY <1>2 DEF Bond
<1>4. lowered \in Bond /\ lowered.amount \in Nat
  <2>1. SatSub(b.top[i].amount, less) \in Nat
    BY <1>3, SatSubType, Zenon
  <2> QED
    BY <1>2, <2>1 DEF Bond
<1>5. CASE ~falls
  <2> DEFINE s == sort_greatest_to_least(b.top, i, lowered.amount)
             t == SatSub(b.topTotal, less)
  <2>1. result = reset_top_data(b, s, t)
    BY <1>5 DEF decrease_top_delegation
  <2> HIDE DEF i, lowered
  <2>2. s \in Seq(Bond) /\ Len(s) = Len(b.top)
    BY <1>1, <1>2, <1>4, SortType
  <2>3. t \in Nat
    BY <1>1, SatSubType, Zenon
  <2> HIDE DEF s, t, result
  <2>4. KeepsGood(b, reset_top_data(b, s, t))
    BY <2>2, <2>3, SameLengthTop
  <2> QED
    BY <2>1, <2>4 DEF result
<1>6. CASE falls
  <2> DEFINE rest == RemoveAt(b.top, i)
             tail == Tail(b.bottom)
             s    == insert_sorted_greatest_to_least(rest, next)
             t    == SatSub(b.topTotal, b.top[i].amount) + next.amount
             z    == insert_sorted_greatest_to_least(tail, lowered)
             u    == SatSub(b.bottomTotal, next.amount) + lowered.amount
  <2>1. result = reset_top_data(reset_bottom_data(b, z, u), s, t)
    BY <1>6 DEF decrease_top_delegation
  <2>2. tail \in Seq(Bond) /\ Len(tail) = Len(b.bottom) - 1 /\ next \in Bond
    BY <1>1, <1>6, HeadTailType
  <2> HIDE DEF i, lowered, next, tail
  <2>3. next.amount \in Nat
    BY <2>2 DEF Bond
  <2>4. rest \in Seq(Bond) /\ Len(rest) = Len(b.top) - 1
    BY <1>1, <1>2, RemoveAtType
  <2> HIDE DEF rest
  <2>5. SatSub(b.topTotal, b.top[i].amount) \in Nat /\ SatSub(b.bottomTotal, next.amount) \in Nat
    BY <1>1, <1>3, <2>3, SatSubType, Zenon
  <2>6. t \in Nat /\ u \in Nat
    BY <1>4, <2>3, <2>5, AddType, Zenon
  <2>7. s \in Seq(Bond) /\ Len(s) = Len(rest) + 1
    BY <2>2, <2>4, InsertSortedType
  <2>8. z \in Seq(Bond) /\ Len(z) = Len(tail) + 1
    BY <1>4, <2>2, InsertSortedType
  <2> HIDE DEF s, t, z, u, result
  <2>9. Len(s) = Len(b.top) /\ Len(z) = Len(b.bottom)
    BY <1>1, <2>2, <2>4, <2>7, <2>8
  <2>10. KeepsGood(b, reset_top_data(reset_bottom_data(b, z, u), s, t))
    BY <2>6, <2>7, <2>8, <2>9, SameLengthBoth
  <2> QED
    BY <2>1, <2>10 DEF result
<1> QED
  BY <1>5, <1>6 DEF result

\* decrease_bottom_delegation
LEMMA DecreaseBottom ==
  ASSUME NEW b, GoodBook(b), NEW who \in Owners(b.bottom), NEW less \in Nat
  PROVE  KeepsGood(b, decrease_bottom_delegation(b, who, less))
<1> DEFINE i == IndexOf(b.bottom, who)
           a == SatSub(b.bottom[i].amount, less)
           z == sort_greatest_to_least(b.bottom, i, a)
<1>1. b.bottom \in Seq(Bond) /\ b.bottomTotal \in Nat
  BY GoodBookFacts
<1>2. i \in DOMAIN b.bottom /\ b.bottom[i] \in Bond
  BY <1>1, IndexOfType
<1>3. decrease_bottom_delegation(b, who, less) = reset_bottom_data(b, z, b.bottomTotal)
  BY DEF decrease_bottom_delegation
<1> HIDE DEF i
<1>4. a \in Nat
  <2>1. b.bottom[i].amount \in Nat
    BY <1>2 DEF Bond
  <2> QED
    BY <2>1, SatSubType, Zenon
<1> HIDE DEF a
<1>5. z \in Seq(Bond) /\ Len(z) = Len(b.bottom)
  BY <1>1, <1>2, <1>4, SortType
<1> HIDE DEF z
<1> QED
  BY <1>1, <1>3, <1>5, SameLengthBottom

\* decrease_delegation, when the list it looks in has the delegation.
LEMMA DecreaseDelegation ==
  ASSUME NEW b, GoodBook(b), NEW who, NEW bond \in Nat, NEW less \in Nat,
         can_change_delegation(b, who, bond)
  PROVE  KeepsGood(b, decrease_delegation(b, who, bond, less))
<1>1. CASE LooksInTop(b, who, bond)
  <2>1. who \in Owners(b.top)
    BY <1>1 DEF can_change_delegation
  <2> QED
    BY <1>1, <2>1, DecreaseTop DEF decrease_delegation
<1>2. CASE ~LooksInTop(b, who, bond)
  <2>1. who \in Owners(b.bottom)
    BY <1>2 DEF can_change_delegation
  <2> QED
    BY <1>2, <2>1, DecreaseBottom DEF decrease_delegation
<1> QED
  BY <1>1, <1>2

\* bond_more: the self bond and the counted total rise by the same amount.
LEMMA BondMore ==
  ASSUME NEW b, GoodBook(b), NEW more \in Nat
  PROVE  LET r == [b EXCEPT !.bond = @ + more, !.counted = @ + more]
         IN  GoodBook(r) /\ r.bond = b.bond + more
<1> DEFINE m == b.bond + more
           n == b.counted + more
           r == [b EXCEPT !.bond = m, !.counted = n]
<1>1. b \in Book /\ TopMetadataOK(b) /\ BottomMetadataOK(b) /\ b.count = Len(b.top) + Len(b.bottom)
  BY DEF GoodBook, MetadataOK
<1>2. b.bond \in Nat /\ b.topTotal \in Nat /\ b.counted = b.bond + b.topTotal
  BY <1>1 DEF Book, TopMetadataOK
<1>3. m \in Nat /\ n \in Nat /\ n = m + b.topTotal
  BY <1>2
<1> HIDE DEF m, n
<1>4. r \in Book /\ r.bond = m
  BY <1>1, <1>3 DEF Book
<1>5. TopMetadataOK(r) /\ BottomMetadataOK(r) /\ r.count = Len(r.top) + Len(r.bottom)
  BY <1>1, <1>3 DEF Book, TopMetadataOK, BottomMetadataOK
<1> QED
  BY <1>4, <1>5 DEF GoodBook, MetadataOK, m, n

\* execute_bond_less: both fall by the same amount, because the self bond covers
\* it: with a larger amount the saturating subtractions would part.
LEMMA BondLess ==
  ASSUME NEW b, GoodBook(b), NEW less \in Nat, less < b.bond
  PROVE  GoodBook([b EXCEPT !.bond = SatSub(@, less), !.counted = SatSub(@, less)])
<1> DEFINE m == SatSub(b.bond, less)
           n == SatSub(b.counted, less)
           r == [b EXCEPT !.bond = m, !.counted = n]
<1>1. b \in Book /\ TopMetadataOK(b) /\ BottomMetadataOK(b) /\ b.count = Len(b.top) + Len(b.bottom)
  BY DEF GoodBook, MetadataOK
<1>2. b.bond \in Nat /\ b.topTotal \in Nat /\ b.counted = b.bond + b.topTotal
  BY <1>1 DEF Book, TopMetadataOK
<1>3. m \in Nat /\ n \in Nat /\ n = m + b.topTotal
  BY <1>2 DEF SatSub
<1> HIDE DEF m, n
<1>4. r \in Book
  BY <1>1, <1>3 DEF Book
<1>5. TopMetadataOK(r) /\ BottomMetadataOK(r) /\ r.count = Len(r.top) + Len(r.bottom)
  BY <1>1, <1>3 DEF Book, TopMetadataOK, BottomMetadataOK
<1> QED
  BY <1>4, <1>5 DEF GoodBook, MetadataOK, m, n

----------------------------------------------------------------------------
(* Lists in order, with one bond per owner.                                *)

\* The bonds of a list
Bonds(s) == {s[i] : i \in DOMAIN s}

\* No owner has two places.
OnePlaceEach(s) == \A i, j \in DOMAIN s : s[i].owner = s[j].owner => i = j

Tidy(s) == s \in Seq(Bond) /\ OnePlaceEach(s) /\ Sorted(s)

\* What stands where after an insertion.
LEMMA InsertAtPlaces ==
  ASSUME NEW S, NEW s \in Seq(S), NEW x \in S, NEW k \in 1 .. Len(s) + 1
  PROVE  \A j \in 1 .. Len(s) + 1 :
           InsertAt(s, k, x)[j] = IF j < k THEN s[j] ELSE IF j = k THEN x ELSE s[j - 1]
<1> DEFINE a == SubSeq(s, 1, k-1)
           z == SubSeq(s, k, Len(s))
           ax == a \o <<x>>
<1>0. Len(s) \in Nat
  BY LenProperties
<1>1. a \in Seq(S) /\ Len(a) = k - 1 /\ \A j \in 1 .. k - 1 : a[j] = s[j]
  BY SubSeqProperties
<1>2. /\ z \in Seq(S) /\ Len(z) = (Len(s) + 1) - k
      /\ \A j \in 1 .. (Len(s) + 1) - k : z[j] = s[(k + j) - 1]
  BY SubSeqProperties
<1>3. <<x>> \in Seq(S) /\ Len(<<x>>) = 1 /\ <<x>>[1] = x
  OBVIOUS
<1>4. InsertAt(s, k, x) = ax \o z
  BY DEF InsertAt
<1> HIDE DEF a, z
<1>5. ax \in Seq(S) /\ Len(ax) = k /\ \A j \in 1 .. k : ax[j] = IF j < k THEN s[j] ELSE x
  <2>1. ax \in Seq(S) /\ Len(ax) = Len(a) + Len(<<x>>)
        /\ \A j \in 1 .. Len(a) + Len(<<x>>) : ax[j] = IF j <= Len(a) THEN a[j]
               ELSE <<x>>[j - Len(a)]
    BY <1>1, <1>3, ConcatProperties
  <2> QED
    BY <1>1, <1>3, <2>1
<1> HIDE DEF ax
<1>6. \A j \in 1 .. Len(ax) + Len(z) : (ax \o z)[j] = IF j <= Len(ax) THEN ax[j] ELSE z[j - Len(ax)]
  BY <1>2, <1>5, ConcatProperties
<1>7. ASSUME NEW j \in 1 .. Len(s) + 1
      PROVE  (ax \o z)[j] = IF j < k THEN s[j] ELSE IF j = k THEN x ELSE s[j - 1]
  <2>1. j \in 1 .. Len(ax) + Len(z)
    BY <1>0, <1>2, <1>5
  <2>2. CASE j <= k
    <3>1. (ax \o z)[j] = ax[j] /\ j \in 1 .. k
      BY <1>0, <1>5, <1>6, <2>1, <2>2
    <3>2. ax[j] = IF j < k THEN s[j] ELSE x
      BY <1>5, <3>1
    <3> QED
      BY <1>0, <2>2, <3>1, <3>2
  <2>3. CASE j > k
    <3>1. (ax \o z)[j] = z[j - k] /\ j - k \in 1 .. (Len(s) + 1) - k
      BY <1>0, <1>5, <1>6, <2>1, <2>3
    <3>2. z[j - k] = s[(k + (j - k)) - 1] /\ (k + (j - k)) - 1 = j - 1
      BY <1>0, <1>2, <3>1
    <3> QED
      BY <1>0, <2>3, <3>1, <3>2
  <2>4. j <= k \/ j > k
    BY <1>0
  <2> QED
    BY <2>2, <2>3, <2>4
<1> QED
  BY <1>4, <1>7

\* What stands where after a removal.
LEMMA RemoveAtPlaces ==
  ASSUME NEW S, NEW s \in Seq(S), NEW k \in 1 .. Len(s)
  PROVE  \A j \in 1 .. Len(s) - 1 : RemoveAt(s, k)[j] = IF j < k THEN s[j] ELSE s[j + 1]
<1> DEFINE a == SubSeq(s, 1, k-1)
           z == SubSeq(s, k+1, Len(s))
<1>0. Len(s) \in Nat
  BY LenProperties
<1>1. a \in Seq(S) /\ Len(a) = k - 1 /\ \A j \in 1 .. k - 1 : a[j] = s[j]
  BY SubSeqProperties
<1>2. z \in Seq(S) /\ Len(z) = Len(s) - k /\ \A j \in 1 .. Len(s) - k : z[j] = s[(k + 1 + j) - 1]
  <2> DEFINE m == k + 1
  <2>1. m \in 1 .. Len(s) + 1 /\ (Len(s) + 1) - m = Len(s) - k
    BY <1>0
  <2> HIDE DEF m
  <2>2. SubSeq(s, m, Len(s)) \in Seq(S) /\ Len(SubSeq(s, m, Len(s))) = (Len(s) + 1) - m
        /\ \A j \in 1 .. (Len(s) + 1) - m : SubSeq(s, m, Len(s))[j] = s[(m + j) - 1]
    BY <2>1, SubSeqProperties
  <2> QED
    BY <2>1, <2>2 DEF m
<1>3. RemoveAt(s, k) = a \o z
  BY DEF RemoveAt
<1> HIDE DEF a, z
<1>4. \A j \in 1 .. Len(a) + Len(z) : (a \o z)[j] = IF j <= Len(a) THEN a[j] ELSE z[j - Len(a)]
  BY <1>1, <1>2, ConcatProperties
<1>5. ASSUME NEW j \in 1 .. Len(s) - 1
      PROVE  (a \o z)[j] = IF j < k THEN s[j] ELSE s[j + 1]
  <2>1. j \in 1 .. Len(a) + Len(z)
    BY <1>0, <1>1, <1>2
  <2>2. CASE j < k
    <3>1. (a \o z)[j] = a[j] /\ j \in 1 .. k - 1
      BY <1>0, <1>1, <1>4, <2>1, <2>2
    <3>2. a[j] = s[j]
      BY <1>1, <3>1
    <3> QED
      BY <2>2, <3>1, <3>2
  <2>3. CASE j >= k
    <3>1. (a \o z)[j] = z[(j - k) + 1] /\ (j - k) + 1 \in 1 .. Len(s) - k
      <4>1. ~(j <= Len(a)) /\ j - Len(a) = (j - k) + 1
        BY <1>0, <1>1, <2>3
      <4> QED
        BY <1>0, <1>4, <2>1, <2>3, <4>1
    <3>2. z[(j - k) + 1] = s[(k + 1 + ((j - k) + 1)) - 1] /\ (k + 1 + ((j - k) + 1)) - 1 = j + 1
      BY <1>0, <1>2, <3>1
    <3> QED
      BY <1>0, <2>3, <3>1, <3>2
  <2>4. j < k \/ j >= k
    BY <1>0
  <2> QED
    BY <2>2, <2>3, <2>4
<1> QED
  BY <1>3, <1>5

\* The facts about a tidy list: its bonds have different owners and stand at
\* one place each, and a bond further back is no larger.
LEMMA TidyFacts ==
  ASSUME NEW s, Tidy(s)
  PROVE  /\ s \in Seq(Bond) /\ Len(s) \in Nat /\ DOMAIN s = 1 .. Len(s)
         /\ \A i \in 1 .. Len(s) : s[i] \in Bond /\ s[i] \in Bonds(s)
                                   /\ s[i].owner \in Accounts /\ s[i].amount \in Nat
         /\ \A i, j \in 1 .. Len(s) : s[i].owner = s[j].owner => i = j
         /\ \A i, j \in 1 .. Len(s) : i < j => s[i].amount >= s[j].amount
         /\ \A y \in Bonds(s) : \E i \in 1 .. Len(s) : y = s[i]
         /\ Bonds(s) \in SUBSET Bond
         /\ \A x, y \in Bonds(s) : x.owner = y.owner => x = y
         /\ \A who : who \in Owners(s) <=> \E y \in Bonds(s) : y.owner = who
         /\ Bonds(s) = {} <=> s = <<>>
<1>1. s \in Seq(Bond) /\ OnePlaceEach(s) /\ Sorted(s)
  BY DEF Tidy
<1>2. Len(s) \in Nat /\ DOMAIN s = 1 .. Len(s)
  BY <1>1, LenProperties
<1>3. \A i \in 1 .. Len(s) : s[i] \in Bond
  BY <1>1
<1>4. \A i \in 1 .. Len(s) : s[i].owner \in Accounts /\ s[i].amount \in Nat
  BY <1>3 DEF Bond
<1>5. \A i, j \in 1 .. Len(s) : s[i].owner = s[j].owner => i = j
  BY <1>1, <1>2, Zenon DEF OnePlaceEach
<1>6. \A i, j \in 1 .. Len(s) : i < j => s[i].amount >= s[j].amount
  BY <1>1, <1>2, Zenon DEF Sorted
<1>7. /\ \A i \in 1 .. Len(s) : s[i] \in Bonds(s)
      /\ \A y \in Bonds(s) : \E i \in 1 .. Len(s) : y = s[i]
  BY <1>2, Zenon DEF Bonds
<1>8. Bonds(s) \in SUBSET Bond
  BY <1>3, <1>7
<1>9. \A x, y \in Bonds(s) : x.owner = y.owner => x = y
  BY <1>5, <1>7
<1>10. \A who : who \in Owners(s) <=> \E y \in Bonds(s) : y.owner = who
  BY Zenon DEF Owners, Bonds
<1>11. Bonds(s) = {} <=> s = <<>>
  BY <1>1, <1>2, <1>7, EmptySeq
<1> QED
  BY <1>1, <1>2, <1>3, <1>4, <1>5, <1>6, <1>7, <1>8, <1>9, <1>10, <1>11

\* The amount of a bond, as a function to be summed
AmountOf == [x \in Bond |-> x.amount]

\* What a set of bonds amounts to
Worth(B) == SumFunctionOnSet(AmountOf, B)

\* The worth of a set of bonds with one more.
LEMMA WorthGrows ==
  ASSUME NEW B \in SUBSET Bond, IsFiniteSet(B), NEW x \in Bond, x \notin B
  PROVE  IsFiniteSet(B \cup {x}) /\ Worth(B) \in Nat /\ Worth(B \cup {x}) = Worth(B) + x.amount
<1> DEFINE T == B \cup {x}
<1>1. IsFiniteSet(T)
  BY FS_AddElement
<1>2. \A y \in T : AmountOf[y] \in Nat
  BY DEF AmountOf, Bond
<1>3. T \ {x} = B /\ x \in T /\ AmountOf[x] = x.amount /\ x.amount \in Nat
  BY DEF AmountOf, Bond
<1> HIDE DEF T
<1>4. \A y \in T : SumFunctionOnSet(AmountOf, T) = AmountOf[y] + SumFunctionOnSet(AmountOf, T \ {y})
  BY <1>1, <1>2, SumPicks
<1>5. Worth(T) = x.amount + Worth(B)
  BY <1>3, <1>4 DEF Worth
<1>6. Worth(B) \in Nat
  <2>1. \A y \in B : AmountOf[y] \in Nat
    BY DEF AmountOf, Bond
  <2> QED
    BY <2>1, SumPicks DEF Worth
<1> QED
  BY <1>1, <1>3, <1>5, <1>6 DEF T

\* The worth of a set of bonds with one less.
LEMMA WorthFalls ==
  ASSUME NEW B \in SUBSET Bond, IsFiniteSet(B), NEW x \in B
  PROVE  /\ IsFiniteSet(B \ {x}) /\ Worth(B \ {x}) \in Nat /\ Worth(B) \in Nat
         /\ x.amount \in Nat /\ Worth(B) = Worth(B \ {x}) + x.amount
<1>1. IsFiniteSet(B \ {x}) /\ B \ {x} \in SUBSET Bond
  BY FS_RemoveElement
<1>2. (B \ {x}) \cup {x} = B /\ x \notin B \ {x} /\ x \in Bond
  OBVIOUS
<1> DEFINE R == B \ {x}
<1> HIDE DEF R
<1>3. Worth(R) \in Nat /\ Worth(R \cup {x}) = Worth(R) + x.amount
  BY <1>1, <1>2, WorthGrows DEF R
<1>4. x.amount \in Nat
  BY <1>2 DEF Bond
<1>5. Worth(B) = Worth(R) + x.amount
  BY <1>2, <1>3 DEF R
<1>6. Worth(B) \in Nat
  BY <1>3, <1>4, <1>5
<1> QED
  BY <1>1, <1>3, <1>4, <1>5, <1>6 DEF R

\* The worth of two sets of bonds that have none in common.
LEMMA WorthAdds ==
  ASSUME NEW S \in SUBSET Bond, IsFiniteSet(S), NEW Z \in SUBSET Bond, IsFiniteSet(Z), S \cap Z = {}
  PROVE  Worth(S) + Worth(Z) = Worth(S \cup Z)
<1> DEFINE P == {T \in SUBSET Z : Worth(S) + Worth(T) = Worth(S \cup T)}
<1>1. ASSUME NEW T \in SUBSET Z, \A x \in T : T \ {x} \in P
      PROVE  T \in P
  <2>1. IsFiniteSet(T) /\ IsFiniteSet(S \cup T) /\ S \cup T \in SUBSET Bond /\ T \in SUBSET Bond
    <3>1. IsFiniteSet(T)
      BY FS_Subset
    <3> QED
      BY <3>1, FS_Union
  <2>2. \A x \in S : AmountOf[x] \in Nat
    BY DEF AmountOf, Bond
  <2>3. Worth(S) \in Nat
    BY <2>2, SumPicks DEF Worth
  <2>4. CASE T = {}
    <3>1. IsFiniteSet({})
      BY FS_EmptySet
    <3>2. SumFunctionOnSet(AmountOf, {}) = 0
      BY <3>1, SumUnfolds
    <3>3. S \cup T = S
      BY <2>4
    <3> QED
      BY <2>3, <2>4, <3>2, <3>3 DEF Worth
  <2>5. CASE T # {}
    <3>1. PICK c \in T : TRUE
      BY <2>5
    <3>2. Worth(T) = Worth(T \ {c}) + c.amount /\ Worth(T \ {c}) \in Nat /\ c.amount \in Nat
      BY <2>1, WorthFalls
    <3>3. Worth(S \cup T) = Worth((S \cup T) \ {c}) + c.amount /\ Worth((S \cup T) \ {c}) \in Nat
      <4>1. c \in S \cup T
        OBVIOUS
      <4> DEFINE U == S \cup T
      <4>2. U \in SUBSET Bond /\ IsFiniteSet(U) /\ c \in U
        BY <2>1, <4>1
      <4> HIDE DEF U
      <4>3. Worth(U) = Worth(U \ {c}) + c.amount /\ Worth(U \ {c}) \in Nat
        BY <4>2, WorthFalls
      <4> QED
        BY <4>3 DEF U
    <3>4. (S \cup T) \ {c} = S \cup (T \ {c})
      OBVIOUS
    <3>5. Worth(S) + Worth(T \ {c}) = Worth(S \cup (T \ {c}))
      BY <1>1
    <3>6. Worth(S \cup T) = Worth(S \cup (T \ {c})) + c.amount
      BY <3>3, <3>4, Zenon
    <3>7. Worth(S \cup T) = (Worth(S) + Worth(T \ {c})) + c.amount
      BY <3>5, <3>6, Zenon
    <3>8. Worth(S) + Worth(T) = Worth(S \cup T)
      BY <2>3, <3>2, <3>7
    <3> QED
      BY <3>8
  <2> QED
    BY <2>4, <2>5
<1>2. P = SUBSET Z
  <2> HIDE DEF P
  <2>1. P \in SUBSET (SUBSET Z)
    BY DEF P
  <2> QED
    BY <1>1, <2>1, SubsetsByInduction
<1>3. Z \in P
  BY <1>2
<1> QED
  BY <1>3

\* The sum of a tidy list is what its bonds amount to.
LEMMA SumOfBonds ==
  ASSUME NEW s, Tidy(s)
  PROVE  IsFiniteSet(Bonds(s)) /\ SumOf(s) = Worth(Bonds(s)) /\ SumOf(s) \in Nat
<1>1. /\ s \in Seq(Bond) /\ Len(s) \in Nat /\ DOMAIN s = 1 .. Len(s)
      /\ \A i \in 1 .. Len(s) : s[i] \in Bond /\ s[i].amount \in Nat
      /\ \A i, j \in 1 .. Len(s) : s[i].owner = s[j].owner => i = j
  BY TidyFacts
<1> DEFINE D == DOMAIN s
           h == [i \in D |-> s[i].amount]
<1>2. IsFiniteSet(D)
  BY <1>1, IntervalSize
<1>3. \A i, j \in D : s[i] = s[j] => i = j
  BY <1>1
<1>4. \A i \in D : AmountOf[s[i]] \in Nat /\ h[i] = AmountOf[s[i]]
  BY <1>1 DEF AmountOf
<1>5. SumOf(s) = SumFunctionOnSet(h, D)
  <2>1. DOMAIN h = D
    OBVIOUS
  <2> QED
    BY <2>1 DEF SumOf, SumFunction
<1> HIDE DEF D, h
<1>6. /\ IsFiniteSet({s[i] : i \in D})
      /\ SumFunctionOnSet(h, D) = SumFunctionOnSet(AmountOf, {s[i] : i \in D})
  <2> DEFINE I == {s[i] : i \in D}
  <2>1. I = {s[i] : i \in D}
    OBVIOUS
  <2> HIDE DEF I
  <2>2. IsFiniteSet(I) /\ SumFunctionOnSet(h, D) = SumFunctionOnSet(AmountOf, I)
    BY <1>2, <1>3, <1>4, <2>1, SumsOverImages
  <2> QED
    BY <2>2 DEF I
<1>7. SumFunctionOnSet(h, D) \in Nat
  BY <1>2, <1>4, SumPicks
<1> QED
  BY <1>5, <1>6, <1>7 DEF D, Bonds, Worth

\* Inserting a bond of a new owner between the bonds that are at least as large
\* and those that are at most as large keeps a list tidy.
LEMMA InsertTidy ==
  ASSUME NEW s, Tidy(s), NEW x \in Bond, x.owner \notin Owners(s), NEW k \in 1 .. Len(s) + 1,
         \A j \in 1 .. Len(s) : j < k => s[j].amount >= x.amount,
         \A j \in 1 .. Len(s) : j >= k => x.amount >= s[j].amount
  PROVE  Tidy(InsertAt(s, k, x)) /\ Bonds(InsertAt(s, k, x)) = Bonds(s) \cup {x}
<1>1. /\ s \in Seq(Bond) /\ Len(s) \in Nat
      /\ \A i \in 1 .. Len(s) : s[i] \in Bonds(s) /\ s[i].amount \in Nat
      /\ \A i, j \in 1 .. Len(s) : s[i].owner = s[j].owner => i = j
      /\ \A i, j \in 1 .. Len(s) : i < j => s[i].amount >= s[j].amount
      /\ \A y \in Bonds(s) : \E i \in 1 .. Len(s) : y = s[i]
  BY TidyFacts
<1>2. \A i \in 1 .. Len(s) : s[i].owner # x.owner
  <2>1. \A i \in 1 .. Len(s) : s[i] \in Bonds(s)
    BY <1>1
  <2>2. \A y \in Bonds(s) : y.owner # x.owner
    BY TidyFacts
  <2> QED
    BY <2>1, <2>2
<1> DEFINE r == InsertAt(s, k, x)
           from(j) == IF j < k THEN j ELSE j - 1
<1>3. r \in Seq(Bond) /\ Len(r) = Len(s) + 1
  BY <1>1, InsertAtType
<1>4. \A j \in 1 .. Len(s) + 1 : r[j] = IF j < k THEN s[j] ELSE IF j = k THEN x ELSE s[j - 1]
  BY <1>1, InsertAtPlaces
<1>5. DOMAIN r = 1 .. Len(s) + 1
  BY <1>3, LenProperties
<1> HIDE DEF r
<1>6. ASSUME NEW j \in 1 .. Len(s) + 1, j # k
      PROVE  /\ from(j) \in 1 .. Len(s) /\ r[j] = s[from(j)]
             /\ j < k => from(j) < k
             /\ j > k => from(j) >= k
  <2>1. from(j) \in 1 .. Len(s)
    BY <1>1, <1>6
  <2>2. r[j] = s[from(j)]
    BY <1>1, <1>4, <1>6
  <2>3. (j < k => from(j) < k) /\ (j > k => from(j) >= k)
    BY <1>1, <1>6
  <2> QED
    BY <2>1, <2>2, <2>3
<1>7. r[k] = x
  BY <1>1, <1>4
<1>8. \A i, j \in 1 .. Len(s) + 1 : i # k /\ j # k =>
         (from(i) = from(j) => i = j) /\ (i < j => from(i) < from(j))
  BY <1>1
<1> HIDE DEF from
<1>9. OnePlaceEach(r)
  <2> SUFFICES ASSUME NEW i \in 1 .. Len(s) + 1, NEW j \in 1 .. Len(s) + 1, r[i].owner = r[j].owner
               PROVE  i = j
    BY <1>5 DEF OnePlaceEach
  <2>1. CASE i = k /\ j = k
    BY <2>1
  <2>2. CASE i = k /\ j # k
    BY <1>2, <1>6, <1>7, <2>2
  <2>3. CASE i # k /\ j = k
    BY <1>2, <1>6, <1>7, <2>3
  <2>4. CASE i # k /\ j # k
    BY <1>1, <1>6, <1>8, <2>4
  <2> QED
    BY <2>1, <2>2, <2>3, <2>4
<1>10. Sorted(r)
  <2> SUFFICES ASSUME NEW i \in 1 .. Len(s) + 1, NEW j \in 1 .. Len(s) + 1, i < j
               PROVE  r[i].amount >= r[j].amount
    BY <1>5 DEF Sorted
  <2>1. CASE i = k
    <3>1. j # k /\ j > k
      BY <1>1, <2>1
    <3>2. from(j) \in 1 .. Len(s) /\ from(j) >= k /\ r[j] = s[from(j)]
      BY <1>6, <3>1
    <3> QED
      BY <1>7, <2>1, <3>2
  <2>2. CASE j = k
    <3>1. i # k /\ i < k
      BY <1>1, <2>2
    <3>2. from(i) \in 1 .. Len(s) /\ from(i) < k /\ r[i] = s[from(i)]
      BY <1>6, <3>1
    <3> QED
      BY <1>7, <2>2, <3>2
  <2>3. CASE i # k /\ j # k
    <3>1. /\ from(i) \in 1 .. Len(s) /\ r[i] = s[from(i)]
          /\ from(j) \in 1 .. Len(s) /\ r[j] = s[from(j)] /\ from(i) < from(j)
      BY <1>6, <1>8, <2>3
    <3> QED
      BY <1>1, <3>1
  <2> QED
    BY <2>1, <2>2, <2>3
<1>11. Bonds(r) = Bonds(s) \cup {x}
  <2>1. ASSUME NEW y \in Bonds(r) PROVE y \in Bonds(s) \cup {x}
    <3>1. PICK j \in 1 .. Len(s) + 1 : y = r[j]
      BY <1>5 DEF Bonds
    <3> QED
      BY <1>1, <1>6, <1>7, <3>1
  <2>2. x \in Bonds(r)
    BY <1>5, <1>7 DEF Bonds
  <2>3. ASSUME NEW y \in Bonds(s) PROVE y \in Bonds(r)
    <3>1. PICK i \in 1 .. Len(s) : y = s[i]
      BY <1>1
    <3>2. CASE i < k
      <4>1. i \in 1 .. Len(s) + 1 /\ r[i] = s[i]
        BY <1>1, <1>4, <3>2
      <4> QED
        BY <1>5, <3>1, <4>1 DEF Bonds
    <3>3. CASE i >= k
      <4> DEFINE n == i + 1
      <4>1. n \in 1 .. Len(s) + 1 /\ ~(n < k) /\ n # k /\ n - 1 = i
        BY <1>1, <3>3
      <4> HIDE DEF n
      <4>2. r[n] = s[i]
        BY <1>4, <4>1
      <4> QED
        BY <1>5, <3>1, <4>1, <4>2 DEF Bonds
    <3>4. i < k \/ i >= k
      BY <1>1
    <3> QED
      BY <3>2, <3>3, <3>4
  <2> QED
    BY <2>1, <2>2, <2>3
<1> QED
  BY <1>3, <1>9, <1>10, <1>11 DEF Tidy, r

\* Removing a bond keeps a list tidy.
LEMMA RemoveTidy ==
  ASSUME NEW s, Tidy(s), NEW k \in 1 .. Len(s)
  PROVE  Tidy(RemoveAt(s, k)) /\ Bonds(RemoveAt(s, k)) = Bonds(s) \ {s[k]}
<1>1. /\ s \in Seq(Bond) /\ Len(s) \in Nat
      /\ \A i \in 1 .. Len(s) : s[i] \in Bonds(s) /\ s[i].amount \in Nat
      /\ \A i, j \in 1 .. Len(s) : s[i].owner = s[j].owner => i = j
      /\ \A i, j \in 1 .. Len(s) : i < j => s[i].amount >= s[j].amount
      /\ \A y \in Bonds(s) : \E i \in 1 .. Len(s) : y = s[i]
  BY TidyFacts
<1> DEFINE r == RemoveAt(s, k)
           from(j) == IF j < k THEN j ELSE j + 1
<1>2. r \in Seq(Bond) /\ Len(r) = Len(s) - 1
  BY <1>1, RemoveAtType
<1>3. \A j \in 1 .. Len(s) - 1 : r[j] = IF j < k THEN s[j] ELSE s[j + 1]
  BY <1>1, RemoveAtPlaces
<1>4. DOMAIN r = 1 .. Len(s) - 1
  BY <1>2, LenProperties
<1> HIDE DEF r
<1>5. \A j \in 1 .. Len(s) - 1 : from(j) \in 1 .. Len(s) /\ from(j) # k /\ r[j] = s[from(j)]
  <2> SUFFICES ASSUME NEW j \in 1 .. Len(s) - 1
               PROVE  from(j) \in 1 .. Len(s) /\ from(j) # k /\ r[j] = s[from(j)]
    OBVIOUS
  <2>1. from(j) \in 1 .. Len(s) /\ from(j) # k
    BY <1>1
  <2>2. r[j] = s[from(j)]
    BY <1>3
  <2> QED
    BY <2>1, <2>2
<1>6. \A i, j \in 1 .. Len(s) - 1 : (from(i) = from(j) => i = j) /\ (i < j => from(i) < from(j))
  BY <1>1
<1>7. \A i \in 1 .. Len(s) : i # k => \E j \in 1 .. Len(s) - 1 : i = from(j)
  <2> SUFFICES ASSUME NEW i \in 1 .. Len(s), i # k PROVE \E j \in 1 .. Len(s) - 1 : i = from(j)
    OBVIOUS
  <2>1. CASE i < k
    <3>1. i \in 1 .. Len(s) - 1 /\ i = from(i)
      BY <1>1, <2>1
    <3> QED
      BY <3>1
  <2>2. CASE i > k
    <3>1. i - 1 \in 1 .. Len(s) - 1 /\ i = from(i - 1)
      BY <1>1, <2>2
    <3> QED
      BY <3>1
  <2> QED
    BY <1>1, <2>1, <2>2
<1> HIDE DEF from
<1>8. OnePlaceEach(r)
  <2> SUFFICES ASSUME NEW i \in 1 .. Len(s) - 1, NEW j \in 1 .. Len(s) - 1, r[i].owner = r[j].owner
               PROVE  i = j
    BY <1>4 DEF OnePlaceEach
  <2>1. /\ from(i) \in 1 .. Len(s) /\ r[i] = s[from(i)]
        /\ from(j) \in 1 .. Len(s) /\ r[j] = s[from(j)]
    BY <1>5
  <2>2. from(i) = from(j)
    BY <1>1, <2>1
  <2> QED
    BY <1>6, <2>2
<1>9. Sorted(r)
  <2> SUFFICES ASSUME NEW i \in 1 .. Len(s) - 1, NEW j \in 1 .. Len(s) - 1, i < j
               PROVE  r[i].amount >= r[j].amount
    BY <1>4 DEF Sorted
  <2>1. /\ from(i) \in 1 .. Len(s) /\ r[i] = s[from(i)]
        /\ from(j) \in 1 .. Len(s) /\ r[j] = s[from(j)] /\ from(i) < from(j)
    BY <1>5, <1>6
  <2> QED
    BY <1>1, <2>1
<1>10. Bonds(r) = Bonds(s) \ {s[k]}
  <2>1. ASSUME NEW y \in Bonds(r) PROVE y \in Bonds(s) \ {s[k]}
    <3>1. PICK j \in 1 .. Len(s) - 1 : y = r[j]
      BY <1>4 DEF Bonds
    <3>2. y = s[from(j)] /\ from(j) \in 1 .. Len(s) /\ from(j) # k
      BY <1>5, <3>1
    <3> QED
      BY <1>1, <3>2
  <2>2. ASSUME NEW y \in Bonds(s), y # s[k] PROVE y \in Bonds(r)
    <3>1. PICK i \in 1 .. Len(s) : y = s[i]
      BY <1>1
    <3>2. PICK j \in 1 .. Len(s) - 1 : i = from(j)
      BY <1>7, <2>2, <3>1
    <3>3. y = r[j]
      BY <1>5, <3>1, <3>2
    <3> QED
      BY <1>4, <3>3 DEF Bonds
  <2> QED
    BY <2>1, <2>2
<1> QED
  BY <1>2, <1>8, <1>9, <1>10 DEF Tidy, r

\* A set of positions that holds, with each position, those before it, is an
\* initial segment.
LEMMA InitialSegment ==
  ASSUME NEW m \in Nat, NEW P \in SUBSET (1 .. m), \A j \in P : \A i \in 1 .. j : i \in P
  PROVE  Cardinality(P) \in 0 .. m /\ P = 1 .. Cardinality(P)
<1> DEFINE T == {n \in Nat : n + 1 \notin P}
<1>1. T \in SUBSET Nat /\ m \in T
  OBVIOUS
<1> HIDE DEF T
<1>2. PICK n \in T : \A k \in T : n <= k
  BY <1>1, LeastOf
<1>3. n \in Nat /\ n + 1 \notin P /\ n <= m /\ \A k \in Nat : k < n => k + 1 \in P
  BY <1>1, <1>2 DEF T
<1>4. 1 .. n \subseteq P
  <2> SUFFICES ASSUME NEW i \in 1 .. n PROVE i \in P
    OBVIOUS
  <2>1. i - 1 \in Nat /\ i - 1 < n /\ (i - 1) + 1 = i
    BY <1>3
  <2> QED
    BY <1>3, <2>1
<1>5. P \subseteq 1 .. n
  <2> SUFFICES ASSUME NEW j \in P, ~(j <= n) PROVE FALSE
    BY <1>3
  <2>1. n + 1 \in 1 .. j
    BY <1>3
  <2> QED
    BY <1>3, <2>1
<1>6. P = 1 .. n
  BY <1>4, <1>5
<1>7. Cardinality(1 .. n) = n
  BY <1>3, IntervalSize
<1> QED
  BY <1>3, <1>6, <1>7

\* insert_sorted_greatest_to_least finds the place for a bond of a new owner.
LEMMA InsertSortedTidy ==
  ASSUME NEW s, Tidy(s), NEW x \in Bond, x.owner \notin Owners(s)
  PROVE  LET r == insert_sorted_greatest_to_least(s, x)
         IN  Tidy(r) /\ Bonds(r) = Bonds(s) \cup {x} /\ SumOf(r) = SumOf(s) + x.amount
<1> DEFINE P == {i \in DOMAIN s : s[i].amount >= x.amount}
           n == Cardinality(P)
           r == InsertAt(s, n + 1, x)
<1>1. /\ s \in Seq(Bond) /\ Len(s) \in Nat /\ DOMAIN s = 1 .. Len(s)
      /\ \A i \in 1 .. Len(s) : s[i].amount \in Nat
      /\ \A i, j \in 1 .. Len(s) : i < j => s[i].amount >= s[j].amount
  BY TidyFacts
<1>2. x.amount \in Nat
  BY DEF Bond
<1>3. insert_sorted_greatest_to_least(s, x) = r
  BY DEF insert_sorted_greatest_to_least
<1>4. P \in SUBSET (1 .. Len(s)) /\ \A j \in P : \A i \in 1 .. j : i \in P
  <2>1. P \in SUBSET (1 .. Len(s))
    BY <1>1
  <2>2. ASSUME NEW j \in P, NEW i \in 1 .. j PROVE i \in P
    <3>1. j \in 1 .. Len(s) /\ i \in 1 .. Len(s) /\ s[j].amount >= x.amount
      BY <1>1
    <3>2. s[i].amount >= s[j].amount
      BY <1>1, <3>1
    <3>3. s[i].amount >= x.amount
      BY <1>1, <1>2, <3>1, <3>2
    <3> QED
      BY <1>1, <3>1, <3>3
  <2> QED
    BY <2>1, <2>2
<1>5. \A j \in 1 .. Len(s) : j \in P <=> s[j].amount >= x.amount
  BY <1>1
<1> HIDE DEF P
<1>6. n \in 0 .. Len(s) /\ P = 1 .. n
  BY <1>1, <1>4, InitialSegment
<1> HIDE DEF n
<1>7. n + 1 \in 1 .. Len(s) + 1
  BY <1>1, <1>6
<1>8. \A j \in 1 .. Len(s) : j < n + 1 => s[j].amount >= x.amount
  BY <1>1, <1>5, <1>6
<1>9. \A j \in 1 .. Len(s) : j >= n + 1 => x.amount >= s[j].amount
  BY <1>1, <1>2, <1>5, <1>6
<1>10. Tidy(r) /\ Bonds(r) = Bonds(s) \cup {x}
  BY <1>7, <1>8, <1>9, InsertTidy
<1> HIDE DEF r
<1>11. SumOf(r) = SumOf(s) + x.amount
  <2>1. x \notin Bonds(s) /\ Bonds(s) \in SUBSET Bond
    BY TidyFacts
  <2>2. IsFiniteSet(Bonds(s)) /\ SumOf(s) = Worth(Bonds(s)) /\ SumOf(r) = Worth(Bonds(r))
    BY <1>10, SumOfBonds
  <2>3. Worth(Bonds(s) \cup {x}) = Worth(Bonds(s)) + x.amount
    BY <2>1, <2>2, WorthGrows
  <2> QED
    BY <1>10, <2>2, <2>3
<1> QED
  BY <1>3, <1>10, <1>11

\* Removing a bond takes its amount off the sum.
LEMMA RemoveTidySum ==
  ASSUME NEW s, Tidy(s), NEW k \in 1 .. Len(s)
  PROVE  LET r == RemoveAt(s, k)
         IN  /\ Tidy(r) /\ Bonds(r) = Bonds(s) \ {s[k]} /\ Len(r) = Len(s) - 1
             /\ SumOf(r) \in Nat /\ s[k].amount \in Nat
             /\ SumOf(s) = SumOf(r) + s[k].amount
             /\ s[k].owner \notin Owners(r)
<1> DEFINE r == RemoveAt(s, k)
<1>1. Tidy(r) /\ Bonds(r) = Bonds(s) \ {s[k]}
  BY RemoveTidy
<1>2. Len(r) = Len(s) - 1
  <2>1. s \in Seq(Bond)
    BY TidyFacts
  <2> QED
    BY <2>1, RemoveAtType
<1> HIDE DEF r
<1>3. Bonds(s) \in SUBSET Bond /\ s[k] \in Bonds(s)
      /\ \A x, y \in Bonds(s) : x.owner = y.owner => x = y
  BY TidyFacts
<1>4. /\ IsFiniteSet(Bonds(s)) /\ SumOf(s) = Worth(Bonds(s))
      /\ SumOf(r) = Worth(Bonds(r)) /\ SumOf(r) \in Nat
  BY <1>1, SumOfBonds
<1>5. s[k].amount \in Nat /\ Worth(Bonds(s)) = Worth(Bonds(s) \ {s[k]}) + s[k].amount
  BY <1>3, <1>4, WorthFalls
<1>6. s[k].owner \notin Owners(r)
  <2>1. \A who : who \in Owners(r) <=> \E y \in Bonds(r) : y.owner = who
    BY <1>1, TidyFacts
  <2> QED
    BY <1>1, <1>3, <2>1
<1> QED
  BY <1>1, <1>2, <1>4, <1>5, <1>6 DEF r

\* sort_greatest_to_least moves the bond whose amount changed to its place.
LEMMA SortTidy ==
  ASSUME NEW s, Tidy(s), NEW k \in 1 .. Len(s), NEW a \in Nat
  PROVE  LET r == sort_greatest_to_least(s, k, a)
             x == [s[k] EXCEPT !.amount = a]
         IN  /\ Tidy(r) /\ Bonds(r) = (Bonds(s) \ {s[k]}) \cup {x} /\ x \in Bond
             /\ x.owner = s[k].owner /\ x.amount = a
             /\ SumOf(r) + s[k].amount = SumOf(s) + a
<1> DEFINE P == {j \in DOMAIN s : \/ j < k /\ s[j].amount >= a
                                  \/ j > k /\ s[j].amount > a}
           n == Cardinality(P)
           u == RemoveAt(s, k)
           x == [s[k] EXCEPT !.amount = a]
           r == InsertAt(u, n + 1, x)
           Q == {j \in 1 .. Len(u) : IF j < k THEN u[j].amount >= a ELSE u[j].amount > a}
<1>1. /\ s \in Seq(Bond) /\ Len(s) \in Nat /\ DOMAIN s = 1 .. Len(s)
      /\ \A i \in 1 .. Len(s) : s[i].amount \in Nat /\ s[i] \in Bond
  BY TidyFacts
<1>2. x \in Bond /\ x.owner = s[k].owner /\ x.amount = a
  BY <1>1 DEF Bond
<1>3. sort_greatest_to_least(s, k, a) = r
  BY DEF sort_greatest_to_least
<1> HIDE DEF x
<1>4. /\ Tidy(u) /\ Bonds(u) = Bonds(s) \ {s[k]} /\ Len(u) = Len(s) - 1
      /\ SumOf(u) \in Nat /\ s[k].amount \in Nat
      /\ SumOf(s) = SumOf(u) + s[k].amount
      /\ s[k].owner \notin Owners(u)
  BY RemoveTidySum
<1>5. \A j \in 1 .. Len(s) - 1 : u[j] = IF j < k THEN s[j] ELSE s[j + 1]
  BY <1>1, RemoveAtPlaces
<1>6. /\ Len(u) \in Nat
      /\ \A i \in 1 .. Len(u) : u[i].amount \in Nat
      /\ \A i, j \in 1 .. Len(u) : i < j => u[i].amount >= u[j].amount
  BY <1>4, TidyFacts
<1> HIDE DEF u
<1>7. Q \in SUBSET (1 .. Len(u)) /\ \A j \in Q : \A i \in 1 .. j : i \in Q
  <2>1. ASSUME NEW j \in Q, NEW i \in 1 .. j PROVE i \in Q
    <3>1. j \in 1 .. Len(u) /\ i \in 1 .. Len(u) /\ (i = j \/ i < j)
      BY <1>6
    <3>2. u[i].amount \in Nat /\ u[j].amount \in Nat /\ u[i].amount >= u[j].amount
      BY <1>6, <3>1
    <3>3. IF i < k THEN u[i].amount >= a ELSE u[i].amount > a
      <4>1. u[j].amount >= a /\ (~(j < k) => u[j].amount > a)
        BY <3>2
      <4>2. ~(i < k) => ~(j < k)
        BY <1>6, <3>1
      <4> QED
        BY <3>2, <4>1, <4>2
    <3> QED
      BY <3>1, <3>3
  <2> QED
    BY <2>1
<1>8. Cardinality(Q) \in 0 .. Len(u) /\ Q = 1 .. Cardinality(Q)
  <2> HIDE DEF Q
  <2> QED
    BY <1>6, <1>7, InitialSegment
<1>9. n = Cardinality(Q)
  <2> DEFINE f == [j \in Q |-> IF j < k THEN j ELSE j + 1]
  <2>1. \A j \in Q : f[j] \in P
    <3> SUFFICES ASSUME NEW j \in Q PROVE f[j] \in P
      OBVIOUS
    <3>1. j \in 1 .. Len(s) - 1 /\ (IF j < k THEN u[j].amount >= a ELSE u[j].amount > a)
      BY <1>4
    <3>2. CASE j < k
      <4>1. u[j] = s[j] /\ j \in 1 .. Len(s)
        BY <1>1, <1>5, <3>1, <3>2
      <4> QED
        BY <1>1, <3>1, <3>2, <4>1
    <3>3. CASE ~(j < k)
      <4>1. u[j] = s[j + 1] /\ j + 1 \in 1 .. Len(s) /\ j + 1 > k
        BY <1>1, <1>5, <3>1, <3>3
      <4> QED
        BY <1>1, <3>1, <3>3, <4>1
    <3> QED
      BY <3>2, <3>3
  <2>2. \A i, j \in Q : f[i] = f[j] => i = j
    BY <1>6
  <2>3. \A p \in P : \E j \in Q : f[j] = p
    <3> SUFFICES ASSUME NEW p \in P PROVE \E j \in Q : f[j] = p
      OBVIOUS
    <3>1. p \in 1 .. Len(s)
      BY <1>1
    <3>2. CASE p < k
      <4>1. p \in 1 .. Len(s) - 1 /\ s[p].amount >= a
        BY <1>1, <3>1, <3>2
      <4>2. u[p] = s[p]
        BY <1>5, <3>2, <4>1
      <4>3. p \in Q
        BY <1>4, <3>2, <4>1, <4>2
      <4> QED
        BY <3>2, <4>3
    <3>3. CASE ~(p < k)
      <4> DEFINE q == p - 1
      <4>1. q \in 1 .. Len(s) - 1 /\ ~(q < k) /\ q + 1 = p /\ s[p].amount > a
        BY <1>1, <3>1, <3>3
      <4> HIDE DEF q
      <4>2. u[q] = s[p]
        BY <1>5, <4>1
      <4>3. q \in Q
        BY <1>4, <4>1, <4>2
      <4> QED
        BY <4>1, <4>3
    <3> QED
      BY <3>2, <3>3
  <2>4. IsFiniteSet(Q)
    <3>1. IsFiniteSet(1 .. Cardinality(Q))
      BY <1>6, <1>8, IntervalSize
    <3> QED
      BY <1>8, <3>1
  <2> HIDE DEF P, Q
  <2>5. f \in Bijection(Q, P)
    BY <2>1, <2>2, <2>3 DEF Bijection, Injection, Surjection, IsInjective
  <2>6. ExistsBijection(Q, P)
    BY <2>5 DEF ExistsBijection
  <2> QED
    BY <2>4, <2>6, FS_Bijection
<1>10. n \in 0 .. Len(u) /\ Q = 1 .. n
  BY <1>8, <1>9
<1> HIDE DEF n
<1>11. n + 1 \in 1 .. Len(u) + 1
  BY <1>6, <1>10
<1>12. \A j \in 1 .. Len(u) : j < n + 1 => u[j].amount >= x.amount
  <2> SUFFICES ASSUME NEW j \in 1 .. Len(u), j < n + 1 PROVE u[j].amount >= x.amount
    OBVIOUS
  <2>1. j \in Q
    <3>1. n \in Nat /\ Q = 1 .. n
      BY <1>6, <1>10
    <3>2. j \in 1 .. n
      BY <1>6, <3>1
    <3> QED
      BY <3>1, <3>2, Zenon
  <2> QED
    BY <1>2, <1>6, <2>1
<1>13. \A j \in 1 .. Len(u) : j >= n + 1 => x.amount >= u[j].amount
  <2> SUFFICES ASSUME NEW j \in 1 .. Len(u), j >= n + 1 PROVE x.amount >= u[j].amount
    OBVIOUS
  <2>1. j \notin Q
    BY <1>6, <1>10
  <2>2. ~(IF j < k THEN u[j].amount >= a ELSE u[j].amount > a)
    BY <2>1
  <2> QED
    BY <1>2, <1>6, <2>2
<1> HIDE DEF P, Q
<1>14. x.owner \notin Owners(u)
  BY <1>2, <1>4
<1>15. Tidy(r) /\ Bonds(r) = Bonds(u) \cup {x}
  BY <1>2, <1>4, <1>11, <1>12, <1>13, <1>14, InsertTidy
<1> HIDE DEF r
<1>16. SumOf(r) = SumOf(u) + a
  <2>1. x \notin Bonds(u) /\ Bonds(u) \in SUBSET Bond
    BY <1>4, <1>14, TidyFacts
  <2>2. IsFiniteSet(Bonds(u)) /\ SumOf(u) = Worth(Bonds(u)) /\ SumOf(r) = Worth(Bonds(r))
    BY <1>4, <1>15, SumOfBonds
  <2>3. Worth(Bonds(u) \cup {x}) = Worth(Bonds(u)) + x.amount
    BY <1>2, <2>1, <2>2, WorthGrows
  <2> QED
    BY <1>2, <1>15, <2>2, <2>3
<1>17. SumOf(r) + s[k].amount = SumOf(s) + a
  BY <1>4, <1>16
<1> QED
  BY <1>2, <1>3, <1>4, <1>15, <1>17 DEF x

\* Vec::pop takes the lowest bond off a tidy list.
LEMMA PopTidy ==
  ASSUME NEW s, Tidy(s), s # <<>>
  PROVE  /\ Tidy(Front(s)) /\ Bonds(Front(s)) = Bonds(s) \ {Last(s)} /\ Len(Front(s)) = Len(s) - 1
         /\ SumOf(Front(s)) \in Nat /\ Last(s).amount \in Nat
         /\ SumOf(s) = SumOf(Front(s)) + Last(s).amount
         /\ Last(s).owner \notin Owners(Front(s))
         /\ Last(s) \in Bonds(s) /\ Last(s) \in Bond
         /\ \A y \in Bonds(s) : y.amount >= Last(s).amount
         /\ lowest_delegation_amount(s) = Last(s).amount
<1> DEFINE k == Len(s)
<1>1. /\ s \in Seq(Bond) /\ Len(s) \in Nat
      /\ \A i \in 1 .. Len(s) : s[i] \in Bond /\ s[i] \in Bonds(s) /\ s[i].amount \in Nat
      /\ \A i, j \in 1 .. Len(s) : i < j => s[i].amount >= s[j].amount
      /\ \A y \in Bonds(s) : \E i \in 1 .. Len(s) : y = s[i]
  BY TidyFacts
<1>2. k \in 1 .. Len(s)
  BY <1>1, EmptySeq
<1>3. Last(s) = s[k]
  BY DEF Last
<1>4. Front(s) = RemoveAt(s, k)
  <2>1. Front(s) \in Seq(Bond) /\ Len(Front(s)) = Len(s) - 1
    BY <1>1, FrontLastType
  <2>2. RemoveAt(s, k) \in Seq(Bond) /\ Len(RemoveAt(s, k)) = Len(s) - 1
    BY <1>1, <1>2, RemoveAtType
  <2>3. \A j \in 1 .. Len(s) - 1 : RemoveAt(s, k)[j] = IF j < k THEN s[j] ELSE s[j + 1]
    BY <1>1, <1>2, RemoveAtPlaces
  <2>4. \A j \in 1 .. Len(s) - 1 : Front(s)[j] = s[j]
    <3> DEFINE m == Len(s) - 1
    <3>1. m \in Nat /\ \A j \in 1 .. m : s[j] \in Bond
      BY <1>1, <1>2
    <3> HIDE DEF m
    <3>2. \A j \in 1 .. m : SubSeq(s, 1, m)[j] = s[j]
      BY <3>1, SubSeqProperties
    <3> QED
      BY <3>2 DEF Front, m
  <2>5. \A j \in 1 .. Len(s) - 1 : Front(s)[j] = RemoveAt(s, k)[j]
    BY <1>1, <1>2, <2>3, <2>4
  <2> QED
    BY <2>1, <2>2, <2>5, SeqEqual
<1>5. /\ Tidy(RemoveAt(s, k)) /\ Bonds(RemoveAt(s, k)) = Bonds(s) \ {s[k]}
      /\ Len(RemoveAt(s, k)) = Len(s) - 1
      /\ SumOf(RemoveAt(s, k)) \in Nat /\ s[k].amount \in Nat
      /\ SumOf(s) = SumOf(RemoveAt(s, k)) + s[k].amount
      /\ s[k].owner \notin Owners(RemoveAt(s, k))
  BY <1>2, RemoveTidySum
<1>6. \A y \in Bonds(s) : y.amount >= s[k].amount
  <2> SUFFICES ASSUME NEW y \in Bonds(s) PROVE y.amount >= s[k].amount
    OBVIOUS
  <2>1. PICK i \in 1 .. Len(s) : y = s[i]
    BY <1>1
  <2>2. i = k \/ i < k
    BY <1>1
  <2> QED
    BY <1>1, <1>2, <2>1, <2>2
<1>7. lowest_delegation_amount(s) = s[k].amount
  BY DEF lowest_delegation_amount
<1> HIDE DEF k
<1> QED
  BY <1>1, <1>2, <1>3, <1>4, <1>5, <1>6, <1>7

\* Vec::remove(0) takes the highest bond off a tidy list.
LEMMA ShiftTidy ==
  ASSUME NEW s, Tidy(s), s # <<>>
  PROVE  /\ Tidy(Tail(s)) /\ Bonds(Tail(s)) = Bonds(s) \ {Head(s)} /\ Len(Tail(s)) = Len(s) - 1
         /\ SumOf(Tail(s)) \in Nat /\ Head(s).amount \in Nat
         /\ SumOf(s) = SumOf(Tail(s)) + Head(s).amount
         /\ Head(s).owner \notin Owners(Tail(s))
         /\ Head(s) \in Bonds(s) /\ Head(s) \in Bond
         /\ \A y \in Bonds(s) : Head(s).amount >= y.amount
         /\ highest_delegation_amount(s) = Head(s).amount
<1>1. /\ s \in Seq(Bond) /\ Len(s) \in Nat
      /\ \A i \in 1 .. Len(s) : s[i] \in Bond /\ s[i] \in Bonds(s) /\ s[i].amount \in Nat
      /\ \A i, j \in 1 .. Len(s) : i < j => s[i].amount >= s[j].amount
      /\ \A y \in Bonds(s) : \E i \in 1 .. Len(s) : y = s[i]
  BY TidyFacts
<1>2. 1 \in 1 .. Len(s)
  BY <1>1, EmptySeq
<1>3. Head(s) = s[1]
  BY <1>1
<1>4. Tail(s) = RemoveAt(s, 1)
  <2>1. /\ Tail(s) \in Seq(Bond) /\ Len(Tail(s)) = Len(s) - 1
        /\ \A i \in 1 .. Len(Tail(s)) : Tail(s)[i] = s[i + 1]
    BY <1>1, HeadTailProperties
  <2>2. RemoveAt(s, 1) \in Seq(Bond) /\ Len(RemoveAt(s, 1)) = Len(s) - 1
    BY <1>1, <1>2, RemoveAtType
  <2>3. \A j \in 1 .. Len(s) - 1 : RemoveAt(s, 1)[j] = IF j < 1 THEN s[j] ELSE s[j + 1]
    BY <1>1, <1>2, RemoveAtPlaces
  <2>4. \A j \in 1 .. Len(s) - 1 : Tail(s)[j] = RemoveAt(s, 1)[j]
    BY <1>1, <2>1, <2>3
  <2> QED
    BY <2>1, <2>2, <2>4, SeqEqual
<1>5. /\ Tidy(RemoveAt(s, 1)) /\ Bonds(RemoveAt(s, 1)) = Bonds(s) \ {s[1]}
      /\ Len(RemoveAt(s, 1)) = Len(s) - 1
      /\ SumOf(RemoveAt(s, 1)) \in Nat /\ s[1].amount \in Nat
      /\ SumOf(s) = SumOf(RemoveAt(s, 1)) + s[1].amount
      /\ s[1].owner \notin Owners(RemoveAt(s, 1))
  BY <1>2, RemoveTidySum
<1>6. \A y \in Bonds(s) : s[1].amount >= y.amount
  <2> SUFFICES ASSUME NEW y \in Bonds(s) PROVE s[1].amount >= y.amount
    OBVIOUS
  <2>1. PICK i \in 1 .. Len(s) : y = s[i]
    BY <1>1
  <2>2. i = 1 \/ 1 < i
    BY <1>1
  <2> QED
    BY <1>1, <1>2, <2>1, <2>2
<1>7. highest_delegation_amount(s) = s[1].amount
  BY DEF highest_delegation_amount
<1> QED
  BY <1>1, <1>2, <1>3, <1>4, <1>5, <1>6, <1>7

----------------------------------------------------------------------------
(* Every operation keeps the two lists of a book arranged.                 *)

\* The bonds of a book
Held(b) == Bonds(b.top) \cup Bonds(b.bottom)

\* The lists are tidy and share no owner, the top holds the largest bonds and is
\* full before the bottom is used, and the totals are those of the lists: that of
\* the bottom may be too high, because a decrease leaves it as it was.
Arranged(b) ==
    /\ Tidy(b.top) /\ Tidy(b.bottom)
    /\ \A x \in Bonds(b.top), y \in Bonds(b.bottom) : x.owner # y.owner /\ x.amount >= y.amount
    /\ b.bottom # <<>> => Len(b.top) = MaxTopDelegationsPerCandidate
    /\ b.topTotal = SumOf(b.top)
    /\ b.bottomTotal >= SumOf(b.bottom)

\* What the reset methods write.
LEMMA ResetFields ==
  ASSUME NEW b \in Book, NEW s, NEW t, NEW z, NEW u
  PROVE  /\ LET r == reset_top_data(b, s, t)
            IN  r.top = s /\ r.topTotal = t /\ r.bottom = b.bottom /\ r.bottomTotal = b.bottomTotal
         /\ LET r == reset_bottom_data(b, z, u)
            IN  r.top = b.top /\ r.topTotal = b.topTotal /\ r.bottom = z /\ r.bottomTotal = u
         /\ LET r == reset_bottom_data(reset_top_data(b, s, t), z, u)
            IN  r.top = s /\ r.topTotal = t /\ r.bottom = z /\ r.bottomTotal = u
         /\ LET r == reset_top_data(reset_bottom_data(b, z, u), s, t)
            IN  r.top = s /\ r.topTotal = t /\ r.bottom = z /\ r.bottomTotal = u
<1>1. LET r == reset_top_data(b, s, t)
      IN  r.top = s /\ r.topTotal = t /\ r.bottom = b.bottom /\ r.bottomTotal = b.bottomTotal
  BY DEF Book, reset_top_data
<1>2. LET r == reset_bottom_data(b, z, u)
      IN  r.top = b.top /\ r.topTotal = b.topTotal /\ r.bottom = z /\ r.bottomTotal = u
  BY DEF Book, reset_bottom_data
<1>3. LET r == reset_bottom_data(reset_top_data(b, s, t), z, u)
      IN  r.top = s /\ r.topTotal = t /\ r.bottom = z /\ r.bottomTotal = u
  BY DEF Book, reset_top_data, reset_bottom_data
<1>4. LET r == reset_top_data(reset_bottom_data(b, z, u), s, t)
      IN  r.top = s /\ r.topTotal = t /\ r.bottom = z /\ r.bottomTotal = u
  BY DEF Book, reset_top_data, reset_bottom_data
<1> QED
  BY <1>1, <1>2, <1>3, <1>4

\* The count plays no part in it.
LEMMA CountFields ==
  ASSUME NEW b \in Book, NEW n \in Nat
  PROVE  LET r == [b EXCEPT !.count = n]
         IN  /\ r \in Book /\ r.top = b.top /\ r.topTotal = b.topTotal
             /\ r.bottom = b.bottom /\ r.bottomTotal = b.bottomTotal
  BY DEF Book

\* The facts about a good and arranged book that the operations rely on.
LEMMA ArrangedFacts ==
  ASSUME NEW b, GoodBook(b), Arranged(b)
  PROVE  /\ b \in Book /\ Tidy(b.top) /\ Tidy(b.bottom)
         /\ Len(b.top) \in Nat /\ Len(b.bottom) \in Nat
         /\ b.topTotal \in Nat /\ b.bottomTotal \in Nat /\ b.count \in Nat
         /\ SumOf(b.top) \in Nat /\ SumOf(b.bottom) \in Nat
         /\ b.topTotal = SumOf(b.top) /\ b.bottomTotal >= SumOf(b.bottom)
         /\ b.topCapacity = "Full" <=> Len(b.top) = MaxTopDelegationsPerCandidate
         /\ b.bottomCapacity = "Full" <=> Len(b.bottom) = MaxBottomDelegationsPerCandidate
         /\ b.bottomCapacity = "Empty" <=> b.bottom = <<>>
         /\ b.lowestTop = lowest_delegation_amount(b.top)
         /\ b.lowestBottom = lowest_delegation_amount(b.bottom)
         /\ b.highestBottom = highest_delegation_amount(b.bottom)
         /\ b.topCapacity # "Full" => b.bottom = <<>>
         /\ b.bottomCapacity = "Full" => b.bottom # <<>>
         /\ b.topCapacity = "Full" => b.top # <<>>
<1>1. /\ b \in Book /\ Len(b.top) \in Nat /\ Len(b.bottom) \in Nat
      /\ b.topTotal \in Nat /\ b.bottomTotal \in Nat /\ b.count \in Nat
      /\ b.top \in Seq(Bond) /\ b.bottom \in Seq(Bond)
      /\ b.topCapacity = "Full" <=> Len(b.top) = MaxTopDelegationsPerCandidate
      /\ b.bottomCapacity = "Full" <=> Len(b.bottom) = MaxBottomDelegationsPerCandidate
      /\ b.bottomCapacity = "Empty" <=> b.bottom = <<>>
  BY GoodBookFacts
<1>2. /\ b.lowestTop = lowest_delegation_amount(b.top)
      /\ b.lowestBottom = lowest_delegation_amount(b.bottom)
      /\ b.highestBottom = highest_delegation_amount(b.bottom)
  BY DEF GoodBook, MetadataOK, TopMetadataOK, BottomMetadataOK
<1>3. /\ Tidy(b.top) /\ Tidy(b.bottom)
      /\ b.topTotal = SumOf(b.top) /\ b.bottomTotal >= SumOf(b.bottom)
      /\ b.bottom # <<>> => Len(b.top) = MaxTopDelegationsPerCandidate
  BY DEF Arranged
<1>4. SumOf(b.top) \in Nat /\ SumOf(b.bottom) \in Nat
  BY <1>3, SumOfBonds
<1>5. /\ Len(b.top) = MaxTopDelegationsPerCandidate => b.top # <<>>
      /\ Len(b.bottom) = MaxBottomDelegationsPerCandidate => b.bottom # <<>>
  BY <1>1, CapacityAssumption, EmptySeq
<1> QED
  BY <1>1, <1>2, <1>3, <1>4, <1>5

\* A bond is told from the others of its book by its owner, and what the two
\* lists add up to is what the bonds of the book amount to.
LEMMA HeldFacts ==
  ASSUME NEW b, Arranged(b)
  PROVE  /\ Held(b) \in SUBSET Bond /\ IsFiniteSet(Held(b))
         /\ \A x, y \in Held(b) : x.owner = y.owner => x = y
         /\ Worth(Held(b)) \in Nat
         /\ SumOf(b.top) + SumOf(b.bottom) = Worth(Held(b))
         /\ \A who : who \in Owners(b.top) \cup Owners(b.bottom) <=> \E y \in Held(b) : y.owner = who
         /\ Bonds(b.top) \cap Bonds(b.bottom) = {}
         /\ b.top = <<>> /\ b.bottom = <<>> <=> Held(b) = {}
<1> DEFINE S == Bonds(b.top)
           Z == Bonds(b.bottom)
<1>1. /\ Tidy(b.top) /\ Tidy(b.bottom)
      /\ \A x \in S, y \in Z : x.owner # y.owner
  BY DEF Arranged
<1>2. /\ S \in SUBSET Bond /\ \A x, y \in S : x.owner = y.owner => x = y
      /\ \A who : who \in Owners(b.top) <=> \E y \in S : y.owner = who
      /\ S = {} <=> b.top = <<>>
  BY <1>1, TidyFacts
<1>3. /\ Z \in SUBSET Bond /\ \A x, y \in Z : x.owner = y.owner => x = y
      /\ \A who : who \in Owners(b.bottom) <=> \E y \in Z : y.owner = who
      /\ Z = {} <=> b.bottom = <<>>
  BY <1>1, TidyFacts
<1>4. IsFiniteSet(S) /\ SumOf(b.top) = Worth(S) /\ IsFiniteSet(Z) /\ SumOf(b.bottom) = Worth(Z)
  BY <1>1, SumOfBonds
<1> HIDE DEF S, Z
<1>5. S \cup Z \in SUBSET Bond /\ IsFiniteSet(S \cup Z) /\ S \cap Z = {}
  BY <1>1, <1>2, <1>3, <1>4, FS_Union
<1>6. /\ \A x, y \in S \cup Z : x.owner = y.owner => x = y
  BY <1>1, <1>2, <1>3
<1>7. Worth(S \cup Z) \in Nat
  <2>1. \A x \in S \cup Z : AmountOf[x] \in Nat
    BY <1>5 DEF AmountOf, Bond
  <2> QED
    BY <1>5, <2>1, SumPicks DEF Worth
<1>8. Worth(S) + Worth(Z) = Worth(S \cup Z)
  BY <1>1, <1>2, <1>3, <1>4, <1>5, WorthAdds
<1> QED
  BY <1>1, <1>2, <1>3, <1>4, <1>5, <1>6, <1>7, <1>8 DEF Held, S, Z

\* A book is arranged when its fields hold two lists that are.
LEMMA ArrangedBook ==
  ASSUME NEW r, NEW s, Tidy(s), NEW z, Tidy(z), NEW u,
         \A x \in Bonds(s), y \in Bonds(z) : x.owner # y.owner /\ x.amount >= y.amount,
         z # <<>> => Len(s) = MaxTopDelegationsPerCandidate,
         u >= SumOf(z),
         r.top = s, r.topTotal = SumOf(s), r.bottom = z, r.bottomTotal = u
  PROVE  Arranged(r) /\ Held(r) = Bonds(s) \cup Bonds(z)
  BY DEF Arranged, Held

\* Taking an amount off a total that is at least the sum.
LEMMA SatSubAtLeast ==
  \A t, m, n \in Nat : t >= m + n => SatSub(t, n) >= m
  BY DEF SatSub

\* Taking an amount off a total that is the sum.
LEMMA SatSubExact ==
  \A m, n \in Nat : SatSub(m + n, n) = m
  BY DEF SatSub

\* The bottom list after add_bottom_delegation: the lowest bond makes room.
LEMMA AddBottomLists ==
  ASSUME NEW b, GoodBook(b), Tidy(b.bottom), b.bottomTotal >= SumOf(b.bottom),
         NEW bumped \in BOOLEAN, NEW x \in Bond, x.owner \notin Owners(b.bottom)
  PROVE  LET r == add_bottom_delegation(bumped, b, x)
             kicked == IF Len(b.bottom) = MaxBottomDelegationsPerCandidate
                       THEN {Last(b.bottom)} ELSE {}
         IN  /\ r.top = b.top /\ r.topTotal = b.topTotal
             /\ Tidy(r.bottom) /\ Bonds(r.bottom) = (Bonds(b.bottom) \ kicked) \cup {x}
             /\ r.bottomTotal >= SumOf(r.bottom)
<1> DEFINE full   == Len(b.bottom) = MaxBottomDelegationsPerCandidate
           kicked == IF full THEN {Last(b.bottom)} ELSE {}
           s      == IF full THEN Front(b.bottom) ELSE b.bottom
           total  == IF full THEN SatSub(b.bottomTotal, Last(b.bottom).amount) ELSE b.bottomTotal
           count  == IF full \/ bumped THEN b.count ELSE b.count + 1
           r      == add_bottom_delegation(bumped, b, x)
<1>1. /\ b \in Book /\ b.count \in Nat /\ b.bottomTotal \in Nat
      /\ b.bottom \in Seq(Bond) /\ Len(b.bottom) \in Nat
  BY GoodBookFacts
<1>2. count \in Nat
  BY <1>1
<1>3. r = reset_bottom_data([b EXCEPT !.count = count],
                            insert_sorted_greatest_to_least(s, x), total + x.amount)
  BY DEF add_bottom_delegation
<1> HIDE DEF count, r
<1>4. /\ Tidy(s) /\ Bonds(s) = Bonds(b.bottom) \ kicked /\ x.owner \notin Owners(s)
      /\ total \in Nat /\ total >= SumOf(s) /\ SumOf(s) \in Nat
  <2>1. CASE ~full
    <3>1. s = b.bottom /\ kicked = {} /\ total = b.bottomTotal
      BY <2>1
    <3>2. SumOf(b.bottom) \in Nat
      BY SumOfBonds
    <3> HIDE DEF s, kicked, total
    <3> QED
      BY <1>1, <3>1, <3>2
  <2>2. CASE full
    <3>1. s = Front(b.bottom) /\ kicked = {Last(b.bottom)}
          /\ total = SatSub(b.bottomTotal, Last(b.bottom).amount)
      BY <2>2
    <3>2. b.bottom # <<>>
      BY <1>1, <2>2, CapacityAssumption, EmptySeq
    <3> HIDE DEF s, kicked, total
    <3>3. /\ Tidy(s) /\ Bonds(s) = Bonds(b.bottom) \ kicked
          /\ SumOf(s) \in Nat /\ Last(b.bottom).amount \in Nat
          /\ SumOf(b.bottom) = SumOf(s) + Last(b.bottom).amount
      BY <3>1, <3>2, PopTidy
    <3>4. total \in Nat /\ total >= SumOf(s)
      BY <1>1, <3>1, <3>3, SatSubAtLeast, SatSubType
    <3>5. x.owner \notin Owners(s)
      <4>1. \A who : who \in Owners(s) => \E y \in Bonds(s) : y.owner = who
        BY <3>3, TidyFacts
      <4>2. \A y \in Bonds(b.bottom) : y.owner \in Owners(b.bottom)
        BY TidyFacts
      <4> QED
        BY <3>3, <4>1, <4>2
    <3> QED
      BY <3>3, <3>4, <3>5
  <2> QED
    BY <2>1, <2>2
<1> HIDE DEF s, kicked, total
<1>5. LET q == insert_sorted_greatest_to_least(s, x)
      IN  Tidy(q) /\ Bonds(q) = Bonds(s) \cup {x} /\ SumOf(q) = SumOf(s) + x.amount
  BY <1>4, InsertSortedTidy
<1> DEFINE b1 == [b EXCEPT !.count = count]
           q  == insert_sorted_greatest_to_least(s, x)
<1>6. b1 \in Book /\ b1.top = b.top /\ b1.topTotal = b.topTotal
  BY <1>1, <1>2, CountFields
<1> HIDE DEF b1, q
<1>7. r = reset_bottom_data(b1, q, total + x.amount)
  BY <1>3 DEF b1, q
<1>8. /\ r.top = b1.top /\ r.topTotal = b1.topTotal
      /\ r.bottom = q /\ r.bottomTotal = total + x.amount
  BY <1>6, <1>7, ResetFields
<1>9. x.amount \in Nat
  BY DEF Bond
<1>10. Tidy(q) /\ Bonds(q) = Bonds(s) \cup {x} /\ SumOf(q) = SumOf(s) + x.amount
  BY <1>5 DEF q
<1>11. r.bottomTotal >= SumOf(r.bottom)
  BY <1>4, <1>8, <1>9, <1>10
<1> QED
  BY <1>4, <1>6, <1>8, <1>10, <1>11 DEF r, kicked

\* What is below the lowest of a list is below all of it, and so on.
LEMMA ListBounds ==
  ASSUME NEW s, Tidy(s)
  PROVE  /\ lowest_delegation_amount(s) \in Nat /\ highest_delegation_amount(s) \in Nat
         /\ \A y \in Bonds(s) : /\ y.amount \in Nat /\ y.owner \in Owners(s) /\ y \in Bond
                                /\ y.amount >= lowest_delegation_amount(s)
                                /\ highest_delegation_amount(s) >= y.amount
<1>1. \A y \in Bonds(s) : y.amount \in Nat /\ y.owner \in Owners(s) /\ y \in Bond
  <2>1. Bonds(s) \in SUBSET Bond /\ \A who : who \in Owners(s) <=> \E y \in Bonds(s) : y.owner = who
    BY TidyFacts
  <2> QED
    BY <2>1 DEF Bond
<1>2. CASE s = <<>>
  <2>1. Bonds(s) = {}
    BY <1>2, TidyFacts
  <2>2. lowest_delegation_amount(s) = 0 /\ highest_delegation_amount(s) = 0
    BY <1>2 DEF lowest_delegation_amount, highest_delegation_amount
  <2> QED
    BY <2>1, <2>2
<1>3. CASE s # <<>>
  <2>1. /\ \A y \in Bonds(s) : y.amount >= Last(s).amount
        /\ lowest_delegation_amount(s) = Last(s).amount /\ Last(s).amount \in Nat
    BY <1>3, PopTidy
  <2>2. /\ \A y \in Bonds(s) : Head(s).amount >= y.amount
        /\ highest_delegation_amount(s) = Head(s).amount /\ Head(s).amount \in Nat
    BY <1>3, ShiftTidy
  <2> QED
    BY <1>1, <2>1, <2>2
<1> QED
  BY <1>2, <1>3

\* The two lists of an arranged book, side by side.
LEMMA CrossFacts ==
  ASSUME NEW b, Arranged(b)
  PROVE  /\ \A x \in Bonds(b.top), y \in Bonds(b.bottom) : x.owner # y.owner /\ x.amount >= y.amount
         /\ \A x \in Bonds(b.top) : x.owner \notin Owners(b.bottom)
         /\ \A y \in Bonds(b.bottom) : y.owner \notin Owners(b.top)
<1>1. /\ Tidy(b.top) /\ Tidy(b.bottom)
      /\ \A x \in Bonds(b.top), y \in Bonds(b.bottom) : x.owner # y.owner /\ x.amount >= y.amount
  BY DEF Arranged
<1>2. \A who : who \in Owners(b.top) <=> \E y \in Bonds(b.top) : y.owner = who
  BY <1>1, TidyFacts
<1>3. \A who : who \in Owners(b.bottom) <=> \E y \in Bonds(b.bottom) : y.owner = who
  BY <1>1, TidyFacts
<1> QED
  BY <1>1, <1>2, <1>3

\* add_top_delegation keeps a book arranged: the lowest of a full top list goes
\* to the bottom, and the lowest of a full bottom list goes.
LEMMA AddTopArranged ==
  ASSUME NEW b, GoodBook(b), Arranged(b), NEW x \in Bond,
         x.owner \notin Owners(b.top), x.owner \notin Owners(b.bottom),
         b.topCapacity = "Full" => x.amount > b.lowestTop
  PROVE  LET r == add_top_delegation(b, x)
             kicked == IF /\ Len(b.top) = MaxTopDelegationsPerCandidate
                          /\ Len(b.bottom) = MaxBottomDelegationsPerCandidate
                       THEN {Last(b.bottom)} ELSE {}
         IN  Arranged(r) /\ Held(r) = (Held(b) \ kicked) \cup {x}
<1> DEFINE full   == Len(b.top) = MaxTopDelegationsPerCandidate
           s      == IF full THEN Front(b.top) ELSE b.top
           total  == IF full THEN SatSub(b.topTotal, Last(b.top).amount) ELSE b.topTotal
           below  == IF full THEN add_bottom_delegation(TRUE, b, Last(b.top)) ELSE b
           kicks  == full /\ b.bottomCapacity = "Full"
           count  == IF kicks THEN below.count ELSE below.count + 1
           q      == insert_sorted_greatest_to_least(s, x)
           r      == add_top_delegation(b, x)
           T      == Bonds(b.top)
           Z      == Bonds(b.bottom)
<1>1. /\ b \in Book /\ Tidy(b.top) /\ Tidy(b.bottom)
      /\ b.topTotal = SumOf(b.top) /\ b.bottomTotal >= SumOf(b.bottom)
      /\ SumOf(b.top) \in Nat /\ SumOf(b.bottom) \in Nat /\ b.bottomTotal \in Nat
      /\ b.topCapacity = "Full" <=> full
      /\ b.lowestTop = lowest_delegation_amount(b.top)
      /\ b.topCapacity # "Full" => b.bottom = <<>>
      /\ b.topCapacity = "Full" => b.top # <<>>
  BY ArrangedFacts
<1>2. r = reset_top_data([below EXCEPT !.count = count], q, total + x.amount)
  BY DEF add_top_delegation
<1>3. x.amount \in Nat
  BY DEF Bond
<1>4. \A y \in T, z \in Z : y.owner # z.owner /\ y.amount >= z.amount
  BY CrossFacts
<1>5. /\ \A y \in T : y.owner # x.owner /\ y.amount \in Nat /\ y \in Bond
      /\ \A z \in Z : z.owner # x.owner /\ z.amount \in Nat /\ z \in Bond
  BY <1>1, ListBounds
<1>6. Len(b.top) \in Nat /\ Len(b.bottom) \in Nat /\ b.top \in Seq(Bond)
  BY GoodBookFacts
<1>7. CASE ~full
  <2>1. s = b.top /\ total = b.topTotal /\ below = b /\ b.bottom = <<>>
    BY <1>1, <1>7
  <2> HIDE DEF s, total, below, q, r, full, T, Z
  <2>2. count \in Nat
    <3>1. below.count \in Nat
      BY <2>1, GoodBookFacts
    <3> HIDE DEF kicks
    <3> QED
      BY <3>1
  <2> HIDE DEF count
  <2>3. Tidy(q) /\ Bonds(q) = T \cup {x} /\ SumOf(q) = SumOf(b.top) + x.amount
    BY <1>1, <2>1, InsertSortedTidy DEF q, T
  <2> DEFINE b1 == [below EXCEPT !.count = count]
  <2>4. b1 \in Book /\ b1.bottom = b.bottom /\ b1.bottomTotal = b.bottomTotal
    BY <1>1, <2>1, <2>2, CountFields
  <2> HIDE DEF b1
  <2>5. r = reset_top_data(b1, q, total + x.amount)
    BY <1>2 DEF b1
  <2>6. /\ r.top = q /\ r.topTotal = total + x.amount
        /\ r.bottom = b.bottom /\ r.bottomTotal = b.bottomTotal
    BY <2>4, <2>5, ResetFields
  <2>7. Bonds(b.bottom) = {}
    BY <1>1, <2>1, TidyFacts
  <2>8. r.topTotal = SumOf(q)
    BY <1>1, <2>1, <2>3, <2>6
  <2>9. Arranged(r) /\ Held(r) = Bonds(q) \cup Bonds(b.bottom)
    BY <1>1, <2>1, <2>3, <2>6, <2>7, <2>8, ArrangedBook
  <2>10. Held(r) = Held(b) \cup {x}
    BY <2>3, <2>9 DEF Held, T
  <2> QED
    BY <1>7, <2>9, <2>10 DEF r, full
<1>8. CASE full
  <2> DEFINE l      == Last(b.top)
             kicked == IF Len(b.bottom) = MaxBottomDelegationsPerCandidate
                       THEN {Last(b.bottom)} ELSE {}
  <2>1. s = Front(b.top) /\ total = SatSub(b.topTotal, l.amount)
        /\ below = add_bottom_delegation(TRUE, b, l) /\ b.top # <<>>
    BY <1>1, <1>8
  <2>2. /\ Tidy(Front(b.top)) /\ Bonds(Front(b.top)) = T \ {l}
        /\ Len(Front(b.top)) = Len(b.top) - 1
        /\ SumOf(Front(b.top)) \in Nat /\ l.amount \in Nat
        /\ SumOf(b.top) = SumOf(Front(b.top)) + l.amount
        /\ l.owner \notin Owners(Front(b.top))
        /\ l \in T /\ l \in Bond
        /\ \A y \in T : y.amount >= l.amount
        /\ lowest_delegation_amount(b.top) = l.amount
    BY <1>1, <2>1, PopTidy
  <2> HIDE DEF s, total, below, q, r, full, T, Z, l, kicked
  <2>3. below \in Book
    BY <2>1, <2>2, AddBottom
  <2>4. count \in Nat
    <3>1. below.count \in Nat
      BY <2>3 DEF Book
    <3> HIDE DEF kicks
    <3> QED
      BY <3>1
  <2> HIDE DEF count
  <2>5. l.owner \notin Owners(b.bottom)
    BY <2>2, CrossFacts DEF T
  <2>6. /\ Tidy(below.bottom) /\ Bonds(below.bottom) = (Z \ kicked) \cup {l}
        /\ below.bottomTotal >= SumOf(below.bottom)
    BY <1>1, <2>1, <2>2, <2>5, AddBottomLists DEF kicked, Z
  <2>7. Tidy(q) /\ Bonds(q) = (T \ {l}) \cup {x} /\ SumOf(q) = SumOf(s) + x.amount
    <3>1. x.owner \notin Owners(s)
      <4>1. \A who : who \in Owners(s) => \E y \in Bonds(s) : y.owner = who
        BY <2>1, <2>2, TidyFacts
      <4> QED
        BY <1>5, <2>1, <2>2, <4>1
    <3> QED
      BY <2>1, <2>2, <3>1, InsertSortedTidy DEF q
  <2>8. Len(q) = MaxTopDelegationsPerCandidate
    <3>1. s \in Seq(Bond) /\ Len(s) = Len(b.top) - 1
      BY <1>6, <2>1, FrontLastType
    <3>2. Len(q) = Len(s) + 1
      BY <3>1, InsertSortedType DEF q
    <3>3. Len(b.top) = MaxTopDelegationsPerCandidate
      BY <1>8 DEF full
    <3>4. \A g, m, n : g \in Nat /\ m = g - 1 /\ n = m + 1 => n = g
      OBVIOUS
    <3> QED
      BY <1>6, <3>1, <3>2, <3>3, <3>4, Zenon
  <2> DEFINE b1 == [below EXCEPT !.count = count]
  <2>9. /\ b1 \in Book /\ b1.bottom = below.bottom /\ b1.bottomTotal = below.bottomTotal
    BY <2>3, <2>4, CountFields
  <2> HIDE DEF b1
  <2>10. r = reset_top_data(b1, q, total + x.amount)
    BY <1>2 DEF b1
  <2>11. /\ r.top = q /\ r.topTotal = total + x.amount
         /\ r.bottom = below.bottom /\ r.bottomTotal = below.bottomTotal
    BY <2>9, <2>10, ResetFields
  <2>12. r.topTotal = SumOf(q)
    <3>1. SumOf(s) \in Nat /\ l.amount \in Nat /\ b.topTotal = SumOf(s) + l.amount
      BY <1>1, <2>1, <2>2
    <3>2. total = SatSub(b.topTotal, l.amount)
      BY <2>1
    <3>3. total = SumOf(s)
      BY <3>1, <3>2, SatSubExact
    <3> QED
      BY <2>7, <2>11, <3>3
  <2>13. x.amount > l.amount
    BY <1>1, <1>8, <2>2
  <2>14. \A y \in Bonds(q), z \in Bonds(below.bottom) : y.owner # z.owner /\ y.amount >= z.amount
    <3> SUFFICES ASSUME NEW y \in Bonds(q), NEW z \in Bonds(below.bottom)
                 PROVE  y.owner # z.owner /\ y.amount >= z.amount
      OBVIOUS
    <3>1. (y \in T \ {l} \/ y = x) /\ (z \in Z \/ z = l)
      BY <2>6, <2>7
    <3>2. CASE y \in T \ {l} /\ z \in Z
      BY <1>4, <3>2
    <3>3. CASE y \in T \ {l} /\ z = l
      <4>1. y.owner # l.owner
        <5>1. \A u, v \in T : u.owner = v.owner => u = v
          BY <1>1, TidyFacts DEF T
        <5> QED
          BY <2>2, <3>3, <5>1
      <4> QED
        BY <2>2, <3>3, <4>1
    <3>4. CASE y = x /\ z \in Z
      <4>1. l.amount >= z.amount /\ z.owner # x.owner /\ z.amount \in Nat
        BY <1>4, <1>5, <2>2, <3>4
      <4> QED
        BY <1>3, <2>2, <2>13, <3>4, <4>1
    <3>5. CASE y = x /\ z = l
      BY <1>3, <1>5, <2>2, <2>13, <3>5
    <3> QED
      BY <3>1, <3>2, <3>3, <3>4, <3>5
  <2>15. Arranged(r) /\ Held(r) = Bonds(q) \cup Bonds(below.bottom)
    BY <2>6, <2>7, <2>8, <2>11, <2>12, <2>14, ArrangedBook
  <2>16. Held(r) = (Held(b) \ kicked) \cup {x}
    <3>1. kicked \in SUBSET Z
      <4>1. b.bottom # <<>> => Last(b.bottom) \in Bonds(b.bottom)
        BY <1>1, PopTidy
      <4>2. Len(b.bottom) = MaxBottomDelegationsPerCandidate => b.bottom # <<>>
        BY CapacityAssumption, EmptySeq
      <4> QED
        BY <4>1, <4>2 DEF kicked, Z
    <3>2. T \cap Z = {}
      BY <1>4
    <3> QED
      BY <2>2, <2>6, <2>7, <2>15, <3>1, <3>2 DEF Held, T, Z
  <2> QED
    BY <1>8, <2>15, <2>16 DEF r, full, kicked
<1> QED
  BY <1>7, <1>8

\* add_delegation keeps a book arranged. At most one bond is kicked, and it is
\* smaller than the new one; its amount is what the call reports.
LEMMA AddArranged ==
  ASSUME NEW b, GoodBook(b), Arranged(b), NEW x \in Bond,
         \A y \in Held(b) : y.owner # x.owner, can_add_delegation(b, x)
  PROVE  /\ Arranged(add_delegation(b, x))
         /\ Held(add_delegation(b, x)) = (Held(b) \ KickedBy(b, x)) \cup {x}
         /\ \/ KickedBy(b, x) = {} /\ less_total_staked(b, x) = 0
            \/ /\ KickedBy(b, x) = {Last(b.bottom)} /\ Last(b.bottom) \in Held(b)
               /\ Last(b.bottom).amount = less_total_staked(b, x)
               /\ Last(b.bottom).amount < x.amount
               /\ b.bottom[MaxBottomDelegationsPerCandidate] = Last(b.bottom)
               /\ Len(b.bottom) = MaxBottomDelegationsPerCandidate
<1> DEFINE topFull == Len(b.top) = MaxTopDelegationsPerCandidate
           bottomFull == Len(b.bottom) = MaxBottomDelegationsPerCandidate
           l == Last(b.bottom)
           r == add_delegation(b, x)
           kicked == KickedBy(b, x)
<1>1. /\ b \in Book /\ Tidy(b.top) /\ Tidy(b.bottom)
      /\ b.topTotal = SumOf(b.top) /\ b.bottomTotal >= SumOf(b.bottom)
      /\ b.topCapacity = "Full" <=> topFull
      /\ b.bottomCapacity = "Full" <=> bottomFull
      /\ b.lowestTop = lowest_delegation_amount(b.top)
      /\ b.lowestBottom = lowest_delegation_amount(b.bottom)
      /\ b.topCapacity # "Full" => b.bottom = <<>>
      /\ b.bottomCapacity = "Full" => b.bottom # <<>>
  BY ArrangedFacts
<1>2. x.amount \in Nat /\ x.owner \in Accounts
  BY DEF Bond
<1>3. x.owner \notin Owners(b.top) /\ x.owner \notin Owners(b.bottom)
  BY HeldFacts
<1>4. AddsToBottom(b, x) => topFull
  BY <1>1 DEF AddsToBottom
<1>5. bottomFull => topFull /\ b.bottom # <<>>
  BY <1>1
<1>6. kicked = IF bottomFull THEN {l} ELSE {}
  BY <1>5 DEF KickedBy
<1>7. less_total_staked(b, x) = IF bottomFull THEN b.lowestBottom ELSE 0
  BY <1>1, <1>5 DEF less_total_staked
<1>8. lowest_delegation_amount(b.top) \in Nat
      /\ \A y \in Bonds(b.top) : y.amount \in Nat /\ y.amount >= lowest_delegation_amount(b.top)
  BY <1>1, ListBounds
<1>9. Arranged(r) /\ Held(r) = (Held(b) \ kicked) \cup {x}
  <2>1. CASE AddsToBottom(b, x)
    <3> DEFINE q == add_bottom_delegation(FALSE, b, x)
    <3>1. r = q
      BY <2>1 DEF add_delegation
    <3>2. /\ q.top = b.top /\ q.topTotal = b.topTotal
          /\ Tidy(q.bottom) /\ Bonds(q.bottom) = (Bonds(b.bottom) \ kicked) \cup {x}
          /\ q.bottomTotal >= SumOf(q.bottom)
      <4>1. LET r1 == add_bottom_delegation(FALSE, b, x)
                k == IF Len(b.bottom) = MaxBottomDelegationsPerCandidate
                     THEN {Last(b.bottom)} ELSE {}
            IN  /\ r1.top = b.top /\ r1.topTotal = b.topTotal
                /\ Tidy(r1.bottom) /\ Bonds(r1.bottom) = (Bonds(b.bottom) \ k) \cup {x}
                /\ r1.bottomTotal >= SumOf(r1.bottom)
        BY <1>1, <1>3, AddBottomLists
      <4> QED
        BY <1>6, <4>1
    <3> HIDE DEF q, r, kicked
    <3>3. \A y \in Bonds(b.top), z \in Bonds(q.bottom) : y.owner # z.owner /\ y.amount >= z.amount
      <4>1. b.lowestTop >= x.amount
        BY <2>1 DEF AddsToBottom
      <4>2. \A y \in Bonds(b.top) : y.owner # x.owner
        BY <1>1, <1>3, ListBounds
      <4>3. \A y \in Bonds(b.top) : y.amount >= x.amount
        BY <1>1, <1>2, <1>8, <4>1
      <4>4. \A y \in Bonds(b.top), z \in Bonds(b.bottom) : y.owner # z.owner /\ y.amount >= z.amount
        BY CrossFacts
      <4> QED
        BY <3>2, <4>2, <4>3, <4>4
    <3>4. Arranged(q) /\ Held(q) = Bonds(b.top) \cup Bonds(q.bottom)
      BY <1>1, <1>4, <2>1, <3>2, <3>3, ArrangedBook
    <3>5. Bonds(b.top) \cap kicked = {}
      <4>1. bottomFull => l \in Bonds(b.bottom)
        BY <1>1, <1>5, PopTidy
      <4>2. Bonds(b.top) \cap Bonds(b.bottom) = {}
        BY CrossFacts
      <4> QED
        BY <1>6, <4>1, <4>2 DEF kicked
    <3> QED
      BY <3>1, <3>2, <3>4, <3>5 DEF Held
  <2>2. CASE ~AddsToBottom(b, x)
    <3>1. r = add_top_delegation(b, x)
      BY <2>2 DEF add_delegation
    <3>2. b.topCapacity = "Full" => x.amount > b.lowestTop
      BY <1>1, <1>2, <1>8, <2>2 DEF AddsToBottom
    <3>3. kicked = IF topFull /\ bottomFull THEN {l} ELSE {}
      BY <1>5, <1>6
    <3> HIDE DEF r, kicked
    <3>4. LET q == add_top_delegation(b, x)
              k == IF topFull /\ bottomFull THEN {l} ELSE {}
          IN  Arranged(q) /\ Held(q) = (Held(b) \ k) \cup {x}
      BY <1>3, <3>2, AddTopArranged
    <3> QED
      BY <3>1, <3>3, <3>4
  <2> QED
    BY <2>1, <2>2
<1>10. CASE ~bottomFull
  BY <1>6, <1>7, <1>9, <1>10
<1>11. CASE bottomFull
  <2>1. /\ l \in Bonds(b.bottom) /\ l.amount \in Nat
        /\ lowest_delegation_amount(b.bottom) = l.amount
    BY <1>1, <1>5, <1>11, PopTidy
  <2>2. l \in Held(b)
    BY <2>1 DEF Held
  <2>3. less_total_staked(b, x) = l.amount
    BY <1>1, <1>7, <1>11, <2>1
  <2>4. x.amount > l.amount
    <3>1. CASE AddsToBottom(b, x)
      BY <1>1, <1>11, <2>1, <3>1 DEF can_add_delegation
    <3>2. CASE ~AddsToBottom(b, x)
      <4>1. x.amount > b.lowestTop
        BY <1>1, <1>2, <1>5, <1>8, <1>11, <3>2 DEF AddsToBottom
      <4>2. b.top # <<>> /\ b.top \in Seq(Bond)
        <5>1. Len(b.top) = MaxTopDelegationsPerCandidate
          BY <1>5, <1>11
        <5> QED
          BY <1>1, <5>1, CapacityAssumption, EmptySeq, GoodBookFacts
      <4>3. Last(b.top) \in Bonds(b.top) /\ lowest_delegation_amount(b.top) = Last(b.top).amount
        BY <1>1, <4>2, PopTidy
      <4>4. Last(b.top).amount >= l.amount
        BY <2>1, <4>3, CrossFacts
      <4> QED
        BY <1>1, <1>2, <1>8, <2>1, <4>1, <4>3, <4>4
    <3> QED
      BY <3>1, <3>2
  <2>5. b.bottom[MaxBottomDelegationsPerCandidate] = l
    BY <1>11 DEF Last
  <2>6. KickedBy(b, x) = {Last(b.bottom)}
    BY <1>6, <1>11
  <2> QED
    BY <1>9, <1>11, <2>2, <2>3, <2>4, <2>5, <2>6
<1> QED
  BY <1>10, <1>11

\* The place of an owner's bond in a tidy list.
LEMMA PlaceOf ==
  ASSUME NEW s, Tidy(s), NEW who \in Owners(s)
  PROVE  LET i == IndexOf(s, who)
         IN  /\ i \in 1 .. Len(s) /\ s[i] \in Bonds(s) /\ s[i] \in Bond
             /\ s[i].owner = who /\ s[i].amount \in Nat /\ who \in Accounts
<1>1. s \in Seq(Bond) /\ \A i \in 1 .. Len(s) : s[i] \in Bonds(s) /\ s[i].amount \in Nat
                                                /\ s[i].owner \in Accounts
  BY TidyFacts
<1>2. IndexOf(s, who) \in 1 .. Len(s) /\ s[IndexOf(s, who)] \in Bond
  BY <1>1, IndexOfType
<1>3. \E i \in DOMAIN s : s[i].owner = who
  BY DEF Owners
<1>4. s[IndexOf(s, who)].owner = who
  BY <1>3 DEF IndexOf
<1> QED
  BY <1>1, <1>2, <1>4

\* rm_top_delegation keeps a book arranged: the highest of the bottom moves up.
LEMMA RmTopArranged ==
  ASSUME NEW b, GoodBook(b), Arranged(b), NEW who \in Owners(b.top)
  PROVE  LET r == rm_top_delegation(b, who)
         IN  Arranged(r) /\ Held(r) = Held(b) \ {b.top[IndexOf(b.top, who)]}
<1> DEFINE i     == IndexOf(b.top, who)
           y     == b.top[i]
           s     == RemoveAt(b.top, i)
           total == SatSub(b.topTotal, y.amount)
           next  == Head(b.bottom)
           n     == SatSub(b.count, 1)
           less1 == [b EXCEPT !.count = n]
           r     == rm_top_delegation(b, who)
           T     == Bonds(b.top)
           Z     == Bonds(b.bottom)
<1>1. /\ b \in Book /\ Tidy(b.top) /\ Tidy(b.bottom) /\ b.count \in Nat
      /\ b.topTotal = SumOf(b.top) /\ b.bottomTotal >= SumOf(b.bottom)
      /\ SumOf(b.top) \in Nat /\ SumOf(b.bottom) \in Nat /\ b.bottomTotal \in Nat
      /\ b.bottomCapacity = "Empty" <=> b.bottom = <<>>
  BY ArrangedFacts
<1>2. i \in 1 .. Len(b.top) /\ y \in T /\ y.amount \in Nat
  BY <1>1, PlaceOf
<1> HIDE DEF i
<1>3. /\ Tidy(s) /\ Bonds(s) = T \ {y} /\ Len(s) = Len(b.top) - 1 /\ SumOf(s) \in Nat
      /\ SumOf(b.top) = SumOf(s) + y.amount /\ y.owner \notin Owners(s)
  BY <1>1, <1>2, RemoveTidySum
<1>4. total = SumOf(s)
  BY <1>1, <1>2, <1>3, SatSubExact
<1>5. \A t \in T, z \in Z : t.owner # z.owner /\ t.amount >= z.amount
  BY CrossFacts
<1>6. n \in Nat
  BY <1>1 DEF SatSub
<1>7. less1 \in Book /\ less1.bottom = b.bottom /\ less1.bottomTotal = b.bottomTotal
  BY <1>1, <1>6, CountFields
<1>8. CASE b.bottom = <<>>
  <2>1. r = reset_top_data(less1, s, total)
    BY <1>1, <1>8 DEF rm_top_delegation, i
  <2> HIDE DEF r, less1, s, total, n, y, T
  <2>2. r.top = s /\ r.topTotal = total /\ r.bottom = b.bottom /\ r.bottomTotal = b.bottomTotal
    BY <1>7, <2>1, ResetFields
  <2>3. Z = {}
    BY <1>1, <1>8, TidyFacts
  <2>4. Arranged(r) /\ Held(r) = Bonds(s) \cup Z
    BY <1>1, <1>3, <1>4, <1>8, <2>2, <2>3, ArrangedBook
  <2>5. Held(b) = T
    BY <2>3 DEF Held, T
  <2> QED
    BY <1>3, <2>3, <2>4, <2>5 DEF r, y, i
<1>9. CASE b.bottom # <<>>
  <2> DEFINE q == insert_sorted_greatest_to_least(s, next)
             u == SatSub(b.bottomTotal, next.amount)
  <2>1. r = reset_top_data(reset_bottom_data(less1, Tail(b.bottom), u), q, total + next.amount)
    BY <1>1, <1>9 DEF rm_top_delegation, i
  <2>2. /\ Tidy(Tail(b.bottom)) /\ Bonds(Tail(b.bottom)) = Z \ {next}
        /\ SumOf(Tail(b.bottom)) \in Nat /\ next.amount \in Nat
        /\ SumOf(b.bottom) = SumOf(Tail(b.bottom)) + next.amount
        /\ next \in Z /\ next \in Bond
        /\ \A z \in Z : next.amount >= z.amount
    BY <1>1, <1>9, ShiftTidy
  <2> HIDE DEF r, less1, s, total, n, y, next, T, Z, q, u
  <2>3. /\ r.top = q /\ r.topTotal = total + next.amount
        /\ r.bottom = Tail(b.bottom) /\ r.bottomTotal = u
    BY <1>7, <2>1, ResetFields
  <2>4. Tidy(q) /\ Bonds(q) = (T \ {y}) \cup {next} /\ SumOf(q) = SumOf(s) + next.amount
    <3>1. next.owner \notin Owners(s)
      <4>1. \A w : w \in Owners(s) => \E t \in Bonds(s) : t.owner = w
        BY <1>3, TidyFacts
      <4> QED
        BY <1>3, <1>5, <2>2, <4>1
    <3> QED
      BY <1>3, <2>2, <3>1, InsertSortedTidy DEF q
  <2>5. u >= SumOf(Tail(b.bottom))
    BY <1>1, <2>2, SatSubAtLeast DEF u
  <2>6. Len(q) = MaxTopDelegationsPerCandidate
    <3>1. b.top \in Seq(Bond) /\ Len(b.top) \in Nat
      BY GoodBookFacts
    <3>2. Len(b.top) = MaxTopDelegationsPerCandidate
      BY <1>9 DEF Arranged
    <3>3. s \in Seq(Bond)
      BY <1>3, TidyFacts
    <3>4. Len(q) = Len(s) + 1
      BY <2>2, <3>3, InsertSortedType DEF q
    <3> QED
      BY <1>3, <3>1, <3>2, <3>4
  <2>7. \A t \in Bonds(q), z \in Bonds(Tail(b.bottom)) : t.owner # z.owner /\ t.amount >= z.amount
    <3>1. \A z \in Z \ {next} : next.owner # z.owner
      <4>1. \A v, w \in Z : v.owner = w.owner => v = w
        BY <1>1, TidyFacts DEF Z
      <4> QED
        BY <2>2, <4>1
    <3> QED
      BY <1>5, <2>2, <2>4, <3>1
  <2>8. r.topTotal = SumOf(q)
    BY <1>3, <1>4, <2>2, <2>3, <2>4
  <2>9. Arranged(r) /\ Held(r) = Bonds(q) \cup Bonds(Tail(b.bottom))
    BY <2>2, <2>3, <2>4, <2>5, <2>6, <2>7, <2>8, ArrangedBook
  <2>10. T \cap Z = {}
    BY <1>5
  <2>11. Held(r) = Held(b) \ {y}
    BY <1>2, <2>2, <2>4, <2>9, <2>10 DEF Held, T, Z
  <2> QED
    BY <2>9, <2>11 DEF r, y, i
<1> QED
  BY <1>8, <1>9

\* rm_bottom_delegation keeps a book arranged.
LEMMA RmBottomArranged ==
  ASSUME NEW b, GoodBook(b), Arranged(b), NEW who \in Owners(b.bottom)
  PROVE  LET r == rm_bottom_delegation(b, who)
         IN  Arranged(r) /\ Held(r) = Held(b) \ {b.bottom[IndexOf(b.bottom, who)]}
<1> DEFINE i     == IndexOf(b.bottom, who)
           y     == b.bottom[i]
           s     == RemoveAt(b.bottom, i)
           u     == SatSub(b.bottomTotal, y.amount)
           n     == SatSub(b.count, 1)
           less1 == [b EXCEPT !.count = n]
           r     == rm_bottom_delegation(b, who)
           T     == Bonds(b.top)
           Z     == Bonds(b.bottom)
<1>1. /\ b \in Book /\ Tidy(b.top) /\ Tidy(b.bottom) /\ b.count \in Nat
      /\ b.topTotal = SumOf(b.top) /\ b.bottomTotal >= SumOf(b.bottom)
      /\ SumOf(b.bottom) \in Nat /\ b.bottomTotal \in Nat
  BY ArrangedFacts
<1>2. i \in 1 .. Len(b.bottom) /\ y \in Z /\ y.amount \in Nat
  BY <1>1, PlaceOf
<1>3. r = reset_bottom_data(less1, s, u)
  BY DEF rm_bottom_delegation
<1> HIDE DEF i
<1>4. /\ Tidy(s) /\ Bonds(s) = Z \ {y} /\ SumOf(s) \in Nat
      /\ SumOf(b.bottom) = SumOf(s) + y.amount
  BY <1>1, <1>2, RemoveTidySum
<1>5. u >= SumOf(s)
  BY <1>1, <1>2, <1>4, SatSubAtLeast
<1>6. \A t \in T, z \in Z : t.owner # z.owner /\ t.amount >= z.amount
  BY CrossFacts
<1>7. n \in Nat
  BY <1>1 DEF SatSub
<1>8. less1 \in Book /\ less1.top = b.top /\ less1.topTotal = b.topTotal
  BY <1>1, <1>7, CountFields
<1> HIDE DEF r, less1, s, u, n, y, T, Z
<1>9. r.top = b.top /\ r.topTotal = b.topTotal /\ r.bottom = s /\ r.bottomTotal = u
  BY <1>3, <1>8, ResetFields
<1>10. Len(b.top) = MaxTopDelegationsPerCandidate
  <2>1. b.bottom # <<>>
    BY <1>1, <1>2, TidyFacts DEF Z
  <2> QED
    BY <2>1 DEF Arranged
<1>11. \A t \in Bonds(b.top), z \in Bonds(s) : t.owner # z.owner /\ t.amount >= z.amount
  BY <1>4, <1>6 DEF T
<1>12. Arranged(r) /\ Held(r) = Bonds(b.top) \cup Bonds(s)
  BY <1>1, <1>4, <1>5, <1>9, <1>10, <1>11, ArrangedBook
<1>13. T \cap Z = {}
  BY <1>6
<1>14. Held(r) = Held(b) \ {y}
  BY <1>2, <1>4, <1>12, <1>13 DEF Held, T, Z
<1> QED
  BY <1>12, <1>14 DEF r, y, i

\* rm_delegation_if_exists removes the delegation of its owner.
LEMMA RmArranged ==
  ASSUME NEW b, GoodBook(b), Arranged(b), NEW y \in Held(b), NEW amount,
         can_rm_delegation(b, y.owner, amount)
  PROVE  LET r == rm_delegation_if_exists(b, y.owner, amount)
         IN  Arranged(r) /\ Held(r) = Held(b) \ {y}
<1>1. Tidy(b.top) /\ Tidy(b.bottom) /\ \A v, w \in Held(b) : v.owner = w.owner => v = w
  BY HeldFacts DEF Arranged
<1>2. CASE RemovesFromTop(b, y.owner, amount)
  <2>1. y.owner \in Owners(b.top)
    BY <1>2 DEF can_rm_delegation
  <2>2. b.top[IndexOf(b.top, y.owner)] = y
    <3>1. /\ b.top[IndexOf(b.top, y.owner)] \in Bonds(b.top)
          /\ b.top[IndexOf(b.top, y.owner)].owner = y.owner
      BY <1>1, <2>1, PlaceOf
    <3> QED
      BY <1>1, <3>1 DEF Held
  <2>3. LET r == rm_top_delegation(b, y.owner)
        IN  Arranged(r) /\ Held(r) = Held(b) \ {b.top[IndexOf(b.top, y.owner)]}
    BY <2>1, RmTopArranged
  <2> QED
    BY <1>2, <2>2, <2>3 DEF rm_delegation_if_exists
<1>3. CASE ~RemovesFromTop(b, y.owner, amount)
  <2>1. y.owner \in Owners(b.bottom)
    BY <1>3 DEF can_rm_delegation
  <2>2. b.bottom[IndexOf(b.bottom, y.owner)] = y
    <3>1. b.bottom[IndexOf(b.bottom, y.owner)] \in Bonds(b.bottom)
          /\ b.bottom[IndexOf(b.bottom, y.owner)].owner = y.owner
      BY <1>1, <2>1, PlaceOf
    <3> QED
      BY <1>1, <3>1 DEF Held
  <2>3. LET r == rm_bottom_delegation(b, y.owner)
        IN  Arranged(r) /\ Held(r) = Held(b) \ {b.bottom[IndexOf(b.bottom, y.owner)]}
    BY <2>1, RmBottomArranged
  <2> QED
    BY <1>3, <2>2, <2>3 DEF rm_delegation_if_exists
<1> QED
  BY <1>2, <1>3

\* increase_top_delegation keeps a book arranged.
LEMMA IncreaseTopArranged ==
  ASSUME NEW b, GoodBook(b), Arranged(b), NEW who \in Owners(b.top), NEW more \in Nat
  PROVE  LET y == b.top[IndexOf(b.top, who)]
             r == increase_top_delegation(b, who, more)
         IN  /\ Arranged(r)
             /\ Held(r) = (Held(b) \ {y}) \cup {[owner |-> who, amount |-> y.amount + more]}
<1> DEFINE i == IndexOf(b.top, who)
           y == b.top[i]
           a == y.amount + more
           s == sort_greatest_to_least(b.top, i, a)
           x == [y EXCEPT !.amount = a]
           t == b.topTotal + more
           r == increase_top_delegation(b, who, more)
           T == Bonds(b.top)
           Z == Bonds(b.bottom)
<1>1. /\ b \in Book /\ Tidy(b.top) /\ Tidy(b.bottom)
      /\ b.topTotal = SumOf(b.top) /\ b.bottomTotal >= SumOf(b.bottom) /\ SumOf(b.top) \in Nat
  BY ArrangedFacts
<1>2. i \in 1 .. Len(b.top) /\ y \in T /\ y.amount \in Nat /\ y.owner = who /\ y \in Bond
  BY <1>1, PlaceOf
<1>3. r = reset_top_data(b, s, t)
  BY DEF increase_top_delegation
<1> HIDE DEF i
<1>4. a \in Nat /\ a >= y.amount
  BY <1>2
<1>5. /\ Tidy(s) /\ Bonds(s) = (T \ {y}) \cup {x} /\ x.owner = y.owner /\ x.amount = a
      /\ SumOf(s) + y.amount = SumOf(b.top) + a
  <2> HIDE DEF a
  <2>1. Tidy(b.top) /\ i \in 1 .. Len(b.top) /\ a \in Nat
    BY <1>1, <1>2, <1>4
  <2>2. LET s1 == sort_greatest_to_least(b.top, i, a)
            x1 == [b.top[i] EXCEPT !.amount = a]
        IN  /\ Tidy(s1) /\ Bonds(s1) = (Bonds(b.top) \ {b.top[i]}) \cup {x1} /\ x1 \in Bond
            /\ x1.owner = b.top[i].owner /\ x1.amount = a
            /\ SumOf(s1) + b.top[i].amount = SumOf(b.top) + a
    BY <2>1, SortTidy
  <2> QED
    BY <2>2
<1>6. x = [owner |-> who, amount |-> a]
  BY <1>2 DEF Bond
<1>7. \A v \in T, z \in Z : v.owner # z.owner /\ v.amount >= z.amount
  BY CrossFacts
<1>8. \A z \in Z : z.amount \in Nat
  BY <1>1, ListBounds
<1>9. Len(s) = Len(b.top)
  <2>1. b.top \in Seq(Bond)
    BY GoodBookFacts
  <2>2. i \in DOMAIN b.top
    BY <1>2, <2>1
  <2> HIDE DEF a
  <2> QED
    BY <1>4, <2>1, <2>2, SortType
<1>10. SumOf(s) = t
  <2>1. SumOf(s) \in Nat
    BY <1>5, SumOfBonds
  <2>2. SumOf(s) + y.amount = SumOf(b.top) + (y.amount + more)
    BY <1>5
  <2> HIDE DEF s, y
  <2> QED
    BY <1>1, <1>2, <2>1, <2>2
<1> HIDE DEF r, s, a, x, y, t, T, Z
<1>11. r.top = s /\ r.topTotal = t /\ r.bottom = b.bottom /\ r.bottomTotal = b.bottomTotal
  BY <1>1, <1>3, ResetFields
<1>12. \A v \in Bonds(s), z \in Bonds(b.bottom) : v.owner # z.owner /\ v.amount >= z.amount
  <2>1. \A z \in Z : x.owner # z.owner /\ x.amount >= z.amount
    BY <1>2, <1>4, <1>5, <1>7, <1>8
  <2> QED
    BY <1>5, <1>7, <2>1 DEF Z
<1>13. b.bottom # <<>> => Len(s) = MaxTopDelegationsPerCandidate
  BY <1>9 DEF Arranged
<1>14. Arranged(r) /\ Held(r) = Bonds(s) \cup Bonds(b.bottom)
  BY <1>1, <1>5, <1>10, <1>11, <1>12, <1>13, ArrangedBook
<1>15. T \cap Z = {}
  BY <1>7
<1>16. Held(r) = (Held(b) \ {y}) \cup {x}
  BY <1>2, <1>5, <1>14, <1>15 DEF Held, T, Z
<1> QED
  BY <1>6, <1>14, <1>16 DEF r, a, y, i

\* increase_bottom_delegation keeps a book arranged: a bond that outgrows the
\* lowest of the top changes places with it.
LEMMA IncreaseBottomArranged ==
  ASSUME NEW b, GoodBook(b), Arranged(b), NEW who \in Owners(b.bottom), NEW more \in Nat
  PROVE  LET y == b.bottom[IndexOf(b.bottom, who)]
             r == increase_bottom_delegation(b, who, y.amount, more)
         IN  /\ Arranged(r)
             /\ Held(r) = (Held(b) \ {y}) \cup {[owner |-> who, amount |-> y.amount + more]}
<1> DEFINE i == IndexOf(b.bottom, who)
           y == b.bottom[i]
           a == y.amount + more
           x == [y EXCEPT !.amount = a]
           r == increase_bottom_delegation(b, who, y.amount, more)
           T == Bonds(b.top)
           Z == Bonds(b.bottom)
           rest == RemoveAt(b.bottom, i)
           l    == Last(b.top)
<1>1. /\ b \in Book /\ Tidy(b.top) /\ Tidy(b.bottom)
      /\ b.topTotal = SumOf(b.top) /\ b.bottomTotal >= SumOf(b.bottom)
      /\ SumOf(b.top) \in Nat /\ SumOf(b.bottom) \in Nat /\ b.bottomTotal \in Nat
      /\ b.topCapacity = "Full" <=> Len(b.top) = MaxTopDelegationsPerCandidate
      /\ b.topCapacity # "Full" => b.bottom = <<>>
      /\ b.topCapacity = "Full" => b.top # <<>>
      /\ b.lowestTop = lowest_delegation_amount(b.top)
  BY ArrangedFacts
<1>2. i \in 1 .. Len(b.bottom) /\ y \in Z /\ y.amount \in Nat /\ y.owner = who /\ y \in Bond
  BY <1>1, PlaceOf
<1>3. a \in Nat /\ a >= y.amount
  BY <1>2
<1>4. x = [owner |-> who, amount |-> a] /\ x \in Bond
  BY <1>2, <1>3 DEF Bond
<1>5. \A t \in T, z \in Z : t.owner # z.owner /\ t.amount >= z.amount
  BY CrossFacts
<1>6. T \cap Z = {}
  BY <1>5
<1>7. \A t \in T : t.amount \in Nat /\ t.amount >= b.lowestTop
  BY <1>1, ListBounds
<1>8. b.lowestTop \in Nat
  BY <1>1, ListBounds
<1>9. Len(b.top) = MaxTopDelegationsPerCandidate /\ b.top # <<>> /\ top_capacity(b.top) = "Full"
  <2>1. b.bottom # <<>>
    BY <1>1, <1>2, TidyFacts
  <2>2. b.topCapacity = top_capacity(b.top)
    BY DEF GoodBook, MetadataOK, TopMetadataOK
  <2> QED
    BY <1>1, <2>1, <2>2
<1>10. CASE a <= b.lowestTop
  <2> DEFINE s == sort_greatest_to_least(b.bottom, i, a)
  <2>1. r = reset_bottom_data(b, s, b.bottomTotal + more)
    <3>1. ([b.bottom[i] EXCEPT !.amount = @ + more]).amount = a
      BY <1>2 DEF Bond
    <3> QED
      BY <1>10, <3>1 DEF increase_bottom_delegation
  <2> HIDE DEF i
  <2>2. /\ Tidy(s) /\ Bonds(s) = (Z \ {y}) \cup {x} /\ x.owner = y.owner /\ x.amount = a
        /\ SumOf(s) + y.amount = SumOf(b.bottom) + a
    <3> HIDE DEF a
    <3>1. Tidy(b.bottom) /\ i \in 1 .. Len(b.bottom) /\ a \in Nat
      BY <1>1, <1>2, <1>3
    <3>2. LET s1 == sort_greatest_to_least(b.bottom, i, a)
              x1 == [b.bottom[i] EXCEPT !.amount = a]
          IN  /\ Tidy(s1) /\ Bonds(s1) = (Bonds(b.bottom) \ {b.bottom[i]}) \cup {x1} /\ x1 \in Bond
              /\ x1.owner = b.bottom[i].owner /\ x1.amount = a
              /\ SumOf(s1) + b.bottom[i].amount = SumOf(b.bottom) + a
      BY <3>1, SortTidy
    <3> QED
      BY <3>2
  <2>3. b.bottomTotal + more >= SumOf(s)
    <3>1. SumOf(s) \in Nat
      BY <2>2, SumOfBonds
    <3>2. SumOf(s) + y.amount = SumOf(b.bottom) + (y.amount + more)
      BY <2>2
    <3>3. \A p, q, t, m \in Nat : t >= q /\ p + m = q + (m + more) => t + more >= p
      OBVIOUS
    <3> HIDE DEF s, a, x, y
    <3> QED
      BY <1>1, <1>2, <3>1, <3>2, <3>3
  <2> HIDE DEF r, s, a, x, y, T, Z
  <2>4. /\ r.top = b.top /\ r.topTotal = b.topTotal
        /\ r.bottom = s /\ r.bottomTotal = b.bottomTotal + more
    BY <1>1, <2>1, ResetFields
  <2>5. \A t \in Bonds(b.top), z \in Bonds(s) : t.owner # z.owner /\ t.amount >= z.amount
    <3>1. \A t \in T : t.owner # x.owner /\ t.amount >= x.amount
      BY <1>2, <1>3, <1>5, <1>7, <1>8, <1>10, <2>2
    <3> QED
      BY <1>5, <2>2, <3>1 DEF T
  <2>6. Arranged(r) /\ Held(r) = Bonds(b.top) \cup Bonds(s)
    BY <1>1, <1>9, <2>2, <2>3, <2>4, <2>5, ArrangedBook
  <2>7. Held(r) = (Held(b) \ {y}) \cup {x}
    BY <1>2, <1>6, <2>2, <2>6 DEF Held, T, Z
  <2> QED
    BY <1>4, <2>6, <2>7 DEF r, a, y, i
<1>11. CASE ~(a <= b.lowestTop)
  <2> DEFINE f == Front(b.top)
             s == insert_sorted_greatest_to_least(f, x)
             t == SatSub(b.topTotal, l.amount) + x.amount
             z == insert_sorted_greatest_to_least(rest, l)
             u == SatSub(b.bottomTotal, y.amount) + l.amount
  <2>1. r = reset_bottom_data(reset_top_data(b, s, t), z, u)
    <3>1. [b.bottom[i] EXCEPT !.amount = @ + more] = x
      OBVIOUS
    <3>2. ~(y.amount + more <= b.lowestTop)
      BY <1>11
    <3> QED
      BY <1>9, <3>1, <3>2 DEF increase_bottom_delegation
  <2>2. /\ Tidy(f) /\ Bonds(f) = T \ {l} /\ Len(f) = Len(b.top) - 1 /\ SumOf(f) \in Nat
        /\ l.amount \in Nat /\ SumOf(b.top) = SumOf(f) + l.amount
        /\ l.owner \notin Owners(f) /\ l \in T /\ l \in Bond
        /\ \A v \in T : v.amount >= l.amount
        /\ lowest_delegation_amount(b.top) = l.amount
    BY <1>1, <1>9, PopTidy
  <2> HIDE DEF i
  <2>3. /\ Tidy(rest) /\ Bonds(rest) = Z \ {y} /\ SumOf(rest) \in Nat
        /\ SumOf(b.bottom) = SumOf(rest) + y.amount
    BY <1>1, <1>2, RemoveTidySum
  <2>4. x.owner = who /\ x.amount = a
    BY <1>4
  <2> HIDE DEF r, x, a, y, T, Z, l, f, rest
  <2>5. Tidy(s) /\ Bonds(s) = (T \ {l}) \cup {x} /\ SumOf(s) = SumOf(f) + x.amount
    <3>1. x.owner \notin Owners(f)
      <4>1. \A w : w \in Owners(f) => \E v \in Bonds(f) : v.owner = w
        BY <2>2, TidyFacts
      <4> QED
        BY <1>2, <1>5, <2>2, <2>4, <4>1
    <3> QED
      BY <1>4, <2>2, <3>1, InsertSortedTidy
  <2>6. Tidy(z) /\ Bonds(z) = (Z \ {y}) \cup {l} /\ SumOf(z) = SumOf(rest) + l.amount
    <3>1. l.owner \notin Owners(rest)
      <4>1. \A w : w \in Owners(rest) => \E v \in Bonds(rest) : v.owner = w
        BY <2>3, TidyFacts
      <4> QED
        BY <1>5, <2>2, <2>3, <4>1
    <3> QED
      BY <2>2, <2>3, <3>1, InsertSortedTidy
  <2>7. Len(s) = MaxTopDelegationsPerCandidate
    <3>1. f \in Seq(Bond)
      BY <2>2, TidyFacts
    <3>2. Len(s) = Len(f) + 1
      BY <1>4, <3>1, InsertSortedType
    <3>3. Len(b.top) \in Nat
      BY GoodBookFacts
    <3> QED
      BY <1>9, <2>2, <3>2, <3>3
  <2>8. t = SumOf(s) /\ u >= SumOf(z)
    <3>1. SatSub(b.topTotal, l.amount) = SumOf(f)
      BY <1>1, <2>2, SatSubExact
    <3>2. SatSub(b.bottomTotal, y.amount) >= SumOf(rest) /\ SatSub(b.bottomTotal, y.amount) \in Nat
      BY <1>1, <1>2, <2>3, SatSubAtLeast, SatSubType
    <3> QED
      BY <2>2, <2>3, <2>5, <2>6, <3>1, <3>2
  <2> HIDE DEF s, z, t, u
  <2>9. r.top = s /\ r.topTotal = t /\ r.bottom = z /\ r.bottomTotal = u
    BY <1>1, <2>1, ResetFields
  <2>10. \A v \in Bonds(s), w \in Bonds(z) : v.owner # w.owner /\ v.amount >= w.amount
    <3>1. \A w \in Z : w.amount <= y.amount \/ w # y
      BY <1>2
    <3>2. x.owner # l.owner /\ x.amount >= l.amount
      BY <1>1, <1>2, <1>3, <1>5, <1>8, <1>11, <2>2, <2>4
    <3>3. \A w \in Z \ {y} : x.owner # w.owner /\ x.amount >= w.amount
      <4>1. \A w \in Z \ {y} : y.owner # w.owner
        <5>1. \A v, w \in Z : v.owner = w.owner => v = w
          BY <1>1, TidyFacts DEF Z
        <5> QED
          BY <1>2, <5>1
      <4>2. \A w \in Z : l.amount >= w.amount /\ w.amount \in Nat
        BY <1>1, <1>5, <2>2, ListBounds DEF Z
      <4>3. x.amount \in Nat
        BY <1>3, <2>4
      <4> QED
        BY <1>2, <2>2, <2>4, <3>2, <4>1, <4>2, <4>3
    <3>4. \A v \in T \ {l} : v.owner # l.owner
      <4>1. \A v, w \in T : v.owner = w.owner => v = w
        BY <1>1, TidyFacts DEF T
      <4> QED
        BY <2>2, <4>1
    <3> QED
      BY <1>5, <2>2, <2>5, <2>6, <3>2, <3>3, <3>4
  <2>11. Arranged(r) /\ Held(r) = Bonds(s) \cup Bonds(z)
    BY <2>5, <2>6, <2>7, <2>8, <2>9, <2>10, ArrangedBook
  <2>12. Held(r) = (Held(b) \ {y}) \cup {x}
    BY <1>2, <1>6, <2>2, <2>5, <2>6, <2>11 DEF Held, T, Z
  <2> QED
    BY <1>4, <2>11, <2>12 DEF r, a, y, i
<1> QED
  BY <1>10, <1>11

\* decrease_top_delegation keeps a book arranged: a bond that falls below the
\* highest of the bottom changes places with it.
LEMMA DecreaseTopArranged ==
  ASSUME NEW b, GoodBook(b), Arranged(b), NEW who \in Owners(b.top), NEW less \in Nat,
         less < b.top[IndexOf(b.top, who)].amount
  PROVE  LET y == b.top[IndexOf(b.top, who)]
             r == decrease_top_delegation(b, who, y.amount, less)
         IN  /\ Arranged(r)
             /\ Held(r) = (Held(b) \ {y}) \cup {[owner |-> who, amount |-> y.amount - less]}
<1> DEFINE i == IndexOf(b.top, who)
           y == b.top[i]
           a == SatSub(y.amount, less)
           x == [y EXCEPT !.amount = a]
           n == Head(b.bottom)
           rest == RemoveAt(b.top, i)
           r == decrease_top_delegation(b, who, y.amount, less)
           T == Bonds(b.top)
           Z == Bonds(b.bottom)
           falls == a < b.highestBottom /\ b.topCapacity = "Full" /\ b.bottomCapacity # "Empty"
<1>1. /\ b \in Book /\ Tidy(b.top) /\ Tidy(b.bottom)
      /\ b.topTotal = SumOf(b.top) /\ b.bottomTotal >= SumOf(b.bottom)
      /\ SumOf(b.top) \in Nat /\ SumOf(b.bottom) \in Nat /\ b.bottomTotal \in Nat
      /\ b.bottomCapacity = "Empty" <=> b.bottom = <<>>
      /\ b.topCapacity # "Full" => b.bottom = <<>>
      /\ b.highestBottom = highest_delegation_amount(b.bottom)
  BY ArrangedFacts
<1>2. i \in 1 .. Len(b.top) /\ y \in T /\ y.amount \in Nat /\ y.owner = who /\ y \in Bond
  BY <1>1, PlaceOf
<1>3. a \in Nat /\ a = y.amount - less
  BY <1>2 DEF SatSub
<1>4. x = [owner |-> who, amount |-> y.amount - less] /\ x \in Bond
      /\ x.owner = who /\ x.amount = a
  <2> HIDE DEF a
  <2> QED
    BY <1>2, <1>3 DEF Bond
<1>5. \A v \in T, z \in Z : v.owner # z.owner /\ v.amount >= z.amount
  BY CrossFacts
<1>6. T \cap Z = {}
  BY <1>5
<1>7. \A z \in Z : z.amount \in Nat /\ b.highestBottom >= z.amount
  BY <1>1, ListBounds
<1>8. b.highestBottom \in Nat
  BY <1>1, ListBounds
<1>9. CASE ~falls
  <2> DEFINE s == sort_greatest_to_least(b.top, i, a)
             t == SatSub(b.topTotal, less)
  <2>1. r = reset_top_data(b, s, t)
    <3>1. ([b.top[i] EXCEPT !.amount = SatSub(@, less)]).amount = a
      BY <1>2 DEF Bond
    <3> QED
      BY <1>9, <3>1 DEF decrease_top_delegation
  <2> HIDE DEF i
  <2>2. /\ Tidy(s) /\ Bonds(s) = (T \ {y}) \cup {x} /\ SumOf(s) + y.amount = SumOf(b.top) + a
    <3> HIDE DEF a
    <3>1. Tidy(b.top) /\ i \in 1 .. Len(b.top) /\ a \in Nat
      BY <1>1, <1>2, <1>3
    <3>2. LET s1 == sort_greatest_to_least(b.top, i, a)
              x1 == [b.top[i] EXCEPT !.amount = a]
          IN  /\ Tidy(s1) /\ Bonds(s1) = (Bonds(b.top) \ {b.top[i]}) \cup {x1} /\ x1 \in Bond
              /\ x1.owner = b.top[i].owner /\ x1.amount = a
              /\ SumOf(s1) + b.top[i].amount = SumOf(b.top) + a
      BY <3>1, SortTidy
    <3> QED
      BY <3>2
  <2>3. Len(s) = Len(b.top)
    <3>1. b.top \in Seq(Bond)
      BY GoodBookFacts
    <3>2. i \in DOMAIN b.top
      BY <1>2, <3>1
    <3> HIDE DEF a
    <3> QED
      BY <1>3, <3>1, <3>2, SortType
  <2> HIDE DEF r, s, a, x, y, t, T, Z, rest
  <2>4. t = SumOf(s)
    <3>1. SumOf(s) \in Nat
      BY <2>2, SumOfBonds
    <3>2. b.topTotal = SumOf(s) + less
      <4>1. SumOf(s) + y.amount = b.topTotal + (y.amount - less)
        BY <1>1, <1>3, <2>2, Zenon
      <4>2. b.topTotal \in Nat /\ y.amount \in Nat /\ less \in Nat
        BY <1>1, <1>2
      <4>3. \A p, q, m \in Nat : p + m = q + (m - less) => q = p + less
        OBVIOUS
      <4> QED
        BY <3>1, <4>1, <4>2, <4>3
    <3> QED
      BY <3>1, <3>2, SatSubExact DEF t
  <2>5. r.top = s /\ r.topTotal = t /\ r.bottom = b.bottom /\ r.bottomTotal = b.bottomTotal
    BY <1>1, <2>1, ResetFields
  <2>6. \A v \in Bonds(s), z \in Bonds(b.bottom) : v.owner # z.owner /\ v.amount >= z.amount
    <3>1. \A z \in Z : x.owner # z.owner /\ x.amount >= z.amount
      <4> SUFFICES ASSUME NEW z \in Z PROVE x.owner # z.owner /\ x.amount >= z.amount
        OBVIOUS
      <4>1. b.bottom # <<>>
        BY <1>1, TidyFacts DEF Z
      <4>2. ~(a < b.highestBottom)
        BY <1>1, <1>9, <4>1
      <4> QED
        BY <1>2, <1>3, <1>4, <1>5, <1>7, <1>8, <4>2
    <3> QED
      BY <1>5, <2>2, <3>1 DEF Z
  <2>7. b.bottom # <<>> => Len(s) = MaxTopDelegationsPerCandidate
    BY <2>3 DEF Arranged
  <2>8. Arranged(r) /\ Held(r) = Bonds(s) \cup Bonds(b.bottom)
    BY <1>1, <2>2, <2>4, <2>5, <2>6, <2>7, ArrangedBook
  <2>9. Held(r) = (Held(b) \ {y}) \cup {x}
    BY <1>2, <1>6, <2>2, <2>8 DEF Held, T, Z
  <2> QED
    BY <1>4, <2>8, <2>9 DEF r, y, i
<1>10. CASE falls
  <2> DEFINE tail == Tail(b.bottom)
             s == insert_sorted_greatest_to_least(rest, n)
             t == SatSub(b.topTotal, y.amount) + n.amount
             z == insert_sorted_greatest_to_least(tail, x)
             u == SatSub(b.bottomTotal, n.amount) + x.amount
  <2>1. r = reset_top_data(reset_bottom_data(b, z, u), s, t)
    BY <1>10 DEF decrease_top_delegation
  <2>2. b.bottom # <<>>
    BY <1>1, <1>10
  <2>3. /\ Tidy(tail) /\ Bonds(tail) = Z \ {n} /\ SumOf(tail) \in Nat /\ n.amount \in Nat
        /\ SumOf(b.bottom) = SumOf(tail) + n.amount
        /\ n \in Z /\ n \in Bond
        /\ \A v \in Z : n.amount >= v.amount
        /\ highest_delegation_amount(b.bottom) = n.amount
    BY <1>1, <2>2, ShiftTidy
  <2>4. x.amount < n.amount
    BY <1>1, <1>4, <1>10, <2>3
  <2> HIDE DEF i
  <2>5. /\ Tidy(rest) /\ Bonds(rest) = T \ {y} /\ Len(rest) = Len(b.top) - 1 /\ SumOf(rest) \in Nat
        /\ SumOf(b.top) = SumOf(rest) + y.amount
    BY <1>1, <1>2, RemoveTidySum
  <2> HIDE DEF r, x, a, y, T, Z, n, tail, rest, falls
  <2>6. Tidy(s) /\ Bonds(s) = (T \ {y}) \cup {n} /\ SumOf(s) = SumOf(rest) + n.amount
    <3>1. n.owner \notin Owners(rest)
      <4>1. \A w : w \in Owners(rest) => \E v \in Bonds(rest) : v.owner = w
        BY <2>5, TidyFacts
      <4> QED
        BY <1>5, <2>3, <2>5, <4>1
    <3> QED
      BY <2>3, <2>5, <3>1, InsertSortedTidy
  <2>7. Tidy(z) /\ Bonds(z) = (Z \ {n}) \cup {x} /\ SumOf(z) = SumOf(tail) + x.amount
    <3>1. x.owner \notin Owners(tail)
      <4>1. \A w : w \in Owners(tail) => \E v \in Bonds(tail) : v.owner = w
        BY <2>3, TidyFacts
      <4> QED
        BY <1>2, <1>4, <1>5, <2>3, <4>1
    <3> QED
      BY <1>4, <2>3, <3>1, InsertSortedTidy
  <2>8. Len(s) = MaxTopDelegationsPerCandidate
    <3>1. rest \in Seq(Bond)
      BY <2>5, TidyFacts
    <3>2. Len(s) = Len(rest) + 1
      BY <2>3, <3>1, InsertSortedType
    <3>3. Len(b.top) \in Nat
      BY GoodBookFacts
    <3>4. Len(b.top) = MaxTopDelegationsPerCandidate
      BY <2>2 DEF Arranged
    <3> QED
      BY <2>5, <3>2, <3>3, <3>4
  <2>9. t = SumOf(s) /\ u >= SumOf(z)
    <3>1. SatSub(b.topTotal, y.amount) = SumOf(rest)
      BY <1>1, <1>2, <2>5, SatSubExact
    <3>2. SatSub(b.bottomTotal, n.amount) >= SumOf(tail) /\ SatSub(b.bottomTotal, n.amount) \in Nat
      BY <1>1, <2>3, SatSubAtLeast, SatSubType
    <3>3. x.amount \in Nat
      BY <1>3, <1>4
    <3> QED
      BY <2>3, <2>5, <2>6, <2>7, <3>1, <3>2, <3>3
  <2> HIDE DEF s, z, t, u
  <2>10. r.top = s /\ r.topTotal = t /\ r.bottom = z /\ r.bottomTotal = u
    BY <1>1, <2>1, ResetFields
  <2>11. \A v \in Bonds(s), w \in Bonds(z) : v.owner # w.owner /\ v.amount >= w.amount
    <3>1. \A v \in T \ {y} : v.owner # x.owner /\ v.amount >= x.amount
      <4>1. \A v \in T \ {y} : v.owner # y.owner
        <5>1. \A v, w \in T : v.owner = w.owner => v = w
          BY <1>1, TidyFacts DEF T
        <5> QED
          BY <1>2, <5>1
      <4>2. \A v \in T : v.amount >= n.amount /\ v.amount \in Nat
        BY <1>1, <1>5, <2>3, ListBounds DEF T
      <4>3. x.amount \in Nat
        BY <1>3, <1>4
      <4> QED
        BY <1>2, <1>4, <2>3, <2>4, <4>1, <4>2, <4>3
    <3>2. n.owner # x.owner /\ n.amount >= x.amount
      BY <1>2, <1>3, <1>4, <1>5, <2>3, <2>4
    <3>3. \A w \in Z \ {n} : n.owner # w.owner
      <4>1. \A v, w \in Z : v.owner = w.owner => v = w
        BY <1>1, TidyFacts DEF Z
      <4> QED
        BY <2>3, <4>1
    <3> QED
      BY <1>5, <2>3, <2>6, <2>7, <3>1, <3>2, <3>3
  <2>12. Arranged(r) /\ Held(r) = Bonds(s) \cup Bonds(z)
    BY <2>6, <2>7, <2>8, <2>9, <2>10, <2>11, ArrangedBook
  <2>13. Held(r) = (Held(b) \ {y}) \cup {x}
    BY <1>2, <1>6, <2>3, <2>6, <2>7, <2>12 DEF Held, T, Z
  <2> QED
    BY <1>4, <2>12, <2>13 DEF r, y, i
<1> QED
  BY <1>9, <1>10

\* decrease_bottom_delegation keeps a book arranged; the total of the bottom is
\* left too high.
LEMMA DecreaseBottomArranged ==
  ASSUME NEW b, GoodBook(b), Arranged(b), NEW who \in Owners(b.bottom), NEW less \in Nat,
         less < b.bottom[IndexOf(b.bottom, who)].amount
  PROVE  LET y == b.bottom[IndexOf(b.bottom, who)]
             r == decrease_bottom_delegation(b, who, less)
         IN  /\ Arranged(r)
             /\ Held(r) = (Held(b) \ {y}) \cup {[owner |-> who, amount |-> y.amount - less]}
<1> DEFINE i == IndexOf(b.bottom, who)
           y == b.bottom[i]
           a == SatSub(y.amount, less)
           x == [y EXCEPT !.amount = a]
           s == sort_greatest_to_least(b.bottom, i, a)
           r == decrease_bottom_delegation(b, who, less)
           T == Bonds(b.top)
           Z == Bonds(b.bottom)
<1>1. /\ b \in Book /\ Tidy(b.top) /\ Tidy(b.bottom)
      /\ b.topTotal = SumOf(b.top) /\ b.bottomTotal >= SumOf(b.bottom)
      /\ SumOf(b.bottom) \in Nat /\ b.bottomTotal \in Nat
  BY ArrangedFacts
<1>2. i \in 1 .. Len(b.bottom) /\ y \in Z /\ y.amount \in Nat /\ y.owner = who /\ y \in Bond
  BY <1>1, PlaceOf
<1>3. a \in Nat /\ a = y.amount - less
  BY <1>2 DEF SatSub
<1>4. x = [owner |-> who, amount |-> y.amount - less] /\ x.owner = who /\ x.amount = a
  <2> HIDE DEF a
  <2> QED
    BY <1>2, <1>3 DEF Bond
<1>5. \A v \in T, z \in Z : v.owner # z.owner /\ v.amount >= z.amount
  BY CrossFacts
<1>6. T \cap Z = {}
  BY <1>5
<1>7. r = reset_bottom_data(b, s, b.bottomTotal)
  BY DEF decrease_bottom_delegation
<1> HIDE DEF i
<1>8. /\ Tidy(s) /\ Bonds(s) = (Z \ {y}) \cup {x} /\ SumOf(s) + y.amount = SumOf(b.bottom) + a
  <2> HIDE DEF a
  <2>1. Tidy(b.bottom) /\ i \in 1 .. Len(b.bottom) /\ a \in Nat
    BY <1>1, <1>2, <1>3
  <2>2. LET s1 == sort_greatest_to_least(b.bottom, i, a)
            x1 == [b.bottom[i] EXCEPT !.amount = a]
        IN  /\ Tidy(s1) /\ Bonds(s1) = (Bonds(b.bottom) \ {b.bottom[i]}) \cup {x1} /\ x1 \in Bond
            /\ x1.owner = b.bottom[i].owner /\ x1.amount = a
            /\ SumOf(s1) + b.bottom[i].amount = SumOf(b.bottom) + a
    BY <2>1, SortTidy
  <2> QED
    BY <2>2
<1> HIDE DEF r, s, a, x, y, T, Z
<1>9. b.bottomTotal >= SumOf(s)
  <2>1. SumOf(s) \in Nat
    BY <1>8, SumOfBonds
  <2> QED
    BY <1>1, <1>2, <1>3, <1>8, <2>1
<1>10. r.top = b.top /\ r.topTotal = b.topTotal /\ r.bottom = s /\ r.bottomTotal = b.bottomTotal
  BY <1>1, <1>7, ResetFields
<1>11. \A v \in Bonds(b.top), z \in Bonds(s) : v.owner # z.owner /\ v.amount >= z.amount
  <2>1. \A v \in T : v.owner # x.owner /\ v.amount >= x.amount
    <3>1. \A v \in T : v.owner # y.owner /\ v.amount >= y.amount /\ v.amount \in Nat
      BY <1>1, <1>2, <1>5, ListBounds DEF T
    <3> QED
      BY <1>2, <1>3, <1>4, <3>1
  <2> QED
    BY <1>5, <1>8, <2>1 DEF T
<1>12. Len(b.top) = MaxTopDelegationsPerCandidate
  <2>1. b.bottom # <<>>
    BY <1>1, <1>2, TidyFacts DEF Z
  <2> QED
    BY <2>1 DEF Arranged
<1>13. Arranged(r) /\ Held(r) = Bonds(b.top) \cup Bonds(s)
  BY <1>1, <1>8, <1>9, <1>10, <1>11, <1>12, ArrangedBook
<1>14. Held(r) = (Held(b) \ {y}) \cup {x}
  BY <1>2, <1>6, <1>8, <1>13 DEF Held, T, Z
<1> QED
  BY <1>4, <1>13, <1>14 DEF r, y, i

\* increase_delegation and decrease_delegation change the bond of its owner, when
\* they are told its amount.
LEMMA ChangeArranged ==
  ASSUME NEW b, GoodBook(b), Arranged(b), NEW y \in Held(b), NEW m \in Nat,
         can_change_delegation(b, y.owner, y.amount)
  PROVE  /\ LET r == increase_delegation(b, y.owner, y.amount, m)
            IN  /\ Arranged(r)
                /\ Held(r) = (Held(b) \ {y}) \cup {[owner |-> y.owner, amount |-> y.amount + m]}
         /\ m < y.amount =>
            LET r == decrease_delegation(b, y.owner, y.amount, m)
            IN  /\ Arranged(r)
                /\ Held(r) = (Held(b) \ {y}) \cup {[owner |-> y.owner, amount |-> y.amount - m]}
<1>1. Tidy(b.top) /\ Tidy(b.bottom) /\ \A v, w \in Held(b) : v.owner = w.owner => v = w
  BY HeldFacts DEF Arranged
<1>2. CASE LooksInTop(b, y.owner, y.amount)
  <2>1. y.owner \in Owners(b.top)
    BY <1>2 DEF can_change_delegation
  <2>2. b.top[IndexOf(b.top, y.owner)] = y
    <3>1. /\ b.top[IndexOf(b.top, y.owner)] \in Bonds(b.top)
          /\ b.top[IndexOf(b.top, y.owner)].owner = y.owner
      BY <1>1, <2>1, PlaceOf
    <3> QED
      BY <1>1, <3>1 DEF Held
  <2>3. LET r == increase_top_delegation(b, y.owner, m)
        IN  /\ Arranged(r)
            /\ Held(r) = (Held(b) \ {y}) \cup {[owner |-> y.owner, amount |-> y.amount + m]}
    BY <2>1, <2>2, IncreaseTopArranged
  <2>4. m < y.amount =>
        LET r == decrease_top_delegation(b, y.owner, y.amount, m)
        IN  /\ Arranged(r)
            /\ Held(r) = (Held(b) \ {y}) \cup {[owner |-> y.owner, amount |-> y.amount - m]}
    BY <2>1, <2>2, DecreaseTopArranged
  <2> QED
    BY <1>2, <2>3, <2>4 DEF increase_delegation, decrease_delegation
<1>3. CASE ~LooksInTop(b, y.owner, y.amount)
  <2>1. y.owner \in Owners(b.bottom)
    BY <1>3 DEF can_change_delegation
  <2>2. b.bottom[IndexOf(b.bottom, y.owner)] = y
    <3>1. b.bottom[IndexOf(b.bottom, y.owner)] \in Bonds(b.bottom)
          /\ b.bottom[IndexOf(b.bottom, y.owner)].owner = y.owner
      BY <1>1, <2>1, PlaceOf
    <3> QED
      BY <1>1, <3>1 DEF Held
  <2>3. LET r == increase_bottom_delegation(b, y.owner, y.amount, m)
        IN  /\ Arranged(r)
            /\ Held(r) = (Held(b) \ {y}) \cup {[owner |-> y.owner, amount |-> y.amount + m]}
    BY <2>1, <2>2, IncreaseBottomArranged
  <2>4. m < y.amount =>
        LET r == decrease_bottom_delegation(b, y.owner, m)
        IN  /\ Arranged(r)
            /\ Held(r) = (Held(b) \ {y}) \cup {[owner |-> y.owner, amount |-> y.amount - m]}
    BY <2>1, <2>2, DecreaseBottomArranged
  <2> QED
    BY <1>3, <2>3, <2>4 DEF increase_delegation, decrease_delegation
<1> QED
  BY <1>2, <1>3
=============================================================================
