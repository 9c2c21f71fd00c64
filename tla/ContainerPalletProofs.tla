----------------------- MODULE ContainerPalletProofs -----------------------
(***************************************************************************)
(* For any number of sequencers, groups, processors and applications, any  *)
(* seeds and any metric: the groups trigger_group makes are disjoint, each *)
(* is served by one processor, and the applications of the container       *)
(* pallet and the groups match.                                            *)
(***************************************************************************)
EXTENDS ContainerPallet, FiniteInduction, SequenceTheorems

----------------------------------------------------------------------------
(* Shuffling.                                                              *)

\* Nobody is in a list twice.
Distinct(s) == \A i, j \in DOMAIN s : s[i] = s[j] => i = j

\* The lists of n members of S.
Lists(n, S) == [1 .. n -> S]

\* f[k] is the list s after k swaps, for up to m swaps.
AreSwaps(f, s, seed, m) ==
    f = [k \in 0 .. m |->
            IF k = 0 THEN s
            ELSE swap(f[k - 1], Len(s) - k + 1, (seed % (Len(s) - k + 1)) + 1)]

\* A swap leaves the same members in a list.
LEMMA SwapKeeps ==
  ASSUME NEW n \in Nat, NEW S, NEW s \in Lists(n, S), Distinct(s),
         NEW i \in 1 .. n, NEW j \in 1 .. n
  PROVE  swap(s, i, j) \in Lists(n, S) /\ Distinct(swap(s, i, j))
<1>1. DOMAIN s = 1 .. n
  BY DEF Lists
<1>2. swap(s, i, j) = [k \in 1 .. n |-> IF k = j THEN s[i] ELSE IF k = i THEN s[j] ELSE s[k]]
  BY <1>1 DEF swap
<1>3. swap(s, i, j) \in Lists(n, S)
  BY <1>2 DEF Lists
<1>4. ASSUME NEW k \in 1 .. n, NEW l \in 1 .. n, swap(s, i, j)[k] = swap(s, i, j)[l]
      PROVE  k = l
  BY <1>1, <1>2, <1>4 DEF Distinct
<1>5. DOMAIN swap(s, i, j) = 1 .. n
  BY <1>2
<1> QED
  BY <1>3, <1>4, <1>5 DEF Distinct

\* The swaps are defined, however many there are.
LEMMA SwapsExist ==
  ASSUME NEW s, NEW seed, NEW m \in Nat
  PROVE  \E f : AreSwaps(f, s, seed, m)
<1> DEFINE P == {n \in Nat : \E f : AreSwaps(f, s, seed, n)}
<1>1. 0 \in P
  <2> DEFINE f == [k \in 0 .. 0 |-> s]
  <2>1. f = [k \in 0 .. 0 |->
               IF k = 0 THEN s
               ELSE swap(f[k - 1], Len(s) - k + 1, (seed % (Len(s) - k + 1)) + 1)]
    OBVIOUS
  <2>2. AreSwaps(f, s, seed, 0)
    BY <2>1 DEF AreSwaps
  <2> QED
    BY <2>2
<1>2. ASSUME NEW n \in P PROVE n + 1 \in P
  <2>1. PICK f : AreSwaps(f, s, seed, n)
    OBVIOUS
  <2> DEFINE next(h, k) == swap(h[k - 1], Len(s) - k + 1, (seed % (Len(s) - k + 1)) + 1)
             g == [k \in 0 .. n + 1 |-> IF k = n + 1 THEN next(f, k) ELSE f[k]]
  <2>2. n \in Nat
    OBVIOUS
  <2>3. \A k \in 0 .. n : f[k] = IF k = 0 THEN s ELSE next(f, k)
    BY <2>1 DEF AreSwaps
  <2>4. \A k \in 0 .. n : g[k] = f[k]
    BY <2>2
  <2>5. \A k \in 1 .. n + 1 : next(g, k) = next(f, k)
    <3>1. ASSUME NEW k \in 1 .. n + 1 PROVE g[k - 1] = f[k - 1]
      BY <2>2, <2>4
    <3> QED
      BY <3>1
  <2> HIDE DEF next
  <2>6. \A k \in 0 .. n + 1 : g[k] = IF k = 0 THEN s ELSE next(g, k)
    BY <2>2, <2>3, <2>5
  <2>7. g = [k \in 0 .. n + 1 |-> IF k = 0 THEN s ELSE next(g, k)]
    BY <2>6
  <2>8. AreSwaps(g, s, seed, n + 1)
    BY <2>7 DEF AreSwaps, next
  <2> QED
    BY <2>2, <2>8
<1> HIDE DEF P
<1>3. P \in SUBSET Nat
  BY DEF P
<1>4. P = Nat
  BY <1>1, <1>2, <1>3, NatByInduction
<1> QED
  BY <1>4 DEF P

\* shuffle_accounts returns the same accounts in another order.
LEMMA ShuffleKeeps ==
  ASSUME NEW S, NEW s \in Seq(S), Distinct(s), NEW seed \in Nat
  PROVE  /\ shuffle_accounts(s, seed) \in Lists(Len(s), S)
         /\ Distinct(shuffle_accounts(s, seed))
<1> DEFINE n == Len(s)
<1>1. n \in Nat /\ s \in Lists(n, S)
  BY DEF Lists
<1>2. CASE n = 0
  BY <1>1, <1>2 DEF shuffle_accounts
<1>3. CASE n # 0
  <2> DEFINE f == CHOOSE f : AreSwaps(f, s, seed, n)
  <2>1. shuffle_accounts(s, seed) = f[n - 1]
    BY <1>3 DEF shuffle_accounts, AreSwaps
  <2>2. AreSwaps(f, s, seed, n)
    BY <1>1, SwapsExist
  <2> HIDE DEF f
  <2>3. f[0] = s
    BY <1>1, <2>2 DEF AreSwaps
  <2>4. \A k \in 1 .. n - 1 :
          f[k] = swap(f[k - 1], n - k + 1, (seed % (n - k + 1)) + 1)
    <3>1. \A k \in 0 .. n :
            f[k] = IF k = 0 THEN s
                   ELSE swap(f[k - 1], n - k + 1, (seed % (n - k + 1)) + 1)
      BY <2>2, Zenon DEF AreSwaps
    <3> HIDE DEF n
    <3>2. \A k \in 1 .. n - 1 : k \in 0 .. n /\ k # 0
      BY <1>1
    <3> QED
      BY <3>1, <3>2, Zenon
  <2> HIDE DEF n
  <2> DEFINE Keeps(t) == t \in Lists(n, S) /\ Distinct(t)
             P == {k \in Nat : k < n => Keeps(f[k])}
  <2>5. 0 \in P
    BY <1>1, <2>3
  <2>6. ASSUME NEW k \in P PROVE k + 1 \in P
    <3> SUFFICES ASSUME k + 1 < n PROVE Keeps(f[k + 1])
      OBVIOUS
    <3>1. k \in Nat /\ Keeps(f[k])
      BY <1>1
    <3> DEFINE d == n - (k + 1) + 1
    <3>2. d \in 1 .. n
      BY <1>1, <3>1
    <3>3. (seed % d) + 1 \in 1 .. n
      <4>1. d \in Nat \ {0} /\ d <= n
        BY <1>1, <3>2
      <4>2. seed % d \in 0 .. d - 1
        BY <4>1
      <4> QED
        BY <1>1, <4>1, <4>2
    <3>4. f[k + 1] = swap(f[k], d, (seed % d) + 1)
      <4>1. k + 1 \in 1 .. n - 1 /\ (k + 1) - 1 = k
        BY <1>1, <3>1
      <4> QED
        BY <2>4, <4>1
    <3> QED
      BY <1>1, <3>1, <3>2, <3>3, <3>4, SwapKeeps
  <2> HIDE DEF P
  <2>7. P \in SUBSET Nat
    BY DEF P
  <2>8. P = Nat
    BY <2>5, <2>6, <2>7, NatByInduction
  <2>9. n - 1 \in Nat /\ n - 1 < n
    BY <1>1, <1>3
  <2>10. Keeps(f[n - 1])
    BY <2>8, <2>9 DEF P
  <2> QED
    BY <2>1, <2>10 DEF n
<1> QED
  BY <1>2, <1>3

----------------------------------------------------------------------------
(* Splitting.                                                              *)

\* Rows of equal length in a row: no place is in two of them or beyond the last.
LEMMA Places ==
  ASSUME NEW size \in Nat, NEW number \in Nat,
         NEW g \in 1 .. number, NEW m \in 1 .. size
  PROVE  /\ (g - 1) * size + (m - 1) \in Nat
         /\ (g - 1) * size + (m - 1) < size * number
         /\ \A h \in 1 .. number, l \in 1 .. size :
               g < h => (g - 1) * size + (m - 1) < (h - 1) * size + (l - 1)
<1> DEFINE p(h) == h * size
<1>1. \A h \in Nat : p(h) \in Nat
  OBVIOUS
<1>2. \A h, k \in Nat : h <= k => p(h) <= p(k)
  OBVIOUS
<1>3. p(g - 1) + size = p(g)
  OBVIOUS
<1>4. size * number = p(number)
  OBVIOUS
<1> HIDE DEF p
<1>5. g \in Nat /\ g - 1 \in Nat /\ m - 1 \in Nat /\ m - 1 < size /\ g <= number
  OBVIOUS
<1>6. p(g - 1) + (m - 1) \in Nat /\ p(g - 1) + (m - 1) < p(g)
  BY <1>1, <1>3, <1>5
<1>7. p(g) <= p(number)
  BY <1>2, <1>5
<1>8. ASSUME NEW h \in 1 .. number, NEW l \in 1 .. size, g < h
      PROVE  p(g - 1) + (m - 1) < p(h - 1) + (l - 1)
  <2>1. g <= h - 1 /\ h - 1 \in Nat /\ l - 1 \in Nat
    BY <1>5, <1>8
  <2>2. p(g) <= p(h - 1)
    BY <1>2, <1>5, <2>1
  <2> QED
    BY <1>1, <1>5, <1>6, <2>1, <2>2
<1>9. p(g - 1) + (m - 1) < p(number)
  <2>1. p(number) \in Nat /\ p(g) \in Nat
    BY <1>1, <1>5
  <2> QED
    BY <1>6, <1>7, <2>1
<1> QED
  BY <1>4, <1>6, <1>8, <1>9 DEF p

\* The groups have the members of the list, each at most once.
LEMMA SplitKeeps ==
  ASSUME metric \in Metric, NEW n \in Nat, NEW S, NEW s \in Lists(n, S), Len(s) = n,
         Distinct(s), total_selected <= n
  PROVE  /\ \A g \in 1 .. metric.number : split(s)[g] \in Lists(metric.size, S)
         /\ \A g, h \in 1 .. metric.number : \A m, l \in 1 .. metric.size :
               split(s)[g][m] = split(s)[h][l] => g = h /\ m = l
<1>1. metric.size \in Nat /\ metric.number \in Nat
  BY DEF Metric
<1> DEFINE size == metric.size
           number == metric.number
           at(g, m) == n - (g - 1) * size - (m - 1)
<1>2. \A g \in 1 .. number : split(s)[g] = [m \in 1 .. size |-> s[at(g, m)]]
  BY DEF split
<1>3. n \in Nat /\ size \in Nat /\ number \in Nat /\ size * number <= n
  BY <1>1 DEF total_selected
<1>4. DOMAIN s = 1 .. n /\ \A i \in 1 .. n : s[i] \in S
  BY DEF Lists
<1> HIDE DEF size, number
<1> DEFINE q(g, m) == (g - 1) * size + (m - 1)
<1>5. ASSUME NEW g \in 1 .. number, NEW m \in 1 .. size
      PROVE  at(g, m) \in 1 .. n /\ at(g, m) = n - q(g, m) /\ q(g, m) \in Nat
  <2>1. q(g, m) \in Nat /\ q(g, m) < size * number
    BY <1>3, Places
  <2>2. (g - 1) * size \in Nat /\ m - 1 \in Nat
    BY <1>3
  <2>3. size * number \in Nat
    BY <1>3
  <2> QED
    BY <1>3, <2>1, <2>2, <2>3
<1>6. \A g, h \in 1 .. number : \A m, l \in 1 .. size : g < h => q(g, m) < q(h, l)
  BY <1>3, Places
<1>7. \A g \in 1 .. number : \A m, l \in 1 .. size : q(g, m) = q(g, l) => m = l
  <2> SUFFICES ASSUME NEW g \in 1 .. number, NEW m \in 1 .. size, NEW l \in 1 .. size,
                      q(g, m) = q(g, l)
               PROVE  m = l
    OBVIOUS
  <2>1. (g - 1) * size \in Nat
    BY <1>3
  <2> QED
    BY <2>1, <1>3
<1> HIDE DEF q
<1>8. ASSUME NEW g \in 1 .. number, NEW h \in 1 .. number,
             NEW m \in 1 .. size, NEW l \in 1 .. size, at(g, m) = at(h, l)
      PROVE  g = h /\ m = l
  <2>1. q(g, m) = q(h, l) /\ q(g, m) \in Nat /\ q(h, l) \in Nat
    BY <1>3, <1>5, <1>8
  <2>2. ~(g < h) /\ ~(h < g)
    BY <1>6, <2>1
  <2>3. g = h
    BY <1>3, <2>2
  <2> QED
    BY <1>7, <2>1, <2>3
<1> HIDE DEF at
<1>9. \A g \in 1 .. number : split(s)[g] \in Lists(size, S)
  <2> SUFFICES ASSUME NEW g \in 1 .. number PROVE split(s)[g] \in Lists(size, S)
    OBVIOUS
  <2>1. \A m \in 1 .. size : s[at(g, m)] \in S
    BY <1>4, <1>5
  <2>2. split(s)[g] = [m \in 1 .. size |-> s[at(g, m)]]
    BY <1>2
  <2> QED
    BY <2>1, <2>2 DEF Lists
<1>10. ASSUME NEW g \in 1 .. number, NEW h \in 1 .. number,
              NEW m \in 1 .. size, NEW l \in 1 .. size, split(s)[g][m] = split(s)[h][l]
       PROVE  g = h /\ m = l
  <2>1. s[at(g, m)] = s[at(h, l)]
    BY <1>2, <1>10
  <2>2. at(g, m) = at(h, l)
    BY <1>4, <1>5, <2>1 DEF Distinct
  <2> QED
    BY <1>8, <2>2
<1> QED
  BY <1>9, <1>10 DEF size, number

----------------------------------------------------------------------------
(* The grouping.                                                           *)

Processor == [account : Processors, address : Addresses, groups : SUBSET Nat]

\* What the storage of the pallet looks like, whatever lists it was given.
GroupingTypeOK ==
    /\ metric \in Metric /\ metric.number <= MaxGroupNumber
    /\ nextRound \in NextRound
    /\ Len(groupMembers) \in 0 .. MaxGroupNumber
    /\ processorInfo \in [1 .. ProcessorCount -> Processor]
    /\ ProcessorCount \in Nat

\* Every group is a list of members of S, and they are disjoint.
GroupsOver(S) ==
    /\ \A g \in all_group_ids : \E size \in Nat : groupMembers[g + 1] \in Lists(size, S)
    /\ GroupsDisjoint

\* The storage is in order, and the processors are kept apart.
GroupingInv == GroupingTypeOK /\ OneProcessorPerGroup

\* A group is dealt to a processor.
LEMMA IdsOf ==
  ASSUME NEW i \in 1 .. ProcessorCount, ProcessorCount \in Nat, metric \in Metric
  PROVE  /\ group_ids_of(i) \subseteq 0 .. metric.number - 1
         /\ \A j \in 1 .. ProcessorCount :
               i # j => group_ids_of(i) \cap group_ids_of(j) = {}
<1>1. metric.number \in Nat
  BY DEF Metric
<1> QED
  BY <1>1 DEF group_ids_of

\* Every group is dealt to some processor.
LEMMA AllIdsDealt ==
  ASSUME ProcessorCount \in Nat, ProcessorCount > 0, metric \in Metric
  PROVE  UNION {group_ids_of(i) : i \in 1 .. ProcessorCount} = 0 .. metric.number - 1
<1>1. metric.number \in Nat
  BY DEF Metric
<1>2. ASSUME NEW g \in 0 .. metric.number - 1
      PROVE  \E i \in 1 .. ProcessorCount : g \in group_ids_of(i)
  <2>1. g % ProcessorCount \in 0 .. ProcessorCount - 1
    BY <1>1
  <2>2. (g % ProcessorCount) + 1 \in 1 .. ProcessorCount
    BY <2>1
  <2>3. g \in group_ids_of((g % ProcessorCount) + 1)
    BY <2>1, <1>1 DEF group_ids_of
  <2> QED
    BY <2>2, <2>3
<1>3. \A i \in 1 .. ProcessorCount : group_ids_of(i) \subseteq 0 .. metric.number - 1
  BY DEF group_ids_of
<1> QED
  BY <1>2, <1>3

\* assign_processors_to_groups replaces what every processor serves.
LEMMA AssignKeeps ==
  ASSUME GroupingInv, can_assign_processors, assign_processors_to_groups
  PROVE  /\ ProcessorCount' = ProcessorCount
         /\ \A i \in 1 .. ProcessorCount :
               /\ processorInfo'[i] \in Processor
               /\ processorInfo'[i].account = processorInfo[i].account
               /\ processorInfo'[i].groups = group_ids_of(i)
         /\ processorInfo' \in [1 .. ProcessorCount' -> Processor]
         /\ OneProcessorPerGroup'
<1>1. /\ ProcessorCount \in Nat /\ metric \in Metric
      /\ processorInfo \in [1 .. ProcessorCount -> Processor]
  BY DEF GroupingInv, GroupingTypeOK
<1> DEFINE n == ProcessorCount
<1>2. processorInfo' = [i \in 1 .. n |-> [processorInfo[i] EXCEPT !.groups = group_ids_of(i)]]
  BY DEF assign_processors_to_groups
<1>3. ProcessorCount' = ProcessorCount
  <2> HIDE DEF n
  <2>1. Len(processorInfo') = n
    BY <1>1, <1>2 DEF n
  <2> QED
    BY <2>1 DEF ProcessorCount, n
<1>4. \A i \in 1 .. n : group_ids_of(i) \in SUBSET Nat
  BY <1>1, IdsOf DEF Metric
<1>5. ASSUME NEW i \in 1 .. n
      PROVE  /\ processorInfo'[i] \in Processor
             /\ processorInfo'[i].account = processorInfo[i].account
             /\ processorInfo'[i].groups = group_ids_of(i)
  <2>1. processorInfo[i] \in Processor /\ group_ids_of(i) \in SUBSET Nat
    BY <1>1, <1>4
  <2>2. processorInfo'[i] = [processorInfo[i] EXCEPT !.groups = group_ids_of(i)]
    BY <1>2
  <2> QED
    BY <2>1, <2>2 DEF Processor
<1>6. processorInfo' \in [1 .. n -> Processor]
  BY <1>2, <1>5
<1>7. OneProcessorPerGroup'
  <2>1. \A i, j \in 1 .. n : i # j =>
           /\ processorInfo'[i].account # processorInfo'[j].account
           /\ processorInfo'[i].groups \cap processorInfo'[j].groups = {}
    BY <1>1, <1>5, IdsOf DEF GroupingInv, OneProcessorPerGroup
  <2>2. \A i \in 1 .. n : Cardinality(processorInfo'[i].groups) <= MaxRunningAPP
    BY <1>5 DEF can_assign_processors
  <2> QED
    BY <1>3, <2>1, <2>2 DEF OneProcessorPerGroup
<1> QED
  BY <1>3, <1>5, <1>6, <1>7

\* split makes as many groups as the metric asks for.
LEMMA SplitLen ==
  ASSUME metric \in Metric, NEW s
  PROVE  Len(split(s)) = metric.number
<1>1. metric.number \in Nat
  BY DEF Metric
<1> DEFINE n == metric.number
<1> HIDE DEF n
<1>2. n \in Nat
  BY <1>1 DEF n
<1> QED
  BY <1>2 DEF split, n

\* Whatever list it is given, trigger_group keeps the storage in order.
LEMMA TriggerKeeps ==
  ASSUME GroupingInv, NEW candidates, NEW announced \in NextRound, NEW seed,
         trigger_group(candidates, announced, seed)
  PROVE  GroupingInv'
<1>1. /\ metric \in Metric /\ metric.number <= MaxGroupNumber /\ nextRound \in NextRound
      /\ metric.number \in Nat
      /\ processorInfo \in [1 .. ProcessorCount -> Processor] /\ ProcessorCount \in Nat
  BY DEF GroupingInv, GroupingTypeOK, Metric
<1>2. CASE UNCHANGED groupingVars
  BY <1>2 DEF groupingVars, GroupingInv, GroupingTypeOK, OneProcessorPerGroup, ProcessorCount
<1>3. CASE ~UNCHANGED groupingVars
  <2>1. /\ groupMembers' = split(shuffle_accounts(candidates, seed))
        /\ IF can_assign_processors
           THEN assign_processors_to_groups /\ nextRound' = announced
           ELSE UNCHANGED <<processorInfo, nextRound>>
        /\ UNCHANGED metric
    BY <1>3 DEF trigger_group
  <2>2. Len(groupMembers') \in 0 .. MaxGroupNumber
    BY <1>1, <2>1, SplitLen, GroupingAssumption
  <2>3. /\ processorInfo' \in [1 .. ProcessorCount' -> Processor] /\ ProcessorCount' \in Nat
        /\ OneProcessorPerGroup' /\ nextRound' \in NextRound
    <3>1. CASE can_assign_processors
      BY <1>1, <2>1, <3>1, AssignKeeps
    <3>2. CASE ~can_assign_processors
      BY <1>1, <2>1, <3>2 DEF GroupingInv, OneProcessorPerGroup, ProcessorCount
    <3> QED
      BY <3>1, <3>2
  <2> QED
    BY <1>1, <2>1, <2>2, <2>3 DEF GroupingInv, GroupingTypeOK
<1> QED
  BY <1>2, <1>3

\* Of a list without duplicates, split makes disjoint groups of its members.
LEMMA SplitGroups ==
  ASSUME GroupingInv, NEW S, NEW candidates \in Seq(S), Distinct(candidates),
         NEW seed \in Nat, Len(candidates) >= total_selected,
         groupMembers' = split(shuffle_accounts(candidates, seed))
  PROVE  GroupsOver(S)'
<1>0. metric \in Metric /\ metric.size \in Nat /\ metric.number \in Nat
  BY DEF GroupingInv, GroupingTypeOK, Metric
<1> DEFINE n == Len(candidates)
           s == shuffle_accounts(candidates, seed)
<1>1. groupMembers' = split(s) /\ total_selected <= n /\ n \in Nat
  <2>1. total_selected \in Nat
    BY <1>0 DEF total_selected
  <2> QED
    BY <2>1
<1>2. s \in Lists(n, S) /\ Distinct(s)
  BY ShuffleKeeps
<1> HIDE DEF s, n
<1>3. Len(s) = n
  BY <1>1, <1>2 DEF Lists
<1>4. /\ \A g \in 1 .. metric.number : split(s)[g] \in Lists(metric.size, S)
      /\ \A g, h \in 1 .. metric.number : \A m, l \in 1 .. metric.size :
            split(s)[g][m] = split(s)[h][l] => g = h /\ m = l
  BY <1>0, <1>1, <1>2, <1>3, SplitKeeps
<1>5. all_group_ids' = 0 .. metric.number - 1
  BY <1>0, <1>1, SplitLen DEF all_group_ids
<1>6. \A g \in all_group_ids' : g \in Nat /\ g + 1 \in 1 .. metric.number
  BY <1>0, <1>5
<1>7. \A g \in all_group_ids' : groupMembers'[g + 1] \in Lists(metric.size, S)
  BY <1>1, <1>4, <1>6
<1>8. \A g \in all_group_ids' : DOMAIN groupMembers'[g + 1] = 1 .. metric.size
  BY <1>7 DEF Lists
<1>9. GroupsDisjoint'
  <2> SUFFICES ASSUME NEW g \in all_group_ids', NEW h \in all_group_ids',
                      NEW i \in DOMAIN groupMembers'[g + 1], NEW j \in DOMAIN groupMembers'[h + 1],
                      groupMembers'[g + 1][i] = groupMembers'[h + 1][j]
               PROVE  g = h /\ i = j
    BY DEF GroupsDisjoint
  <2>1. i \in 1 .. metric.size /\ j \in 1 .. metric.size
    BY <1>8
  <2>2. g + 1 = h + 1 /\ i = j
    BY <1>1, <1>4, <1>6, <2>1
  <2> QED
    BY <1>6, <2>2
<1> QED
  BY <1>0, <1>7, <1>9 DEF GroupsOver

\* So trigger_group, with such a list, leaves disjoint groups of its members.
LEMMA TriggerGroups ==
  ASSUME GroupingInv, NEW S, NEW candidates \in Seq(S), Distinct(candidates),
         NEW announced, NEW seed \in Nat,
         trigger_group(candidates, announced, seed), GroupsOver(S)
  PROVE  GroupsOver(S)'
<1>1. CASE UNCHANGED groupingVars
  BY <1>1 DEF groupingVars, GroupsOver, GroupsDisjoint, all_group_ids
<1>2. CASE ~UNCHANGED groupingVars
  BY <1>2, SplitGroups DEF trigger_group
<1> QED
  BY <1>1, <1>2

\* register_processor keeps the entries apart.
LEMMA RegisterKeeps ==
  ASSUME GroupingInv, NEW who \in Processors, NEW address \in Addresses,
         register_processor(who, address)
  PROVE  GroupingInv'
<1>1. /\ processorInfo \in [1 .. ProcessorCount -> Processor] /\ ProcessorCount \in Nat
      /\ OneProcessorPerGroup /\ GroupingTypeOK
  BY DEF GroupingInv, GroupingTypeOK
<1> DEFINE n == ProcessorCount
           known == {i \in 1 .. n : processorInfo[i].account = who}
<1>2. UNCHANGED <<groupMembers, nextRound, metric>>
  BY DEF register_processor
<1>3. CASE known # {}
  <2>1. processorInfo' = [i \in 1 .. n |->
                             IF i \in known THEN [processorInfo[i] EXCEPT !.address = address]
                                            ELSE processorInfo[i]]
    BY <1>3 DEF register_processor
  <2>2. ProcessorCount' = n
    <3> HIDE DEF n, known
    <3>1. n \in Nat
      BY <1>1 DEF n
    <3>2. Len(processorInfo') = n
      BY <2>1, <3>1
    <3> QED
      BY <3>2 DEF ProcessorCount
  <2>3. ASSUME NEW i \in 1 .. n
        PROVE  /\ processorInfo'[i] \in Processor
               /\ processorInfo'[i].account = processorInfo[i].account
               /\ processorInfo'[i].groups = processorInfo[i].groups
    <3>1. processorInfo[i] \in Processor
      BY <1>1
    <3> HIDE DEF known
    <3>2. processorInfo'[i] = IF i \in known THEN [processorInfo[i] EXCEPT !.address = address]
                                             ELSE processorInfo[i]
      BY <2>1
    <3> QED
      BY <3>1, <3>2 DEF Processor
  <2>4. processorInfo' \in [1 .. n -> Processor]
    <3> HIDE DEF known
    <3> QED
      BY <2>1, <2>3
  <2>5. OneProcessorPerGroup'
    BY <1>1, <2>2, <2>3 DEF OneProcessorPerGroup
  <2> QED
    BY <1>1, <1>2, <2>2, <2>4, <2>5 DEF GroupingInv, GroupingTypeOK
<1>4. CASE known = {}
  <2> DEFINE p == [account |-> who, address |-> address, groups |-> {}]
  <2>1. n < MaxRunningAPP /\ processorInfo' = Append(processorInfo, p)
    BY <1>4 DEF register_processor
  <2>2. p \in Processor
    BY DEF Processor
  <2>3. processorInfo \in Seq(Processor)
    BY <1>1
  <2>4. Len(processorInfo) = n
    BY DEF ProcessorCount
  <2> HIDE DEF p
  <2>5. /\ processorInfo' \in Seq(Processor) /\ Len(processorInfo') = n + 1
        /\ \A i \in 1 .. n : processorInfo'[i] = processorInfo[i]
        /\ processorInfo'[n + 1] = p
    BY <2>1, <2>2, <2>3, <2>4, AppendProperties
  <2>6. ProcessorCount' = n + 1
    BY <2>5 DEF ProcessorCount
  <2>7. processorInfo' \in [1 .. n + 1 -> Processor]
    BY <2>5, LenProperties
  <2>8. p.account = who /\ p.groups = {}
    BY DEF p
  <2>9. Cardinality({}) = 0
    BY FS_EmptySet
  <2>10. \A i \in 1 .. n : processorInfo[i].account # who
    BY <1>4
  <2> HIDE DEF n
  <2>11. n \in Nat
    BY <1>1 DEF n
  <2>12. \A i \in 1 .. n + 1 : i \in 1 .. n \/ i = n + 1
    BY <2>11
  <2>13. \A i, j \in 1 .. n + 1 : i # j =>
            /\ processorInfo'[i].account # processorInfo'[j].account
            /\ processorInfo'[i].groups \cap processorInfo'[j].groups = {}
    <3>1. \A i, j \in 1 .. n : i # j =>
             /\ processorInfo[i].account # processorInfo[j].account
             /\ processorInfo[i].groups \cap processorInfo[j].groups = {}
      BY <1>1 DEF OneProcessorPerGroup, n
    <3> QED
      BY <2>5, <2>8, <2>10, <2>12, <3>1
  <2>14. \A i \in 1 .. n + 1 : Cardinality(processorInfo'[i].groups) <= MaxRunningAPP
    <3>1. \A i \in 1 .. n : Cardinality(processorInfo[i].groups) <= MaxRunningAPP
      BY <1>1 DEF OneProcessorPerGroup, n
    <3>2. 0 <= MaxRunningAPP
      BY GroupingAssumption
    <3> QED
      BY <2>5, <2>8, <2>9, <2>12, <3>1, <3>2
  <2>15. OneProcessorPerGroup'
    BY <2>6, <2>13, <2>14 DEF OneProcessorPerGroup
  <2> QED
    BY <1>1, <1>2, <2>6, <2>7, <2>11, <2>15 DEF GroupingInv, GroupingTypeOK
<1> QED
  BY <1>3, <1>4

\* Every call of the pallet keeps the storage in order.
LEMMA GroupingNextInv == GroupingInv /\ GroupingNext => GroupingInv'
<1> SUFFICES ASSUME GroupingInv, GroupingNext PROVE GroupingInv'
  OBVIOUS
<1>1. ASSUME NEW new \in Metrics, set_group_metric(new) PROVE GroupingInv'
  <2>1. new \in Metric
    BY GroupingAssumption
  <2> QED
    BY <1>1, <2>1 DEF set_group_metric, GroupingInv, GroupingTypeOK, OneProcessorPerGroup, ProcessorCount
<1>2. ASSUME NEW candidates \in CandidateLists, NEW announced \in Announcements,
             benchmark_trigger_group(candidates, announced)
      PROVE  GroupingInv'
  <2>1. announced \in NextRound
    BY GroupingAssumption
  <2> QED
    BY <1>2, <2>1, TriggerKeeps DEF benchmark_trigger_group
<1>3. ASSUME NEW who \in Processors, NEW address \in Addresses, register_processor(who, address)
      PROVE  GroupingInv'
  BY <1>3, RegisterKeeps
<1> QED
  BY <1>1, <1>2, <1>3 DEF GroupingNext

\* The genesis configuration has the storage in order.
LEMMA GroupingInitInv == GroupingInit => GroupingInv
<1> SUFFICES ASSUME GroupingInit PROVE GroupingInv
  OBVIOUS
<1>1. ProcessorCount = 0 /\ processorInfo = << >> /\ Len(groupMembers) = 0
  BY DEF GroupingInit, ProcessorCount
<1>2. processorInfo \in [1 .. ProcessorCount -> Processor]
  BY <1>1
<1> QED
  BY <1>1, <1>2, GroupingAssumption
     DEF GroupingInit, GroupingInv, GroupingTypeOK, OneProcessorPerGroup, NextRound, Metric

\* The lists root passes to benchmark_trigger_group have nobody twice.
ListsDistinct ==
    \A s \in CandidateLists :
        s \in Seq(Sequencers) /\ Distinct(s)

\* With such lists every call keeps the groups disjoint.
LEMMA GroupingNextGroups ==
  ASSUME ListsDistinct, GroupingInv, GroupingNext, NEW S, Sequencers \subseteq S, GroupsOver(S)
  PROVE  GroupsOver(S)'
<1>1. CASE UNCHANGED groupMembers
  BY <1>1 DEF GroupsOver, GroupsDisjoint, all_group_ids
<1>2. ASSUME NEW candidates \in CandidateLists, NEW announced \in Announcements,
             benchmark_trigger_group(candidates, announced)
      PROVE  GroupsOver(S)'
  <2>1. candidates \in Seq(S) /\ Distinct(candidates)
    <3>1. candidates \in Seq(Sequencers) /\ Distinct(candidates)
      BY DEF ListsDistinct
    <3> QED
      BY <3>1
  <2>2. PICK seed \in Seeds : trigger_group(candidates, announced, seed)
    BY <1>2 DEF benchmark_trigger_group
  <2>3. seed \in Nat
    BY GroupingAssumption
  <2> QED
    BY <2>1, <2>2, <2>3, TriggerGroups
<1> QED
  BY <1>1, <1>2 DEF GroupingNext, set_group_metric, register_processor

----------------------------------------------------------------------------
(* The applications.                                                       *)

\* What the storage of the container pallet looks like.
ContainerTypeOK ==
    /\ nextApplicationID \in Nat \ {0}
    /\ inuse \in Seq(BOOLEAN) /\ Len(inuse) = nextApplicationID - 1
    /\ Len(appInfoMap) = nextApplicationID - 1 /\ appInfoMap \in Seq(AppInfos)
    /\ groupApp \in [0 .. MaxGroupNumber - 1 -> Nat]

\* The applications in use are those of the groups, each of one group.
AppsInv ==
    /\ ContainerTypeOK
    /\ \A g \in DOMAIN groupApp : groupApp[g] = 0 \/ groupApp[g] \in DOMAIN inuse
    /\ \A i \in DOMAIN inuse : inuse[i] <=> \E g \in DOMAIN groupApp : groupApp[g] = i
    /\ \A g, h \in DOMAIN groupApp : groupApp[g] = groupApp[h] /\ groupApp[g] # 0 => g = h

\* More members of a finite set come before a larger one.
LEMMA BeforeGrows ==
  ASSUME NEW S \in SUBSET Nat, IsFiniteSet(S), NEW x \in S, NEW y \in S, x < y
  PROVE  Before(S, x) < Before(S, y)
<1> DEFINE X == {z \in S : z < x}
           Y == {z \in S : z < y}
<1>1. IsFiniteSet(Y)
  BY FS_Subset
<1>2. X \in SUBSET Y /\ x \in Y /\ x \notin X
  <2>1. \A z \in S : z < x => z < y
    OBVIOUS
  <2>2. ~(x < x)
    OBVIOUS
  <2> QED
    BY <2>1, <2>2, Zenon
<1>3. IsFiniteSet(X) /\ Cardinality(X) <= Cardinality(Y) /\ Cardinality(X) # Cardinality(Y)
  BY <1>1, <1>2, FS_Subset
<1>4. Cardinality(X) \in Nat /\ Cardinality(Y) \in Nat
  BY <1>1, <1>3, FS_CardinalityType
<1> QED
  BY <1>3, <1>4 DEF Before

\* So a member is known by how many come before it.
LEMMA BeforeTells ==
  ASSUME NEW S \in SUBSET Nat, IsFiniteSet(S), NEW x \in S, NEW y \in S,
         Before(S, x) = Before(S, y)
  PROVE  x = y
<1>1. ASSUME x < y PROVE FALSE
  <2>1. Before(S, x) < Before(S, y) /\ IsFiniteSet({z \in S : z < x})
    BY <1>1, BeforeGrows, FS_Subset
  <2>2. Before(S, x) \in Nat
    BY <2>1, FS_CardinalityType DEF Before
  <2> QED
    BY <2>1, <2>2
<1>2. ASSUME y < x PROVE FALSE
  <2>1. Before(S, y) < Before(S, x) /\ IsFiniteSet({z \in S : z < x})
    BY <1>2, BeforeGrows, FS_Subset
  <2>2. Before(S, x) \in Nat
    BY <2>1, FS_CardinalityType DEF Before
  <2> QED
    BY <2>1, <2>2
<1> QED
  BY <1>1, <1>2

\* The free applications and the waiting groups are finitely many numbers.
LEMMA FreeAndWaiting ==
  ASSUME AppsInv, GroupingTypeOK
  PROVE  /\ FreeApps \in SUBSET Nat /\ IsFiniteSet(FreeApps)
         /\ WaitingGroups \in SUBSET Nat /\ IsFiniteSet(WaitingGroups)
<1>1. FreeApps \in SUBSET Nat /\ IsFiniteSet(FreeApps)
  <2>1. FreeApps \in SUBSET (1 .. Len(inuse)) /\ Len(inuse) \in Nat
    BY DEF FreeApps, AppsInv, ContainerTypeOK
  <2>2. IsFiniteSet(1 .. Len(inuse))
    BY <2>1, FS_Interval
  <2>3. IsFiniteSet(FreeApps)
    BY <2>1, <2>2, FS_Subset
  <2> QED
    BY <2>1, <2>3
<1>2. WaitingGroups \in SUBSET Nat /\ IsFiniteSet(WaitingGroups)
  <2>1. WaitingGroups \in SUBSET (0 .. Len(groupMembers) - 1) /\ Len(groupMembers) \in Nat
    BY GroupingAssumption DEF WaitingGroups, all_group_ids, GroupingTypeOK
  <2>2. IsFiniteSet(0 .. Len(groupMembers) - 1)
    BY <2>1, FS_Interval
  <2>3. IsFiniteSet(WaitingGroups)
    BY <2>1, <2>2, FS_Subset
  <2> QED
    BY <2>1, <2>3
<1> QED
  BY <1>1, <1>2

\* An allocation gives a group one application and an application to one group.
LEMMA GetsIsOneToOne ==
  ASSUME AppsInv, GroupingTypeOK
  PROVE  /\ \A g, i, j : Gets(g, i) /\ Gets(g, j) => i = j
         /\ \A g, h, i : Gets(g, i) /\ Gets(h, i) => g = h
<1>1. FreeApps \in SUBSET Nat /\ IsFiniteSet(FreeApps)
  BY FreeAndWaiting
<1>2. WaitingGroups \in SUBSET Nat /\ IsFiniteSet(WaitingGroups)
  BY FreeAndWaiting
<1>3. ASSUME NEW g, NEW i, NEW j, Gets(g, i), Gets(g, j)
      PROVE  i = j
  BY <1>1, <1>3, BeforeTells DEF Gets
<1>4. ASSUME NEW g, NEW h, NEW i, Gets(g, i), Gets(h, i)
      PROVE  g = h
  BY <1>2, <1>4, BeforeTells DEF Gets
<1> QED
  BY <1>3, <1>4

\* What the hook of a block gives away.
LEMMA FinalizeGives ==
  ASSUME AppsInv, GroupingTypeOK, on_finalize
  PROVE  /\ DOMAIN groupApp' = DOMAIN groupApp
         /\ DOMAIN inuse' = DOMAIN inuse
         /\ \A g \in DOMAIN groupApp, i \in DOMAIN inuse :
               Gets(g, i) => groupApp'[g] = i /\ groupApp[g] = 0 /\ ~inuse[i]
         /\ \A g \in DOMAIN groupApp :
               (~ \E i \in DOMAIN inuse : Gets(g, i)) => groupApp'[g] = groupApp[g]
         /\ \A i \in DOMAIN inuse :
               inuse'[i] <=> inuse[i] \/ \E g \in DOMAIN groupApp : Gets(g, i)
<1>1. ASSUME NEW g \in DOMAIN groupApp, NEW i \in DOMAIN inuse, Gets(g, i)
      PROVE  groupApp'[g] = i /\ groupApp[g] = 0 /\ ~inuse[i]
  <2>1. groupApp'[g] = CHOOSE j \in DOMAIN inuse : Gets(g, j)
    BY <1>1 DEF on_finalize
  <2>2. Gets(g, groupApp'[g])
    BY <1>1, <2>1, Zenon
  <2>3. groupApp'[g] = i
    BY <1>1, <2>2, GetsIsOneToOne
  <2> QED
    BY <1>1, <2>3 DEF Gets, WaitingGroups, FreeApps
<1>2. \A i \in DOMAIN inuse :
         inuse'[i] <=> inuse[i] \/ \E g \in DOMAIN groupApp : Gets(g, i)
  BY Zenon DEF on_finalize
<1> QED
  BY <1>1, <1>2 DEF on_finalize

\* For every number less than the size of a finite set, that many come before some
\* member of it.
LEMMA BeforeIsOnto ==
  ASSUME NEW S \in SUBSET Nat, IsFiniteSet(S), NEW k \in 0 .. Cardinality(S) - 1
  PROVE  \E x \in S : Before(S, x) = k
<1> DEFINE key == [x \in S |-> x]
<1>1. key \in [S -> Nat] /\ \A x, y \in S : key[x] = key[y] => x = y
  OBVIOUS
<1>2. \A x \in S : Rank(S, key, x) = Before(S, x)
  <2> SUFFICES ASSUME NEW x \in S PROVE Rank(S, key, x) = Before(S, x)
    OBVIOUS
  <2>1. {y \in S : key[y] < key[x]} = {y \in S : y < x}
    OBVIOUS
  <2> QED
    BY <2>1 DEF Rank, Before
<1> HIDE DEF key
<1>3. \E x \in S : Rank(S, key, x) = k
  BY <1>1, RankIsOnto
<1> QED
  BY <1>2, <1>3

\* Fewer come before a member of a finite set than the set has.
LEMMA BeforeIsLess ==
  ASSUME NEW S \in SUBSET Nat, IsFiniteSet(S), NEW x \in S
  PROVE  Before(S, x) \in 0 .. Cardinality(S) - 1
<1> DEFINE T == {y \in S : y < x}
<1>1. T \in SUBSET S /\ x \in S /\ x \notin T
  <2>1. ~ (x < x)
    OBVIOUS
  <2> QED
    BY <2>1
<1>2. Cardinality(T) \in Nat /\ Cardinality(S) \in Nat /\ Cardinality(T) < Cardinality(S)
  <2> HIDE DEF T
  <2>1. IsFiniteSet(T) /\ Cardinality(T) <= Cardinality(S)
        /\ (Cardinality(T) = Cardinality(S) => T = S)
    BY <1>1, FS_Subset
  <2>2. Cardinality(T) \in Nat /\ Cardinality(S) \in Nat
    BY <2>1, FS_CardinalityType
  <2> QED
    BY <1>1, <2>1, <2>2
<1> QED
  BY <1>2 DEF Before

\* The hook leaves no group waiting with an application free: a group that is still
\* waiting had as many before it as there were free applications, and an application
\* that is still free as many as there were groups waiting.
LEMMA FinalizeServes ==
  ASSUME AppsInv, GroupingTypeOK, on_finalize, UNCHANGED groupMembers
  PROVE  WaitingGroups' = {} \/ FreeApps' = {}
<1> SUFFICES ASSUME NEW g \in WaitingGroups', NEW i \in FreeApps' PROVE FALSE
  OBVIOUS
<1>1. /\ DOMAIN groupApp' = DOMAIN groupApp
      /\ DOMAIN inuse' = DOMAIN inuse
      /\ \A h \in DOMAIN groupApp, j \in DOMAIN inuse :
            Gets(h, j) => groupApp'[h] = j /\ groupApp[h] = 0 /\ ~inuse[j]
      /\ \A h \in DOMAIN groupApp :
            (~ \E j \in DOMAIN inuse : Gets(h, j)) => groupApp'[h] = groupApp[h]
      /\ \A j \in DOMAIN inuse :
            inuse'[j] <=> inuse[j] \/ \E h \in DOMAIN groupApp : Gets(h, j)
  BY FinalizeGives
<1>2. /\ FreeApps \in SUBSET Nat /\ IsFiniteSet(FreeApps)
      /\ WaitingGroups \in SUBSET Nat /\ IsFiniteSet(WaitingGroups)
  BY FreeAndWaiting
<1>3. all_group_ids' = all_group_ids /\ all_group_ids \subseteq DOMAIN groupApp
  <2>1. all_group_ids' = all_group_ids
    BY DEF all_group_ids
  <2>2. Len(groupMembers) \in 0 .. MaxGroupNumber /\ DOMAIN groupApp = 0 .. MaxGroupNumber - 1
    BY DEF GroupingTypeOK, AppsInv, ContainerTypeOK
  <2>3. all_group_ids \subseteq DOMAIN groupApp
    BY <2>2, GroupingAssumption DEF all_group_ids
  <2> QED
    BY <2>1, <2>3
<1>4. g \in WaitingGroups /\ ~ \E j \in DOMAIN inuse : Gets(g, j)
  <2>1. g \in all_group_ids /\ g \in DOMAIN groupApp /\ groupApp'[g] = 0
    BY <1>3 DEF WaitingGroups
  <2>2. \A j \in DOMAIN inuse : j # 0
    BY DEF AppsInv, ContainerTypeOK
  <2> QED
    BY <1>1, <2>1, <2>2 DEF WaitingGroups
<1>5. i \in FreeApps /\ ~ \E h \in DOMAIN groupApp : Gets(h, i)
  <2>1. i \in DOMAIN inuse /\ ~inuse'[i]
    BY <1>1 DEF FreeApps
  <2> QED
    BY <1>1, <2>1, Zenon DEF FreeApps
<1> DEFINE k == Before(WaitingGroups, g)
           l == Before(FreeApps, i)
           w == Cardinality(WaitingGroups)
           f == Cardinality(FreeApps)
<1>6. k \in 0 .. w - 1 /\ w \in Nat
  BY <1>2, <1>4, BeforeIsLess, FS_CardinalityType
<1>7. l \in 0 .. f - 1 /\ f \in Nat
  BY <1>2, <1>5, BeforeIsLess, FS_CardinalityType
<1>8. ~(k \in 0 .. f - 1)
  <2> SUFFICES ASSUME k \in 0 .. f - 1 PROVE FALSE
    OBVIOUS
  <2>1. PICK j \in FreeApps : Before(FreeApps, j) = k
    BY <1>2, BeforeIsOnto
  <2>2. Gets(g, j) /\ j \in DOMAIN inuse
    BY <1>4, <2>1 DEF Gets, FreeApps
  <2> QED
    BY <1>4, <2>2
<1>9. ~(l \in 0 .. w - 1)
  <2> SUFFICES ASSUME l \in 0 .. w - 1 PROVE FALSE
    OBVIOUS
  <2>1. PICK h \in WaitingGroups : Before(WaitingGroups, h) = l
    BY <1>2, BeforeIsOnto
  <2>2. Gets(h, i) /\ h \in DOMAIN groupApp
    BY <1>3, <1>5, <2>1 DEF Gets, WaitingGroups
  <2> QED
    BY <1>5, <2>2
<1> HIDE DEF k, l, w, f
<1> QED
  BY <1>6, <1>7, <1>8, <1>9

\* It keeps groups and applications matched.
LEMMA FinalizeKeeps ==
  ASSUME AppsInv, GroupingTypeOK, on_finalize
  PROVE  AppsInv'
<1>1. /\ DOMAIN groupApp' = DOMAIN groupApp
      /\ DOMAIN inuse' = DOMAIN inuse
      /\ \A g \in DOMAIN groupApp, i \in DOMAIN inuse :
            Gets(g, i) => groupApp'[g] = i /\ groupApp[g] = 0 /\ ~inuse[i]
      /\ \A g \in DOMAIN groupApp :
            (~ \E i \in DOMAIN inuse : Gets(g, i)) => groupApp'[g] = groupApp[g]
      /\ \A i \in DOMAIN inuse :
            inuse'[i] <=> inuse[i] \/ \E g \in DOMAIN groupApp : Gets(g, i)
  BY FinalizeGives
<1>2. /\ nextApplicationID \in Nat \ {0} /\ UNCHANGED <<nextApplicationID, appInfoMap>>
      /\ inuse \in Seq(BOOLEAN) /\ Len(inuse) = nextApplicationID - 1
      /\ groupApp \in [0 .. MaxGroupNumber - 1 -> Nat]
      /\ DOMAIN inuse = 1 .. nextApplicationID - 1
  BY DEF AppsInv, ContainerTypeOK, on_finalize
<1>3. /\ \A g \in DOMAIN groupApp : groupApp[g] = 0 \/ groupApp[g] \in DOMAIN inuse
      /\ \A i \in DOMAIN inuse : inuse[i] <=> \E g \in DOMAIN groupApp : groupApp[g] = i
      /\ \A g, h \in DOMAIN groupApp : groupApp[g] = groupApp[h] /\ groupApp[g] # 0 => g = h
  BY DEF AppsInv
<1>4. \A i \in DOMAIN inuse : i \in Nat /\ i # 0
  BY <1>2
<1>5. ASSUME NEW g \in DOMAIN groupApp
      PROVE  \/ \E i \in DOMAIN inuse : Gets(g, i) /\ groupApp'[g] = i /\ groupApp[g] = 0 /\ ~inuse[i]
             \/ groupApp'[g] = groupApp[g]
  BY <1>1, Zenon
<1>6. groupApp' \in [0 .. MaxGroupNumber - 1 -> Nat]
  <2>1. \A g \in DOMAIN groupApp : groupApp'[g] \in Nat
    BY <1>2, <1>4, <1>5
  <2> QED
    BY <1>1, <1>2, <2>1 DEF on_finalize
<1>7. inuse' \in Seq(BOOLEAN) /\ Len(inuse') = nextApplicationID - 1
  <2> DEFINE n == nextApplicationID - 1
  <2>1. inuse' = [i \in 1 .. n |-> inuse[i] \/ \E g \in DOMAIN groupApp : Gets(g, i)]
    BY <1>2 DEF on_finalize
  <2>2. n \in Nat
    BY <1>2
  <2> HIDE DEF n
  <2>3. inuse' \in [1 .. n -> BOOLEAN]
    BY <2>1, Zenon
  <2>4. Len(inuse') = n
    BY <2>2, <2>3
  <2> QED
    BY <2>2, <2>3, <2>4 DEF n
<1>8. \A g \in DOMAIN groupApp : groupApp'[g] = 0 \/ groupApp'[g] \in DOMAIN inuse
  BY <1>3, <1>5
<1>9. ASSUME NEW i \in DOMAIN inuse
      PROVE  inuse'[i] <=> \E g \in DOMAIN groupApp : groupApp'[g] = i
  <2>1. ASSUME NEW g \in DOMAIN groupApp, groupApp[g] = i
        PROVE  groupApp'[g] = i
    BY <1>4, <1>5, <2>1
  <2>2. ASSUME NEW g \in DOMAIN groupApp, groupApp'[g] = i
        PROVE  groupApp[g] = i \/ Gets(g, i)
    BY <1>5, <2>2, Zenon
  <2> QED
    BY <1>1, <1>3, <2>1, <2>2, Zenon
<1>10. ASSUME NEW g \in DOMAIN groupApp, NEW h \in DOMAIN groupApp,
              groupApp'[g] = groupApp'[h], groupApp'[g] # 0
       PROVE  g = h
  <2>1. CASE groupApp'[g] = groupApp[g] /\ groupApp'[h] = groupApp[h]
    BY <1>3, <1>10, <2>1
  <2>2. ASSUME NEW x \in DOMAIN groupApp, NEW y \in DOMAIN groupApp,
               groupApp'[x] = groupApp'[y], groupApp'[x] # groupApp[x]
        PROVE  x = y
    <3>1. PICK i \in DOMAIN inuse : Gets(x, i) /\ groupApp'[x] = i /\ ~inuse[i]
      BY <1>5, <2>2
    <3>2. groupApp[y] # i
      BY <1>3, <3>1
    <3>3. Gets(y, i)
      BY <1>5, <2>2, <3>1, <3>2
    <3> QED
      BY <3>1, <3>3, GetsIsOneToOne
  <2> QED
    BY <1>10, <2>1, <2>2
<1>11. ContainerTypeOK'
  BY <1>2, <1>6, <1>7 DEF AppsInv, ContainerTypeOK
<1> QED
  BY <1>1, <1>8, <1>9, <1>10, <1>11 DEF AppsInv

\* A registered application waits for a group.
LEMMA RegisterAppKeeps ==
  ASSUME AppsInv, NEW info \in AppInfos, register_app(info)
  PROVE  AppsInv'
<1> DEFINE n == nextApplicationID - 1
<1>1. /\ nextApplicationID \in Nat \ {0}
      /\ inuse \in Seq(BOOLEAN) /\ Len(inuse) = n
      /\ appInfoMap \in Seq(AppInfos) /\ Len(appInfoMap) = n
      /\ groupApp \in [0 .. MaxGroupNumber - 1 -> Nat]
  BY DEF AppsInv, ContainerTypeOK
<1>2. n \in Nat /\ DOMAIN inuse = 1 .. n
  BY <1>1
<1>3. /\ inuse' = Append(inuse, FALSE) /\ appInfoMap' = Append(appInfoMap, info)
      /\ nextApplicationID' = nextApplicationID + 1 /\ groupApp' = groupApp
  BY DEF register_app
<1>4. nextApplicationID' - 1 = n + 1 /\ nextApplicationID' \in Nat \ {0}
  BY <1>1, <1>3
<1> HIDE DEF n
<1> DEFINE no == FALSE
<1>5. no \in BOOLEAN
  OBVIOUS
<1> HIDE DEF no
<1>6. inuse' = Append(inuse, no)
  BY <1>3 DEF no
<1>7. /\ inuse' \in Seq(BOOLEAN) /\ Len(inuse') = n + 1
      /\ \A i \in 1 .. n : inuse'[i] = inuse[i]
      /\ inuse'[n + 1] = no
  BY <1>1, <1>5, <1>6, AppendProperties
<1>8. appInfoMap' \in Seq(AppInfos) /\ Len(appInfoMap') = n + 1
  BY <1>1, <1>3, AppendProperties
<1>9. ContainerTypeOK'
  BY <1>1, <1>3, <1>4, <1>7, <1>8 DEF ContainerTypeOK
<1>10. DOMAIN inuse' = 1 .. n + 1
  BY <1>7
<1>11. \A i \in 1 .. n + 1 : i \in 1 .. n \/ i = n + 1
  BY <1>2
<1>12. \A g \in DOMAIN groupApp : groupApp[g] = 0 \/ groupApp[g] \in 1 .. n
  BY <1>2 DEF AppsInv
<1>13. \A g \in DOMAIN groupApp : groupApp[g] # n + 1
  BY <1>2, <1>12
<1>14. \A i \in 1 .. n + 1 : inuse'[i] <=> \E g \in DOMAIN groupApp : groupApp[g] = i
  <2>1. \A i \in 1 .. n : inuse[i] <=> \E g \in DOMAIN groupApp : groupApp[g] = i
    BY <1>2 DEF AppsInv
  <2>2. ~ inuse'[n + 1]
    BY <1>7, Zenon DEF no
  <2> QED
    BY <1>7, <1>11, <1>13, <2>1, <2>2, Zenon
<1>15. \A g \in DOMAIN groupApp : groupApp[g] = 0 \/ groupApp[g] \in 1 .. n + 1
  BY <1>2, <1>12
<1>16. \A g, h \in DOMAIN groupApp : groupApp[g] = groupApp[h] /\ groupApp[g] # 0 => g = h
  BY DEF AppsInv
<1> QED
  BY <1>3, <1>9, <1>10, <1>14, <1>15, <1>16 DEF AppsInv

\* The storage of both pallets is in order.
PalletsInv == GroupingInv /\ AppsInv

\* Nothing is registered at genesis, and no group has an application.
LEMMA PalletsInitInv == PalletsInit => PalletsInv
<1> SUFFICES ASSUME PalletsInit PROVE PalletsInv
  OBVIOUS
<1>1. GroupingInv /\ ContainerInit
  BY GroupingInitInv DEF PalletsInit
<1>2. /\ Len(inuse) = 0 /\ Len(appInfoMap) = 0 /\ nextApplicationID = 1
      /\ inuse \in Seq(BOOLEAN) /\ appInfoMap \in Seq(AppInfos)
      /\ groupApp = [g \in 0 .. MaxGroupNumber - 1 |-> 0]
  BY <1>1 DEF ContainerInit
<1>3. ContainerTypeOK
  BY <1>2 DEF ContainerTypeOK
<1>4. DOMAIN inuse = {}
  BY <1>2
<1> QED
  BY <1>1, <1>2, <1>3, <1>4 DEF PalletsInv, AppsInv

\* Every step of the pallets keeps the two in order.
LEMMA PalletsNextInv == PalletsInv /\ [PalletsNext]_palletsVars => PalletsInv'
<1> SUFFICES ASSUME PalletsInv, [PalletsNext]_palletsVars PROVE PalletsInv'
  OBVIOUS
<1>1. GroupingInv /\ AppsInv /\ GroupingTypeOK
  BY DEF PalletsInv, GroupingInv
<1>2. ASSUME UNCHANGED containerVars PROVE AppsInv'
  BY <1>1, <1>2 DEF containerVars, AppsInv, ContainerTypeOK
<1>3. ASSUME UNCHANGED groupingVars PROVE GroupingInv'
  BY <1>1, <1>3 DEF groupingVars, GroupingInv, GroupingTypeOK, OneProcessorPerGroup, ProcessorCount
<1>4. CASE GroupingNext /\ UNCHANGED containerVars
  BY <1>1, <1>2, <1>4, GroupingNextInv DEF PalletsInv
<1>5. ASSUME NEW info \in AppInfos, ContainerStep(register_app(info))
      PROVE  PalletsInv'
  BY <1>1, <1>3, <1>5, RegisterAppKeeps DEF PalletsInv, ContainerStep
<1>6. ASSUME NEW url \in Urls, ContainerStep(set_default_url(url))
      PROVE  PalletsInv'
  BY <1>1, <1>3, <1>6 DEF PalletsInv, ContainerStep, set_default_url, AppsInv, ContainerTypeOK
<1>7. CASE ContainerStep(on_finalize)
  BY <1>1, <1>3, <1>7, FinalizeKeeps DEF PalletsInv, ContainerStep
<1>8. CASE UNCHANGED palletsVars
  BY <1>2, <1>3, <1>8 DEF PalletsInv, palletsVars, groupingVars, containerVars
<1> QED
  BY <1>4, <1>5, <1>6, <1>7, <1>8 DEF PalletsNext

\* So they are in order throughout.
LEMMA PalletsInvariance == PalletsSpec => []PalletsInv
  BY PalletsInitInv, PalletsNextInv, PTL DEF PalletsSpec

\* A matching that is one to one has exactly one group for an application in use.
LEMMA AppsInvMatches == AppsInv => AppsMatchGroups
<1> SUFFICES ASSUME AppsInv PROVE AppsMatchGroups
  OBVIOUS
<1>1. /\ \A g \in DOMAIN groupApp : groupApp[g] = 0 \/ groupApp[g] \in DOMAIN inuse
      /\ \A i \in DOMAIN inuse : inuse[i] <=> \E g \in DOMAIN groupApp : groupApp[g] = i
      /\ \A g, h \in DOMAIN groupApp : groupApp[g] = groupApp[h] /\ groupApp[g] # 0 => g = h
      /\ Len(inuse) = nextApplicationID - 1 /\ Len(appInfoMap) = nextApplicationID - 1
  BY DEF AppsInv, ContainerTypeOK
<1>2. DOMAIN groupApp = 0 .. MaxGroupNumber - 1 /\ \A i \in DOMAIN inuse : i # 0
  BY DEF AppsInv, ContainerTypeOK
<1>3. ASSUME NEW i \in DOMAIN inuse
      PROVE  inuse[i] <=> Cardinality({g \in DOMAIN groupApp : groupApp[g] = i}) = 1
  <2> DEFINE G == {g \in DOMAIN groupApp : groupApp[g] = i}
  <2>1. IsFiniteSet(G)
    <3>1. IsFiniteSet(DOMAIN groupApp)
      BY <1>2, FS_Interval, GroupingAssumption
    <3> QED
      BY <3>1, FS_Subset
  <2>2. Cardinality(G) = 1 <=> \E x : G = {x}
    BY <2>1, FS_Singleton
  <2>3. (\E x : G = {x}) => inuse[i]
    BY <1>1
  <2>4. inuse[i] => \E x : G = {x}
    <3> SUFFICES ASSUME inuse[i] PROVE \E x : G = {x}
      OBVIOUS
    <3>1. PICK x \in DOMAIN groupApp : groupApp[x] = i
      BY <1>1
    <3>2. \A y \in DOMAIN groupApp : groupApp[y] = i => y = x
      BY <1>1, <1>2, <3>1
    <3>3. G = {x}
      BY <3>1, <3>2
    <3> QED
      BY <3>3
  <2> HIDE DEF G
  <2>5. inuse[i] \in BOOLEAN
    BY DEF AppsInv, ContainerTypeOK
  <2>6. inuse[i] <=> Cardinality(G) = 1
    BY <2>2, <2>3, <2>4, <2>5, Zenon
  <2> QED
    BY <2>6 DEF G
<1> QED
  BY <1>1, <1>3 DEF AppsMatchGroups

\* For any number of groups and applications: InuseMap, GroupAPPMap and APPInfoMap,
\* which register_app and on_finalize write, agree, and no two groups share an
\* application.
THEOREM AppsMatch == PalletsSpec => []AppsMatchGroups
<1>1. PalletsInv => AppsMatchGroups
  BY AppsInvMatches DEF PalletsInv
<1> QED
  BY <1>1, PalletsInvariance, PTL

\* For any number of processors and any failures of assign_processors_to_groups: no
\* two processors serve one group, and none more than it has room for.
THEOREM OneProcessor == PalletsSpec => []OneProcessorPerGroup
<1>1. PalletsInv => OneProcessorPerGroup
  BY DEF PalletsInv, GroupingInv
<1> QED
  BY <1>1, PalletsInvariance, PTL

\* on_finalize gives an application to waiting groups only, and nothing else writes
\* GroupAPPMap: across any regrouping a group keeps the application it has.
THEOREM GroupsKeepApps == PalletsSpec => GroupKeepsApp
<1> DEFINE Keeps == \A g \in DOMAIN groupApp : groupApp[g] # 0 => groupApp'[g] = groupApp[g]
<1>1. PalletsInv /\ [PalletsNext]_palletsVars => [Keeps]_palletsVars
  <2> SUFFICES ASSUME PalletsInv, PalletsNext PROVE Keeps
    OBVIOUS
  <2>1. CASE UNCHANGED groupApp
    BY <2>1
  <2>2. CASE on_finalize
    <3>1. AppsInv /\ GroupingTypeOK
      BY DEF PalletsInv, GroupingInv
    <3> QED
      BY <2>2, <3>1, FinalizeGives
  <2> QED
    BY <2>1, <2>2 DEF PalletsNext, ContainerStep, containerVars, register_app, set_default_url
<1> QED
  BY <1>1, PalletsInvariance, PTL DEF PalletsSpec, GroupKeepsApp

\* A step announces a next round only as trigger_group does, with its groups.
LEMMA AnnouncementServed ==
  ASSUME GroupingInv, NEW candidates, NEW announced, NEW seed,
         trigger_group(candidates, announced, seed), nextRound' # nextRound
  PROVE  UNION {processorInfo'[i].groups : i \in DOMAIN processorInfo'} = all_group_ids'
<1>1. metric \in Metric /\ metric.number \in Nat /\ ProcessorCount \in Nat
  BY DEF GroupingInv, GroupingTypeOK, Metric
<1>2. /\ groupMembers' = split(shuffle_accounts(candidates, seed))
      /\ can_assign_processors /\ assign_processors_to_groups
  BY DEF trigger_group, groupingVars
<1>3. /\ ProcessorCount' = ProcessorCount
      /\ \A i \in 1 .. ProcessorCount : processorInfo'[i].groups = group_ids_of(i)
      /\ DOMAIN processorInfo' = 1 .. ProcessorCount
  BY <1>2, AssignKeeps DEF assign_processors_to_groups
<1>4. all_group_ids' = 0 .. metric.number - 1
  BY <1>1, <1>2, SplitLen DEF all_group_ids
<1>5. UNION {group_ids_of(i) : i \in 1 .. ProcessorCount} = 0 .. metric.number - 1
  BY <1>1, <1>2, AllIdsDealt DEF can_assign_processors
<1> QED
  BY <1>3, <1>4, <1>5

\* For any number of groups and processors: whenever NextRoundStorage is written, all
\* groups have a processor and no processor has a group that does not exist.
THEOREM AnnouncedServed == PalletsSpec => AnnouncedGroupsServed
<1> DEFINE Served == UNION {processorInfo'[i].groups : i \in DOMAIN processorInfo'} = all_group_ids'
<1>1. PalletsInv /\ [PalletsNext]_palletsVars => [nextRound' # nextRound => Served]_groupingVars
  <2> SUFFICES ASSUME PalletsInv, PalletsNext \/ UNCHANGED palletsVars, nextRound' # nextRound
               PROVE  Served
    OBVIOUS
  <2>1. GroupingNext
    BY DEF PalletsNext, ContainerStep, groupingVars, palletsVars
  <2>2. PICK candidates, announced, seed : trigger_group(candidates, announced, seed)
    BY <2>1 DEF GroupingNext, set_group_metric, register_processor, benchmark_trigger_group
  <2> QED
    BY <2>2, AnnouncementServed DEF PalletsInv
<1> QED
  BY <1>1, PalletsInvariance, PTL DEF PalletsSpec, AnnouncedGroupsServed

\* It is, and the groups are disjoint.
DisjointInv == PalletsInv /\ GroupsOver(Sequencers)

\* There are no groups at genesis.
LEMMA DisjointInitInv == PalletsInit => DisjointInv
<1> SUFFICES ASSUME PalletsInit PROVE DisjointInv
  OBVIOUS
<1>1. all_group_ids = {}
  BY DEF PalletsInit, GroupingInit, all_group_ids
<1> QED
  BY <1>1, PalletsInitInv DEF GroupsOver, GroupsDisjoint, DisjointInv

\* Only trigger_group makes groups.
LEMMA DisjointNextInv ==
  ASSUME ListsDistinct
  PROVE  DisjointInv /\ [PalletsNext]_palletsVars => DisjointInv'
<1> SUFFICES ASSUME DisjointInv, [PalletsNext]_palletsVars PROVE GroupsOver(Sequencers)'
  BY PalletsNextInv DEF DisjointInv
<1>1. CASE UNCHANGED groupMembers
  BY <1>1 DEF GroupsOver, GroupsDisjoint, all_group_ids, DisjointInv
<1>2. CASE GroupingNext
  BY <1>2, GroupingNextGroups DEF DisjointInv, PalletsInv
<1> QED
  BY <1>1, <1>2 DEF PalletsNext, ContainerStep, groupingVars, palletsVars

\* With lists without duplicates, whatever the seed and the metric: after shuffling
\* and splitting no sequencer is in two groups or twice in one.
THEOREM GroupsAreDisjoint ==
  ASSUME ListsDistinct
  PROVE  PalletsSpec => []GroupsDisjoint
<1>1. PalletsSpec => []DisjointInv
  BY DisjointInitInv, DisjointNextInv, PTL DEF PalletsSpec
<1>2. DisjointInv => GroupsDisjoint
  BY DEF DisjointInv, GroupsOver
<1> QED
  BY <1>1, <1>2, PTL

\* A sequencer of disjoint groups has one group at most.
LEMMA AtMostOneGroup ==
  ASSUME GroupsDisjoint, NEW a, NEW g \in GroupsOf(a), NEW h \in GroupsOf(a)
  PROVE  g = h
<1>1. g \in all_group_ids /\ h \in all_group_ids /\ a \in Members(g) /\ a \in Members(h)
  BY DEF GroupsOf
<1>2. PICK i \in DOMAIN groupMembers[g + 1] : a = groupMembers[g + 1][i]
  BY <1>1 DEF Members
<1>3. PICK j \in DOMAIN groupMembers[h + 1] : a = groupMembers[h + 1][j]
  BY <1>1 DEF Members
<1> QED
  BY <1>1, <1>2, <1>3 DEF GroupsDisjoint

\* What a sequencer is told to load is the application of a group of its own.
LEMMA LoadIsOfOwnGroup ==
  ASSUME NEW a, NEW x \in shuld_load(a)
  PROVE  \E g \in GroupsOf(a) : g \in all_group_ids /\ groupApp[g] # 0 /\ x.app_id = groupApp[g]
<1>1. PICK g \in {h \in account_in_group(a) : groupApp[h] # 0}, url \in defaultUrl :
         x = [app_id |-> groupApp[g], group |-> g, info |-> appInfoMap[groupApp[g]], url |-> url]
  BY DEF shuld_load
<1>2. g \in GroupsOf(a) /\ groupApp[g] # 0
  BY <1>1 DEF account_in_group
<1>3. g \in all_group_ids
  BY <1>2 DEF GroupsOf
<1> QED
  BY <1>1, <1>2, <1>3

\* Disjoint groups and a matching of groups and applications make the loads match.
LEMMA LoadsMatch ==
  ASSUME AppsInv, GroupingTypeOK, GroupsDisjoint
  PROVE  LoadsMatchGroups
<1> SUFFICES ASSUME NEW a \in Sequencers, NEW b \in Sequencers,
                    NEW x \in shuld_load(a), NEW y \in shuld_load(b)
             PROVE  x.app_id = y.app_id <=> GroupsOf(a) \cap GroupsOf(b) # {}
  BY DEF LoadsMatchGroups
<1>1. PICK g \in GroupsOf(a) : g \in all_group_ids /\ groupApp[g] # 0 /\ x.app_id = groupApp[g]
  BY LoadIsOfOwnGroup
<1>2. PICK h \in GroupsOf(b) : h \in all_group_ids /\ groupApp[h] # 0 /\ y.app_id = groupApp[h]
  BY LoadIsOfOwnGroup
<1>3. all_group_ids \subseteq DOMAIN groupApp
  BY GroupingAssumption DEF all_group_ids, GroupingTypeOK, AppsInv, ContainerTypeOK
<1>4. groupApp[g] = groupApp[h] => g = h
  BY <1>1, <1>2, <1>3 DEF AppsInv
<1>5. GroupsOf(a) \cap GroupsOf(b) # {} => g = h
  BY AtMostOneGroup
<1> QED
  BY <1>1, <1>2, <1>4, <1>5

\* With lists without duplicates, for any number of sequencers and groups: shuld_load
\* gives two sequencers one application exactly when they are in one group.
THEOREM LoadsMatchTheGroups ==
  ASSUME ListsDistinct
  PROVE  PalletsSpec => []LoadsMatchGroups
<1>1. PalletsSpec => []DisjointInv
  BY DisjointInitInv, DisjointNextInv, PTL DEF PalletsSpec
<1>2. DisjointInv => LoadsMatchGroups
  BY LoadsMatch DEF DisjointInv, GroupsOver, PalletsInv, GroupingInv
<1> QED
  BY <1>1, <1>2, PTL
=============================================================================
