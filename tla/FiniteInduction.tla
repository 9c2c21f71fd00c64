-------------------------- MODULE FiniteInduction --------------------------
(***************************************************************************)
(* Induction in the form of a least counterexample: a set of naturals that *)
(* is not empty has a least member. The proofs about definitions that      *)
(* recur (a shuffle, a sum) apply it to the set of cases that go wrong.    *)
(***************************************************************************)
EXTENDS FiniteSets, Functions, FiniteSetTheorems, WellFoundedInduction, TLAPS

\* Every set of naturals but the empty one has a least member.
LEMMA LeastOf ==
  ASSUME NEW T \in SUBSET Nat, T # {}
  PROVE  \E n \in T : \A m \in T : n <= m
<1> DEFINE R == OpToRel(<, Nat)
<1>1. IsWellFoundedOn(R, Nat)
  BY NatLessThanWellFounded
<1>2. \A m, n \in Nat : m < n <=> <<m, n>> \in R
  BY DEF OpToRel
<1> HIDE DEF R
<1>3. PICK n \in T : \A m \in T : ~ (<<m, n>> \in R)
  BY <1>1, WFMin
<1>4. \A m \in T : n <= m
  <2> SUFFICES ASSUME NEW m \in T PROVE n <= m
    OBVIOUS
  <2>1. m \in Nat /\ n \in Nat
    OBVIOUS
  <2>2. ~(m < n)
    BY <1>2, <1>3, <2>1, Zenon
  <2> QED
    BY <2>1, <2>2
<1> QED
  BY <1>4

\* Induction: a set of naturals with 0 and the successor of each member is Nat.
LEMMA NatByInduction ==
  ASSUME NEW P \in SUBSET Nat, 0 \in P, \A n \in P : n + 1 \in P
  PROVE  P = Nat
<1> SUFFICES ASSUME P # Nat PROVE FALSE
  OBVIOUS
<1> DEFINE T == Nat \ P
<1>1. T \in SUBSET Nat /\ T # {}
  OBVIOUS
<1> HIDE DEF T
<1>2. PICK n \in T : \A m \in T : n <= m
  BY <1>1, LeastOf
<1> USE DEF T
<1>3. n \in Nat /\ n # 0 /\ n \notin P
  BY <1>2
<1>4. n - 1 \in Nat /\ n - 1 \in P
  BY <1>2, <1>3
<1>5. (n - 1) + 1 \in P
  BY <1>4
<1> QED
  BY <1>3, <1>5

----------------------------------------------------------------------------
(* Ranking the members of a finite set by a key.                           *)

\* How many members of S have a smaller key than x.
Rank(S, key, x) == Cardinality({y \in S : key[y] < key[x]})

\* A larger key has a larger rank, and a rank is less than the number of members.
LEMMA RankGrows ==
  ASSUME NEW S, IsFiniteSet(S), NEW key \in [S -> Nat], NEW x \in S
  PROVE  /\ Rank(S, key, x) \in 0 .. Cardinality(S) - 1
         /\ \A y \in S : key[x] < key[y] => Rank(S, key, x) < Rank(S, key, y)
<1> DEFINE Below(z) == {w \in S : key[w] < key[z]}
<1>1. \A z \in S : key[z] \in Nat
  OBVIOUS
<1>2. ASSUME NEW T \in SUBSET S, x \in T, Below(x) \in SUBSET T
      PROVE  /\ Cardinality(Below(x)) \in Nat /\ Cardinality(T) \in Nat
             /\ Cardinality(Below(x)) < Cardinality(T)
  <2>1. x \notin Below(x)
    BY <1>1
  <2>2. IsFiniteSet(T)
    BY FS_Subset
  <2> HIDE DEF Below
  <2>3. /\ IsFiniteSet(Below(x)) /\ Cardinality(Below(x)) <= Cardinality(T)
        /\ Cardinality(Below(x)) # Cardinality(T)
    BY <1>2, <2>1, <2>2, FS_Subset
  <2>4. Cardinality(Below(x)) \in Nat /\ Cardinality(T) \in Nat
    BY <2>2, <2>3, FS_CardinalityType
  <2> QED
    BY <2>3, <2>4
<1>3. Rank(S, key, x) \in 0 .. Cardinality(S) - 1
  <2>1. /\ Cardinality(Below(x)) \in Nat /\ Cardinality(S) \in Nat
        /\ Cardinality(Below(x)) < Cardinality(S)
    BY <1>2
  <2> QED
    BY <2>1 DEF Rank
<1>4. ASSUME NEW y \in S, key[x] < key[y]
      PROVE  Rank(S, key, x) < Rank(S, key, y)
  <2>1. x \in Below(y)
    BY <1>4
  <2>2. Below(x) \in SUBSET Below(y) /\ Below(y) \in SUBSET S
    BY <1>1, <1>4
  <2>3. Cardinality(Below(x)) < Cardinality(Below(y))
    BY <1>2, <2>1, <2>2
  <2> QED
    BY <2>3 DEF Rank
<1> QED
  BY <1>3, <1>4

\* With different keys the ranks are 0, 1, 2 and so on, each of one member.
LEMMA RankIsOnto ==
  ASSUME NEW S, IsFiniteSet(S), NEW key \in [S -> Nat],
         \A x, y \in S : key[x] = key[y] => x = y,
         NEW k \in 0 .. Cardinality(S) - 1
  PROVE  \E x \in S : Rank(S, key, x) = k
<1>1. Cardinality(S) \in Nat
  BY FS_CardinalityType
<1> DEFINE n == Cardinality(S)
           T == 0 .. n - 1
           f == [x \in S |-> Rank(S, key, x)]
<1>2. f \in [S -> T]
  BY RankGrows
<1>3. ASSUME NEW x \in S, NEW y \in S, f[x] = f[y] PROVE x = y
  <2>1. key[x] \in Nat /\ key[y] \in Nat /\ Rank(S, key, x) \in Nat
    BY <1>1, RankGrows
  <2>2. ~(key[x] < key[y])
    BY <1>3, <2>1, RankGrows
  <2>3. ~(key[y] < key[x])
    BY <1>3, <2>1, RankGrows
  <2>4. key[x] = key[y]
    BY <2>1, <2>2, <2>3
  <2> QED
    BY <2>4
<1>4. f \in Injection(S, T)
  <2> HIDE DEF f, T
  <2> QED
    BY <1>2, <1>3 DEF Injection, IsInjective
<1>5. IsFiniteSet(T) /\ Cardinality(T) = n
  <2>1. n \in Nat
    BY <1>1
  <2> HIDE DEF n
  <2>2. IsFiniteSet(T) /\ Cardinality(T) = IF 0 > n - 1 THEN 0 ELSE (n - 1) - 0 + 1
    BY <2>1, FS_Interval
  <2> QED
    BY <2>1, <2>2
<1>6. f \in Surjection(S, T)
  <2> HIDE DEF f, T
  <2> QED
    BY <1>4, <1>5, FS_Injection
<1>7. k \in T
  OBVIOUS
<1>8. \A t \in T : \E x \in S : f[x] = t
  <2> HIDE DEF f, T
  <2> QED
    BY <1>6, Zenon DEF Surjection
<1>9. PICK x \in S : f[x] = k
  BY <1>7, <1>8
<1> QED
  BY <1>9
----------------------------------------------------------------------------
(* Sums.                                                                   *)

\* Induction over the subsets of a finite set: P holds of a set when it holds of
\* the set without any one of its members.
LEMMA SubsetsByInduction ==
  ASSUME NEW S, IsFiniteSet(S), NEW P \in SUBSET (SUBSET S),
         \A T \in SUBSET S : (\A x \in T : T \ {x} \in P) => T \in P
  PROVE  P = SUBSET S
<1> SUFFICES ASSUME P # SUBSET S PROVE FALSE
  OBVIOUS
<1> DEFINE D == (SUBSET S) \ P
           Sizes == {Cardinality(T) : T \in D}
<1>1. \A T \in SUBSET S : IsFiniteSet(T) /\ Cardinality(T) \in Nat
  BY FS_Subset, FS_CardinalityType
<1>2. Sizes \in SUBSET Nat /\ Sizes # {}
  BY <1>1
<1> HIDE DEF Sizes
<1>3. PICK n \in Sizes : \A m \in Sizes : n <= m
  BY <1>2, LeastOf
<1>4. PICK T \in D : n = Cardinality(T)
  BY <1>3 DEF Sizes
<1>5. ASSUME NEW x \in T PROVE T \ {x} \in P
  <2>1. IsFiniteSet(T) /\ Cardinality(T) \in Nat /\ T \ {x} \in SUBSET S
    BY <1>1
  <2>2. Cardinality(T \ {x}) = Cardinality(T) - 1
    BY <2>1, FS_RemoveElement
  <2>3. ~ (Cardinality(T \ {x}) \in Sizes)
    BY <1>3, <1>4, <2>1, <2>2
  <2> QED
    BY <2>1, <2>3 DEF Sizes
<1> QED
  BY <1>4, <1>5

\* g is the recursion by which the sum of f over the subsets of S is defined.
IsSum(g, f, S) ==
    g = [T \in SUBSET S |-> IF T = {} THEN 0
                            ELSE f[CHOOSE x \in T : TRUE] + g[T \ {CHOOSE x \in T : TRUE}]]

\* The library's sum is that recursion at the whole set.
LEMMA SumDef == \A f, S : SumFunctionOnSet(f, S) = (CHOOSE g : IsSum(g, f, S))[S]
  BY DEF SumFunctionOnSet, FoldFunctionOnSet, MapThenFoldSet, IsSum

\* There is such a recursion over the subsets of a finite set.
LEMMA SumExists ==
  ASSUME NEW f, NEW S, IsFiniteSet(S)
  PROVE  \E g : IsSum(g, f, S)
<1> DEFINE Step(g, T) == IF T = {} THEN 0
                         ELSE f[CHOOSE x \in T : TRUE] + g[T \ {CHOOSE x \in T : TRUE}]
           P == {n \in Nat : \E g : \A T \in SUBSET S : Cardinality(T) <= n => g[T] = Step(g, T)}
<1>1. \A T \in SUBSET S : /\ IsFiniteSet(T) /\ Cardinality(T) \in Nat
                          /\ Cardinality(T) = 0 => T = {}
                          /\ Cardinality(T) <= Cardinality(S)
  BY FS_Subset, FS_CardinalityType, FS_EmptySet
<1>2. ASSUME NEW T \in SUBSET S, T # {}
      PROVE  /\ T \ {CHOOSE x \in T : TRUE} \in SUBSET S
             /\ Cardinality(T \ {CHOOSE x \in T : TRUE}) = Cardinality(T) - 1
  <2> DEFINE c == CHOOSE x \in T : TRUE
  <2>1. c \in T
    BY <1>2
  <2> HIDE DEF c
  <2>2. T \ {c} \in SUBSET S /\ Cardinality(T \ {c}) = Cardinality(T) - 1
    BY <1>1, <2>1, FS_RemoveElement
  <2> QED
    BY <2>2 DEF c
<1>3. 0 \in P
  <2> DEFINE g == [T \in SUBSET S |-> 0]
  <2>1. \A T \in SUBSET S : Cardinality(T) <= 0 => g[T] = Step(g, T)
    BY <1>1
  <2> QED
    BY <2>1
<1>4. ASSUME NEW n \in P PROVE n + 1 \in P
  <2>1. PICK g : \A T \in SUBSET S : Cardinality(T) <= n => g[T] = Step(g, T)
    OBVIOUS
  <2> DEFINE h == [T \in SUBSET S |-> IF Cardinality(T) <= n THEN g[T] ELSE Step(g, T)]
  <2>2. n \in Nat
    OBVIOUS
  <2>3. ASSUME NEW T \in SUBSET S, Cardinality(T) <= n + 1
        PROVE  Step(h, T) = Step(g, T)
    <3>1. CASE T = {}
      BY <3>1
    <3>2. CASE T # {}
      <4> DEFINE rest == T \ {CHOOSE x \in T : TRUE}
      <4>1. rest \in SUBSET S /\ Cardinality(rest) <= n
        BY <1>1, <1>2, <2>2, <2>3, <3>2
      <4> HIDE DEF rest
      <4>2. h[rest] = g[rest]
        BY <4>1
      <4> QED
        BY <4>2 DEF rest
    <3> QED
      BY <3>1, <3>2
  <2>4. \A T \in SUBSET S : h[T] = Step(g, T)
    BY <2>1
  <2> HIDE DEF h, Step
  <2>5. \A T \in SUBSET S : Cardinality(T) <= n + 1 => h[T] = Step(h, T)
    BY <2>3, <2>4
  <2> QED
    BY <2>2, <2>5
<1> HIDE DEF P
<1>5. P = Nat
  BY <1>3, <1>4, NatByInduction DEF P
<1>6. Cardinality(S) \in P
  BY <1>5, FS_CardinalityType
<1>7. PICK g : \A T \in SUBSET S : Cardinality(T) <= Cardinality(S) => g[T] = Step(g, T)
  BY <1>6 DEF P
<1> DEFINE h == [T \in SUBSET S |-> g[T]]
<1>8. \A T \in SUBSET S : h[T] = Step(h, T)
  <2> SUFFICES ASSUME NEW T \in SUBSET S PROVE h[T] = Step(h, T)
    OBVIOUS
  <2>1. g[T] = Step(g, T)
    BY <1>1, <1>7
  <2>2. T # {} => h[T \ {CHOOSE x \in T : TRUE}] = g[T \ {CHOOSE x \in T : TRUE}]
    BY <1>2
  <2> QED
    BY <2>1, <2>2
<1>9. h = [T \in SUBSET S |-> Step(h, T)]
  <2> HIDE DEF Step
  <2> QED
    BY <1>8
<1>10. IsSum(h, f, S)
  BY <1>9 DEF IsSum
<1> QED
  BY <1>10

\* Two recursions agree where both are defined.
LEMMA SumsAgree ==
  ASSUME NEW f, NEW S, IsFiniteSet(S), NEW g, IsSum(g, f, S),
         NEW U \in SUBSET S, NEW h, IsSum(h, f, U)
  PROVE  \A T \in SUBSET U : h[T] = g[T]
<1> DEFINE P == {T \in SUBSET U : h[T] = g[T]}
<1>1. ASSUME NEW T \in SUBSET U, \A x \in T : T \ {x} \in P
      PROVE  T \in P
  <2> DEFINE c == CHOOSE x \in T : TRUE
  <2>1. h[T] = IF T = {} THEN 0 ELSE f[c] + h[T \ {c}]
    BY DEF IsSum
  <2>2. g[T] = IF T = {} THEN 0 ELSE f[c] + g[T \ {c}]
    BY DEF IsSum
  <2>3. T # {} => c \in T
    OBVIOUS
  <2> HIDE DEF c
  <2>4. T # {} => h[T \ {c}] = g[T \ {c}]
    BY <1>1, <2>3
  <2> QED
    BY <2>1, <2>2, <2>4
<1>2. IsFiniteSet(U)
  BY FS_Subset
<1> HIDE DEF P
<1>3. P = SUBSET U
  <2>1. P \in SUBSET (SUBSET U)
    BY DEF P
  <2> QED
    BY <1>1, <1>2, <2>1, SubsetsByInduction
<1> QED
  BY <1>3 DEF P

\* The empty sum is 0, and another adds the value at the member that is chosen
\* to the sum over the rest.
LEMMA SumUnfolds ==
  ASSUME NEW f, NEW S, IsFiniteSet(S)
  PROVE  /\ S = {} => SumFunctionOnSet(f, S) = 0
         /\ S # {} => SumFunctionOnSet(f, S) = f[CHOOSE x \in S : TRUE]
                                                  + SumFunctionOnSet(f, S \ {CHOOSE x \in S : TRUE})
<1> DEFINE c == CHOOSE x \in S : TRUE
           g == CHOOSE g : IsSum(g, f, S)
           h == CHOOSE h : IsSum(h, f, S \ {c})
<1>1. IsSum(g, f, S)
  BY SumExists
<1>2. IsFiniteSet(S \ {c})
  BY FS_RemoveElement
<1>3. IsSum(h, f, S \ {c})
  BY <1>2, SumExists
<1>4. SumFunctionOnSet(f, S) = g[S] /\ SumFunctionOnSet(f, S \ {c}) = h[S \ {c}]
  BY SumDef
<1>5. g[S] = IF S = {} THEN 0 ELSE f[c] + g[S \ {c}]
  <2> HIDE DEF g
  <2> QED
    BY <1>1 DEF IsSum
<1> HIDE DEF c, g, h
<1>6. h[S \ {c}] = g[S \ {c}]
  <2> DEFINE U == S \ {c}
  <2>1. U \in SUBSET S /\ U \in SUBSET U /\ IsSum(h, f, U)
    BY <1>3
  <2> HIDE DEF U
  <2>2. \A T \in SUBSET U : h[T] = g[T]
    BY <1>1, <2>1, SumsAgree, SMTT(30)
  <2> QED
    BY <2>1, <2>2 DEF U
<1>7. /\ S = {} => SumFunctionOnSet(f, S) = 0
      /\ S # {} => SumFunctionOnSet(f, S) = f[c] + SumFunctionOnSet(f, S \ {c})
  BY <1>4, <1>5, <1>6
<1> QED
  BY <1>7 DEF c

\* A sum of naturals adds the value at any member to the sum over the rest.
LEMMA SumPicks ==
  ASSUME NEW S, IsFiniteSet(S), NEW f, \A x \in S : f[x] \in Nat
  PROVE  /\ SumFunctionOnSet(f, S) \in Nat
         /\ \A x \in S : SumFunctionOnSet(f, S) = f[x] + SumFunctionOnSet(f, S \ {x})
<1>0. \A T \in SUBSET S : SumFunctionOnSet(f, T) \in Nat
  <2> DEFINE N == {T \in SUBSET S : SumFunctionOnSet(f, T) \in Nat}
  <2>1. ASSUME NEW T \in SUBSET S, \A x \in T : T \ {x} \in N
        PROVE  T \in N
    <3>1. IsFiniteSet(T)
      BY FS_Subset
    <3>2. CASE T = {}
      <4>1. SumFunctionOnSet(f, T) = 0
        BY <3>1, <3>2, SumUnfolds
      <4> QED
        BY <4>1
    <3>3. CASE T # {}
      <4> DEFINE c == CHOOSE x \in T : TRUE
      <4>1. c \in T
        BY <3>3
      <4>2. SumFunctionOnSet(f, T) = f[c] + SumFunctionOnSet(f, T \ {c})
        BY <3>1, <3>3, SumUnfolds
      <4> HIDE DEF c
      <4> QED
        BY <2>1, <4>1, <4>2
    <3> QED
      BY <3>2, <3>3
  <2> HIDE DEF N
  <2>2. N \in SUBSET (SUBSET S)
    BY DEF N
  <2>3. N = SUBSET S
    BY <2>1, <2>2, SubsetsByInduction
  <2> QED
    BY <2>3 DEF N
<1> DEFINE P == {T \in SUBSET S : /\ SumFunctionOnSet(f, T) \in Nat
                                  /\ \A x \in T : SumFunctionOnSet(f, T)
                                         = f[x] + SumFunctionOnSet(f, T \ {x})}
<1>1. ASSUME NEW T \in SUBSET S, \A x \in T : T \ {x} \in P
      PROVE  T \in P
  <2>1. IsFiniteSet(T)
    BY FS_Subset
  <2>2. CASE T = {}
    BY <1>0, <2>2
  <2>3. CASE T # {}
    <3> DEFINE c == CHOOSE x \in T : TRUE
    <3>1. c \in T
      BY <2>3
    <3>2. SumFunctionOnSet(f, T) = f[c] + SumFunctionOnSet(f, T \ {c})
      BY <2>1, <2>3, SumUnfolds
    <3> HIDE DEF c
    <3>3. SumFunctionOnSet(f, T \ {c}) \in Nat /\ f[c] \in Nat
      BY <1>1, <3>1
    <3>4. ASSUME NEW x \in T PROVE SumFunctionOnSet(f, T) = f[x] + SumFunctionOnSet(f, T \ {x})
      <4>1. CASE x = c
        BY <3>2, <4>1
      <4>2. CASE x # c
        <5>1. x \in T \ {c} /\ c \in T \ {x} /\ (T \ {c}) \ {x} = (T \ {x}) \ {c}
          BY <3>1, <4>2
        <5>2. T \ {c} \in P /\ T \ {x} \in P
          BY <1>1, <3>1
        <5>3. SumFunctionOnSet(f, T \ {c}) = f[x] + SumFunctionOnSet(f, (T \ {x}) \ {c})
          BY <5>1, <5>2
        <5>4. SumFunctionOnSet(f, T \ {x}) = f[c] + SumFunctionOnSet(f, (T \ {x}) \ {c})
          BY <5>1, <5>2
        <5>5. f[x] \in Nat /\ SumFunctionOnSet(f, T \ {x}) \in Nat
          BY <5>2
        <5>6. SumFunctionOnSet(f, (T \ {x}) \ {c}) \in Nat
          BY <1>0
        <5> QED
          BY <3>2, <3>3, <5>3, <5>4, <5>5, <5>6
      <4> QED
        BY <4>1, <4>2
    <3>5. \A x \in T : SumFunctionOnSet(f, T) = f[x] + SumFunctionOnSet(f, T \ {x})
      BY <3>4
    <3> QED
      BY <1>0, <3>5
  <2> QED
    BY <2>2, <2>3
<1>2. P = SUBSET S
  <2> HIDE DEF P
  <2>1. P \in SUBSET (SUBSET S)
    BY DEF P
  <2> QED
    BY <1>1, <2>1, SubsetsByInduction
<1> QED
  BY <1>2

\* Sums of equal values are equal.
LEMMA SumsSame ==
  ASSUME NEW S, IsFiniteSet(S), NEW f, NEW g, \A x \in S : f[x] = g[x]
  PROVE  SumFunctionOnSet(f, S) = SumFunctionOnSet(g, S)
<1> DEFINE P == {T \in SUBSET S : SumFunctionOnSet(f, T) = SumFunctionOnSet(g, T)}
<1>1. ASSUME NEW T \in SUBSET S, \A x \in T : T \ {x} \in P
      PROVE  T \in P
  <2>1. IsFiniteSet(T)
    BY FS_Subset
  <2>2. CASE T = {}
    <3>1. SumFunctionOnSet(f, T) = 0 /\ SumFunctionOnSet(g, T) = 0
      BY <2>1, <2>2, SumUnfolds
    <3> QED
      BY <3>1
  <2>3. CASE T # {}
    <3> DEFINE c == CHOOSE x \in T : TRUE
    <3>1. c \in T
      BY <2>3
    <3>2. /\ SumFunctionOnSet(f, T) = f[c] + SumFunctionOnSet(f, T \ {c})
          /\ SumFunctionOnSet(g, T) = g[c] + SumFunctionOnSet(g, T \ {c})
      BY <2>1, <2>3, SumUnfolds
    <3> HIDE DEF c
    <3> QED
      BY <1>1, <3>1, <3>2
  <2> QED
    BY <2>2, <2>3
<1> HIDE DEF P
<1>2. P \in SUBSET (SUBSET S)
  BY DEF P
<1>3. P = SUBSET S
  BY <1>1, <1>2, SubsetsByInduction
<1> QED
  BY <1>3 DEF P

\* A change of one value changes the sum by as much.
LEMMA SumChanges ==
  ASSUME NEW S, IsFiniteSet(S), NEW f, NEW g, \A x \in S : f[x] \in Nat /\ g[x] \in Nat,
         NEW c \in S, \A x \in S \ {c} : g[x] = f[x]
  PROVE  SumFunctionOnSet(g, S) + f[c] = SumFunctionOnSet(f, S) + g[c]
<1>1. /\ SumFunctionOnSet(f, S) = f[c] + SumFunctionOnSet(f, S \ {c})
      /\ SumFunctionOnSet(g, S) = g[c] + SumFunctionOnSet(g, S \ {c})
  BY SumPicks
<1>2. IsFiniteSet(S \ {c})
  BY FS_RemoveElement
<1>3. /\ SumFunctionOnSet(f, S \ {c}) \in Nat
      /\ SumFunctionOnSet(g, S \ {c}) = SumFunctionOnSet(f, S \ {c})
  <2> DEFINE T == S \ {c}
  <2>1. IsFiniteSet(T) /\ \A x \in T : f[x] \in Nat /\ g[x] = f[x]
    BY <1>2
  <2> HIDE DEF T
  <2>2. SumFunctionOnSet(f, T) \in Nat /\ SumFunctionOnSet(g, T) = SumFunctionOnSet(f, T)
    BY <2>1, SumPicks, SumsSame
  <2> QED
    BY <2>2 DEF T
<1> QED
  BY <1>1, <1>3

\* A value is at most the sum.
LEMMA SumCovers ==
  ASSUME NEW S, IsFiniteSet(S), NEW f, \A x \in S : f[x] \in Nat, NEW c \in S
  PROVE  f[c] <= SumFunctionOnSet(f, S)
<1>1. SumFunctionOnSet(f, S) = f[c] + SumFunctionOnSet(f, S \ {c})
  BY SumPicks
<1>2. IsFiniteSet(S \ {c})
  BY FS_RemoveElement
<1>3. SumFunctionOnSet(f, S \ {c}) \in Nat
  BY <1>2, SumPicks
<1> QED
  BY <1>1, <1>3

\* The sums of two functions add up to the sum of their sums.
LEMMA SumsAdd ==
  ASSUME NEW S, IsFiniteSet(S), NEW f, NEW g, NEW h,
         \A x \in S : f[x] \in Nat /\ g[x] \in Nat /\ h[x] = f[x] + g[x]
  PROVE  SumFunctionOnSet(h, S) = SumFunctionOnSet(f, S) + SumFunctionOnSet(g, S)
<1> DEFINE P == {T \in SUBSET S :
                   SumFunctionOnSet(h, T) = SumFunctionOnSet(f, T) + SumFunctionOnSet(g, T)}
<1>1. ASSUME NEW T \in SUBSET S, \A x \in T : T \ {x} \in P
      PROVE  T \in P
  <2>1. IsFiniteSet(T)
    BY FS_Subset
  <2>2. CASE T = {}
    <3>1. SumFunctionOnSet(f, T) = 0 /\ SumFunctionOnSet(g, T) = 0 /\ SumFunctionOnSet(h, T) = 0
      BY <2>1, <2>2, SumUnfolds
    <3> QED
      BY <3>1
  <2>3. CASE T # {}
    <3> DEFINE c == CHOOSE x \in T : TRUE
    <3>1. c \in T
      BY <2>3
    <3>2. /\ SumFunctionOnSet(f, T) = f[c] + SumFunctionOnSet(f, T \ {c})
          /\ SumFunctionOnSet(g, T) = g[c] + SumFunctionOnSet(g, T \ {c})
          /\ SumFunctionOnSet(h, T) = h[c] + SumFunctionOnSet(h, T \ {c})
      BY <2>1, <2>3, SumUnfolds
    <3> HIDE DEF c
    <3>3. IsFiniteSet(T \ {c})
      BY <2>1, FS_RemoveElement
    <3>4. SumFunctionOnSet(f, T \ {c}) \in Nat /\ SumFunctionOnSet(g, T \ {c}) \in Nat
      BY <3>3, SumPicks
    <3>5. SumFunctionOnSet(h, T \ {c}) = SumFunctionOnSet(f, T \ {c}) + SumFunctionOnSet(g, T \ {c})
      BY <1>1, <3>1
    <3>6. f[c] \in Nat /\ g[c] \in Nat /\ h[c] = f[c] + g[c]
      BY <3>1
    <3>7. SumFunctionOnSet(h, T) = SumFunctionOnSet(f, T) + SumFunctionOnSet(g, T)
      BY <3>2, <3>4, <3>5, <3>6
    <3> QED
      BY <3>7
  <2> QED
    BY <2>2, <2>3
<1> HIDE DEF P
<1>2. P \in SUBSET (SUBSET S)
  BY DEF P
<1>3. P = SUBSET S
  BY <1>1, <1>2, SubsetsByInduction
<1> QED
  BY <1>3 DEF P

\* The sum of the values at the images of S is the sum over the images, when no two
\* members of S have one image.
LEMMA SumsOverImages ==
  ASSUME NEW S, IsFiniteSet(S), NEW k, \A x, y \in S : k[x] = k[y] => x = y,
         NEW f, NEW h, \A x \in S : f[k[x]] \in Nat /\ h[x] = f[k[x]],
         NEW I, I = {k[x] : x \in S}
  PROVE  IsFiniteSet(I) /\ SumFunctionOnSet(h, S) = SumFunctionOnSet(f, I)
<1> DEFINE Image(T) == {k[x] : x \in T}
           P == {T \in SUBSET S : /\ IsFiniteSet(Image(T))
                                  /\ SumFunctionOnSet(h, T) = SumFunctionOnSet(f, Image(T))}
<1>1. ASSUME NEW T \in SUBSET S, \A x \in T : T \ {x} \in P
      PROVE  T \in P
  <2>1. IsFiniteSet(T)
    BY FS_Subset
  <2>2. CASE T = {}
    <3>1. Image(T) = {}
      BY <2>2
    <3>2. IsFiniteSet(Image(T)) /\ SumFunctionOnSet(h, T) = 0 /\ SumFunctionOnSet(f, Image(T)) = 0
      BY <2>1, <2>2, <3>1, SumUnfolds, FS_EmptySet
    <3> QED
      BY <3>2
  <2>3. CASE T # {}
    <3>1. PICK c \in T : TRUE
      BY <2>3
    <3>2. SumFunctionOnSet(h, T) = h[c] + SumFunctionOnSet(h, T \ {c})
      <4>1. \A x \in T : h[x] \in Nat
        OBVIOUS
      <4> QED
        BY <2>1, <4>1, SumPicks
    <3>3. Image(T) = Image(T \ {c}) \cup {k[c]} /\ Image(T \ {c}) = Image(T) \ {k[c]}
      OBVIOUS
    <3>4. /\ IsFiniteSet(Image(T \ {c}))
          /\ SumFunctionOnSet(h, T \ {c}) = SumFunctionOnSet(f, Image(T \ {c}))
      BY <1>1
    <3>5. \A y \in Image(T) : f[y] \in Nat
      OBVIOUS
    <3>6. k[c] \in Image(T)
      OBVIOUS
    <3> HIDE DEF Image
    <3>7. IsFiniteSet(Image(T))
      <4>1. IsFiniteSet(Image(T \ {c}) \cup {k[c]})
        BY <3>4, FS_AddElement
      <4> QED
        BY <3>3, <4>1
    <3>8. SumFunctionOnSet(f, Image(T)) = f[k[c]] + SumFunctionOnSet(f, Image(T) \ {k[c]})
      BY <3>5, <3>6, <3>7, SumPicks
    <3>9. SumFunctionOnSet(h, T) = SumFunctionOnSet(f, Image(T))
      BY <3>2, <3>3, <3>4, <3>8
    <3> QED
      BY <3>7, <3>9
  <2> QED
    BY <2>2, <2>3
<1>2. P = SUBSET S
  <2> HIDE DEF P
  <2>1. P \in SUBSET (SUBSET S)
    BY DEF P
  <2> QED
    BY <1>1, <2>1, SubsetsByInduction
<1>3. S \in P
  BY <1>2
<1> QED
  BY <1>3

\* Members without a value add nothing to a sum.
LEMMA SumSkips ==
  ASSUME NEW S, IsFiniteSet(S), NEW f, \A x \in S : f[x] \in Nat,
         NEW U \in SUBSET S, \A x \in S \ U : f[x] = 0
  PROVE  SumFunctionOnSet(f, S) = SumFunctionOnSet(f, U)
<1> DEFINE P == {T \in SUBSET S : SumFunctionOnSet(f, T) = SumFunctionOnSet(f, T \cap U)}
<1>1. ASSUME NEW T \in SUBSET S, \A x \in T : T \ {x} \in P
      PROVE  T \in P
  <2>1. IsFiniteSet(T) /\ IsFiniteSet(T \cap U)
    <3>1. T \cap U \in SUBSET S
      OBVIOUS
    <3> QED
      BY <3>1, FS_Subset
  <2>2. CASE T \subseteq U
    <3>1. T \cap U = T
      BY <2>2
    <3> QED
      BY <3>1
  <2>3. CASE ~ (T \subseteq U)
    <3>1. PICK c \in T : c \notin U
      BY <2>3
    <3>2. SumFunctionOnSet(f, T) = f[c] + SumFunctionOnSet(f, T \ {c})
      BY <2>1, SumPicks
    <3>3. (T \ {c}) \cap U = T \cap U /\ f[c] = 0
      BY <3>1
    <3>4. SumFunctionOnSet(f, T \ {c}) = SumFunctionOnSet(f, T \cap U)
      BY <1>1, <3>3
    <3>5. SumFunctionOnSet(f, T \cap U) \in Nat
      BY <2>1, SumPicks
    <3>6. SumFunctionOnSet(f, T) = SumFunctionOnSet(f, T \cap U)
      BY <3>2, <3>3, <3>4, <3>5
    <3> QED
      BY <3>6
  <2> QED
    BY <2>2, <2>3
<1>2. P = SUBSET S
  <2> HIDE DEF P
  <2>1. P \in SUBSET (SUBSET S)
    BY DEF P
  <2> QED
    BY <1>1, <2>1, SubsetsByInduction
<1>3. S \in P /\ S \cap U = U
  BY <1>2
<1> QED
  BY <1>3

\* A bound on every value, by a multiple of another and a constant, is one on the sums.
LEMMA SumsBound ==
  ASSUME NEW S, IsFiniteSet(S), NEW f, NEW g, \A x \in S : f[x] \in Nat /\ g[x] \in Nat,
         NEW a \in Nat, NEW b \in Nat, NEW c \in Nat,
         \A x \in S : a * f[x] <= b * g[x] + c
  PROVE  a * SumFunctionOnSet(f, S) <= b * SumFunctionOnSet(g, S) + c * Cardinality(S)
<1> DEFINE F(T) == SumFunctionOnSet(f, T)
           G(T) == SumFunctionOnSet(g, T)
           P == {T \in SUBSET S : a * F(T) <= b * G(T) + c * Cardinality(T)}
<1>1. ASSUME NEW T \in SUBSET S, \A x \in T : T \ {x} \in P
      PROVE  T \in P
  <2>1. IsFiniteSet(T) /\ \A x \in T : f[x] \in Nat /\ g[x] \in Nat
    BY FS_Subset
  <2>2. CASE T = {}
    <3>1. F(T) = 0 /\ G(T) = 0 /\ Cardinality(T) = 0
      BY <2>1, <2>2, SumUnfolds, FS_EmptySet
    <3> QED
      BY <3>1
  <2>3. CASE T # {}
    <3>1. PICK x \in T : TRUE
      BY <2>3
    <3>2. F(T) = f[x] + F(T \ {x}) /\ G(T) = g[x] + G(T \ {x})
      BY <2>1, <3>1, SumPicks
    <3>3. IsFiniteSet(T \ {x}) /\ Cardinality(T \ {x}) = Cardinality(T) - 1
          /\ Cardinality(T) \in Nat /\ Cardinality(T \ {x}) \in Nat
      BY <2>1, <3>1, FS_RemoveElement, FS_CardinalityType
    <3>4. F(T \ {x}) \in Nat /\ G(T \ {x}) \in Nat
      <4> DEFINE U == T \ {x}
      <4>1. IsFiniteSet(U) /\ \A y \in U : f[y] \in Nat /\ g[y] \in Nat
        BY <3>3
      <4> HIDE DEF U
      <4>2. SumFunctionOnSet(f, U) \in Nat /\ SumFunctionOnSet(g, U) \in Nat
        BY <4>1, SumPicks
      <4> QED
        BY <4>2 DEF U
    <3>5. a * F(T \ {x}) <= b * G(T \ {x}) + c * Cardinality(T \ {x})
      BY <1>1, <3>1
    <3>6. f[x] \in Nat /\ g[x] \in Nat /\ a * f[x] <= b * g[x] + c
      OBVIOUS
    <3> HIDE DEF F, G
    <3>7. \A u, v, p, q, n \in Nat :
             a * u <= b * v + c /\ a * p <= b * q + c * n
             => a * (u + p) <= b * (v + q) + c * (n + 1)
      OBVIOUS
    <3>8. a * (f[x] + F(T \ {x})) <= b * (g[x] + G(T \ {x})) + c * (Cardinality(T \ {x}) + 1)
      BY <3>3, <3>4, <3>5, <3>6, <3>7
    <3>9. Cardinality(T \ {x}) + 1 = Cardinality(T)
      BY <3>3
    <3> QED
      BY <3>2, <3>8, <3>9
  <2> QED
    BY <2>2, <2>3
<1> HIDE DEF P
<1>2. P \in SUBSET (SUBSET S)
  BY DEF P
<1>3. P = SUBSET S
  BY <1>1, <1>2, SubsetsByInduction
<1> QED
  BY <1>3 DEF P

\* The sum over a part is at most the sum over the whole.
LEMMA SumOfPart ==
  ASSUME NEW S, IsFiniteSet(S), NEW f, \A x \in S : f[x] \in Nat, NEW U \in SUBSET S
  PROVE  SumFunctionOnSet(f, U) <= SumFunctionOnSet(f, S)
<1> DEFINE P == {T \in SUBSET S : U \subseteq T => SumFunctionOnSet(f, U) <= SumFunctionOnSet(f, T)}
<1>0. SumFunctionOnSet(f, U) \in Nat
  <2>1. IsFiniteSet(U) /\ \A x \in U : f[x] \in Nat
    BY FS_Subset
  <2> QED
    BY <2>1, SumPicks
<1>1. ASSUME NEW T \in SUBSET S, \A x \in T : T \ {x} \in P
      PROVE  T \in P
  <2>1. IsFiniteSet(T) /\ \A x \in T : f[x] \in Nat
    BY FS_Subset
  <2>2. CASE T \subseteq U
    <3>1. U \subseteq T => U = T
      BY <2>2
    <3> QED
      BY <1>0, <3>1
  <2>3. CASE ~ (T \subseteq U)
    <3>1. PICK x \in T : x \notin U
      BY <2>3
    <3>2. SumFunctionOnSet(f, T) = f[x] + SumFunctionOnSet(f, T \ {x}) /\ f[x] \in Nat
      BY <2>1, <3>1, SumPicks
    <3>3. SumFunctionOnSet(f, T \ {x}) \in Nat
      <4> DEFINE V == T \ {x}
      <4>1. IsFiniteSet(V) /\ \A y \in V : f[y] \in Nat
        BY <2>1, FS_Subset
      <4> HIDE DEF V
      <4>2. SumFunctionOnSet(f, V) \in Nat
        BY <4>1, SumPicks
      <4> QED
        BY <4>2 DEF V
    <3>4. U \subseteq T => SumFunctionOnSet(f, U) <= SumFunctionOnSet(f, T \ {x})
      BY <1>1, <3>1
    <3>5. U \subseteq T => SumFunctionOnSet(f, U) <= SumFunctionOnSet(f, T)
      BY <1>0, <3>2, <3>3, <3>4
    <3> QED
      BY <3>5
  <2> QED
    BY <2>2, <2>3
<1> HIDE DEF P
<1>2. P \in SUBSET (SUBSET S)
  BY DEF P
<1>3. P = SUBSET S
  BY <1>1, <1>2, SubsetsByInduction
<1> QED
  BY <1>3 DEF P

=============================================================================
