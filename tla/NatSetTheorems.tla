---------------------------- MODULE NatSetTheorems ----------------------------
(* Least and greatest elements of sets of natural numbers, folds over finite *)
(* sets, and sums.                                                           *)
EXTENDS FiniteSetsExt, FiniteSetTheorems, WellFoundedInduction, TLAPS

\* Every non-empty set of naturals has a least element, and Min finds it.
LEMMA MinIn ==
  ASSUME NEW S \in SUBSET Nat, S # {}
  PROVE  Min(S) \in S /\ \A y \in S : Min(S) <= y
<1> DEFINE R == {ss \in Nat \X Nat : ss[1] < ss[2]}
<1>1. IsWellFoundedOn(R, Nat)
  BY NatLessThanWellFounded DEF OpToRel
<1>2. \A x, y \in Nat : <<y, x>> \notin R => x <= y
  OBVIOUS
<1> HIDE DEF R
<1>3. \E x \in S : \A y \in S : ~ (<<y, x>> \in R)
  BY <1>1, WFMin
<1>4. \E x \in S : \A y \in S : x <= y
  BY <1>2, <1>3
<1> QED BY <1>4 DEF Min

\* A set has a greatest element.
HasMax(S) == \E x \in S : \A y \in S : x >= y

\* Every non-empty finite set of naturals has a greatest element: a smallest
\* counterexample would have one after losing an element.
LEMMA MaxExists ==
  ASSUME NEW S \in SUBSET Nat, IsFiniteSet(S), S # {}
  PROVE  HasMax(S)
<1> DEFINE Bad(A) == A \in SUBSET Nat /\ IsFiniteSet(A) /\ A # {} /\ ~HasMax(A)
           N == {n \in Nat : \E A : Bad(A) /\ Cardinality(A) = n}
<1>1. SUFFICES ASSUME ~HasMax(S) PROVE FALSE
  OBVIOUS
<1>2. N # {}
  BY <1>1, FS_CardinalityType
<1>3. PICK n \in N : \A m \in N : n <= m
  BY <1>2, MinIn
<1>4. PICK A : Bad(A) /\ Cardinality(A) = n
  BY <1>3
<1>5. PICK a \in A : TRUE
  BY <1>4
<1> DEFINE B == A \ {a}
<1>6. IsFiniteSet(B) /\ Cardinality(B) = n - 1 /\ B \in SUBSET Nat
  BY <1>4, <1>5, FS_RemoveElement
<1>7. ~Bad(B)
  BY <1>3, <1>6, FS_CardinalityType
<1>8. CASE B = {}
  <2>1. A = {a}
    BY <1>5, <1>8
  <2> QED BY <1>4, <2>1 DEF HasMax
<1>9. CASE HasMax(B)
  <2>1. PICK b \in B : \A y \in B : b >= y
    BY <1>9 DEF HasMax
  <2>2. CASE a >= b
    <3>1. \A y \in A : a >= y
      BY <1>4, <1>5, <2>1, <2>2
    <3> QED BY <1>4, <1>5, <3>1 DEF HasMax
  <2>3. CASE ~(a >= b)
    <3>1. \A y \in A : b >= y
      BY <1>4, <1>5, <2>1, <2>3
    <3> QED BY <1>4, <2>1, <3>1 DEF HasMax
  <2> QED BY <2>2, <2>3
<1> QED BY <1>6, <1>7, <1>8, <1>9

\* Max finds the greatest element.
LEMMA MaxIn ==
  ASSUME NEW S \in SUBSET Nat, IsFiniteSet(S), S # {}
  PROVE  Max(S) \in S /\ \A y \in S : y <= Max(S)
<1>1. \E x \in S : \A y \in S : x >= y
  BY MaxExists DEF HasMax
<1>2. Max(S) \in S /\ \A y \in S : Max(S) >= y
  BY <1>1 DEF Max
<1> QED BY <1>2

\* A fold over the subsets of a finite set, which takes elements out in the order of
\* pick and is b for the empty set.
IsFold(g, P, pick, b, F) ==
  \A S \in P : g[S] = IF S = {} THEN b ELSE F[<<pick[S], g[S \ {pick[S]}]>>]

\* Every fold exists: a smallest size for which there is none would follow from the
\* one below.
LEMMA FoldExists ==
  ASSUME NEW D, IsFiniteSet(D), NEW pick, \A S \in SUBSET D : S # {} => pick[S] \in S,
         NEW V, NEW b \in V, NEW F \in [D \X V -> V]
  PROVE  \E g \in [SUBSET D -> V] : IsFold(g, SUBSET D, pick, b, F)
<1> DEFINE Upto(n) == {S \in SUBSET D : Cardinality(S) <= n}
           Good(n) == \E g \in [Upto(n) -> V] : IsFold(g, Upto(n), pick, b, F)
           N == {n \in Nat : ~Good(n)}
<1>1. \A S \in SUBSET D : IsFiniteSet(S) /\ Cardinality(S) \in Nat /\ Cardinality(S) <= Cardinality(D)
  BY FS_Subset, FS_CardinalityType
<1>2. \A S \in SUBSET D : S # {} =>
        S \ {pick[S]} \in SUBSET D /\ Cardinality(S \ {pick[S]}) = Cardinality(S) - 1
  BY <1>1, FS_RemoveElement
<1> HIDE DEF Good
<1>3. \A n \in Nat : Good(n)
  <2> SUFFICES ASSUME N # {} PROVE FALSE
    OBVIOUS
  <2>1. PICK n \in Nat : ~Good(n) /\ \A m \in Nat : ~Good(m) => n <= m
    BY MinIn
  <2>2. n # 0
    <3>1. \A S \in Upto(0) : S = {}
      BY <1>1, FS_EmptySet
    <3>2. IsFold([S \in Upto(0) |-> b], Upto(0), pick, b, F) /\ [S \in Upto(0) |-> b] \in [Upto(0) -> V]
      BY <3>1 DEF IsFold
    <3>3. Good(0)
      BY <3>2 DEF Good
    <3> QED BY <2>1, <3>3
  <2>3. n - 1 \in Nat /\ Good(n - 1)
    BY <2>1, <2>2
  <2>4. PICK g \in [Upto(n - 1) -> V] : IsFold(g, Upto(n - 1), pick, b, F)
    BY <2>3 DEF Good
  <2> DEFINE h == [S \in Upto(n) |-> IF S = {} THEN b ELSE F[<<pick[S], g[S \ {pick[S]}]>>]]
  <2>5. \A S \in Upto(n) : S # {} => S \ {pick[S]} \in Upto(n - 1) /\ pick[S] \in D
    BY <1>1, <1>2, <2>1
  <2>6. \A S \in Upto(n) : S # {} => F[<<pick[S], g[S \ {pick[S]}]>>] \in V
    BY <2>5
  <2>7. h \in [Upto(n) -> V]
    BY <2>6
  <2>8. \A S \in Upto(n - 1) : S \in Upto(n) /\ h[S] = g[S]
    BY <1>1, <2>1, <2>4, SMTT(40) DEF IsFold
  <2>9. \A S \in Upto(n) : h[S] = IF S = {} THEN b ELSE F[<<pick[S], h[S \ {pick[S]}]>>]
    BY <2>5, <2>8
  <2> HIDE DEF h
  <2>10. Good(n)
    BY <2>7, <2>9 DEF IsFold, Good
  <2> QED BY <2>1, <2>10
<1>4. Cardinality(D) \in Nat /\ Upto(Cardinality(D)) = SUBSET D
  BY <1>1
<1>5. PICK g \in [Upto(Cardinality(D)) -> V] : IsFold(g, Upto(Cardinality(D)), pick, b, F)
  BY <1>3, <1>4 DEF Good
<1> HIDE DEF Upto
<1>6. g \in [SUBSET D -> V] /\ IsFold(g, SUBSET D, pick, b, F)
  BY <1>4, <1>5
<1> QED BY <1>6

\* A step of a fold keeps what is recorded of the sets and their results.
FoldKeeps(g, P, pick, F, Holds) ==
  \A S \in P : S # {} /\ <<S \ {pick[S]}, g[S \ {pick[S]}]>> \in Holds =>
              <<S, F[<<pick[S], g[S \ {pick[S]}]>>]>> \in Holds

\* What holds of the empty set and is kept by every element holds of a fold: there
\* is no smallest set for which it does not.
LEMMA FoldInvariant ==
  ASSUME NEW D, IsFiniteSet(D), NEW pick, \A S \in SUBSET D : S # {} => pick[S] \in S,
         NEW b, NEW F, NEW g, IsFold(g, SUBSET D, pick, b, F),
         NEW Holds, <<{}, b>> \in Holds, FoldKeeps(g, SUBSET D, pick, F, Holds)
  PROVE  \A S \in SUBSET D : <<S, g[S]>> \in Holds
<1> DEFINE Bad == {S \in SUBSET D : <<S, g[S]>> \notin Holds}
           N == {Cardinality(S) : S \in Bad}
<1>1. SUFFICES ASSUME Bad # {} PROVE FALSE
  OBVIOUS
<1>2. \A S \in SUBSET D : IsFiniteSet(S) /\ Cardinality(S) \in Nat
  BY FS_Subset, FS_CardinalityType
<1>3. PICK n \in N : \A m \in N : n <= m
  <2>1. N \in SUBSET Nat /\ N # {}
    BY <1>1, <1>2
  <2> HIDE DEF N
  <2> QED BY <2>1, MinIn
<1>4. PICK S \in Bad : Cardinality(S) = n
  BY <1>3
<1>5. S # {}
  BY <1>4 DEF IsFold
<1> DEFINE R == S \ {pick[S]}
<1>6. R \in SUBSET D /\ Cardinality(R) = Cardinality(S) - 1
  BY <1>2, <1>4, <1>5, FS_RemoveElement
<1>7. R \notin Bad
  <2>1. R \in Bad => Cardinality(R) \in N
    OBVIOUS
  <2>2. ~(n <= Cardinality(R))
    BY <1>2, <1>4, <1>6
  <2> QED BY <1>3, <2>1, <2>2
<1> QED BY <1>4, <1>5, <1>6, <1>7 DEF IsFold, FoldKeeps

-----------------------------------------------------------------------------
(* Sums of the values of a function over a finite set *)

SumOver(f, S) == MapThenSumSet(LAMBDA k : f[k], S)

\* The fold behind SumOver().
SumFn(f, S) ==
  CHOOSE iter : iter = [s \in SUBSET S |->
    IF s = {} THEN 0 ELSE f[CHOOSE x \in s : TRUE] + iter[s \ {CHOOSE x \in s : TRUE}]]

\* A sum is the value of the fold behind it.
LEMMA SumOverFn == ASSUME NEW f, NEW S PROVE SumOver(f, S) = SumFn(f, S)[S]
  BY DEF SumOver, MapThenSumSet, MapThenFoldSet, SumFn

\* What holds of the empty set, and of a set if it holds of all that lack one of its
\* elements, holds of every finite set.
LEMMA SubsetInduction ==
  ASSUME NEW D, IsFiniteSet(D), NEW Good, {} \in Good,
         \A S \in SUBSET D : S # {} /\ (\A d \in S : S \ {d} \in Good) => S \in Good
  PROVE  \A S \in SUBSET D : S \in Good
<1> DEFINE Bad == {S \in SUBSET D : S \notin Good}
           N == {Cardinality(S) : S \in Bad}
<1>1. SUFFICES ASSUME Bad # {} PROVE FALSE
  OBVIOUS
<1>2. \A S \in SUBSET D : IsFiniteSet(S) /\ Cardinality(S) \in Nat
  BY FS_Subset, FS_CardinalityType
<1>3. PICK n \in N : \A m \in N : n <= m
  <2>1. N \in SUBSET Nat /\ N # {}
    BY <1>1, <1>2
  <2> HIDE DEF N
  <2> QED BY <2>1, MinIn
<1>4. PICK S \in Bad : Cardinality(S) = n
  BY <1>3
<1>5. PICK d \in S : S \ {d} \notin Good
  BY <1>4
<1>6. S \ {d} \in SUBSET D /\ Cardinality(S \ {d}) = Cardinality(S) - 1
  BY <1>2, <1>4, <1>5, FS_RemoveElement
<1>7. S \ {d} \in Bad
  BY <1>5, <1>6
<1>8. Cardinality(S \ {d}) \in N
  BY <1>7
<1>9. ~(n <= Cardinality(S \ {d}))
  BY <1>2, <1>4, <1>6
<1> QED BY <1>3, <1>8, <1>9

\* What adds up f over the subsets of D, whatever the order.
IsSumFn(f, D, h) ==
  /\ h \in [SUBSET D -> Int] /\ h[{}] = 0
  /\ \A S \in SUBSET D : \A d \in S : h[S] = f[d] + h[S \ {d}]

\* The fold adds the value of any element to the sum of the others.
LEMMA SumFnIs ==
  ASSUME NEW D, IsFiniteSet(D), NEW f, \A x \in D : f[x] \in Int
  PROVE  IsSumFn(f, D, SumFn(f, D))
<1> DEFINE pick == [S \in SUBSET D |-> CHOOSE x \in S : TRUE]
           F == [p \in D \X Int |-> f[p[1]] + p[2]]
<1>1. \A S \in SUBSET D : pick[S] = (CHOOSE x \in S : TRUE) /\ (S # {} => pick[S] \in S)
  OBVIOUS
<1>2. F \in [D \X Int -> Int]
  OBVIOUS
<1>3. \A d \in D, v \in Int : F[<<d, v>>] = f[d] + v
  OBVIOUS
<1> HIDE DEF F
<1>4. PICK g \in [SUBSET D -> Int] : IsFold(g, SUBSET D, pick, 0, F)
  <2> HIDE DEF pick
  <2>1. \A S \in SUBSET D : S # {} => pick[S] \in S
    BY <1>1
  <2>2. 0 \in Int
    OBVIOUS
  <2> QED BY <1>2, <2>1, <2>2, FoldExists, Zenon
<1>5. \A S \in SUBSET D : S # {} => g[S] = f[CHOOSE x \in S : TRUE] + g[S \ {CHOOSE x \in S : TRUE}]
  <2> SUFFICES ASSUME NEW S \in SUBSET D, S # {}
               PROVE  g[S] = f[CHOOSE x \in S : TRUE] + g[S \ {CHOOSE x \in S : TRUE}]
    OBVIOUS
  <2> DEFINE p == CHOOSE x \in S : TRUE
  <2>1. p \in S /\ pick[S] = p
    BY <1>1
  <2> HIDE DEF p, pick
  <2>2. g[S \ {p}] \in Int /\ g[S] = F[<<p, g[S \ {p}]>>]
    BY <1>4, <2>1 DEF IsFold
  <2> QED BY <1>3, <2>1, <2>2 DEF p
<1>6. g[{}] = 0
  BY <1>4 DEF IsFold
<1> HIDE DEF pick
<1> DEFINE G(it) == [s \in SUBSET D |-> IF s = {} THEN 0 ELSE f[CHOOSE x \in s : TRUE] + it[s \ {CHOOSE x \in s : TRUE}]]
<1>7. g = G(g)
  <2>1. \A S \in SUBSET D : G(g)[S] = g[S]
    BY <1>5, <1>6
  <2> QED BY <2>1
<1>8. SumFn(f, D) = G(SumFn(f, D))
  BY <1>7 DEF SumFn
<1> DEFINE h == SumFn(f, D)
<1> HIDE DEF h
<1>9. h[{}] = 0 /\ \A S \in SUBSET D : S # {} => h[S] = f[CHOOSE x \in S : TRUE] + h[S \ {CHOOSE x \in S : TRUE}]
  BY <1>8 DEF h
<1>10. \A S \in SUBSET D : h[S] \in Int
  <2> DEFINE Good == {S \in SUBSET D : h[S] \in Int}
  <2>1. {} \in Good
    BY <1>9
  <2>2. ASSUME NEW S \in SUBSET D, S # {}, \A d \in S : S \ {d} \in Good PROVE S \in Good
    <3>1. PICK d \in S : d = CHOOSE x \in S : TRUE
      BY <2>2
    <3>2. h[S] = f[d] + h[S \ {d}]
      BY <1>9, <2>2, <3>1
    <3>3. h[S \ {d}] \in Int /\ f[d] \in Int
      BY <2>2
    <3> QED BY <3>2, <3>3
  <2> HIDE DEF Good
  <2>3. \A S \in SUBSET D : S \in Good
    BY <2>1, <2>2, SubsetInduction
  <2> QED BY <2>3 DEF Good
<1>11. h \in [SUBSET D -> Int]
  <2>1. h = G(h)
    BY <1>8 DEF h
  <2>2. DOMAIN h = SUBSET D /\ h = [S \in SUBSET D |-> h[S]]
    BY <2>1
  <2> QED BY <1>10, <2>2
<1>12. \A S \in SUBSET D : \A d \in S : h[S] = f[d] + h[S \ {d}]
  <2> DEFINE Good == {S \in SUBSET D : \A d \in S : h[S] = f[d] + h[S \ {d}]}
  <2>1. {} \in Good
    OBVIOUS
  <2>2. ASSUME NEW S \in SUBSET D, S # {}, \A d \in S : S \ {d} \in Good PROVE S \in Good
    <3>1. PICK c \in S : c = CHOOSE x \in S : TRUE
      BY <2>2
    <3>2. h[S] = f[c] + h[S \ {c}]
      BY <1>9, <2>2, <3>1
    <3>3. ASSUME NEW d \in S, d # c PROVE h[S] = f[d] + h[S \ {d}]
      <4>1. h[S \ {c}] = f[d] + h[(S \ {c}) \ {d}]
        BY <2>2, <3>3
      <4>2. h[S \ {d}] = f[c] + h[(S \ {d}) \ {c}]
        BY <2>2, <3>3
      <4>3. (S \ {c}) \ {d} = (S \ {d}) \ {c}
        OBVIOUS
      <4>4. f[c] \in Int /\ f[d] \in Int /\ h[(S \ {c}) \ {d}] \in Int
        BY <1>10, <2>2, <3>1, <3>3
      <4>5. h[(S \ {d}) \ {c}] = h[(S \ {c}) \ {d}]
        BY <4>3
      <4> QED BY <3>2, <4>1, <4>2, <4>4, <4>5
    <3> QED BY <3>2, <3>3
  <2> HIDE DEF Good
  <2>3. \A S \in SUBSET D : S \in Good
    BY <2>1, <2>2, SubsetInduction
  <2> QED BY <2>3 DEF Good
<1> QED BY <1>9, <1>11, <1>12 DEF h, IsSumFn

\* The fold over a smaller set has the same values.
LEMMA SumFnSame ==
  ASSUME NEW D, IsFiniteSet(D), NEW f, \A x \in D : f[x] \in Int, NEW E \in SUBSET D
  PROVE  SumFn(f, E)[E] = SumFn(f, D)[E]
<1> DEFINE Good == {S \in SUBSET E : SumFn(f, D)[S] = SumFn(f, E)[S]}
<1>1. IsFiniteSet(E) /\ \A x \in E : f[x] \in Int
  BY FS_Subset
<1>2. IsSumFn(f, D, SumFn(f, D))
  BY SumFnIs
<1>3. IsSumFn(f, E, SumFn(f, E))
  BY <1>1, SumFnIs
<1>4. {} \in Good
  BY <1>2, <1>3 DEF IsSumFn
<1>5. ASSUME NEW S \in SUBSET E, S # {}, \A x \in S : S \ {x} \in Good PROVE S \in Good
  <2>1. PICK x \in S : TRUE
    BY <1>5
  <2>2. SumFn(f, D)[S] = f[x] + SumFn(f, D)[S \ {x}]
    BY <1>2, <2>1 DEF IsSumFn
  <2>3. SumFn(f, E)[S] = f[x] + SumFn(f, E)[S \ {x}]
    BY <1>3, <2>1 DEF IsSumFn
  <2>4. SumFn(f, D)[S \ {x}] = SumFn(f, E)[S \ {x}]
    BY <1>5, <2>1
  <2> QED BY <2>2, <2>3, <2>4
<1> HIDE DEF Good
<1>6. \A S \in SUBSET E : S \in Good
  BY <1>1, <1>4, <1>5, SubsetInduction
<1> QED BY <1>6 DEF Good

\* A sum is the value of any element and the sum of the others.
LEMMA SumRemove ==
  ASSUME NEW D, IsFiniteSet(D), NEW f, \A x \in D : f[x] \in Int
  PROVE  SumOver(f, D) \in Int /\ \A d \in D : SumOver(f, D) = f[d] + SumOver(f, D \ {d})
<1>1. IsSumFn(f, D, SumFn(f, D))
  BY SumFnIs
<1>2. SumOver(f, D) = SumFn(f, D)[D] /\ SumFn(f, D)[D] \in Int
  BY <1>1, SumOverFn DEF IsSumFn
<1>3. ASSUME NEW d \in D PROVE SumOver(f, D) = f[d] + SumOver(f, D \ {d})
  <2>1. SumOver(f, D \ {d}) = SumFn(f, D \ {d})[D \ {d}]
    BY SumOverFn
  <2>2. SumFn(f, D \ {d})[D \ {d}] = SumFn(f, D)[D \ {d}]
    <3>1. D \ {d} \in SUBSET D
      OBVIOUS
    <3> QED BY <3>1, SumFnSame, Zenon
  <2>3. SumFn(f, D)[D] = f[d] + SumFn(f, D)[D \ {d}]
    BY <1>1 DEF IsSumFn
  <2> QED BY <1>2, <2>1, <2>2, <2>3
<1> QED BY <1>2, <1>3

\* Nothing adds up to zero.
LEMMA SumEmpty == ASSUME NEW f PROVE SumOver(f, {}) = 0
<1>1. IsFiniteSet({})
  BY FS_EmptySet
<1> QED BY <1>1, SumOverFn, SumFnIs DEF IsSumFn

\* Sums add.
LEMMA SumAdd ==
  ASSUME NEW D, IsFiniteSet(D), NEW f, NEW g, NEW h,
         \A x \in D : f[x] \in Int /\ g[x] \in Int /\ h[x] = f[x] + g[x]
  PROVE  SumOver(h, D) = SumOver(f, D) + SumOver(g, D)
<1> DEFINE Good == {S \in SUBSET D : SumOver(h, S) = SumOver(f, S) + SumOver(g, S)}
<1>1. {} \in Good
  BY SumEmpty
<1>2. ASSUME NEW S \in SUBSET D, S # {}, \A d \in S : S \ {d} \in Good PROVE S \in Good
  <2>1. PICK d \in S : TRUE
    BY <1>2
  <2>2. IsFiniteSet(S) /\ IsFiniteSet(S \ {d})
    BY FS_Subset
  <2>3. /\ SumOver(f, S) = f[d] + SumOver(f, S \ {d}) /\ SumOver(g, S) = g[d] + SumOver(g, S \ {d})
        /\ SumOver(h, S) = h[d] + SumOver(h, S \ {d})
    <3>1. \A x \in S : f[x] \in Int /\ g[x] \in Int /\ h[x] \in Int
      OBVIOUS
    <3> QED BY <2>2, <3>1, SumRemove
  <2>4. SumOver(f, S \ {d}) \in Int /\ SumOver(g, S \ {d}) \in Int
    <3>1. \A x \in S \ {d} : f[x] \in Int /\ g[x] \in Int
      OBVIOUS
    <3> QED BY <2>2, <3>1, SumRemove
  <2>5. SumOver(h, S \ {d}) = SumOver(f, S \ {d}) + SumOver(g, S \ {d})
    BY <1>2, <2>1
  <2>6. f[d] \in Int /\ g[d] \in Int /\ h[d] = f[d] + g[d]
    BY <2>1
  <2> QED BY <2>3, <2>4, <2>5, <2>6
<1> HIDE DEF Good
<1>3. \A S \in SUBSET D : S \in Good
  BY <1>1, <1>2, SubsetInduction
<1> QED BY <1>3 DEF Good

\* Values that are all zero add up to zero.
LEMMA SumZero ==
  ASSUME NEW D, IsFiniteSet(D), NEW f, \A x \in D : f[x] = 0
  PROVE  SumOver(f, D) = 0
<1> DEFINE Good == {S \in SUBSET D : SumOver(f, S) = 0}
<1>1. {} \in Good
  BY SumEmpty
<1>2. ASSUME NEW S \in SUBSET D, S # {}, \A d \in S : S \ {d} \in Good PROVE S \in Good
  <2>1. PICK d \in S : TRUE
    BY <1>2
  <2>2. IsFiniteSet(S) /\ \A x \in S : f[x] \in Int
    BY FS_Subset
  <2>3. SumOver(f, S) = f[d] + SumOver(f, S \ {d})
    BY <2>2, SumRemove
  <2> QED BY <1>2, <2>1, <2>3
<1> HIDE DEF Good
<1>3. \A S \in SUBSET D : S \in Good
  BY <1>1, <1>2, SubsetInduction
<1> QED BY <1>3 DEF Good

\* A sum of natural numbers is one.
LEMMA SumNat ==
  ASSUME NEW D, IsFiniteSet(D), NEW f, \A x \in D : f[x] \in Nat
  PROVE  SumOver(f, D) \in Nat
<1> DEFINE Good == {S \in SUBSET D : SumOver(f, S) \in Nat}
<1>1. {} \in Good
  BY SumEmpty
<1>2. ASSUME NEW S \in SUBSET D, S # {}, \A d \in S : S \ {d} \in Good PROVE S \in Good
  <2>1. PICK d \in S : TRUE
    BY <1>2
  <2>2. IsFiniteSet(S) /\ \A x \in S : f[x] \in Int
    BY FS_Subset
  <2>3. SumOver(f, S) = f[d] + SumOver(f, S \ {d})
    BY <2>2, SumRemove
  <2>4. f[d] \in Nat /\ SumOver(f, S \ {d}) \in Nat
    BY <1>2, <2>1
  <2> QED BY <2>3, <2>4
<1> HIDE DEF Good
<1>3. \A S \in SUBSET D : S \in Good
  BY <1>1, <1>2, SubsetInduction
<1> QED BY <1>3 DEF Good

\* One value changes.
LEMMA SumUpdate ==
  ASSUME NEW D, IsFiniteSet(D), NEW f, NEW g, NEW d \in D,
         \A x \in D : f[x] \in Int /\ g[x] \in Int, \A x \in D \ {d} : g[x] = f[x]
  PROVE  SumOver(g, D) = SumOver(f, D) - f[d] + g[d]
<1>1. IsFiniteSet(D \ {d})
  BY FS_Subset
<1>2. SumOver(f, D) = f[d] + SumOver(f, D \ {d}) /\ SumOver(g, D) = g[d] + SumOver(g, D \ {d})
  BY SumRemove
<1> DEFINE z == [x \in D |-> 0]
<1>3. SumOver(g, D \ {d}) = SumOver(f, D \ {d}) + SumOver(z, D \ {d})
  <2>1. \A x \in D \ {d} : f[x] \in Int /\ z[x] \in Int /\ g[x] = f[x] + z[x]
    OBVIOUS
  <2> HIDE DEF z
  <2> QED BY <1>1, <2>1, SumAdd
<1>4. SumOver(z, D \ {d}) = 0
  <2>1. \A x \in D \ {d} : z[x] = 0
    OBVIOUS
  <2> HIDE DEF z
  <2> QED BY <1>1, <2>1, SumZero
<1>5. SumOver(f, D \ {d}) \in Int
  BY <1>1, SumRemove
<1> QED BY <1>2, <1>3, <1>4, <1>5

\* What is left out of a sum may as well be zero.
LEMMA SumFilter ==
  ASSUME NEW D, IsFiniteSet(D), NEW S \in SUBSET D, NEW f, NEW g,
         \A x \in S : f[x] \in Int /\ g[x] = f[x], \A x \in D \ S : g[x] = 0
  PROVE  SumOver(f, S) = SumOver(g, D)
<1> DEFINE Good == {X \in SUBSET D : SumOver(f, X \cap S) = SumOver(g, X)}
<1>1. {} \in Good
  <2>1. {} \cap S = {} /\ {} \in SUBSET D
    OBVIOUS
  <2> QED BY <2>1, SumEmpty
<1>2. ASSUME NEW X \in SUBSET D, X # {}, \A d \in X : X \ {d} \in Good PROVE X \in Good
  <2>1. PICK d \in X : TRUE
    BY <1>2
  <2>2. IsFiniteSet(X) /\ IsFiniteSet(X \cap S)
    <3>1. X \cap S \in SUBSET D
      OBVIOUS
    <3> QED BY <3>1, FS_Subset
  <2>3. (\A x \in X : g[x] \in Int) /\ (\A x \in X \cap S : f[x] \in Int)
    OBVIOUS
  <2>4. SumOver(g, X) = g[d] + SumOver(g, X \ {d})
    BY <2>1, <2>2, <2>3, SumRemove
  <2>5. SumOver(f, (X \ {d}) \cap S) = SumOver(g, X \ {d})
    BY <1>2, <2>1
  <2>6. SumOver(g, X \ {d}) \in Int
    <3>1. IsFiniteSet(X \ {d}) /\ \A x \in X \ {d} : g[x] \in Int
      BY <2>2, <2>3, FS_Subset
    <3> QED BY <3>1, SumRemove
  <2>7. CASE d \in S
    <3>1. SumOver(f, X \cap S) = f[d] + SumOver(f, (X \cap S) \ {d})
      BY <2>1, <2>2, <2>3, <2>7, SumRemove
    <3>2. (X \cap S) \ {d} = (X \ {d}) \cap S
      OBVIOUS
    <3> QED BY <2>4, <2>5, <2>7, <3>1, <3>2
  <2>8. CASE d \notin S
    <3>1. (X \ {d}) \cap S = X \cap S
      BY <2>8
    <3>2. g[d] = 0
      BY <2>1, <2>8
    <3>3. SumOver(g, X) = SumOver(g, X \ {d})
      BY <2>4, <2>6, <3>2
    <3>4. SumOver(f, X \cap S) = SumOver(g, X \ {d})
      BY <2>5, <3>1
    <3> QED BY <3>3, <3>4
  <2> QED BY <2>7, <2>8
<1> HIDE DEF Good
<1>3. \A X \in SUBSET D : X \in Good
  BY <1>1, <1>2, SubsetInduction
<1>4. SumOver(f, D \cap S) = SumOver(g, D)
  BY <1>3 DEF Good
<1>5. D \cap S = S
  OBVIOUS
<1> QED BY <1>4, <1>5
=============================================================================
