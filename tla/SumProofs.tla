------------------------------ MODULE SumProofs ------------------------------
(***************************************************************************)
(* Facts about what folds over finite sets compute.  A sum of natural      *)
(* numbers is the number of elements of a disjoint union: what is known of *)
(* the size of finite sets tells all about it, without an induction of its *)
(* own, and whatever order a fold takes the elements in.                   *)
(***************************************************************************)
EXTENDS Integers, FiniteSets, FiniteSetTheorems, WellFoundedInduction, TLAPS

\* The sum of f over S, as the size of as many items for each x as f[x] says.
Items(f, S) == UNION {{x} \X (1..f[x]) : x \in S}
SumOver(f, S) == Cardinality(Items(f, S))

\* A set of natural numbers has a least element.
LEMMA LeastNat ==
    ASSUME NEW T, T \subseteq Nat, T # {}
    PROVE  \E x \in T : \A y \in T : x <= y
<1> DEFINE less == {ss \in Nat \X Nat : ss[1] < ss[2]}
<1>1. IsWellFoundedOn(less, Nat)
  BY NatLessThanWellFounded DEF OpToRel
<1> HIDE DEF less
<1>2. PICK x \in T : \A y \in T : ~(<<y, x>> \in less)
  BY <1>1, WFMin
<1>3. ASSUME NEW y \in T PROVE x <= y
  <2>1. <<y, x>> \in Nat \X Nat => ~(y < x)
    BY <1>2 DEF less
  <2> QED BY <2>1
<1> QED BY <1>3

\* Of some finite sets, one is the smallest.
LEMMA SmallestSet ==
    ASSUME NEW U, U # {}, \A T \in U : IsFiniteSet(T)
    PROVE  \E T \in U : \A V \in U : Cardinality(T) <= Cardinality(V)
<1> DEFINE N == {Cardinality(T) : T \in U}
<1>1. N \subseteq Nat /\ N # {}
  BY FS_CardinalityType
<1>2. PICK n \in N : \A m \in N : n <= m
  BY <1>1, LeastNat
<1> QED BY <1>2

-----------------------------------------------------------------------------
(* Sums.                                                                   *)

\* What finite sets have together is finite, and the images of one are finite.
LEMMA FiniteFamily ==
    ASSUME NEW S, IsFiniteSet(S), NEW A, \A x \in S : IsFiniteSet(A[x])
    PROVE  IsFiniteSet(UNION {A[x] : x \in S})
<1> DEFINE V == {A[x] : x \in S}
           g == [x \in S |-> A[x]]
<1>1. g \in Surjection(S, V)
  BY DEF Surjection
<1>2. IsFiniteSet(V)
  BY <1>1, FS_Surjection
<1>3. \A T \in V : IsFiniteSet(T)
  OBVIOUS
<1> HIDE DEF V
<1>4. IsFiniteSet(UNION V)
  BY <1>2, <1>3, FS_UNION
<1> QED BY <1>4 DEF V

\* The items of a sum are finitely many.
LEMMA ItemsFinite ==
    ASSUME NEW S, IsFiniteSet(S), NEW f, \A x \in S : f[x] \in Nat
    PROVE  IsFiniteSet(Items(f, S)) /\ SumOver(f, S) \in Nat
<1> DEFINE A == [x \in S |-> {x} \X (1..f[x])]
<1>1. ASSUME NEW x \in S PROVE IsFiniteSet(A[x])
  <2>0. 1 \in Int /\ f[x] \in Int
    OBVIOUS
  <2>1. IsFiniteSet({x})
    BY FS_Singleton
  <2>2. IsFiniteSet(1..f[x])
    BY <2>0, FS_Interval
  <2> QED BY <2>1, <2>2, FS_Product
<1>2. Items(f, S) = UNION {A[x] : x \in S}
  BY DEF Items
<1> HIDE DEF A
<1>3. IsFiniteSet(Items(f, S))
  BY <1>1, <1>2, FiniteFamily
<1> QED BY <1>3, FS_CardinalityType DEF SumOver

\* The sum of nothing.
LEMMA SumOfNone == \A f : SumOver(f, {}) = 0
<1>1. \A f : Items(f, {}) = {}
  BY DEF Items
<1> QED BY <1>1, FS_EmptySet DEF SumOver

\* One element more.
LEMMA SumStep ==
    ASSUME NEW S, IsFiniteSet(S), NEW f, \A x \in S : f[x] \in Nat, NEW x \in S
    PROVE  SumOver(f, S) = f[x] + SumOver(f, S \ {x})
<1> DEFINE one == {x} \X (1..f[x])
           rest == Items(f, S \ {x})
<1>1. Items(f, S) = one \cup rest
  BY DEF Items
<1>2. one \cap rest = {}
  BY DEF Items
<1>3. IsFiniteSet(rest) /\ Cardinality(rest) \in Nat
  <2>1. IsFiniteSet(S \ {x})
    BY FS_RemoveElement
  <2> QED BY <2>1, ItemsFinite DEF SumOver
<1>4. IsFiniteSet(one) /\ Cardinality(one) = f[x]
  <2>1. IsFiniteSet({x}) /\ Cardinality({x}) = 1
    BY FS_Singleton
  <2>2. IsFiniteSet(1..f[x]) /\ Cardinality(1..f[x]) = f[x]
    BY FS_Interval
  <2>3. Cardinality(one) = 1 * f[x] /\ IsFiniteSet(one)
    BY <2>1, <2>2, FS_Product
  <2> QED BY <2>3
<1> HIDE DEF one, rest
<1>5. Cardinality(one \cup rest) = f[x] + Cardinality(rest) - Cardinality(one \cap rest)
  BY <1>3, <1>4, FS_Union
<1>6. Cardinality(one \cap rest) = 0
  BY <1>2, FS_EmptySet
<1> QED BY <1>1, <1>3, <1>5, <1>6 DEF SumOver, rest

\* Whatever is computed by taking one element after the other is the sum.
LEMMA SumIs ==
    ASSUME NEW S, IsFiniteSet(S), NEW f, \A x \in S : f[x] \in Nat,
           NEW h, h[{}] = 0,
           \A T \in SUBSET S : T # {} => \E x \in T : h[T] = f[x] + h[T \ {x}]
    PROVE  h[S] = SumOver(f, S)
<1> DEFINE Bad == {T \in SUBSET S : h[T] # SumOver(f, T)}
<1>1. ASSUME Bad # {} PROVE FALSE
  <2>1. \A T \in Bad : IsFiniteSet(T)
    BY FS_Subset
  <2>2. PICK T \in Bad : \A V \in Bad : Cardinality(T) <= Cardinality(V)
    BY <1>1, <2>1, SmallestSet
  <2>3. T # {}
    BY <2>2, SumOfNone
  <2>4. PICK x \in T : h[T] = f[x] + h[T \ {x}]
    BY <2>2, <2>3
  <2>5. /\ IsFiniteSet(T \ {x}) /\ Cardinality(T \ {x}) = Cardinality(T) - 1
        /\ Cardinality(T) \in Nat
    BY <2>1, <2>4, FS_RemoveElement, FS_CardinalityType
  <2>6. T \ {x} \notin Bad
    BY <2>2, <2>5
  <2>7. h[T \ {x}] = SumOver(f, T \ {x})
    BY <2>2, <2>6
  <2>8. SumOver(f, T) = f[x] + SumOver(f, T \ {x})
    BY <2>1, <2>2, <2>4, SumStep
  <2> QED BY <2>2, <2>4, <2>7, <2>8
<1> QED BY <1>1

\* The sum of sums.
LEMMA SumsAdd ==
    ASSUME NEW S, IsFiniteSet(S), NEW f, NEW g, NEW h,
           \A x \in S : f[x] \in Nat /\ g[x] \in Nat /\ h[x] = f[x] + g[x]
    PROVE  SumOver(h, S) = SumOver(f, S) + SumOver(g, S)
<1> DEFINE s == [T \in SUBSET S |-> SumOver(f, T) + SumOver(g, T)]
<1>1. ASSUME NEW T \in SUBSET S
      PROVE  IsFiniteSet(T) /\ SumOver(f, T) \in Nat /\ SumOver(g, T) \in Nat
  <2>1. IsFiniteSet(T)
    BY FS_Subset
  <2> QED BY <2>1, ItemsFinite
<1>2. s[{}] = 0
  BY SumOfNone
<1>3. ASSUME NEW T \in SUBSET S, NEW x \in T PROVE s[T] = h[x] + s[T \ {x}]
  <2>1. SumOver(f, T) = f[x] + SumOver(f, T \ {x}) /\ SumOver(g, T) = g[x] + SumOver(g, T \ {x})
    BY <1>1, SumStep
  <2>2. SumOver(f, T \ {x}) \in Nat /\ SumOver(g, T \ {x}) \in Nat
    BY <1>1
  <2>3. /\ s[T] = SumOver(f, T) + SumOver(g, T)
        /\ s[T \ {x}] = SumOver(f, T \ {x}) + SumOver(g, T \ {x})
    OBVIOUS
  <2> HIDE DEF s
  <2> QED BY <2>1, <2>2, <2>3
<1> HIDE DEF s
<1>4. s[S] = SumOver(h, S)
  <2>1. \A x \in S : h[x] \in Nat
    OBVIOUS
  <2>2. \A T \in SUBSET S : T # {} => \E x \in T : s[T] = h[x] + s[T \ {x}]
    BY <1>3
  <2> QED BY <1>2, <2>1, <2>2, SumIs
<1> QED BY <1>4 DEF s

\* Functions that agree have one sum.
LEMMA SumSame ==
    ASSUME NEW S, NEW f, NEW g, \A x \in S : f[x] = g[x]
    PROVE  SumOver(f, S) = SumOver(g, S)
<1>1. Items(f, S) = Items(g, S)
  BY DEF Items
<1> QED BY <1>1 DEF SumOver

\* The size of a set made up of sets that have nothing in common.
LEMMA SumOfParts ==
    ASSUME NEW S, IsFiniteSet(S), NEW A, \A x \in S : IsFiniteSet(A[x]),
           \A x, y \in S : x # y => A[x] \cap A[y] = {},
           NEW f, \A x \in S : f[x] = Cardinality(A[x]),
           NEW U, \A y : y \in U <=> \E x \in S : y \in A[x]
    PROVE  IsFiniteSet(U) /\ SumOver(f, S) = Cardinality(U)
<1> DEFINE All(T) == UNION {A[x] : x \in T}
           h == [T \in SUBSET S |-> Cardinality(All(T))]
<1>1. \A x \in S : f[x] \in Nat
  BY FS_CardinalityType
<1>2. ASSUME NEW T \in SUBSET S PROVE IsFiniteSet(All(T))
  <2>1. IsFiniteSet(T)
    BY FS_Subset
  <2> QED BY <2>1, FiniteFamily
<1>3. h[{}] = 0
  BY FS_EmptySet
<1>4. ASSUME NEW T \in SUBSET S, NEW x \in T PROVE h[T] = f[x] + h[T \ {x}]
  <2>1. All(T) = A[x] \cup All(T \ {x}) /\ A[x] \cap All(T \ {x}) = {}
    OBVIOUS
  <2>2. IsFiniteSet(A[x]) /\ IsFiniteSet(All(T \ {x}))
    BY <1>2
  <2>6. h[T] = Cardinality(All(T)) /\ h[T \ {x}] = Cardinality(All(T \ {x}))
    OBVIOUS
  <2> HIDE DEF All, h
  <2>3. Cardinality(A[x] \cup All(T \ {x}))
           = Cardinality(A[x]) + Cardinality(All(T \ {x})) - Cardinality(A[x] \cap All(T \ {x}))
    BY <2>2, FS_Union
  <2>4. Cardinality(A[x] \cap All(T \ {x})) = 0
    BY <2>1, FS_EmptySet
  <2>5. Cardinality(A[x]) \in Nat /\ Cardinality(All(T \ {x})) \in Nat
    BY <2>2, FS_CardinalityType
  <2> QED BY <2>1, <2>3, <2>4, <2>5, <2>6
<1>5. \A T \in SUBSET S : T # {} => \E x \in T : h[T] = f[x] + h[T \ {x}]
  BY <1>4
<1>6. h[S] = SumOver(f, S)
  <2> HIDE DEF h
  <2> QED BY <1>1, <1>3, <1>5, SumIs
<1>7. U = All(S) /\ h[S] = Cardinality(All(S)) /\ IsFiniteSet(All(S))
  BY <1>2
<1> QED BY <1>6, <1>7

\* Two sets that have nothing in common.
LEMMA SumOfTwo ==
    ASSUME NEW S, IsFiniteSet(S), NEW T, IsFiniteSet(T), S \cap T = {},
           NEW f, \A x \in S \cup T : f[x] \in Nat
    PROVE  SumOver(f, S \cup T) = SumOver(f, S) + SumOver(f, T)
<1>1. Items(f, S \cup T) = Items(f, S) \cup Items(f, T) /\ Items(f, S) \cap Items(f, T) = {}
  BY DEF Items
<1>2. /\ IsFiniteSet(Items(f, S)) /\ SumOver(f, S) \in Nat
      /\ IsFiniteSet(Items(f, T)) /\ SumOver(f, T) \in Nat
  BY ItemsFinite
<1>3. Cardinality(Items(f, S) \cup Items(f, T)) =
         Cardinality(Items(f, S)) + Cardinality(Items(f, T))
            - Cardinality(Items(f, S) \cap Items(f, T))
  BY <1>2, FS_Union
<1>4. Cardinality(Items(f, S) \cap Items(f, T)) = 0
  BY <1>1, FS_EmptySet
<1>5. /\ SumOver(f, S) = Cardinality(Items(f, S)) /\ SumOver(f, T) = Cardinality(Items(f, T))
      /\ SumOver(f, S \cup T) = Cardinality(Items(f, S) \cup Items(f, T))
  BY <1>1 DEF SumOver
<1> QED BY <1>2, <1>3, <1>4, <1>5
=============================================================================
