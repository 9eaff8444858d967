---------------------------- MODULE SumTheorems ----------------------------
(***************************************************************************)
(* What SumFunctionOnSet of the community modules, a fold over a set in    *)
(* some order, adds up to when elements come and go: the lemmas about sums *)
(* that the proofs about aggregators need.                                 *)
(***************************************************************************)
EXTENDS Integers, Functions, FiniteSets, FiniteSetTheorems, WellFoundedInduction, TLAPS

\* A set of numbers has a least one.
LEMMA LeastNumber ==
    ASSUME NEW T \in SUBSET Nat, T # {}
    PROVE  \E m \in T : \A k \in T : m <= k
<1>1. PICK m \in T : \A k \in T : ~(<<k, m>> \in OpToRel(<, Nat))
  <2> DEFINE R == OpToRel(<, Nat)
  <2>1. IsWellFoundedOn(R, Nat)
    BY NatLessThanWellFounded
  <2> HIDE DEF R
  <2>2. \E x \in T : \A y \in T : ~(<<y, x>> \in R)
    BY <2>1, WFMin
  <2> QED BY <2>2 DEF R
<1>2. m \in Nat /\ \A k \in T : k \in Nat
  OBVIOUS
<1>3. \A k \in T : ~(k < m)
  BY <1>1, <1>2 DEF OpToRel
<1> QED BY <1>2, <1>3

\* Of some parts of a finite set, one has the fewest elements.
LEMMA Smallest ==
    ASSUME NEW S, IsFiniteSet(S), NEW B \in SUBSET (SUBSET S), B # {}
    PROVE  \E T \in B : \A U \in B : Cardinality(T) <= Cardinality(U)
<1> DEFINE N == {Cardinality(T) : T \in B}
<1>1. \A T \in B : Cardinality(T) \in Nat
  BY FS_Subset, FS_CardinalityType
<1>2. N \in SUBSET Nat /\ N # {}
  BY <1>1
<1>3. PICK m \in N : \A k \in N : m <= k
  <2> HIDE DEF N
  <2> QED BY <1>2, LeastNumber
<1> QED BY <1>3

-----------------------------------------------------------------------------
(* The recursive function that a fold evaluates. *)

\* A sum over T, of one element and the sum over the others that g tells.
Body(f, g, T) ==
    IF T = {} THEN 0 ELSE f[CHOOSE x \in T : TRUE] + g[T \ {CHOOSE x \in T : TRUE}]

\* g tells what f adds up to over every part of S, as a fold evaluates it.
Sums(g, f, S) == g = [T \in SUBSET S |-> Body(f, g, T)]

\* f has a number for each element of a finite set.
Adds(f, S) == IsFiniteSet(S) /\ \A x \in S : f[x] \in Int

\* A sum is what some such function tells.
LEMMA SumUnfolds ==
    ASSUME NEW f, NEW S
    PROVE  SumFunctionOnSet(f, S) = (CHOOSE g : Sums(g, f, S))[S]
BY Zenon DEF SumFunctionOnSet, FoldFunctionOnSet, MapThenFoldSet, Sums, Body

\* A part with one element fewer.
LEMMA OneFewer ==
    ASSUME NEW S, IsFiniteSet(S), NEW T \in SUBSET S, NEW x \in T
    PROVE  /\ T \ {x} \in SUBSET S /\ IsFiniteSet(T) /\ IsFiniteSet(T \ {x})
           /\ Cardinality(T) \in Nat /\ Cardinality(T \ {x}) \in Nat
           /\ Cardinality(T \ {x}) < Cardinality(T)
<1>1. IsFiniteSet(T)
  BY FS_Subset
<1>2. IsFiniteSet(T \ {x}) /\ Cardinality(T \ {x}) = Cardinality(T) - 1
  BY <1>1, FS_RemoveElement
<1> QED BY <1>1, <1>2, FS_CardinalityType

\* There is a function that tells the sums over the parts with at most n elements.
LEMMA SomeSums ==
    ASSUME NEW f, NEW S, IsFiniteSet(S), NEW n \in Nat
    PROVE  \E g : \A T \in SUBSET S : Cardinality(T) <= n => g[T] = Body(f, g, T)
<1> DEFINE Has(m) == \E g : \A T \in SUBSET S : Cardinality(T) <= m => g[T] = Body(f, g, T)
           B == {m \in Nat : ~Has(m)}
<1>1. Has(0)
  <2> DEFINE z == [T \in SUBSET S |-> 0]
  <2>1. ASSUME NEW T \in SUBSET S, Cardinality(T) <= 0 PROVE z[T] = Body(f, z, T)
    <3>1. T = {}
      BY <2>1, FS_Subset, FS_EmptySet, FS_CardinalityType
    <3> QED BY <3>1 DEF Body
  <2> HIDE DEF z
  <2> QED BY <2>1
<1>2. ASSUME NEW m \in Nat, Has(m) PROVE Has(m + 1)
  <2>1. PICK g : \A T \in SUBSET S : Cardinality(T) <= m => g[T] = Body(f, g, T)
    BY <1>2
  <2> DEFINE h == [T \in SUBSET S |-> IF Cardinality(T) <= m THEN g[T] ELSE Body(f, g, T)]
  <2>2. ASSUME NEW T \in SUBSET S, Cardinality(T) <= m + 1 PROVE h[T] = Body(f, h, T)
    <3>1. CASE T = {}
      <4>1. Cardinality(T) <= m
        BY <3>1, FS_EmptySet
      <4>2. h[T] = g[T] /\ g[T] = 0
        BY <4>1, <2>1, <3>1 DEF Body
      <4> QED BY <4>2, <3>1 DEF Body
    <3>2. CASE T # {}
      <4> DEFINE x == CHOOSE x \in T : TRUE
      <4>1. x \in T
        BY <3>2
      <4> HIDE DEF x
      <4>2. T \ {x} \in SUBSET S /\ Cardinality(T \ {x}) <= m
        <5>1. /\ T \ {x} \in SUBSET S
              /\ Cardinality(T) \in Nat /\ Cardinality(T \ {x}) \in Nat
              /\ Cardinality(T \ {x}) < Cardinality(T)
          BY <4>1, OneFewer
        <5> QED BY <2>2, <5>1
      <4>3. h[T \ {x}] = g[T \ {x}]
        BY <4>2
      <4>4. h[T] = f[x] + g[T \ {x}]
        BY <2>1, <3>2 DEF x, Body
      <4> QED BY <3>2, <4>3, <4>4 DEF x, Body
    <3> QED BY <3>1, <3>2
  <2> HIDE DEF h
  <2> QED BY <2>2
<1> HIDE DEF Has
<1>3. B = {}
  <2> SUFFICES ASSUME B # {} PROVE FALSE
    OBVIOUS
  <2>1. PICK m \in B : \A k \in B : m <= k
    <3>1. B \in SUBSET Nat
      OBVIOUS
    <3> HIDE DEF B
    <3> QED BY <3>1, LeastNumber
  <2>2. m # 0 /\ m \in Nat
    BY <1>1
  <2>3. m - 1 \in Nat /\ ~(m <= m - 1)
    BY <2>2
  <2>4. Has(m - 1)
    BY <2>1, <2>3
  <2>5. Has(m)
    BY <1>2, <2>2, <2>3, <2>4, m - 1 + 1 = m
  <2> QED BY <2>5
<1>4. Has(n)
  BY <1>3
<1> QED BY <1>4 DEF Has

\* A sum is what a function tells that tells the sums over all parts.
LEMMA SumTold ==
    ASSUME NEW f, NEW S, IsFiniteSet(S)
    PROVE  \E g : Sums(g, f, S) /\ SumFunctionOnSet(f, S) = g[S]
<1>1. Cardinality(S) \in Nat
  BY FS_CardinalityType
<1>2. PICK g : \A T \in SUBSET S : Cardinality(T) <= Cardinality(S) => g[T] = Body(f, g, T)
  BY <1>1, SomeSums
<1> DEFINE h == [T \in SUBSET S |-> g[T]]
<1>3. ASSUME NEW T \in SUBSET S PROVE h[T] = Body(f, h, T)
  <2>1. g[T] = Body(f, g, T)
    <3>1. Cardinality(T) <= Cardinality(S)
      BY FS_Subset
    <3> QED BY <3>1, <1>2
  <2>2. CASE T = {}
    BY <2>1, <2>2 DEF Body
  <2>3. CASE T # {}
    <3> DEFINE x == CHOOSE x \in T : TRUE
    <3>1. T \ {x} \in SUBSET S
      OBVIOUS
    <3>2. h[T \ {x}] = g[T \ {x}]
      BY <3>1
    <3>3. h[T] = f[x] + g[T \ {x}]
      BY <2>1, <2>3 DEF Body
    <3> HIDE DEF h
    <3> QED BY <2>3, <3>2, <3>3 DEF Body
  <2> QED BY <2>2, <2>3
<1>4. h = [T \in SUBSET S |-> Body(f, h, T)]
  <2>1. \A T \in SUBSET S : h[T] = Body(f, h, T)
    BY <1>3
  <2>2. h = [T \in SUBSET S |-> h[T]]
    OBVIOUS
  <2> HIDE DEF h
  <2> QED BY <2>1, <2>2
<1>5. Sums(h, f, S)
  BY <1>4 DEF Sums
<1>6. Sums(CHOOSE e : Sums(e, f, S), f, S)
  <2> HIDE DEF h
  <2> QED BY <1>5, Zenon
<1> QED BY <1>6, SumUnfolds

\* What a function that adds up values says of the empty set and of any other.
LEMMA SumsAt ==
    ASSUME NEW f, NEW S, NEW g, Sums(g, f, S), NEW T \in SUBSET S
    PROVE  /\ T = {} => g[T] = 0
           /\ T # {} => \E x \in T : g[T] = f[x] + g[T \ {x}]
<1>1. g[T] = Body(f, g, T)
  BY DEF Sums
<1>2. T # {} => (CHOOSE x \in T : TRUE) \in T
  OBVIOUS
<1> QED BY <1>1, <1>2 DEF Body

\* A property of the empty set that stays when an element is added is one of
\* every finite set.
LEMMA FiniteInduction ==
    ASSUME NEW S, IsFiniteSet(S), NEW B \in SUBSET (SUBSET S), {} \in B,
           \A T \in B, x \in S : x \notin T => T \cup {x} \in B
    PROVE  \A T \in SUBSET S : T \in B
<1> DEFINE C == (SUBSET S) \ B
<1>1. C = {}
  <2> SUFFICES ASSUME C # {} PROVE FALSE
    OBVIOUS
  <2>1. PICK T \in C : \A U \in C : Cardinality(T) <= Cardinality(U)
    <3>1. C \in SUBSET (SUBSET S)
      OBVIOUS
    <3> HIDE DEF C
    <3> QED BY <3>1, Smallest
  <2>2. PICK x \in T : TRUE
    OBVIOUS
  <2>3. /\ T \in SUBSET S /\ T \ {x} \in SUBSET S
        /\ Cardinality(T) \in Nat /\ Cardinality(T \ {x}) \in Nat
        /\ Cardinality(T \ {x}) < Cardinality(T)
    BY OneFewer
  <2>4. T \ {x} \in B
    BY <2>1, <2>3
  <2>5. x \notin T \ {x} /\ x \in S /\ (T \ {x}) \cup {x} = T
    OBVIOUS
  <2>6. T \in B
    BY <2>4, <2>5
  <2> QED BY <2>6
<1> QED BY <1>1

\* All sums are integers, and any element may be added last.
LEMMA SumsInAnyOrder ==
    ASSUME NEW f, NEW S, Adds(f, S), NEW g, Sums(g, f, S)
    PROVE  \A T \in SUBSET S : g[T] \in Int /\ \A y \in T : g[T] = f[y] + g[T \ {y}]
<1> DEFINE Good(T) == g[T] \in Int /\ \A y \in T : g[T] = f[y] + g[T \ {y}]
           C == {T \in SUBSET S : ~Good(T)}
<1>1. C = {}
  <2> SUFFICES ASSUME C # {} PROVE FALSE
    OBVIOUS
  <2>1. PICK T \in C : \A U \in C : Cardinality(T) <= Cardinality(U)
    <3>1. C \in SUBSET (SUBSET S) /\ IsFiniteSet(S)
      BY DEF Adds
    <3> HIDE DEF C
    <3> QED BY <3>1, Smallest
  <2>2. T \in SUBSET S
    OBVIOUS
  <2>3. ASSUME NEW U \in SUBSET T, NEW x \in U PROVE Good(U \ {x})
    <3>1. /\ Cardinality(T) \in Nat /\ Cardinality(U) \in Nat /\ Cardinality(U \ {x}) \in Nat
          /\ Cardinality(U \ {x}) < Cardinality(U) /\ Cardinality(U) <= Cardinality(T)
      <4>1. IsFiniteSet(T) /\ IsFiniteSet(U) /\ Cardinality(U) <= Cardinality(T)
        BY <2>2, FS_Subset DEF Adds
      <4>2. U \in SUBSET T
        OBVIOUS
      <4> QED BY <4>1, <4>2, OneFewer, FS_CardinalityType
    <3>2. U \ {x} \notin C
      <4> HIDE DEF C
      <4> QED BY <2>1, <3>1
    <3>3. U \ {x} \in SUBSET S
      BY <2>2
    <3> HIDE DEF Good
    <3> QED BY <3>2, <3>3
  <2>4. T # {}
    <3> SUFFICES ASSUME T = {} PROVE FALSE
      OBVIOUS
    <3>1. g[T] = 0
      BY <2>2, SumsAt
    <3> QED BY <3>1
  <2>5. PICK x \in T : g[T] = f[x] + g[T \ {x}]
    BY <2>2, <2>4, SumsAt
  <2>6. f[x] \in Int /\ \A y \in T : f[y] \in Int
    BY <2>2 DEF Adds
  <2>7. Good(T \ {x}) /\ T \ {x} \in SUBSET T
    <3>1. T \in SUBSET T
      OBVIOUS
    <3> HIDE DEF Good
    <3> QED BY <2>3, <3>1
  <2>8. g[T] \in Int
    BY <2>5, <2>6, <2>7
  <2>9. ASSUME NEW y \in T PROVE g[T] = f[y] + g[T \ {y}]
    <3>1. CASE y = x
      BY <2>5, <3>1
    <3>2. CASE y # x
      <4> DEFINE U == (T \ {x}) \ {y}
      <4>1. Good(T \ {y}) /\ Good(U)
        <5>1. T \in SUBSET T /\ T \ {x} \in SUBSET T /\ y \in T \ {x}
          BY <3>2
        <5> HIDE DEF Good
        <5> QED BY <2>3, <5>1
      <4>2. g[T \ {x}] = f[y] + g[U]
        BY <2>7, <3>2
      <4>3. (T \ {y}) \ {x} = U /\ x \in T \ {y}
        BY <3>2
      <4>4. g[T \ {y}] = f[x] + g[U]
        BY <4>1, <4>3
      <4>5. g[T \ {x}] \in Int /\ g[T \ {y}] \in Int /\ g[U] \in Int
        BY <4>1, <2>7
      <4> HIDE DEF U
      <4> QED BY <2>5, <2>6, <4>2, <4>4, <4>5
    <3> QED BY <3>1, <3>2
  <2> QED BY <2>8, <2>9
<1> QED BY <1>1

\* What two such functions tell depends on the elements alone.
LEMMA SumsAgree ==
    ASSUME NEW f, NEW S, Adds(f, S), NEW g, Sums(g, f, S),
           NEW e, NEW R, Adds(e, R), NEW h, Sums(h, e, R),
           NEW T \in SUBSET (S \cap R), \A x \in T : f[x] = e[x]
    PROVE  g[T] = h[T]
<1> DEFINE B == {U \in SUBSET T : g[U] = h[U]}
<1>1. IsFiniteSet(T)
  BY FS_Subset DEF Adds
<1>2. {} \in B
  <2>1. {} \in SUBSET S /\ {} \in SUBSET R
    OBVIOUS
  <2>2. g[{}] = 0 /\ h[{}] = 0
    BY <2>1, SumsAt
  <2> QED BY <2>2
<1> DEFINE Ordered(k, d, Q) == \A V \in SUBSET Q : \A y \in V : k[V] = d[y] + k[V \ {y}]
<1>o. Ordered(g, f, S) /\ Ordered(h, e, R)
  <2>1. \A V \in SUBSET S : g[V] \in Int /\ \A y \in V : g[V] = f[y] + g[V \ {y}]
    BY SumsInAnyOrder
  <2>2. \A V \in SUBSET R : h[V] \in Int /\ \A y \in V : h[V] = e[y] + h[V \ {y}]
    BY SumsInAnyOrder
  <2> QED BY <2>1, <2>2
<1>3. ASSUME NEW U \in B, NEW x \in T, x \notin U PROVE U \cup {x} \in B
  <2> DEFINE V == U \cup {x}
  <2>1. V \in SUBSET S /\ V \in SUBSET R /\ x \in V /\ V \ {x} = U
    BY <1>3
  <2>2. g[V] = f[x] + g[V \ {x}]
    BY <2>1, <1>o
  <2>3. h[V] = e[x] + h[V \ {x}]
    BY <2>1, <1>o
  <2> QED BY <2>1, <2>2, <2>3
<1>4. B \in SUBSET (SUBSET T)
  OBVIOUS
<1>5. \A U \in B, x \in T : x \notin U => U \cup {x} \in B
  BY <1>3
<1> HIDE DEF B
<1>6. T \in B
  BY <1>1, <1>2, <1>4, <1>5, FiniteInduction
<1> QED BY <1>6 DEF B

\* Of the values of a function on a finite set, one is the greatest.
LEMMA Greatest ==
    ASSUME NEW S, IsFiniteSet(S), S # {}, NEW f, \A x \in S : f[x] \in Int
    PROVE  \E m \in S : \A x \in S : f[x] <= f[m]
<1> DEFINE B == {T \in SUBSET S : T # {} => \E m \in T : \A x \in T : f[x] <= f[m]}
<1>1. {} \in B
  OBVIOUS
<1>2. ASSUME NEW T \in B, NEW y \in S, y \notin T PROVE T \cup {y} \in B
  <2>1. CASE T = {}
    BY <2>1
  <2>2. CASE T # {}
    <3>1. PICK m \in T : \A x \in T : f[x] <= f[m]
      BY <2>2
    <3>2. CASE f[y] <= f[m]
      BY <3>1, <3>2
    <3>3. CASE f[m] <= f[y]
      <4>1. \A x \in T : f[x] <= f[y]
        BY <3>1, <3>3
      <4> QED BY <4>1
    <3> QED BY <3>2, <3>3
  <2> QED BY <2>1, <2>2
<1>3. B \in SUBSET (SUBSET S) /\ S \in SUBSET S
  OBVIOUS
<1>4. \A T \in B, y \in S : y \notin T => T \cup {y} \in B
  BY <1>2
<1> HIDE DEF B
<1>5. S \in B
  BY <1>1, <1>3, <1>4, FiniteInduction
<1> QED BY <1>5 DEF B

-----------------------------------------------------------------------------
(* The laws of sums. *)

\* A part of what a function adds up can be added up.
LEMMA AddsPart ==
    ASSUME NEW f, NEW S, Adds(f, S), NEW T \in SUBSET S
    PROVE  Adds(f, T)
BY FS_Subset DEF Adds

\* One function tells the sums over all parts.
LEMMA SumOfPart ==
    ASSUME NEW f, NEW S, Adds(f, S)
    PROVE  \E g : Sums(g, f, S) /\ \A T \in SUBSET S : SumFunctionOnSet(f, T) = g[T]
<1>1. PICK g : Sums(g, f, S)
  BY SumTold DEF Adds
<1>2. ASSUME NEW T \in SUBSET S PROVE SumFunctionOnSet(f, T) = g[T]
  <2>1. Adds(f, T)
    BY AddsPart
  <2>2. PICK h : Sums(h, f, T) /\ SumFunctionOnSet(f, T) = h[T]
    BY <2>1, SumTold DEF Adds
  <2>3. T \in SUBSET (S \cap T)
    OBVIOUS
  <2>4. g[T] = h[T]
    BY <1>1, <2>1, <2>2, <2>3, SumsAgree
  <2> QED BY <2>2, <2>4
<1> QED BY <1>1, <1>2

\* The sum over nothing is 0.
LEMMA SumOfNothing == \A f : SumFunctionOnSet(f, {}) = 0
<1> SUFFICES ASSUME NEW f PROVE SumFunctionOnSet(f, {}) = 0
  OBVIOUS
<1>1. IsFiniteSet({})
  BY FS_EmptySet
<1>2. PICK g : Sums(g, f, {}) /\ SumFunctionOnSet(f, {}) = g[{}]
  BY <1>1, SumTold
<1>3. {} \in SUBSET {}
  OBVIOUS
<1> QED BY <1>2, <1>3, SumsAt

\* A sum is an integer.
LEMMA SumType ==
    ASSUME NEW f, NEW S, Adds(f, S)
    PROVE  SumFunctionOnSet(f, S) \in Int
<1>1. PICK g : Sums(g, f, S) /\ \A T \in SUBSET S : SumFunctionOnSet(f, T) = g[T]
  BY SumOfPart
<1> QED BY <1>1, SumsInAnyOrder

\* An element that is taken out of a set is taken from the sum.
LEMMA SumWithout ==
    ASSUME NEW f, NEW S, Adds(f, S), NEW y \in S
    PROVE  SumFunctionOnSet(f, S) = f[y] + SumFunctionOnSet(f, S \ {y})
<1>1. PICK g : Sums(g, f, S) /\ \A T \in SUBSET S : SumFunctionOnSet(f, T) = g[T]
  BY SumOfPart
<1>2. S \in SUBSET S /\ S \ {y} \in SUBSET S
  OBVIOUS
<1>3. g[S] = f[y] + g[S \ {y}]
  BY <1>1, <1>2, SumsInAnyOrder
<1> QED BY <1>1, <1>2, <1>3

\* An element that is put into a set is added to the sum.
LEMMA SumWith ==
    ASSUME NEW f, NEW S, Adds(f, S), NEW y, y \notin S, f[y] \in Int
    PROVE  /\ Adds(f, S \cup {y})
           /\ SumFunctionOnSet(f, S \cup {y}) = f[y] + SumFunctionOnSet(f, S)
<1>1. Adds(f, S \cup {y})
  BY FS_AddElement DEF Adds
<1>2. (S \cup {y}) \ {y} = S /\ y \in S \cup {y}
  OBVIOUS
<1> QED BY <1>1, <1>2, SumWithout

\* Functions that agree on a set add up to the same.
LEMMA SumSame ==
    ASSUME NEW f, NEW S, Adds(f, S), NEW e, \A x \in S : e[x] = f[x]
    PROVE  SumFunctionOnSet(e, S) = SumFunctionOnSet(f, S)
<1>1. Adds(e, S)
  BY DEF Adds
<1>2. PICK g : Sums(g, f, S) /\ SumFunctionOnSet(f, S) = g[S]
  BY SumTold DEF Adds
<1>3. PICK h : Sums(h, e, S) /\ SumFunctionOnSet(e, S) = h[S]
  BY SumTold DEF Adds
<1>4. S \in SUBSET (S \cap S)
  OBVIOUS
<1>5. g[S] = h[S]
  BY <1>1, <1>2, <1>3, <1>4, SumsAgree
<1> QED BY <1>2, <1>3, <1>5

\* A change at one element changes the sum by as much.
LEMMA SumChanged ==
    ASSUME NEW f, NEW S, Adds(f, S), NEW e, Adds(e, S), NEW y \in S,
           \A x \in S : x # y => e[x] = f[x]
    PROVE  SumFunctionOnSet(e, S) = SumFunctionOnSet(f, S) + (e[y] - f[y])
<1>1. Adds(f, S \ {y}) /\ Adds(e, S \ {y})
  BY AddsPart
<1>2. SumFunctionOnSet(e, S \ {y}) = SumFunctionOnSet(f, S \ {y})
  BY <1>1, SumSame
<1>3. /\ SumFunctionOnSet(f, S) = f[y] + SumFunctionOnSet(f, S \ {y})
      /\ SumFunctionOnSet(e, S) = e[y] + SumFunctionOnSet(e, S \ {y})
  BY SumWithout
<1>4. SumFunctionOnSet(f, S \ {y}) \in Int /\ f[y] \in Int /\ e[y] \in Int
  BY <1>1, SumType DEF Adds
<1> QED BY <1>2, <1>3, <1>4

\* A sum over two sets that have nothing in common.
LEMMA SumOfUnion ==
    ASSUME NEW f, NEW S, NEW T, Adds(f, S), Adds(f, T), S \cap T = {}
    PROVE  /\ Adds(f, S \cup T)
           /\ SumFunctionOnSet(f, S \cup T) = SumFunctionOnSet(f, S) + SumFunctionOnSet(f, T)
<1> DEFINE B == {U \in SUBSET T : /\ Adds(f, S \cup U)
                                  /\ SumFunctionOnSet(f, S \cup U)
                                       = SumFunctionOnSet(f, S) + SumFunctionOnSet(f, U)}
<1>1. SumFunctionOnSet(f, S) \in Int
  BY SumType
<1>2. {} \in B
  <2>1. S \cup {} = S
    OBVIOUS
  <2> QED BY <1>1, <2>1, SumOfNothing
<1>3. ASSUME NEW U \in B, NEW x \in T, x \notin U PROVE U \cup {x} \in B
  <2>1. x \notin S \cup U /\ f[x] \in Int
    BY <1>3 DEF Adds
  <2>2. Adds(f, U)
    BY AddsPart
  <2>3. /\ Adds(f, (S \cup U) \cup {x})
        /\ SumFunctionOnSet(f, (S \cup U) \cup {x}) = f[x] + SumFunctionOnSet(f, S \cup U)
    BY <2>1, SumWith
  <2>4. SumFunctionOnSet(f, U \cup {x}) = f[x] + SumFunctionOnSet(f, U)
    BY <1>3, <2>1, <2>2, SumWith
  <2>5. SumFunctionOnSet(f, U) \in Int
    BY <2>2, SumType
  <2>6. (S \cup U) \cup {x} = S \cup (U \cup {x})
    OBVIOUS
  <2>7. SumFunctionOnSet(f, S \cup U) = SumFunctionOnSet(f, S) + SumFunctionOnSet(f, U)
    OBVIOUS
  <2>8. SumFunctionOnSet(f, S \cup (U \cup {x}))
          = SumFunctionOnSet(f, S) + SumFunctionOnSet(f, U \cup {x})
    <3> HIDE DEF B
    <3>1. SumFunctionOnSet(f, S \cup (U \cup {x})) = f[x] + SumFunctionOnSet(f, S \cup U)
      BY <2>3, <2>6, Zenon
    <3> DEFINE t == SumFunctionOnSet(f, S)
               u == SumFunctionOnSet(f, U)
    <3>2. t \in Int /\ u \in Int /\ f[x] \in Int
      BY <1>1, <2>1, <2>5
    <3>3. SumFunctionOnSet(f, S \cup (U \cup {x})) = f[x] + (t + u)
      BY <2>7, <3>1, Zenon
    <3>4. SumFunctionOnSet(f, U \cup {x}) = f[x] + u
      BY <2>4
    <3> HIDE DEF t, u
    <3>5. f[x] + (t + u) = t + (f[x] + u)
      BY <3>2
    <3> QED BY <3>3, <3>4, <3>5, Zenon DEF t, u
  <2> QED BY <2>3, <2>6, <2>8
<1>4. B \in SUBSET (SUBSET T) /\ IsFiniteSet(T)
  BY DEF Adds
<1>5. \A U \in B, x \in T : x \notin U => U \cup {x} \in B
  BY <1>3
<1> HIDE DEF B
<1>6. T \in B
  BY <1>2, <1>4, <1>5, FiniteInduction
<1> QED BY <1>6 DEF B

\* A sum of natural numbers is one, and no summand is greater.
LEMMA SumOfNaturals ==
    ASSUME NEW f, NEW S, IsFiniteSet(S), \A x \in S : f[x] \in Nat
    PROVE  /\ Adds(f, S) /\ SumFunctionOnSet(f, S) \in Nat
           /\ \A x \in S : f[x] <= SumFunctionOnSet(f, S)
<1> DEFINE B == {U \in SUBSET S : SumFunctionOnSet(f, U) \in Nat}
<1>1. Adds(f, S)
  BY DEF Adds
<1>2. {} \in B
  BY SumOfNothing
<1>3. ASSUME NEW U \in B, NEW x \in S, x \notin U PROVE U \cup {x} \in B
  <2>1. Adds(f, U) /\ f[x] \in Int
    BY <1>1, AddsPart
  <2>2. SumFunctionOnSet(f, U \cup {x}) = f[x] + SumFunctionOnSet(f, U)
    BY <1>3, <2>1, SumWith
  <2> QED BY <2>2
<1>4. B \in SUBSET (SUBSET S)
  OBVIOUS
<1>5. \A U \in B, x \in S : x \notin U => U \cup {x} \in B
  BY <1>3
<1> HIDE DEF B
<1>6. \A T \in SUBSET S : T \in B
  BY <1>2, <1>4, <1>5, FiniteInduction
<1>7. \A x \in S : f[x] <= SumFunctionOnSet(f, S)
  <2> SUFFICES ASSUME NEW x \in S PROVE f[x] <= SumFunctionOnSet(f, S)
    OBVIOUS
  <2>1. SumFunctionOnSet(f, S) = f[x] + SumFunctionOnSet(f, S \ {x})
    BY <1>1, SumWithout
  <2>2. SumFunctionOnSet(f, S \ {x}) \in Nat
    BY <1>6 DEF B
  <2> QED BY <2>1, <2>2
<1> QED BY <1>1, <1>6, <1>7 DEF B

\* A sum of zeros is zero.
LEMMA SumOfZeros ==
    ASSUME NEW f, NEW S, IsFiniteSet(S), \A x \in S : f[x] = 0
    PROVE  SumFunctionOnSet(f, S) = 0
<1> DEFINE B == {U \in SUBSET S : SumFunctionOnSet(f, U) = 0}
<1>1. Adds(f, S)
  BY DEF Adds
<1>2. {} \in B
  BY SumOfNothing
<1>3. ASSUME NEW U \in B, NEW x \in S, x \notin U PROVE U \cup {x} \in B
  <2>1. Adds(f, U) /\ f[x] \in Int
    BY <1>1, AddsPart
  <2>2. SumFunctionOnSet(f, U \cup {x}) = f[x] + SumFunctionOnSet(f, U)
    BY <1>3, <2>1, SumWith
  <2> QED BY <2>2
<1>4. B \in SUBSET (SUBSET S) /\ S \in SUBSET S
  OBVIOUS
<1>5. \A U \in B, x \in S : x \notin U => U \cup {x} \in B
  BY <1>3
<1> HIDE DEF B
<1>6. S \in B
  BY <1>2, <1>4, <1>5, FiniteInduction
<1> QED BY <1>6 DEF B

\* A sum over what a set is mapped to, one to one.
LEMMA SumOfImage ==
    ASSUME NEW f, NEW S, Adds(f, S), NEW e, NEW m,
           \A x \in S : e[m[x]] = f[x], \A x, y \in S : m[x] = m[y] => x = y
    PROVE  /\ Adds(e, {m[x] : x \in S})
           /\ SumFunctionOnSet(e, {m[x] : x \in S}) = SumFunctionOnSet(f, S)
<1> DEFINE Image(U) == {m[x] : x \in U}
           B == {U \in SUBSET S : /\ Adds(e, Image(U))
                                  /\ SumFunctionOnSet(e, Image(U)) = SumFunctionOnSet(f, U)}
<1>1. {} \in B
  <2>1. Image({}) = {}
    OBVIOUS
  <2>2. Adds(e, {})
    BY FS_EmptySet DEF Adds
  <2> QED BY <2>1, <2>2, SumOfNothing
<1>2. ASSUME NEW U \in B, NEW x \in S, x \notin U PROVE U \cup {x} \in B
  <2>1. Adds(f, U) /\ f[x] \in Int
    BY AddsPart DEF Adds
  <2>2. Image(U \cup {x}) = Image(U) \cup {m[x]}
    OBVIOUS
  <2>3. m[x] \notin Image(U)
    BY <1>2
  <2>4. SumFunctionOnSet(f, U \cup {x}) = f[x] + SumFunctionOnSet(f, U)
    BY <1>2, <2>1, SumWith
  <2>5. e[m[x]] = f[x] /\ Adds(e, Image(U))
    OBVIOUS
  <2>6. SumFunctionOnSet(e, Image(U)) = SumFunctionOnSet(f, U)
    OBVIOUS
  <2> HIDE DEF Image
  <2>7. /\ Adds(e, Image(U) \cup {m[x]})
        /\ SumFunctionOnSet(e, Image(U) \cup {m[x]}) = e[m[x]] + SumFunctionOnSet(e, Image(U))
    BY <2>1, <2>3, <2>5, SumWith
  <2> QED BY <2>2, <2>4, <2>5, <2>6, <2>7
<1>3. B \in SUBSET (SUBSET S) /\ IsFiniteSet(S)
  BY DEF Adds
<1>4. \A U \in B, x \in S : x \notin U => U \cup {x} \in B
  BY <1>2
<1> HIDE DEF B
<1>5. S \in B
  BY <1>1, <1>3, <1>4, FiniteInduction
<1> QED BY <1>5 DEF B

\* A sum over the groups of a set is one over the set.
LEMMA SumOfGroups ==
    ASSUME NEW f, NEW S, Adds(f, S), NEW m, NEW K, IsFiniteSet(K), \A x \in S : m[x] \in K
    PROVE  LET g == [k \in K |-> SumFunctionOnSet(f, {x \in S : m[x] = k})] IN
           Adds(g, K) /\ SumFunctionOnSet(g, K) = SumFunctionOnSet(f, S)
<1> DEFINE Group(U, k) == {x \in U : m[x] = k}
           g(U) == [k \in K |-> SumFunctionOnSet(f, Group(U, k))]
           B == {U \in SUBSET S : SumFunctionOnSet(g(U), K) = SumFunctionOnSet(f, U)}
<1>1. ASSUME NEW U \in SUBSET S PROVE Adds(g(U), K)
  <2>1. ASSUME NEW k \in K PROVE g(U)[k] \in Int
    <3>1. Adds(f, Group(U, k))
      BY AddsPart
    <3>2. SumFunctionOnSet(f, Group(U, k)) \in Int
      <4> HIDE DEF Group
      <4> QED BY <3>1, SumType
    <3> HIDE DEF Group
    <3> QED BY <3>2
  <2> HIDE DEF g
  <2> QED BY <2>1 DEF Adds
<1>2. {} \in B
  <2> DEFINE C == {L \in SUBSET K : SumFunctionOnSet(g({}), L) = 0}
  <2>1. {} \in C
    BY SumOfNothing
  <2>2. ASSUME NEW L \in C, NEW k \in K, k \notin L PROVE L \cup {k} \in C
    <3>1. g({})[k] = 0
      <4>1. Group({}, k) = {}
        OBVIOUS
      <4> HIDE DEF Group
      <4> QED BY <4>1, SumOfNothing
    <3>2. Adds(g({}), L)
      <4>1. Adds(g({}), K)
        BY <1>1
      <4> HIDE DEF g
      <4> QED BY <4>1, AddsPart
    <3> HIDE DEF g
    <3>3. SumFunctionOnSet(g({}), L \cup {k}) = g({})[k] + SumFunctionOnSet(g({}), L)
      BY <2>2, <3>1, <3>2, SumWith
    <3> QED BY <3>1, <3>3
  <2>3. C \in SUBSET (SUBSET K)
    OBVIOUS
  <2>4. \A L \in C, k \in K : k \notin L => L \cup {k} \in C
    BY <2>2
  <2> HIDE DEF C
  <2>5. K \in C
    BY <2>1, <2>3, <2>4, FiniteInduction
  <2>6. SumFunctionOnSet(g({}), K) = 0
    BY <2>5 DEF C
  <2> HIDE DEF g
  <2> QED BY <2>6, SumOfNothing
<1>3. ASSUME NEW U \in B, NEW x \in S, x \notin U PROVE U \cup {x} \in B
  <2> DEFINE V == U \cup {x}
  <2>1. Adds(f, U) /\ f[x] \in Int /\ m[x] \in K /\ V \in SUBSET S
    BY AddsPart DEF Adds
  <2>2. SumFunctionOnSet(f, V) = f[x] + SumFunctionOnSet(f, U)
    BY <1>3, <2>1, SumWith
  <2>3. ASSUME NEW k \in K, k # m[x] PROVE g(V)[k] = g(U)[k]
    <3>1. Group(V, k) = Group(U, k)
      BY <2>3
    <3> HIDE DEF Group
    <3> QED BY <3>1
  <2>4. g(V)[m[x]] = g(U)[m[x]] + f[x]
    <3>1. Group(V, m[x]) = Group(U, m[x]) \cup {x} /\ x \notin Group(U, m[x])
      BY <1>3
    <3>2. Adds(f, Group(U, m[x]))
      BY AddsPart
    <3> HIDE DEF Group
    <3>3. SumFunctionOnSet(f, Group(U, m[x])) \in Int
      BY <3>2, SumType
    <3>4. SumFunctionOnSet(f, Group(V, m[x])) = f[x] + SumFunctionOnSet(f, Group(U, m[x]))
      <4> DEFINE W == Group(U, m[x])
      <4>1. Adds(f, W) /\ x \notin W /\ f[x] \in Int
        BY <2>1, <3>1, <3>2
      <4> HIDE DEF W
      <4>2. SumFunctionOnSet(f, W \cup {x}) = f[x] + SumFunctionOnSet(f, W)
        BY <4>1, SumWith
      <4> HIDE DEF V
      <4> QED BY <3>1, <4>2 DEF W
    <3>5. SumFunctionOnSet(f, Group(V, m[x])) = SumFunctionOnSet(f, Group(U, m[x])) + f[x]
      BY <2>1, <3>3, <3>4
    <3> HIDE DEF V
    <3> QED BY <2>1, <3>5
  <2>5. Adds(g(U), K) /\ Adds(g(V), K)
    BY <1>1, <2>1
  <2>6. g(U)[m[x]] \in Int /\ g(V)[m[x]] \in Int
    <3> HIDE DEF g, V
    <3> QED BY <2>1, <2>5 DEF Adds
  <2>7. SumFunctionOnSet(g(V), K) = SumFunctionOnSet(g(U), K) + (g(V)[m[x]] - g(U)[m[x]])
    <3> HIDE DEF g, V
    <3> QED BY <2>1, <2>3, <2>5, SumChanged
  <2>8. SumFunctionOnSet(f, U) \in Int
    BY <2>1, SumType
  <2>9. SumFunctionOnSet(g(U), K) = SumFunctionOnSet(f, U)
    OBVIOUS
  <2> HIDE DEF g, V
  <2>10. SumFunctionOnSet(g(V), K) = SumFunctionOnSet(f, V)
    BY <2>1, <2>2, <2>4, <2>6, <2>7, <2>8, <2>9
  <2> QED BY <2>1, <2>10 DEF V
<1>4. B \in SUBSET (SUBSET S) /\ IsFiniteSet(S)
  BY DEF Adds
<1>5. \A U \in B, x \in S : x \notin U => U \cup {x} \in B
  BY <1>3
<1>6. S \in SUBSET S
  OBVIOUS
<1> HIDE DEF B
<1>7. S \in B
  BY <1>2, <1>4, <1>5, FiniteInduction
<1> QED BY <1>1, <1>6, <1>7 DEF B

\* The sum over a function is the sum over its domain.
LEMMA SumOfAll ==
    ASSUME NEW S, NEW f, f = [x \in S |-> f[x]], NEW e, Adds(e, S), \A x \in S : f[x] = e[x]
    PROVE  Adds(f, S) /\ SumFunction(f) = SumFunctionOnSet(e, S)
<1>1. Adds(f, S)
  BY DEF Adds
<1>2. DOMAIN f = S
  OBVIOUS
<1>3. SumFunctionOnSet(f, S) = SumFunctionOnSet(e, S)
  BY SumSame
<1> QED BY <1>1, <1>2, <1>3 DEF SumFunction

\* The sum of two functions.
LEMMA SumOfTwo ==
    ASSUME NEW f, NEW g, NEW S, Adds(f, S), Adds(g, S), NEW e, \A x \in S : e[x] = f[x] + g[x]
    PROVE  /\ Adds(e, S)
           /\ SumFunctionOnSet(e, S) = SumFunctionOnSet(f, S) + SumFunctionOnSet(g, S)
<1> DEFINE B == {U \in SUBSET S :
                   SumFunctionOnSet(e, U) = SumFunctionOnSet(f, U) + SumFunctionOnSet(g, U)}
<1>1. Adds(e, S)
  BY DEF Adds
<1>2. {} \in B
  <2>1. SumFunctionOnSet(e, {}) = 0 /\ SumFunctionOnSet(f, {}) = 0 /\ SumFunctionOnSet(g, {}) = 0
    BY SumOfNothing
  <2> QED BY <2>1
<1>3. ASSUME NEW U \in B, NEW x \in S, x \notin U PROVE U \cup {x} \in B
  <2>1. /\ Adds(e, U) /\ Adds(f, U) /\ Adds(g, U)
        /\ e[x] \in Int /\ f[x] \in Int /\ g[x] \in Int
    BY <1>1, AddsPart DEF Adds
  <2>2. /\ SumFunctionOnSet(e, U \cup {x}) = e[x] + SumFunctionOnSet(e, U)
        /\ SumFunctionOnSet(f, U \cup {x}) = f[x] + SumFunctionOnSet(f, U)
        /\ SumFunctionOnSet(g, U \cup {x}) = g[x] + SumFunctionOnSet(g, U)
    BY <1>3, <2>1, SumWith
  <2>3. SumFunctionOnSet(f, U) \in Int /\ SumFunctionOnSet(g, U) \in Int
    BY <2>1, SumType
  <2>4. e[x] = f[x] + g[x] /\ SumFunctionOnSet(e, U) = SumFunctionOnSet(f, U) + SumFunctionOnSet(g, U)
    OBVIOUS
  <2> QED BY <2>1, <2>2, <2>3, <2>4
<1>4. B \in SUBSET (SUBSET S) /\ IsFiniteSet(S) /\ S \in SUBSET S
  BY DEF Adds
<1>5. \A U \in B, x \in S : x \notin U => U \cup {x} \in B
  BY <1>3
<1> HIDE DEF B
<1>6. S \in B
  BY <1>2, <1>4, <1>5, FiniteInduction
<1> QED BY <1>1, <1>6 DEF B

\* A sum of ones counts.
LEMMA SumOfOnes ==
    ASSUME NEW f, NEW S, IsFiniteSet(S), \A x \in S : f[x] = 1
    PROVE  SumFunctionOnSet(f, S) = Cardinality(S)
<1> DEFINE B == {U \in SUBSET S : SumFunctionOnSet(f, U) = Cardinality(U)}
<1>1. Adds(f, S)
  BY DEF Adds
<1>2. {} \in B
  BY SumOfNothing, FS_EmptySet
<1>3. ASSUME NEW U \in B, NEW x \in S, x \notin U PROVE U \cup {x} \in B
  <2>1. Adds(f, U) /\ f[x] \in Int /\ f[x] = 1 /\ IsFiniteSet(U)
    BY <1>1, AddsPart DEF Adds
  <2>2. SumFunctionOnSet(f, U \cup {x}) = f[x] + SumFunctionOnSet(f, U)
    BY <1>3, <2>1, SumWith
  <2>3. Cardinality(U \cup {x}) = Cardinality(U) + 1 /\ Cardinality(U) \in Nat
    BY <1>3, <2>1, FS_AddElement, FS_CardinalityType
  <2> QED BY <2>1, <2>2, <2>3
<1>4. B \in SUBSET (SUBSET S) /\ S \in SUBSET S
  OBVIOUS
<1>5. \A U \in B, x \in S : x \notin U => U \cup {x} \in B
  BY <1>3
<1> HIDE DEF B
<1>6. S \in B
  BY <1>2, <1>4, <1>5, FiniteInduction
<1> QED BY <1>6 DEF B

\* Each element of R adds to its place in K, where what was at the places of L is.
AtPlaces(v, K, u, L, f, R, m) ==
    /\ \A x \in R : m[x] \in K
    /\ \A k \in K : v[k] = (IF k \in L THEN u[k] ELSE 0) + SumFunctionOnSet(f, {x \in R : m[x] = k})

\* What is then at all places is what was at those, and the elements.
LEMMA SumOfPlaces ==
    ASSUME NEW K, IsFiniteSet(K), NEW L \in SUBSET K, NEW u, Adds(u, L),
           NEW R, NEW f, Adds(f, R), NEW m, NEW v, AtPlaces(v, K, u, L, f, R, m)
    PROVE  /\ Adds(v, K)
           /\ SumFunctionOnSet(v, K) = SumFunctionOnSet(u, L) + SumFunctionOnSet(f, R)
<1> DEFINE g == [k \in K |-> SumFunctionOnSet(f, {x \in R : m[x] = k})]
           w == [k \in K |-> IF k \in L THEN u[k] ELSE 0]
<1>0. \A x \in R : m[x] \in K
  BY DEF AtPlaces
<1>1. Adds(g, K) /\ SumFunctionOnSet(g, K) = SumFunctionOnSet(f, R)
  BY <1>0, SumOfGroups
<1>2. \A k \in K : v[k] = w[k] + g[k]
  BY DEF AtPlaces
<1>3. /\ \A k \in L : w[k] = u[k] /\ w[k] \in Int
      /\ \A k \in K \ L : w[k] = 0
  BY DEF Adds
<1> HIDE DEF g, w
<1>4. Adds(w, L) /\ Adds(w, K \ L) /\ Adds(w, K)
  BY <1>3, FS_Subset DEF Adds
<1>5. SumFunctionOnSet(w, L) = SumFunctionOnSet(u, L)
  BY <1>3, SumSame
<1>6. SumFunctionOnSet(w, K \ L) = 0
  BY <1>3, <1>4, SumOfZeros DEF Adds
<1>7. SumFunctionOnSet(w, K) = SumFunctionOnSet(w, L) + SumFunctionOnSet(w, K \ L)
  <2>1. L \cap (K \ L) = {} /\ K = L \cup (K \ L)
    OBVIOUS
  <2> DEFINE M == K \ L
  <2>2. SumFunctionOnSet(w, L \cup M) = SumFunctionOnSet(w, L) + SumFunctionOnSet(w, M)
    BY <1>4, <2>1, SumOfUnion
  <2> QED BY <2>1, <2>2
<1>8. /\ Adds(v, K)
      /\ SumFunctionOnSet(v, K) = SumFunctionOnSet(w, K) + SumFunctionOnSet(g, K)
  BY <1>1, <1>2, <1>4, SumOfTwo
<1>9. SumFunctionOnSet(u, L) \in Int
  BY SumType
<1> QED BY <1>1, <1>5, <1>6, <1>7, <1>8, <1>9
=============================================================================
