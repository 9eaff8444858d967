--------------------------- MODULE LiveSessionProofs ---------------------------
(***************************************************************************)
(* Proofs about LiveSession, for any blocks, keys, bounds and commands.    *)
(***************************************************************************)
EXTENDS LiveSession, SumTheorems

-----------------------------------------------------------------------------
(* Bursts one after the other: what FoldLeft makes of a heap *)

\* g tells what the heap is after the bursts of each set of positions.
FoldBody(g, base, seq, T) ==
    IF T = {} THEN base ELSE SymDiff(g[T \ {Max(T)}], seq[Max(T)])
Folds(g, base, seq) == g = [T \in SUBSET (DOMAIN seq) |-> FoldBody(g, base, seq, T)]

\* How many of the bursts have a block, and what is left when each of them has
\* allocated it, if it was not, or freed it, if it was.
Having(x, seq, T) == {i \in T : x \in seq[i]}
Odd(n) == n % 2 = 1
Toggled(base, seq, T) == {x \in Blocks : (x \in base) # Odd(Cardinality(Having(x, seq, T)))}

\* A fold is what some such function tells.
LEMMA FoldUnfolds ==
    ASSUME NEW base, NEW seq
    PROVE  FoldLeft(SymDiff, base, seq) = (CHOOSE g : Folds(g, base, seq))[DOMAIN seq]
BY Zenon DEF FoldLeft, MapThenFoldSet, Folds, FoldBody

\* One position more, and one burst more for each of its blocks.
LEMMA HavingOneMore ==
    ASSUME NEW seq, NEW T, IsFiniteSet(T), NEW m \in T, NEW x
    PROVE  Odd(Cardinality(Having(x, seq, T))) <=>
             (Odd(Cardinality(Having(x, seq, T \ {m}))) # (x \in seq[m]))
<1> DEFINE a == Cardinality(Having(x, seq, T))
           b == Cardinality(Having(x, seq, T \ {m}))
<1>1. IsFiniteSet(Having(x, seq, T)) /\ IsFiniteSet(Having(x, seq, T \ {m}))
  <2>1. Having(x, seq, T) \subseteq T /\ Having(x, seq, T \ {m}) \subseteq T
    BY DEF Having
  <2> QED BY <2>1, FS_Subset
<1>2. a \in Nat /\ b \in Nat
  BY <1>1, FS_CardinalityType
<1>3. CASE x \in seq[m]
  <2>1. m \in Having(x, seq, T) /\ Having(x, seq, T \ {m}) = Having(x, seq, T) \ {m}
    BY <1>3 DEF Having
  <2>2. b = a - 1
    BY <1>1, <2>1, FS_RemoveElement
  <2> HIDE DEF a, b
  <2>3. Odd(a) <=> ~Odd(b)
    BY <1>2, <2>2 DEF Odd
  <2>4. Odd(a) \in BOOLEAN /\ Odd(b) \in BOOLEAN
    BY DEF Odd
  <2>5. Odd(a) <=> (Odd(b) # (x \in seq[m]))
    BY <1>3, <2>3, <2>4
  <2> QED BY <2>5 DEF a, b
<1>4. CASE x \notin seq[m]
  <2>1. Having(x, seq, T \ {m}) = Having(x, seq, T)
    BY <1>4 DEF Having
  <2>2. a = b
    BY <2>1
  <2> HIDE DEF a, b
  <2>3. Odd(a) \in BOOLEAN
    BY DEF Odd
  <2>4. Odd(a) <=> (Odd(b) # (x \in seq[m]))
    BY <1>4, <2>2, <2>3
  <2> QED BY <2>4 DEF a, b
<1> QED BY <1>3, <1>4

\* The last burst, or any other, may be taken to be the last one.
LEMMA ToggledOneMore ==
    ASSUME NEW base, NEW seq, NEW T, IsFiniteSet(T), NEW m \in T, seq[m] \subseteq Blocks
    PROVE  Toggled(base, seq, T) = SymDiff(Toggled(base, seq, T \ {m}), seq[m])
<1>1. ASSUME NEW x \in Blocks
      PROVE  x \in Toggled(base, seq, T) <=> x \in SymDiff(Toggled(base, seq, T \ {m}), seq[m])
  <2> DEFINE a == Odd(Cardinality(Having(x, seq, T)))
             b == Odd(Cardinality(Having(x, seq, T \ {m})))
  <2>1. a <=> (b # (x \in seq[m]))
    BY HavingOneMore
  <2>2. /\ x \in Toggled(base, seq, T) <=> ((x \in base) # a)
        /\ x \in Toggled(base, seq, T \ {m}) <=> ((x \in base) # b)
    BY DEF Toggled
  <2>3. a \in BOOLEAN /\ b \in BOOLEAN
    BY DEF Odd
  <2> HIDE DEF a, b
  <2>4. (x \in base) # a <=> (((x \in base) # b) # (x \in seq[m]))
    BY <2>1, <2>3
  <2> QED BY <2>2, <2>4 DEF SymDiff
<1>2. Toggled(base, seq, T) \subseteq Blocks
  BY DEF Toggled
<1>3. SymDiff(Toggled(base, seq, T \ {m}), seq[m]) \subseteq Blocks
  BY DEF Toggled, SymDiff
<1> QED BY <1>1, <1>2, <1>3

\* Without a burst the heap is what it was.
LEMMA ToggledNone ==
    ASSUME NEW base, base \subseteq Blocks, NEW seq
    PROVE  Toggled(base, seq, {}) = base
<1>1. ASSUME NEW x PROVE ~Odd(Cardinality(Having(x, seq, {})))
  <2>1. Having(x, seq, {}) = {}
    BY DEF Having
  <2>2. Cardinality({}) = 0
    BY FS_EmptySet
  <2> QED BY <2>1, <2>2 DEF Odd
<1>2. ASSUME NEW x PROVE ((x \in base) # Odd(Cardinality(Having(x, seq, {})))) <=> x \in base
  <2> DEFINE n == Cardinality(Having(x, seq, {}))
  <2>1. ~Odd(n) /\ Odd(n) \in BOOLEAN
    BY <1>1 DEF Odd
  <2> HIDE DEF n
  <2>2. ((x \in base) # Odd(n)) <=> x \in base
    BY <2>1
  <2> QED BY <2>2 DEF n
<1> QED BY <1>2 DEF Toggled

\* Some positions have a last one.
LEMMA MaxOfPositions ==
    ASSUME NEW n \in Nat, NEW T \in SUBSET (1..n), T # {}
    PROVE  Max(T) \in T /\ IsFiniteSet(T)
<1>1. IsFiniteSet(T)
  <2>1. IsFiniteSet(1..n)
    BY 1 \in Int, n \in Int, FS_Interval
  <2> QED BY <2>1, FS_Subset
<1> DEFINE id == [i \in T |-> i]
<1>2. PICK m \in T : \A x \in T : id[x] <= id[m]
  <2>1. \A x \in T : id[x] \in Int
    OBVIOUS
  <2> HIDE DEF id
  <2> QED BY <1>1, <2>1, Greatest
<1>3. \A x \in T : m >= x
  BY <1>2
<1>4. Max(T) \in T
  BY <1>3 DEF Max
<1> QED BY <1>1, <1>4

\* What a fold makes of a heap: a block is in it if it was and an even number
\* of the bursts have it, or was not and an odd number have.
LEMMA FoldIs ==
    ASSUME NEW base, base \subseteq Blocks, NEW seq \in Seq(SUBSET Blocks)
    PROVE  FoldLeft(SymDiff, base, seq) = Toggled(base, seq, DOMAIN seq)
<1> DEFINE D == DOMAIN seq
           h == [T \in SUBSET D |-> Toggled(base, seq, T)]
<1>1. D = 1..Len(seq) /\ Len(seq) \in Nat /\ \A i \in D : seq[i] \subseteq Blocks
  OBVIOUS
<1> HIDE DEF D
<1>2. ASSUME NEW T \in SUBSET D PROVE /\ T = {} => Toggled(base, seq, T) = base
                                      /\ T # {} => /\ Max(T) \in T /\ T \ {Max(T)} \in SUBSET D
                                                   /\ Toggled(base, seq, T) = SymDiff(Toggled(base, seq, T \ {Max(T)}), seq[Max(T)])
  <2>1. CASE T = {}
    BY <2>1, ToggledNone
  <2>2. CASE T # {}
    <3>1. Max(T) \in T /\ IsFiniteSet(T)
      BY <1>1, <2>2, MaxOfPositions
    <3>2. seq[Max(T)] \subseteq Blocks /\ T \ {Max(T)} \in SUBSET D
      BY <1>1, <3>1
    <3> QED BY <2>2, <3>1, <3>2, ToggledOneMore
  <2> QED BY <2>1, <2>2
<1>3. Folds(h, base, seq)
  <2>1. ASSUME NEW T \in SUBSET D PROVE h[T] = FoldBody(h, base, seq, T)
    <3>1. T # {} => h[T \ {Max(T)}] = Toggled(base, seq, T \ {Max(T)})
      BY <1>2
    <3>2. h[T] = Toggled(base, seq, T)
      OBVIOUS
    <3> HIDE DEF h
    <3> QED BY <1>2, <3>1, <3>2 DEF FoldBody
  <2>2. h = [T \in SUBSET D |-> h[T]]
    OBVIOUS
  <2> HIDE DEF h
  <2> QED BY <2>1, <2>2 DEF Folds, D
<1> DEFINE g == CHOOSE g : Folds(g, base, seq)
<1>4. Folds(g, base, seq)
  <2> HIDE DEF h
  <2> QED BY <1>3, Zenon
<1>5. FoldLeft(SymDiff, base, seq) = g[D]
  BY FoldUnfolds DEF D
<1> HIDE DEF g, h
<1> DEFINE C == {T \in SUBSET D : g[T] # Toggled(base, seq, T)}
<1>6. C = {}
  <2> SUFFICES ASSUME C # {} PROVE FALSE
    OBVIOUS
  <2>1. IsFiniteSet(D)
    BY <1>1, FS_Interval
  <2>2. PICK T \in C : \A U \in C : Cardinality(T) <= Cardinality(U)
    <3>1. C \in SUBSET (SUBSET D)
      OBVIOUS
    <3> HIDE DEF C
    <3> QED BY <2>1, <3>1, Smallest
  <2>3. T \in SUBSET D /\ g[T] = FoldBody(g, base, seq, T)
    BY <1>4 DEF Folds, D
  <2>4. T # {}
    BY <1>2, <2>3 DEF FoldBody
  <2>5. Max(T) \in T /\ T \ {Max(T)} \in SUBSET D
    BY <1>2, <2>3, <2>4
  <2>6. Cardinality(T \ {Max(T)}) < Cardinality(T) /\ Cardinality(T) \in Nat /\ Cardinality(T \ {Max(T)}) \in Nat
    BY <2>1, <2>3, <2>5, OneFewer
  <2>7. T \ {Max(T)} \notin C
    BY <2>2, <2>6
  <2>8. g[T \ {Max(T)}] = Toggled(base, seq, T \ {Max(T)})
    BY <2>5, <2>7
  <2>9. g[T] = Toggled(base, seq, T)
    BY <1>2, <2>3, <2>4, <2>8 DEF FoldBody
  <2> QED BY <2>9
<1> QED BY <1>5, <1>6 DEF D

\* A burst that is sent comes last.
LEMMA FoldOfAppend ==
    ASSUME NEW base, base \subseteq Blocks, NEW seq \in Seq(SUBSET Blocks), NEW b \in SUBSET Blocks
    PROVE  FoldLeft(SymDiff, base, Append(seq, b)) = SymDiff(FoldLeft(SymDiff, base, seq), b)
<1> DEFINE s == Append(seq, b)  n == Len(seq)
<1>1. /\ n \in Nat /\ s \in Seq(SUBSET Blocks) /\ DOMAIN s = 1..(n + 1) /\ s[n + 1] = b
      /\ DOMAIN seq = 1..n /\ \A i \in 1..n : s[i] = seq[i]
  OBVIOUS
<1> HIDE DEF s, n
<1>2. (1..(n + 1)) \ {n + 1} = 1..n /\ n + 1 \in 1..(n + 1) /\ IsFiniteSet(1..(n + 1))
  <2>1. IsFiniteSet(1..(n + 1))
    BY <1>1, 1 \in Int, n + 1 \in Int, FS_Interval
  <2> QED BY <1>1, <2>1
<1>3. Toggled(base, s, 1..(n + 1)) = SymDiff(Toggled(base, s, 1..n), b)
  BY <1>1, <1>2, ToggledOneMore
<1>4. Toggled(base, s, 1..n) = Toggled(base, seq, 1..n)
  <2>1. ASSUME NEW x PROVE Having(x, s, 1..n) = Having(x, seq, 1..n)
    BY <1>1 DEF Having
  <2> QED BY <2>1 DEF Toggled
<1>5. FoldLeft(SymDiff, base, s) = Toggled(base, s, 1..(n + 1))
  BY <1>1, FoldIs
<1>6. FoldLeft(SymDiff, base, seq) = Toggled(base, seq, 1..n)
  BY <1>1, FoldIs
<1> QED BY <1>3, <1>4, <1>5, <1>6 DEF s

\* A burst that is added is the first of those that were under way.
LEMMA FoldOfFirst ==
    ASSUME NEW base, base \subseteq Blocks, NEW seq \in Seq(SUBSET Blocks), NEW b \in SUBSET Blocks
    PROVE  FoldLeft(SymDiff, base, <<b>> \o seq) = FoldLeft(SymDiff, SymDiff(base, b), seq)
<1> DEFINE s == <<b>> \o seq  n == Len(seq)
<1>1. /\ n \in Nat /\ s \in Seq(SUBSET Blocks) /\ DOMAIN s = 1..(n + 1) /\ s[1] = b
      /\ DOMAIN seq = 1..n /\ \A i \in 1..n : s[i + 1] = seq[i]
  OBVIOUS
<1> HIDE DEF s, n
<1>2. (1..(n + 1)) \ {1} = 2..(n + 1) /\ 1 \in 1..(n + 1) /\ IsFiniteSet(1..(n + 1))
  <2>1. IsFiniteSet(1..(n + 1))
    BY <1>1, 1 \in Int, n + 1 \in Int, FS_Interval
  <2> QED BY <1>1, <2>1
<1>3. Toggled(base, s, 1..(n + 1)) = SymDiff(Toggled(base, s, 2..(n + 1)), b)
  BY <1>1, <1>2, ToggledOneMore
<1>4. SymDiff(Toggled(base, s, 2..(n + 1)), b) = Toggled(SymDiff(base, b), seq, 1..n)
  <2>1. ASSUME NEW x \in Blocks
        PROVE  Cardinality(Having(x, s, 2..(n + 1))) = Cardinality(Having(x, seq, 1..n))
    <3> DEFINE A == Having(x, seq, 1..n)
               B == Having(x, s, 2..(n + 1))
               f == [i \in A |-> i + 1]
    <3>1. IsFiniteSet(A)
      <4>1. A \subseteq 1..n
        BY DEF Having
      <4>2. IsFiniteSet(1..n)
        BY <1>1, 1 \in Int, n \in Int, FS_Interval
      <4> HIDE DEF A
      <4> QED BY <4>1, <4>2, FS_Subset
    <3>2. f \in [A -> B]
      BY <1>1 DEF Having
    <3>3. \A i, j \in A : f[i] = f[j] => i = j
      BY <1>1 DEF Having
    <3>4. ASSUME NEW j \in B PROVE \E i \in A : f[i] = j
      <4>1. j - 1 \in 1..n /\ j = (j - 1) + 1 /\ x \in s[j]
        BY <1>1 DEF Having
      <4>2. x \in seq[j - 1]
        BY <1>1, <4>1
      <4>3. j - 1 \in A
        BY <4>1, <4>2 DEF Having
      <4> QED BY <4>1, <4>3
    <3>5. ExistsBijection(A, B)
      <4>1. f \in Bijection(A, B)
        <5> HIDE DEF A, B, f
        <5> QED BY <3>2, <3>3, <3>4, Zenon DEF Bijection, Injection, Surjection, IsInjective
      <4> QED BY <4>1 DEF ExistsBijection
    <3> HIDE DEF A, B
    <3>6. Cardinality(B) = Cardinality(A)
      BY <3>1, <3>5, FS_Bijection
    <3> QED BY <3>6 DEF A, B
  <2>2. ASSUME NEW x \in Blocks
        PROVE  x \in SymDiff(Toggled(base, s, 2..(n + 1)), b)
                 <=> x \in Toggled(SymDiff(base, b), seq, 1..n)
    <3> DEFINE odd == Odd(Cardinality(Having(x, seq, 1..n)))
    <3>1. /\ x \in Toggled(base, s, 2..(n + 1)) <=> ((x \in base) # odd)
          /\ x \in Toggled(SymDiff(base, b), seq, 1..n) <=> ((x \in SymDiff(base, b)) # odd)
      BY <2>1 DEF Toggled
    <3>2. odd \in BOOLEAN
      BY DEF Odd
    <3> HIDE DEF odd
    <3> QED BY <3>1, <3>2 DEF SymDiff
  <2> QED BY <2>2 DEF Toggled, SymDiff
<1>5. FoldLeft(SymDiff, base, s) = Toggled(base, s, 1..(n + 1))
  BY <1>1, FoldIs
<1>6. FoldLeft(SymDiff, SymDiff(base, b), seq) = Toggled(SymDiff(base, b), seq, 1..n)
  <2>1. SymDiff(base, b) \subseteq Blocks
    BY DEF SymDiff
  <2> QED BY <1>1, <2>1, FoldIs
<1> QED BY <1>3, <1>4, <1>5, <1>6 DEF s

\* To fold no burst leaves the heap what it was.
LEMMA FoldOfNone ==
    ASSUME NEW base, base \subseteq Blocks
    PROVE  FoldLeft(SymDiff, base, <<>>) = base
<1> DEFINE s == <<>>
<1>1. s \in Seq(SUBSET Blocks) /\ DOMAIN s = {}
  OBVIOUS
<1> HIDE DEF s
<1>2. FoldLeft(SymDiff, base, s) = Toggled(base, s, {})
  BY <1>1, FoldIs
<1> QED BY <1>2, ToggledNone DEF s

-----------------------------------------------------------------------------
(* The size of a snapshot is that of the heap it was made of *)

SizeBody(g, records, T) ==
    IF T = {} THEN 0 ELSE g[T \ {Max(T)}] + records[Max(T)].size
SizeFolds(g, records) == g = [T \in SUBSET (DOMAIN records) |-> SizeBody(g, records, T)]

\* What each record of a list counts.
Sizes(records) == [i \in DOMAIN records |-> records[i].size]

\* The size of a list of records is what some such function tells of all of it.
LEMMA SizeUnfolds ==
    ASSUME NEW records
    PROVE  SizeOf(records) = (CHOOSE g : SizeFolds(g, records))[DOMAIN records]
BY Zenon DEF SizeOf, FoldLeft, MapThenFoldSet, SizeFolds, SizeBody

\* A list of records has the size of all of them.
LEMMA SizeIs ==
    ASSUME NEW n \in Nat, NEW records, DOMAIN records = 1..n, \A i \in 1..n : records[i].size \in Nat
    PROVE  /\ Adds(Sizes(records), 1..n)
           /\ SizeOf(records) = SumFunctionOnSet(Sizes(records), 1..n)
<1> DEFINE D == 1..n
           f == Sizes(records)
           Sum(T) == SumFunctionOnSet(f, T)
           h == [T \in SUBSET D |-> Sum(T)]
<1>1. IsFiniteSet(D) /\ DOMAIN records = D
  BY 1 \in Int, n \in Int, FS_Interval
<1>2. Adds(f, D) /\ \A i \in D : f[i] = records[i].size
  BY <1>1 DEF Adds, Sizes
<1>3. ASSUME NEW T \in SUBSET D PROVE /\ T = {} => Sum(T) = 0
                                      /\ T # {} => /\ Max(T) \in T /\ T \ {Max(T)} \in SUBSET D
                                                   /\ Sum(T) = Sum(T \ {Max(T)}) + records[Max(T)].size
  <2>1. CASE T = {}
    BY <2>1, SumOfNothing
  <2>2. CASE T # {}
    <3> DEFINE m == Max(T)
    <3>1. m \in T
      BY <2>2, MaxOfPositions
    <3> HIDE DEF m, f
    <3>2. Adds(f, T) /\ Adds(f, T \ {m})
      <4> HIDE DEF D
      <4>1. T \ {m} \in SUBSET D
        OBVIOUS
      <4> QED BY <1>2, <4>1, AddsPart
    <3>3. SumFunctionOnSet(f, T) = f[m] + SumFunctionOnSet(f, T \ {m})
      BY <3>1, <3>2, SumWithout
    <3>4. f[m] = records[m].size /\ f[m] \in Int /\ SumFunctionOnSet(f, T \ {m}) \in Int
      BY <1>2, <3>1, <3>2, SumType DEF Adds
    <3>5. Sum(T) = Sum(T \ {m}) + records[m].size
      BY <3>3, <3>4
    <3> QED BY <2>2, <3>1, <3>5 DEF m
  <2> QED BY <2>1, <2>2
<1> HIDE DEF f, Sum, D
<1>4. SizeFolds(h, records)
  <2>1. ASSUME NEW T \in SUBSET D PROVE h[T] = SizeBody(h, records, T)
    <3>1. T # {} => h[T \ {Max(T)}] = Sum(T \ {Max(T)})
      BY <1>3
    <3>2. h[T] = Sum(T)
      OBVIOUS
    <3> HIDE DEF h
    <3> QED BY <1>3, <3>1, <3>2 DEF SizeBody
  <2>2. h = [T \in SUBSET D |-> h[T]]
    OBVIOUS
  <2> HIDE DEF h
  <2> QED BY <1>1, <2>1, <2>2 DEF SizeFolds
<1> DEFINE g == CHOOSE g : SizeFolds(g, records)
<1>5. SizeFolds(g, records)
  <2> HIDE DEF h
  <2> QED BY <1>4, Zenon
<1>6. SizeOf(records) = g[D]
  BY <1>1, SizeUnfolds
<1> HIDE DEF g, h
<1> DEFINE C == {T \in SUBSET D : g[T] # Sum(T)}
<1>7. C = {}
  <2> SUFFICES ASSUME C # {} PROVE FALSE
    OBVIOUS
  <2>2. PICK T \in C : \A U \in C : Cardinality(T) <= Cardinality(U)
    <3>1. C \in SUBSET (SUBSET D)
      OBVIOUS
    <3> HIDE DEF C
    <3> QED BY <1>1, <3>1, Smallest
  <2>3. T \in SUBSET D /\ g[T] = SizeBody(g, records, T)
    BY <1>1, <1>5 DEF SizeFolds
  <2>4. T # {}
    BY <1>3, <2>3 DEF SizeBody
  <2>5. Max(T) \in T /\ T \ {Max(T)} \in SUBSET D
    BY <1>3, <2>3, <2>4
  <2>6. Cardinality(T \ {Max(T)}) < Cardinality(T) /\ Cardinality(T) \in Nat /\ Cardinality(T \ {Max(T)}) \in Nat
    <3>1. ASSUME NEW x \in T
          PROVE  Cardinality(T \ {x}) < Cardinality(T) /\ Cardinality(T) \in Nat /\ Cardinality(T \ {x}) \in Nat
      <4>1. IsFiniteSet(D) /\ T \in SUBSET D
        BY <1>1, <2>3
      <4> HIDE DEF C, D, Sum
      <4> QED BY <4>1, OneFewer
    <3> HIDE DEF C, D, Sum
    <3> QED BY <2>5, <3>1
  <2>7. T \ {Max(T)} \notin C
    BY <2>2, <2>6
  <2>8. g[T \ {Max(T)}] = Sum(T \ {Max(T)})
    BY <2>5, <2>7
  <2>9. g[T] = Sum(T)
    BY <1>3, <2>3, <2>4, <2>8 DEF SizeBody
  <2> QED BY <2>9
<1>8. g[D] = Sum(D)
  BY <1>7
<1> QED BY <1>2, <1>6, <1>8 DEF D, f, Sum

\* The blocks of a thread and a stack, and the record they make.
OfKey(blocks, k) == {b \in blocks : b.tid = k.tid /\ b.stack = k.stack}
KeyOf(b) == [tid |-> b.tid, stack |-> b.stack]
RecordOf(blocks, k) ==
    [tid |-> k.tid, stack |-> k.stack, size |-> HeapSize(OfKey(blocks, k)),
     n_allocations |-> Cardinality(OfKey(blocks, k))]

\* There is one record of each thread and stack that has a block.
LEMMA RecordsAre ==
    ASSUME NEW blocks
    PROVE  RecordsOf(blocks) = {RecordOf(blocks, k) : k \in {KeyOf(b) : b \in blocks}}
BY DEF RecordsOf, RecordOf, OfKey, KeyOf

\* The record of a thread and stack has the bytes of all their blocks.
LEMMA RecordIs ==
    ASSUME NEW blocks, NEW b
    PROVE  /\ RecordOf(blocks, KeyOf(b)).tid = b.tid
           /\ RecordOf(blocks, KeyOf(b)).stack = b.stack
           /\ RecordOf(blocks, KeyOf(b)).size = HeapSize(OfKey(blocks, KeyOf(b)))
BY DEF RecordOf, KeyOf

\* Two of them are of different keys.
LEMMA RecordsApart ==
    ASSUME NEW blocks, NEW r \in RecordsOf(blocks), NEW s \in RecordsOf(blocks),
           r.tid = s.tid, r.stack = s.stack
    PROVE  r = s
<1>1. PICK b \in blocks : r = RecordOf(blocks, KeyOf(b))
  BY RecordsAre
<1>2. PICK c \in blocks : s = RecordOf(blocks, KeyOf(c))
  BY RecordsAre
<1>3. b.tid = c.tid /\ b.stack = c.stack
  BY <1>1, <1>2, RecordIs
<1> QED BY <1>1, <1>2, <1>3 DEF KeyOf

\* Whatever the order in which they come, the records of a heap are its size.
LEMMA SizeOfHeap ==
    ASSUME NEW blocks \in SUBSET Blocks, NEW records \in SetToSeqs(RecordsOf(blocks))
    PROVE  SizeOf(records) = HeapSize(blocks)
<1> DEFINE R == RecordsOf(blocks)
           n == Cardinality(R)
           D == 1..n
           f == [b \in blocks |-> b.size]
<1>1. IsFiniteSet(blocks) /\ \A b \in blocks : b.size \in Nat
  BY BlocksAssumption, FS_Subset
<1>2. Adds(f, blocks) /\ \A b \in blocks : f[b] = b.size /\ f[b] \in Nat
  BY <1>1 DEF Adds
<1>3. IsFiniteSet(R) /\ n \in Nat
  <2> DEFINE m == [b \in blocks |-> RecordOf(blocks, KeyOf(b))]
  <2>1. m \in Surjection(blocks, R)
    BY RecordsAre DEF Surjection
  <2>2. IsFiniteSet(R)
    <3> HIDE DEF m, R
    <3> QED BY <1>1, <2>1, FS_Surjection
  <2> QED BY <2>2, FS_CardinalityType
<1>4. /\ records \in [D -> R] /\ DOMAIN records = D
      /\ \A i, j \in D : i # j => records[i] # records[j]
  BY DEF SetToSeqs
<1>5. ASSUME NEW r \in R PROVE \E i \in D : records[i] = r
  <2>1. records \in Injection(D, R)
    BY <1>4 DEF Injection, IsInjective
  <2>2. Cardinality(D) = Cardinality(R)
    BY <1>3, 1 \in Int, n \in Int, FS_Interval
  <2>3. records \in Surjection(D, R)
    <3> HIDE DEF D, R
    <3> QED BY <1>3, <2>1, <2>2, FS_Injection
  <2> HIDE DEF D, R
  <2> QED BY <2>3 DEF Surjection
<1> HIDE DEF R, D
<1> DEFINE at(b, i) == records[i].tid = b.tid /\ records[i].stack = b.stack
           m == [b \in blocks |-> CHOOSE i \in D : at(b, i)]
           Group(i) == {b \in blocks : m[b] = i}
<1>6. ASSUME NEW b \in blocks PROVE m[b] \in D /\ at(b, m[b])
  <2>1. RecordOf(blocks, KeyOf(b)) \in R
    BY RecordsAre DEF R
  <2>2. PICK i \in D : records[i] = RecordOf(blocks, KeyOf(b))
    BY <1>5, <2>1
  <2>3. at(b, i)
    BY <2>2, RecordIs
  <2>4. m[b] = CHOOSE j \in D : at(b, j)
    OBVIOUS
  <2> HIDE DEF at, m
  <2> QED BY <2>3, <2>4
<1>7. ASSUME NEW i \in D
      PROVE  /\ records[i].size = SumFunctionOnSet(f, Group(i))
             /\ records[i].size \in Nat
  <2>1. records[i] \in R
    BY <1>4
  <2>2. PICK c \in blocks : records[i] = RecordOf(blocks, KeyOf(c))
    BY <2>1, RecordsAre DEF R
  <2>3. /\ records[i].tid = c.tid /\ records[i].stack = c.stack
        /\ records[i].size = HeapSize(OfKey(blocks, KeyOf(c)))
    BY <2>2, RecordIs
  <2>4. Group(i) = OfKey(blocks, KeyOf(c))
    <3>1. ASSUME NEW b \in blocks PROVE m[b] = i <=> (b.tid = c.tid /\ b.stack = c.stack)
      <4>1. m[b] = i => b.tid = c.tid /\ b.stack = c.stack
        BY <1>6, <2>3
      <4>2. ASSUME b.tid = c.tid, b.stack = c.stack PROVE m[b] = i
        <5>1. m[b] \in D /\ records[m[b]].tid = b.tid /\ records[m[b]].stack = b.stack
          BY <1>6
        <5> HIDE DEF m
        <5>2. records[m[b]] \in R
          BY <1>4, <5>1
        <5>3. records[m[b]].tid = records[i].tid /\ records[m[b]].stack = records[i].stack
          BY <2>3, <4>2, <5>1
        <5>4. records[m[b]] = records[i]
          BY <2>1, <5>2, <5>3, RecordsApart DEF R
        <5> QED BY <1>4, <5>1, <5>4
      <4> QED BY <4>1, <4>2
    <3>2. KeyOf(c).tid = c.tid /\ KeyOf(c).stack = c.stack
      BY DEF KeyOf
    <3> HIDE DEF m
    <3> QED BY <3>1, <3>2 DEF OfKey
  <2> DEFINE K == OfKey(blocks, KeyOf(c))
             e == [b \in K |-> b.size]
  <2>5. K \in SUBSET blocks
    BY DEF OfKey
  <2>6. /\ SumFunction(e) = SumFunctionOnSet(f, K)
        /\ SumFunctionOnSet(f, K) \in Nat
    <3> HIDE DEF K
    <3>1. IsFiniteSet(K) /\ \A b \in K : e[b] = f[b] /\ f[b] \in Nat
      BY <1>1, <1>2, <2>5, FS_Subset
    <3>2. e = [b \in K |-> e[b]]
      OBVIOUS
    <3> HIDE DEF e, f
    <3>3. Adds(f, K) /\ SumFunctionOnSet(f, K) \in Nat
      BY <3>1, SumOfNaturals
    <3> QED BY <3>1, <3>2, <3>3, SumOfAll
  <2>7. HeapSize(K) = SumFunction(e)
    BY DEF HeapSize
  <2> HIDE DEF K, e, f, Group
  <2>8. Group(i) = K
    BY <2>4 DEF K
  <2>9. records[i].size = SumFunction(e)
    BY <2>3, <2>7 DEF K
  <2> QED BY <2>6, <2>8, <2>9
<1> DEFINE g == [i \in D |-> SumFunctionOnSet(f, Group(i))]
           z == Sizes(records)
<1>8. Adds(g, D) /\ SumFunctionOnSet(g, D) = SumFunctionOnSet(f, blocks)
  <2>1. \A b \in blocks : m[b] \in D
    BY <1>6
  <2>2. IsFiniteSet(D)
    BY <1>3, 1 \in Int, n \in Int, FS_Interval DEF D
  <2> HIDE DEF m, f
  <2> QED BY <1>2, <2>1, <2>2, SumOfGroups
<1>9. SizeOf(records) = SumFunctionOnSet(z, D) /\ \A i \in D : z[i] = records[i].size
  <2>1. \A i \in 1..n : records[i].size \in Nat
    BY <1>7 DEF D
  <2>2. DOMAIN records = 1..n
    BY <1>4 DEF D
  <2> HIDE DEF z, n
  <2>3. SizeOf(records) = SumFunctionOnSet(Sizes(records), 1..n)
    BY <1>3, <2>1, <2>2, SizeIs
  <2>4. \A i \in 1..n : Sizes(records)[i] = records[i].size
    BY <2>2 DEF Sizes
  <2> QED BY <2>3, <2>4 DEF D, z
<1>10. SumFunctionOnSet(z, D) = SumFunctionOnSet(g, D)
  <2>1. \A i \in D : z[i] = g[i]
    BY <1>7, <1>9
  <2> HIDE DEF z, g
  <2> QED BY <1>8, <2>1, SumSame
<1>11. HeapSize(blocks) = SumFunctionOnSet(f, blocks)
  <2>1. DOMAIN f = blocks
    OBVIOUS
  <2> HIDE DEF f
  <2>2. HeapSize(blocks) = SumFunction(f)
    BY DEF f, HeapSize
  <2> QED BY <2>1, <2>2 DEF SumFunction
<1> QED BY <1>8, <1>9, <1>10, <1>11

-----------------------------------------------------------------------------
(* The inductive invariant *)

CommandTypes ==
    /\ front \in Fronts /\ exc \in {"none", "error", "interrupt"}
    /\ outcome \in {"none", "ok", "raised", "failed", "AttributeError", "crashed"}
    /\ ui \in {"connecting", "header", "mounting", "running", "canceling", "requesting",
               "joining_update", "closing", "stopping", "joining_reader", "forgetting",
               "left", "exiting", "exited"}
    /\ remote \in {"starting", "listening", "accepted", "tracking", "ended", "gone", "failed"}
    /\ interrupts \in Nat

ThreadTypes ==
    /\ bg \in {"none", "loop", "adding", "done"}
    /\ ut \in {"new", "waiting", "clearing", "fetching", "posting", "posted", "done"}
    /\ ut = "new" => queue = <<>>

HeapTypes ==
    /\ wire \in Seq(Bursts) /\ pending \in Seq(Bursts)
    /\ heap \subseteq Blocks /\ allocated \subseteq Blocks
    /\ bg = "adding" => pending # <<>>

Types == CommandTypes /\ ThreadTypes /\ HeapTypes

\* The main thread is between __enter__ and the end of __exit__ of SocketReader.
Entered ==
    ui \in {"mounting", "running", "canceling", "requesting", "joining_update", "closing",
            "stopping", "joining_reader", "forgetting"}

\* UpdateThread is over, or an interrupt has kept the main thread from waiting.
Outlived == ut = "done" \/ (abandoned /\ ut # "new")

\* Where the main thread is tells where the other two may be.
Stages ==
    /\ Entered => impl /\ bg # "none"
    /\ ~Entered => (bg = "none" /\ ut = "new") \/ (bg = "done" /\ Outlived)
    /\ ~Entered /\ outcome # "crashed" => ~impl
    /\ ui \in {"connecting", "header"} => bg = "none"
    /\ ui = "mounting" => ut = "new"
    /\ ui \in {"running", "canceling", "requesting", "joining_update"} => ut # "new" /\ ~abandoned
    /\ ui \in {"closing", "stopping", "joining_reader", "forgetting"} => Outlived
    /\ ui \in {"connecting", "header", "mounting"} => ~abandoned
    /\ ui \in {"running", "canceling", "requesting", "joining_update"} => connected
    /\ ui \in {"header", "mounting"} => connected
    /\ ui = "forgetting" => bg = "done"
    /\ ui = "exited" => ut \in {"new", "done"}
    /\ outcome = "crashed" => abandoned /\ ui = "exited" /\ bg = "done"
    /\ bg = "none" => heap = {} /\ ~d_stop_thread
    /\ bg = "done" => d_stop_thread

\* What ErrorReaderThread has read, and whether its Ctrl-C has been seen.
Reported ==
    /\ front # "attach" => er = "none"
    /\ front = "attach" => er \in {"reading", "killing", "done"} /\ error \in {"unset", "none", "error"}
    /\ outcome = "crashed" => er \in {"none", "done"}
    /\ front = "attach" /\ outcome # "crashed" =>
        /\ er = "reading" <=> error = "unset"
        /\ er = "killing" => error = "error"
        /\ sigint => er = "done" /\ error = "error"
        /\ er = "done" /\ error = "error" /\ ~sigint =>
              exc # "none" \/ ui \in {"exiting", "exited"}

\* How attach ends, from the moment that it is decided.
Decided ==
    front = "attach" /\ ui \in {"exiting", "exited"} /\ outcome # "crashed" =>
        /\ error = "error" => outcome \in {"failed", "AttributeError"}
        /\ error = "unset" => outcome = "AttributeError"
        /\ outcome = "AttributeError" => interrupts > 0
        /\ exc = "error" /\ interrupts = 0 => outcome # "ok"

IInv == Types /\ Stages /\ Reported /\ Decided

-----------------------------------------------------------------------------
\* The tracked process changes what it sends, and the end of the channel.
LEMMA ProcessStep ==
    ASSUME IInv, Process
    PROVE  IInv'
  <1> USE DEF IInv, ProcessOnly, main, reader, updates, bounds, channel
  <1>1. UNCHANGED <<main, er, error, sigint, reader, updates, interrupts, abandoned>>
    BY DEF histories, Process, RemoteListens, RemoteTracks, RemoteFails, RemoteAnswers, RemoteSends, RemoteEnds
  <1>2. /\ remote' \in {"listening", "tracking", "ended", "gone", "failed", remote}
        /\ wire' = wire \/ \E burst \in Bursts : wire' = Append(wire, burst)
        /\ allocated' = allocated \/ \E burst \in Bursts : allocated' = SymDiff(allocated, burst)
    BY DEF Process, RemoteListens, RemoteTracks, RemoteFails, RemoteAnswers, RemoteSends, RemoteEnds
  <1>3. wire' \in Seq(Bursts)
    BY <1>2 DEF Types, HeapTypes
  <1>4. allocated' \subseteq Blocks
    BY <1>2, BurstsAssumption DEF Types, HeapTypes, SymDiff
  <1>5. Types'
    <2>1. CommandTypes' /\ ThreadTypes'
      BY <1>1, <1>2 DEF Types, CommandTypes, ThreadTypes
    <2>2. HeapTypes'
      BY <1>1, <1>3, <1>4 DEF Types, HeapTypes
    <2> QED
      BY <2>1, <2>2 DEF Types
  <1>6. Stages' /\ Reported' /\ Decided'
    BY <1>1 DEF Stages, Entered, Outlived, Reported, Decided
  <1> QED
    BY <1>5, <1>6

\* The thread of BackgroundSocketReader runs while the main thread is in between.
LEMMA BackgroundStep ==
    ASSUME IInv, Background
    PROVE  IInv'
  <1> USE DEF IInv, ReaderOnly, main, channel, updates, bounds
  <1>1. UNCHANGED <<main, remote, allocated, channel, updates, interrupts, impl, connected, abandoned>>
    BY DEF histories, Background, ReadRecord, ReadEnd, Add
  <1>2. CASE ReadRecord
    <2>1. /\ bg = "loop" /\ bg' = "adding" /\ wire # <<>>
          /\ pending' = <<Head(wire)>> /\ wire' = Tail(wire) /\ UNCHANGED <<heap, d_stop_thread>>
      BY <1>2 DEF ReadRecord
    <2>2. Head(wire) \in Bursts /\ wire' \in Seq(Bursts)
      BY <2>1 DEF Types, HeapTypes
    <2>3. pending' \in Seq(Bursts) /\ pending' # <<>>
      BY <2>1, <2>2
    <2>4. HeapTypes'
      BY <1>1, <2>1, <2>2, <2>3 DEF Types, HeapTypes
    <2>5. CommandTypes' /\ ThreadTypes'
      BY <1>1, <2>1 DEF Types, CommandTypes, ThreadTypes
    <2>6. Stages' /\ Reported' /\ Decided'
      BY <1>1, <2>1 DEF Stages, Entered, Outlived, Reported, Decided
    <2> QED
      BY <2>4, <2>5, <2>6 DEF Types
  <1>3. CASE ReadEnd
    <2>1. /\ bg = "loop" /\ bg' = "done" /\ d_stop_thread' = TRUE
          /\ UNCHANGED <<wire, pending, heap>>
      BY <1>3 DEF ReadEnd
    <2>2. HeapTypes'
      BY <1>1, <2>1 DEF Types, HeapTypes
    <2>3. CommandTypes' /\ ThreadTypes'
      BY <1>1, <2>1 DEF Types, CommandTypes, ThreadTypes
    <2>4. Stages' /\ Reported' /\ Decided'
      BY <1>1, <2>1 DEF Stages, Entered, Outlived, Reported, Decided
    <2> QED
      BY <2>2, <2>3, <2>4 DEF Types
  <1>4. CASE Add
    <2>1. /\ bg = "adding" /\ bg' \in {"loop", "done"}
          /\ bg' = "done" => d_stop_thread
          /\ heap' = heap \/ heap' = SymDiff(heap, Head(pending))
          /\ pending' = <<>> /\ UNCHANGED <<wire, d_stop_thread>>
      BY <1>4 DEF Add
    <2>2. Head(pending) \in Bursts
      BY <2>1 DEF Types, HeapTypes
    <2>3. heap' \subseteq Blocks
      BY <2>1, <2>2, BurstsAssumption DEF Types, HeapTypes, SymDiff
    <2>4. pending' \in Seq(Bursts)
      BY <2>1
    <2>5. HeapTypes'
      BY <1>1, <2>1, <2>3, <2>4 DEF Types, HeapTypes
    <2>6. CommandTypes' /\ ThreadTypes'
      BY <1>1, <2>1 DEF Types, CommandTypes, ThreadTypes
    <2>7. Stages' /\ Reported' /\ Decided'
      BY <1>1, <2>1 DEF Stages, Entered, Outlived, Reported, Decided
    <2> QED
      BY <2>5, <2>6, <2>7 DEF Types
  <1> QED
    BY <1>2, <1>3, <1>4 DEF Background

\* So does the UpdateThread, from on_mount to the join of on_unmount or later.
LEMMA UpdateStep ==
    ASSUME IInv, Update, ~Crash
    PROVE  IInv'
  <1> USE DEF IInv, UpdatesOnly, main, channel, process, reader, bounds
  <1>1. /\ UNCHANGED <<main, process, channel, reader, interrupts>>
        /\ ut \in {"waiting", "clearing", "fetching", "posting", "posted"}
        /\ ut' \in {"waiting", "clearing", "fetching", "posting", "posted", "done"}
        /\ UNCHANGED abandoned /\ queue' \in {queue, queue'}
    BY DEF Update, Wake, Clear, Fetch, Post, Return, histories
  <1>2. Types'
    <2>1. CommandTypes' /\ ThreadTypes'
      BY <1>1 DEF Types, CommandTypes, ThreadTypes
    <2>2. HeapTypes'
      BY <1>1 DEF Types, HeapTypes
    <2> QED
      BY <2>1, <2>2 DEF Types
  <1>3. Stages'
    BY <1>1 DEF Stages, Entered, Outlived
  <1>4. Reported' /\ Decided'
    BY <1>1 DEF Reported, Decided
  <1> QED
    BY <1>2, <1>3, <1>4

\* Only a thread that was left alone crashes, and with it all others.
LEMMA CrashStep ==
    ASSUME IInv, Crash
    PROVE  IInv'
  <1> USE DEF IInv, Crash, Deleted, process, reader, bounds, histories
  <1>1. /\ ui = "forgetting" /\ ui' = "exited" /\ outcome' = "crashed"
        /\ ut \in {"fetching", "posting", "posted"} /\ ut' = "done" /\ bg = "done" /\ abandoned
        /\ er' = IF er = "none" THEN "none" ELSE "done"
        /\ UNCHANGED <<front, exc, remote, wire, allocated, error, impl, connected, d_stop_thread, bg,
                       pending, heap, queue, interrupts, abandoned>>
    BY DEF Stages, Outlived
  <1>2. Types'
    <2>1. CommandTypes' /\ ThreadTypes'
      BY <1>1 DEF Types, CommandTypes, ThreadTypes
    <2>2. HeapTypes'
      BY <1>1 DEF Types, HeapTypes
    <2> QED
      BY <2>1, <2>2 DEF Types
  <1>3. Stages'
    BY <1>1 DEF Stages, Entered, Outlived
  <1>4. Reported' /\ Decided'
    BY <1>1 DEF Reported, Decided
  <1> QED
    BY <1>2, <1>3, <1>4

\* The thread that reads the control channel, and its signal, disturb no heap.
LEMMA ErrorsStep ==
    ASSUME IInv, Errors
    PROVE  IInv'
  <1> USE DEF IInv, main, process, reader, updates, bounds
  <1>1. UNCHANGED <<main, process, reader, updates, interrupts, abandoned>>
    BY DEF Errors, ReadError, Kill, histories
  <1>2. er \in {"reading", "killing"} /\ er' \in {"killing", "done"} /\ sigint' \in {sigint, TRUE}
    BY DEF Errors, ReadError, Kill
  <1>3. Types'
    <2>1. CommandTypes' /\ ThreadTypes'
      BY <1>1, <1>2 DEF Types, CommandTypes, ThreadTypes
    <2>2. HeapTypes'
      BY <1>1 DEF Types, HeapTypes
    <2> QED
      BY <2>1, <2>2 DEF Types
  <1>4. Stages'
    BY <1>1 DEF Stages, Entered, Outlived
  <1>5. Reported'
    BY <1>1, <1>2 DEF Reported, Errors, ReadError, Kill
  <1>6. Decided'
    BY <1>1, <1>2 DEF Reported, Decided, Errors, ReadError, Kill
  <1> QED
    BY <1>3, <1>4, <1>5, <1>6

-----------------------------------------------------------------------------
(* The main thread *)

\* It moves between stages, and what else it changes it may at that stage.
LEMMA SessionStep ==
    ASSUME IInv,
           \/ Connect \/ Enter \/ Mount \/ Quit \/ Cancel \/ RequestLast \/ JoinUpdate
           \/ Close \/ Stop \/ JoinReader \/ Forget \/ OnSnapshotFetched \/ schedule_update \/ PressKey
    PROVE  IInv'
  <1> USE DEF IInv, main, process, channel, reader, updates, bounds, Goes
  <1>1. /\ UNCHANGED <<front, exc, outcome, wire, allocated, channel, heap, interrupts>>
        /\ UNCHANGED <<pending, abandoned>>
        /\ ui \notin {"left", "exiting", "exited"} /\ ui' \notin {"exiting", "exited"}
    BY DEF Connect, Enter, Mount, Quit, Cancel, RequestLast, JoinUpdate, Close, Stop, JoinReader, Forget,
           OnSnapshotFetched, schedule_update, PressKey, histories
  <1>2. Reported' /\ Decided'
    BY <1>1 DEF Reported, Decided
  <1>h. HeapTypes'
    <2>1. bg' = "adding" => bg = "adding"
      BY DEF Connect, Enter, Mount, Quit, Cancel, RequestLast, JoinUpdate, Close, Stop, JoinReader, Forget,
             OnSnapshotFetched, schedule_update, PressKey
    <2> QED
      BY <1>1, <2>1 DEF Types, HeapTypes
  <1>3. CASE Connect
    <2>1. UNCHANGED <<impl, bg, ut, d_stop_thread, queue, heap>>
      BY <1>3 DEF Connect
    <2>2. ui = "connecting" /\ ui' = "header" /\ remote' = "accepted" /\ connected' = TRUE
      BY <1>3 DEF Connect
    <2>3. CommandTypes' /\ ThreadTypes'
      BY <1>1, <2>1, <2>2 DEF Types, CommandTypes, ThreadTypes, Stages
    <2>4. Stages'
      BY <1>1, <2>1, <2>2 DEF Stages, Entered, Outlived
    <2> QED
      BY <1>2, <1>h, <2>3, <2>4 DEF Types
  <1>4. CASE Enter
    <2>1. UNCHANGED <<remote, ut, d_stop_thread, queue, connected>>
      BY <1>4 DEF Enter
    <2>2. ui = "header" /\ ui' = "mounting" /\ impl' = TRUE /\ bg' = "loop"
      BY <1>4 DEF Enter
    <2>3. CommandTypes' /\ ThreadTypes'
      BY <1>1, <2>1, <2>2 DEF Types, CommandTypes, ThreadTypes, Stages
    <2>4. Stages'
      BY <1>1, <2>1, <2>2 DEF Stages, Entered, Outlived
    <2> QED
      BY <1>2, <1>h, <2>3, <2>4 DEF Types
  <1>5. CASE Mount
    <2>1. UNCHANGED <<remote, impl, bg, d_stop_thread, connected>>
      BY <1>5 DEF Mount
    <2>2. ui = "mounting" /\ ui' = "running" /\ ut' = "waiting"
      BY <1>5 DEF Mount
    <2>3. CommandTypes' /\ ThreadTypes'
      BY <1>1, <2>1, <2>2 DEF Types, CommandTypes, ThreadTypes, Stages
    <2>4. Stages'
      BY <1>1, <2>1, <2>2 DEF Stages, Entered, Outlived
    <2> QED
      BY <1>2, <1>h, <2>3, <2>4 DEF Types
  <1>6. CASE \/ Quit \/ Cancel \/ RequestLast \/ OnSnapshotFetched \/ schedule_update \/ PressKey
    <2>1. UNCHANGED <<remote, impl, bg, d_stop_thread, ut, connected>>
      BY <1>6 DEF Quit, Cancel, RequestLast, OnSnapshotFetched, schedule_update, PressKey
    <2>2. /\ ui \in {"running", "canceling", "requesting"}
          /\ ui' \in {"running", "canceling", "requesting", "joining_update"}
      BY <1>6 DEF Quit, Cancel, RequestLast, OnSnapshotFetched, schedule_update, PressKey
    <2>3. CommandTypes' /\ ThreadTypes'
      BY <1>1, <2>1, <2>2 DEF Types, CommandTypes, ThreadTypes, Stages
    <2>4. Stages'
      BY <1>1, <2>1, <2>2 DEF Stages, Entered, Outlived
    <2> QED
      BY <1>2, <1>h, <2>3, <2>4 DEF Types
  <1>7. CASE JoinUpdate \/ Close
    <2>1. UNCHANGED <<remote, impl, bg, d_stop_thread, ut, queue>>
      BY <1>7 DEF JoinUpdate, Close
    <2>2. /\ ui \in {"joining_update", "closing"} /\ Outlived
          /\ ui' \in {"closing", "stopping"}
      BY <1>7 DEF JoinUpdate, Close, Stages, Outlived
    <2>3. CommandTypes' /\ ThreadTypes'
      BY <1>1, <2>1, <2>2 DEF Types, CommandTypes, ThreadTypes, Stages
    <2>4. Stages'
      BY <1>1, <2>1, <2>2 DEF Stages, Entered, Outlived
    <2> QED
      BY <1>2, <1>h, <2>3, <2>4 DEF Types
  <1>8. CASE Stop
    <2>1. UNCHANGED <<remote, impl, bg, ut, queue>> /\ d_stop_thread' = TRUE
      BY <1>8 DEF Stop
    <2>2. ui = "stopping" /\ ui' = "joining_reader"
      BY <1>8 DEF Stop
    <2>3. CommandTypes' /\ ThreadTypes'
      BY <1>1, <2>1, <2>2 DEF Types, CommandTypes, ThreadTypes, Stages
    <2>4. Stages'
      BY <1>1, <2>1, <2>2 DEF Stages, Entered, Outlived
    <2> QED
      BY <1>2, <1>h, <2>3, <2>4 DEF Types
  <1>9. CASE JoinReader \/ Forget
    <2>1. UNCHANGED <<remote, bg, d_stop_thread, ut, queue>>
      BY <1>9 DEF JoinReader, Forget
    <2>2. \/ ui = "joining_reader" /\ ui' = "forgetting" /\ bg = "done" /\ UNCHANGED impl
          \/ ui = "forgetting" /\ ui' = "left" /\ bg = "done" /\ impl' = FALSE
      BY <1>9 DEF JoinReader, Forget, Stages
    <2>3. CommandTypes' /\ ThreadTypes'
      BY <1>1, <2>1, <2>2 DEF Types, CommandTypes, ThreadTypes, Stages
    <2>4. Stages'
      BY <1>1, <2>1, <2>2 DEF Stages, Entered, Outlived
    <2> QED
      BY <1>2, <1>h, <2>3, <2>4 DEF Types
  <1> QED
    BY <1>3, <1>4, <1>5, <1>6, <1>7, <1>8, <1>9

\* The session is over, or never begins, and the other two threads do not move.
Leaving(u, v) ==
    /\ ui = u /\ ui' = v
    /\ UNCHANGED <<front, wire, allocated, impl, bg, d_stop_thread, pending, heap, ut, abandoned>>
    /\ v = "canceling" => UNCHANGED connected
    /\ v = "exited" => ut \in {"new", "done"}
    /\ queue' \in {queue, <<>>}
    /\ remote' \in {remote, "ended", "gone"}
    /\ exc' \in {"none", "error", "interrupt"} /\ UNCHANGED er
    /\ outcome' \in {"none", "ok", "raised", "failed", "AttributeError"}
    /\ interrupts' \in Nat

\* A step out of the session keeps the types and the stages of the three threads.
LEMMA LeavingStep ==
    ASSUME IInv, NEW u, NEW v, Leaving(u, v),
           \/ u = "running" /\ v = "canceling"
           \/ u \in {"connecting", "header"} /\ v = "left"
           \/ u = "left" /\ v = "exiting"
           \/ u = "exiting" /\ v = "exited"
    PROVE  Types' /\ Stages'
  <1> USE DEF IInv, Leaving
  <1>1. Types'
    <2>1. CommandTypes' /\ ThreadTypes'
      BY DEF Types, CommandTypes, ThreadTypes
    <2>2. HeapTypes'
      BY DEF Types, HeapTypes
    <2> QED
      BY <2>1, <2>2 DEF Types
  <1>2. Stages'
    BY DEF Stages, Entered, Outlived
  <1> QED
    BY <1>1, <1>2

\* The remote ends before its header: no heap was ever read.
LEMMA NoHeaderStep ==
    ASSUME IInv, NoHeader
    PROVE  IInv'
  <1> USE DEF IInv, NoHeader, Raises, process, channel, updates, bounds, histories
  <1>1. Types' /\ Stages'
    <2>1. Leaving("header", "left")
      BY DEF Leaving, Types, CommandTypes, Stages
    <2> QED
      BY <2>1, LeavingStep
  <1>2. Reported' /\ Decided'
    BY DEF Reported, Decided, Stages
  <1> QED
    BY <1>1, <1>2

\* What Except says of the two ways to be left.
LEMMA Excepts ==
    ASSUME NEW e \in {"error", "interrupt"}, error \in {"unset", "none", "error"}
    PROVE  /\ error = "error" => Except(e) = "failed"
           /\ error = "unset" => Except(e) = "AttributeError"
           /\ error = "none" => Except(e) = IF e = "error" THEN "raised" ELSE "ok"
  <1>1. CASE error = "error"
    BY <1>1 DEF Except
  <1>2. CASE error = "unset"
    BY <1>2 DEF Except
  <1>3. CASE error = "none"
    BY <1>3 DEF Except
  <1> QED
    BY <1>1, <1>2, <1>3

\* The steps that leave the session, in the live view, run and attach.
LEMMA LeaveStep ==
    ASSUME IInv, LeaveLive \/ LeaveRun \/ LeaveAttach \/ Exit
    PROVE  IInv'
  <1> USE DEF IInv, main, process, channel, reader, updates, bounds, histories, Ends, Goes
  <1>1. CASE Exit
    <2>1. Leaving("exiting", "exited")
      BY <1>1 DEF Exit, Leaving, Types, CommandTypes, Stages
    <2>2. Types' /\ Stages'
      BY <2>1, LeavingStep
    <2>3. Reported' /\ Decided'
      BY <1>1 DEF Exit, Reported, Decided
    <2> QED
      BY <2>2, <2>3
  <1>2. CASE LeaveLive \/ LeaveRun
    <2>1. Leaving("left", "exiting") /\ front # "attach"
      BY <1>2 DEF LeaveLive, LeaveRun, Leaving, Types, CommandTypes
    <2>2. Types' /\ Stages'
      BY <2>1, LeavingStep
    <2>3. Reported' /\ Decided'
      BY <2>1 DEF Leaving, Reported, Decided
    <2> QED
      BY <2>2, <2>3
  <1>3. CASE LeaveAttach
    <2>1. /\ ui = "left" /\ front = "attach" /\ er = "done" /\ ~sigint
          /\ outcome' = IF exc = "none" THEN "ok" ELSE Except(exc)
          /\ ui' = "exiting"
          /\ UNCHANGED <<front, exc, process, channel, reader, updates, interrupts, abandoned>>
      BY <1>3 DEF LeaveAttach
    <2>2. error \in {"none", "error"} /\ exc \in {"none", "error", "interrupt"} /\ outcome # "crashed"
      BY <2>1 DEF Reported, Types, CommandTypes, ThreadTypes, HeapTypes, Stages
    <2>3. /\ exc = "none" => error = "none" /\ outcome' = "ok"
          /\ exc # "none" /\ error = "error" => outcome' = "failed"
          /\ exc = "error" /\ error = "none" => outcome' = "raised"
          /\ exc = "interrupt" /\ error = "none" => outcome' = "ok"
      BY <2>1, <2>2, Excepts DEF Reported
    <2>4. Types' /\ Stages'
      <3>1. Leaving("left", "exiting")
        BY <2>1, <2>2, <2>3 DEF Leaving, Types, CommandTypes
      <3> QED
        BY <3>1, LeavingStep
    <2>5. Reported' /\ Decided'
      BY <2>1, <2>2, <2>3 DEF Reported, Decided
    <2> QED
      BY <2>4, <2>5
  <1> QED
    BY <1>1, <1>2, <1>3

\* Ctrl-C comes from the user, or from ErrorReaderThread with an error.
LEMMA InterruptStep ==
    ASSUME IInv, CtrlC \/ Sigint
    PROVE  IInv'
  <1> USE DEF IInv, main, process, channel, reader, updates, bounds
  <1>1. Interrupted /\ UNCHANGED <<front, process, er, error, reader, ut>>
    <2>1. Interrupted => UNCHANGED front
      BY DEF Interrupted, Raises, Ends
    <2> QED
      BY <2>1 DEF CtrlC, Sigint
  <1>c. outcome # "crashed"
    BY <1>1 DEF Interrupted, Stages
  <1>2. interrupts' \in Nat /\ interrupts' >= interrupts
    BY DEF CtrlC, Sigint, Types, CommandTypes
  <1>3. front = "attach" => interrupts' > 0 \/ error = "error"
    BY <1>c DEF CtrlC, Sigint, Types, CommandTypes, Reported
  <1>4. sigint' => sigint
    <2>1. CASE CtrlC
      BY <2>1 DEF CtrlC
    <2>2. CASE Sigint
      BY <2>2 DEF Sigint
    <2> QED
      BY <2>1, <2>2
  <1>5. CASE ui = "connecting" /\ Raises("interrupt") /\ UNCHANGED <<queue, abandoned>>
    <2>1. Leaving("connecting", "left")
      BY <1>1, <1>c, <1>2, <1>3, <1>4, <1>5 DEF Raises, Leaving, Types, CommandTypes
    <2>2. Types' /\ Stages'
      BY <2>1, LeavingStep
    <2>3. Reported' /\ Decided'
      BY <1>1, <1>c, <1>2, <1>3, <1>4, <1>5 DEF Raises, Reported, Decided
    <2> QED
      BY <2>2, <2>3
  <1>6. CASE /\ ui = "running" /\ ui' = "canceling" /\ exc' = "interrupt"
             /\ queue' = <<>> /\ UNCHANGED <<outcome, abandoned>>
    <2>1. Leaving("running", "canceling")
      BY <1>1, <1>c, <1>2, <1>3, <1>4, <1>6 DEF Leaving, Types, CommandTypes
    <2>2. Types' /\ Stages'
      BY <2>1, LeavingStep
    <2>3. Reported' /\ Decided'
      BY <1>1, <1>c, <1>2, <1>3, <1>4, <1>6 DEF Reported, Decided
    <2> QED
      BY <2>2, <2>3
  <1>7. CASE ui = "left" /\ front = "attach" /\ Ends(Except("interrupt")) /\ UNCHANGED <<queue, abandoned>>
    <2>1. error \in {"unset", "none", "error"}
      BY <1>7 DEF Reported
    <2>2. /\ error = "error" => outcome' = "failed"
          /\ error = "unset" => outcome' = "AttributeError"
          /\ error = "none" => outcome' = "ok"
      BY <1>7, <2>1, Excepts DEF Ends
    <2>3. Types' /\ Stages'
      <3>1. Leaving("left", "exiting")
        BY <1>1, <1>c, <1>2, <1>3, <1>4, <1>7, <2>1, <2>2 DEF Ends, Leaving, Types, CommandTypes
      <3> QED
        BY <3>1, LeavingStep
    <2>4. Reported'
      BY <1>1, <1>c, <1>2, <1>3, <1>4, <1>7, <2>1, <2>2 DEF Ends, Reported
    <2>5. Decided'
      BY <1>1, <1>c, <1>2, <1>3, <1>4, <1>7, <2>1, <2>2 DEF Ends, Decided
    <2> QED
      BY <2>3, <2>4, <2>5
  <1>8. CASE /\ ui \in {"canceling", "requesting", "joining_update"} /\ exc' = "interrupt"
             /\ LeaveUnmount \/ UNCHANGED <<ui, abandoned>>
             /\ UNCHANGED <<outcome, queue>>
    <2>1. /\ \/ ui' = "closing" /\ (ut # "done" => abandoned')
             \/ UNCHANGED <<ui, abandoned>>
          /\ outcome' # "crashed"
      BY <1>8 DEF LeaveUnmount, Stages
    <2>2. Types'
      <3>1. CommandTypes' /\ ThreadTypes'
        BY <1>1, <1>2, <1>8, <2>1 DEF Types, CommandTypes, ThreadTypes
      <3>2. HeapTypes'
        BY <1>1 DEF Types, HeapTypes
      <3> QED
        BY <3>1, <3>2 DEF Types
    <2>3. Stages'
      BY <1>1, <1>8, <2>1 DEF Stages, Entered, Outlived
    <2>4. Reported' /\ Decided'
      BY <1>1, <1>c, <1>2, <1>3, <1>4, <1>8, <2>1 DEF Reported, Decided
    <2> QED
      BY <2>2, <2>3, <2>4
  <1> QED
    BY <1>1, <1>5, <1>6, <1>7, <1>8 DEF Interrupted, Unmount, view

-----------------------------------------------------------------------------
(* Second, what the heap is *)

\* What has been sent is under way, in the hands of the thread, or added; and
\* that thread is only stopped in the middle of that when nobody is connected.
Received ==
    /\ bg = "adding" => \E burst \in Bursts : pending = <<burst>>
    /\ bg # "adding" => pending = <<>>
    /\ d_stop_thread => bg = "done" \/ ui = "joining_reader"
    /\ ui \in {"connecting", "stopping", "joining_reader", "forgetting", "left", "exiting", "exited"} => ~connected
    /\ ui = "connecting" => allocated = {} /\ heap = {} /\ wire = <<>>
    /\ connected => allocated = FoldLeft(SymDiff, heap, pending \o wire)

FetchedSnapshots == {EmptySnapshot} \cup {s.snapshot : s \in Snapshots}
Messages == [snapshot : FetchedSnapshots, disconnected : BOOLEAN]

\* A snapshot that tells the end is the last, of a heap to which nothing more
\* is added.
IsLast(s) ==
    /\ ut = "done" /\ d_stop_thread
    /\ ~stale => s.heap_size = HeapSize(heap)

Shown ==
    /\ {"latest", "disconnected"} \subseteq DOMAIN screen
    /\ fetched \in FetchedSnapshots /\ queue \in Seq(Messages)
    /\ ui = "running" /\ ut = "posting" /\ ~stale => fetched.heap_size = HeapSize(heap)
    /\ \A i \in 1..Len(queue) : queue[i].disconnected => i = Len(queue) /\ IsLast(queue[i].snapshot)
    /\ screen.disconnected => queue = <<>> /\ IsLast(screen.latest)

HeapInv == Received /\ Shown

-----------------------------------------------------------------------------
(* What is received *)

\* Nothing that Received tells of changes.
LEMMA ReceivedStays ==
    ASSUME Received, UNCHANGED <<bg, pending, d_stop_thread, connected, allocated, heap, wire>>,
           ui' \in {"connecting", "joining_reader"} => ui = ui',
           ui' \in {"stopping", "forgetting", "left", "exiting", "exited"} =>
              ui \in {"connecting", "stopping", "joining_reader", "forgetting", "left", "exiting", "exited"},
           ui = "joining_reader" => ui' = ui \/ bg = "done"
    PROVE  Received'
BY DEF Received

\* Only what a remote sends to somebody who is connected is under way.
LEMMA ProcessReceived ==
    ASSUME IInv, Received, Process
    PROVE  Received'
<1>1. UNCHANGED <<ui, bg, pending, d_stop_thread, connected, heap>>
  BY DEF Process, RemoteListens, RemoteTracks, RemoteFails, RemoteAnswers, RemoteSends, RemoteEnds,
         ProcessOnly, main, reader
<1>2. CASE UNCHANGED <<allocated, wire>>
  BY <1>1, <1>2, ReceivedStays
<1>3. CASE RemoteSends
  <2>1. PICK burst \in Bursts : allocated' = SymDiff(allocated, burst) /\ wire' = Append(wire, burst)
    BY <1>3 DEF RemoteSends
  <2>2. connected /\ connected'
    BY <1>1, <1>3 DEF RemoteSends
  <2>3. pending \in Seq(SUBSET Blocks) /\ wire \in Seq(SUBSET Blocks) /\ burst \in SUBSET Blocks
    <3>1. Seq(Bursts) \subseteq Seq(SUBSET Blocks)
      BY BurstsAssumption
    <3> QED BY <3>1, BurstsAssumption DEF IInv, Types, HeapTypes
  <2>4. pending \o Append(wire, burst) = Append(pending \o wire, burst) /\ pending \o wire \in Seq(SUBSET Blocks)
    BY <2>3
  <2>5. heap \subseteq Blocks
    BY DEF IInv, Types, HeapTypes
  <2>6. allocated' = FoldLeft(SymDiff, heap, pending \o wire')
    <3> DEFINE s == pending \o wire
    <3>1. FoldLeft(SymDiff, heap, Append(s, burst)) = SymDiff(FoldLeft(SymDiff, heap, s), burst)
      <4>1. s \in Seq(SUBSET Blocks)
        BY <2>4
      <4> HIDE DEF s
      <4> QED BY <2>3, <2>5, <4>1, FoldOfAppend
    <3>2. allocated = FoldLeft(SymDiff, heap, s)
      BY <2>2 DEF Received
    <3>3. pending \o wire' = Append(s, burst)
      BY <2>1, <2>4
    <3> HIDE DEF s
    <3> QED BY <2>1, <3>1, <3>2, <3>3
  <2>7. ui # "connecting"
    BY <2>2 DEF Received
  <2> QED BY <1>1, <2>2, <2>6, <2>7 DEF Received
<1>4. UNCHANGED <<allocated, wire>> \/ RemoteSends
  BY DEF Process, RemoteListens, RemoteTracks, RemoteFails, RemoteAnswers, RemoteEnds
<1> QED BY <1>2, <1>3, <1>4

\* What the thread reads it has in its hands, and then adds.
LEMMA BackgroundReceived ==
    ASSUME IInv, Received, Background
    PROVE  Received'
<1>1. UNCHANGED <<ui, connected, allocated>> /\ ui \in {"mounting", "running", "canceling", "requesting",
            "joining_update", "closing", "stopping", "joining_reader"}
  <2>1. UNCHANGED <<ui, connected, allocated>>
    BY DEF Background, ReadRecord, ReadEnd, Add, ReaderOnly, main
  <2>2. bg \in {"loop", "adding"}
    BY DEF Background, ReadRecord, ReadEnd, Add
  <2> QED BY <2>1, <2>2 DEF IInv, Stages, Entered
<1>2. /\ pending \in Seq(SUBSET Blocks) /\ wire \in Seq(SUBSET Blocks) /\ heap \subseteq Blocks
      /\ wire \in Seq(Bursts) /\ Bursts \subseteq SUBSET Blocks
  <2>1. Seq(Bursts) \subseteq Seq(SUBSET Blocks)
    BY BurstsAssumption
  <2> QED BY <2>1, BurstsAssumption DEF IInv, Types, HeapTypes
<1>3. CASE ReadRecord
  <2>1. /\ bg = "loop" /\ bg' = "adding" /\ wire # <<>> /\ ~d_stop_thread
        /\ pending' = <<Head(wire)>> /\ wire' = Tail(wire) /\ UNCHANGED <<heap, d_stop_thread>>
    BY <1>3 DEF ReadRecord
  <2>2. Head(wire) \in Bursts /\ <<Head(wire)>> \o Tail(wire) = wire
    BY <1>2, <2>1
  <2>3. pending = <<>> /\ pending \o wire = wire
    BY <1>2, <2>1 DEF Received
  <2>4. pending' \o wire' = pending \o wire
    BY <2>1, <2>2, <2>3
  <2>5. \E burst \in Bursts : pending' = <<burst>>
    BY <2>1, <2>2
  <2>6. connected' => allocated' = FoldLeft(SymDiff, heap', pending' \o wire')
    BY <1>1, <2>1, <2>4 DEF Received
  <2> QED BY <1>1, <2>1, <2>5, <2>6 DEF Received
<1>4. CASE ReadEnd
  <2>1. bg = "loop" /\ bg' = "done" /\ UNCHANGED <<wire, pending, heap>>
    BY <1>4 DEF ReadEnd
  <2> QED BY <1>1, <2>1 DEF Received
<1>5. CASE Add
  <2>1. bg = "adding" /\ pending' = <<>> /\ UNCHANGED <<wire, d_stop_thread>> /\ bg' # "adding"
    BY <1>5 DEF Add
  <2>2. PICK burst \in Bursts : pending = <<burst>>
    BY <2>1 DEF Received
  <2>3. CASE d_stop_thread
    <3>1. ~connected' /\ bg' = "done"
      BY <1>1, <1>5, <2>1, <2>3 DEF Received, Add
    <3> QED BY <1>1, <2>1, <3>1 DEF Received
  <2>4. CASE ~d_stop_thread
    <3>1. heap' = SymDiff(heap, burst) /\ bg' = "loop"
      BY <1>5, <2>2, <2>4 DEF Add
    <3>2. FoldLeft(SymDiff, heap, <<burst>> \o wire) = FoldLeft(SymDiff, heap', wire)
      <4>1. FoldLeft(SymDiff, heap, <<burst>> \o wire) = FoldLeft(SymDiff, SymDiff(heap, burst), wire)
        BY <1>2, <2>2, FoldOfFirst
      <4> QED BY <3>1, <4>1
    <3>3. pending' \o wire' = wire
      BY <1>2, <2>1
    <3>4. connected' => allocated' = FoldLeft(SymDiff, heap', pending' \o wire')
      BY <1>1, <2>2, <3>2, <3>3 DEF Received
    <3> QED BY <1>1, <2>1, <2>4, <3>1, <3>4 DEF Received
  <2> QED BY <2>3, <2>4
<1> QED BY <1>3, <1>4, <1>5 DEF Background

\* The main thread connects to a process that has sent nothing yet, and is no
\* longer connected when it stops the thread.
LEMMA MainReceived ==
    ASSUME IInv, Received, Main \/ schedule_update \/ User \/ Update \/ Errors
    PROVE  Received'
<1> USE DEF main, process, channel, reader, Goes
<1>1. CASE Connect
  <2>1. /\ ui = "connecting" /\ ui' = "header" /\ connected' = TRUE
        /\ UNCHANGED <<wire, allocated, d_stop_thread, bg, pending, heap>>
    BY <1>1 DEF Connect
  <2>2. bg = "none" /\ pending = <<>> /\ wire = <<>> /\ heap = {} /\ allocated = {} /\ ~d_stop_thread
    BY <2>1 DEF Received, IInv, Stages
  <2>3. pending \o wire = <<>>
    BY <2>2
  <2>4. allocated' = FoldLeft(SymDiff, heap', pending' \o wire')
    <3>1. FoldLeft(SymDiff, heap, <<>>) = heap
      BY <2>2, FoldOfNone
    <3> QED BY <2>1, <2>2, <2>3, <3>1
  <2> QED BY <2>1, <2>2, <2>4 DEF Received
<1>2. CASE Enter
  <2>1. /\ ui = "header" /\ ui' = "mounting" /\ bg' = "loop" /\ bg = "none"
        /\ UNCHANGED <<wire, allocated, connected, d_stop_thread, pending, heap>>
    BY <1>2 DEF Enter, IInv, Stages
  <2> QED BY <2>1 DEF Received
<1>3. CASE NoHeader
  <2>1. /\ ui = "header" /\ ui' = "left" /\ connected' = FALSE /\ bg = "none"
        /\ UNCHANGED <<wire, allocated, d_stop_thread, bg, pending, heap>>
    BY <1>3 DEF NoHeader, Raises, IInv, Stages
  <2> QED BY <2>1 DEF Received
<1>4. CASE Close
  <2>1. /\ ui = "closing" /\ ui' = "stopping" /\ connected' = FALSE
        /\ UNCHANGED <<wire, allocated, d_stop_thread, bg, pending, heap>>
    BY <1>4 DEF Close
  <2> QED BY <2>1 DEF Received
<1>5. CASE Stop
  <2>1. /\ ui = "stopping" /\ ui' = "joining_reader" /\ d_stop_thread' = TRUE
        /\ UNCHANGED <<wire, allocated, connected, bg, pending, heap>>
    BY <1>5 DEF Stop
  <2> QED BY <2>1 DEF Received
<1>6. CASE \/ Mount \/ OnSnapshotFetched \/ Cancel \/ RequestLast \/ JoinUpdate \/ JoinReader \/ Forget
           \/ schedule_update \/ PressKey \/ Quit \/ Update \/ Errors
  <2>1. UNCHANGED <<bg, pending, d_stop_thread, connected, allocated, heap, wire>>
    BY <1>6 DEF Mount, OnSnapshotFetched, Cancel, RequestLast, JoinUpdate, JoinReader, Forget, Crash, Deleted,
           schedule_update, PressKey, Quit, Update, Wake, Clear, Fetch, Post, Return, UpdatesOnly, Errors, ReadError, Kill
  <2>2. \/ UNCHANGED ui
        \/ ui' \in {"running", "canceling", "requesting", "joining_update", "closing"} /\ ui # "joining_reader"
        \/ ui = "joining_reader" /\ ui' = "forgetting" /\ bg = "done"
        \/ ui = "forgetting" /\ ui' \in {"left", "exited"}
    BY <1>6 DEF Mount, OnSnapshotFetched, Cancel, RequestLast, JoinUpdate, JoinReader, Forget, Crash, Deleted,
           schedule_update, PressKey, Quit, Update, Wake, Clear, Fetch, Post, Return, UpdatesOnly, Errors, ReadError, Kill
  <2> QED BY <2>1, <2>2, ReceivedStays
<1>7. CASE LeaveLive \/ LeaveRun \/ LeaveAttach \/ Exit
  <2>1. UNCHANGED <<bg, pending, d_stop_thread, connected, allocated, heap, wire>>
    BY <1>7 DEF LeaveLive, LeaveRun, LeaveAttach, Exit
  <2>2. ui \in {"left", "exiting"} /\ ui' \in {"exiting", "exited"}
    BY <1>7 DEF LeaveLive, LeaveRun, LeaveAttach, Exit, Ends
  <2> QED BY <2>1, <2>2, ReceivedStays
<1>8. CASE CtrlC \/ Sigint
  <2>1. UNCHANGED <<bg, pending, d_stop_thread, connected, allocated, heap, wire>> /\ Interrupted
    BY <1>8 DEF CtrlC, Sigint
  <2>2. \/ ui \in {"connecting", "left"} /\ ui' \in {"left", "exiting"}
        \/ ui = "running" /\ ui' = "canceling"
        \/ ui \in {"canceling", "requesting", "joining_update"} /\ ui' \in {ui, "closing"}
    BY <2>1 DEF Interrupted, LeaveUnmount, Raises, Ends
  <2> QED BY <2>1, <2>2, ReceivedStays
<1> QED BY <1>1, <1>2, <1>3, <1>4, <1>5, <1>6, <1>7, <1>8 DEF Main, User

-----------------------------------------------------------------------------
(* What is shown *)

\* The screen has the same snapshot, and says the same of the remote.
Keeps(s, t) ==
    /\ {"latest", "disconnected"} \subseteq DOMAIN t
    /\ t.latest = s.latest /\ t.disconnected = s.disconnected

\* To display a snapshot does not change which one is shown.
LEMMA DisplayKeeps ==
    ASSUME NEW s, {"latest", "disconnected"} \subseteq DOMAIN s, display_snapshot(s)
    PROVE  Keeps(s, screen')
<1>1. Keeps(s, WithNewThreads(s))
  BY DEF Keeps, WithNewThreads
<1>2. screen' = s \/ screen' = WithNewThreads(s)
  BY DEF display_snapshot
<1> QED BY <1>1, <1>2 DEF Keeps

\* No key changes what the screen was given.
LEMMA PressKeeps ==
    ASSUME {"latest", "disconnected"} \subseteq DOMAIN screen, NEW k, Press(k)
    PROVE  Keeps(screen, screen')
<1>1. CASE action_toggle_merge_threads
  BY <1>1 DEF action_toggle_merge_threads, Keeps
<1>2. CASE \E idx : GoToThread(idx)
  BY <1>2 DEF GoToThread, Keeps
<1>3. CASE \E c : action_sort(c)
  BY <1>3 DEF action_sort, Keeps
<1>4. CASE action_toggle_pause
  <2> DEFINE s == [screen EXCEPT !.paused = ~@]
  <2>1. Keeps(screen, s)
    BY DEF Keeps
  <2>2. screen' = s \/ display_snapshot(s)
    BY <1>4 DEF action_toggle_pause
  <2> HIDE DEF s
  <2>3. Keeps(s, screen')
    BY <2>1, <2>2, DisplayKeeps DEF Keeps
  <2> QED BY <2>1, <2>3 DEF Keeps
<1> QED BY <1>1, <1>2, <1>3, <1>4 DEF Press

\* A message is what the screen has then, and it remembers the end.
LEMMA FetchedIsLatest ==
    ASSUME {"latest", "disconnected"} \subseteq DOMAIN screen, NEW snapshot, NEW disconnected \in BOOLEAN,
           on_snapshot_fetched(snapshot, disconnected)
    PROVE  /\ {"latest", "disconnected"} \subseteq DOMAIN screen'
           /\ screen'.latest = snapshot
           /\ screen'.disconnected => screen.disconnected \/ disconnected
<1> DEFINE s == [screen EXCEPT !.latest = snapshot, !.disconnected = @ \/ disconnected]
<1>1. /\ {"latest", "disconnected"} \subseteq DOMAIN s
      /\ s.latest = snapshot /\ s.disconnected = (screen.disconnected \/ disconnected)
  OBVIOUS
<1>2. display_snapshot(s)
  BY DEF on_snapshot_fetched
<1> HIDE DEF s
<1>3. Keeps(s, screen')
  BY <1>1, <1>2, DisplayKeeps
<1> QED BY <1>1, <1>3 DEF Keeps

\* Nothing that Shown tells of changes, but who goes on and where.
LEMMA ShownStays ==
    ASSUME Shown, UNCHANGED <<fetched, queue, heap, stale, screen>>,
           d_stop_thread => d_stop_thread', ut = "done" => ut' = "done",
           ut' = "posting" => ut = "posting" /\ (ui' = "running" => ui = "running")
    PROVE  Shown'
<1>1. ASSUME NEW s, IsLast(s) PROVE IsLast(s)'
  BY <1>1 DEF IsLast
<1> QED BY <1>1 DEF Shown

\* Only what is left of a session without a screen.
LEMMA ShownUnmounted ==
    ASSUME Shown, UNCHANGED <<fetched, heap, stale, ut, d_stop_thread>>, Unmount, ui' # "running"
    PROVE  Shown'
<1>1. queue' = <<>> /\ screen' = InitialScreen
  BY DEF Unmount
<1>2. {"latest", "disconnected"} \subseteq DOMAIN InitialScreen /\ ~InitialScreen.disconnected
  BY DEF InitialScreen
<1> QED BY <1>1, <1>2 DEF Shown

\* What is added after the end is nothing; before, the snapshots are outdated.
LEMMA BackgroundShown ==
    ASSUME Shown, Background
    PROVE  Shown'
<1>1. UNCHANGED <<fetched, queue, screen, ut, ui>>
  BY DEF Background, ReadRecord, ReadEnd, Add, ReaderOnly, updates, view, main
<1>2. CASE ReadRecord \/ ReadEnd
  <2>1. UNCHANGED <<heap, stale>> /\ (d_stop_thread => d_stop_thread')
    BY <1>2 DEF ReadRecord, ReadEnd, histories
  <2> QED BY <1>1, <2>1, ShownStays
<1>3. CASE Add /\ d_stop_thread
  <2>1. UNCHANGED <<heap, stale, d_stop_thread>>
    BY <1>3 DEF Add
  <2> QED BY <1>1, <2>1, ShownStays
<1>4. CASE Add /\ ~d_stop_thread
  <2>1. stale' = TRUE /\ \A s : ~IsLast(s)
    BY <1>4 DEF Add, IsLast
  <2> QED BY <1>1, <2>1 DEF Shown
<1> QED BY <1>2, <1>3, <1>4 DEF Background

\* A snapshot is of the heap at that moment, and the one that tells the end is
\* fetched before the reader is found stopped.
LEMMA UpdateShown ==
    ASSUME IInv, Shown, Update
    PROVE  Shown'
<1>0. CASE Crash
  <2>1. UNCHANGED <<fetched, queue, heap, stale, screen, d_stop_thread>> /\ ut' = "done"
    BY <1>0 DEF Crash, reader, histories, view
  <2> QED BY <2>1, ShownStays
<1>1. ASSUME ~Crash PROVE UNCHANGED <<heap, screen, d_stop_thread, impl, ui>> /\ ut # "done"
  BY <1>1 DEF Update, Wake, Clear, Fetch, Post, Return, UpdatesOnly, reader, view, main
<1> SUFFICES ASSUME ~Crash PROVE Shown'
  BY <1>0
<1>2. ~screen.disconnected /\ \A i \in 1..Len(queue) : ~queue[i].disconnected
  BY <1>1 DEF Shown, IsLast
<1>3. CASE Wake \/ Clear \/ Return
  <2>1. UNCHANGED <<fetched, queue, stale>> /\ ut' # "posting"
    BY <1>3 DEF Wake, Clear, Return, histories
  <2> QED BY <1>1, <1>2, <2>1, ShownStays
<1>4. CASE Fetch
  <2>1. PICK s \in Snapshots : (Deleted \/ s.heap = IF impl THEN heap ELSE {}) /\ fetched' = s.snapshot
    BY <1>4 DEF Fetch
  <2>2. ui = "running" => s.snapshot.heap_size = HeapSize(heap)
    <3> SUFFICES ASSUME ui = "running" PROVE s.snapshot.heap_size = HeapSize(heap)
      OBVIOUS
    <3>h. s.heap = heap
      BY <2>1 DEF Deleted, IInv, Stages, Entered
    <3>0. PICK blocks \in SUBSET Blocks :
             \E records \in SetToSeqs(RecordsOf(blocks)) : s = [heap |-> blocks, snapshot |-> SnapshotOf(records)]
      BY DEF Snapshots
    <3>1. PICK records \in SetToSeqs(RecordsOf(blocks)) : s = [heap |-> blocks, snapshot |-> SnapshotOf(records)]
      BY <3>0
    <3>2. blocks = heap /\ s.snapshot.heap_size = SizeOf(records)
      BY <3>h, <3>1 DEF SnapshotOf
    <3>3. SizeOf(records) = HeapSize(blocks)
      BY SizeOfHeap
    <3> QED BY <3>2, <3>3
  <2>3. fetched' \in FetchedSnapshots
    BY <2>1 DEF FetchedSnapshots
  <2>4. UNCHANGED queue
    BY <1>4 DEF Fetch
  <2> QED BY <1>1, <1>2, <2>1, <2>2, <2>3, <2>4 DEF Shown, FetchedSnapshots
<1>5. CASE Post
  <2>1. /\ ut = "posting" /\ fetched' = EmptySnapshot /\ UNCHANGED stale
        /\ ut' \in {"posted", "done"}
        /\ ui = "running" => ut' = IF is_active THEN "posted" ELSE "done"
    BY <1>5 DEF Post, histories, IsActive, Deleted, IInv, Stages
  <2> DEFINE m == [snapshot |-> fetched, disconnected |-> ~is_active]
  <2>2. m \in Messages /\ EmptySnapshot \in FetchedSnapshots
    BY DEF Messages, FetchedSnapshots, Shown, is_active
  <2>3. queue' = queue \/ (ui = "running" /\ queue' = Append(queue, m))
    BY <1>5 DEF Post
  <2>4. ui = "running" /\ m.disconnected =>
                          /\ ut' = "done" /\ d_stop_thread'
                          /\ ~stale' => fetched.heap_size = HeapSize(heap')
    <3>1. ui = "running" => impl
      BY DEF IInv, Stages, Entered
    <3>2. ui = "running" /\ ~is_active => d_stop_thread /\ ut' = "done"
      BY <2>1, <3>1 DEF is_active
    <3>3. ui = "running" /\ ~stale => fetched.heap_size = HeapSize(heap)
      BY <2>1 DEF Shown
    <3>4. m.disconnected => ~is_active
      <4>1. m.disconnected = ~is_active
        OBVIOUS
      <4> HIDE DEF m
      <4> QED BY <4>1, Zenon
    <3> HIDE DEF m
    <3>5. UNCHANGED <<heap, stale, d_stop_thread>>
      BY <1>1, <2>1
    <3>6. ui = "running" /\ m.disconnected => ut' = "done" /\ d_stop_thread
      BY <3>2, <3>4
    <3> QED BY <3>3, <3>5, <3>6
  <2>5. m.snapshot = fetched
    OBVIOUS
  <2> HIDE DEF m
  <2>6. CASE queue' = queue
    BY <1>1, <1>2, <2>1, <2>2, <2>6 DEF Shown
  <2>7. CASE ui = "running" /\ queue' = Append(queue, m)
    <3>1. queue' \in Seq(Messages) /\ Len(queue') = Len(queue) + 1 /\ Len(queue) \in Nat
      BY <2>2, <2>7 DEF Shown
    <3>2. ASSUME NEW i \in 1..Len(queue'), queue'[i].disconnected
          PROVE  i = Len(queue') /\ queue'[i] = m
      <4>1. i \in 1..Len(queue) => queue'[i] = queue[i]
        BY <2>7, <3>1 DEF Shown
      <4>2. i \notin 1..Len(queue)
        BY <1>2, <3>2, <4>1
      <4>3. i = Len(queue) + 1
        BY <3>1, <4>2
      <4> QED BY <2>7, <3>1, <4>3 DEF Shown
    <3>3. ASSUME NEW i \in 1..Len(queue'), queue'[i].disconnected
          PROVE  i = Len(queue') /\ IsLast(queue[i].snapshot)'
      <4>1. i = Len(queue') /\ queue'[i] = m
        BY <3>2, <3>3
      <4>2. ut' = "done" /\ d_stop_thread' /\ (~stale' => queue'[i].snapshot.heap_size = HeapSize(heap'))
        BY <2>4, <2>5, <2>7, <3>3, <4>1
      <4> QED BY <4>1, <4>2 DEF IsLast
    <3>4. ~screen'.disconnected /\ {"latest", "disconnected"} \subseteq DOMAIN screen'
      BY <1>1, <1>2 DEF Shown
    <3>5. fetched' \in FetchedSnapshots /\ ut' # "posting"
      BY <2>1, <2>2
    <3> QED BY <3>1, <3>3, <3>4, <3>5 DEF Shown
  <2> QED BY <2>3, <2>6, <2>7
<1> QED BY <1>3, <1>4, <1>5 DEF Update

\* The screen gets the messages in turn; when it is left they are gone.
LEMMA MainShown ==
    ASSUME IInv, Shown, Main \/ schedule_update \/ User \/ Process \/ Errors
    PROVE  Shown'
<1> USE DEF main, process, channel, reader, Goes, updates, histories, view
<1>1. CASE OnSnapshotFetched
  <2> DEFINE m == Head(queue)
  <2>1. queue # <<>> /\ queue' = Tail(queue) /\ on_snapshot_fetched(m.snapshot, m.disconnected)
        /\ UNCHANGED <<fetched, heap, stale, ut, d_stop_thread, ui>>
    BY <1>1 DEF OnSnapshotFetched
  <2>2. queue \in Seq(Messages)
    BY DEF Shown
  <2>3. m \in Messages /\ m = queue[1] /\ queue' \in Seq(Messages) /\ Len(queue) \in Nat \ {0}
        /\ Len(queue') = Len(queue) - 1 /\ \A i \in 1..Len(queue') : queue'[i] = queue[i + 1]
    BY <2>1, <2>2
  <2>4. m.disconnected \in BOOLEAN
    BY <2>3 DEF Messages
  <2> HIDE DEF m
  <2>5. /\ {"latest", "disconnected"} \subseteq DOMAIN screen'
        /\ screen'.latest = m.snapshot
        /\ screen'.disconnected => m.disconnected
    <3>1. {"latest", "disconnected"} \subseteq DOMAIN screen /\ ~screen.disconnected
      BY <2>1 DEF Shown
    <3> QED BY <2>1, <2>4, <3>1, FetchedIsLatest
  <2>6. ASSUME NEW s, IsLast(s) PROVE IsLast(s)'
    BY <2>1, <2>6 DEF IsLast
  <2>7. screen'.disconnected => queue' = <<>> /\ IsLast(m.snapshot)
    <3>1. 1 \in 1..Len(queue)
      BY <2>3
    <3>2. m.disconnected => 1 = Len(queue) /\ IsLast(m.snapshot)
      BY <2>3, <3>1 DEF Shown
    <3>3. Len(queue) = 1 => queue' = <<>>
      BY <2>3
    <3> QED BY <2>5, <3>2, <3>3
  <2>8. ASSUME NEW i \in 1..Len(queue'), queue'[i].disconnected
        PROVE  i = Len(queue') /\ IsLast(queue'[i].snapshot)
    <3>1. i + 1 \in 1..Len(queue) /\ queue'[i] = queue[i + 1]
      BY <2>3
    <3>2. i + 1 = Len(queue) /\ IsLast(queue[i + 1].snapshot)
      BY <2>8, <3>1 DEF Shown
    <3> QED BY <2>3, <3>1, <3>2
  <2>9. screen'.disconnected => queue' = <<>> /\ IsLast(screen.latest)'
    <3>1. screen'.disconnected => /\ ut = "done" /\ d_stop_thread
                                  /\ ~stale => screen'.latest.heap_size = HeapSize(heap)
      BY <2>5, <2>7 DEF IsLast
    <3> QED BY <2>1, <2>7, <3>1 DEF IsLast
  <2>10. ASSUME NEW i \in 1..Len(queue'), queue'[i].disconnected
        PROVE  i = Len(queue') /\ IsLast(queue[i].snapshot)'
    BY <2>1, <2>8, <2>10 DEF IsLast
  <2>11. fetched' \in FetchedSnapshots /\ (ui' = "running" /\ ut' = "posting" /\ ~stale' => fetched'.heap_size = HeapSize(heap'))
    BY <2>1 DEF Shown
  <2> QED BY <2>3, <2>5, <2>9, <2>10, <2>11 DEF Shown
<1>2. CASE PressKey
  <2>1. UNCHANGED <<fetched, queue, heap, stale, ut, d_stop_thread, ui>>
    BY <1>2 DEF PressKey
  <2>2. Keeps(screen, screen')
    <3>1. {"latest", "disconnected"} \subseteq DOMAIN screen
      BY DEF Shown
    <3> QED BY <1>2, <3>1, PressKeeps DEF PressKey
  <2>3. ASSUME NEW s, IsLast(s) PROVE IsLast(s)'
    BY <2>1, <2>3 DEF IsLast
  <2> QED BY <2>1, <2>2, <2>3 DEF Shown, Keeps
<1>3. CASE Quit
  <2>1. UNCHANGED <<fetched, heap, stale, ut, d_stop_thread>> /\ Unmount /\ ui' # "running"
    BY <1>3 DEF Quit
  <2> QED BY <2>1, ShownUnmounted
<1>4. CASE CtrlC \/ Sigint
  <2>1. UNCHANGED <<fetched, heap, ut, d_stop_thread>> /\ Interrupted
    BY <1>4 DEF CtrlC, Sigint
  <2>2. UNCHANGED stale /\ ui' # "running" /\ (Unmount \/ UNCHANGED <<queue, screen>>)
    BY <2>1 DEF Interrupted, LeaveUnmount, Raises, Ends
  <2> QED BY <2>1, <2>2, ShownUnmounted, ShownStays
<1>5. CASE Mount
  <2>1. UNCHANGED <<fetched, queue, heap, stale, screen, d_stop_thread>> /\ ut' = "waiting" /\ ui = "mounting"
    BY <1>5 DEF Mount
  <2>2. ut = "new"
    BY <2>1 DEF IInv, Stages
  <2> QED BY <2>1, <2>2, ShownStays
<1>6. CASE \/ Connect \/ Enter \/ NoHeader \/ Cancel \/ RequestLast \/ JoinUpdate \/ Close
           \/ JoinReader \/ Forget \/ schedule_update \/ Stop
  <2>1. UNCHANGED <<fetched, queue, heap, stale, screen, ut>> /\ (d_stop_thread => d_stop_thread')
        /\ (ui' = "running" => ui = "running")
    BY <1>6 DEF Connect, Enter, NoHeader, Cancel, RequestLast, JoinUpdate, Close, JoinReader, Forget,
                schedule_update, Stop, Raises
  <2> QED BY <2>1, ShownStays
<1>7. CASE LeaveLive \/ LeaveRun \/ LeaveAttach \/ Exit \/ Process \/ Errors
  <2>1. UNCHANGED <<fetched, queue, heap, stale, screen, ut, d_stop_thread>> /\ (ui' = "running" => ui = "running")
    BY <1>7 DEF LeaveLive, LeaveRun, LeaveAttach, Exit, Process, RemoteListens, RemoteTracks, RemoteFails,
                RemoteAnswers, RemoteSends, RemoteEnds, ProcessOnly, Errors, ReadError, Kill, Ends
  <2> QED BY <2>1, ShownStays
<1> QED BY <1>1, <1>2, <1>3, <1>4, <1>5, <1>6, <1>7 DEF Main, User

-----------------------------------------------------------------------------
\* The invariant holds of every session, of whatever command.
THEOREM Invariance == Spec => []IInv
<1>1. Init => IInv
  <2> SUFFICES ASSUME Init PROVE IInv
    OBVIOUS
  <2> USE DEF Init, InitSession
  <2>1. CommandTypes /\ ThreadTypes /\ HeapTypes
    BY DEF CommandTypes, ThreadTypes, HeapTypes
  <2> QED
    BY <2>1 DEF IInv, Types, Stages, Entered, Reported, Decided
<1>2. IInv /\ [Next]_vars => IInv'
  <2> SUFFICES ASSUME IInv, [Next]_vars PROVE IInv'
    OBVIOUS
  <2>1. CASE UNCHANGED vars
    <3> USE <2>1 DEF vars, main, process, channel, reader, updates, bounds, histories, IInv
    <3>1. CommandTypes' /\ ThreadTypes' /\ HeapTypes'
      BY DEF Types, CommandTypes, ThreadTypes, HeapTypes
    <3>2. Stages' /\ Reported' /\ Decided'
      BY DEF Stages, Entered, Outlived, Reported, Decided
    <3> QED
      BY <3>1, <3>2 DEF Types
  <2>2. CASE Next
    BY <2>2, ProcessStep, BackgroundStep, UpdateStep, CrashStep, ErrorsStep, SessionStep, NoHeaderStep,
       LeaveStep, InterruptStep
    DEF Next, Main, User
  <2> QED
    BY <2>1, <2>2
<1> QED
  BY <1>1, <1>2, PTL DEF Spec

\* However the session is left, by the user, by Ctrl-C or by the end of the
\* process, neither thread asks a reader that is being deleted and nothing
\* crashes, if no interrupt has cut the main thread's wait for UpdateThread short.
THEOREM ReaderOutlivesItsThreads == Spec => []NoUseAfterTeardown
<1>1. IInv => NoUseAfterTeardown
  <2> SUFFICES ASSUME IInv PROVE NoUseAfterTeardown
    OBVIOUS
  <2>1. TypeOK
    BY DEF IInv, Types, CommandTypes, ThreadTypes, HeapTypes, Stages, Entered, Reported, TypeOK
  <2> QED
    BY <2>1 DEF IInv, Types, CommandTypes, ThreadTypes, Stages, Entered, Outlived, Deleted, NoUseAfterTeardown
<1> QED
  BY <1>1, Invariance, PTL

\* Whatever the order in which attach leaves its screen, its error reader ends
\* and Ctrl-C is pressed, an error that was reported is what it ends with.
THEOREM AttachReportsErrors == Spec => []ErrorIsReported
<1>1. IInv => ErrorIsReported
  BY DEF IInv, Decided, ErrorIsReported
<1> QED
  BY <1>1, Invariance, PTL

\* The second invariant: what is under way, read, fetched, on its way to the
\* screen and shown is all of one heap, that of the tracked process.
THEOREM HeapInvariance == Spec => []HeapInv
<1>1. Init => HeapInv
  <2> SUFFICES ASSUME Init PROVE HeapInv
    OBVIOUS
  <2> USE DEF Init, InitSession, InitView
  <2>1. Received
    BY DEF Received
  <2>2. {"latest", "disconnected"} \subseteq DOMAIN InitialScreen /\ ~InitialScreen.disconnected
    BY DEF InitialScreen
  <2>3. Shown
    BY <2>2 DEF Shown, FetchedSnapshots
  <2> QED BY <2>1, <2>3 DEF HeapInv
<1>2. IInv /\ HeapInv /\ [Next]_vars => HeapInv'
  <2> SUFFICES ASSUME IInv, HeapInv, [Next]_vars PROVE HeapInv'
    OBVIOUS
  <2>1. CASE UNCHANGED vars
    <3>1. Received'
      BY <2>1, ReceivedStays DEF vars, main, process, reader, HeapInv
    <3>2. Shown'
      BY <2>1, ShownStays DEF vars, main, reader, updates, histories, view, HeapInv
    <3> QED BY <3>1, <3>2 DEF HeapInv
  <2>2. CASE Next
    <3>1. Received'
      BY <2>2, ProcessReceived, BackgroundReceived, MainReceived DEF HeapInv, Next
    <3>2. Shown'
      BY <2>2, BackgroundShown, UpdateShown, MainShown DEF HeapInv, Next
    <3> QED BY <3>1, <3>2 DEF HeapInv
  <2> QED BY <2>1, <2>2
<1> QED BY <1>1, <1>2, Invariance, PTL DEF Spec

\* What is allocated there is what has been added here with what is under way;
\* and the screen that says the remote has disconnected shows all of it, but
\* for what came after the last snapshot.
THEOREM ScreenShowsRemoteHeap == Spec => []HeapIsRemote
<1>1. HeapInv => HeapIsRemote
  BY DEF HeapInv, Received, Shown, IsLast, HeapIsRemote
<1> QED BY <1>1, HeapInvariance, PTL
=============================================================================
