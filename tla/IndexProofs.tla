---------------------------- MODULE IndexProofs ----------------------------
(***************************************************************************)
(* Facts about sets of indexes and about folds over lists that the other   *)
(* theorems rest on. A lemma about a fold cannot take the operator it folds*)
(* as a parameter: FoldDefined and FoldSteps speak of a function F on the  *)
(* pairs of a value and an index instead.                                  *)
(***************************************************************************)
EXTENDS Integers, SequencesExt, FiniteSetTheorems, NaturalsInduction,
        WellFoundedInduction, TLAPS

\* A nonempty set of indexes up to n has a largest one: every CHOOSE
\* of a newest entry, a highest match or a last whole record has a value.
LEMMA MaximumExists ==
  ASSUME NEW n \in Nat, NEW S \in SUBSET (0..n), S # {}
  PROVE  \E i \in S : \A j \in S : j <= i
<1> DEFINE T == {n - i : i \in S}
<1>1. \A i \in S : i \in Nat /\ i <= n /\ n - i \in Nat
  OBVIOUS
<1>2. T \subseteq Nat /\ T # {}
  <2>1. T \subseteq Nat
    BY <1>1
  <2> QED
    BY <2>1
<1>3. PICK t \in T : \A u \in T : ~(<<u, t>> \in OpToRel(<, Nat))
  <2> HIDE DEF T
  <2> QED
    BY <1>2, NatLessThanWellFounded, WFMin
<1>4. \A u \in T : u >= t
  <2> TAKE u \in T
  <2>1. u \in Nat /\ t \in Nat
    BY <1>2
  <2>2. ~(u < t)
    BY <2>1, <1>3 DEF OpToRel
  <2> QED
    BY <2>1, <2>2
<1>5. PICK i \in S : t = n - i
  BY <1>3
<1>6. \A j \in S : j <= i
  <2> TAKE j \in S
  <2>1. n - j \in T
    OBVIOUS
  <2>2. n - j >= n - i
    BY <2>1, <1>4, <1>5
  <2>3. i \in Nat /\ j \in Nat
    BY <1>1
  <2> QED
    BY <2>2, <2>3
<1> QED
  BY <1>6

\* A set that holds 0 and, with an index, the next one, holds all up to n.
LEMMA IndexInduction ==
  ASSUME NEW n \in Nat, NEW T, 0 \in T, \A k \in 1..n : k - 1 \in T => k \in T
  PROVE  \A k \in 0..n : k \in T
<1> DEFINE S == {k \in 0..n : \A j \in 0..k : j \in T}
<1>1. 0 \in S
  OBVIOUS
<1>2. PICK m \in S : \A j \in S : j <= m
  <2>1. S \in SUBSET (0..n)
    OBVIOUS
  <2> HIDE DEF S
  <2> QED
    BY <1>1, <2>1, MaximumExists
<1>3. CASE m < n
  <2>1. m + 1 \in 1..n /\ (m + 1) - 1 = m /\ m \in T
    BY <1>3
  <2>2. m + 1 \in T
    BY <2>1
  <2>3. \A j \in 0..m + 1 : j \in 0..m \/ j = m + 1
    BY <2>1
  <2>4. m + 1 \in S
    BY <2>1, <2>2, <2>3
  <2> QED
    BY <1>2, <2>1, <2>4
<1>4. CASE m >= n
  BY <1>4
<1> QED
  BY <1>3, <1>4

\* The step F of a recursion over D leads from members of X to members of X.
StaysIn(F, D, X) == \A x \in X, i \in D : F[<<x, i>>] \in X

\* Recursion over the subsets of D, one member C[T] at a time, has a solution.
HasSolution(D, C, X, b, F) ==
  \E it \in [SUBSET D -> X] : \A T \in SUBSET D :
    it[T] = IF T = {} THEN b ELSE F[<<it[T \ {C[T]}], C[T]>>]

\* It has one over every finite set.
LEMMA RecursionExists ==
  ASSUME NEW D, IsFiniteSet(D), NEW C, \A T \in SUBSET D : T # {} => C[T] \in T,
         NEW X, NEW b \in X, NEW F, StaysIn(F, D, X)
  PROVE  HasSolution(D, C, X, b, F)
<1> USE DEF StaysIn
<1> DEFINE Sub(n) == {T \in SUBSET D : Cardinality(T) <= n}
           Upto(n, it) == \A T \in Sub(n) :
                            it[T] = IF T = {} THEN b ELSE F[<<it[T \ {C[T]}], C[T]>>]
           N == Cardinality(D)
           S == {n \in 0..N : \E it \in [Sub(n) -> X] : Upto(n, it)}
<1>1. N \in Nat /\ \A T \in SUBSET D : IsFiniteSet(T) /\ Cardinality(T) \in 0..N
  BY FS_CardinalityType, FS_Subset
<1>2. \A T \in SUBSET D : T # {} => /\ T \ {C[T]} \in SUBSET D
                                    /\ Cardinality(T \ {C[T]}) = Cardinality(T) - 1
  BY <1>1, FS_RemoveElement
<1>3. 0 \in S
  <2> DEFINE it == [T \in Sub(0) |-> b]
  <2>1. \A T \in Sub(0) : T = {}
    BY <1>1, FS_EmptySet
  <2>2. it \in [Sub(0) -> X] /\ Upto(0, it)
    BY <2>1
  <2> HIDE DEF it, Sub, Upto
  <2> QED
    BY <1>1, <2>2
<1>4. PICK m \in S : \A n \in S : n <= m
  <2> HIDE DEF S
  <2>1. S \in SUBSET (0..N)
    BY DEF S
  <2> QED
    BY <1>1, <1>3, <2>1, MaximumExists
<1>5. PICK it \in [Sub(m) -> X] : Upto(m, it)
  OBVIOUS
<1>6. m = N
  <2> SUFFICES ASSUME m # N PROVE FALSE
    OBVIOUS
  <2> DEFINE nxt == [T \in Sub(m + 1) |->
                       IF Cardinality(T) <= m THEN it[T] ELSE F[<<it[T \ {C[T]}], C[T]>>]]
  <2>1. m \in Nat /\ m + 1 \in 0..N
    BY <1>1
  <2>2. \A T \in Sub(m + 1) : T # {} => T \ {C[T]} \in Sub(m)
    BY <1>1, <1>2, <2>1
  <2>3. \A T \in Sub(m + 1) : Cardinality(T) <= m => T \in Sub(m)
    OBVIOUS
  <2>4. \A T \in Sub(m + 1) : Cardinality(T) > m => T # {}
    <3>1. Cardinality({}) = 0 /\ ~(0 > m)
      BY <2>1, FS_EmptySet
    <3> QED
      BY <3>1
  <2>5. \A T \in Sub(m) : T \in Sub(m + 1)
    BY <1>1, <2>1
  <2>6. \A T \in Sub(m + 1) : Cardinality(T) <= m \/ Cardinality(T) > m
    BY <1>1, <2>1
  <2>7. nxt \in [Sub(m + 1) -> X]
    <3> SUFFICES ASSUME NEW T \in Sub(m + 1)
                 PROVE  (IF Cardinality(T) <= m THEN it[T] ELSE F[<<it[T \ {C[T]}], C[T]>>]) \in X
      OBVIOUS
    <3>1. CASE Cardinality(T) <= m
      BY <2>3, <3>1
    <3>2. CASE Cardinality(T) > m
      <4>1. T # {} /\ T \ {C[T]} \in Sub(m) /\ C[T] \in D
        BY <2>2, <2>4, <3>2
      <4> HIDE DEF Sub
      <4>2. it[T \ {C[T]}] \in X
        BY <4>1
      <4>3. ~(Cardinality(T) <= m)
        BY <1>1, <2>1, <3>2 DEF Sub
      <4> QED
        BY <4>1, <4>2, <4>3
    <3> QED
      BY <2>6, <3>1, <3>2
  <2>8. \A T \in Sub(m) : nxt[T] = it[T]
    BY <2>5
  <2>9. Upto(m + 1, nxt)
    <3> SUFFICES ASSUME NEW T \in Sub(m + 1)
                 PROVE  nxt[T] = IF T = {} THEN b ELSE F[<<nxt[T \ {C[T]}], C[T]>>]
      OBVIOUS
    <3>1. CASE T = {}
      <4>1. T \in Sub(m)
        BY <2>1, <3>1, FS_EmptySet
      <4> HIDE DEF Sub, nxt
      <4> QED
        BY <1>5, <2>8, <3>1, <4>1
    <3>2. CASE T # {}
      <4>1. nxt[T \ {C[T]}] = it[T \ {C[T]}]
        <5> HIDE DEF Sub, nxt
        <5> QED
          BY <2>2, <2>8, <3>2
      <4>2. nxt[T] = F[<<it[T \ {C[T]}], C[T]>>]
        <5>1. CASE Cardinality(T) <= m
          <6>1. T \in Sub(m)
            BY <2>3, <5>1
          <6> HIDE DEF Sub, nxt
          <6> QED
            BY <1>5, <2>8, <3>2, <6>1
        <5>2. CASE Cardinality(T) > m
          <6>1. ~(Cardinality(T) <= m)
            BY <1>1, <2>1, <5>2
          <6> QED
            BY <6>1
        <5> QED
          BY <2>6, <5>1, <5>2
      <4> QED
        BY <3>2, <4>1, <4>2
    <3> QED
      BY <3>1, <3>2
  <2>10. m + 1 \in S
    <3> HIDE DEF nxt
    <3> QED
      BY <2>1, <2>7, <2>9
  <2> HIDE DEF S, nxt
  <2> QED
    BY <1>4, <2>1, <2>10
<1>7. Sub(m) = SUBSET D
  BY <1>1, <1>6
<1> QED
  BY <1>5, <1>7 DEF HasSolution

\* Max takes the members of 1..n from the last down to the first.
LEMMA MaxOfIndexes ==
  ASSUME NEW n \in Nat
  PROVE  /\ \A T \in SUBSET (1..n) : T # {} => Max(T) \in T
         /\ \A k \in 1..n : Max(1..k) = k
<1>1. ASSUME NEW T \in SUBSET (1..n), T # {} PROVE Max(T) \in T
  <2>1. T \in SUBSET (0..n)
    OBVIOUS
  <2>2. PICK i \in T : \A j \in T : j <= i
    BY <1>1, <2>1, MaximumExists
  <2>3. \A j \in T : i >= j
    BY <2>1, <2>2
  <2> QED
    BY <2>3 DEF Max
<1>2. ASSUME NEW k \in 1..n PROVE Max(1..k) = k
  <2>1. k \in 1..k /\ \A j \in 1..k : k >= j
    OBVIOUS
  <2>2. \A i \in 1..k : (\A j \in 1..k : i >= j) => i = k
    OBVIOUS
  <2> QED
    BY <2>1, <2>2 DEF Max
<1> QED
  BY <1>1, <1>2

\* The recursive function that a fold over a list of length n is defined with.
DefinesFold(n, X, b, F, it) ==
  /\ it \in [SUBSET (1..n) -> X]
  /\ \A T \in SUBSET (1..n) :
       it[T] = IF T = {} THEN b ELSE F[<<it[T \ {Max(T)}], Max(T)>>]

\* It exists.
LEMMA FoldDefined ==
  ASSUME NEW n \in Nat, NEW X, NEW b \in X, NEW F, StaysIn(F, 1..n, X)
  PROVE  \E it : DefinesFold(n, X, b, F, it)
<1> DEFINE D == 1..n
           C == [T \in SUBSET D |-> Max(T)]
<1>1. IsFiniteSet(D)
  BY FS_Interval
<1>2. \A T \in SUBSET D : C[T] = Max(T)
  OBVIOUS
<1>3. \A T \in SUBSET D : T # {} => C[T] \in T
  BY <1>2, MaxOfIndexes
<1>4. HasSolution(D, C, X, b, F)
  <2>1. StaysIn(F, D, X)
    OBVIOUS
  <2> HIDE DEF C, D
  <2> QED
    BY <1>1, <1>3, <2>1, RecursionExists
<1>5. PICK it \in [SUBSET D -> X] : \A T \in SUBSET D :
        it[T] = IF T = {} THEN b ELSE F[<<it[T \ {C[T]}], C[T]>>]
  BY <1>4 DEF HasSolution
<1>6. ASSUME NEW T \in SUBSET D
      PROVE  it[T] = IF T = {} THEN b ELSE F[<<it[T \ {Max(T)}], Max(T)>>]
  <2> HIDE DEF C, D
  <2> QED
    BY <1>2, <1>5
<1> QED
  BY <1>5, <1>6 DEF DefinesFold

\* The values that the steps of a fold go through.
FoldStages(n, X, b, F, g) ==
  /\ g \in [0..n -> X]
  /\ g[0] = b /\ g[n] \in X
  /\ \A k \in 1..n : g[k - 1] \in X /\ g[k] \in X /\ g[k] = F[<<g[k - 1], k>>]

\* What a solution of the recursion satisfies where its values are in X.
FoldSolution(n, X, b, F, it) ==
  /\ it[{}] = b
  /\ \A T \in SUBSET (1..n) :
       T # {} /\ it[T \ {Max(T)}] \in X => it[T] = F[<<it[T \ {Max(T)}], Max(T)>>]

\* What such a function returns, for whatever solution of the recursion it is:
\* the last of the values that the steps go through.
LEMMA FoldSteps ==
  ASSUME NEW n \in Nat, NEW X, NEW b \in X,
         NEW F, StaysIn(F, 1..n, X), NEW it, FoldSolution(n, X, b, F, it)
  PROVE  \E g : FoldStages(n, X, b, F, g) /\ it[1..n] = g[n]
<1> DEFINE T == {k \in 0..n : it[1..k] \in X}
           g == [k \in 0..n |-> it[1..k]]
<1> USE DEF FoldSolution
<1>1. 1..0 = {}
  OBVIOUS
<1>2. 0 \in T
  BY <1>1
<1>3. ASSUME NEW k \in 1..n, it[1..k - 1] \in X
      PROVE  it[1..k] \in X /\ it[1..k] = F[<<it[1..k - 1], k>>]
  <2>1. 1..k \in SUBSET (1..n) /\ k \in 1..k
    OBVIOUS
  <2>2. (1..k) \ {k} = 1..k - 1
    OBVIOUS
  <2>3. Max(1..k) = k
    BY MaxOfIndexes
  <2>4. it[1..k] = F[<<it[1..k - 1], k>>]
    BY <1>3, <2>1, <2>2, <2>3
  <2> QED
    BY <1>3, <2>4 DEF StaysIn
<1>4. ASSUME NEW k \in 1..n, k - 1 \in T PROVE k \in T
  <2>1. it[1..k - 1] \in X /\ k \in 0..n
    BY <1>4
  <2> QED
    BY <1>3, <2>1
<1>5. \A k \in 0..n : k \in T
  <2> HIDE DEF T
  <2> QED
    BY <1>2, <1>4, IndexInduction
<1>6. g \in [0..n -> X]
  BY <1>5
<1>7. g[0] = b /\ it[1..n] = g[n] /\ g[n] \in X
  BY <1>1, <1>6
<1>8. ASSUME NEW k \in 1..n
      PROVE  g[k - 1] \in X /\ g[k] \in X /\ g[k] = F[<<g[k - 1], k>>]
  <2>1. k \in 0..n /\ k - 1 \in 0..n
    OBVIOUS
  <2>2. it[1..k - 1] \in X
    BY <1>5, <2>1
  <2> QED
    BY <1>3, <2>1, <2>2
<1> HIDE DEF g
<1> QED
  BY <1>6, <1>7, <1>8 DEF FoldStages

=============================================================================
