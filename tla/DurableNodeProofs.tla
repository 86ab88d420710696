------------------------- MODULE DurableNodeProofs -------------------------
(***************************************************************************)
(* The theorems of DurableNode: what Insert and Delete keep true of a graph*)
(* (hnsw.go), and that the replicas of a group hold the same one, the value*)
(* of a replay of the log up to where they have come (durable.go,          *)
(* persist.go). The searches through the graph are not the subject here.   *)
(***************************************************************************)
EXTENDS DurableNode, IndexProofs, SequenceTheorems

-----------------------------------------------------------------------------
(* Lists: sorting, cutting and selecting.                                  *)

\* Insertion behind as many members of the list as J has (hnsw.go sortResults).
Placed(out, J, x) == InsertAt(out, Cardinality(J) + 1, x)

\* Whatever the number of members an element is put behind, the list has that
\* element more and no other: a sort loses nothing (hnsw.go sortResults).
LEMMA PlacedAdds ==
  ASSUME NEW X, NEW out \in Seq(X), NEW x \in X, NEW J \in SUBSET (DOMAIN out)
  PROVE  /\ Placed(out, J, x) \in Seq(X)
         /\ ToSet(Placed(out, J, x)) = ToSet(out) \cup {x}
<1> DEFINE c == Cardinality(J)
           s1 == SubSeq(out, 1, c)
           s2 == SubSeq(out, c + 1, Len(out))
<1>1. DOMAIN out = 1..Len(out) /\ Len(out) \in Nat /\ \A i \in 1..Len(out) : out[i] \in X
  OBVIOUS
<1>2. c \in Nat /\ c <= Len(out)
  <2>1. IsFiniteSet(1..Len(out)) /\ Cardinality(1..Len(out)) = Len(out)
    BY <1>1, FS_Interval
  <2> QED
    BY <1>1, <2>1, FS_Subset, FS_CardinalityType
<1> HIDE DEF c
<1>3. /\ s1 \in Seq(X) /\ Len(s1) = c
      /\ \A i \in 1..c : s1[i] = out[i]
  BY <1>1, <1>2
<1>4. /\ s2 \in Seq(X) /\ Len(s2) = Len(out) - c
      /\ \A i \in 1..Len(out) - c : s2[i] = out[c + i]
  <2> DEFINE m == c + 1
             n == Len(out)
  <2>1. m \in Int /\ n \in Int /\ \A i \in m..n : out[i] \in X
    BY <1>1, <1>2
  <2>2. n - m + 1 = Len(out) - c /\ (~(m <= n) => Len(out) - c = 0)
    <3>1. Len(out) \in Nat
      BY <1>1
    <3>2. Len(out) - (c + 1) + 1 = Len(out) - c
      BY <1>2, <3>1
    <3>3. ~(c + 1 <= Len(out)) => Len(out) - c = 0
      BY <1>2, <3>1
    <3> QED
      BY <3>2, <3>3
  <2>3. \A i \in 1..Len(out) - c : m + i - 1 = c + i
    BY <1>1, <1>2
  <2>4. /\ SubSeq(out, m, n) \in Seq(X)
        /\ Len(SubSeq(out, m, n)) = IF m <= n THEN n - m + 1 ELSE 0
        /\ \A i \in 1..n - m + 1 : SubSeq(out, m, n)[i] = out[m + i - 1]
    <3> HIDE DEF m, n
    <3> QED
      BY <2>1, SubSeqProperties
  <2> QED
    BY <2>2, <2>3, <2>4
<1>5. InsertAt(out, c + 1, x) = s1 \o <<x>> \o s2
  <2>1. (c + 1) - 1 = c
    BY <1>2
  <2> QED
    BY <2>1 DEF InsertAt
<1> HIDE DEF s1, s2
<1> DEFINE r == s1 \o <<x>> \o s2
<1>6. /\ r \in Seq(X) /\ Len(r) = Len(out) + 1
      /\ \A i \in 1..Len(out) + 1 :
           r[i] = IF i <= c THEN s1[i] ELSE IF i = c + 1 THEN x ELSE s2[i - (c + 1)]
  <2> DEFINE u == s1 \o <<x>>
  <2>1. /\ u \in Seq(X) /\ Len(u) = c + 1
        /\ \A i \in 1..c + 1 : u[i] = IF i <= c THEN s1[i] ELSE x
    BY <1>2, <1>3
  <2>2. r = u \o s2
    OBVIOUS
  <2> HIDE DEF u, r
  <2>3. /\ r \in Seq(X) /\ Len(r) = Len(u) + Len(s2)
        /\ \A i \in 1..Len(u) + Len(s2) : r[i] = IF i <= Len(u) THEN u[i] ELSE s2[i - Len(u)]
    BY <1>4, <2>1, <2>2, ConcatProperties
  <2>4. Len(u) + Len(s2) = Len(out) + 1
    BY <1>1, <1>2, <1>4, <2>1
  <2> QED
    BY <1>1, <1>2, <1>4, <2>1, <2>3, <2>4
<1>7. \A i \in 1..Len(out) + 1 :
        r[i] = IF i <= c THEN out[i] ELSE IF i = c + 1 THEN x ELSE out[i - 1]
  BY <1>1, <1>2, <1>3, <1>4, <1>6
<1> HIDE DEF r
<1>8. DOMAIN r = 1..Len(out) + 1
  BY <1>6
<1>9. ToSet(r) \subseteq ToSet(out) \cup {x}
  <2> SUFFICES ASSUME NEW i \in 1..Len(out) + 1 PROVE r[i] \in ToSet(out) \cup {x}
    BY <1>8 DEF ToSet
  <2>1. CASE i <= c
    BY <1>1, <1>2, <1>7, <2>1 DEF ToSet
  <2>2. CASE i = c + 1
    BY <1>2, <1>7, <2>2
  <2>3. CASE i > c + 1
    <3>1. i - 1 \in 1..Len(out) /\ r[i] = out[i - 1]
      BY <1>1, <1>2, <1>7, <2>3
    <3> QED
      BY <1>1, <3>1 DEF ToSet
  <2> QED
    BY <1>2, <2>1, <2>2, <2>3
<1>10. x \in ToSet(r)
  <2>1. c + 1 \in 1..Len(out) + 1 /\ r[c + 1] = x
    BY <1>1, <1>2, <1>7
  <2> QED
    BY <1>8, <2>1 DEF ToSet
<1>11. ASSUME NEW i \in 1..Len(out) PROVE out[i] \in ToSet(r)
  <2>1. CASE i <= c
    <3>1. i \in 1..Len(out) + 1 /\ r[i] = out[i]
      BY <1>1, <1>2, <1>7, <2>1
    <3> QED
      BY <1>8, <3>1 DEF ToSet
  <2>2. CASE i > c
    <3>1. i + 1 \in 1..Len(out) + 1 /\ r[i + 1] = out[(i + 1) - 1] /\ (i + 1) - 1 = i
      BY <1>1, <1>2, <1>7, <2>2
    <3>2. out[i] = r[i + 1]
      BY <3>1
    <3> QED
      BY <1>8, <3>1, <3>2 DEF ToSet
  <2> QED
    BY <1>2, <2>1, <2>2
<1>12. ToSet(r) = ToSet(out) \cup {x}
  <2>1. ToSet(out) \subseteq ToSet(r)
    BY <1>1, <1>11 DEF ToSet
  <2> QED
    BY <1>9, <1>10, <2>1
<1> QED
  BY <1>5, <1>6, <1>12 DEF c, r, Placed

\* Sorting a list of IDs keeps its members (hnsw.go sortedIDs).
LEMMA AscendingSorted ==
  ASSUME NEW s \in Seq(Nat)
  PROVE  Sorted(s, <) \in Seq(Nat) /\ ToSet(Sorted(s, <)) = ToSet(s)
<1> DEFINE n == Len(s)
           X == Seq(Nat)
           Op(out, x) == InsertAt(out, Cardinality({i \in DOMAIN out : out[i] < x}) + 1, x)
           F == [p \in X \X (1..n) |-> Op(p[1], s[p[2]])]
           Body(it) == [T \in SUBSET (1..n) |->
                          IF T = {} THEN <<>> ELSE Op(it[T \ {Max(T)}], s[Max(T)])]
           it == CHOOSE it : it = Body(it)
<1>1. n \in Nat /\ DOMAIN s = 1..n /\ \A i \in 1..n : s[i] \in Nat
  OBVIOUS
<1>2. Sorted(s, <) = it[1..n]
  BY <1>1 DEF Sorted, FoldLeft, MapThenFoldSet
<1>3. \A x \in X, i \in 1..n : F[<<x, i>>] = Op(x, s[i])
  OBVIOUS
<1>4. ASSUME NEW out \in X, NEW x \in Nat
      PROVE  Op(out, x) \in X /\ ToSet(Op(out, x)) = ToSet(out) \cup {x}
  <2> DEFINE J == {i \in DOMAIN out : out[i] < x}
  <2>1. J \in SUBSET (DOMAIN out) /\ out \in Seq(Nat)
    OBVIOUS
  <2>2. Op(out, x) = Placed(out, J, x)
    BY DEF Placed
  <2>3. Placed(out, J, x) \in Seq(Nat) /\ ToSet(Placed(out, J, x)) = ToSet(out) \cup {x}
    <3> DEFINE N == Nat
    <3>1. out \in Seq(N) /\ x \in N
      BY <2>1
    <3>2. Placed(out, J, x) \in Seq(N) /\ ToSet(Placed(out, J, x)) = ToSet(out) \cup {x}
      <4> HIDE DEF J, Op, N
      <4> QED
        BY <2>1, <3>1, PlacedAdds
    <3> QED
      BY <3>2
  <2> HIDE DEF J, Op
  <2> QED
    BY <2>2, <2>3
<1>5. StaysIn(F, 1..n, X) /\ <<>> \in X
  <2>1. <<>> \in X
    OBVIOUS
  <2> HIDE DEF X, Op, F
  <2> QED
    BY <1>1, <1>3, <1>4, <2>1 DEF StaysIn
<1> HIDE DEF X, F, Op
<1>6. it = Body(it)
  <2>1. PICK f : DefinesFold(n, X, <<>>, F, f)
    BY <1>1, <1>5, FoldDefined
  <2>2. f = Body(f)
    BY <1>1, <1>3, <2>1, MaxOfIndexes DEF DefinesFold
  <2> QED
    BY <2>2
<1>7. PICK g : FoldStages(n, X, <<>>, F, g) /\ it[1..n] = g[n]
  <2>1. \A T \in SUBSET (1..n) : it[T] = Body(it)[T]
    BY <1>6
  <2> HIDE DEF it
  <2>2. it[{}] = <<>>
    BY <2>1
  <2>3. \A T \in SUBSET (1..n) :
          T # {} /\ it[T \ {Max(T)}] \in X => it[T] = F[<<it[T \ {Max(T)}], Max(T)>>]
    BY <1>1, <1>3, <2>1, MaxOfIndexes
  <2>4. FoldSolution(n, X, <<>>, F, it)
    BY <2>2, <2>3 DEF FoldSolution
  <2> QED
    BY <1>1, <1>5, <2>4, FoldSteps
<1> DEFINE Taken(k) == {s[j] : j \in 1..k}
           R == {k \in 0..n : ToSet(g[k]) = Taken(k)}
<1>8. 0 \in R
  BY <1>1, <1>7 DEF FoldStages, ToSet
<1>9. ASSUME NEW k \in 1..n, k - 1 \in R PROVE k \in R
  <2>1. g[k] = Op(g[k - 1], s[k]) /\ g[k - 1] \in X
    <3>1. g[k - 1] \in X /\ g[k] = F[<<g[k - 1], k>>]
      BY <1>1, <1>7 DEF FoldStages
    <3> QED
      BY <1>3, <3>1
  <2>2. ToSet(g[k]) = Taken(k - 1) \cup {s[k]}
    BY <1>1, <1>4, <1>9, <2>1
  <2>3. Taken(k) = Taken(k - 1) \cup {s[k]}
    <3>1. \A j : j \in 1..k <=> j \in 1..k - 1 \/ j = k
      BY <1>1
    <3> QED
      BY <3>1
  <2> QED
    BY <1>1, <2>2, <2>3
<1>10. n \in R
  <2>1. \A k \in 0..n : k \in R
    <3> HIDE DEF R
    <3> QED
      BY <1>1, <1>8, <1>9, IndexInduction
  <2> QED
    BY <1>1, <2>1
<1>11. g[n] \in X
  BY <1>1, <1>7 DEF FoldStages
<1>12. Taken(n) = ToSet(s)
  BY <1>1 DEF ToSet
<1> QED
  BY <1>2, <1>7, <1>10, <1>11, <1>12 DEF X

\* Sorting results by distance keeps them a list of the same elements (hnsw.go
\* sortResults).
LEMMA SortedListType ==
  ASSUME NEW h, NEW q, NEW Y, NEW s \in Seq(Y)
  PROVE  SortedList(h, q, s) \in Seq(Y)
<1> DEFINE n == Len(s)
           X == Seq(Y)
           J(out, x) == {i \in DOMAIN out : Before(h, q, out[i], x)}
           Op(out, x) == Placed(out, J(out, x), x)
           F == [p \in X \X (1..n) |-> Op(p[1], s[p[2]])]
           Body(it) == [T \in SUBSET (1..n) |->
                          IF T = {} THEN <<>> ELSE Op(it[T \ {Max(T)}], s[Max(T)])]
           it == CHOOSE it : it = Body(it)
<1>1. n \in Nat /\ DOMAIN s = 1..n /\ \A i \in 1..n : s[i] \in Y
  OBVIOUS
<1>2. SortedList(h, q, s) = it[1..n]
  BY <1>1 DEF SortedList, Sorted, FoldLeft, MapThenFoldSet, Placed
<1>3. \A x \in X, i \in 1..n : F[<<x, i>>] = Op(x, s[i])
  OBVIOUS
<1>4. ASSUME NEW out \in X, NEW x \in Y PROVE Op(out, x) \in X
  <2>1. J(out, x) \in SUBSET (DOMAIN out) /\ out \in Seq(Y)
    OBVIOUS
  <2> HIDE DEF J
  <2> QED
    BY <2>1, PlacedAdds
<1>5. StaysIn(F, 1..n, X) /\ <<>> \in X
  <2>1. <<>> \in X
    OBVIOUS
  <2> HIDE DEF X, Op, F
  <2> QED
    BY <1>1, <1>3, <1>4, <2>1 DEF StaysIn
<1> HIDE DEF X, F, Op
<1>6. it = Body(it)
  <2>1. PICK f : DefinesFold(n, X, <<>>, F, f)
    BY <1>1, <1>5, FoldDefined
  <2>2. f = Body(f)
    BY <1>1, <1>3, <2>1, MaxOfIndexes DEF DefinesFold
  <2> QED
    BY <2>2
<1>7. PICK g : FoldStages(n, X, <<>>, F, g) /\ it[1..n] = g[n]
  <2>1. \A T \in SUBSET (1..n) : it[T] = Body(it)[T]
    BY <1>6
  <2> HIDE DEF it
  <2>2. it[{}] = <<>>
    BY <2>1
  <2>3. \A T \in SUBSET (1..n) :
          T # {} /\ it[T \ {Max(T)}] \in X => it[T] = F[<<it[T \ {Max(T)}], Max(T)>>]
    BY <1>1, <1>3, <2>1, MaxOfIndexes
  <2>4. FoldSolution(n, X, <<>>, F, it)
    BY <2>2, <2>3 DEF FoldSolution
  <2> QED
    BY <1>1, <1>5, <2>4, FoldSteps
<1> QED
  BY <1>2, <1>7 DEF X, FoldStages

\* Cutting a list to m leaves at most m of its elements (hnsw.go trim).
LEMMA FirstOfList ==
  ASSUME NEW Y, NEW s \in Seq(Y), NEW m \in Nat
  PROVE  FirstOf(s, m) \in Seq(Y) /\ Len(FirstOf(s, m)) <= m
<1>1. Len(s) \in Nat /\ \A i \in 1..Len(s) : s[i] \in Y
  OBVIOUS
<1>2. CASE m < Len(s)
  <2>1. FirstOf(s, m) = SubSeq(s, 1, m)
    BY <1>2 DEF FirstOf, Smaller
  <2> QED
    BY <1>1, <1>2, <2>1
<1>3. CASE m >= Len(s)
  <2>1. FirstOf(s, m) = SubSeq(s, 1, Len(s))
    BY <1>1, <1>3 DEF FirstOf, Smaller
  <2>2. SubSeq(s, 1, Len(s)) = s
    OBVIOUS
  <2> QED
    BY <1>1, <1>3, <2>1, <2>2
<1> QED
  BY <1>1, <1>2, <1>3

\* A list is a list of its own members: what trim sorts are neighbours.
LEMMA SeqOverMembers ==
  ASSUME NEW Y, NEW s \in Seq(Y)
  PROVE  s \in Seq(ToSet(s))
<1> DEFINE n == Len(s)
<1>1. n \in Nat /\ DOMAIN s = 1..n /\ s \in [1..n -> Y]
  OBVIOUS
<1>2. \A i \in 1..n : s[i] \in ToSet(s)
  BY <1>1 DEF ToSet
<1>3. s \in [1..n -> ToSet(s)]
  BY <1>1, <1>2
<1> QED
  BY <1>1, <1>3

\* A list of some IDs is a list of IDs (hnsw.go node.neighbors).
LEMMA NatSeqs ==
  ASSUME NEW Y \in SUBSET Nat, NEW s \in Seq(Y)
  PROVE  s \in Seq(Nat)
<1> DEFINE N == Nat
<1>1. Y \subseteq N
  OBVIOUS
<1>2. s \in Seq(N)
  <2> HIDE DEF N
  <2> QED
    BY <1>1, SeqMonotonic
<1> QED
  BY <1>2

\* A finite set, such as the keys of the nodes map, can be listed.
LEMMA ListOfSet ==
  ASSUME NEW S, IsFiniteSet(S)
  PROVE  SetToSeq(S) \in Seq(S) /\ ToSet(SetToSeq(S)) = S
<1> DEFINE n == Cardinality(S)
<1>1. n \in Nat /\ ExistsBijection(1..n, S)
  BY FS_CardinalityType
<1>2. PICK f \in [1..n -> S] : /\ \A i, j \in 1..n : f[i] = f[j] => i = j
                              /\ \A x \in S : \E i \in 1..n : f[i] = x
  BY <1>1 DEF ExistsBijection, Bijection, Injection, Surjection, IsInjective
<1>3. IsInjective(f)
  BY <1>2 DEF IsInjective
<1>4. SetToSeq(S) \in [1..n -> S] /\ IsInjective(SetToSeq(S))
  BY <1>3 DEF SetToSeq
<1>5. SetToSeq(S) \in Surjection(1..n, S)
  <2>1. SetToSeq(S) \in Injection(1..n, S)
    BY <1>4 DEF Injection, IsInjective
  <2>2. IsFiniteSet(1..n) /\ Cardinality(1..n) = Cardinality(S)
    BY <1>1, FS_Interval
  <2> QED
    BY <2>1, <2>2, FS_Injection
<1>6. DOMAIN SetToSeq(S) = 1..n /\ \A x \in S : \E i \in 1..n : SetToSeq(S)[i] = x
  BY <1>4, <1>5 DEF Surjection
<1>7. ToSet(SetToSeq(S)) = S
  <2>1. \A i \in 1..n : SetToSeq(S)[i] \in S
    BY <1>4
  <2> QED
    BY <1>6, <2>1 DEF ToSet
<1>8. SetToSeq(S) \in Seq(S)
  BY <1>1, <1>4
<1> QED
  BY <1>7, <1>8

\* The list that Delete writes back has not the deleted ID (hnsw.go Delete).
LEMMA WithoutType ==
  ASSUME NEW Y, NEW id, NEW s \in Seq(Y)
  PROVE  Without(s, id) \in Seq(Y \ {id})
<1> DEFINE n == Len(s)
           X == Seq(Y \ {id})
           Op(kept, x) == IF x = id THEN kept ELSE Append(kept, x)
           F == [p \in X \X (1..n) |-> Op(p[1], s[p[2]])]
           Body(it) == [T \in SUBSET (1..n) |->
                          IF T = {} THEN <<>> ELSE Op(it[T \ {Max(T)}], s[Max(T)])]
           it == CHOOSE it : it = Body(it)
<1>1. n \in Nat /\ DOMAIN s = 1..n /\ \A i \in 1..n : s[i] \in Y
  OBVIOUS
<1>2. Without(s, id) = it[1..n]
  BY <1>1 DEF Without, FoldLeft, MapThenFoldSet
<1>3. \A x \in X, i \in 1..n : F[<<x, i>>] = Op(x, s[i])
  OBVIOUS
<1>4. ASSUME NEW kept \in X, NEW x \in Y PROVE Op(kept, x) \in X
  OBVIOUS
<1>5. StaysIn(F, 1..n, X) /\ <<>> \in X
  <2>1. <<>> \in X
    OBVIOUS
  <2> HIDE DEF X, Op, F
  <2> QED
    BY <1>1, <1>3, <1>4, <2>1 DEF StaysIn
<1> HIDE DEF X, F, Op
<1>6. it = Body(it)
  <2>1. PICK f : DefinesFold(n, X, <<>>, F, f)
    BY <1>1, <1>5, FoldDefined
  <2>2. f = Body(f)
    BY <1>1, <1>3, <2>1, MaxOfIndexes DEF DefinesFold
  <2> QED
    BY <2>2
<1>7. PICK g : FoldStages(n, X, <<>>, F, g) /\ it[1..n] = g[n]
  <2>1. \A T \in SUBSET (1..n) : it[T] = Body(it)[T]
    BY <1>6
  <2> HIDE DEF it
  <2>2. it[{}] = <<>>
    BY <2>1
  <2>3. \A T \in SUBSET (1..n) :
          T # {} /\ it[T \ {Max(T)}] \in X => it[T] = F[<<it[T \ {Max(T)}], Max(T)>>]
    BY <1>1, <1>3, <2>1, MaxOfIndexes
  <2>4. FoldSolution(n, X, <<>>, F, it)
    BY <2>2, <2>3 DEF FoldSolution
  <2> QED
    BY <1>1, <1>5, <2>4, FoldSteps
<1> QED
  BY <1>2, <1>7 DEF X, FoldStages

\* Diverse selection picks at most m of the candidates it is given (hnsw.go
\* selectDiverse).
LEMMA SelectDiverseType ==
  ASSUME NEW h, NEW q, NEW Y, NEW s \in Seq(Y), NEW m \in Nat
  PROVE  /\ SelectDiverse(h, q, s, m) \in Seq(Y)
         /\ Len(SelectDiverse(h, q, s, m)) <= m
<1> DEFINE n == Len(s)
           X == {out \in Seq(Y) : Len(out) <= m}
           Skipped(out, c) == \/ Len(out) = m
                              \/ \E o \in ToSet(out) :
                                   Distance(h, h.nodes[c].v, o) < Distance(h, q, c)
           Op(out, x) == IF Skipped(out, x) THEN out ELSE Append(out, x)
           F == [p \in X \X (1..n) |-> Op(p[1], s[p[2]])]
           Body(it) == [T \in SUBSET (1..n) |->
                          IF T = {} THEN <<>> ELSE Op(it[T \ {Max(T)}], s[Max(T)])]
           it == CHOOSE it : it = Body(it)
<1>1. n \in Nat /\ DOMAIN s = 1..n /\ \A i \in 1..n : s[i] \in Y
  OBVIOUS
<1>2. SelectDiverse(h, q, s, m) = it[1..n]
  BY <1>1 DEF SelectDiverse, FoldLeft, MapThenFoldSet
<1>3. \A x \in X, i \in 1..n : F[<<x, i>>] = Op(x, s[i])
  OBVIOUS
<1>4. ASSUME NEW out \in X, NEW x \in Y PROVE Op(out, x) \in X
  <2>1. Skipped(out, x) \/ Len(out) # m
    OBVIOUS
  <2> HIDE DEF Skipped
  <2> QED
    BY <2>1
<1>5. StaysIn(F, 1..n, X) /\ <<>> \in X
  <2>1. <<>> \in X
    OBVIOUS
  <2> HIDE DEF X, Op, F
  <2> QED
    BY <1>1, <1>3, <1>4, <2>1 DEF StaysIn
<1> HIDE DEF X, F, Op
<1>6. it = Body(it)
  <2>1. PICK f : DefinesFold(n, X, <<>>, F, f)
    BY <1>1, <1>5, FoldDefined
  <2>2. f = Body(f)
    BY <1>1, <1>3, <2>1, MaxOfIndexes DEF DefinesFold
  <2> QED
    BY <2>2
<1>7. PICK g : FoldStages(n, X, <<>>, F, g) /\ it[1..n] = g[n]
  <2>1. \A T \in SUBSET (1..n) : it[T] = Body(it)[T]
    BY <1>6
  <2> HIDE DEF it
  <2>2. it[{}] = <<>>
    BY <2>1
  <2>3. \A T \in SUBSET (1..n) :
          T # {} /\ it[T \ {Max(T)}] \in X => it[T] = F[<<it[T \ {Max(T)}], Max(T)>>]
    BY <1>1, <1>3, <2>1, MaxOfIndexes
  <2>4. FoldSolution(n, X, <<>>, F, it)
    BY <2>2, <2>3 DEF FoldSolution
  <2> QED
    BY <1>1, <1>5, <2>4, FoldSteps
<1> QED
  BY <1>2, <1>7 DEF X, FoldStages

\* The candidates for a link on level l are nodes of that level or a higher
\* one, and none of those to skip (hnsw.go closest).
LEMMA ClosestMembers ==
  ASSUME NEW h, IsFiniteSet(IDs(h)), NEW q, NEW l, NEW limit \in Nat, NEW skip
  PROVE  Closest(h, q, l, limit, skip) \in Seq({id \in IDs(h) \ skip : h.nodes[id].level >= l})
<1> DEFINE S == {id \in IDs(h) \ skip : h.nodes[id].level >= l}
<1>1. IsFiniteSet(S)
  <2>1. S \in SUBSET IDs(h)
    OBVIOUS
  <2> HIDE DEF S
  <2> QED
    BY <2>1, FS_Subset
<1>2. SortedSet(h, q, S) \in Seq(S)
  <2> HIDE DEF S
  <2> QED
    BY <1>1, ListOfSet, SortedListType DEF SortedSet
<1>3. Closest(h, q, l, limit, skip) = FirstOf(SortedSet(h, q, S), limit)
  BY DEF Closest
<1> HIDE DEF S
<1>4. Closest(h, q, l, limit, skip) \in Seq(S)
  BY <1>2, <1>3, FirstOfList
<1> QED
  BY <1>4 DEF S

\* sortedIDs lists exactly the nodes there are (hnsw.go sortedIDs).
LEMMA AscendingMembers ==
  ASSUME NEW S \in SUBSET Nat, IsFiniteSet(S)
  PROVE  Ascending(S) \in Seq(Nat) /\ ToSet(Ascending(S)) = S
<1>1. SetToSeq(S) \in Seq(S) /\ ToSet(SetToSeq(S)) = S
  BY ListOfSet
<1>2. SetToSeq(S) \in Seq(Nat)
  <2> DEFINE N == Nat
  <2>1. S \subseteq N
    OBVIOUS
  <2>2. SetToSeq(S) \in Seq(N)
    <3> HIDE DEF N
    <3> QED
      BY <1>1, <2>1, SeqMonotonic
  <2> QED
    BY <2>2
<1> DEFINE s == SetToSeq(S)
<1>3. Ascending(S) = Sorted(s, <)
  BY DEF Ascending
<1> HIDE DEF s
<1>4. Sorted(s, <) \in Seq(Nat) /\ ToSet(Sorted(s, <)) = ToSet(s)
  BY <1>2, AscendingSorted DEF s
<1> QED
  BY <1>1, <1>3, <1>4 DEF s

-----------------------------------------------------------------------------
(* Graphs, and one list of a graph.                                        *)

\* What a node keeps: one list of neighbours per level from 0 to its own.
Nodes ==
  {x \in [v : Seq(Int), level : Nat, neighbors : UNION {[0..l -> Seq(Nat)] : l \in Nat}] :
     x.neighbors \in [0..x.level -> Seq(Nat)]}

\* The graphs.
Graphs ==
  {h \in [cfg : Configs, rng : Seq(Nat) \ {<<>>}, entry : Nat, maxLevel : Int,
          nodes : UNION {[S -> Nodes] : S \in SUBSET Nat}] : IsFiniteSet(IDs(h))}

\* g and h differ in the lists of neighbours at most.
SameNodes(g, h) ==
  /\ g.cfg = h.cfg /\ g.rng = h.rng /\ g.entry = h.entry /\ g.maxLevel = h.maxLevel
  /\ IDs(g) = IDs(h)
  /\ \A n \in IDs(h) : g.nodes[n].v = h.nodes[n].v /\ Level(g, n) = Level(h, n)

\* h with another list for node n on level l.
WithList(h, n, l, list) == [h EXCEPT !.nodes[n].neighbors[l] = list]

\* The parts of a graph: its settings, its IDs, and for each node a list of IDs
\* per level (hnsw.go HNSW, node).
LEMMA GraphType ==
  ASSUME NEW h \in Graphs
  PROVE  /\ h.cfg \in Configs /\ h.cfg.M \in Nat \ {0} /\ h.cfg.EFConstruction \in Nat
         /\ h.rng \in Seq(Nat) /\ h.rng # <<>> /\ h.entry \in Nat /\ h.maxLevel \in Int
         /\ IDs(h) \in SUBSET Nat /\ IsFiniteSet(IDs(h))
         /\ \A n \in IDs(h) :
              /\ h.nodes[n].v \in Seq(Int) /\ Level(h, n) \in Nat
              /\ DOMAIN h.nodes[n].neighbors = 0..Level(h, n)
              /\ \A l \in 0..Level(h, n) : Neighbors(h, n, l) \in Seq(Nat)
<1>1. PICK S \in SUBSET Nat : h.nodes \in [S -> Nodes]
  BY DEF Graphs
<1>2. IDs(h) = S /\ \A n \in S : h.nodes[n] \in Nodes
  BY <1>1 DEF IDs
<1>3. \A n \in S : /\ h.nodes[n].v \in Seq(Int) /\ h.nodes[n].level \in Nat
                   /\ h.nodes[n].neighbors \in [0..h.nodes[n].level -> Seq(Nat)]
  BY <1>2 DEF Nodes
<1>4. h.cfg \in Configs /\ h.rng \in Seq(Nat) /\ h.rng # <<>> /\ h.entry \in Nat /\ h.maxLevel \in Int
  BY DEF Graphs
<1>5. h.cfg.M \in Nat \ {0} /\ h.cfg.EFConstruction \in Nat
  <2>1. h.cfg \in [M : Nat, EFConstruction : Nat, EFSearch : Nat] /\ ValidConfig(h.cfg)
    BY <1>4, DurableNodeAssumption
  <2> QED
    BY <2>1 DEF ValidConfig
<1> QED
  BY <1>2, <1>3, <1>4, <1>5 DEF Graphs, Level, Neighbors

\* Writing one list leaves a graph with the same nodes, and every other list as
\* it was (hnsw.go node.neighbors).
LEMMA WithListType ==
  ASSUME NEW h \in Graphs, NEW n \in IDs(h), NEW l \in 0..Level(h, n), NEW list \in Seq(Nat)
  PROVE  /\ WithList(h, n, l, list) \in Graphs
         /\ SameNodes(WithList(h, n, l, list), h)
         /\ \A m \in IDs(h) : \A k \in 0..Level(h, m) :
              Neighbors(WithList(h, n, l, list), m, k) =
                IF m = n /\ k = l THEN list ELSE Neighbors(h, m, k)
<1> DEFINE x == h.nodes[n]
           y == [x EXCEPT !.neighbors[l] = list]
           nodes == [h.nodes EXCEPT ![n] = y]
           g == WithList(h, n, l, list)
<1>1. PICK S \in SUBSET Nat : h.nodes \in [S -> Nodes]
  BY DEF Graphs
<1>2. IDs(h) = S /\ IsFiniteSet(S) /\ n \in S
  BY <1>1 DEF IDs, Graphs
<1>3. /\ x \in [v : Seq(Int), level : Nat, neighbors : UNION {[0..i -> Seq(Nat)] : i \in Nat}]
      /\ x.neighbors \in [0..x.level -> Seq(Nat)] /\ x.level \in Nat /\ l \in 0..x.level
  BY <1>1, <1>2 DEF Nodes, Level
<1>4. /\ y = [x EXCEPT !.neighbors = [x.neighbors EXCEPT ![l] = list]]
      /\ [x.neighbors EXCEPT ![l] = list] \in [0..x.level -> Seq(Nat)]
  BY <1>3
<1>5. y.v = x.v /\ y.level = x.level /\ y.neighbors = [x.neighbors EXCEPT ![l] = list]
  BY <1>3, <1>4
<1>6. y \in Nodes
  <2> DEFINE R == UNION {[0..i -> Seq(Nat)] : i \in Nat}
             nb == [x.neighbors EXCEPT ![l] = list]
  <2>1. nb \in R
    BY <1>3, <1>4
  <2>2. y \in [v : Seq(Int), level : Nat, neighbors : R]
    <3>1. x \in [v : Seq(Int), level : Nat, neighbors : R] /\ y = [x EXCEPT !.neighbors = nb]
      BY <1>3, <1>4
    <3> HIDE DEF R, nb, y, x
    <3> QED
      BY <2>1, <3>1
  <2> QED
    BY <1>4, <1>5, <2>2 DEF Nodes
<1>7. g = [h EXCEPT !.nodes = nodes]
  BY DEF WithList
<1> HIDE DEF y
<1>8. nodes \in [S -> Nodes] /\ nodes[n] = y /\ \A m \in S \ {n} : nodes[m] = h.nodes[m]
  BY <1>1, <1>2, <1>6
<1> HIDE DEF nodes, g
<1>9. /\ g.nodes = nodes /\ g.cfg = h.cfg /\ g.rng = h.rng /\ g.entry = h.entry
      /\ g.maxLevel = h.maxLevel
  BY <1>7 DEF Graphs
<1>10. IDs(g) = S
  BY <1>8, <1>9 DEF IDs
<1>11. g \in Graphs
  BY <1>2, <1>7, <1>8, <1>9, <1>10 DEF Graphs
<1>12. SameNodes(g, h)
  BY <1>2, <1>5, <1>8, <1>9, <1>10 DEF SameNodes, Level
<1>13. ASSUME NEW m \in IDs(h), NEW k \in 0..Level(h, m)
       PROVE  Neighbors(g, m, k) = IF m = n /\ k = l THEN list ELSE Neighbors(h, m, k)
  <2>1. CASE m = n
    <3>1. g.nodes[m].neighbors = [x.neighbors EXCEPT ![l] = list]
      BY <1>5, <1>8, <1>9, <2>1
    <3>2. k \in DOMAIN x.neighbors
      BY <1>3, <2>1 DEF Level
    <3> QED
      BY <1>3, <2>1, <3>1, <3>2 DEF Neighbors
  <2>2. CASE m # n
    BY <1>2, <1>8, <1>9, <2>2 DEF Neighbors
  <2> QED
    BY <2>1, <2>2
<1> QED
  BY <1>11, <1>12, <1>13 DEF g

-----------------------------------------------------------------------------
(* Links.                                                                  *)

\* The target of a link of node n on level l.
Target(h, n, l, b) == b # n /\ b \in IDs(h) /\ Level(h, b) >= l

\* The links of every level lead to other nodes of the graph on that level.
TargetsSound(h) ==
  \A n \in IDs(h) : \A l \in 0..Level(h, n) :
    \A b \in ToSet(Neighbors(h, n, l)) : Target(h, n, l, b)

\* No list is longer than M.
ListsShort(h) ==
  \A n \in IDs(h) : \A l \in 0..Level(h, n) : Len(Neighbors(h, n, l)) <= h.cfg.M

\* The members of a list, and of a list with one element more.
LEMMA ListMembers ==
  /\ \A Y : \A s \in Seq(Y) : ToSet(s) \subseteq Y
  /\ \A Y : \A s \in Seq(Y) : \A x \in Y : ToSet(Append(s, x)) = ToSet(s) \cup {x}
<1>1. ASSUME NEW Y, NEW s \in Seq(Y) PROVE ToSet(s) \subseteq Y
  <2>1. \A i \in DOMAIN s : s[i] \in Y
    OBVIOUS
  <2> QED
    BY <2>1 DEF ToSet
<1>2. ASSUME NEW Y, NEW s \in Seq(Y), NEW x \in Y
      PROVE  ToSet(Append(s, x)) = ToSet(s) \cup {x}
  <2> DEFINE r == Append(s, x)
             n == Len(s)
  <2>1. /\ n \in Nat /\ DOMAIN s = 1..n /\ DOMAIN r = 1..n + 1 /\ r[n + 1] = x
        /\ \A i \in 1..n : r[i] = s[i]
    OBVIOUS
  <2>2. \A i : i \in 1..n + 1 <=> i \in 1..n \/ i = n + 1
    BY <2>1
  <2> HIDE DEF r, n
  <2>3. ToSet(r) \subseteq ToSet(s) \cup {x}
    BY <2>1, <2>2 DEF ToSet
  <2>4. ToSet(s) \cup {x} \subseteq ToSet(r)
    BY <2>1, <2>2 DEF ToSet
  <2> QED
    BY <2>3, <2>4 DEF r
<1> QED
  BY <1>1, <1>2

\* Operations that only change links one after the other only change links.
LEMMA SameNodesComposes ==
  /\ \A h : SameNodes(h, h)
  /\ \A g, h, f : SameNodes(g, h) /\ SameNodes(h, f) => SameNodes(g, f)
BY DEF SameNodes

\* A list of good targets in place of another keeps all targets good (hnsw.go
\* link, trim).
LEMMA WithListSound ==
  ASSUME NEW h \in Graphs, TargetsSound(h), NEW n \in IDs(h), NEW l \in 0..Level(h, n),
         NEW list \in Seq(Nat), \A b \in ToSet(list) : Target(h, n, l, b)
  PROVE  TargetsSound(WithList(h, n, l, list))
<1> DEFINE g == WithList(h, n, l, list)
<1>1. /\ SameNodes(g, h)
      /\ \A m \in IDs(h) : \A k \in 0..Level(h, m) :
           Neighbors(g, m, k) = IF m = n /\ k = l THEN list ELSE Neighbors(h, m, k)
  BY WithListType
<1> HIDE DEF g
<1>2. SUFFICES ASSUME NEW m \in IDs(h), NEW k \in 0..Level(h, m),
                      NEW b \in ToSet(Neighbors(g, m, k))
               PROVE  Target(h, m, k, b)
  BY <1>1 DEF TargetsSound, Target, SameNodes, g
<1>3. CASE m = n /\ k = l
  BY <1>1, <1>3
<1>4. CASE ~(m = n /\ k = l)
  BY <1>1, <1>4 DEF TargetsSound
<1> QED
  BY <1>3, <1>4

\* trim leaves at most M of the neighbours the list had (hnsw.go trim).
LEMMA TrimmedList ==
  ASSUME NEW h \in Graphs, NEW n \in IDs(h), NEW l \in 0..Level(h, n)
  PROVE  \E list \in Seq(ToSet(Neighbors(h, n, l))) :
           Len(list) <= h.cfg.M /\ Trim(h, n, l) = WithList(h, n, l, list)
<1> DEFINE s == Neighbors(h, n, l)
           Y == ToSet(s)
           sorted == SortedList(h, h.nodes[n].v, s)
           list == FirstOf(sorted, h.cfg.M)
<1>1. s \in Seq(Nat) /\ h.cfg.M \in Nat
  BY GraphType
<1>2. s \in Seq(Y)
  <2>1. Len(s) \in Nat /\ DOMAIN s = 1..Len(s) /\ s \in [1..Len(s) -> Nat]
    BY <1>1
  <2>2. \A i \in 1..Len(s) : s[i] \in Y
    BY <2>1 DEF ToSet
  <2>3. s \in [1..Len(s) -> Y]
    <3> HIDE DEF Y, s
    <3> QED
      BY <2>1, <2>2
  <2> HIDE DEF Y, s
  <2> QED
    BY <2>1, <2>3
<1>3. sorted \in Seq(Y)
  <2> HIDE DEF Y, s
  <2> QED
    BY <1>2, SortedListType
<1>4. list \in Seq(Y) /\ Len(list) <= h.cfg.M
  <2> HIDE DEF Y, s, sorted
  <2> QED
    BY <1>1, <1>3, FirstOfList
<1>5. Trim(h, n, l) = WithList(h, n, l, list)
  BY DEF Trim, WithList, Neighbors
<1> HIDE DEF s, sorted, list
<1> QED
  BY <1>4, <1>5 DEF s

\* A link between nodes of the level adds one neighbour to the list of the
\* first, keeps that of the second within M, and changes no other (hnsw.go
\* link).
LEMMA LinkLists ==
  ASSUME NEW h \in Graphs, TargetsSound(h), NEW a \in IDs(h), NEW b, NEW l \in 0..Level(h, a),
         Target(h, a, l, b)
  PROVE  /\ Link(h, a, b, l) \in Graphs /\ SameNodes(Link(h, a, b, l), h)
         /\ TargetsSound(Link(h, a, b, l))
         /\ Neighbors(Link(h, a, b, l), a, l) = Append(Neighbors(h, a, l), b)
         /\ Len(Neighbors(Link(h, a, b, l), b, l)) <= h.cfg.M
         /\ \A m \in IDs(h) : \A k \in 0..Level(h, m) :
              k # l \/ m \notin {a, b} =>
                Neighbors(Link(h, a, b, l), m, k) = Neighbors(h, m, k)
<1> DEFINE s == Append(Neighbors(h, a, l), b)
           g == WithList(h, a, l, s)
           t == Append(Neighbors(g, b, l), a)
           f == WithList(g, b, l, t)
           r == Link(h, a, b, l)
<1>1. /\ a # b /\ b \in IDs(h) /\ a \in Nat /\ b \in Nat /\ l \in Nat
      /\ Level(h, a) \in Nat /\ Level(h, b) \in Nat /\ l <= Level(h, a) /\ l <= Level(h, b)
      /\ Neighbors(h, a, l) \in Seq(Nat)
  BY GraphType DEF Target
<1>2. s \in Seq(Nat) /\ ToSet(s) = ToSet(Neighbors(h, a, l)) \cup {b}
  BY <1>1, ListMembers
<1> HIDE DEF s
<1>3. /\ g \in Graphs /\ SameNodes(g, h)
      /\ \A m \in IDs(h) : \A k \in 0..Level(h, m) :
           Neighbors(g, m, k) = IF m = a /\ k = l THEN s ELSE Neighbors(h, m, k)
  BY <1>2, WithListType
<1>4. TargetsSound(g)
  <2>1. \A o \in ToSet(s) : Target(h, a, l, o)
    BY <1>2 DEF TargetsSound
  <2> QED
    BY <1>2, <2>1, WithListSound
<1> HIDE DEF g
<1>5. /\ IDs(g) = IDs(h) /\ \A m \in IDs(h) : Level(g, m) = Level(h, m)
      /\ b \in IDs(g) /\ l \in 0..Level(g, b) /\ l \in 0..Level(h, b)
      /\ Neighbors(g, b, l) \in Seq(Nat)
  <2>1. IDs(g) = IDs(h) /\ \A m \in IDs(h) : Level(g, m) = Level(h, m)
    BY <1>3 DEF SameNodes
  <2> QED
    BY <1>1, <1>3, <2>1, GraphType
<1>6. t \in Seq(Nat) /\ ToSet(t) = ToSet(Neighbors(g, b, l)) \cup {a}
  BY <1>1, <1>5, ListMembers
<1> HIDE DEF t
<1>7. /\ f \in Graphs /\ SameNodes(f, g)
      /\ \A m \in IDs(h) : \A k \in 0..Level(h, m) :
           Neighbors(f, m, k) = IF m = b /\ k = l THEN t ELSE Neighbors(g, m, k)
  <2>1. /\ f \in Graphs /\ SameNodes(f, g)
        /\ \A m \in IDs(g) : \A k \in 0..Level(g, m) :
             Neighbors(f, m, k) = IF m = b /\ k = l THEN t ELSE Neighbors(g, m, k)
    BY <1>3, <1>5, <1>6, WithListType
  <2> QED
    BY <1>5, <2>1
<1>8. TargetsSound(f)
  <2>1. \A o \in ToSet(t) : Target(g, b, l, o)
    BY <1>1, <1>4, <1>5, <1>6 DEF TargetsSound, Target
  <2> QED
    BY <1>3, <1>4, <1>5, <1>6, <2>1, WithListSound
<1> HIDE DEF f
<1>9. r = Trim(f, b, l)
  BY <1>1, <1>3, <1>5 DEF Link, f, g, s, t, WithList, Neighbors
<1>10. /\ IDs(f) = IDs(h) /\ \A m \in IDs(h) : Level(f, m) = Level(h, m)
       /\ f.cfg = h.cfg /\ b \in IDs(f) /\ l \in 0..Level(f, b)
  BY <1>1, <1>3, <1>5, <1>7 DEF SameNodes
<1>11. PICK list \in Seq(ToSet(Neighbors(f, b, l))) :
         Len(list) <= f.cfg.M /\ r = WithList(f, b, l, list)
  BY <1>7, <1>9, <1>10, TrimmedList
<1>12. list \in Seq(Nat) /\ \A o \in ToSet(list) : Target(f, b, l, o)
  <2>1. Neighbors(f, b, l) = t
    BY <1>1, <1>5, <1>7
  <2>2. ToSet(t) \subseteq Nat
    BY <1>6, ListMembers
  <2>3. list \in Seq(Nat)
    <3> DEFINE N == Nat
    <3>1. list \in Seq(N)
      <4>1. ToSet(t) \subseteq N
        BY <2>2
      <4> HIDE DEF N
      <4> QED
        BY <1>11, <2>1, <4>1, SeqMonotonic
    <3> QED
      BY <3>1
  <2>4. ToSet(list) \subseteq ToSet(Neighbors(f, b, l))
    BY <1>11, ListMembers
  <2> QED
    BY <1>8, <1>10, <2>3, <2>4 DEF TargetsSound
<1>13. /\ r \in Graphs /\ SameNodes(r, f) /\ TargetsSound(r)
       /\ \A m \in IDs(h) : \A k \in 0..Level(h, m) :
            Neighbors(r, m, k) = IF m = b /\ k = l THEN list ELSE Neighbors(f, m, k)
  <2>1. /\ r \in Graphs /\ SameNodes(r, f)
        /\ \A m \in IDs(f) : \A k \in 0..Level(f, m) :
             Neighbors(r, m, k) = IF m = b /\ k = l THEN list ELSE Neighbors(f, m, k)
    BY <1>7, <1>10, <1>11, <1>12, WithListType
  <2>2. TargetsSound(r)
    BY <1>7, <1>8, <1>10, <1>11, <1>12, WithListSound
  <2> QED
    BY <1>10, <2>1, <2>2
<1>14. SameNodes(r, h)
  BY <1>3, <1>7, <1>13, SameNodesComposes
<1> HIDE DEF r
<1>15. Neighbors(r, a, l) = s
  BY <1>1, <1>3, <1>7, <1>13
<1>16. Len(Neighbors(r, b, l)) <= h.cfg.M
  BY <1>1, <1>10, <1>11, <1>13
<1>17. ASSUME NEW m \in IDs(h), NEW k \in 0..Level(h, m), k # l \/ m \notin {a, b}
       PROVE  Neighbors(r, m, k) = Neighbors(h, m, k)
  BY <1>3, <1>7, <1>13, <1>17
<1> QED
  BY <1>13, <1>14, <1>15, <1>16, <1>17 DEF r, s

\* All those nodes.
Targets(h, n, l) == {b \in IDs(h) : Target(h, n, l, b)}

\* g is h with other links: at most the list of node a on level l is longer.
Relinked(g, h, a, l) ==
  /\ g \in Graphs /\ SameNodes(g, h) /\ TargetsSound(g)
  /\ \A x \in IDs(h) : \A k \in 0..Level(h, x) :
       \/ x = a /\ k = l
       \/ Neighbors(g, x, k) = Neighbors(h, x, k)
       \/ x # a /\ Len(Neighbors(g, x, k)) <= h.cfg.M

\* Node a is linked to those of s on level l.
LinkAll(h, a, l, s) == FoldLeft(LAMBDA g, other : Link(g, a, other, l), h, s)

\* Linking a node to several others keeps the lists of all others within M; its
\* own grows by one each (hnsw.go Insert, Delete: the loops over
\* selectDiverse).
LEMMA LinkAllLists ==
  ASSUME NEW h \in Graphs, TargetsSound(h), NEW a \in IDs(h), NEW l \in 0..Level(h, a),
         NEW s \in Seq(Targets(h, a, l))
  PROVE  /\ Relinked(LinkAll(h, a, l, s), h, a, l)
         /\ Len(Neighbors(LinkAll(h, a, l, s), a, l)) = Len(Neighbors(h, a, l)) + Len(s)
<1> DEFINE n == Len(s)
           X == {g \in Graphs : Relinked(g, h, a, l)}
           Op(g, x) == Link(g, a, x, l)
           F == [p \in X \X (1..n) |-> Op(p[1], s[p[2]])]
           Body(it) == [T \in SUBSET (1..n) |->
                          IF T = {} THEN h ELSE Op(it[T \ {Max(T)}], s[Max(T)])]
           it == CHOOSE it : it = Body(it)
<1>1. n \in Nat /\ DOMAIN s = 1..n /\ \A i \in 1..n : s[i] \in Targets(h, a, l)
  OBVIOUS
<1>2. LinkAll(h, a, l, s) = it[1..n]
  BY <1>1 DEF LinkAll, FoldLeft, MapThenFoldSet
<1>3. \A x \in X, i \in 1..n : F[<<x, i>>] = Op(x, s[i])
  OBVIOUS
<1>4. ASSUME NEW g \in X, NEW x \in Targets(h, a, l) PROVE Op(g, x) \in X
  <2>1. /\ g.cfg = h.cfg /\ IDs(g) = IDs(h) /\ \A m \in IDs(h) : Level(g, m) = Level(h, m)
        /\ g \in Graphs /\ TargetsSound(g) /\ SameNodes(g, h)
    BY DEF Relinked, SameNodes
  <2>2. Target(g, a, l, x) /\ x \in IDs(h) /\ l \in 0..Level(g, a)
    BY <2>1 DEF Targets, Target
  <2> DEFINE f == Link(g, a, x, l)
  <2>3. /\ f \in Graphs /\ SameNodes(f, g) /\ TargetsSound(f)
        /\ Len(Neighbors(f, x, l)) <= h.cfg.M
        /\ \A m \in IDs(h) : \A k \in 0..Level(h, m) :
             k # l \/ m \notin {a, x} => Neighbors(f, m, k) = Neighbors(g, m, k)
    BY <2>1, <2>2, LinkLists
  <2> HIDE DEF f
  <2>4. SameNodes(f, h)
    BY <2>1, <2>3, SameNodesComposes
  <2>5. ASSUME NEW m \in IDs(h), NEW k \in 0..Level(h, m)
        PROVE  \/ m = a /\ k = l
               \/ Neighbors(f, m, k) = Neighbors(h, m, k)
               \/ m # a /\ Len(Neighbors(f, m, k)) <= h.cfg.M
    <3>1. CASE m = x /\ k = l
      BY <2>2, <2>3, <3>1 DEF Target
    <3>2. CASE ~(m = x /\ k = l) /\ ~(m = a /\ k = l)
      <4>1. Neighbors(f, m, k) = Neighbors(g, m, k)
        BY <2>3, <3>2
      <4> QED
        BY <4>1, <3>2 DEF Relinked
    <3> QED
      BY <3>1, <3>2
  <2> QED
    BY <2>3, <2>4, <2>5 DEF Relinked, f
<1>5. StaysIn(F, 1..n, X) /\ h \in X
  <2>1. h \in X
    <3>1. SameNodes(h, h)
      BY SameNodesComposes
    <3> QED
      BY <3>1 DEF Relinked
  <2> HIDE DEF X, Op, F
  <2> QED
    BY <1>1, <1>3, <1>4, <2>1 DEF StaysIn
<1> HIDE DEF X, F, Op
<1>6. it = Body(it)
  <2>1. PICK f : DefinesFold(n, X, h, F, f)
    BY <1>1, <1>5, FoldDefined
  <2>2. f \in [SUBSET (1..n) -> X]
    BY <2>1 DEF DefinesFold
  <2>3. ASSUME NEW T \in SUBSET (1..n)
        PROVE  f[T] = IF T = {} THEN h ELSE Op(f[T \ {Max(T)}], s[Max(T)])
    <3>1. f[T] = IF T = {} THEN h ELSE F[<<f[T \ {Max(T)}], Max(T)>>]
      BY <2>1 DEF DefinesFold
    <3>2. T # {} => Max(T) \in 1..n /\ f[T \ {Max(T)}] \in X
      BY <1>1, <2>2, MaxOfIndexes
    <3> QED
      BY <1>3, <3>1, <3>2
  <2>4. f = Body(f)
    BY <2>2, <2>3
  <2> QED
    BY <2>4
<1>7. PICK g : FoldStages(n, X, h, F, g) /\ it[1..n] = g[n]
  <2>1. \A T \in SUBSET (1..n) : it[T] = Body(it)[T]
    BY <1>6
  <2> HIDE DEF it
  <2>2. it[{}] = h
    BY <2>1
  <2>3. \A T \in SUBSET (1..n) :
          T # {} /\ it[T \ {Max(T)}] \in X => it[T] = F[<<it[T \ {Max(T)}], Max(T)>>]
    BY <1>1, <1>3, <2>1, MaxOfIndexes
  <2>4. FoldSolution(n, X, h, F, it)
    BY <2>2, <2>3 DEF FoldSolution
  <2> QED
    BY <1>1, <1>5, <2>4, FoldSteps
<1> DEFINE R == {k \in 0..n : Len(Neighbors(g[k], a, l)) = Len(Neighbors(h, a, l)) + k}
<1>8. a \in IDs(h) /\ l \in 0..Level(h, a) /\ Len(Neighbors(h, a, l)) \in Nat
  BY GraphType
<1>9. 0 \in R
  BY <1>1, <1>7, <1>8 DEF FoldStages
<1>10. ASSUME NEW k \in 1..n, k - 1 \in R PROVE k \in R
  <2>1. PICK e : e = g[k - 1]
    OBVIOUS
  <2>2. e \in X /\ g[k] = Link(e, a, s[k], l)
    BY <1>1, <1>3, <1>7, <2>1 DEF FoldStages, Op
  <2>3. /\ e \in Graphs /\ TargetsSound(e) /\ SameNodes(e, h)
    BY <2>2 DEF Relinked, X
  <2>4. a \in IDs(e) /\ l \in 0..Level(e, a) /\ Target(e, a, l, s[k])
    BY <1>1, <1>8, <2>3 DEF SameNodes, Targets, Target
  <2>5. Neighbors(g[k], a, l) = Append(Neighbors(e, a, l), s[k])
    BY <2>2, <2>3, <2>4, LinkLists
  <2>6. Neighbors(e, a, l) \in Seq(Nat) /\ Len(Neighbors(e, a, l)) = Len(Neighbors(h, a, l)) + (k - 1)
    BY <1>10, <2>1, <2>3, <2>4, GraphType
  <2>7. Len(Neighbors(g[k], a, l)) = Len(Neighbors(e, a, l)) + 1
    BY <2>5, <2>6
  <2> QED
    BY <1>1, <1>8, <2>6, <2>7
<1>11. n \in R
  <2>1. \A k \in 0..n : k \in R
    <3> HIDE DEF R
    <3> QED
      BY <1>1, <1>9, <1>10, IndexInduction
  <2> QED
    BY <1>1, <2>1
<1>12. g[n] \in X
  BY <1>7 DEF FoldStages
<1> QED
  BY <1>2, <1>7, <1>11, <1>12 DEF X

\* Connect gives a node at most m links more on its level, to nodes of that
\* level (hnsw.go Insert, Delete: the choice of new neighbours).
LEMMA ConnectLists ==
  ASSUME NEW h \in Graphs, TargetsSound(h), NEW a \in IDs(h), NEW l \in 0..Level(h, a),
         NEW m \in Nat, NEW skip, a \in skip
  PROVE  /\ Relinked(Connect(h, a, l, m, skip), h, a, l)
         /\ Len(Neighbors(Connect(h, a, l, m, skip), a, l)) <= Len(Neighbors(h, a, l)) + m
<1> DEFINE v == h.nodes[a].v
           near == Closest(h, v, l, h.cfg.EFConstruction, skip)
           others == SelectDiverse(h, v, near, m)
           S == {id \in IDs(h) \ skip : h.nodes[id].level >= l}
           r == Connect(h, a, l, m, skip)
<1>1. near \in Seq(S)
  BY ClosestMembers, GraphType
<1>2. S \subseteq Targets(h, a, l)
  BY DEF Targets, Target, Level
<1> HIDE DEF S, near, v
<1>3. others \in Seq(S) /\ Len(others) <= m
  BY <1>1, SelectDiverseType
<1>4. others \in Seq(Targets(h, a, l)) /\ Len(others) \in Nat
  BY <1>2, <1>3, SeqMonotonic, LenProperties
<1>5. r = LinkAll(h, a, l, others)
  BY DEF Connect, LinkAll, v, near
<1> HIDE DEF others, r
<1>6. Relinked(r, h, a, l) /\ Len(Neighbors(r, a, l)) = Len(Neighbors(h, a, l)) + Len(others)
  BY <1>4, <1>5, LinkAllLists
<1>7. Len(Neighbors(h, a, l)) \in Nat
  BY GraphType
<1> QED
  BY <1>3, <1>4, <1>6, <1>7 DEF r

-----------------------------------------------------------------------------
(* Repair after a delete.                                                  *)

\* g is h with other links, as they should be.
Rewired(g, h) == g \in Graphs /\ SameNodes(g, h) /\ TargetsSound(g) /\ ListsShort(g)

\* A rewired graph stands for whatever graph had the same nodes.
LEMMA RewiredComposes ==
  ASSUME NEW g, NEW h, NEW f, Rewired(g, h), SameNodes(h, f)
  PROVE  Rewired(g, f)
BY SameNodesComposes DEF Rewired

\* The levels of a node, as the loops over node.neighbors take them.
LEMMA LevelsList ==
  ASSUME NEW h \in Graphs, NEW a \in IDs(h)
  PROVE  /\ Levels(h, a) \in Seq(0..Level(h, a)) /\ Len(Levels(h, a)) = Level(h, a) + 1
         /\ \A k \in 1..Level(h, a) + 1 : Levels(h, a)[k] = k - 1
<1> DEFINE n == Level(h, a) + 1
           s == [k \in 1..n |-> k - 1]
<1>1. Level(h, a) \in Nat
  BY GraphType
<1>2. Levels(h, a) = s
  BY DEF Levels, Level
<1>3. n \in Nat /\ \A k \in 1..n : k - 1 \in 0..Level(h, a)
  BY <1>1
<1>4. s \in [1..n -> 0..Level(h, a)]
  BY <1>3
<1> DEFINE L == 0..Level(h, a)
<1>5. s \in Seq(L) /\ Len(s) = n
  <2>1. s \in [1..n -> L]
    BY <1>4
  <2> HIDE DEF s, L, n
  <2> QED
    BY <1>3, <2>1
<1> QED
  BY <1>2, <1>3, <1>5

\* Repairing one level adds only as many links as the list has room for
\* (hnsw.go Delete: the repair of a list with fewer than M neighbours).
LEMMA RepairLevelSound ==
  ASSUME NEW h \in Graphs, TargetsSound(h), ListsShort(h),
         NEW a \in IDs(h), NEW l \in 0..Level(h, a)
  PROVE  Rewired(RepairLevel(h, a, l), h)
<1> DEFINE own == Neighbors(h, a, l)
           m == h.cfg.M - Len(own)
           skip == {a} \cup ToSet(own)
           r == Connect(h, a, l, m, skip)
<1>1. h.cfg.M \in Nat /\ Len(own) \in Nat
  BY GraphType
<1>2. CASE Len(own) >= h.cfg.M
  <2>1. RepairLevel(h, a, l) = h
    BY <1>2 DEF RepairLevel
  <2> QED
    BY <2>1, SameNodesComposes DEF Rewired
<1>3. CASE ~(Len(own) >= h.cfg.M)
  <2>1. RepairLevel(h, a, l) = r
    BY <1>3 DEF RepairLevel
  <2>2. m \in Nat /\ a \in skip /\ Len(own) + m = h.cfg.M
    BY <1>1, <1>3
  <2> HIDE DEF m, skip
  <2>3. Relinked(r, h, a, l) /\ Len(Neighbors(r, a, l)) <= Len(own) + m
    BY <2>2, ConnectLists
  <2> HIDE DEF r, own
  <2>4. r.cfg = h.cfg /\ IDs(r) = IDs(h) /\ \A x \in IDs(h) : Level(r, x) = Level(h, x)
    BY <2>3 DEF Relinked, SameNodes
  <2>5. ASSUME NEW x \in IDs(h), NEW k \in 0..Level(h, x)
        PROVE  Len(Neighbors(r, x, k)) <= h.cfg.M
    BY <2>2, <2>3 DEF Relinked, ListsShort
  <2>6. ListsShort(r)
    BY <2>4, <2>5 DEF ListsShort
  <2> QED
    BY <2>1, <2>3, <2>6 DEF Rewired, Relinked
<1> QED
  BY <1>2, <1>3

\* Repairing a node keeps the graph sound, level after level (hnsw.go Delete).
LEMMA RepairSound ==
  ASSUME NEW h \in Graphs, TargetsSound(h), ListsShort(h), NEW a \in IDs(h)
  PROVE  Rewired(Repair(h, a), h)
<1> DEFINE s == Levels(h, a)
           n == Len(s)
           X == {g \in Graphs : Rewired(g, h)}
           Op(g, x) == RepairLevel(g, a, x)
           F == [p \in X \X (1..n) |-> Op(p[1], s[p[2]])]
           Body(it) == [T \in SUBSET (1..n) |->
                          IF T = {} THEN h ELSE Op(it[T \ {Max(T)}], s[Max(T)])]
           it == CHOOSE it : it = Body(it)
<1>1. n \in Nat /\ DOMAIN s = 1..n /\ \A i \in 1..n : s[i] \in 0..Level(h, a)
  <2> DEFINE L == 0..Level(h, a)
  <2>1. s \in Seq(L)
    BY LevelsList
  <2>2. n \in Nat /\ DOMAIN s = 1..n /\ \A i \in 1..n : s[i] \in L
    <3> HIDE DEF s, L
    <3> QED
      BY <2>1
  <2> QED
    BY <2>2
<1>2. Repair(h, a) = it[1..n]
  BY <1>1 DEF Repair, FoldLeft, MapThenFoldSet
<1>3. \A x \in X, i \in 1..n : F[<<x, i>>] = Op(x, s[i])
  OBVIOUS
<1>4. ASSUME NEW g \in X, NEW x \in 0..Level(h, a) PROVE Op(g, x) \in X
  <2>1. /\ g \in Graphs /\ TargetsSound(g) /\ ListsShort(g) /\ SameNodes(g, h)
        /\ IDs(g) = IDs(h) /\ \A m \in IDs(h) : Level(g, m) = Level(h, m)
    BY DEF Rewired, SameNodes
  <2>2. Rewired(RepairLevel(g, a, x), g)
    BY <2>1, RepairLevelSound
  <2> QED
    BY <2>1, <2>2, RewiredComposes DEF Rewired
<1>5. StaysIn(F, 1..n, X) /\ h \in X
  <2>1. h \in X
    <3>1. SameNodes(h, h)
      BY SameNodesComposes
    <3> QED
      BY <3>1 DEF Rewired
  <2> HIDE DEF X, Op, F
  <2> QED
    BY <1>1, <1>3, <1>4, <2>1 DEF StaysIn
<1> HIDE DEF X, F, Op
<1>6. it = Body(it)
  <2>1. PICK f : DefinesFold(n, X, h, F, f)
    BY <1>1, <1>5, FoldDefined
  <2>2. f \in [SUBSET (1..n) -> X]
    BY <2>1 DEF DefinesFold
  <2>3. ASSUME NEW T \in SUBSET (1..n)
        PROVE  f[T] = IF T = {} THEN h ELSE Op(f[T \ {Max(T)}], s[Max(T)])
    <3>1. f[T] = IF T = {} THEN h ELSE F[<<f[T \ {Max(T)}], Max(T)>>]
      BY <2>1 DEF DefinesFold
    <3>2. T # {} => Max(T) \in 1..n /\ f[T \ {Max(T)}] \in X
      BY <1>1, <2>2, MaxOfIndexes
    <3> QED
      BY <1>3, <3>1, <3>2
  <2>4. f = Body(f)
    BY <2>2, <2>3
  <2> QED
    BY <2>4
<1>7. PICK g : FoldStages(n, X, h, F, g) /\ it[1..n] = g[n]
  <2>1. \A T \in SUBSET (1..n) : it[T] = Body(it)[T]
    BY <1>6
  <2> HIDE DEF it
  <2>2. it[{}] = h
    BY <2>1
  <2>3. \A T \in SUBSET (1..n) :
          T # {} /\ it[T \ {Max(T)}] \in X => it[T] = F[<<it[T \ {Max(T)}], Max(T)>>]
    BY <1>1, <1>3, <2>1, MaxOfIndexes
  <2>4. FoldSolution(n, X, h, F, it)
    BY <2>2, <2>3 DEF FoldSolution
  <2> QED
    BY <1>1, <1>5, <2>4, FoldSteps
<1> QED
  BY <1>2, <1>7 DEF X, FoldStages

\* Every node of h is repaired.
RepairAll(h) == FoldLeft(Repair, h, SortedIDs(h))

\* Repairing all nodes, each on the graph that the one before it left, keeps
\* the graph sound (hnsw.go Delete).
LEMMA RepairAllSound ==
  ASSUME NEW h \in Graphs, TargetsSound(h), ListsShort(h)
  PROVE  Rewired(RepairAll(h), h)
<1> DEFINE s == SortedIDs(h)
           n == Len(s)
           X == {g \in Graphs : Rewired(g, h)}
           Op(g, x) == Repair(g, x)
           F == [p \in X \X (1..n) |-> Op(p[1], s[p[2]])]
           Body(it) == [T \in SUBSET (1..n) |->
                          IF T = {} THEN h ELSE Op(it[T \ {Max(T)}], s[Max(T)])]
           it == CHOOSE it : it = Body(it)
<1>1. n \in Nat /\ DOMAIN s = 1..n /\ \A i \in 1..n : s[i] \in IDs(h)
  <2>1. s \in Seq(Nat) /\ ToSet(s) = IDs(h)
    BY GraphType, AscendingMembers DEF SortedIDs
  <2> HIDE DEF s
  <2> QED
    BY <2>1 DEF ToSet
<1>2. RepairAll(h) = it[1..n]
  BY <1>1 DEF RepairAll, FoldLeft, MapThenFoldSet
<1>3. \A x \in X, i \in 1..n : F[<<x, i>>] = Op(x, s[i])
  OBVIOUS
<1>4. ASSUME NEW g \in X, NEW x \in IDs(h) PROVE Op(g, x) \in X
  <2>1. /\ g \in Graphs /\ TargetsSound(g) /\ ListsShort(g) /\ SameNodes(g, h)
        /\ IDs(g) = IDs(h) /\ \A m \in IDs(h) : Level(g, m) = Level(h, m)
    BY DEF Rewired, SameNodes
  <2>2. Rewired(Repair(g, x), g)
    BY <2>1, RepairSound
  <2> QED
    BY <2>1, <2>2, RewiredComposes DEF Rewired
<1>5. StaysIn(F, 1..n, X) /\ h \in X
  <2>1. h \in X
    <3>1. SameNodes(h, h)
      BY SameNodesComposes
    <3> QED
      BY <3>1 DEF Rewired
  <2> HIDE DEF X, Op, F
  <2> QED
    BY <1>1, <1>3, <1>4, <2>1 DEF StaysIn
<1> HIDE DEF X, F, Op
<1>6. it = Body(it)
  <2>1. PICK f : DefinesFold(n, X, h, F, f)
    BY <1>1, <1>5, FoldDefined
  <2>2. f \in [SUBSET (1..n) -> X]
    BY <2>1 DEF DefinesFold
  <2>3. ASSUME NEW T \in SUBSET (1..n)
        PROVE  f[T] = IF T = {} THEN h ELSE Op(f[T \ {Max(T)}], s[Max(T)])
    <3>1. f[T] = IF T = {} THEN h ELSE F[<<f[T \ {Max(T)}], Max(T)>>]
      BY <2>1 DEF DefinesFold
    <3>2. T # {} => Max(T) \in 1..n /\ f[T \ {Max(T)}] \in X
      BY <1>1, <2>2, MaxOfIndexes
    <3> QED
      BY <1>3, <3>1, <3>2
  <2>4. f = Body(f)
    BY <2>2, <2>3
  <2> QED
    BY <2>4
<1>7. PICK g : FoldStages(n, X, h, F, g) /\ it[1..n] = g[n]
  <2>1. \A T \in SUBSET (1..n) : it[T] = Body(it)[T]
    BY <1>6
  <2> HIDE DEF it
  <2>2. it[{}] = h
    BY <2>1
  <2>3. \A T \in SUBSET (1..n) :
          T # {} /\ it[T \ {Max(T)}] \in X => it[T] = F[<<it[T \ {Max(T)}], Max(T)>>]
    BY <1>1, <1>3, <2>1, MaxOfIndexes
  <2>4. FoldSolution(n, X, h, F, it)
    BY <2>2, <2>3 DEF FoldSolution
  <2> QED
    BY <1>1, <1>5, <2>4, FoldSteps
<1> QED
  BY <1>2, <1>7 DEF X, FoldStages

-----------------------------------------------------------------------------
(* Removing a node.                                                        *)

\* g is h with fewer links.
Pruned(g, h) ==
  /\ Rewired(g, h)
  /\ \A x \in IDs(h) : \A k \in 0..Level(h, x) :
       ToSet(Neighbors(g, x, k)) \subseteq ToSet(Neighbors(h, x, k))

\* Dropping links one after the other is dropping links.
LEMMA PrunedComposes ==
  ASSUME NEW g, NEW h, NEW f, Pruned(g, h), Pruned(h, f)
  PROVE  Pruned(g, f)
<1>1. Rewired(g, f)
  BY RewiredComposes DEF Pruned, Rewired
<1>2. IDs(h) = IDs(f) /\ \A x \in IDs(f) : Level(h, x) = Level(f, x)
  BY DEF Pruned, Rewired, SameNodes
<1> QED
  BY <1>1, <1>2 DEF Pruned

\* Rewriting one list without the deleted ID removes it there and adds nothing
\* (hnsw.go Delete).
LEMMA DropLinkPrunes ==
  ASSUME NEW h \in Graphs, TargetsSound(h), ListsShort(h),
         NEW a \in IDs(h), NEW l \in 0..Level(h, a), NEW id
  PROVE  /\ Pruned(DropLink(h, a, l, id), h)
         /\ id \notin ToSet(Neighbors(DropLink(h, a, l, id), a, l))
<1> DEFINE s == Neighbors(h, a, l)
           t == Without(s, id)
           g == WithList(h, a, l, t)
           r == DropLink(h, a, l, id)
           Y == ToSet(s) \ {id}
<1>1. s \in Seq(Nat) /\ s \in Seq(ToSet(s)) /\ ToSet(s) \subseteq Nat
  <2>1. s \in Seq(Nat)
    BY GraphType
  <2> HIDE DEF s
  <2>2. s \in Seq(ToSet(s))
    BY <2>1, SeqOverMembers
  <2> QED
    BY <2>1, <2>2, ListMembers
<1> HIDE DEF s
<1>2. t \in Seq(Y)
  BY <1>1, WithoutType
<1>3. Y \subseteq Nat /\ \A b \in Y : Target(h, a, l, b)
  BY <1>1 DEF TargetsSound, s
<1>4. t \in Seq(Nat) /\ ToSet(t) \subseteq Y
  <2> HIDE DEF Y, t
  <2>1. t \in Seq(Nat)
    BY <1>2, <1>3, NatSeqs
  <2> QED
    BY <1>2, <2>1, ListMembers
<1> HIDE DEF t, Y
<1>5. /\ g \in Graphs /\ SameNodes(g, h) /\ TargetsSound(g)
      /\ \A x \in IDs(h) : \A k \in 0..Level(h, x) :
           Neighbors(g, x, k) = IF x = a /\ k = l THEN t ELSE Neighbors(h, x, k)
  <2>1. \A b \in ToSet(t) : Target(h, a, l, b)
    BY <1>3, <1>4
  <2>2. TargetsSound(g)
    BY <1>4, <2>1, WithListSound
  <2> QED
    BY <1>4, <2>2, WithListType
<1> HIDE DEF g
<1>6. /\ IDs(g) = IDs(h) /\ \A x \in IDs(h) : Level(g, x) = Level(h, x)
      /\ g.cfg = h.cfg /\ Neighbors(g, a, l) = t
  BY <1>5 DEF SameNodes
<1>7. r = Trim(g, a, l)
  BY DEF DropLink, g, t, s, WithList, Neighbors
<1>8. PICK list \in Seq(ToSet(t)) : Len(list) <= h.cfg.M /\ r = WithList(g, a, l, list)
  BY <1>5, <1>6, <1>7, TrimmedList
<1>9. list \in Seq(Nat) /\ ToSet(list) \subseteq Y
  <2>1. ToSet(list) \subseteq ToSet(t)
    BY <1>8, ListMembers
  <2> QED
    BY <1>3, <1>4, <1>8, <2>1, NatSeqs
<1>10. \A b \in ToSet(list) : Target(g, a, l, b)
  BY <1>3, <1>6, <1>9 DEF Target, Y
<1>11. /\ r \in Graphs /\ SameNodes(r, g) /\ TargetsSound(r)
       /\ \A x \in IDs(h) : \A k \in 0..Level(h, x) :
            Neighbors(r, x, k) = IF x = a /\ k = l THEN list ELSE Neighbors(h, x, k)
  <2>1. /\ r \in Graphs /\ SameNodes(r, g)
        /\ \A x \in IDs(g) : \A k \in 0..Level(g, x) :
             Neighbors(r, x, k) = IF x = a /\ k = l THEN list ELSE Neighbors(g, x, k)
    BY <1>5, <1>6, <1>8, <1>9, WithListType
  <2>2. TargetsSound(r)
    BY <1>5, <1>6, <1>8, <1>9, <1>10, WithListSound
  <2> QED
    BY <1>5, <1>6, <2>1, <2>2
<1> HIDE DEF r
<1>12. SameNodes(r, h) /\ r.cfg = h.cfg /\ IDs(r) = IDs(h)
       /\ \A x \in IDs(h) : Level(r, x) = Level(h, x)
  <2>1. SameNodes(r, h)
    BY <1>5, <1>11, SameNodesComposes
  <2> QED
    BY <2>1 DEF SameNodes
<1>13. ListsShort(r)
  BY <1>8, <1>11, <1>12 DEF ListsShort
<1>14. Y \subseteq ToSet(s) /\ id \notin Y
  BY DEF Y
<1>15. \A x \in IDs(h) : \A k \in 0..Level(h, x) :
         ToSet(Neighbors(r, x, k)) \subseteq ToSet(Neighbors(h, x, k))
  BY <1>9, <1>11, <1>14 DEF s
<1> QED
  BY <1>9, <1>11, <1>12, <1>13, <1>14, <1>15 DEF Pruned, Rewired, r

\* Rewriting the lists of a node on all its levels removes the deleted ID from
\* each of them (hnsw.go Delete: the loop over the levels).
LEMMA DropLinksPrunes ==
  ASSUME NEW h \in Graphs, TargetsSound(h), ListsShort(h), NEW a \in IDs(h), NEW id
  PROVE  /\ Pruned(DropLinks(h, a, id), h)
         /\ \A l \in 0..Level(h, a) : id \notin ToSet(Neighbors(DropLinks(h, a, id), a, l))
<1> DEFINE s == Levels(h, a)
           n == Len(s)
           X == {g \in Graphs : Pruned(g, h)}
           Op(g, x) == DropLink(g, a, x, id)
           F == [p \in X \X (1..n) |-> Op(p[1], s[p[2]])]
           Body(it) == [T \in SUBSET (1..n) |->
                          IF T = {} THEN h ELSE Op(it[T \ {Max(T)}], s[Max(T)])]
           it == CHOOSE it : it = Body(it)
<1>1. n \in Nat /\ DOMAIN s = 1..n /\ \A i \in 1..n : s[i] \in 0..Level(h, a)
  <2> DEFINE L == 0..Level(h, a)
  <2>1. s \in Seq(L)
    BY LevelsList
  <2>2. n \in Nat /\ DOMAIN s = 1..n /\ \A i \in 1..n : s[i] \in L
    <3> HIDE DEF s, L
    <3> QED
      BY <2>1
  <2> QED
    BY <2>2
<1>2. DropLinks(h, a, id) = it[1..n]
  BY <1>1 DEF DropLinks, FoldLeft, MapThenFoldSet
<1>3. \A x \in X, i \in 1..n : F[<<x, i>>] = Op(x, s[i])
  OBVIOUS
<1>4. ASSUME NEW g \in X, NEW x \in 0..Level(h, a) PROVE Op(g, x) \in X
  <2>1. /\ g \in Graphs /\ TargetsSound(g) /\ ListsShort(g) /\ Pruned(g, h)
        /\ IDs(g) = IDs(h) /\ \A m \in IDs(h) : Level(g, m) = Level(h, m)
    BY DEF Pruned, Rewired, SameNodes
  <2>2. Pruned(DropLink(g, a, x, id), g)
    BY <2>1, DropLinkPrunes
  <2> QED
    BY <2>1, <2>2, PrunedComposes DEF Pruned, Rewired
<1>5. StaysIn(F, 1..n, X) /\ h \in X
  <2>1. h \in X
    <3>1. SameNodes(h, h)
      BY SameNodesComposes
    <3> QED
      BY <3>1 DEF Pruned, Rewired
  <2> HIDE DEF X, Op, F
  <2> QED
    BY <1>1, <1>3, <1>4, <2>1 DEF StaysIn
<1> HIDE DEF X, F, Op
<1>6. it = Body(it)
  <2>1. PICK f : DefinesFold(n, X, h, F, f)
    BY <1>1, <1>5, FoldDefined
  <2>2. f \in [SUBSET (1..n) -> X]
    BY <2>1 DEF DefinesFold
  <2>3. ASSUME NEW T \in SUBSET (1..n)
        PROVE  f[T] = IF T = {} THEN h ELSE Op(f[T \ {Max(T)}], s[Max(T)])
    <3>1. f[T] = IF T = {} THEN h ELSE F[<<f[T \ {Max(T)}], Max(T)>>]
      BY <2>1 DEF DefinesFold
    <3>2. T # {} => Max(T) \in 1..n /\ f[T \ {Max(T)}] \in X
      BY <1>1, <2>2, MaxOfIndexes
    <3> QED
      BY <1>3, <3>1, <3>2
  <2>4. f = Body(f)
    BY <2>2, <2>3
  <2> QED
    BY <2>4
<1>7. PICK g : FoldStages(n, X, h, F, g) /\ it[1..n] = g[n]
  <2>1. \A T \in SUBSET (1..n) : it[T] = Body(it)[T]
    BY <1>6
  <2> HIDE DEF it
  <2>2. it[{}] = h
    BY <2>1
  <2>3. \A T \in SUBSET (1..n) :
          T # {} /\ it[T \ {Max(T)}] \in X => it[T] = F[<<it[T \ {Max(T)}], Max(T)>>]
    BY <1>1, <1>3, <2>1, MaxOfIndexes
  <2>4. FoldSolution(n, X, h, F, it)
    BY <2>2, <2>3 DEF FoldSolution
  <2> QED
    BY <1>1, <1>5, <2>4, FoldSteps
<1> DEFINE Clear(k) == \A l \in 0..Level(h, a) : l < k => id \notin ToSet(Neighbors(g[k], a, l))
           R == {k \in 0..n : Clear(k)}
<1>8. Level(h, a) \in Nat /\ n = Level(h, a) + 1 /\ \A k \in 1..n : s[k] = k - 1
  BY LevelsList, GraphType
<1>9. 0 \in R
  BY <1>1, <1>8
<1>10. ASSUME NEW k \in 1..n, k - 1 \in R PROVE k \in R
  <2>1. PICK e : e = g[k - 1]
    OBVIOUS
  <2>2. e \in X /\ g[k] = DropLink(e, a, s[k], id) /\ s[k] = k - 1
    BY <1>1, <1>3, <1>7, <1>8, <2>1 DEF FoldStages, Op
  <2>3. /\ e \in Graphs /\ TargetsSound(e) /\ ListsShort(e) /\ a \in IDs(e)
        /\ IDs(e) = IDs(h) /\ \A m \in IDs(h) : Level(e, m) = Level(h, m)
        /\ s[k] \in 0..Level(e, a)
    BY <1>1, <2>2 DEF Pruned, Rewired, SameNodes, X
  <2>4. Pruned(g[k], e) /\ id \notin ToSet(Neighbors(g[k], a, s[k]))
    BY <2>2, <2>3, DropLinkPrunes
  <2>5. ASSUME NEW l \in 0..Level(h, a), l < k PROVE id \notin ToSet(Neighbors(g[k], a, l))
    <3>1. CASE l = k - 1
      BY <2>2, <2>4, <3>1
    <3>2. CASE l < k - 1
      <4>1. id \notin ToSet(Neighbors(e, a, l))
        BY <1>10, <2>1, <3>2
      <4> QED
        BY <2>3, <2>4, <4>1 DEF Pruned
    <3> QED
      BY <1>1, <1>8, <2>5, <3>1, <3>2
  <2> QED
    BY <1>1, <2>5
<1>11. n \in R
  <2>1. \A k \in 0..n : k \in R
    <3> HIDE DEF R
    <3> QED
      BY <1>1, <1>9, <1>10, IndexInduction
  <2> QED
    BY <1>1, <2>1
<1>12. g[n] \in X /\ \A l \in 0..Level(h, a) : l < n
  BY <1>7, <1>8 DEF FoldStages
<1> QED
  BY <1>2, <1>7, <1>11, <1>12 DEF X

\* id leaves the lists of the nodes of s.
Unlinked(h, id, s) == FoldLeft(LAMBDA g, n : DropLinks(g, n, id), h, s)

\* Rewriting the lists of all nodes removes the deleted ID from every one of
\* them (hnsw.go Delete: the loop over the nodes).
LEMMA UnlinkedPrunes ==
  ASSUME NEW h \in Graphs, TargetsSound(h), ListsShort(h), NEW id, NEW s \in Seq(IDs(h))
  PROVE  /\ Pruned(Unlinked(h, id, s), h)
         /\ \A a \in ToSet(s) : \A l \in 0..Level(h, a) :
              id \notin ToSet(Neighbors(Unlinked(h, id, s), a, l))
<1> DEFINE n == Len(s)
           X == {g \in Graphs : Pruned(g, h)}
           Op(g, x) == DropLinks(g, x, id)
           F == [p \in X \X (1..n) |-> Op(p[1], s[p[2]])]
           Body(it) == [T \in SUBSET (1..n) |->
                          IF T = {} THEN h ELSE Op(it[T \ {Max(T)}], s[Max(T)])]
           it == CHOOSE it : it = Body(it)
<1>1. n \in Nat /\ DOMAIN s = 1..n /\ \A i \in 1..n : s[i] \in IDs(h)
  OBVIOUS
<1>2. Unlinked(h, id, s) = it[1..n]
  BY <1>1 DEF Unlinked, FoldLeft, MapThenFoldSet
<1>3. \A x \in X, i \in 1..n : F[<<x, i>>] = Op(x, s[i])
  OBVIOUS
<1>4. ASSUME NEW g \in X, NEW x \in IDs(h) PROVE Op(g, x) \in X
  <2>1. /\ g \in Graphs /\ TargetsSound(g) /\ ListsShort(g) /\ Pruned(g, h)
        /\ IDs(g) = IDs(h) /\ \A m \in IDs(h) : Level(g, m) = Level(h, m)
    BY DEF Pruned, Rewired, SameNodes
  <2>2. Pruned(DropLinks(g, x, id), g)
    BY <2>1, DropLinksPrunes
  <2> QED
    BY <2>1, <2>2, PrunedComposes DEF Pruned, Rewired
<1>5. StaysIn(F, 1..n, X) /\ h \in X
  <2>1. h \in X
    <3>1. SameNodes(h, h)
      BY SameNodesComposes
    <3> QED
      BY <3>1 DEF Pruned, Rewired
  <2> HIDE DEF X, Op, F
  <2> QED
    BY <1>1, <1>3, <1>4, <2>1 DEF StaysIn
<1> HIDE DEF X, F, Op
<1>6. it = Body(it)
  <2>1. PICK f : DefinesFold(n, X, h, F, f)
    BY <1>1, <1>5, FoldDefined
  <2>2. f \in [SUBSET (1..n) -> X]
    BY <2>1 DEF DefinesFold
  <2>3. ASSUME NEW T \in SUBSET (1..n)
        PROVE  f[T] = IF T = {} THEN h ELSE Op(f[T \ {Max(T)}], s[Max(T)])
    <3>1. f[T] = IF T = {} THEN h ELSE F[<<f[T \ {Max(T)}], Max(T)>>]
      BY <2>1 DEF DefinesFold
    <3>2. T # {} => Max(T) \in 1..n /\ f[T \ {Max(T)}] \in X
      BY <1>1, <2>2, MaxOfIndexes
    <3> QED
      BY <1>3, <3>1, <3>2
  <2>4. f = Body(f)
    BY <2>2, <2>3
  <2> QED
    BY <2>4
<1>7. PICK g : FoldStages(n, X, h, F, g) /\ it[1..n] = g[n]
  <2>1. \A T \in SUBSET (1..n) : it[T] = Body(it)[T]
    BY <1>6
  <2> HIDE DEF it
  <2>2. it[{}] = h
    BY <2>1
  <2>3. \A T \in SUBSET (1..n) :
          T # {} /\ it[T \ {Max(T)}] \in X => it[T] = F[<<it[T \ {Max(T)}], Max(T)>>]
    BY <1>1, <1>3, <2>1, MaxOfIndexes
  <2>4. FoldSolution(n, X, h, F, it)
    BY <2>2, <2>3 DEF FoldSolution
  <2> QED
    BY <1>1, <1>5, <2>4, FoldSteps
<1> DEFINE Clear(k) == \A j \in 1..k : \A l \in 0..Level(h, s[j]) :
                         id \notin ToSet(Neighbors(g[k], s[j], l))
           R == {k \in 0..n : Clear(k)}
<1>8. 0 \in R
  BY <1>1
<1>9. ASSUME NEW k \in 1..n, k - 1 \in R PROVE k \in R
  <2>1. PICK e : e = g[k - 1]
    OBVIOUS
  <2>2. e \in X /\ g[k] = DropLinks(e, s[k], id)
    BY <1>1, <1>3, <1>7, <2>1 DEF FoldStages, Op
  <2>3. /\ e \in Graphs /\ TargetsSound(e) /\ ListsShort(e) /\ s[k] \in IDs(e)
        /\ IDs(e) = IDs(h) /\ \A m \in IDs(h) : Level(e, m) = Level(h, m)
    BY <1>1, <2>2 DEF Pruned, Rewired, SameNodes, X
  <2>4. /\ Pruned(g[k], e)
        /\ \A l \in 0..Level(h, s[k]) : id \notin ToSet(Neighbors(g[k], s[k], l))
    BY <1>1, <2>2, <2>3, DropLinksPrunes
  <2>5. ASSUME NEW j \in 1..k, NEW l \in 0..Level(h, s[j])
        PROVE  id \notin ToSet(Neighbors(g[k], s[j], l))
    <3>1. CASE j = k
      BY <2>4, <3>1
    <3>2. CASE j # k
      <4>1. j \in 1..k - 1 /\ j \in 1..n
        BY <1>1, <3>2
      <4>2. id \notin ToSet(Neighbors(e, s[j], l))
        BY <1>9, <2>1, <4>1
      <4> QED
        BY <1>1, <2>3, <2>4, <4>1, <4>2 DEF Pruned
    <3> QED
      BY <3>1, <3>2
  <2> QED
    BY <1>1, <2>5
<1>10. n \in R
  <2>1. \A k \in 0..n : k \in R
    <3> HIDE DEF R
    <3> QED
      BY <1>1, <1>8, <1>9, IndexInduction
  <2> QED
    BY <1>1, <2>1
<1>11. g[n] \in X
  BY <1>7 DEF FoldStages
<1>12. ASSUME NEW a \in ToSet(s), NEW l \in 0..Level(h, a)
       PROVE  id \notin ToSet(Neighbors(g[n], a, l))
  <2>1. PICK j \in 1..n : a = s[j]
    BY <1>1 DEF ToSet
  <2> QED
    BY <1>10, <2>1
<1> QED
  BY <1>2, <1>7, <1>11, <1>12 DEF X

-----------------------------------------------------------------------------
(* The graph without a node, and the entry.                                *)

\* The entry of h is a node of S of the highest level in S.
Highest(h, S) ==
  IF S = {}
    THEN h.entry = NoID /\ h.maxLevel = -1
    ELSE /\ h.entry \in S /\ h.maxLevel = Level(h, h.entry)
         /\ \A n \in S : Level(h, n) <= h.maxLevel

\* What every graph satisfies between two mutations.
SoundGraph(h) ==
  h \in Graphs /\ TargetsSound(h) /\ ListsShort(h) /\ Highest(h, IDs(h))

\* The nodes of S are in g what they are in h, up to their links.
SameOn(g, h, S) ==
  \A n \in S : g.nodes[n].v = h.nodes[n].v /\ Level(g, n) = Level(h, n)

\* The graph without a node is sound but for its entry: no link leads to the
\* node that is gone (hnsw.go Delete).
LEMMA RemovedGraph ==
  ASSUME NEW h \in Graphs, TargetsSound(h), ListsShort(h), NEW id
  PROVE  /\ Removed(h, id) \in Graphs /\ TargetsSound(Removed(h, id))
         /\ ListsShort(Removed(h, id)) /\ IDs(Removed(h, id)) = IDs(h) \ {id}
         /\ Removed(h, id).cfg = h.cfg /\ Removed(h, id).rng = h.rng
         /\ Removed(h, id).entry = h.entry /\ Removed(h, id).maxLevel = h.maxLevel
         /\ SameOn(Removed(h, id), h, IDs(h) \ {id})
<1> DEFINE rest == IDs(h) \ {id}
           s == Ascending(rest)
           g == Unlinked(h, id, s)
           nodes == [n \in rest |-> g.nodes[n]]
           r == Removed(h, id)
<1>1. rest \in SUBSET Nat /\ IsFiniteSet(rest)
  <2>1. rest \in SUBSET IDs(h) /\ IDs(h) \in SUBSET Nat /\ IsFiniteSet(IDs(h))
    BY GraphType
  <2> HIDE DEF rest
  <2> QED
    BY <2>1, FS_Subset
<1>2. s \in Seq(IDs(h)) /\ ToSet(s) = rest
  <2>1. s \in Seq(Nat) /\ ToSet(s) = rest
    <3> HIDE DEF rest
    <3> QED
      BY <1>1, AscendingMembers
  <2> HIDE DEF s
  <2>2. s \in Seq(rest)
    BY <2>1, SeqOverMembers
  <2>3. rest \subseteq IDs(h)
    OBVIOUS
  <2> HIDE DEF rest
  <2> QED
    BY <2>1, <2>2, <2>3, SeqMonotonic
<1> HIDE DEF s
<1>3. /\ Pruned(g, h)
      /\ \A a \in rest : \A l \in 0..Level(h, a) : id \notin ToSet(Neighbors(g, a, l))
  BY <1>2, UnlinkedPrunes
<1>4. r = [g EXCEPT !.nodes = nodes]
  BY DEF Removed, Unlinked, s
<1> HIDE DEF g
<1>5. /\ g \in Graphs /\ TargetsSound(g) /\ ListsShort(g) /\ SameNodes(g, h)
      /\ IDs(g) = IDs(h) /\ \A m \in IDs(h) : Level(g, m) = Level(h, m)
  BY <1>3 DEF Pruned, Rewired, SameNodes
<1>6. PICK S \in SUBSET Nat : g.nodes \in [S -> Nodes]
  BY <1>5 DEF Graphs
<1>7. nodes \in [rest -> Nodes] /\ rest \subseteq IDs(h)
  BY <1>5, <1>6 DEF IDs
<1>8. \A n \in rest : nodes[n] = g.nodes[n]
  OBVIOUS
<1> HIDE DEF rest, nodes, r
<1>9. /\ r.nodes = nodes /\ r.cfg = g.cfg /\ r.rng = g.rng /\ r.entry = g.entry
      /\ r.maxLevel = g.maxLevel
  BY <1>4, <1>5 DEF Graphs
<1>10. IDs(r) = rest
  BY <1>7, <1>9 DEF IDs
<1>11. r \in Graphs
  BY <1>1, <1>4, <1>5, <1>7, <1>10 DEF Graphs
<1>12. \A n \in rest : r.nodes[n] = g.nodes[n] /\ Level(r, n) = Level(h, n)
  BY <1>5, <1>7, <1>8, <1>9 DEF Level
<1>13. \A n \in rest : \A l \in 0..Level(h, n) : Neighbors(r, n, l) = Neighbors(g, n, l)
  BY <1>12 DEF Neighbors
<1>14. TargetsSound(r)
  <2> SUFFICES ASSUME NEW n \in rest, NEW l \in 0..Level(h, n),
                      NEW b \in ToSet(Neighbors(g, n, l))
               PROVE  Target(r, n, l, b)
    BY <1>10, <1>12, <1>13 DEF TargetsSound
  <2>1. Target(g, n, l, b)
    BY <1>5, <1>7 DEF TargetsSound
  <2>2. b # id
    BY <1>3
  <2>3. b \in rest
    BY <1>5, <2>1, <2>2 DEF Target, rest
  <2> QED
    BY <1>5, <1>7, <1>10, <1>12, <2>1, <2>3 DEF Target
<1>15. ListsShort(r)
  BY <1>5, <1>7, <1>9, <1>10, <1>12, <1>13 DEF ListsShort
<1>16. SameOn(r, h, rest)
  BY <1>5, <1>7, <1>12 DEF SameOn, SameNodes
<1> QED
  BY <1>5, <1>9, <1>10, <1>11, <1>14, <1>15, <1>16 DEF r, rest, SameNodes

\* g is h with another entry.
OtherEntry(g, h) ==
  g \in Graphs /\ g.nodes = h.nodes /\ g.cfg = h.cfg /\ g.rng = h.rng

\* Links do not depend on the entry.
LEMMA OtherEntrySound ==
  ASSUME NEW h, NEW g, OtherEntry(g, h), TargetsSound(h), ListsShort(h)
  PROVE  TargetsSound(g) /\ ListsShort(g)
BY DEF OtherEntry, TargetsSound, ListsShort, Target, IDs, Level, Neighbors

\* Raising the entry to a node that is higher than all before it keeps the
\* entry highest among those seen (hnsw.go Insert, Delete).
LEMMA RaisedHighest ==
  ASSUME NEW h \in Graphs, NEW a \in IDs(h)
  PROVE  /\ OtherEntry(Raised(h, a), h)
         /\ \A S \in SUBSET IDs(h) : Highest(h, S) => Highest(Raised(h, a), S \cup {a})
<1> DEFINE r == Raised(h, a)
<1>1. /\ a \in Nat /\ Level(h, a) \in Nat /\ h.maxLevel \in Int
      /\ \A n \in IDs(h) : Level(h, n) \in Nat
  BY GraphType
<1>2. /\ OtherEntry(r, h)
      /\ r.entry = IF Level(h, a) > h.maxLevel THEN a ELSE h.entry
      /\ r.maxLevel = IF Level(h, a) > h.maxLevel THEN Level(h, a) ELSE h.maxLevel
  <2>1. CASE Level(h, a) > h.maxLevel
    <3>1. r = [h EXCEPT !.entry = a, !.maxLevel = Level(h, a)]
      BY <2>1 DEF Raised, Level
    <3> HIDE DEF r
    <3>2. /\ r.entry = a /\ r.maxLevel = Level(h, a) /\ r.nodes = h.nodes
          /\ r.cfg = h.cfg /\ r.rng = h.rng
      BY <3>1 DEF Graphs
    <3>3. r \in Graphs
      <4> DEFINE lev == Level(h, a)
      <4>1. lev \in Int /\ r = [h EXCEPT !.entry = a, !.maxLevel = lev]
        BY <1>1, <3>1
      <4> HIDE DEF lev
      <4> QED
        BY <1>1, <3>2, <4>1 DEF Graphs, IDs
    <3> QED
      BY <2>1, <3>2, <3>3 DEF OtherEntry
  <2>2. CASE ~(Level(h, a) > h.maxLevel)
    <3>1. r = h
      BY <2>2 DEF Raised, Level
    <3> QED
      BY <2>2, <3>1 DEF OtherEntry
  <2> QED
    BY <2>1, <2>2
<1> HIDE DEF r
<1>3. \A n \in IDs(h) : Level(r, n) = Level(h, n)
  BY <1>2 DEF OtherEntry, Level
<1>4. ASSUME NEW S \in SUBSET IDs(h), Highest(h, S) PROVE Highest(r, S \cup {a})
  <2>1. CASE Level(h, a) > h.maxLevel
    <3>1. \A n \in S : Level(h, n) <= Level(h, a)
      BY <1>1, <1>4, <2>1 DEF Highest
    <3> QED
      BY <1>1, <1>2, <1>3, <2>1, <3>1 DEF Highest
  <2>2. CASE ~(Level(h, a) > h.maxLevel)
    <3>1. S # {}
      BY <1>1, <1>4, <2>2 DEF Highest
    <3>2. /\ h.entry \in S /\ h.maxLevel = Level(h, h.entry)
          /\ \A n \in S : Level(h, n) <= h.maxLevel
      BY <1>4, <3>1 DEF Highest
    <3>3. r.entry = h.entry /\ r.maxLevel = h.maxLevel /\ Level(r, h.entry) = Level(h, h.entry)
      BY <1>2, <1>3, <2>2, <3>2
    <3>4. \A n \in S \cup {a} : Level(r, n) <= h.maxLevel
      BY <1>1, <1>3, <2>2, <3>2
    <3> QED
      BY <3>2, <3>3, <3>4 DEF Highest
  <2> QED
    BY <2>1, <2>2
<1> QED
  BY <1>2, <1>4 DEF r

\* Going through all IDs in order finds a node of the highest level (hnsw.go
\* Delete: the choice of a new entry point).
LEMMA NewEntryHighest ==
  ASSUME NEW h \in Graphs
  PROVE  /\ OtherEntry(WithNewEntry(h), h)
         /\ Highest(WithNewEntry(h), IDs(h))
<1> DEFINE s == SortedIDs(h)
           b == [h EXCEPT !.entry = NoID, !.maxLevel = -1]
           n == Len(s)
           X == {g \in Graphs : OtherEntry(g, h)}
           Op(g, x) == Raised(g, x)
           F == [p \in X \X (1..n) |-> Op(p[1], s[p[2]])]
           Body(it) == [T \in SUBSET (1..n) |->
                          IF T = {} THEN b ELSE Op(it[T \ {Max(T)}], s[Max(T)])]
           it == CHOOSE it : it = Body(it)
<1>1. n \in Nat /\ DOMAIN s = 1..n /\ \A i \in 1..n : s[i] \in IDs(h)
  <2>1. s \in Seq(Nat) /\ ToSet(s) = IDs(h)
    BY GraphType, AscendingMembers DEF SortedIDs
  <2> HIDE DEF s
  <2> QED
    BY <2>1 DEF ToSet
<1>2. WithNewEntry(h) = it[1..n]
  BY <1>1 DEF WithNewEntry, FoldLeft, MapThenFoldSet
<1>3. \A x \in X, i \in 1..n : F[<<x, i>>] = Op(x, s[i])
  OBVIOUS
<1>4. ASSUME NEW g \in X, NEW x \in IDs(h) PROVE Op(g, x) \in X
  <2>1. g \in Graphs /\ x \in IDs(g)
    BY DEF OtherEntry, IDs
  <2> QED
    BY <2>1, RaisedHighest DEF OtherEntry
<1>5. StaysIn(F, 1..n, X) /\ b \in X
  <2>1. b \in X
    <3>1. /\ b.nodes = h.nodes /\ b.cfg = h.cfg /\ b.rng = h.rng /\ b.entry = NoID
          /\ b.maxLevel = -1
      BY DEF Graphs
    <3>2. NoID \in Nat /\ -1 \in Int
      BY DEF NoID
    <3>3. b \in Graphs
      BY <3>1, <3>2 DEF Graphs, IDs
    <3> QED
      BY <3>1, <3>3 DEF OtherEntry
  <2> HIDE DEF X, Op, F
  <2> QED
    BY <1>1, <1>3, <1>4, <2>1 DEF StaysIn
<1> HIDE DEF X, F, Op
<1>6. it = Body(it)
  <2>1. PICK f : DefinesFold(n, X, b, F, f)
    BY <1>1, <1>5, FoldDefined
  <2>2. f \in [SUBSET (1..n) -> X]
    BY <2>1 DEF DefinesFold
  <2>3. ASSUME NEW T \in SUBSET (1..n)
        PROVE  f[T] = IF T = {} THEN b ELSE Op(f[T \ {Max(T)}], s[Max(T)])
    <3>1. f[T] = IF T = {} THEN b ELSE F[<<f[T \ {Max(T)}], Max(T)>>]
      BY <2>1 DEF DefinesFold
    <3>2. T # {} => Max(T) \in 1..n /\ f[T \ {Max(T)}] \in X
      BY <1>1, <2>2, MaxOfIndexes
    <3> QED
      BY <1>3, <3>1, <3>2
  <2>4. f = Body(f)
    BY <2>2, <2>3
  <2> QED
    BY <2>4
<1>7. PICK g : FoldStages(n, X, b, F, g) /\ it[1..n] = g[n]
  <2>1. \A T \in SUBSET (1..n) : it[T] = Body(it)[T]
    BY <1>6
  <2> HIDE DEF it
  <2>2. it[{}] = b
    BY <2>1
  <2>3. \A T \in SUBSET (1..n) :
          T # {} /\ it[T \ {Max(T)}] \in X => it[T] = F[<<it[T \ {Max(T)}], Max(T)>>]
    BY <1>1, <1>3, <2>1, MaxOfIndexes
  <2>4. FoldSolution(n, X, b, F, it)
    BY <2>2, <2>3 DEF FoldSolution
  <2> QED
    BY <1>1, <1>5, <2>4, FoldSteps
<1> DEFINE Taken(k) == {s[j] : j \in 1..k}
           R == {k \in 0..n : Highest(g[k], Taken(k))}
<1>8. 0 \in R
  <2>1. g[0] = b /\ Taken(0) = {}
    BY <1>7 DEF FoldStages
  <2>2. b.entry = NoID /\ b.maxLevel = -1
    BY DEF Graphs
  <2> HIDE DEF Taken, b
  <2> QED
    BY <1>1, <2>1, <2>2 DEF Highest
<1>9. ASSUME NEW k \in 1..n, k - 1 \in R PROVE k \in R
  <2>1. PICK e : e = g[k - 1]
    OBVIOUS
  <2>2. e \in X /\ g[k] = Raised(e, s[k])
    BY <1>1, <1>3, <1>7, <2>1 DEF FoldStages, Op
  <2>3. e \in Graphs /\ IDs(e) = IDs(h) /\ s[k] \in IDs(e) /\ Highest(e, Taken(k - 1))
    BY <1>1, <1>9, <2>1, <2>2 DEF OtherEntry, IDs, X
  <2>4. Taken(k - 1) \in SUBSET IDs(h)
    BY <1>1
  <2>5. Taken(k) = Taken(k - 1) \cup {s[k]}
    <3>1. \A j : j \in 1..k <=> j \in 1..k - 1 \/ j = k
      BY <1>1
    <3> QED
      BY <3>1
  <2> HIDE DEF Taken
  <2>6. Highest(g[k], Taken(k))
    BY <2>2, <2>3, <2>4, <2>5, RaisedHighest
  <2> QED
    BY <1>1, <2>6
<1>10. n \in R
  <2> HIDE DEF R
  <2>1. \A k \in 0..n : k \in R
    BY <1>1, <1>8, <1>9, IndexInduction
  <2> QED
    BY <1>1, <2>1
<1>11. g[n] \in X
  BY <1>7 DEF FoldStages
<1>12. Taken(n) = IDs(h)
  <2>1. ToSet(s) = IDs(h)
    BY GraphType, AscendingMembers DEF SortedIDs
  <2> QED
    BY <1>1, <2>1 DEF ToSet
<1> QED
  BY <1>2, <1>7, <1>10, <1>11, <1>12 DEF X

-----------------------------------------------------------------------------
(* Delete and Insert.                                                      *)

\* The empty graph is sound (hnsw.go NewHNSW).
LEMMA EmptyGraphSound ==
  ASSUME NEW cfg \in Configs, NEW rng \in Seeds
  PROVE  /\ SoundGraph(NewHNSW(cfg, rng)) /\ NewHNSW(cfg, rng).cfg = cfg
         /\ IDs(NewHNSW(cfg, rng)) = {}
<1> DEFINE h == NewHNSW(cfg, rng)
<1>1. /\ h.cfg = cfg /\ h.rng = rng /\ h.nodes = <<>> /\ h.entry = NoID /\ h.maxLevel = -1
      /\ h = [cfg |-> cfg, rng |-> rng, nodes |-> <<>>, entry |-> NoID, maxLevel |-> -1]
  BY DEF NewHNSW
<1> HIDE DEF h
<1>2. DOMAIN <<>> = {} /\ <<>> \in [{} -> Nodes]
  OBVIOUS
<1>3. IDs(h) = {} /\ IsFiniteSet(IDs(h))
  BY <1>1, <1>2, FS_EmptySet DEF IDs
<1>4. rng \in Seq(Nat) \ {<<>>} /\ NoID \in Nat /\ -1 \in Int
  BY DurableNodeAssumption DEF NoID
<1>5. <<>> \in UNION {[S -> Nodes] : S \in SUBSET Nat}
  BY <1>2
<1>6. h \in Graphs
  BY <1>1, <1>3, <1>4, <1>5 DEF Graphs
<1>7. TargetsSound(h) /\ ListsShort(h) /\ Highest(h, IDs(h))
  BY <1>1, <1>3 DEF TargetsSound, ListsShort, Highest
<1> QED
  BY <1>1, <1>3, <1>6, <1>7 DEF SoundGraph, h

\* Delete of a known ID leaves a sound graph of the other nodes with the
\* vectors they had (hnsw.go Delete).
LEMMA DeleteSound ==
  ASSUME NEW h, SoundGraph(h), NEW id \in IDs(h)
  PROVE  /\ SoundGraph(Delete(h, id)) /\ Delete(h, id).cfg = h.cfg
         /\ IDs(Delete(h, id)) = IDs(h) \ {id} /\ SameOn(Delete(h, id), h, IDs(h) \ {id})
<1> DEFINE g == Removed(h, id)
           f == RepairAll(g)
           r == Delete(h, id)
<1>1. h \in Graphs /\ TargetsSound(h) /\ ListsShort(h) /\ Highest(h, IDs(h))
  BY DEF SoundGraph
<1>2. /\ g \in Graphs /\ TargetsSound(g) /\ ListsShort(g) /\ IDs(g) = IDs(h) \ {id}
      /\ g.cfg = h.cfg /\ g.entry = h.entry /\ g.maxLevel = h.maxLevel
      /\ SameOn(g, h, IDs(h) \ {id})
  BY <1>1, RemovedGraph
<1>3. r = IF h.entry = id THEN WithNewEntry(f) ELSE f
  BY DEF Delete, RepairAll
<1> HIDE DEF g, r
<1>4. Rewired(f, g)
  BY <1>2, RepairAllSound
<1> HIDE DEF f
<1>5. /\ f \in Graphs /\ TargetsSound(f) /\ ListsShort(f) /\ IDs(f) = IDs(h) \ {id}
      /\ f.cfg = h.cfg /\ f.entry = h.entry /\ f.maxLevel = h.maxLevel
      /\ SameOn(f, h, IDs(h) \ {id})
  BY <1>2, <1>4 DEF Rewired, SameNodes, SameOn
<1>6. CASE h.entry = id
  <2>1. OtherEntry(r, f) /\ Highest(r, IDs(f))
    BY <1>3, <1>5, <1>6, NewEntryHighest
  <2>2. TargetsSound(r) /\ ListsShort(r)
    BY <1>5, <2>1, OtherEntrySound
  <2>3. IDs(r) = IDs(f) /\ SameOn(r, h, IDs(h) \ {id}) /\ r.cfg = h.cfg /\ r \in Graphs
    BY <1>5, <2>1 DEF OtherEntry, SameOn, IDs, Level
  <2> QED
    BY <1>5, <2>1, <2>2, <2>3 DEF SoundGraph, r
<1>7. CASE h.entry # id
  <2>1. r = f
    BY <1>3, <1>7
  <2>2. /\ h.entry \in IDs(h) /\ h.maxLevel = Level(h, h.entry)
        /\ \A n \in IDs(h) : Level(h, n) <= h.maxLevel
    BY <1>1 DEF Highest
  <2>3. Highest(f, IDs(f))
    BY <1>5, <1>7, <2>2 DEF Highest, SameOn
  <2> QED
    BY <1>5, <2>1, <2>3 DEF SoundGraph, r
<1> QED
  BY <1>6, <1>7

\* A new node without links leaves the links sound (hnsw.go Insert).
LEMMA AddedGraph ==
  ASSUME NEW h \in Graphs, TargetsSound(h), ListsShort(h), NEW id \in Nat \ IDs(h),
         NEW v \in Seq(Int)
  PROVE  /\ Added(h, id, v) \in Graphs /\ TargetsSound(Added(h, id, v))
         /\ ListsShort(Added(h, id, v)) /\ IDs(Added(h, id, v)) = IDs(h) \cup {id}
         /\ Added(h, id, v).cfg = h.cfg /\ Added(h, id, v).entry = h.entry
         /\ Added(h, id, v).maxLevel = h.maxLevel /\ SameOn(Added(h, id, v), h, IDs(h))
         /\ Added(h, id, v).nodes[id].v = v
         /\ \A l \in 0..Level(Added(h, id, v), id) : Neighbors(Added(h, id, v), id, l) = <<>>
<1> DEFINE lev == Head(h.rng)
           nb == [l \in 0..lev |-> <<>>]
           node == [v |-> v, level |-> lev, neighbors |-> nb]
           D == IDs(h) \cup {id}
           nodes == [n \in D |-> IF n = id THEN node ELSE h.nodes[n]]
           rng == Append(Tail(h.rng), lev)
           r == Added(h, id, v)
<1>1. h.rng \in Seq(Nat) /\ h.rng # <<>> /\ IDs(h) \in SUBSET Nat /\ IsFiniteSet(IDs(h))
      /\ h.cfg.M \in Nat
  BY GraphType
<1>2. lev \in Nat /\ rng \in Seq(Nat) \ {<<>>}
  <2>1. lev \in Nat /\ Tail(h.rng) \in Seq(Nat)
    BY <1>1
  <2> DEFINE N == Nat
             t == Tail(h.rng)
  <2>2. lev \in N /\ t \in Seq(N)
    BY <2>1
  <2>3. Append(t, lev) \in Seq(N) /\ Append(t, lev) # <<>>
    <3> HIDE DEF N, t, lev
    <3> QED
      BY <2>2, AppendProperties
  <2> QED
    BY <2>1, <2>3
<1>3. r = [h EXCEPT !.rng = rng, !.nodes = nodes]
  BY DEF Added
<1> HIDE DEF r, rng, lev
<1>4. nb \in [0..lev -> Seq(Nat)] /\ \A l \in 0..lev : nb[l] = <<>>
  OBVIOUS
<1> HIDE DEF nb
<1>5. node.v = v /\ node.level = lev /\ node.neighbors = nb
  OBVIOUS
<1>6. node \in Nodes
  <2> DEFINE R == UNION {[0..l -> Seq(Nat)] : l \in Nat}
  <2>1. nb \in R
    BY <1>2, <1>4
  <2>2. node \in [v : Seq(Int), level : Nat, neighbors : R]
    <3> HIDE DEF R
    <3> QED
      BY <1>2, <2>1
  <2> QED
    BY <1>4, <1>5, <2>2 DEF Nodes
<1> HIDE DEF node
<1>7. PICK S \in SUBSET Nat : h.nodes \in [S -> Nodes]
  BY DEF Graphs
<1>8. IDs(h) = S
  BY <1>7 DEF IDs
<1>9. /\ D \in SUBSET Nat /\ nodes \in [D -> Nodes] /\ nodes[id] = node
      /\ \A n \in IDs(h) : nodes[n] = h.nodes[n] /\ n # id
  BY <1>1, <1>6, <1>7, <1>8
<1>10. IsFiniteSet(D)
  BY <1>1, FS_AddElement
<1> HIDE DEF nodes, D
<1>11. /\ r.nodes = nodes /\ r.cfg = h.cfg /\ r.rng = rng /\ r.entry = h.entry
       /\ r.maxLevel = h.maxLevel
  BY <1>3 DEF Graphs
<1>12. IDs(r) = D
  BY <1>9, <1>11 DEF IDs
<1>13. r \in Graphs
  BY <1>2, <1>3, <1>9, <1>10, <1>11, <1>12 DEF Graphs
<1>14. /\ \A n \in IDs(h) : r.nodes[n] = h.nodes[n] /\ n # id
       /\ r.nodes[id] = node /\ Level(r, id) = lev
  BY <1>5, <1>9, <1>11 DEF Level
<1>15. \A n \in IDs(h) : /\ Level(r, n) = Level(h, n)
                         /\ \A l \in 0..Level(h, n) : Neighbors(r, n, l) = Neighbors(h, n, l)
  BY <1>14 DEF Level, Neighbors
<1>16. \A l \in 0..lev : Neighbors(r, id, l) = <<>>
  BY <1>4, <1>5, <1>14 DEF Neighbors
<1>17. \A n \in IDs(r) : n \in IDs(h) \/ n = id
  BY <1>12 DEF D
<1>18. TargetsSound(r)
  <2> SUFFICES ASSUME NEW n \in IDs(r), NEW l \in 0..Level(r, n), NEW b \in ToSet(Neighbors(r, n, l))
               PROVE  Target(r, n, l, b)
    BY DEF TargetsSound
  <2>1. CASE n \in IDs(h)
    <3>1. Target(h, n, l, b)
      BY <1>15, <2>1 DEF TargetsSound
    <3> QED
      BY <1>12, <1>15, <2>1, <3>1 DEF Target, D
  <2>2. CASE n = id
    <3>1. Neighbors(r, n, l) = <<>>
      BY <1>14, <1>16, <2>2
    <3>2. ToSet(<<>>) = {}
      BY DEF ToSet
    <3> QED
      BY <3>1, <3>2
  <2> QED
    BY <1>17, <2>1, <2>2
<1>19. ListsShort(r)
  <2> SUFFICES ASSUME NEW n \in IDs(r), NEW l \in 0..Level(r, n)
               PROVE  Len(Neighbors(r, n, l)) <= h.cfg.M
    BY <1>11 DEF ListsShort
  <2>1. CASE n \in IDs(h)
    BY <1>15, <2>1 DEF ListsShort
  <2>2. CASE n = id
    <3>1. Neighbors(r, n, l) = <<>>
      BY <1>14, <1>16, <2>2
    <3> QED
      BY <1>1, <3>1
  <2> QED
    BY <1>17, <2>1, <2>2
<1>20. SameOn(r, h, IDs(h)) /\ r.nodes[id].v = v
  BY <1>5, <1>14, <1>15 DEF SameOn
<1> QED
  BY <1>11, <1>12, <1>13, <1>14, <1>16, <1>18, <1>19, <1>20 DEF r, D

\* g is h with other links; the lists of node a may be of any length.
OthersShort(g, h, a) ==
  /\ g \in Graphs /\ SameNodes(g, h) /\ TargetsSound(g)
  /\ \A m \in IDs(h) \ {a} : \A k \in 0..Level(h, m) : Len(Neighbors(g, m, k)) <= h.cfg.M

\* Linking the new node, level after level, fills each of its lists up to M at
\* most, since each was empty (hnsw.go Insert).
LEMMA LinkedSound ==
  ASSUME NEW h \in Graphs, TargetsSound(h), ListsShort(h), h.maxLevel >= -1,
         NEW a \in IDs(h), \A l \in 0..Level(h, a) : Neighbors(h, a, l) = <<>>
  PROVE  Rewired(Linked(h, a), h)
<1> DEFINE top == Smaller(h.nodes[a].level, h.maxLevel)
           s == [k \in 1..top + 1 |-> top + 1 - k]
           n == Len(s)
           X == {g \in Graphs : OthersShort(g, h, a)}
           Op(g, x) == Connect(g, a, x, g.cfg.M, {a})
           F == [p \in X \X (1..n) |-> Op(p[1], s[p[2]])]
           Body(it) == [T \in SUBSET (1..n) |->
                          IF T = {} THEN h ELSE Op(it[T \ {Max(T)}], s[Max(T)])]
           it == CHOOSE it : it = Body(it)
<1>0. /\ top + 1 \in Nat /\ top \in Int /\ \A x \in 0..top : x \in 0..Level(h, a)
      /\ Level(h, a) \in Nat
  <2>1. h.nodes[a].level \in Nat /\ h.maxLevel \in Int
    BY GraphType DEF Level
  <2> QED
    BY <2>1 DEF Smaller, Level
<1> HIDE DEF top
<1>1. n \in Nat /\ DOMAIN s = 1..n /\ \A i \in 1..n : s[i] \in 0..top
  <2> DEFINE L == 0..top
             m == top + 1
  <2>1. m \in Nat /\ s \in [1..m -> L]
    BY <1>0
  <2>2. n \in Nat /\ DOMAIN s = 1..n /\ \A i \in 1..n : s[i] \in L
    <3> HIDE DEF s, L, m
    <3> QED
      BY <2>1
  <2> QED
    BY <2>2
<1>2. Linked(h, a) = it[1..n]
  BY <1>0, <1>1 DEF Linked, top, FoldLeft, MapThenFoldSet
<1>3. \A x \in X, i \in 1..n : F[<<x, i>>] = Op(x, s[i])
  OBVIOUS
<1>4. ASSUME NEW g \in X, NEW x \in 0..top PROVE Op(g, x) \in X
  <2>1. /\ g \in Graphs /\ TargetsSound(g) /\ SameNodes(g, h) /\ IDs(g) = IDs(h)
        /\ g.cfg = h.cfg /\ \A m \in IDs(h) : Level(g, m) = Level(h, m)
    BY DEF OthersShort, SameNodes
  <2>2. a \in IDs(g) /\ x \in 0..Level(g, a) /\ g.cfg.M \in Nat /\ a \in {a}
    BY <1>0, <2>1, GraphType
  <2> DEFINE f == Connect(g, a, x, g.cfg.M, {a})
  <2>3. Relinked(f, g, a, x)
    BY <2>1, <2>2, ConnectLists
  <2> HIDE DEF f
  <2>4. f \in Graphs /\ SameNodes(f, h) /\ TargetsSound(f)
    BY <2>1, <2>3, SameNodesComposes DEF Relinked
  <2>5. ASSUME NEW m \in IDs(h) \ {a}, NEW k \in 0..Level(h, m)
        PROVE  Len(Neighbors(f, m, k)) <= h.cfg.M
    BY <2>1, <2>3 DEF Relinked, OthersShort
  <2> QED
    BY <2>4, <2>5 DEF OthersShort, f
<1>5. StaysIn(F, 1..n, X) /\ h \in X
  <2>1. h \in X
    <3>1. SameNodes(h, h)
      BY SameNodesComposes
    <3> QED
      BY <3>1 DEF OthersShort, ListsShort
  <2> HIDE DEF X, Op, F
  <2> QED
    BY <1>1, <1>3, <1>4, <2>1 DEF StaysIn
<1> HIDE DEF X, F, Op, n, s
<1>6. it = Body(it)
  <2>1. PICK f : DefinesFold(n, X, h, F, f)
    BY <1>1, <1>5, FoldDefined
  <2>2. f \in [SUBSET (1..n) -> X]
    BY <2>1 DEF DefinesFold
  <2>3. ASSUME NEW T \in SUBSET (1..n)
        PROVE  f[T] = IF T = {} THEN h ELSE Op(f[T \ {Max(T)}], s[Max(T)])
    <3>1. f[T] = IF T = {} THEN h ELSE F[<<f[T \ {Max(T)}], Max(T)>>]
      BY <2>1 DEF DefinesFold
    <3>2. T # {} => Max(T) \in 1..n /\ f[T \ {Max(T)}] \in X
      BY <1>1, <2>2, MaxOfIndexes
    <3> QED
      BY <1>3, <3>1, <3>2
  <2>4. f = Body(f)
    BY <2>2, <2>3
  <2> QED
    BY <2>4
<1>7. PICK g : FoldStages(n, X, h, F, g) /\ it[1..n] = g[n]
  <2>1. \A T \in SUBSET (1..n) : it[T] = Body(it)[T]
    BY <1>6
  <2> HIDE DEF it
  <2>2. it[{}] = h
    BY <2>1
  <2>3. \A T \in SUBSET (1..n) :
          T # {} /\ it[T \ {Max(T)}] \in X => it[T] = F[<<it[T \ {Max(T)}], Max(T)>>]
    BY <1>1, <1>3, <2>1, MaxOfIndexes
  <2>4. FoldSolution(n, X, h, F, it)
    BY <2>2, <2>3 DEF FoldSolution
  <2> QED
    BY <1>1, <1>5, <2>4, FoldSteps
<1> DEFINE Done(k) == \A l \in 0..Level(h, a) :
                        /\ Len(Neighbors(g[k], a, l)) <= h.cfg.M
                        /\ l < top + 1 - k => Neighbors(g[k], a, l) = <<>>
           R == {k \in 0..n : Done(k)}
<1>8. h.cfg.M \in Nat
  BY GraphType
<1>9. 0 \in R
  <2>1. g[0] = h
    BY <1>7 DEF FoldStages
  <2> QED
    BY <1>1, <1>8, <2>1
<1>10. ASSUME NEW k \in 1..n, k - 1 \in R PROVE k \in R
  <2>1. PICK e : e = g[k - 1]
    OBVIOUS
  <2>2. e \in X /\ g[k] = Connect(e, a, s[k], e.cfg.M, {a}) /\ s[k] = top + 1 - k
    BY <1>0, <1>1, <1>3, <1>7, <2>1 DEF FoldStages, Op, s, n
  <2>3. /\ e \in Graphs /\ TargetsSound(e) /\ a \in IDs(e) /\ e.cfg = h.cfg
        /\ IDs(e) = IDs(h) /\ \A m \in IDs(h) : Level(e, m) = Level(h, m)
        /\ s[k] \in 0..Level(e, a) /\ s[k] \in 0..Level(h, a)
    BY <1>0, <1>1, <2>2 DEF OthersShort, SameNodes, X
  <2>4. Done(k - 1)
    BY <1>10
  <2>5. Neighbors(e, a, s[k]) = <<>>
    <3>1. s[k] < top + 1 - (k - 1)
      BY <1>0, <1>1, <2>2
    <3> QED
      BY <2>1, <2>3, <2>4, <3>1
  <2>6. /\ Relinked(g[k], e, a, s[k])
        /\ Len(Neighbors(g[k], a, s[k])) <= Len(Neighbors(e, a, s[k])) + h.cfg.M
    BY <1>8, <2>2, <2>3, ConnectLists
  <2>7. Len(Neighbors(g[k], a, s[k])) <= h.cfg.M
    BY <1>8, <2>5, <2>6
  <2>8. ASSUME NEW l \in 0..Level(h, a), l # s[k]
        PROVE  Neighbors(g[k], a, l) = Neighbors(e, a, l)
    BY <2>3, <2>6, <2>8 DEF Relinked
  <2>9. ASSUME NEW l \in 0..Level(h, a)
        PROVE  /\ Len(Neighbors(g[k], a, l)) <= h.cfg.M
               /\ l < top + 1 - k => Neighbors(g[k], a, l) = <<>>
    <3>1. CASE l = s[k]
      BY <1>0, <1>1, <2>2, <2>7, <3>1
    <3>2. CASE l # s[k]
      <4>1. l < top + 1 - k => l < top + 1 - (k - 1)
        BY <1>0, <1>1
      <4> QED
        BY <2>1, <2>4, <2>8, <3>2, <4>1
    <3> QED
      BY <3>1, <3>2
  <2> QED
    BY <1>1, <2>9
<1>11. n \in R
  <2> HIDE DEF R
  <2>1. \A k \in 0..n : k \in R
    BY <1>1, <1>9, <1>10, IndexInduction
  <2> QED
    BY <1>1, <2>1
<1>12. g[n] \in X
  BY <1>7 DEF FoldStages
<1> DEFINE r == g[n]
<1>13. /\ r \in Graphs /\ SameNodes(r, h) /\ TargetsSound(r)
       /\ \A m \in IDs(h) \ {a} : \A k \in 0..Level(h, m) : Len(Neighbors(r, m, k)) <= h.cfg.M
       /\ \A l \in 0..Level(h, a) : Len(Neighbors(r, a, l)) <= h.cfg.M
  BY <1>11, <1>12 DEF X, OthersShort
<1> HIDE DEF r
<1>14. ListsShort(r)
  BY <1>13 DEF ListsShort, SameNodes
<1> QED
  BY <1>2, <1>7, <1>13, <1>14 DEF Rewired, r

\* Insert, which deletes a known ID first, leaves a sound graph with the new
\* vector, and every other node with its own (hnsw.go Insert).
LEMMA InsertSound ==
  ASSUME NEW h, SoundGraph(h), NEW id \in Nat, NEW v \in Seq(Int)
  PROVE  /\ SoundGraph(Insert(h, id, v)) /\ Insert(h, id, v).cfg = h.cfg
         /\ IDs(Insert(h, id, v)) = IDs(h) \cup {id} /\ Insert(h, id, v).nodes[id].v = v
         /\ \A n \in IDs(h) \ {id} : Insert(h, id, v).nodes[n].v = h.nodes[n].v
<1> DEFINE g == IF id \in IDs(h) THEN Delete(h, id) ELSE h
           f == Added(g, id, v)
           e == Linked(f, id)
           r == Insert(h, id, v)
<1>1. SoundGraph(g) /\ g.cfg = h.cfg /\ IDs(g) = IDs(h) \ {id} /\ SameOn(g, h, IDs(h) \ {id})
  <2>1. CASE id \in IDs(h)
    BY <2>1, DeleteSound
  <2>2. CASE id \notin IDs(h)
    BY <2>2 DEF SameOn
  <2> QED
    BY <2>1, <2>2
<1>2. r = Raised(e, id)
  BY DEF Insert
<1> HIDE DEF g, r
<1>3. g \in Graphs /\ TargetsSound(g) /\ ListsShort(g) /\ Highest(g, IDs(g)) /\ id \in Nat \ IDs(g)
  BY <1>1 DEF SoundGraph
<1>4. /\ f \in Graphs /\ TargetsSound(f) /\ ListsShort(f) /\ IDs(f) = IDs(h) \cup {id}
      /\ f.cfg = h.cfg /\ f.entry = g.entry /\ f.maxLevel = g.maxLevel /\ SameOn(f, g, IDs(g))
      /\ f.nodes[id].v = v /\ \A l \in 0..Level(f, id) : Neighbors(f, id, l) = <<>>
  <2>1. /\ f \in Graphs /\ TargetsSound(f) /\ ListsShort(f) /\ IDs(f) = IDs(g) \cup {id}
        /\ f.cfg = g.cfg /\ f.entry = g.entry /\ f.maxLevel = g.maxLevel
        /\ SameOn(f, g, IDs(g)) /\ f.nodes[id].v = v
        /\ \A l \in 0..Level(f, id) : Neighbors(f, id, l) = <<>>
    BY <1>3, AddedGraph
  <2> HIDE DEF f
  <2> QED
    BY <1>1, <2>1
<1> HIDE DEF f
<1>5. f.maxLevel >= -1
  BY <1>3, <1>4, GraphType DEF Highest
<1>6. Rewired(e, f)
  BY <1>4, <1>5, LinkedSound
<1> HIDE DEF e
<1>7. /\ e \in Graphs /\ TargetsSound(e) /\ ListsShort(e) /\ IDs(e) = IDs(h) \cup {id}
      /\ e.cfg = h.cfg /\ e.entry = g.entry /\ e.maxLevel = g.maxLevel
      /\ SameOn(e, g, IDs(g)) /\ e.nodes[id].v = v
  BY <1>1, <1>4, <1>6 DEF Rewired, SameNodes, SameOn
<1>8. Highest(e, IDs(g))
  BY <1>3, <1>7 DEF Highest, SameOn
<1>9. OtherEntry(r, e) /\ Highest(r, IDs(g) \cup {id})
  BY <1>1, <1>2, <1>7, <1>8, RaisedHighest
<1>10. TargetsSound(r) /\ ListsShort(r)
  BY <1>7, <1>9, OtherEntrySound
<1>11. r \in Graphs /\ IDs(r) = IDs(h) \cup {id} /\ r.nodes = e.nodes /\ r.cfg = h.cfg
  BY <1>7, <1>9 DEF OtherEntry, IDs
<1>12. IDs(g) \cup {id} = IDs(r)
  BY <1>1, <1>11
<1>13. SoundGraph(r)
  BY <1>9, <1>10, <1>11, <1>12 DEF SoundGraph
<1>14. \A n \in IDs(h) \ {id} : r.nodes[n].v = h.nodes[n].v
  BY <1>1, <1>7, <1>11 DEF SameOn
<1> QED
  BY <1>7, <1>11, <1>13, <1>14 DEF r

-----------------------------------------------------------------------------
(* The log, and what it leaves.                                            *)

\* Entry i is the newest of the first n entries of L about id.
Newest(L, n, id, i) ==
  i \in 1..n /\ L[i].id = id /\ \A j \in i + 1..n : L[j].id # id

\* Vectors of a given log.
VectorsOf(L, n) ==
  LET ids == {L[i].id : i \in 1..n}
      newest(id) == CHOOSE i \in 1..n : L[i].id = id /\ \A j \in i + 1..n : L[j].id # id
  IN [id \in {j \in ids : L[newest(j)].operation = "insert"} |-> L[newest(id)].vector]

\* Vectors speaks of the committed log.
LEMMA VectorsOfLog ==
  \A n : Vectors(n) = VectorsOf(log, n)
BY DEF Vectors, VectorsOf

\* An ID that occurs in the log has a newest entry (persist.go ApplyMutation).
LEMMA NewestExists ==
  ASSUME NEW L, NEW n \in Nat, NEW i \in 1..n
  PROVE  \E k : Newest(L, n, L[i].id, k)
<1> DEFINE S == {k \in 1..n : L[k].id = L[i].id}
<1>1. S \in SUBSET (0..n) /\ S # {}
  OBVIOUS
<1>2. PICK k \in S : \A j \in S : j <= k
  <2> HIDE DEF S
  <2> QED
    BY <1>1, MaximumExists
<1>3. \A j \in k + 1..n : j \in 1..n /\ ~(j <= k)
  OBVIOUS
<1> QED
  BY <1>2, <1>3 DEF Newest

\* It has only one.
LEMMA NewestUnique ==
  ASSUME NEW L, NEW n \in Nat, NEW id, NEW i, NEW k, Newest(L, n, id, i), Newest(L, n, id, k)
  PROVE  i = k
<1>1. i \in 1..n /\ k \in 1..n /\ (i < k \/ k < i \/ i = k)
  BY DEF Newest
<1>2. CASE i < k
  <2>1. k \in i + 1..n
    BY <1>1, <1>2
  <2> QED
    BY <2>1 DEF Newest
<1>3. CASE k < i
  <2>1. i \in k + 1..n
    BY <1>1, <1>3
  <2> QED
    BY <2>1 DEF Newest
<1> QED
  BY <1>1, <1>2, <1>3

\* The vectors a log leaves, by the newest entry of each ID (persist.go
\* ApplyMutation).
LEMMA VectorsByNewest ==
  ASSUME NEW L, NEW n \in Nat
  PROVE  /\ VectorsOf(L, n) = [id \in DOMAIN VectorsOf(L, n) |-> VectorsOf(L, n)[id]]
         /\ \A id : id \in DOMAIN VectorsOf(L, n) =>
              \E i : Newest(L, n, id, i) /\ L[i].operation = "insert"
         /\ \A id, i : Newest(L, n, id, i) /\ L[i].operation = "insert" =>
              id \in DOMAIN VectorsOf(L, n) /\ VectorsOf(L, n)[id] = L[i].vector
<1> DEFINE ids == {L[i].id : i \in 1..n}
           newest(id) == CHOOSE i \in 1..n : L[i].id = id /\ \A j \in i + 1..n : L[j].id # id
           D == {j \in ids : L[newest(j)].operation = "insert"}
<1>1. VectorsOf(L, n) = [id \in D |-> L[newest(id)].vector]
  BY DEF VectorsOf
<1>2. ASSUME NEW id \in ids PROVE Newest(L, n, id, newest(id))
  <2>1. PICK k : Newest(L, n, id, k)
    BY NewestExists
  <2>2. \E i \in 1..n : L[i].id = id /\ \A j \in i + 1..n : L[j].id # id
    BY <2>1 DEF Newest
  <2> QED
    BY <2>2 DEF Newest
<1>3. \A id, i : Newest(L, n, id, i) => id \in ids
  BY DEF Newest
<1> HIDE DEF newest, ids
<1>4. ASSUME NEW id, NEW i, Newest(L, n, id, i), L[i].operation = "insert"
      PROVE  id \in D /\ L[newest(id)].vector = L[i].vector
  <2>1. newest(id) = i
    BY <1>2, <1>3, <1>4, NewestUnique
  <2> QED
    BY <1>3, <1>4, <2>1
<1>5. DOMAIN VectorsOf(L, n) = D
  BY <1>1
<1>6. \A id \in D : VectorsOf(L, n)[id] = L[newest(id)].vector
  BY <1>1
<1>7. \A id \in D : Newest(L, n, id, newest(id)) /\ L[newest(id)].operation = "insert"
  BY <1>2
<1>8. VectorsOf(L, n) = [id \in DOMAIN VectorsOf(L, n) |-> VectorsOf(L, n)[id]]
  BY <1>1
<1> HIDE DEF D
<1> QED
  BY <1>4, <1>5, <1>6, <1>7, <1>8

\* The vectors a graph holds, by ID.
Contents(h) == [id \in IDs(h) |-> h.nodes[id].v]

\* What is proposed later does not change what the first entries leave.
LEMMA VectorsOfPrefix ==
  ASSUME NEW L, NEW A, NEW n \in Nat, \A i \in 1..n : A[i] = L[i]
  PROVE  VectorsOf(A, n) = VectorsOf(L, n)
<1>1. \A id, i : Newest(A, n, id, i) <=> Newest(L, n, id, i)
  <2> TAKE id, i
  <2>1. i \in 1..n => A[i] = L[i] /\ \A j \in i + 1..n : A[j] = L[j]
    OBVIOUS
  <2> QED
    BY <2>1 DEF Newest
<1>2. \A id, i : Newest(L, n, id, i) => A[i] = L[i]
  BY DEF Newest
<1> DEFINE f == VectorsOf(A, n)
           g == VectorsOf(L, n)
<1>3. /\ f = [id \in DOMAIN f |-> f[id]]
      /\ \A id : id \in DOMAIN f => \E i : Newest(A, n, id, i) /\ A[i].operation = "insert"
      /\ \A id, i : Newest(A, n, id, i) /\ A[i].operation = "insert" =>
           id \in DOMAIN f /\ f[id] = A[i].vector
  BY VectorsByNewest
<1>4. /\ g = [id \in DOMAIN g |-> g[id]]
      /\ \A id : id \in DOMAIN g => \E i : Newest(L, n, id, i) /\ L[i].operation = "insert"
      /\ \A id, i : Newest(L, n, id, i) /\ L[i].operation = "insert" =>
           id \in DOMAIN g /\ g[id] = L[i].vector
  BY VectorsByNewest
<1> HIDE DEF f, g
<1>5. ASSUME NEW id \in DOMAIN f PROVE id \in DOMAIN g /\ f[id] = g[id]
  <2>1. PICK i : Newest(A, n, id, i) /\ A[i].operation = "insert"
    BY <1>3
  <2>2. Newest(L, n, id, i) /\ L[i].operation = "insert" /\ A[i] = L[i]
    BY <1>1, <1>2, <2>1
  <2> QED
    BY <1>3, <1>4, <2>1, <2>2
<1>6. ASSUME NEW id \in DOMAIN g PROVE id \in DOMAIN f
  <2>1. PICK i : Newest(L, n, id, i) /\ L[i].operation = "insert"
    BY <1>4
  <2>2. Newest(A, n, id, i) /\ A[i].operation = "insert"
    BY <1>1, <1>2, <2>1
  <2> QED
    BY <1>3, <2>2
<1>7. DOMAIN f = DOMAIN g /\ \A id \in DOMAIN f : f[id] = g[id]
  BY <1>5, <1>6
<1>8. f = g
  BY <1>3, <1>4, <1>7
<1> QED
  BY <1>8 DEF f, g

\* What one entry more changes: the vector of its own ID and no other
\* (persist.go ApplyMutation).
LEMMA VectorsOfNext ==
  ASSUME NEW L, NEW n \in Nat, L[n + 1].operation \in {"insert", "delete"}
  PROVE  /\ DOMAIN VectorsOf(L, n + 1) =
              IF L[n + 1].operation = "insert"
                THEN DOMAIN VectorsOf(L, n) \cup {L[n + 1].id}
                ELSE DOMAIN VectorsOf(L, n) \ {L[n + 1].id}
         /\ L[n + 1].operation = "insert" =>
              VectorsOf(L, n + 1)[L[n + 1].id] = L[n + 1].vector
         /\ \A id \in DOMAIN VectorsOf(L, n) \ {L[n + 1].id} :
              VectorsOf(L, n + 1)[id] = VectorsOf(L, n)[id]
<1> DEFINE f == VectorsOf(L, n + 1)
           g == VectorsOf(L, n)
           m == L[n + 1]
<1>1. n + 1 \in Nat
  OBVIOUS
<1>2. /\ \A id : id \in DOMAIN f => \E i : Newest(L, n + 1, id, i) /\ L[i].operation = "insert"
      /\ \A id, i : Newest(L, n + 1, id, i) /\ L[i].operation = "insert" =>
           id \in DOMAIN f /\ f[id] = L[i].vector
  BY <1>1, VectorsByNewest
<1>3. /\ \A id : id \in DOMAIN g => \E i : Newest(L, n, id, i) /\ L[i].operation = "insert"
      /\ \A id, i : Newest(L, n, id, i) /\ L[i].operation = "insert" =>
           id \in DOMAIN g /\ g[id] = L[i].vector
  BY VectorsByNewest
<1>4. Newest(L, n + 1, m.id, n + 1)
  <2>1. n + 1 \in 1..n + 1 /\ \A j : j \notin (n + 1) + 1..n + 1
    OBVIOUS
  <2> QED
    BY <2>1 DEF Newest
<1>5. ASSUME NEW id, NEW i, id # m.id PROVE Newest(L, n + 1, id, i) <=> Newest(L, n, id, i)
  <2>1. ASSUME Newest(L, n + 1, id, i) PROVE Newest(L, n, id, i)
    <3>1. i \in 1..n + 1 /\ L[i].id = id /\ \A j \in i + 1..n + 1 : L[j].id # id
      BY <2>1 DEF Newest
    <3>2. i # n + 1
      BY <1>5, <3>1
    <3>3. i \in 1..n /\ \A j \in i + 1..n : j \in i + 1..n + 1
      BY <3>1, <3>2
    <3> QED
      BY <3>1, <3>3 DEF Newest
  <2>2. ASSUME Newest(L, n, id, i) PROVE Newest(L, n + 1, id, i)
    <3>1. i \in 1..n /\ L[i].id = id /\ \A j \in i + 1..n : L[j].id # id
      BY <2>2 DEF Newest
    <3>2. i \in 1..n + 1 /\ \A j \in i + 1..n + 1 : j \in i + 1..n \/ j = n + 1
      BY <3>1
    <3> QED
      BY <1>5, <3>1, <3>2 DEF Newest
  <2> QED
    BY <2>1, <2>2
<1> HIDE DEF f, g, m
<1>6. ASSUME NEW id, id # m.id
      PROVE  /\ id \in DOMAIN f <=> id \in DOMAIN g
             /\ id \in DOMAIN g => f[id] = g[id]
  <2>1. ASSUME id \in DOMAIN f PROVE id \in DOMAIN g
    BY <1>2, <1>3, <1>5, <1>6, <2>1
  <2>2. ASSUME id \in DOMAIN g PROVE id \in DOMAIN f /\ f[id] = g[id]
    <3>1. PICK i : Newest(L, n, id, i) /\ L[i].operation = "insert"
      BY <1>3, <2>2
    <3>2. Newest(L, n + 1, id, i)
      BY <1>5, <1>6, <3>1
    <3> QED
      BY <1>2, <1>3, <3>1, <3>2
  <2> QED
    BY <2>1, <2>2
<1>7. CASE m.operation = "insert"
  <2>1. m.id \in DOMAIN f /\ f[m.id] = m.vector
    BY <1>2, <1>4, <1>7 DEF m
  <2>2. DOMAIN f = DOMAIN g \cup {m.id}
    BY <1>6, <2>1
  <2> QED
    BY <1>6, <1>7, <2>1, <2>2 DEF f, g, m
<1>8. CASE m.operation = "delete"
  <2>1. m.id \notin DOMAIN f
    <3> SUFFICES ASSUME m.id \in DOMAIN f PROVE FALSE
      OBVIOUS
    <3>1. PICK i : Newest(L, n + 1, m.id, i) /\ L[i].operation = "insert"
      BY <1>2
    <3>2. i = n + 1
      BY <1>1, <1>4, <3>1, NewestUnique
    <3> QED
      BY <1>8, <3>1, <3>2 DEF m
  <2>2. DOMAIN f = DOMAIN g \ {m.id}
    BY <1>6, <2>1
  <2>3. ~(m.operation = "insert")
    BY <1>8
  <2> QED
    BY <1>6, <2>2, <2>3 DEF f, g, m
<1> QED
  BY <1>7, <1>8 DEF m

\* The fields of a mutation (persist.go Mutation).
LEMMA MutationType ==
  ASSUME NEW m \in Mutations
  PROVE  /\ m.operation \in {"insert", "delete"} /\ m.id \in Nat
         /\ m.operation = "insert" => m.vector \in Seq(Int)
BY DEF Mutations

\* Applying a mutation that is accepted leaves a sound graph, and changes no
\* other ID than that of the mutation (persist.go ApplyMutation).
LEMMA ApplySound ==
  ASSUME NEW h, SoundGraph(h), NEW m \in Mutations, Accepts(h, m)
  PROVE  /\ SoundGraph(ApplyMutation(h, m)) /\ ApplyMutation(h, m).cfg = h.cfg
         /\ IDs(ApplyMutation(h, m)) =
              IF m.operation = "insert" THEN IDs(h) \cup {m.id} ELSE IDs(h) \ {m.id}
         /\ m.operation = "insert" => ApplyMutation(h, m).nodes[m.id].v = m.vector
         /\ \A n \in IDs(h) \ {m.id} : ApplyMutation(h, m).nodes[n].v = h.nodes[n].v
<1> DEFINE r == ApplyMutation(h, m)
<1>1. CASE m.operation = "insert"
  <2>1. r = Insert(h, m.id, m.vector)
    BY <1>1 DEF ApplyMutation
  <2> HIDE DEF r
  <2>2. m.id \in Nat /\ m.vector \in Seq(Int)
    BY <1>1, MutationType
  <2>3. /\ SoundGraph(r) /\ r.cfg = h.cfg /\ IDs(r) = IDs(h) \cup {m.id}
        /\ r.nodes[m.id].v = m.vector
        /\ \A n \in IDs(h) \ {m.id} : r.nodes[n].v = h.nodes[n].v
    BY <2>1, <2>2, InsertSound
  <2> QED
    BY <1>1, <2>3 DEF r
<1>2. CASE m.operation # "insert"
  <2>1. r = Delete(h, m.id) /\ m.id \in IDs(h)
    BY <1>2 DEF ApplyMutation, Accepts
  <2> HIDE DEF r
  <2>2. /\ SoundGraph(r) /\ r.cfg = h.cfg /\ IDs(r) = IDs(h) \ {m.id}
        /\ SameOn(r, h, IDs(h) \ {m.id})
    BY <2>1, DeleteSound
  <2> QED
    BY <1>2, <2>2 DEF r, SameOn
<1> QED
  BY <1>1, <1>2

\* A graph that holds what n entries leave holds, after the next one, what n +
\* 1 leave (persist.go ApplyMutation).
LEMMA ApplyContents ==
  ASSUME NEW h, SoundGraph(h), NEW L \in Seq(Mutations), NEW n \in Nat, n + 1 \in 1..Len(L),
         Accepts(h, L[n + 1]), Contents(h) = VectorsOf(L, n)
  PROVE  Contents(ApplyMutation(h, L[n + 1])) = VectorsOf(L, n + 1)
<1> DEFINE m == L[n + 1]
           r == ApplyMutation(h, m)
           f == VectorsOf(L, n + 1)
           g == VectorsOf(L, n)
<1>1. m \in Mutations
  OBVIOUS
<1>2. /\ IDs(r) = IF m.operation = "insert" THEN IDs(h) \cup {m.id} ELSE IDs(h) \ {m.id}
      /\ m.operation = "insert" => r.nodes[m.id].v = m.vector
      /\ \A x \in IDs(h) \ {m.id} : r.nodes[x].v = h.nodes[x].v
  BY <1>1, ApplySound
<1>3. m.operation \in {"insert", "delete"}
  BY <1>1, MutationType
<1>4. /\ DOMAIN f = IF m.operation = "insert" THEN DOMAIN g \cup {m.id} ELSE DOMAIN g \ {m.id}
      /\ m.operation = "insert" => f[m.id] = m.vector
      /\ \A id \in DOMAIN g \ {m.id} : f[id] = g[id]
  BY <1>3, VectorsOfNext
<1>5. f = [id \in DOMAIN f |-> f[id]]
  BY VectorsByNewest
<1>6. DOMAIN g = IDs(h) /\ \A id \in IDs(h) : g[id] = h.nodes[id].v
  BY DEF Contents
<1> HIDE DEF m, r, f, g
<1>7. IDs(r) = DOMAIN f /\ \A id \in DOMAIN f : f[id] = r.nodes[id].v
  BY <1>2, <1>4, <1>6
<1>8. Contents(r) = f
  BY <1>5, <1>7 DEF Contents
<1> QED
  BY <1>8 DEF f, r, m

-----------------------------------------------------------------------------
(* Replaying the log.                                                      *)

\* AllAccepted of a given log.
AcceptedOf(L, n) ==
  \A i \in 1..n : L[i].operation = "delete" => L[i].id \in DOMAIN VectorsOf(L, i - 1)

\* g[k] is the graph that a replay of the first k entries of L ends with.
Replays(g, cfg, rng, L) ==
  /\ g[0] = NewHNSW(cfg, rng)
  /\ \A k \in 1..Len(L) : g[k] = ApplyMutation(g[k - 1], L[k])

\* The graph h is what n entries of L leave, unless L has an entry that is refused.
Replayed(L, cfg, rng, h, n) ==
  AcceptedOf(L, Len(L)) =>
    /\ Contents(h) = VectorsOf(L, n)
    /\ \A g : Replays(g, cfg, rng, L) => h = g[n]

\* AllAccepted speaks of the committed log.
LEMMA AcceptedOfLog ==
  \A n : AllAccepted(n) <=> AcceptedOf(log, n)
BY VectorsOfLog DEF AllAccepted, AcceptedOf

\* An empty graph is what no entry leaves (durable.go NewDurableNode).
LEMMA ReplayedNothing ==
  ASSUME NEW L, NEW cfg \in Configs, NEW rng \in Seeds
  PROVE  Replayed(L, cfg, rng, NewHNSW(cfg, rng), 0)
<1> DEFINE h == NewHNSW(cfg, rng)
           f == VectorsOf(L, 0)
<1>1. IDs(h) = {}
  BY EmptyGraphSound
<1>2. \A id, i : ~Newest(L, 0, id, i)
  BY DEF Newest
<1>3. f = [id \in DOMAIN f |-> f[id]] /\ DOMAIN f = {}
  BY <1>2, VectorsByNewest
<1> HIDE DEF h, f
<1>4. Contents(h) = f
  BY <1>1, <1>3 DEF Contents
<1> QED
  BY <1>4 DEF Replayed, Replays, h, f

\* A replica that has not come to a new entry does not depend on it (durable.go
\* Insert, Delete: a proposal at the leader).
LEMMA ReplayedPrefix ==
  ASSUME NEW L \in Seq(Mutations), NEW m \in Mutations, NEW cfg, NEW rng, NEW h,
         NEW n \in 0..Len(L), Replayed(L, cfg, rng, h, n)
  PROVE  Replayed(Append(L, m), cfg, rng, h, n)
<1> DEFINE A == Append(L, m)
<1>1. /\ Len(L) \in Nat /\ Len(A) = Len(L) + 1 /\ \A i \in 1..Len(L) : A[i] = L[i]
  OBVIOUS
<1> HIDE DEF A
<1>2. ASSUME NEW k \in 0..Len(L) PROVE VectorsOf(A, k) = VectorsOf(L, k)
  <2>1. k \in Nat /\ \A i \in 1..k : A[i] = L[i]
    BY <1>1
  <2> QED
    BY <2>1, VectorsOfPrefix
<1>3. SUFFICES ASSUME AcceptedOf(A, Len(A))
               PROVE  /\ Contents(h) = VectorsOf(A, n)
                      /\ \A g : Replays(g, cfg, rng, A) => h = g[n]
  BY DEF Replayed, A
<1>4. AcceptedOf(L, Len(L))
  <2> SUFFICES ASSUME NEW i \in 1..Len(L), L[i].operation = "delete"
               PROVE  L[i].id \in DOMAIN VectorsOf(L, i - 1)
    BY DEF AcceptedOf
  <2>1. i \in 1..Len(A) /\ i - 1 \in 0..Len(L) /\ A[i] = L[i]
    BY <1>1
  <2>2. L[i].id \in DOMAIN VectorsOf(A, i - 1)
    BY <1>3, <2>1 DEF AcceptedOf
  <2> QED
    BY <1>2, <2>1, <2>2
<1>5. ASSUME NEW g, Replays(g, cfg, rng, A) PROVE Replays(g, cfg, rng, L)
  <2>1. \A k \in 1..Len(L) : k \in 1..Len(A) /\ A[k] = L[k]
    BY <1>1
  <2> QED
    BY <1>5, <2>1 DEF Replays
<1> QED
  BY <1>2, <1>4, <1>5 DEF Replayed

\* Applying the next entry leads from the graph of one position to that of the
\* next (persist.go ApplyMutation).
LEMMA ReplayedNext ==
  ASSUME NEW L \in Seq(Mutations), NEW cfg, NEW rng, NEW h, SoundGraph(h), NEW n \in Nat,
         n + 1 \in 1..Len(L), Accepts(h, L[n + 1]), Replayed(L, cfg, rng, h, n)
  PROVE  Replayed(L, cfg, rng, ApplyMutation(h, L[n + 1]), n + 1)
<1>1. ASSUME AcceptedOf(L, Len(L))
      PROVE  Contents(ApplyMutation(h, L[n + 1])) = VectorsOf(L, n + 1)
  BY <1>1, ApplyContents DEF Replayed
<1>2. ASSUME AcceptedOf(L, Len(L)), NEW g, Replays(g, cfg, rng, L)
      PROVE  ApplyMutation(h, L[n + 1]) = g[n + 1]
  <2>1. g[n + 1] = ApplyMutation(g[(n + 1) - 1], L[n + 1]) /\ (n + 1) - 1 = n
    BY <1>2 DEF Replays
  <2> QED
    BY <1>2, <2>1 DEF Replayed
<1> QED
  BY <1>1, <1>2 DEF Replayed

\* Where no entry of the log is refused, the next one is not (persist.go
\* ApplyMutation).
LEMMA ReplayedAccepts ==
  ASSUME NEW L \in Seq(Mutations), NEW cfg, NEW rng, NEW h, NEW n \in Nat,
         n + 1 \in 1..Len(L), Replayed(L, cfg, rng, h, n), AcceptedOf(L, Len(L))
  PROVE  Accepts(h, L[n + 1])
<1>1. L[n + 1].operation \in {"insert", "delete"}
  BY MutationType
<1>2. L[n + 1].operation = "delete" => L[n + 1].id \in DOMAIN VectorsOf(L, n)
  <2>1. (n + 1) - 1 = n
    OBVIOUS
  <2> QED
    BY <2>1 DEF AcceptedOf
<1>3. Contents(h) = VectorsOf(L, n) /\ DOMAIN Contents(h) = IDs(h)
  BY DEF Replayed, Contents
<1> QED
  BY <1>1, <1>2, <1>3 DEF Accepts

\* A replay of every log exists, so that the graph of a position is a value and
\* replicas can be compared through it (host.go driveLocked).
LEMMA ReplayExists ==
  ASSUME NEW L \in Seq(Mutations), NEW cfg, NEW rng
  PROVE  \E g : Replays(g, cfg, rng, L)
<1> DEFINE n == Len(L)
           Upto(g, k) == /\ g[0] = NewHNSW(cfg, rng)
                         /\ \A i \in 1..k : g[i] = ApplyMutation(g[i - 1], L[i])
           T == {k \in 0..n : \E g : Upto(g, k)}
<1>1. n \in Nat
  OBVIOUS
<1>2. 0 \in T
  <2> DEFINE g == [i \in {0} |-> NewHNSW(cfg, rng)]
  <2>1. g[0] = NewHNSW(cfg, rng)
    OBVIOUS
  <2> HIDE DEF g
  <2>2. Upto(g, 0)
    BY <2>1
  <2> QED
    BY <1>1, <2>2
<1>3. ASSUME NEW k \in 1..n, k - 1 \in T PROVE k \in T
  <2>1. PICK g : Upto(g, k - 1)
    BY <1>3
  <2> DEFINE f == [i \in 0..k |-> IF i = k THEN ApplyMutation(g[k - 1], L[k]) ELSE g[i]]
  <2>2. \A i \in 0..k - 1 : f[i] = g[i]
    BY <1>1
  <2>3. f[k] = ApplyMutation(g[k - 1], L[k])
    BY <1>1
  <2> HIDE DEF f
  <2>4. Upto(f, k)
    <3>1. f[0] = NewHNSW(cfg, rng)
      BY <1>1, <2>1, <2>2
    <3>2. ASSUME NEW i \in 1..k PROVE f[i] = ApplyMutation(f[i - 1], L[i])
      <4>1. i - 1 \in 0..k - 1 /\ f[i - 1] = g[i - 1]
        BY <1>1, <2>2
      <4>2. CASE i = k
        BY <2>3, <4>1, <4>2
      <4>3. CASE i # k
        <5>1. i \in 1..k - 1 /\ i \in 0..k - 1
          BY <1>1, <4>3
        <5> QED
          BY <2>1, <2>2, <4>1, <5>1
      <4> QED
        BY <4>2, <4>3
    <3> QED
      BY <3>1, <3>2
  <2> HIDE DEF Upto
  <2> QED
    BY <1>1, <2>4
<1>4. \A k \in 0..n : k \in T
  <2> HIDE DEF T
  <2> QED
    BY <1>1, <1>2, <1>3, IndexInduction
<1>5. PICK g : Upto(g, n)
  BY <1>1, <1>4
<1> QED
  BY <1>5 DEF Replays

\* The inductive invariant: every graph is sound, and what its replica has
\* replayed of the log.
IndexInv ==
  /\ config \in Configs /\ seed \in Seeds /\ log \in Seq(Mutations)
  /\ index \in [Replica -> Graphs]
  /\ {advanced, at, last} \subseteq [Replica -> Nat]
  /\ \A r \in Replica :
       /\ SoundGraph(index[r]) /\ index[r].cfg = config
       /\ advanced[r] <= Len(log) /\ at[r] <= last[r] /\ last[r] <= Len(log)
       /\ Replayed(log, config, seed, index[r], Position(r))

\* It holds at the start: all graphs are empty (durable.go NewDurableNode).
LEMMA IndexInit == Init => IndexInv
<1> SUFFICES ASSUME Init PROVE IndexInv
  OBVIOUS
<1>1. config \in Configs /\ seed \in Seeds /\ log \in Seq(Mutations) /\ Len(log) \in Nat
  BY DurableNodeAssumption DEF Init
<1>2. SoundGraph(NewHNSW(config, seed)) /\ NewHNSW(config, seed).cfg = config
  BY <1>1, EmptyGraphSound
<1>3. Replayed(log, config, seed, NewHNSW(config, seed), 0)
  BY <1>1, ReplayedNothing
<1>4. ASSUME NEW r \in Replica
      PROVE  index[r] = NewHNSW(config, seed) /\ advanced[r] = 0 /\ at[r] = 0 /\ last[r] = 0
  BY DEF Init
<1>5. \A r \in Replica : Position(r) = 0
  BY <1>4 DEF Position
<1>6. NewHNSW(config, seed) \in Graphs
  BY <1>2 DEF SoundGraph
<1>7. /\ index \in [Replica -> Graphs]
      /\ {advanced, at, last} \subseteq [Replica -> Nat]
  BY <1>6 DEF Init
<1> QED
  BY <1>1, <1>2, <1>3, <1>4, <1>5, <1>7 DEF IndexInv

-----------------------------------------------------------------------------
(* The steps of a replica.                                                 *)

\* A replica has applied the entries before the one its drive has come to
\* (host.go driveLocked).
LEMMA PositionType ==
  ASSUME IndexInv, NEW r \in Replica
  PROVE  Position(r) \in 0..Len(log) /\ (at[r] # 0 => Position(r) + 1 = at[r] /\ at[r] \in 1..Len(log))
<1>1. /\ advanced[r] \in Nat /\ at[r] \in Nat /\ last[r] \in Nat /\ Len(log) \in Nat
      /\ advanced[r] <= Len(log) /\ at[r] <= last[r] /\ last[r] <= Len(log)
  BY DEF IndexInv
<1> QED
  BY <1>1 DEF Position

\* A new entry in the log changes nothing of what was applied (host.go
\* Propose).
LEMMA CommitStep ==
  ASSUME IndexInv, NEW m \in Mutation, Commit(m)
  PROVE  IndexInv'
<1>1. m \in Mutations /\ log \in Seq(Mutations) /\ log' = Append(log, m)
  BY DurableNodeAssumption DEF Commit, IndexInv
<1>2. /\ config' = config /\ seed' = seed /\ index' = index /\ advanced' = advanced
      /\ at' = at /\ last' = last
  BY DEF Commit
<1>3. log' \in Seq(Mutations) /\ Len(log') = Len(log) + 1 /\ Len(log) \in Nat
  BY <1>1
<1>4. ASSUME NEW r \in Replica
      PROVE  Replayed(log', config', seed', index'[r], Position(r)')
  <2>1. Position(r)' = Position(r)
    BY <1>2 DEF Position
  <2>2. Position(r) \in 0..Len(log) /\ Replayed(log, config, seed, index[r], Position(r))
    BY PositionType DEF IndexInv
  <2>3. Replayed(Append(log, m), config, seed, index[r], Position(r))
    BY <1>1, <2>2, ReplayedPrefix
  <2> QED
    BY <1>1, <1>2, <2>1, <2>3
<1>5. ASSUME NEW r \in Replica
      PROVE  /\ SoundGraph(index'[r]) /\ index'[r].cfg = config'
             /\ advanced'[r] <= Len(log') /\ at'[r] <= last'[r] /\ last'[r] <= Len(log')
  <2>1. /\ SoundGraph(index[r]) /\ index[r].cfg = config
        /\ advanced[r] \in Nat /\ at[r] \in Nat /\ last[r] \in Nat
        /\ advanced[r] <= Len(log) /\ at[r] <= last[r] /\ last[r] <= Len(log)
    BY DEF IndexInv
  <2> QED
    BY <1>2, <1>3, <2>1
<1> QED
  BY <1>2, <1>3, <1>4, <1>5 DEF IndexInv

\* A drive starts behind what was applied before (host.go driveLocked).
LEMMA StartDriveStep ==
  ASSUME IndexInv, NEW r \in Replica, NEW c \in 1..MaxLog, StartDrive(r, c)
  PROVE  IndexInv'
<1>1. /\ config' = config /\ seed' = seed /\ log' = log /\ index' = index
      /\ advanced' = advanced /\ at' = [at EXCEPT ![r] = advanced[r] + 1]
      /\ last' = [last EXCEPT ![r] = c] /\ at[r] = 0 /\ advanced[r] < c /\ c <= Len(log)
  BY DEF StartDrive
<1>2. {advanced, at, last} \subseteq [Replica -> Nat] /\ c \in Nat /\ Len(log) \in Nat
  BY DurableNodeAssumption DEF IndexInv
<1>3. {advanced', at', last'} \subseteq [Replica -> Nat]
  BY <1>1, <1>2
<1>4. ASSUME NEW q \in Replica
      PROVE  /\ Position(q)' = Position(q)
             /\ advanced'[q] <= Len(log') /\ at'[q] <= last'[q] /\ last'[q] <= Len(log')
  <2>1. /\ advanced[q] \in Nat /\ at[q] \in Nat /\ last[q] \in Nat
        /\ advanced[q] <= Len(log) /\ at[q] <= last[q] /\ last[q] <= Len(log)
    BY <1>2 DEF IndexInv
  <2>2. CASE q = r
    <3>1. at'[q] = advanced[q] + 1 /\ last'[q] = c /\ at[q] = 0 /\ at'[q] # 0
      BY <1>1, <1>2, <2>1, <2>2
    <3> QED
      BY <1>1, <1>2, <2>1, <2>2, <3>1 DEF Position
  <2>3. CASE q # r
    BY <1>1, <1>2, <2>1, <2>3 DEF Position
  <2> QED
    BY <2>2, <2>3
<1> QED
  BY <1>1, <1>3, <1>4 DEF IndexInv

\* Applying an entry moves the position past it, also with the last one, when
\* the replica advances (host.go driveLocked).
LEMMA ApplyStep ==
  ASSUME IndexInv, NEW r \in Replica, Apply(r)
  PROVE  IndexInv'
<1> DEFINE m == log[at[r]]
           h == ApplyMutation(index[r], m)
<1>1. /\ config' = config /\ seed' = seed /\ log' = log
      /\ at[r] # 0 /\ Accepts(index[r], m)
      /\ index' = [index EXCEPT ![r] = h]
      /\ advanced' = [advanced EXCEPT ![r] = IF at[r] = last[r] THEN at[r] ELSE advanced[r]]
      /\ at' = [at EXCEPT ![r] = IF at[r] = last[r] THEN 0 ELSE at[r] + 1]
      /\ last' = [last EXCEPT ![r] = IF at[r] = last[r] THEN 0 ELSE last[r]]
  BY DEF Apply
<1>2. /\ {advanced, at, last} \subseteq [Replica -> Nat] /\ Len(log) \in Nat
      /\ index \in [Replica -> Graphs] /\ log \in Seq(Mutations)
  BY DEF IndexInv
<1>3. Position(r) \in Nat /\ Position(r) + 1 = at[r] /\ at[r] \in 1..Len(log)
  BY <1>1, PositionType
<1>4. m \in Mutations /\ SoundGraph(index[r]) /\ index[r].cfg = config
  BY <1>2, <1>3 DEF IndexInv
<1>5. SoundGraph(h) /\ h.cfg = config
  BY <1>1, <1>4, ApplySound
<1>6. Replayed(log, config, seed, h, at[r])
  <2> DEFINE n == Position(r)
  <2>1. Replayed(log, config, seed, index[r], n)
    BY DEF IndexInv
  <2>2. n \in Nat /\ n + 1 \in 1..Len(log) /\ Accepts(index[r], log[n + 1]) /\ log[n + 1] = m
    BY <1>1, <1>3
  <2> HIDE DEF n
  <2>3. Replayed(log, config, seed, ApplyMutation(index[r], log[n + 1]), n + 1)
    BY <1>2, <1>4, <2>1, <2>2, ReplayedNext
  <2> QED
    BY <1>3, <2>2, <2>3 DEF n
<1> HIDE DEF h, m
<1>7. index' \in [Replica -> Graphs] /\ {advanced', at', last'} \subseteq [Replica -> Nat]
  <2>1. h \in Graphs
    BY <1>5 DEF SoundGraph
  <2> QED
    BY <1>1, <1>2, <2>1
<1>8. ASSUME NEW q \in Replica
      PROVE  /\ SoundGraph(index'[q]) /\ index'[q].cfg = config
             /\ advanced'[q] <= Len(log) /\ at'[q] <= last'[q] /\ last'[q] <= Len(log)
             /\ Replayed(log, config, seed, index'[q], Position(q)')
  <2>1. /\ advanced[q] \in Nat /\ at[q] \in Nat /\ last[q] \in Nat
        /\ SoundGraph(index[q]) /\ index[q].cfg = config
        /\ advanced[q] <= Len(log) /\ at[q] <= last[q] /\ last[q] <= Len(log)
        /\ Replayed(log, config, seed, index[q], Position(q))
    BY <1>2 DEF IndexInv
  <2>2. CASE q = r
    <3>1. index'[q] = h
      BY <1>1, <1>2, <2>2
    <3>2. CASE at[r] = last[r]
      <4>1. advanced'[q] = at[r] /\ at'[q] = 0 /\ last'[q] = 0
        BY <1>1, <1>2, <2>2, <3>2
      <4>2. Position(q)' = at[r]
        BY <4>1 DEF Position
      <4> QED
        BY <1>2, <1>3, <1>5, <1>6, <3>1, <4>1, <4>2
    <3>3. CASE at[r] # last[r]
      <4>1. advanced'[q] = advanced[q] /\ at'[q] = at[r] + 1 /\ last'[q] = last[q]
        BY <1>1, <1>2, <2>2, <3>3
      <4>2. at'[q] # 0 /\ at'[q] - 1 = at[r] /\ at'[q] <= last'[q]
        BY <1>2, <1>3, <2>1, <2>2, <3>3, <4>1
      <4>3. Position(q)' = at[r]
        BY <4>2 DEF Position
      <4> QED
        BY <1>2, <1>3, <1>5, <1>6, <2>1, <2>2, <3>1, <4>1, <4>2, <4>3
    <3> QED
      BY <3>2, <3>3
  <2>3. CASE q # r
    <3>1. /\ index'[q] = index[q] /\ advanced'[q] = advanced[q] /\ at'[q] = at[q]
          /\ last'[q] = last[q]
      BY <1>1, <1>2, <2>3
    <3>2. Position(q)' = Position(q)
      BY <3>1 DEF Position
    <3> QED
      BY <2>1, <3>1, <3>2
  <2> QED
    BY <2>2, <2>3
<1> QED
  BY <1>1, <1>2, <1>7, <1>8 DEF IndexInv

\* A drive ends early only on a log with an entry that is refused: otherwise
\* what was applied of it would be applied again (host.go driveLocked,
\* persist.go).
LEMMA RefuseStep ==
  ASSUME IndexInv, NEW r \in Replica, Refuse(r)
  PROVE  IndexInv'
<1>1. /\ config' = config /\ seed' = seed /\ log' = log /\ index' = index
      /\ advanced' = advanced /\ at' = [at EXCEPT ![r] = 0] /\ last' = [last EXCEPT ![r] = 0]
      /\ at[r] # 0 /\ ~Accepts(index[r], log[at[r]])
  BY DEF Refuse
<1>2. /\ {advanced, at, last} \subseteq [Replica -> Nat] /\ Len(log) \in Nat
      /\ index \in [Replica -> Graphs] /\ log \in Seq(Mutations)
  BY DEF IndexInv
<1>3. ~AcceptedOf(log, Len(log))
  <2> DEFINE n == Position(r)
  <2>1. n \in Nat /\ n + 1 \in 1..Len(log) /\ ~Accepts(index[r], log[n + 1])
    BY <1>1, PositionType
  <2>2. Replayed(log, config, seed, index[r], n)
    BY DEF IndexInv
  <2> HIDE DEF n
  <2> QED
    BY <1>2, <2>1, <2>2, ReplayedAccepts
<1>4. {advanced', at', last'} \subseteq [Replica -> Nat]
  BY <1>1, <1>2
<1>5. ASSUME NEW q \in Replica
      PROVE  /\ SoundGraph(index'[q]) /\ index'[q].cfg = config
             /\ advanced'[q] <= Len(log) /\ at'[q] <= last'[q] /\ last'[q] <= Len(log)
             /\ Replayed(log, config, seed, index'[q], Position(q)')
  <2>1. /\ SoundGraph(index[q]) /\ index[q].cfg = config
        /\ advanced[q] <= Len(log) /\ at[q] <= last[q] /\ last[q] <= Len(log)
    BY DEF IndexInv
  <2>2. at'[q] <= last'[q] /\ last'[q] <= Len(log)
    BY <1>1, <1>2, <2>1
  <2> QED
    BY <1>1, <1>3, <2>1, <2>2 DEF Replayed
<1> QED
  BY <1>1, <1>2, <1>4, <1>5 DEF IndexInv

\* A restart leaves an empty graph at the beginning of the log (durable.go
\* NewDurableNode).
LEMMA RestartStep ==
  ASSUME IndexInv, NEW r \in Replica, Restart(r)
  PROVE  IndexInv'
<1> DEFINE h == NewHNSW(config, seed)
<1>1. /\ config' = config /\ seed' = seed /\ log' = log
      /\ index' = [index EXCEPT ![r] = h] /\ advanced' = [advanced EXCEPT ![r] = 0]
      /\ at' = [at EXCEPT ![r] = 0] /\ last' = [last EXCEPT ![r] = 0]
  BY DEF Restart
<1>2. /\ {advanced, at, last} \subseteq [Replica -> Nat] /\ Len(log) \in Nat
      /\ index \in [Replica -> Graphs] /\ log \in Seq(Mutations)
      /\ config \in Configs /\ seed \in Seeds
  BY DEF IndexInv
<1>3. SoundGraph(h) /\ h.cfg = config /\ Replayed(log, config, seed, h, 0)
  BY <1>2, EmptyGraphSound, ReplayedNothing
<1> HIDE DEF h
<1>4. index' \in [Replica -> Graphs] /\ {advanced', at', last'} \subseteq [Replica -> Nat]
  <2>1. h \in Graphs
    BY <1>3 DEF SoundGraph
  <2> QED
    BY <1>1, <1>2, <2>1
<1>5. ASSUME NEW q \in Replica
      PROVE  /\ SoundGraph(index'[q]) /\ index'[q].cfg = config
             /\ advanced'[q] <= Len(log) /\ at'[q] <= last'[q] /\ last'[q] <= Len(log)
             /\ Replayed(log, config, seed, index'[q], Position(q)')
  <2>1. /\ SoundGraph(index[q]) /\ index[q].cfg = config
        /\ advanced[q] <= Len(log) /\ at[q] <= last[q] /\ last[q] <= Len(log)
        /\ Replayed(log, config, seed, index[q], Position(q))
    BY DEF IndexInv
  <2>2. CASE q = r
    <3>1. index'[q] = h /\ advanced'[q] = 0 /\ at'[q] = 0 /\ last'[q] = 0
      BY <1>1, <1>2, <2>2
    <3>2. Position(q)' = 0
      BY <3>1 DEF Position
    <3> QED
      BY <1>2, <1>3, <3>1, <3>2
  <2>3. CASE q # r
    <3>1. /\ index'[q] = index[q] /\ advanced'[q] = advanced[q] /\ at'[q] = at[q]
          /\ last'[q] = last[q]
      BY <1>1, <1>2, <2>3
    <3>2. Position(q)' = Position(q)
      BY <3>1 DEF Position
    <3> QED
      BY <2>1, <3>1, <3>2
  <2> QED
    BY <2>2, <2>3
<1> QED
  BY <1>1, <1>2, <1>4, <1>5 DEF IndexInv

\* In every reachable state every graph is sound, and as long as the log has no
\* entry that is refused, it is the value of replaying the log up to the
\* replica's position (host.go driveLocked, hnsw.go Insert and Delete).
THEOREM IndexInvariant == Spec => []IndexInv
<1>1. Init => IndexInv
  BY IndexInit
<1>2. IndexInv /\ [Next]_vars => IndexInv'
  <2> SUFFICES ASSUME IndexInv, [Next]_vars PROVE IndexInv'
    OBVIOUS
  <2>1. CASE \E m \in Mutation : Commit(m)
    BY <2>1, CommitStep
  <2>2. CASE \E r \in Replica : \E c \in 1..MaxLog : StartDrive(r, c)
    BY <2>2, StartDriveStep
  <2>3. CASE \E r \in Replica : Apply(r)
    BY <2>3, ApplyStep
  <2>4. CASE \E r \in Replica : Refuse(r)
    BY <2>4, RefuseStep
  <2>5. CASE \E r \in Replica : Restart(r)
    BY <2>5, RestartStep
  <2>6. CASE UNCHANGED vars
    BY <2>6 DEF vars, IndexInv, Position
  <2> QED
    BY <2>1, <2>2, <2>3, <2>4, <2>5, <2>6 DEF Next
<1> QED
  BY <1>1, <1>2, PTL DEF Spec

\* The graphs have the shape of the Go types and the drives keep their order,
\* for every group, settings, seed and log (hnsw.go HNSW, host.go driveLocked).
THEOREM DurableNodeTypeCorrect == Spec => []TypeOK
<1>1. IndexInv => TypeOK
  <2> SUFFICES ASSUME IndexInv, NEW r \in Replica
               PROVE  /\ index[r].entry \in IDs(index[r]) \cup {NoID}
                      /\ index[r].maxLevel >= -1
                      /\ \A id \in IDs(index[r]) :
                           DOMAIN index[r].nodes[id].neighbors = 0..Level(index[r], id)
                      /\ {advanced[r], at[r], last[r]} \subseteq Nat
                      /\ advanced[r] <= Len(log) /\ at[r] <= last[r] /\ last[r] <= Len(log)
    BY DEF TypeOK
  <2> DEFINE h == index[r]
  <2>1. h \in Graphs /\ Highest(h, IDs(h))
    BY DEF IndexInv, SoundGraph
  <2>2. /\ {advanced[r], at[r], last[r]} \subseteq Nat
        /\ advanced[r] <= Len(log) /\ at[r] <= last[r] /\ last[r] <= Len(log)
    BY DEF IndexInv
  <2> HIDE DEF h
  <2>3. \A id \in IDs(h) : Level(h, id) \in Nat /\ DOMAIN h.nodes[id].neighbors = 0..Level(h, id)
    BY <2>1, GraphType
  <2>4. h.entry \in IDs(h) \cup {NoID} /\ h.maxLevel >= -1
    BY <2>1, <2>3 DEF Highest
  <2> QED
    BY <2>2, <2>3, <2>4 DEF h
<1> QED
  BY <1>1, IndexInvariant, PTL

\* Whatever is inserted, replaced, deleted and replayed: no link leads to a
\* node that is gone or not on its level, and no list outgrows M, so that no
\* distance is computed to a missing node (hnsw.go Insert, Delete, link, trim).
THEOREM LinksStaySound == Spec => []LinksSound
<1>1. IndexInv => LinksSound
  <2> SUFFICES ASSUME IndexInv, NEW r \in Replica, NEW a \in IDs(index[r]),
                      NEW l \in 0..Level(index[r], a)
               PROVE  /\ Len(Neighbors(index[r], a, l)) <= config.M
                      /\ \A b \in ToSet(Neighbors(index[r], a, l)) :
                           b # a /\ b \in IDs(index[r]) /\ Level(index[r], b) >= l
    BY DEF LinksSound
  <2>1. TargetsSound(index[r]) /\ ListsShort(index[r]) /\ index[r].cfg = config
    BY DEF IndexInv, SoundGraph
  <2> QED
    BY <2>1 DEF TargetsSound, ListsShort, Target
<1> QED
  BY <1>1, IndexInvariant, PTL

\* Searches always start at a node of the highest level, also after the entry
\* was deleted or replaced (hnsw.go Insert, Delete).
THEOREM EntryStaysHighest == Spec => []EntryIsHighest
<1>1. IndexInv => EntryIsHighest
  BY DEF IndexInv, SoundGraph, Highest, EntryIsHighest
<1> QED
  BY <1>1, IndexInvariant, PTL

\* A graph holds exactly the vectors that its part of the log leaves
\* (persist.go ApplyMutation, hnsw.go Insert, Delete).
THEOREM ContentsFollowLog == Spec => []ContentsMatchLog
<1>1. IndexInv => ContentsMatchLog
  BY AcceptedOfLog, VectorsOfLog DEF IndexInv, Replayed, Contents, ContentsMatchLog
<1> QED
  BY <1>1, IndexInvariant, PTL

\* Replicas that have come equally far in the log have the same graph, links
\* and entry included, whatever restarts and drives they took to get there
\* (doc.go: the same mutation sequence and the same Config.Seed).
THEOREM ReplicasConverge == Spec => []ReplicasAgree
<1>1. IndexInv => ReplicasAgree
  <2> SUFFICES ASSUME IndexInv, AllAccepted(Len(log)), NEW a \in Replica, NEW b \in Replica,
                      Position(a) = Position(b)
               PROVE  index[a] = index[b]
    BY DEF ReplicasAgree
  <2>1. PICK g : Replays(g, config, seed, log)
    BY ReplayExists DEF IndexInv
  <2>2. index[a] = g[Position(a)] /\ index[b] = g[Position(b)]
    BY <2>1, AcceptedOfLog DEF IndexInv, Replayed
  <2> QED
    BY <2>2
<1> QED
  BY <1>1, IndexInvariant, PTL

=============================================================================
