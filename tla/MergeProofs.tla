------------------------------- MODULE MergeProofs -------------------------------
(* Proofs about module Compaction, for any files, keys and number of inputs:  *)
(* the group that is selected is a largest one of similar files, and the merge *)
(* writes the newest version of each key, in ascending order of the keys.      *)
EXTENDS Compaction, SetProofs

------------------------------------------------------------------------------
(* The order of numbers *)

Ascending(s) == \A i, j \in DOMAIN s : i < j => s[i] < s[j]

\* An ascending list of as many members as the set has takes each of them.
LEMMA AscendingTakesAll ==
  ASSUME NEW S, IsFiniteSet(S), S \subseteq Nat,
         NEW s \in [1..Cardinality(S) -> S], Ascending(s)
  PROVE  \A k \in S : \E n \in 1..Cardinality(S) : s[n] = k
<1>1. Cardinality(S) \in Nat
  BY FS_CardinalityType
<1>2. IsFiniteSet(1..Cardinality(S)) /\ Cardinality(1..Cardinality(S)) = Cardinality(S)
  BY <1>1, FS_Interval
<1>3. ASSUME NEW i \in 1..Cardinality(S), NEW j \in 1..Cardinality(S), s[i] = s[j]
      PROVE  i = j
  <2>1. s[i] \in Nat /\ s[j] \in Nat
    OBVIOUS
  <2>2. ~(i < j) /\ ~(j < i)
    BY <1>3, <2>1 DEF Ascending
  <2>3. QED
    BY <1>1, <2>2
<1>4. s \in Injection(1..Cardinality(S), S)
  BY <1>3 DEF Injection, IsInjective
<1>5. s \in Surjection(1..Cardinality(S), S)
  BY <1>2, <1>4, FS_Injection
<1>6. QED
  BY <1>5 DEF Surjection

\* What a finite set of numbers looks like in its order
LEMMA InOrderShape ==
  ASSUME NEW S, IsFiniteSet(S), S \subseteq Nat
  PROVE  /\ InOrder(S) \in [1..Cardinality(S) -> S]
         /\ Ascending(InOrder(S))
         /\ \A k \in S : \E n \in 1..Cardinality(S) : InOrder(S)[n] = k
<1> DEFINE before == [i \in S |-> {j \in S : j <= i}]
           s == [m \in 1..Cardinality(S) |->
                   CHOOSE i \in S : Cardinality(before[i]) = m]
<1>1. Cardinality(S) \in Nat
  BY FS_CardinalityType
<1>2. /\ before \in [S -> SUBSET S]
      /\ \A i \in S, j \in S : j \in before[i] <=> j <= i
  OBVIOUS
<1>3. /\ \A i, j \in S : i \in before[j] <=> Cardinality(before[i]) <= Cardinality(before[j])
      /\ \A m \in 1..Cardinality(S) : \E i \in S : Cardinality(before[i]) = m
  <2> HIDE DEF before
  <2>1. \A i \in S, j \in S : i \in Nat /\ j \in Nat /\ (j \in before[i] <=> j <= i)
    BY <1>2
  <2>2. /\ \A i \in S : i \in before[i]
        /\ \A i, j \in S : i # j => (i \in before[j] <=> j \notin before[i])
    BY <2>1
  <2>3. ASSUME NEW i \in S, NEW j \in S, i \in before[j] PROVE before[i] \subseteq before[j]
    <3>1. before[i] \subseteq S
      BY <1>2
    <3>2. \A l \in S : l \in before[i] => l \in before[j]
      BY <2>1, <2>3
    <3>3. QED
      BY <3>1, <3>2
  <2>4. QED
    BY <1>2, <2>2, <2>3, Ranking
<1>4. \A m \in 1..Cardinality(S) : s[m] \in S /\ Cardinality(before[s[m]]) = m
  <2> HIDE DEF before
  <2>1. QED
    BY <1>3
<1>5. s \in [1..Cardinality(S) -> S]
  <2> HIDE DEF before
  <2>1. QED
    BY <1>4
<1> HIDE DEF s
<1>6. Ascending(s)
  <2> SUFFICES ASSUME NEW m \in 1..Cardinality(S), NEW n \in 1..Cardinality(S), m < n
               PROVE  s[m] < s[n]
    BY <1>5 DEF Ascending
  <2>1. s[m] \in S /\ s[n] \in S /\ s[m] \in Nat /\ s[n] \in Nat
    BY <1>4
  <2>2. s[n] \notin before[s[m]]
    <3> HIDE DEF before
    <3>1. Cardinality(before[s[m]]) = m /\ Cardinality(before[s[n]]) = n
      BY <1>4
    <3>2. ~(n <= m)
      BY <1>1
    <3>3. QED
      BY <1>3, <2>1, <3>1, <3>2
  <2>3. QED
    BY <1>2, <2>1, <2>2
<1>7. InOrder(S) \in [1..Cardinality(S) -> S] /\ Ascending(InOrder(S))
  BY <1>5, <1>6 DEF InOrder, Ascending
<1>8. QED
  BY <1>7, AscendingTakesAll

\* The numbers from 1 on are in their order already.
LEMMA InOrderInterval ==
  ASSUME NEW N \in Nat PROVE InOrder(1..N) = [n \in 1..N |-> n]
<1> DEFINE s == InOrder(1..N)
           Moved == {n \in 1..N : s[n] # n}
<1>1. IsFiniteSet(1..N) /\ Cardinality(1..N) = N
  BY FS_Interval
<1>2. /\ s \in [1..N -> 1..N] /\ Ascending(s)
      /\ \A k \in 1..N : \E n \in 1..N : s[n] = k
  BY <1>1, InOrderShape
<1> HIDE DEF s
<1>3. ASSUME Moved # {} PROVE FALSE
  <2>1. IsFiniteSet(Moved) /\ Moved \subseteq Nat
    BY <1>1, FS_Subset
  <2>2. PICK m \in Moved : \A n \in Moved : m <= n
    <3> HIDE DEF Moved
    <3>1. QED
      BY <1>3, <2>1, FiniteNatMin
  <2>3. m \in 1..N /\ s[m] # m /\ \A n \in 1..N : n < m => s[n] = n
    BY <2>2
  <2>4. PICK j \in 1..N : s[j] = m
    BY <1>2, <2>3
  <2>5. m < j
    BY <2>3, <2>4
  <2>6. s[m] < m /\ s[m] \in 1..N
    BY <1>2, <2>3, <2>4, <2>5 DEF Ascending
  <2>7. s[s[m]] = s[m] /\ s[s[m]] < s[m]
    BY <1>2, <2>3, <2>6 DEF Ascending
  <2>8. QED
    BY <2>6, <2>7
<1>4. QED
  BY <1>2, <1>3 DEF s

------------------------------------------------------------------------------
(* The selection *)

PathsType == paths \in [1..NumFiles -> Files]

LEMMA PathFacts ==
  ASSUME PathsType, NEW i \in 1..NumFiles
  PROVE  /\ paths[i] \in Files /\ paths[i].size \in Nat /\ paths[i].readable \in BOOLEAN
         /\ paths[i].data \in [Keys -> Nat]
BY CompactionAssumption DEF PathsType, Keys

\* The order by size has every file once, and the sizes grow with it.
LEMMA BySizeShape ==
  ASSUME PathsType
  PROVE  /\ BySize \in [1..NumFiles -> 1..NumFiles]
         /\ \A m, n \in 1..NumFiles : BySize[m] = BySize[n] => m = n
         /\ \A i \in 1..NumFiles : \E m \in 1..NumFiles : BySize[m] = i
         /\ \A m, n \in 1..NumFiles :
              m <= n => paths[BySize[m]].size <= paths[BySize[n]].size
<1> DEFINE S == 1..NumFiles
           upTo(i) == {j \in S : \/ paths[j].size < paths[i].size
                                 \/ paths[j].size = paths[i].size /\ j <= i}
           before == [i \in S |-> upTo(i)]
<1>1. IsFiniteSet(S) /\ Cardinality(S) = NumFiles /\ S \subseteq Nat
  BY CompactionAssumption, FS_Interval
<1>2. /\ before \in [S -> SUBSET S]
      /\ \A i \in S, j \in S :
           j \in before[i] <=> \/ paths[j].size < paths[i].size
                               \/ paths[j].size = paths[i].size /\ j <= i
  OBVIOUS
<1>3. \A i \in S : paths[i].size \in Nat
  BY PathFacts
<1>4. BySize = [m \in S |-> CHOOSE i \in S : Cardinality(upTo(i)) = m]
  BY Zenon DEF BySize
<1> HIDE DEF upTo
<1>13. \A i \in S : before[i] = upTo(i)
  OBVIOUS
<1> HIDE DEF S, before
<1>5. /\ \A i \in S : i \in before[i]
      /\ \A i, j \in S : i # j => (i \in before[j] <=> j \notin before[i])
  BY <1>1, <1>2, <1>3
<1>6. ASSUME NEW i \in S, NEW j \in S, i \in before[j] PROVE before[i] \subseteq before[j]
  <2>1. before[i] \subseteq S
    BY <1>2
  <2>2. \A l \in S : l \in before[i] => l \in before[j]
    BY <1>1, <1>2, <1>3, <1>6
  <2>3. QED
    BY <2>1, <2>2
<1>7. /\ \A i \in S : Cardinality(before[i]) \in S
      /\ \A i, j \in S : i \in before[j] <=> Cardinality(before[i]) <= Cardinality(before[j])
      /\ \A m \in S : \E i \in S : Cardinality(before[i]) = m
  <2>1. /\ \A i \in S : Cardinality(before[i]) \in 1..Cardinality(S)
        /\ \A i, j \in S : i \in before[j] <=> Cardinality(before[i]) <= Cardinality(before[j])
        /\ \A m \in 1..Cardinality(S) : \E i \in S : Cardinality(before[i]) = m
    BY <1>1, <1>2, <1>5, <1>6, Ranking
  <2>2. 1..Cardinality(S) = S
    BY <1>1 DEF S
  <2>3. QED
    BY <2>1, <2>2
<1>8. \A m \in S : BySize[m] \in S /\ Cardinality(before[BySize[m]]) = m
  <2> SUFFICES ASSUME NEW m \in S PROVE BySize[m] \in S /\ Cardinality(before[BySize[m]]) = m
    OBVIOUS
  <2>1. \E i \in S : Cardinality(upTo(i)) = m
    BY <1>7, <1>13
  <2>2. BySize[m] = CHOOSE i \in S : Cardinality(upTo(i)) = m
    BY <1>4
  <2>3. BySize[m] \in S /\ Cardinality(upTo(BySize[m])) = m
    BY <2>1, <2>2
  <2>4. QED
    BY <1>13, <2>3
<1>9. BySize \in [S -> S]
  <2>1. DOMAIN BySize = S /\ BySize = [m \in S |-> BySize[m]]
    BY <1>4
  <2>2. QED
    BY <1>8, <2>1
<1>10. ASSUME NEW i \in S PROVE \E m \in S : BySize[m] = i
  <2>1. Cardinality(before[i]) \in S
    BY <1>7
  <2>2. PICK m \in S : m = Cardinality(before[i])
    BY <2>1
  <2>3. Cardinality(before[BySize[m]]) = Cardinality(before[i]) /\ BySize[m] \in S
    BY <1>8, <2>2
  <2>4. BySize[m] \in before[i] /\ i \in before[BySize[m]]
    <3>1. \A a, b \in S : a \in before[b] <=> Cardinality(before[a]) <= Cardinality(before[b])
      BY <1>7
    <3>2. Cardinality(before[i]) <= Cardinality(before[i])
      <4>1. S \subseteq Nat /\ \A x \in Nat : x <= x
        BY <1>1
      <4>2. QED
        BY Zenon, <2>1, <4>1
    <3>3. QED
      BY <2>3, <3>1, <3>2
  <2>5. BySize[m] = i
    BY <1>5, <2>3, <2>4
  <2>6. QED
    BY <2>5
<1>11. ASSUME NEW m \in S, NEW n \in S, m <= n
       PROVE  paths[BySize[m]].size <= paths[BySize[n]].size
  <2>1. BySize[m] \in before[BySize[n]] /\ BySize[m] \in S /\ BySize[n] \in S
    BY <1>7, <1>8, <1>11
  <2>2. QED
    BY <1>2, <1>3, <2>1
<1>12. QED
  BY <1>8, <1>9, <1>10, <1>11 DEF S

\* The group of the i-th smallest file is a stretch of the order, itself included.
LEMMA GroupShape ==
  ASSUME PathsType, NEW i \in 1..NumFiles
  PROVE  /\ Cardinality(Group(BySize, i)) \in 1..NumFiles
         /\ i + Cardinality(Group(BySize, i)) - 1 \in 1..NumFiles
         /\ Group(BySize, i) = i..(i + Cardinality(Group(BySize, i)) - 1)
<1> DEFINE G == Group(BySize, i)
           size(j) == paths[BySize[j]].size
<1>1. /\ NumFiles \in Nat
      /\ \A j \in 1..NumFiles : size(j) \in Nat
      /\ \A m, n \in 1..NumFiles : m <= n => size(m) <= size(n)
  BY BySizeShape, PathFacts, CompactionAssumption
<1>2. G = {j \in i..NumFiles : 2 * size(j) <= 3 * size(i)}
  BY DEF Group
<1>3. i \in G /\ G \subseteq i..NumFiles /\ G \subseteq Nat
  BY <1>1, <1>2
<1>4. \A j \in G : \A l \in i..j : l \in G
  <2> HIDE DEF size
  <2>1. SUFFICES ASSUME NEW j \in G, NEW l \in i..j PROVE l \in G
    OBVIOUS
  <2>2. l \in i..NumFiles /\ j \in 1..NumFiles /\ l \in 1..NumFiles /\ l <= j
    BY <1>1, <1>2
  <2>3. size(l) <= size(j) /\ 2 * size(j) <= 3 * size(i)
    BY <1>1, <1>2, <2>2
  <2>4. size(l) \in Nat /\ size(j) \in Nat /\ size(i) \in Nat
    BY <1>1, <2>2
  <2>5. 2 * size(l) <= 3 * size(i)
    BY <2>3, <2>4
  <2>6. QED
    BY <1>2, <2>2, <2>5
<1> HIDE DEF G
<1>5. IsFiniteSet(G)
  <2>1. IsFiniteSet(i..NumFiles)
    BY <1>1, FS_Interval
  <2>2. QED
    BY <1>3, <2>1, FS_Subset
<1>6. PICK top \in G : \A j \in G : top >= j
  BY <1>3, <1>5, FiniteNatMax
<1>7. top \in Nat /\ i <= top /\ top <= NumFiles /\ G = i..top
  <2>1. top \in Nat /\ i <= top /\ top <= NumFiles
    BY <1>1, <1>3, <1>6
  <2>2. i..top \subseteq G
    BY <1>4, <1>6
  <2>3. G \subseteq i..top
    BY <1>3, <1>6, <2>1
  <2>4. QED
    BY <2>1, <2>2, <2>3
<1>8. Cardinality(G) = top - i + 1
  BY <1>7, FS_Interval
<1>9. QED
  BY <1>1, <1>7, <1>8 DEF G

\* What is selected: nothing, if no group is large enough, or the group of some file
\* "best", as large as any.
LEMMA SelectedShape ==
  ASSUME PathsType
  PROVE  \/ /\ Selected = <<>>
            /\ \A i \in 1..NumFiles : Cardinality(Group(BySize, i)) < MinInputs
         \/ \E best, m \in 1..NumFiles :
              /\ m = Cardinality(Group(BySize, best)) /\ m >= MinInputs
              /\ \A i \in 1..NumFiles : Cardinality(Group(BySize, i)) <= m
              /\ best + m - 1 \in 1..NumFiles
              /\ Group(BySize, best) = best..(best + m - 1)
              /\ Selected = [n \in 1..m |-> BySize[best + n - 1]]
<1> DEFINE order == BySize
           members == [i \in 1..NumFiles |-> Cardinality(Group(order, i))]
           large == {i \in 1..NumFiles : members[i] >= MinInputs}
           Best(i) == \A j \in large :
                        members[j] < members[i] \/ (members[j] = members[i] /\ i <= j)
           best == CHOOSE i \in large : Best(i)
<1>1. Selected = IF large = {} THEN <<>>
                 ELSE SubSeq(order, best, best + members[best] - 1)
  BY DEF Selected
<1>2. NumFiles \in Nat /\ MinInputs \in Nat
  BY CompactionAssumption
<1>3. \A i \in 1..NumFiles :
        /\ members[i] = Cardinality(Group(BySize, i)) /\ members[i] \in 1..NumFiles
        /\ i + members[i] - 1 \in 1..NumFiles
        /\ Group(BySize, i) = i..(i + members[i] - 1)
  BY GroupShape
<1> HIDE DEF members
<1>4. CASE large = {}
  <2>1. \A i \in 1..NumFiles : members[i] \in Nat /\ ~(members[i] >= MinInputs)
    BY <1>3, <1>4
  <2>2. \A i \in 1..NumFiles : Cardinality(Group(BySize, i)) < MinInputs
    BY <1>2, <1>3, <2>1
  <2>3. Selected = <<>>
    BY Zenon, <1>1, <1>4
  <2>4. QED
    BY <2>2, <2>3
<1>5. CASE large # {}
  <2>1. IsFiniteSet(large) /\ large \subseteq 1..NumFiles
    <3>1. IsFiniteSet(1..NumFiles)
      BY <1>2, FS_Interval
    <3>2. QED
      BY <3>1, FS_Subset
  <2>2. \E i \in large : Best(i)
    <3> HIDE DEF large
    <3> DEFINE f == [i \in large |-> members[i]]
               T == {f[i] : i \in large}
    <3>1. IsFiniteSet(T)
      BY <2>1, FiniteImage
    <3>11. \A i \in large : f[i] = members[i] /\ members[i] \in Nat
      BY <1>3, <2>1
    <3>2. T \subseteq Nat /\ T # {}
      <4> HIDE DEF f
      <4>1. QED
        BY <1>5, <3>11
    <3>3. PICK most \in T : \A t \in T : most >= t
      <4> HIDE DEF T
      <4>1. QED
        BY <3>1, <3>2, FiniteNatMax
    <3> DEFINE U == {i \in large : members[i] = most}
    <3>4. IsFiniteSet(U) /\ U \subseteq Nat /\ U # {}
      <4>1. U \subseteq large /\ large \subseteq Nat
        BY <1>2, <2>1
      <4>3. \E j \in large : f[j] = most
        OBVIOUS
      <4>4. U # {}
        BY <3>11, <4>3
      <4> HIDE DEF U
      <4>2. QED
        BY <2>1, <4>1, <4>4, FS_Subset
    <3>5. PICK i \in U : \A j \in U : i <= j
      <4> HIDE DEF U
      <4>1. QED
        BY <3>4, FiniteNatMin
    <3>6. \A j \in large : members[j] \in Nat /\ members[j] <= most
      <4>1. \A j \in large : f[j] \in T
        OBVIOUS
      <4>2. most \in Nat
        BY <3>2
      <4> HIDE DEF T, f
      <4>3. QED
        BY <3>3, <3>11, <4>1, <4>2
    <3>7. i \in large /\ members[i] = most /\ members[i] \in Nat
      BY <3>5, <3>6
    <3>8. \A j \in large : members[j] = members[i] => i <= j
      BY <3>5, <3>7
    <3>9. Best(i)
      BY <3>6, <3>7, <3>8
    <3>10. QED
      BY <3>7, <3>9
  <2>3. best \in large /\ Best(best)
    <3> HIDE DEF large, Best
    <3>1. QED
      BY <2>2
  <2> HIDE DEF best
  <2>4. best \in 1..NumFiles /\ members[best] >= MinInputs
    BY <2>3
  <2>5. \A i \in 1..NumFiles : members[i] <= members[best]
    <3> SUFFICES ASSUME NEW i \in 1..NumFiles PROVE members[i] <= members[best]
      OBVIOUS
    <3>1. members[i] \in Nat /\ members[best] \in Nat
      BY <1>3, <2>4
    <3>2. CASE i \in large
      BY <2>3, <3>1, <3>2
    <3>3. CASE i \notin large
      BY <1>2, <2>4, <3>1, <3>3
    <3>4. QED
      BY <3>2, <3>3
  <2> DEFINE m == members[best]
  <2>6. /\ m \in 1..NumFiles /\ best + m - 1 \in 1..NumFiles
        /\ m = Cardinality(Group(BySize, best))
        /\ Group(BySize, best) = best..(best + m - 1)
    BY <1>3, <2>4
  <2>7. \A i \in 1..NumFiles : Cardinality(Group(BySize, i)) <= m
    BY <1>3, <2>5
  <2>8. Selected = SubSeq(BySize, best, best + m - 1)
    BY <1>1, <1>5
  <2> HIDE DEF m, large
  <2>9. Selected = [n \in 1..m |-> BySize[best + n - 1]]
    <3>1. BySize \in Seq(1..NumFiles) /\ Len(BySize) = NumFiles
      BY <1>2, BySizeShape
    <3>2. (best + m - 1) - best + 1 = m
      BY <2>4, <2>6
    <3>3. SubSeq(BySize, best, best + m - 1)
            = [n \in 1..((best + m - 1) - best + 1) |-> BySize[best + n - 1]]
      BY <2>4, <2>6, <3>1
    <3>4. QED
      BY <2>8, <3>2, <3>3
  <2>10. m >= MinInputs
    BY <2>4 DEF m
  <2>11. QED
    BY <2>4, <2>6, <2>7, <2>9, <2>10
<1>6. QED
  BY <1>4, <1>5

\* No file of the set is more than half as large again as another.
Similar(set) == \A i, j \in set : 2 * paths[i].size <= 3 * paths[j].size

\* Similar files are in the group of the smallest of them.
LEMMA SimilarInGroup ==
  ASSUME PathsType, NEW set \in SUBSET (1..NumFiles), set # {}, Similar(set)
  PROVE  \E i \in 1..NumFiles : Cardinality(set) <= Cardinality(Group(BySize, i))
<1> DEFINE P == {m \in 1..NumFiles : BySize[m] \in set}
           f == [m \in P |-> BySize[m]]
<1>1. NumFiles \in Nat
  BY CompactionAssumption
<1>2. P # {} /\ P \subseteq 1..NumFiles /\ \A m \in P : BySize[m] \in set
  <2>1. PICK i \in set : i \in 1..NumFiles
    OBVIOUS
  <2>2. PICK m \in 1..NumFiles : BySize[m] = i
    BY <2>1, BySizeShape
  <2>3. QED
    BY <2>1, <2>2
<1>3. f \in Surjection(P, set)
  <2>1. \A i \in set : \E m \in P : BySize[m] = i
    BY BySizeShape
  <2>2. QED
    BY <2>1 DEF Surjection
<1> HIDE DEF P
<1>4. IsFiniteSet(P) /\ P \subseteq Nat
  <2>1. IsFiniteSet(1..NumFiles)
    BY <1>1, FS_Interval
  <2>2. P \in SUBSET (1..NumFiles) /\ P \subseteq Nat
    BY <1>1, <1>2
  <2>3. QED
    BY <2>1, <2>2, FS_Subset
<1>5. PICK p \in P : \A m \in P : p <= m
  BY <1>2, <1>4, FiniteNatMin
<1>6. p \in 1..NumFiles
  BY <1>2
<1>7. P \in SUBSET Group(BySize, p)
  <2> SUFFICES ASSUME NEW m \in P PROVE m \in Group(BySize, p)
    OBVIOUS
  <2>1. m \in p..NumFiles
    BY <1>1, <1>2, <1>5, <1>6
  <2>2. 2 * paths[BySize[m]].size <= 3 * paths[BySize[p]].size
    BY <1>2 DEF Similar
  <2>3. QED
    BY <2>1, <2>2 DEF Group
<1>8. IsFiniteSet(Group(BySize, p))
  <2>1. IsFiniteSet(p..NumFiles) /\ Group(BySize, p) \in SUBSET (p..NumFiles)
    BY <1>1, <1>6, FS_Interval DEF Group
  <2>2. QED
    BY <2>1, FS_Subset
<1>9. Cardinality(P) <= Cardinality(Group(BySize, p)) /\ Cardinality(set) <= Cardinality(P)
      /\ IsFiniteSet(set)
  BY <1>3, <1>4, <1>7, <1>8, FS_Subset, FS_Surjection
<1>10. /\ Cardinality(P) \in Nat /\ Cardinality(set) \in Nat
       /\ Cardinality(Group(BySize, p)) \in Nat
  BY <1>4, <1>8, <1>9, FS_CardinalityType
<1>11. QED
  BY <1>6, <1>9, <1>10

LEMMA WithinHalf ==
  \A a, b, c \in Nat : 2 * a <= 3 * b /\ b <= c => 2 * a <= 3 * c
OBVIOUS

\* The group of a file is similar, and as large as the stretch it takes in the order.
LEMMA StretchSimilar ==
  ASSUME PathsType, NEW best \in 1..NumFiles, NEW m \in 1..NumFiles,
         best + m - 1 \in 1..NumFiles, Group(BySize, best) = best..(best + m - 1)
  PROVE  LET set == {BySize[best + n - 1] : n \in 1..m}
         IN  set \in SUBSET (1..NumFiles) /\ Cardinality(set) = m /\ Similar(set)
<1> DEFINE set == {BySize[best + n - 1] : n \in 1..m}
           f == [n \in 1..m |-> BySize[best + n - 1]]
<1>1. \A n \in 1..m : best + n - 1 \in 1..NumFiles /\ best + n - 1 \in best..(best + m - 1)
  BY CompactionAssumption
<1>2. set \in SUBSET (1..NumFiles)
  <2>1. \A n \in 1..m : BySize[best + n - 1] \in 1..NumFiles
    BY <1>1, BySizeShape
  <2>2. QED
    BY Zenon, <2>1
<1>3. f \in Surjection(1..m, set)
  BY DEF Surjection
<1>4. f \in Injection(1..m, set)
  <2>1. ASSUME NEW n \in 1..m, NEW l \in 1..m, f[n] = f[l] PROVE n = l
    <3>1. best + n - 1 = best + l - 1
      BY <1>1, <2>1, BySizeShape
    <3>2. QED
      BY <3>1
  <2>2. f \in [1..m -> set]
    OBVIOUS
  <2> HIDE DEF f
  <2>3. QED
    BY <2>1, <2>2 DEF Injection, IsInjective
<1>5. Cardinality(set) = m
  <2>1. IsFiniteSet(1..m) /\ Cardinality(1..m) = m
    BY FS_Interval
  <2> HIDE DEF set, f
  <2>2. QED
    BY <1>3, <1>4, <2>1, FS_Surjection
<1>6. Similar(set)
  <2> SUFFICES ASSUME NEW i \in set, NEW j \in set
               PROVE  2 * paths[i].size <= 3 * paths[j].size
    BY DEF Similar
  <2>1. PICK n \in 1..m : i = BySize[best + n - 1]
    OBVIOUS
  <2>2. PICK l \in 1..m : j = BySize[best + l - 1]
    OBVIOUS
  <2>3. best + n - 1 \in Group(BySize, best) /\ best <= best + l - 1
    BY <1>1
  <2>4. 2 * paths[i].size <= 3 * paths[BySize[best]].size
    BY <2>1, <2>3 DEF Group
  <2>5. paths[BySize[best]].size <= paths[j].size
    BY <1>1, <2>2, <2>3, BySizeShape
  <2>6. /\ i \in 1..NumFiles /\ j \in 1..NumFiles /\ BySize[best] \in 1..NumFiles
    BY <1>2, BySizeShape
  <2>7. paths[i].size \in Nat /\ paths[j].size \in Nat /\ paths[BySize[best]].size \in Nat
    BY <2>6, PathFacts
  <2>8. QED
    BY <2>4, <2>5, <2>7, WithinHalf
<1>7. QED
  BY <1>2, <1>5, <1>6

LEMMA LargestGroup ==
  ASSUME PathsType, inputs = Selected PROVE SelectsLargestGroup
<1> DEFINE sets == {set \in SUBSET (1..NumFiles) :
                      Cardinality(set) >= MinInputs /\ Similar(set)}
           selected == {inputs[i] : i \in DOMAIN inputs}
<1>1. SUFFICES IF sets = {} THEN selected = {}
               ELSE selected \in sets /\ \A set \in sets : Cardinality(set) <= Cardinality(selected)
  BY Zenon DEF SelectsLargestGroup, Similar
<1>2. MinInputs \in Nat \ {0} /\ NumFiles \in Nat
  BY CompactionAssumption
<1>3. ASSUME NEW set \in sets
      PROVE  /\ Cardinality(set) \in Nat /\ Cardinality(set) >= MinInputs
             /\ \E i \in 1..NumFiles : Cardinality(set) <= Cardinality(Group(BySize, i))
  <2>1. IsFiniteSet(1..NumFiles)
    BY <1>2, FS_Interval
  <2>2. IsFiniteSet(set)
    BY <2>1, FS_Subset
  <2>3. Cardinality(set) \in Nat /\ set # {}
    BY <1>2, <2>2, FS_CardinalityType, FS_EmptySet
  <2>4. QED
    BY <2>3, SimilarInGroup
<1>4. \A i \in 1..NumFiles : Cardinality(Group(BySize, i)) \in Nat
  BY GroupShape
<1>5. CASE /\ Selected = <<>>
           /\ \A i \in 1..NumFiles : Cardinality(Group(BySize, i)) < MinInputs
  <2>1. selected = {}
    BY <1>5
  <2>2. sets = {}
    <3> HIDE DEF sets
    <3>1. QED
      BY <1>2, <1>3, <1>4, <1>5
  <2>3. QED
    BY <2>1, <2>2
<1>6. ASSUME NEW best \in 1..NumFiles, NEW m \in 1..NumFiles,
             /\ m = Cardinality(Group(BySize, best)) /\ m >= MinInputs
             /\ \A i \in 1..NumFiles : Cardinality(Group(BySize, i)) <= m
             /\ best + m - 1 \in 1..NumFiles
             /\ Group(BySize, best) = best..(best + m - 1)
             /\ Selected = [n \in 1..m |-> BySize[best + n - 1]]
      PROVE  selected \in sets /\ \A set \in sets : Cardinality(set) <= Cardinality(selected)
  <2>1. selected = {BySize[best + n - 1] : n \in 1..m}
    BY <1>6
  <2>2. selected \in SUBSET (1..NumFiles) /\ Cardinality(selected) = m /\ Similar(selected)
    BY <1>6, <2>1, StretchSimilar
  <2>3. selected \in sets
    BY <1>6, <2>2
  <2>4. \A set \in sets : Cardinality(set) <= m
    <3> HIDE DEF sets
    <3>1. QED
      BY <1>3, <1>4, <1>6
  <2>5. QED
    BY <2>2, <2>3, <2>4
<1>7. QED
  <2> HIDE DEF sets, selected
  <2>1. QED
    BY <1>5, <1>6, SelectedShape

------------------------------------------------------------------------------
(* The merge *)

\* No file a merge can read is empty: a flush writes a memtable with an entry, a
\* compaction the entries of such files (TablesHaveEntries in CompactProofs).  An
\* empty one would add no iterator, and "positions" would be off by one after it.
\* A key above [0xFF; 1024] is none that a merge can read.
NonEmptyFiles == \A f \in Files : f.readable => \E k \in Scanned : f.data[k] # 0

\* Entry n of input i has been popped, or not yet.
Passed(i, n) == n \in DOMAIN iterators[i] /\ n < positions[i]
Ahead(i, n) == n \in DOMAIN iterators[i] /\ n >= positions[i]

Exhausted(i) == positions[i] > Len(iterators[i])

\* Each input has an iterator and a position in it or behind it ...
Loaded ==
  /\ inputs \in Seq(1..NumFiles)
  /\ iterators = [i \in DOMAIN inputs |-> Iterator(paths[inputs[i]])]
  /\ positions \in [DOMAIN inputs -> Nat]
  /\ \A i \in DOMAIN inputs : positions[i] \in 1..(Len(iterators[i]) + 1)

\* ... and the heap has the entry at the position of each input that is not exhausted.
HeapInv ==
  heap = {HeapEntry(iterators[i], positions[i], i) :
            i \in {j \in DOMAIN inputs : ~Exhausted(j)}}

\* What has been written ends with the last key.
OutputInv ==
  /\ output \in Seq([key : Keys, timestamp : Nat, sstable_id : Nat])
  /\ WritesAscending
  /\ last_key \in Keys \cup {0}
  /\ last_key = 0 <=> output = <<>>
  /\ output # <<>> => output[Len(output)].key = last_key

\* Entries come out in the order of the keys, the newest version of a key first.
AheadInv ==
  \A i \in DOMAIN inputs : \A n \in DOMAIN iterators[i] : Ahead(i, n) =>
    /\ iterators[i][n].key >= last_key
    /\ iterators[i][n].key = last_key =>
         iterators[i][n].timestamp <= output[Len(output)].timestamp

\* Of each key that came by, the output has a version that is no older ...
PassedInv ==
  \A i \in DOMAIN inputs : \A n \in DOMAIN iterators[i] : Passed(i, n) =>
    \E m \in DOMAIN output : /\ output[m].key = iterators[i][n].key
                             /\ output[m].timestamp >= iterators[i][n].timestamp

\* ... and it has nothing else.
WrittenInv ==
  \A m \in DOMAIN output :
    \E i \in DOMAIN inputs : \E n \in DOMAIN iterators[i] :
      /\ Passed(i, n)
      /\ output[m].key = iterators[i][n].key
      /\ output[m].timestamp = iterators[i][n].timestamp

MergeInv == Loaded /\ HeapInv /\ OutputInv /\ AheadInv /\ PassedInv /\ WrittenInv

CompactionInv ==
  /\ PathsType
  /\ phase \in {"select", "merge", "done", "failed"}
  /\ phase = "select" => inputs = <<>> /\ heap = {} /\ last_key = 0 /\ output = <<>>
                         /\ iterators = <<>> /\ positions = <<>>
  /\ phase # "select" => inputs = Selected /\ MergeInv
  /\ phase = "done" => heap = {}

EntryType == [key : Scanned, timestamp : Nat]

\* What scan returns of a table: an entry of each key that it comes to, in their order
LEMMA ScanShape ==
  ASSUME NEW file, file.data \in [Keys -> Nat]
  PROVE  /\ Scan(file) \in Seq(EntryType)
         /\ \A m, n \in DOMAIN Scan(file) : m < n => Scan(file)[m].key < Scan(file)[n].key
         /\ \A n \in DOMAIN Scan(file) :
              /\ Scan(file)[n].timestamp = file.data[Scan(file)[n].key]
              /\ Scan(file)[n].timestamp # 0
         /\ \A k \in Scanned :
              file.data[k] # 0 => \E n \in DOMAIN Scan(file) : Scan(file)[n].key = k
<1> DEFINE S == {k \in Scanned : file.data[k] # 0}
           N == Cardinality(S)
           present == InOrder(S)
<1>1. IsFiniteSet(S) /\ S \subseteq Nat
  <2>1. IsFiniteSet(Keys) /\ S \in SUBSET Keys /\ Keys \subseteq Nat
    BY CompactionAssumption, FS_Interval DEF Keys, Scanned
  <2> HIDE DEF S
  <2>2. QED
    BY <2>1, FS_Subset
<1>2. N \in Nat
  <2> HIDE DEF S
  <2>1. QED
    BY <1>1, FS_CardinalityType
<1>3. /\ present \in [1..N -> S] /\ Ascending(present)
      /\ \A k \in S : \E n \in 1..N : present[n] = k
  <2> HIDE DEF S
  <2>1. QED
    BY <1>1, InOrderShape
<1>4. Scan(file) = [n \in DOMAIN present |->
                      [key |-> present[n], timestamp |-> file.data[present[n]]]]
  BY Zenon DEF Scan
<1> HIDE DEF N, present
<1>5. Scan(file) = [n \in 1..N |-> [key |-> present[n], timestamp |-> file.data[present[n]]]]
  BY <1>3, <1>4
<1>6. \A n \in 1..N : /\ present[n] \in Scanned /\ file.data[present[n]] \in Nat \ {0}
                      /\ Scan(file)[n].key = present[n]
                      /\ Scan(file)[n].timestamp = file.data[present[n]]
                      /\ Scan(file)[n] \in EntryType
  BY <1>3, <1>5 DEF EntryType, Scanned
<1>7. DOMAIN Scan(file) = 1..N
  BY <1>5
<1>8. Scan(file) \in Seq(EntryType)
  <2>1. Scan(file) \in [1..N -> EntryType]
    BY <1>5, <1>6
  <2>2. QED
    BY <1>2, <2>1
<1>9. QED
  BY <1>3, <1>6, <1>7, <1>8 DEF Ascending

\* ... and what a merge has of an input
LEMMA IteratorShape ==
  ASSUME NEW file, file.data \in [Keys -> Nat], file.readable \in BOOLEAN
  PROVE  /\ Iterator(file) \in Seq(EntryType)
         /\ \A m, n \in DOMAIN Iterator(file) :
              m < n => Iterator(file)[m].key < Iterator(file)[n].key
         /\ \A n \in DOMAIN Iterator(file) :
              /\ file.readable
              /\ Iterator(file)[n].timestamp = file.data[Iterator(file)[n].key]
              /\ Iterator(file)[n].timestamp # 0
         /\ file.readable => \A k \in Scanned : file.data[k] # 0 =>
              \E n \in DOMAIN Iterator(file) : Iterator(file)[n].key = k
BY ScanShape DEF Iterator

\* With files that are not empty each input adds its iterator.
LEMMA EachInputAdds ==
  ASSUME NonEmptyFiles, NEW file \in Files
  PROVE  AddsIterator(file) /\ (HasFirst(file) <=> Iterator(file) # <<>>)
<1>1. file.data \in [Keys -> Nat] /\ file.readable \in BOOLEAN
  BY CompactionAssumption DEF Keys
<1>2. CASE file.readable
  <2>1. PICK k \in Scanned : file.data[k] # 0
    BY <1>2 DEF NonEmptyFiles
  <2>2. Scan(file) # <<>>
    BY <1>1, <2>1, ScanShape
  <2>3. QED
    BY <1>2, <2>2 DEF AddsIterator, HasFirst, Iterator
<1>3. CASE ~file.readable
  BY <1>3 DEF AddsIterator, HasFirst, Iterator
<1>4. QED
  BY <1>1, <1>2, <1>3

LEMMA FunctionIsSeq ==
  ASSUME NEW S, NEW m \in Nat, NEW f \in [1..m -> S] PROVE f \in Seq(S)
OBVIOUS

LEMMA SeqIndex ==
  ASSUME NEW S, NEW s \in Seq(S), NEW i \in DOMAIN s
  PROVE  i \in 1..Len(s) /\ i \in Nat \ {0} /\ Len(s) \in Nat /\ s[i] \in S
OBVIOUS

\* The selection is a function of the files.
LEMMA SelectedStays == ASSUME paths' = paths PROVE Selected' = Selected
BY DEF Selected, BySize, Group

\* The selection is a list of files.
LEMMA SelectedType ==
  ASSUME PathsType PROVE Selected \in Seq(1..NumFiles)
<1>1. CASE Selected = <<>>
  BY <1>1
<1>2. ASSUME NEW best \in 1..NumFiles, NEW m \in 1..NumFiles, best + m - 1 \in 1..NumFiles,
             Selected = [n \in 1..m |-> BySize[best + n - 1]]
      PROVE  Selected \in Seq(1..NumFiles)
  <2>1. \A n \in 1..m : best + n - 1 \in 1..NumFiles
    BY <1>2, CompactionAssumption
  <2>2. \A n \in 1..m : BySize[best + n - 1] \in 1..NumFiles
    BY <2>1, BySizeShape
  <2>3. Selected \in [1..m -> 1..NumFiles]
    BY Zenon, <1>2, <2>2
  <2>4. m \in Nat
    OBVIOUS
  <2>5. QED
    BY <2>3, <2>4, FunctionIsSeq
<1>3. QED
  BY <1>1, <1>2, SelectedShape

\* What the merge has loaded of input i
LEMMA LoadedFacts ==
  ASSUME PathsType, Loaded, NEW i \in DOMAIN inputs
  PROVE  /\ inputs[i] \in 1..NumFiles /\ i \in Nat
         /\ iterators[i] = Iterator(paths[inputs[i]])
         /\ iterators[i] \in Seq(EntryType)
         /\ \A m, n \in DOMAIN iterators[i] : m < n => iterators[i][m].key < iterators[i][n].key
         /\ \A n \in DOMAIN iterators[i] : /\ n \in Nat \ {0}
                                           /\ iterators[i][n].key \in Keys \cap Scanned
                                           /\ iterators[i][n].timestamp \in Nat
         /\ positions[i] \in 1..(Len(iterators[i]) + 1)
         /\ Len(iterators[i]) \in Nat /\ DOMAIN iterators[i] = 1..Len(iterators[i])
<1>1. inputs[i] \in 1..NumFiles /\ i \in Nat
  BY SeqIndex DEF Loaded
<1>2. iterators[i] = Iterator(paths[inputs[i]]) /\ positions[i] \in 1..(Len(iterators[i]) + 1)
  BY DEF Loaded
<1>3. /\ iterators[i] \in Seq(EntryType)
      /\ \A m, n \in DOMAIN iterators[i] : m < n => iterators[i][m].key < iterators[i][n].key
  BY <1>1, <1>2, PathFacts, IteratorShape
<1>4. \A n \in DOMAIN iterators[i] : /\ n \in Nat \ {0} /\ iterators[i][n] \in EntryType
  BY <1>3
<1>5. QED
  BY <1>1, <1>2, <1>3, <1>4 DEF EntryType, Scanned

\* The entry the heap gives is the first, in the order of the heap, of all the
\* entries that are left in the inputs.
LEMMA HeapTop ==
  ASSUME PathsType, Loaded, HeapInv, NEW e \in heap, \A f \in heap : ~Precedes(f, e)
  PROVE  \E i \in DOMAIN inputs :
           /\ e = HeapEntry(iterators[i], positions[i], i) /\ Ahead(i, positions[i])
           /\ \A j \in DOMAIN inputs : \A n \in DOMAIN iterators[j] : Ahead(j, n) =>
                /\ iterators[j][n].key >= e.key
                /\ iterators[j][n].key = e.key => iterators[j][n].timestamp <= e.timestamp
<1>1. PICK i \in DOMAIN inputs : ~Exhausted(i) /\ e = HeapEntry(iterators[i], positions[i], i)
  BY DEF HeapInv
<1>2. Ahead(i, positions[i])
  BY <1>1, LoadedFacts DEF Ahead, Exhausted
<1>3. e.key \in Keys /\ e.timestamp \in Nat
  BY <1>1, <1>2, LoadedFacts DEF HeapEntry, Ahead
<1>4. ASSUME NEW j \in DOMAIN inputs, NEW n \in DOMAIN iterators[j], Ahead(j, n)
      PROVE  /\ iterators[j][n].key >= e.key
             /\ iterators[j][n].key = e.key => iterators[j][n].timestamp <= e.timestamp
  <2> DEFINE p == positions[j]
             f == HeapEntry(iterators[j], p, j)
  <2>1. p \in DOMAIN iterators[j] /\ p <= n /\ ~Exhausted(j)
    BY <1>4, LoadedFacts DEF Ahead, Exhausted
  <2>2. f \in heap /\ ~Precedes(f, e)
    BY <2>1 DEF HeapInv
  <2>3. /\ f.key = iterators[j][p].key /\ f.timestamp = iterators[j][p].timestamp
        /\ f.key \in Keys /\ f.timestamp \in Nat
    BY <2>1, LoadedFacts DEF HeapEntry
  <2>4. f.key >= e.key /\ (f.key = e.key => f.timestamp <= e.timestamp)
    BY <1>3, <2>2, <2>3 DEF Precedes, Keys
  <2>5. CASE n = p
    BY <2>3, <2>4, <2>5
  <2>6. CASE n # p
    <3>1. p < n /\ iterators[j][n].key \in Keys
      BY <2>1, <2>6, LoadedFacts
    <3>2. f.key < iterators[j][n].key
      BY <2>1, <2>3, <3>1, LoadedFacts
    <3>3. QED
      BY <1>3, <2>3, <2>4, <3>1, <3>2 DEF Keys
  <2>7. QED
    BY <2>5, <2>6
<1>5. QED
  BY <1>1, <1>2, <1>4

------------------------------------------------------------------------------
(* The steps of the merge *)

LEMMA SelectInv ==
  ASSUME NonEmptyFiles, CompactionInv, Select PROVE CompactionInv'
<1> DEFINE chosen == Selected
           file(i) == paths[chosen[i]]
           adding == InOrder({i \in DOMAIN chosen : AddsIterator(file(i))})
<1>1. /\ inputs' = chosen /\ phase' = (IF chosen = <<>> THEN "done" ELSE "merge")
      /\ iterators' = [n \in DOMAIN adding |-> Iterator(file(adding[n]))]
      /\ positions' = [n \in DOMAIN adding |-> 1]
      /\ heap' = {HeapEntry(Scan(file(i)), 1, i) : i \in {j \in DOMAIN chosen : HasFirst(file(j))}}
      /\ paths' = paths /\ last_key' = last_key /\ output' = output
  BY Zenon DEF Select
<1>2. last_key = 0 /\ output = <<>> /\ PathsType
  BY DEF CompactionInv, Select
<1>3. Selected' = Selected
  BY <1>1, SelectedStays
<1>4. chosen \in Seq(1..NumFiles) /\ Len(chosen) \in Nat /\ DOMAIN chosen = 1..Len(chosen)
  BY <1>2, SelectedType
<1>5. \A i \in DOMAIN chosen : file(i) \in Files
  <2>1. \A i \in DOMAIN chosen : chosen[i] \in 1..NumFiles
    BY <1>4, SeqIndex
  <2>2. QED
    BY <1>2, <2>1 DEF PathsType
<1>6. \A i \in DOMAIN chosen :
        AddsIterator(file(i)) /\ (HasFirst(file(i)) <=> Iterator(file(i)) # <<>>)
  BY <1>5, EachInputAdds
<1> HIDE DEF chosen, file
<1>7. {i \in DOMAIN chosen : AddsIterator(file(i))} = 1..Len(chosen)
  BY <1>4, <1>6
<1>8. adding = [n \in 1..Len(chosen) |-> n]
  BY <1>4, <1>7, InOrderInterval
<1> HIDE DEF adding
<1>9. /\ DOMAIN inputs' = DOMAIN chosen
      /\ iterators' = [i \in DOMAIN chosen |-> Iterator(file(i))]
      /\ positions' = [i \in DOMAIN chosen |-> 1]
  BY <1>1, <1>4, <1>8
<1>10. \A i \in DOMAIN chosen :
         /\ iterators'[i] = Iterator(file(i)) /\ positions'[i] = 1
         /\ Len(iterators'[i]) \in Nat /\ (iterators'[i] # <<>> <=> Len(iterators'[i]) >= 1)
  <2>1. \A i \in DOMAIN chosen : Iterator(file(i)) \in Seq(EntryType)
    BY <1>5, IteratorShape, CompactionAssumption DEF Keys
  <2>2. QED
    BY <1>9, <2>1
<1>11. Loaded'
  <2>1. iterators' = [i \in DOMAIN inputs' |-> Iterator(paths'[inputs'[i]])]
    BY <1>1, <1>9 DEF file
  <2>2. inputs' \in Seq(1..NumFiles) /\ positions' \in [DOMAIN inputs' -> Nat]
    BY <1>1, <1>4, <1>9
  <2>3. \A i \in DOMAIN inputs' : positions'[i] \in 1..(Len(iterators'[i]) + 1)
    BY <1>9, <1>10
  <2>4. QED
    BY Zenon, <2>1, <2>2, <2>3 DEF Loaded
<1>12. HeapInv'
  <2>1. \A i \in DOMAIN chosen : HasFirst(file(i)) <=> ~Exhausted(i)'
    BY <1>6, <1>10 DEF Exhausted
  <2>2. \A i \in DOMAIN chosen : HasFirst(file(i)) =>
          HeapEntry(Scan(file(i)), 1, i) = HeapEntry(iterators'[i], positions'[i], i)
    BY <1>10 DEF HasFirst, Iterator
  <2>3. heap' = {HeapEntry(iterators'[i], positions'[i], i) :
                   i \in {j \in DOMAIN inputs' : ~Exhausted(j)'}}
    BY Zenon, <1>1, <1>9, <2>1, <2>2
  <2>4. QED
    BY <2>3 DEF HeapInv
<1>13. OutputInv'
  BY <1>1, <1>2 DEF OutputInv, WritesAscending
<1>14. AheadInv'
  <2> SUFFICES ASSUME NEW i \in DOMAIN inputs', NEW n \in DOMAIN iterators'[i]
               PROVE  iterators'[i][n].key >= 0 /\ iterators'[i][n].key # 0
    BY <1>1, <1>2 DEF AheadInv
  <2>1. iterators'[i] \in Seq(EntryType) /\ iterators'[i][n] \in EntryType
    BY <1>5, <1>9, <1>10, IteratorShape, CompactionAssumption DEF Keys
  <2>2. QED
    BY <2>1 DEF EntryType, Scanned, Keys
<1>15. PassedInv'
  <2> SUFFICES ASSUME NEW i \in DOMAIN inputs', NEW n \in DOMAIN iterators'[i], Passed(i, n)'
               PROVE  FALSE
    BY DEF PassedInv
  <2>1. positions'[i] = 1 /\ iterators'[i] \in Seq(EntryType)
    BY <1>5, <1>9, <1>10, IteratorShape, CompactionAssumption DEF Keys
  <2>2. QED
    BY <2>1 DEF Passed
<1>16. WrittenInv'
  BY <1>1, <1>2 DEF WrittenInv
<1>17. phase' = "done" => heap' = {}
  <2> SUFFICES ASSUME phase' = "done" PROVE heap' = {}
    OBVIOUS
  <2>1. chosen = <<>>
    BY <1>1
  <2>2. QED
    BY <1>1, <2>1
<1>18. QED
  BY <1>1, <1>2, <1>3, <1>11, <1>12, <1>13, <1>14, <1>15, <1>16, <1>17
     DEF CompactionInv, MergeInv, PathsType, chosen

\* The entry of input i at its position is popped: e and i as HeapTop gives them.
PopsFrom(e, i) ==
  /\ i \in DOMAIN inputs /\ Ahead(i, positions[i])
  /\ e = HeapEntry(iterators[i], positions[i], i)
  /\ \A j \in DOMAIN inputs : \A n \in DOMAIN iterators[j] : Ahead(j, n) =>
       /\ iterators[j][n].key >= e.key
       /\ iterators[j][n].key = e.key => iterators[j][n].timestamp <= e.timestamp
  /\ output' = IF IsNew(e) THEN Append(output, e) ELSE output
  /\ last_key' = e.key
  /\ positions' = [positions EXCEPT ![i] = positions[i] + 1]
  /\ heap' = (heap \ {e}) \cup
       (IF positions[i] + 1 <= Len(iterators[i])
          THEN {HeapEntry(iterators[i], positions[i] + 1, i)} ELSE {})
  /\ UNCHANGED <<paths, inputs, iterators, phase>>

LEMMA PopShape ==
  ASSUME PathsType, Loaded, HeapInv, Pop
  PROVE  \E e \in heap : \E i \in DOMAIN inputs : PopsFrom(e, i)
<1>1. PICK e \in heap :
        /\ \A f \in heap : ~Precedes(f, e)
        /\ output' = IF IsNew(e) THEN Append(output, e) ELSE output
        /\ last_key' = e.key
        /\ positions' = [positions EXCEPT ![e.sstable_id] = Advanced(e)]
        /\ heap' = (heap \ {e}) \cup
             (IF Advanced(e) <= Len(iterators[e.sstable_id])
                THEN {HeapEntry(iterators[e.sstable_id], Advanced(e), e.sstable_id)} ELSE {})
  BY Zenon DEF Pop
<1>2. PICK i \in DOMAIN inputs :
        /\ e = HeapEntry(iterators[i], positions[i], i) /\ Ahead(i, positions[i])
        /\ \A j \in DOMAIN inputs : \A n \in DOMAIN iterators[j] : Ahead(j, n) =>
             /\ iterators[j][n].key >= e.key
             /\ iterators[j][n].key = e.key => iterators[j][n].timestamp <= e.timestamp
  BY <1>1, HeapTop
<1>3. e.sstable_id = i
  BY <1>2 DEF HeapEntry
<1>4. Advanced(e) = positions[i] + 1
  BY <1>3 DEF Advanced
<1>5. UNCHANGED <<paths, inputs, iterators, phase>>
  BY DEF Pop
<1>6. PopsFrom(e, i)
  BY <1>1, <1>2, <1>3, <1>4, <1>5 DEF PopsFrom
<1>7. QED
  BY <1>6

\* What is popped, and what a pop moves from before the positions to behind them
LEMMA PopFacts ==
  ASSUME PathsType, Loaded, NEW e, NEW i, PopsFrom(e, i)
  PROVE  /\ i \in DOMAIN inputs /\ i \in Nat /\ positions[i] \in DOMAIN iterators[i]
         /\ positions[i] \in Nat \ {0} /\ Ahead(i, positions[i])
         /\ e.key = iterators[i][positions[i]].key /\ e.key \in Keys
         /\ e.timestamp = iterators[i][positions[i]].timestamp /\ e.timestamp \in Nat
         /\ e.sstable_id = i
         /\ e \in [key : Keys, timestamp : Nat, sstable_id : Nat]
         /\ \A j \in DOMAIN inputs : \A n \in DOMAIN iterators[j] :
              /\ Passed(j, n)' <=> Passed(j, n) \/ (j = i /\ n = positions[i])
              /\ Ahead(j, n)' <=> Ahead(j, n) /\ ~(j = i /\ n = positions[i])
<1>1. i \in DOMAIN inputs /\ positions[i] \in DOMAIN iterators[i] /\ Ahead(i, positions[i])
  BY DEF PopsFrom, Ahead
<1>2. /\ i \in Nat /\ positions[i] \in Nat \ {0}
      /\ iterators[i][positions[i]].key \in Keys /\ iterators[i][positions[i]].timestamp \in Nat
  BY <1>1, LoadedFacts
<1>3. /\ e.key = iterators[i][positions[i]].key
      /\ e.timestamp = iterators[i][positions[i]].timestamp /\ e.sstable_id = i
      /\ e \in [key : Keys, timestamp : Nat, sstable_id : Nat]
  BY <1>2 DEF PopsFrom, HeapEntry
<1>4. ASSUME NEW j \in DOMAIN inputs, NEW n \in DOMAIN iterators[j]
      PROVE  /\ Passed(j, n)' <=> Passed(j, n) \/ (j = i /\ n = positions[i])
             /\ Ahead(j, n)' <=> Ahead(j, n) /\ ~(j = i /\ n = positions[i])
  <2>1. /\ iterators' = iterators /\ n \in Nat /\ positions[j] \in Nat
        /\ positions'[j] = IF j = i THEN positions[i] + 1 ELSE positions[j]
    BY <1>1, LoadedFacts DEF PopsFrom, Loaded
  <2>2. QED
    BY <1>2, <2>1 DEF Passed, Ahead
<1>5. QED
  BY <1>1, <1>2, <1>3, <1>4

LEMMA PopLoaded ==
  ASSUME PathsType, Loaded, NEW e, NEW i, PopsFrom(e, i) PROVE Loaded'
<1>1. UNCHANGED <<paths, inputs, iterators>>
      /\ positions' = [positions EXCEPT ![i] = positions[i] + 1]
  BY DEF PopsFrom
<1>2. i \in DOMAIN inputs /\ positions[i] \in DOMAIN iterators[i]
  BY PopFacts
<1>3. positions[i] + 1 \in 1..(Len(iterators[i]) + 1)
  BY <1>2, LoadedFacts
<1>4. QED
  BY <1>1, <1>2, <1>3 DEF Loaded

LEMMA PopHeap ==
  ASSUME PathsType, Loaded, HeapInv, NEW e, NEW i, PopsFrom(e, i) PROVE HeapInv'
<1> DEFINE At(j) == HeapEntry(iterators[j], positions[j], j)
           Next(j) == HeapEntry(iterators[j], positions'[j], j)
<1>1. /\ UNCHANGED <<inputs, iterators>> /\ e = At(i)
      /\ positions' = [positions EXCEPT ![i] = positions[i] + 1]
      /\ heap' = (heap \ {e}) \cup
           (IF positions[i] + 1 <= Len(iterators[i])
              THEN {HeapEntry(iterators[i], positions[i] + 1, i)} ELSE {})
  BY DEF PopsFrom
<1>2. /\ i \in DOMAIN inputs /\ positions \in [DOMAIN inputs -> Nat]
      /\ \A j \in DOMAIN inputs : Len(iterators[j]) \in Nat
  BY PopFacts, LoadedFacts DEF Loaded
<1>3. positions'[i] = positions[i] + 1 /\ \A j \in DOMAIN inputs : j # i => positions'[j] = positions[j]
  BY <1>1, <1>2
<1>4. heap = {At(j) : j \in {l \in DOMAIN inputs : ~Exhausted(l)}}
  BY DEF HeapInv
<1>5. \A j \in DOMAIN inputs : At(j).sstable_id = j
  BY DEF HeapEntry
<1>6. \A j \in DOMAIN inputs : j # i => Next(j) = At(j) /\ (Exhausted(j)' <=> Exhausted(j))
  BY <1>1, <1>3 DEF Exhausted
<1>7. Exhausted(i)' <=> ~(positions[i] + 1 <= Len(iterators[i]))
  BY <1>1, <1>2, <1>3 DEF Exhausted
<1>8. Next(i) = HeapEntry(iterators[i], positions[i] + 1, i)
  BY <1>3
<1> DEFINE rest == {At(j) : j \in {l \in DOMAIN inputs : l # i /\ ~Exhausted(l)}}
           new == {Next(j) : j \in {l \in DOMAIN inputs : ~Exhausted(l)'}}
<1> HIDE DEF At, Next
<1>9. heap \ {e} = rest
  <2>1. ASSUME NEW x \in heap \ {e} PROVE x \in rest
    <3>1. PICK j \in DOMAIN inputs : ~Exhausted(j) /\ x = At(j)
      BY <1>4
    <3>2. j # i
      BY <1>1, <3>1
    <3>3. QED
      BY <3>1, <3>2
  <2>2. ASSUME NEW x \in rest PROVE x \in heap \ {e}
    <3>1. PICK j \in DOMAIN inputs : j # i /\ ~Exhausted(j) /\ x = At(j)
      OBVIOUS
    <3>2. x \in heap
      BY <1>4, <3>1
    <3>3. x # e
      BY <1>1, <1>2, <1>5, <3>1
    <3>4. QED
      BY <3>2, <3>3
  <2>3. QED
    BY <2>1, <2>2
<1>10. new = rest \cup (IF ~Exhausted(i)' THEN {Next(i)} ELSE {})
  <2>1. ASSUME NEW x \in new PROVE x \in rest \cup (IF ~Exhausted(i)' THEN {Next(i)} ELSE {})
    <3>1. PICK j \in DOMAIN inputs : ~Exhausted(j)' /\ x = Next(j)
      OBVIOUS
    <3>2. QED
      BY <1>6, <3>1
  <2>2. ASSUME NEW x \in rest PROVE x \in new
    <3>1. PICK j \in DOMAIN inputs : j # i /\ ~Exhausted(j) /\ x = At(j)
      OBVIOUS
    <3>2. QED
      BY <1>6, <3>1
  <2>3. ~Exhausted(i)' => Next(i) \in new
    BY <1>2
  <2>4. QED
    BY <2>1, <2>2, <2>3
<1>11. heap' = new
  BY <1>1, <1>7, <1>8, <1>9, <1>10
<1>12. QED
  BY Zenon, <1>1, <1>11 DEF HeapInv, Next

Outputs == Seq([key : Keys, timestamp : Nat, sstable_id : Nat])

\* Appending one item
LEMMA AppendFacts ==
  ASSUME NEW S, NEW s \in Seq(S), NEW x \in S
  PROVE  /\ Append(s, x) \in Seq(S) /\ Append(s, x) # <<>>
         /\ Len(Append(s, x)) = Len(s) + 1 /\ DOMAIN Append(s, x) = 1..(Len(s) + 1)
         /\ DOMAIN s = 1..Len(s) /\ Len(s) \in Nat
         /\ Append(s, x)[Len(s) + 1] = x
         /\ \A m \in 1..Len(s) : Append(s, x)[m] = s[m]
OBVIOUS

\* What is written keeps below the last key.
LEMMA OutputBelow ==
  ASSUME OutputInv, NEW m \in DOMAIN output
  PROVE  /\ m \in 1..Len(output) /\ Len(output) \in DOMAIN output
         /\ output[m].key \in Keys /\ output[m].timestamp \in Nat
         /\ output[m].key <= last_key
<1>1. /\ m \in 1..Len(output) /\ Len(output) \in Nat
      /\ output[m] \in [key : Keys, timestamp : Nat, sstable_id : Nat]
  BY SeqIndex DEF OutputInv
<1>2. Len(output) \in DOMAIN output /\ output # <<>>
  BY <1>1 DEF OutputInv
<1>3. output[Len(output)].key = last_key /\ last_key \in Keys
  BY <1>2 DEF OutputInv
<1>4. m = Len(output) \/ output[m].key < output[Len(output)].key
  BY <1>1, <1>2 DEF OutputInv, WritesAscending
<1>5. QED
  BY <1>1, <1>2, <1>3, <1>4 DEF Keys

LEMMA PopOutput ==
  ASSUME PathsType, Loaded, OutputInv, AheadInv, NEW e, NEW i, PopsFrom(e, i)
  PROVE  /\ OutputInv'
         /\ IsNew(e) => output' = Append(output, e) /\ e.key > last_key
         /\ ~IsNew(e) => output' = output /\ e.key = last_key /\ output # <<>>
                         /\ e.timestamp <= output[Len(output)].timestamp
<1>1. /\ e.key \in Keys /\ e \in [key : Keys, timestamp : Nat, sstable_id : Nat]
      /\ Ahead(i, positions[i]) /\ i \in DOMAIN inputs /\ positions[i] \in DOMAIN iterators[i]
      /\ e.key = iterators[i][positions[i]].key
      /\ e.timestamp = iterators[i][positions[i]].timestamp
  BY PopFacts
<1>2. /\ last_key' = e.key /\ last_key \in Keys \cup {0} /\ output \in Outputs
      /\ output' = IF IsNew(e) THEN Append(output, e) ELSE output
  BY DEF PopsFrom, OutputInv, Outputs
<1>3. e.key >= last_key /\ (e.key = last_key => e.timestamp <= output[Len(output)].timestamp)
  BY <1>1 DEF AheadInv
<1>4. CASE IsNew(e)
  <2>1. output' = Append(output, e) /\ e.key > last_key
    BY <1>1, <1>2, <1>3, <1>4 DEF IsNew, Keys
  <2>2. /\ output' \in Outputs /\ output' # <<>> /\ output'[Len(output')].key = last_key'
    <3> DEFINE new == Append(output, e)
    <3>1. new \in Outputs /\ new # <<>> /\ Len(new) = Len(output) + 1 /\ new[Len(output) + 1] = e
      BY <1>1, <1>2, AppendFacts DEF Outputs
    <3> HIDE DEF new
    <3>2. output' = new
      BY <2>1 DEF new
    <3>3. QED
      BY <1>2, <3>1, <3>2
  <2>3. WritesAscending'
    <3> SUFFICES ASSUME NEW m \in DOMAIN output', NEW n \in DOMAIN output', m < n
                 PROVE  output'[m].key < output'[n].key
      BY DEF WritesAscending
    <3>1. /\ DOMAIN output = 1..Len(output) /\ Len(output) \in Nat
          /\ DOMAIN output' = 1..(Len(output) + 1)
          /\ output'[Len(output) + 1] = e /\ \A l \in 1..Len(output) : output'[l] = output[l]
      BY <1>1, <1>2, <2>1, AppendFacts DEF Outputs
    <3>2. m \in DOMAIN output /\ output'[m] = output[m]
      BY <3>1
    <3>3. CASE n = Len(output) + 1
      BY <1>1, <1>2, <2>1, <3>1, <3>2, <3>3, OutputBelow DEF Keys
    <3>4. CASE n # Len(output) + 1
      BY <3>1, <3>2, <3>4 DEF OutputInv, WritesAscending
    <3>5. QED
      BY <3>3, <3>4
  <2>4. last_key' \in Keys /\ last_key' # 0
    BY <1>1, <1>2 DEF Keys
  <2>5. OutputInv'
    BY <2>2, <2>3, <2>4 DEF OutputInv, Outputs
  <2>6. QED
    BY <1>4, <2>1, <2>5
<1>5. CASE ~IsNew(e)
  <2>1. output' = output /\ e.key = last_key /\ last_key' = last_key /\ last_key # 0
    BY <1>1, <1>2, <1>5 DEF IsNew, Keys
  <2>2. output # <<>>
    BY <2>1 DEF OutputInv
  <2>3. OutputInv'
    BY <2>1 DEF OutputInv, WritesAscending
  <2>4. QED
    BY <1>3, <1>5, <2>1, <2>2, <2>3
<1>6. QED
  BY <1>4, <1>5

\* The last of what is written is of the key just popped, and no older.
LEMMA PopLast ==
  ASSUME PathsType, Loaded, OutputInv, AheadInv, NEW e, NEW i, PopsFrom(e, i)
  PROVE  /\ Len(output') \in DOMAIN output' /\ output'[Len(output')].key = e.key
         /\ output'[Len(output')].timestamp \in Nat
         /\ output'[Len(output')].timestamp >= e.timestamp
         /\ \A m \in DOMAIN output : m \in DOMAIN output' /\ output'[m] = output[m]
<1>1. e \in [key : Keys, timestamp : Nat, sstable_id : Nat] /\ e.timestamp \in Nat
  BY PopFacts
<1>2. output \in Outputs
  BY DEF OutputInv, Outputs
<1>3. CASE IsNew(e)
  <2>1. output' = Append(output, e)
    BY <1>3, PopOutput
  <2>2. QED
    BY <1>1, <1>2, <2>1, AppendFacts DEF Outputs
<1>4. CASE ~IsNew(e)
  <2>1. /\ output' = output /\ e.key = last_key /\ output # <<>>
        /\ e.timestamp <= output[Len(output)].timestamp
    BY <1>4, PopOutput
  <2>2. Len(output) \in DOMAIN output
    BY <1>2, <2>1 DEF Outputs
  <2>3. output[Len(output)].key = last_key /\ output[Len(output)].timestamp \in Nat
    BY <2>1, <2>2, OutputBelow DEF OutputInv
  <2>4. QED
    BY <1>1, <2>1, <2>2, <2>3
<1>5. QED
  BY <1>3, <1>4

LEMMA PopAhead ==
  ASSUME PathsType, Loaded, OutputInv, AheadInv, NEW e, NEW i, PopsFrom(e, i)
  PROVE  AheadInv'
<1>1. /\ UNCHANGED <<inputs, iterators>> /\ last_key' = e.key
      /\ \A j \in DOMAIN inputs : \A n \in DOMAIN iterators[j] : Ahead(j, n) =>
           /\ iterators[j][n].key >= e.key
           /\ iterators[j][n].key = e.key => iterators[j][n].timestamp <= e.timestamp
  BY DEF PopsFrom
<1> SUFFICES ASSUME NEW j \in DOMAIN inputs, NEW n \in DOMAIN iterators[j], Ahead(j, n)'
             PROVE  /\ iterators[j][n].key >= e.key
                    /\ iterators[j][n].key = e.key =>
                         iterators[j][n].timestamp <= output'[Len(output')].timestamp
  BY <1>1 DEF AheadInv
<1>2. Ahead(j, n) /\ e.timestamp \in Nat
  BY PopFacts
<1>3. iterators[j][n].timestamp \in Nat
  BY LoadedFacts
<1>4. /\ output'[Len(output')].timestamp \in Nat
      /\ output'[Len(output')].timestamp >= e.timestamp
  BY PopLast
<1>5. QED
  BY <1>1, <1>2, <1>3, <1>4

LEMMA PopPassed ==
  ASSUME PathsType, Loaded, OutputInv, AheadInv, PassedInv, NEW e, NEW i, PopsFrom(e, i)
  PROVE  PassedInv'
<1>1. UNCHANGED <<inputs, iterators>>
  BY DEF PopsFrom
<1> SUFFICES ASSUME NEW j \in DOMAIN inputs, NEW n \in DOMAIN iterators[j], Passed(j, n)'
             PROVE  \E m \in DOMAIN output' :
                      /\ output'[m].key = iterators[j][n].key
                      /\ output'[m].timestamp >= iterators[j][n].timestamp
  BY <1>1 DEF PassedInv
<1>2. CASE Passed(j, n)
  <2>1. PICK m \in DOMAIN output : /\ output[m].key = iterators[j][n].key
                                   /\ output[m].timestamp >= iterators[j][n].timestamp
    BY <1>2 DEF PassedInv
  <2>2. QED
    BY <2>1, PopLast
<1>3. CASE j = i /\ n = positions[i]
  <2>1. e.key = iterators[j][n].key /\ e.timestamp = iterators[j][n].timestamp
    BY <1>3, PopFacts
  <2>2. QED
    BY <2>1, PopLast
<1>4. QED
  BY <1>2, <1>3, PopFacts

LEMMA PopWritten ==
  ASSUME PathsType, Loaded, OutputInv, AheadInv, WrittenInv, NEW e, NEW i, PopsFrom(e, i)
  PROVE  WrittenInv'
<1>1. UNCHANGED <<inputs, iterators>>
  BY DEF PopsFrom
<1> SUFFICES ASSUME NEW m \in DOMAIN output'
             PROVE  \E j \in DOMAIN inputs : \E n \in DOMAIN iterators[j] :
                      /\ Passed(j, n)'
                      /\ output'[m].key = iterators[j][n].key
                      /\ output'[m].timestamp = iterators[j][n].timestamp
  BY <1>1 DEF WrittenInv
<1>2. CASE m \in DOMAIN output
  <2>1. PICK j \in DOMAIN inputs : \E n \in DOMAIN iterators[j] :
          /\ Passed(j, n)
          /\ output[m].key = iterators[j][n].key
          /\ output[m].timestamp = iterators[j][n].timestamp
    BY <1>2 DEF WrittenInv
  <2>2. PICK n \in DOMAIN iterators[j] :
          /\ Passed(j, n)
          /\ output[m].key = iterators[j][n].key
          /\ output[m].timestamp = iterators[j][n].timestamp
    BY <2>1
  <2>3. output'[m] = output[m]
    BY <1>2, PopLast
  <2>4. Passed(j, n)'
    BY <2>2, PopFacts
  <2>5. QED
    BY <2>2, <2>3, <2>4
<1>3. CASE m \notin DOMAIN output
  <2>1. output' = Append(output, e)
    BY <1>3, PopOutput
  <2>2. output \in Outputs /\ e \in [key : Keys, timestamp : Nat, sstable_id : Nat]
    BY PopFacts DEF OutputInv, Outputs
  <2>3. output'[m] = e
    <3>1. /\ DOMAIN Append(output, e) = 1..(Len(output) + 1) /\ Len(output) \in Nat
          /\ DOMAIN output = 1..Len(output) /\ Append(output, e)[Len(output) + 1] = e
      BY <2>2, AppendFacts DEF Outputs
    <3>2. m = Len(output) + 1
      BY <1>3, <2>1, <3>1
    <3>3. QED
      BY <2>1, <3>1, <3>2
  <2>4. PICK p \in DOMAIN iterators[i] : p = positions[i]
    BY PopFacts
  <2>5. /\ i \in DOMAIN inputs /\ Passed(i, p)'
        /\ e.key = iterators[i][p].key /\ e.timestamp = iterators[i][p].timestamp
    BY <2>4, PopFacts
  <2>6. QED
    BY <2>3, <2>5
<1>4. QED
  BY <1>2, <1>3

LEMMA PopInv == ASSUME CompactionInv, Pop PROVE CompactionInv'
<1>1. phase = "merge" /\ "merge" # "select"
  BY DEF Pop
<1>2. PathsType /\ inputs = Selected /\ MergeInv
  BY <1>1 DEF CompactionInv
<1>3. PICK e \in heap : \E i \in DOMAIN inputs : PopsFrom(e, i)
  BY <1>2, PopShape DEF MergeInv
<1>4. PICK i \in DOMAIN inputs : PopsFrom(e, i)
  BY <1>3
<1>5. UNCHANGED <<paths, inputs, iterators, phase>>
  BY <1>4 DEF PopsFrom
<1>6. MergeInv'
  BY <1>2, <1>4, PopLoaded, PopHeap, PopOutput, PopAhead, PopPassed, PopWritten DEF MergeInv
<1>7. Selected' = Selected
  BY <1>5, SelectedStays
<1>8. phase' # "select" /\ phase' # "done"
  BY <1>1, <1>5
<1>9. QED
  BY <1>1, <1>2, <1>5, <1>6, <1>7, <1>8 DEF CompactionInv, PathsType

LEMMA UnchangedInv ==
  ASSUME CompactionInv, UNCHANGED <<paths, inputs, iterators, heap, positions, last_key, output>>,
         \/ phase' = phase
         \/ phase = "merge" /\ heap = {} /\ phase' = "done"
         \/ phase = "merge" /\ phase' = "failed"
  PROVE  CompactionInv'
<1>1. Selected' = Selected
  BY SelectedStays
<1>2. MergeInv => MergeInv'
  <2>1. (Loaded => Loaded') /\ (HeapInv => HeapInv')
    BY DEF Loaded, HeapInv, Exhausted
  <2>2. OutputInv => OutputInv'
    BY DEF OutputInv, WritesAscending
  <2>3. AheadInv => AheadInv'
    BY DEF AheadInv, Ahead
  <2>4. PassedInv => PassedInv'
    BY DEF PassedInv, Passed
  <2>5. WrittenInv => WrittenInv'
    BY DEF WrittenInv, Passed
  <2>6. QED
    BY <2>1, <2>2, <2>3, <2>4, <2>5 DEF MergeInv
<1>3. "merge" # "select" /\ "done" # "select" /\ "failed" # "select" /\ "failed" # "done"
  OBVIOUS
<1>4. QED
  BY <1>1, <1>2, <1>3 DEF CompactionInv, PathsType

LEMMA CompactionInitInv == CompactionInit => CompactionInv
BY DEF CompactionInit, CompactionInv, PathsType

LEMMA CompactionNextInv ==
  ASSUME NonEmptyFiles, CompactionInv, [CompactionNext]_cvars PROVE CompactionInv'
<1>1. CASE Select
  BY <1>1, SelectInv
<1>2. CASE Pop
  BY <1>2, PopInv
<1>3. CASE FinishMerge
  BY <1>3, UnchangedInv DEF FinishMerge
<1>4. CASE FailMerge
  BY <1>4, UnchangedInv DEF FailMerge
<1>5. CASE UNCHANGED cvars
  BY <1>5, UnchangedInv DEF cvars
<1>6. QED
  BY <1>1, <1>2, <1>3, <1>4, <1>5 DEF CompactionNext

LEMMA CompactionKeepsInv == NonEmptyFiles /\ CompactionSpec => []CompactionInv
<1>1. NonEmptyFiles /\ CompactionInv /\ [CompactionNext]_cvars => CompactionInv'
  BY CompactionNextInv
<1>2. NonEmptyFiles' <=> NonEmptyFiles
  BY DEF NonEmptyFiles, Scanned, Keys
<1>3. QED
  BY <1>1, <1>2, CompactionInitInv, PTL DEF CompactionSpec

------------------------------------------------------------------------------
(* What the merge has written in the end *)

Readable == {i \in {inputs[j] : j \in DOMAIN inputs} : paths[i].readable}

\* The timestamps of a key in the inputs
Times(k) == {paths[i].data[k] : i \in Readable} \ {0}

\* They are those of the entries that are merged.
LEMMA TimesAreEntries ==
  ASSUME PathsType, Loaded, NEW k \in Scanned, NEW t
  PROVE  t \in Times(k) <=>
           \E i \in DOMAIN inputs : \E n \in DOMAIN iterators[i] :
             iterators[i][n].key = k /\ iterators[i][n].timestamp = t
<1>1. ASSUME t \in Times(k)
      PROVE  \E i \in DOMAIN inputs : \E n \in DOMAIN iterators[i] :
               iterators[i][n].key = k /\ iterators[i][n].timestamp = t
  <2>1. PICK i \in DOMAIN inputs :
          paths[inputs[i]].readable /\ t = paths[inputs[i]].data[k] /\ t # 0
    BY <1>1 DEF Times, Readable
  <2>2. inputs[i] \in 1..NumFiles /\ iterators[i] = Iterator(paths[inputs[i]])
    BY LoadedFacts
  <2>3. PICK n \in DOMAIN iterators[i] : iterators[i][n].key = k
    BY <2>1, <2>2, PathFacts, IteratorShape
  <2>4. iterators[i][n].timestamp = t
    BY <2>1, <2>2, <2>3, PathFacts, IteratorShape
  <2>5. QED
    BY <2>3, <2>4
<1>2. ASSUME NEW i \in DOMAIN inputs, NEW n \in DOMAIN iterators[i],
             iterators[i][n].key = k, iterators[i][n].timestamp = t
      PROVE  t \in Times(k)
  <2>1. inputs[i] \in 1..NumFiles /\ iterators[i] = Iterator(paths[inputs[i]])
    BY LoadedFacts
  <2>2. paths[inputs[i]].readable /\ t = paths[inputs[i]].data[k] /\ t # 0
    BY <1>2, <2>1, PathFacts, IteratorShape
  <2>3. inputs[i] \in Readable
    BY <2>2 DEF Readable
  <2>4. QED
    BY <2>2, <2>3 DEF Times
<1>3. QED
  BY <1>1, <1>2

\* The latest of them
LEMMA TimesMax ==
  ASSUME PathsType, Loaded, NEW k \in Scanned, Times(k) # {}
  PROVE  /\ Times(k) \subseteq Nat
         /\ Max(Times(k)) \in Times(k) /\ \A t \in Times(k) : Max(Times(k)) >= t
<1> DEFINE f == [i \in Readable |-> paths[i].data[k]]
           T == {f[i] : i \in Readable}
<1>1. Readable \in SUBSET (1..NumFiles)
  BY LoadedFacts DEF Readable
<1>2. IsFiniteSet(Readable)
  <2>1. IsFiniteSet(1..NumFiles)
    BY CompactionAssumption, FS_Interval
  <2>2. QED
    BY <1>1, <2>1, FS_Subset
<1>3. IsFiniteSet(T)
  BY <1>2, FiniteImage
<1>4. \A i \in Readable : paths[i].data[k] \in Nat
  BY <1>1, PathFacts DEF Scanned
<1>5. Times(k) \in SUBSET T /\ Times(k) \subseteq Nat
  BY <1>4 DEF Times
<1>6. IsFiniteSet(Times(k))
  <2> HIDE DEF T
  <2>1. QED
    BY <1>3, <1>5, FS_Subset
<1>7. QED
  BY <1>5, <1>6, MaxType

LEMMA DoneKeepsNewest ==
  ASSUME CompactionInv, phase = "done" PROVE KeepsNewest
<1>1. PathsType /\ Loaded /\ HeapInv /\ OutputInv /\ PassedInv /\ WrittenInv /\ heap = {}
  BY DEF CompactionInv, MergeInv
<1>2. ASSUME NEW i \in DOMAIN inputs, NEW n \in DOMAIN iterators[i] PROVE Passed(i, n)
  <2>1. Exhausted(i)
    BY <1>1 DEF HeapInv
  <2>2. QED
    BY <1>1, <2>1, LoadedFacts DEF Exhausted, Passed
\* What is written is the latest of its key ...
<1>3. ASSUME NEW m \in DOMAIN output
      PROVE  /\ output[m].key \in Scanned /\ Times(output[m].key) # {}
             /\ output[m].timestamp = Max(Times(output[m].key))
  <2> DEFINE k == output[m].key
  <2>2. \E i \in DOMAIN inputs : \E n \in DOMAIN iterators[i] :
          iterators[i][n].key = k /\ iterators[i][n].timestamp = output[m].timestamp
    BY <1>1 DEF WrittenInv
  <2>1. k \in Scanned /\ k \in Nat /\ output[m].timestamp \in Nat
    BY <1>1, <2>2, OutputBelow, LoadedFacts DEF Keys
  <2>3. output[m].timestamp \in Times(k)
    BY <1>1, <2>1, <2>2, TimesAreEntries
  <2>4. ASSUME NEW t \in Times(k) PROVE output[m].timestamp >= t
    <3>1. PICK i \in DOMAIN inputs : \E n \in DOMAIN iterators[i] :
                 iterators[i][n].key = k /\ iterators[i][n].timestamp = t
      BY <1>1, <2>1, TimesAreEntries
    <3>2. PICK n \in DOMAIN iterators[i] : iterators[i][n].key = k /\ iterators[i][n].timestamp = t
      BY <3>1
    <3>3. PICK l \in DOMAIN output : output[l].key = k /\ output[l].timestamp >= t
      BY <1>1, <1>2, <3>2 DEF PassedInv
    <3>4. l = m
      <4>1. l \in Nat /\ m \in Nat
        BY <1>1, OutputBelow
      <4>2. ~(output[l].key < output[m].key) /\ ~(output[m].key < output[l].key)
        BY <2>1, <3>3
      <4>3. ~(l < m) /\ ~(m < l)
        BY <1>1, <4>2 DEF OutputInv, WritesAscending
      <4>4. QED
        BY <4>1, <4>3
    <3>5. QED
      BY <3>3, <3>4
  <2>5. /\ Times(k) \subseteq Nat /\ Max(Times(k)) \in Times(k)
        /\ \A t \in Times(k) : Max(Times(k)) >= t
    BY <1>1, <2>1, <2>3, TimesMax
  <2> HIDE DEF k
  <2>6. output[m].timestamp = Max(Times(k))
    <3>1. output[m].timestamp >= Max(Times(k)) /\ Max(Times(k)) >= output[m].timestamp
          /\ Max(Times(k)) \in Nat
      BY <2>3, <2>4, <2>5
    <3>2. QED
      BY <2>1, <3>1
  <2>7. QED
    BY <2>1, <2>3, <2>6 DEF k
\* ... and every key is written.
<1>4. ASSUME NEW k \in Scanned, Times(k) # {} PROVE \E m \in DOMAIN output : output[m].key = k
  <2>1. PICK t : t \in Times(k)
    BY <1>4
  <2>2. PICK i \in DOMAIN inputs : \E n \in DOMAIN iterators[i] : iterators[i][n].key = k
    BY <1>1, <2>1, TimesAreEntries
  <2>3. PICK n \in DOMAIN iterators[i] : iterators[i][n].key = k
    BY <2>2
  <2>4. QED
    BY <1>1, <1>2, <2>3 DEF PassedInv
<1> DEFINE written == {<<e.key, e.timestamp>> : e \in Range(output)}
           newest == {<<k, Max(Times(k))>> : k \in {k \in Scanned : Times(k) # {}}}
<1>5. written \subseteq newest
  <2> SUFFICES ASSUME NEW m \in DOMAIN output
               PROVE  <<output[m].key, output[m].timestamp>> \in newest
    BY DEF Range
  <2>1. QED
    BY <1>3
<1>6. newest \subseteq written
  <2> SUFFICES ASSUME NEW k \in Scanned, Times(k) # {} PROVE <<k, Max(Times(k))>> \in written
    OBVIOUS
  <2>1. PICK m \in DOMAIN output : output[m].key = k
    BY <1>4
  <2>2. output[m].timestamp = Max(Times(k)) /\ output[m] \in Range(output)
    BY <1>3, <2>1 DEF Range
  <2>3. QED
    BY <2>1, <2>2
<1>7. written = newest
  BY <1>5, <1>6
<1>8. QED
  BY Zenon, <1>7 DEF KeepsNewest, Times, Readable

------------------------------------------------------------------------------
(* The theorems *)

\* Every position and every number of an input in the heap is one the lists of the
\* merge have: the indexing of merge_sstables never fails.
THEOREM MergeIndexesAreValid == NonEmptyFiles /\ CompactionSpec => []CompactionTypeOK
<1>1. CompactionInv => CompactionTypeOK
  <2> SUFFICES ASSUME CompactionInv PROVE CompactionTypeOK
    OBVIOUS
  <2>1. CASE phase = "select"
    BY <2>1 DEF CompactionInv, CompactionTypeOK
  <2>2. CASE phase # "select"
    <3>1. PathsType /\ Loaded /\ HeapInv /\ OutputInv /\ phase \in {"select", "merge", "done", "failed"}
      BY <2>2 DEF CompactionInv, MergeInv
    <3>2. \A i \in DOMAIN inputs : inputs[i] \in 1..NumFiles
      BY <3>1, LoadedFacts
    <3>3. ASSUME NEW e \in heap
          PROVE  /\ e.sstable_id \in DOMAIN iterators
                 /\ positions[e.sstable_id] \in DOMAIN iterators[e.sstable_id]
                 /\ e = HeapEntry(iterators[e.sstable_id], positions[e.sstable_id], e.sstable_id)
      <4>1. PICK i \in DOMAIN inputs : ~Exhausted(i) /\ e = HeapEntry(iterators[i], positions[i], i)
        BY <3>1 DEF HeapInv
      <4>2. e.sstable_id = i
        BY <4>1 DEF HeapEntry
      <4>3. i \in DOMAIN iterators /\ positions[i] \in DOMAIN iterators[i]
        BY <3>1, <4>1, LoadedFacts DEF Loaded, Exhausted
      <4>4. QED
        BY <4>1, <4>2, <4>3
    <3>4. Len(positions) = Len(iterators)
      <4>1. DOMAIN inputs = 1..Len(inputs) /\ Len(inputs) \in Nat
        BY <3>1 DEF Loaded
      <4>2. DOMAIN iterators = 1..Len(inputs) /\ DOMAIN positions = 1..Len(inputs)
        BY <3>1, <4>1 DEF Loaded
      <4>3. QED
        BY <4>1, <4>2
    <3>5. last_key \in Keys \cup {0}
      BY <3>1 DEF OutputInv
    <3>6. QED
      BY Zenon, <3>1, <3>2, <3>3, <3>4, <3>5 DEF CompactionTypeOK
  <2>3. QED
    BY <2>1, <2>2
<1>2. QED
  BY <1>1, CompactionKeepsInv, PTL

\* The writer gets its keys in strictly ascending order, as its blocks and its index
\* require.
THEOREM OutputAscends == NonEmptyFiles /\ CompactionSpec => []WritesAscending
<1>1. CompactionInv => WritesAscending
  BY DEF CompactionInv, MergeInv, OutputInv, WritesAscending
<1>2. QED
  BY <1>1, CompactionKeepsInv, PTL

\* A merge writes every key that its scans come to once, with the newest of its versions.
THEOREM MergeKeepsNewest == NonEmptyFiles /\ CompactionSpec => []KeepsNewest
<1>1. CompactionInv => KeepsNewest
  BY DoneKeepsNewest DEF KeepsNewest
<1>2. QED
  BY <1>1, CompactionKeepsInv, PTL

\* The selected files are similar, at least as many as asked for, and no larger set of
\* files is so: that the candidates are only stretches of the order by size, each
\* compared with its first, loses nothing.
THEOREM SelectionIsLargest == CompactionSpec => []SelectsLargestGroup
<1> DEFINE Inv == PathsType /\ (phase # "select" => inputs = Selected)
<1>1. CompactionInit => Inv
  BY DEF CompactionInit, PathsType
<1>2. Inv /\ [CompactionNext]_cvars => Inv'
  <2> SUFFICES ASSUME Inv, [CompactionNext]_cvars PROVE Inv'
    OBVIOUS
  <2>1. paths' = paths
    BY DEF CompactionNext, Select, Pop, FinishMerge, FailMerge, cvars
  <2>2. Selected' = Selected
    BY <2>1, SelectedStays
  <2>3. CASE Select
    BY <2>1, <2>2, <2>3 DEF Select, PathsType
  <2>4. CASE ~Select
    <3>1. inputs' = inputs /\ (phase' # "select" => phase # "select")
      BY <2>4 DEF CompactionNext, Pop, FinishMerge, FailMerge, cvars
    <3>2. QED
      BY <2>1, <2>2, <3>1 DEF PathsType
  <2>5. QED
    BY <2>3, <2>4
<1>3. Inv => SelectsLargestGroup
  <2>1. CASE phase = "select"
    BY <2>1 DEF SelectsLargestGroup
  <2>2. CASE phase # "select"
    BY <2>2, LargestGroup
  <2>3. QED
    BY <2>1, <2>2
<1>4. QED
  BY <1>1, <1>2, <1>3, PTL DEF CompactionSpec

==============================================================================
