------------------------------ MODULE TableProofs ------------------------------
(* A flush loses nothing: what a memtable held is what the SSTable written from *)
(* it gives back, for all keys, sizes of values, blocks and filters, hash       *)
(* functions and compressed sizes.                                              *)
EXTENDS TableFlush, SetProofs, SequenceTheorems

------------------------------------------------------------------------------
(* Sequences *)

\* Two sequences of the same length with the same members are the same sequence.
LEMMA SameSeq ==
  ASSUME NEW S, NEW s \in Seq(S), NEW t \in Seq(S), Len(s) = Len(t),
         \A i \in 1..Len(s) : s[i] = t[i]
  PROVE  s = t
OBVIOUS

------------------------------------------------------------------------------
(* The order of keys *)

\* a and b agree up to n, and then a ends or has the smaller byte.
SmallerFrom(a, b, n) ==
  /\ n <= Len(a) /\ n < Len(b) /\ \A j \in 1..n : a[j] = b[j]
  /\ n = Len(a) \/ a[n + 1] < b[n + 1]

\* A prefix ends where the longer key goes on.
LEMMA PrefixMeans ==
  ASSUME NEW a \in Seq(Nat), NEW b \in Seq(Nat)
  PROVE  IsPrefix(a, b) /\ a # b <=> Len(a) < Len(b) /\ \A j \in 1..Len(a) : a[j] = b[j]
<1>1. CASE Len(a) <= Len(b)
  <2>1. SubSeq(a, 1, Len(a)) \in Seq(Nat) /\ SubSeq(b, 1, Len(a)) \in Seq(Nat)
    BY <1>1
  <2>2. Len(SubSeq(a, 1, Len(a))) = Len(a) /\ Len(SubSeq(b, 1, Len(a))) = Len(a)
    BY <1>1
  <2>3. \A j \in 1..Len(a) : /\ SubSeq(a, 1, Len(a))[j] = a[j]
                             /\ SubSeq(b, 1, Len(a))[j] = b[j]
    BY <1>1
  <2>4. SubSeq(a, 1, Len(a)) = SubSeq(b, 1, Len(a)) <=> \A j \in 1..Len(a) : a[j] = b[j]
    BY <2>1, <2>2, <2>3
  <2>5. Len(a) = Len(b) /\ (\A j \in 1..Len(a) : a[j] = b[j]) => a = b
    OBVIOUS
  <2>6. QED
    BY <1>1, <2>4, <2>5 DEF IsPrefix
<1>2. CASE Len(a) > Len(b)
  BY <1>2 DEF IsPrefix
<1>3. QED
  BY <1>1, <1>2

\* Less, the order in which Rust compares Vec<u8> keys, read as a first position of
\* difference or a proper prefix; this form is the one the order lemmas reason with.
LEMMA LessMeans ==
  ASSUME NEW a \in Seq(Nat), NEW b \in Seq(Nat)
  PROVE  Less(a, b) <=> \E n \in Nat : SmallerFrom(a, b, n)
<1>1. ASSUME Len(a) < Len(b), \A j \in 1..Len(a) : a[j] = b[j]
      PROVE  SmallerFrom(a, b, Len(a)) /\ Len(a) \in Nat
  BY <1>1 DEF SmallerFrom
<1>2. ASSUME NEW i \in 1..Len(a), i <= Len(b), a[i] < b[i], \A j \in 1..(i - 1) : a[j] = b[j]
      PROVE  SmallerFrom(a, b, i - 1) /\ i - 1 \in Nat
  BY <1>2 DEF SmallerFrom
<1>3. ASSUME NEW n \in Nat, SmallerFrom(a, b, n)
      PROVE  Less(a, b)
  <2>1. CASE n = Len(a)
    BY <1>3, <2>1, PrefixMeans DEF SmallerFrom, Less
  <2>2. CASE n # Len(a)
    <3>1. n + 1 \in 1..Len(a) /\ n + 1 <= Len(b) /\ a[n + 1] < b[n + 1] /\ (n + 1) - 1 = n
      BY <1>3, <2>2 DEF SmallerFrom
    <3>2. QED
      BY <1>3, <3>1 DEF SmallerFrom, Less
  <2>3. QED
    BY <2>1, <2>2
<1>4. QED
  BY <1>1, <1>2, <1>3, PrefixMeans DEF Less

\* Of two keys one is less, and not both are.
LEMMA LessTotal ==
  ASSUME NEW a \in Seq(Nat), NEW b \in Seq(Nat), a # b
  PROVE  Less(a, b) \/ Less(b, a)
<1> DEFINE D == {i \in 1..Len(a) : i <= Len(b) /\ a[i] # b[i]}
<1>1. CASE D = {}
  <2>1. \A i \in 1..Len(a) : i <= Len(b) => a[i] = b[i]
    BY <1>1
  <2>2. Len(a) # Len(b)
    BY <2>1, SameSeq
  <2>3. CASE Len(a) < Len(b)
    <3>1. SmallerFrom(a, b, Len(a)) /\ Len(a) \in Nat
      BY <2>1, <2>3 DEF SmallerFrom
    <3>2. QED
      BY <3>1, LessMeans
  <2>4. CASE Len(b) < Len(a)
    <3>1. SmallerFrom(b, a, Len(b)) /\ Len(b) \in Nat
      BY <2>1, <2>4 DEF SmallerFrom
    <3>2. QED
      BY <3>1, LessMeans
  <2>5. QED
    BY <2>2, <2>3, <2>4
<1>2. CASE D # {}
  <2>1. IsFiniteSet(1..Len(a))
    BY FS_Interval
  <2>2. IsFiniteSet(D) /\ D \subseteq Nat
    BY <2>1, FS_Subset
  <2>3. PICK i \in D : \A j \in D : i <= j
    <3> HIDE DEF D
    <3>1. QED
      BY <1>2, <2>2, FiniteNatMin
  <2>4. i \in 1..Len(a) /\ i \in 1..Len(b) /\ a[i] # b[i] /\ a[i] \in Nat /\ b[i] \in Nat
    OBVIOUS
  <2>5. ASSUME NEW j \in 1..(i - 1) PROVE a[j] = b[j]
    <3>1. j \in 1..Len(a) /\ j <= Len(b) /\ ~(i <= j)
      BY <2>4
    <3>2. j \notin D
      BY <2>3, <3>1
    <3>3. QED
      BY <3>1, <3>2
  <2>6. SmallerFrom(a, b, i - 1) \/ SmallerFrom(b, a, i - 1)
    BY <2>4, <2>5 DEF SmallerFrom
  <2>7. QED
    BY <2>4, <2>6, LessMeans
<1>3. QED
  BY <1>1, <1>2

\* No key is before itself or before one that is before it.
LEMMA LessAsymmetric ==
  ASSUME NEW a \in Seq(Nat), NEW b \in Seq(Nat), Less(a, b)
  PROVE  ~Less(b, a) /\ a # b
<1>1. PICK n \in Nat : SmallerFrom(a, b, n)
  BY LessMeans
<1>2. ASSUME NEW m \in Nat, SmallerFrom(b, a, m) PROVE FALSE
  <2>1. CASE m < n
    <3>1. m + 1 \in 1..n /\ a[m + 1] \in Nat
      BY <1>1, <2>1 DEF SmallerFrom
    <3>2. QED
      BY <1>1, <1>2, <2>1, <3>1 DEF SmallerFrom
  <2>2. CASE n < m
    <3>1. n + 1 \in 1..m /\ b[n + 1] \in Nat
      BY <1>2, <2>2 DEF SmallerFrom
    <3>2. QED
      BY <1>1, <1>2, <2>2, <3>1 DEF SmallerFrom
  <2>3. CASE n = m
    <3>1. n < Len(a) /\ n < Len(b) /\ a[n + 1] \in Nat /\ b[n + 1] \in Nat
      BY <1>1, <1>2, <2>3 DEF SmallerFrom
    <3>2. QED
      BY <1>1, <1>2, <2>3, <3>1 DEF SmallerFrom
  <2>4. QED
    BY <2>1, <2>2, <2>3
<1>3. ~Less(b, a)
  BY <1>2, LessMeans
<1>4. QED
  BY <1>3

\* The order of keys is transitive, so that a search may skip whole blocks.
LEMMA LessTransitive ==
  ASSUME NEW a \in Seq(Nat), NEW b \in Seq(Nat), NEW c \in Seq(Nat), Less(a, b), Less(b, c)
  PROVE  Less(a, c)
<1>1. PICK n \in Nat : SmallerFrom(a, b, n)
  BY LessMeans
<1>2. PICK m \in Nat : SmallerFrom(b, c, m)
  BY LessMeans
<1>3. CASE m < n
  <2>1. m + 1 \in 1..n /\ a[m + 1] = b[m + 1]
    BY <1>1, <1>3 DEF SmallerFrom
  <2>2. SmallerFrom(a, c, m)
    BY <1>1, <1>2, <1>3, <2>1 DEF SmallerFrom
  <2>3. QED
    BY <2>2, LessMeans
<1>4. CASE n < m
  <2>1. n + 1 \in 1..m /\ b[n + 1] = c[n + 1]
    BY <1>2, <1>4 DEF SmallerFrom
  <2>2. SmallerFrom(a, c, n)
    BY <1>1, <1>2, <1>4, <2>1 DEF SmallerFrom
  <2>3. QED
    BY <2>2, LessMeans
<1>5. CASE n = m
  <2>1. n < Len(b) /\ b[n + 1] < c[n + 1] /\ b[n + 1] \in Nat /\ n < Len(c) /\ c[n + 1] \in Nat
    BY <1>1, <1>2, <1>5 DEF SmallerFrom
  <2>2. n < Len(a) => a[n + 1] \in Nat
    OBVIOUS
  <2>3. SmallerFrom(a, c, n)
    BY <1>1, <1>2, <1>5, <2>1, <2>2 DEF SmallerFrom
  <2>4. QED
    BY <2>3, LessMeans
<1>6. QED
  BY <1>3, <1>4, <1>5

\* Below the third, if below or at the second
LEMMA AtMostLess ==
  ASSUME NEW a \in Seq(Nat), NEW b \in Seq(Nat), NEW c \in Seq(Nat)
  PROVE  /\ AtMost(a, b) \/ Less(b, a)
         /\ AtMost(a, b) => ~Less(b, a)
         /\ AtMost(a, b) /\ Less(b, c) => Less(a, c)
         /\ Less(a, b) /\ AtMost(b, c) => Less(a, c)
         /\ AtMost(a, b) /\ AtMost(b, c) => AtMost(a, c)
         /\ ~Less(a, a)
BY LessTotal, LessAsymmetric, LessTransitive DEF AtMost

\* Ascending(set) has each key of the set, in their order.
LEMMA AscendingShape ==
  ASSUME NEW S, IsFiniteSet(S), S \subseteq Seq(Nat)
  PROVE  LET s == Ascending(S) IN
         /\ Cardinality(S) \in Nat
         /\ s \in [1..Cardinality(S) -> S]
         /\ \A i, j \in 1..Cardinality(S) : i < j => Less(s[i], s[j])
         /\ \A k \in S : \E i \in 1..Cardinality(S) : s[i] = k
<1> DEFINE s == Ascending(S)
           n == Cardinality(S)
           before == [k \in S |-> {j \in S : AtMost(j, k)}]
<1>1. n \in Nat
  BY FS_CardinalityType
<1>2. before \in [S -> SUBSET S] /\ \A k \in S : before[k] = {j \in S : AtMost(j, k)}
  OBVIOUS
<1>3. \A i \in S : i \in before[i]
  BY DEF AtMost
<1>4. ASSUME NEW i \in S, NEW j \in S, i # j PROVE i \in before[j] <=> j \notin before[i]
  BY <1>2, <1>4, LessTotal, LessAsymmetric DEF AtMost
<1>5. ASSUME NEW i \in S, NEW j \in S, i \in before[j] PROVE before[i] \subseteq before[j]
  BY <1>2, <1>5, AtMostLess
<1>6. /\ \A i \in S : Cardinality(before[i]) \in 1..n
      /\ \A i, j \in S : i \in before[j] <=> Cardinality(before[i]) <= Cardinality(before[j])
      /\ \A m \in 1..n : \E i \in S : Cardinality(before[i]) = m
  <2> HIDE DEF before
  <2>1. QED
    BY <1>2, <1>3, <1>4, <1>5, Ranking
<1>7. \A k \in S : before[k] = {j \in S : AtMost(j, k)}
  OBVIOUS
<1>8. ASSUME NEW i \in 1..n PROVE s[i] \in S /\ Cardinality(before[s[i]]) = i
  <2>1. PICK k \in S : Cardinality(before[k]) = i
    BY <1>6
  <2>2. s[i] = CHOOSE j \in S : Cardinality({h \in S : AtMost(h, j)}) = i
    BY DEF Ascending
  <2>3. s[i] \in S /\ Cardinality({h \in S : AtMost(h, s[i])}) = i
    <3> HIDE DEF s
    <3>1. Cardinality({h \in S : AtMost(h, k)}) = i
      BY <1>7, <2>1
    <3>2. QED
      BY <2>2, <3>1
  <2>4. QED
    BY <1>7, <2>3
<1>9. s \in [1..n -> S]
  <2>1. s = [i \in 1..n |-> CHOOSE k \in S : Cardinality({j \in S : AtMost(j, k)}) = i]
    BY Zenon DEF Ascending
  <2>2. s = [i \in 1..n |-> s[i]]
    BY <2>1, Zenon
  <2>3. QED
    <3> HIDE DEF s
    <3>1. QED
      BY <1>8, <2>2
<1>10. ASSUME NEW i \in 1..n, NEW j \in 1..n, i < j PROVE Less(s[i], s[j])
  <2> HIDE DEF s, before
  <2>0. i \in Nat /\ j \in Nat
    BY <1>1
  <2>1. Cardinality(before[s[i]]) < Cardinality(before[s[j]])
          /\ Cardinality(before[s[i]]) <= Cardinality(before[s[j]])
    BY <1>8, <1>10, <2>0
  <2>2. s[i] \in S /\ s[j] \in S
    BY <1>8
  <2>3. s[i] \in before[s[j]]
    <3>1. \A x, y \in S : Cardinality(before[x]) <= Cardinality(before[y]) => x \in before[y]
      BY <1>6
    <3>2. QED
      BY <2>1, <2>2, <3>1, Zenon
  <2>4. s[i] # s[j]
    <3> SUFFICES ASSUME s[i] = s[j] PROVE i = j
      BY <1>10, <2>0
    <3>1. Cardinality(before[s[i]]) = i /\ Cardinality(before[s[j]]) = j
      BY <1>8
    <3>2. QED
      BY <3>1
  <2>5. QED
    BY <1>2, <2>2, <2>3, <2>4 DEF AtMost
<1>11. ASSUME NEW k \in S PROVE \E i \in 1..n : s[i] = k
  <2> DEFINE i == Cardinality(before[k])
  <2> HIDE DEF s, before
  <2>1. i \in 1..n
    BY <1>6
  <2>2. s[i] \in S /\ Cardinality(before[s[i]]) = i
    BY <1>8, <2>1
  <2>3. s[i] \in before[k] /\ k \in before[s[i]]
    BY <1>6, <2>1, <2>2
  <2>4. s[i] = k
    BY <1>4, <2>2, <2>3
  <2>5. QED
    BY <2>1, <2>4
<1>12. QED
  BY <1>1, <1>9, <1>10, <1>11

\* Of the positions in an interval the i-th is the i-th from its start.
LEMMA AtInterval ==
  ASSUME NEW T, NEW s \in Seq(T), NEW a \in Nat \ {0}, NEW b \in Nat,
         a <= b + 1, b <= Len(s)
  PROVE  At(s, a..b) = SubSeq(s, a, b)
<1>1. ASSUME NEW p \in Nat, a <= p + 1 PROVE Cardinality(a..p) = p - a + 1
  <2>1. a \in Int /\ p \in Int /\ (a > p => p - a + 1 = 0)
    BY <1>1
  <2>2. Cardinality(a..p) = IF a > p THEN 0 ELSE p - a + 1
    BY <2>1, FS_Interval
  <2>3. QED
    BY <2>1, <2>2
<1> DEFINE Rank(p) == Cardinality({q \in a..b : q <= p})
<1>2. ASSUME NEW p \in a..b PROVE Rank(p) = p - a + 1 /\ p \in Nat
  <2>1. {q \in a..b : q <= p} = a..p /\ p \in Nat /\ a <= p + 1
    OBVIOUS
  <2>2. QED
    BY <1>1, <2>1
<1>3. ASSUME NEW i \in 1..(b - a + 1)
      PROVE  (CHOOSE p \in a..b : Rank(p) = i) = a + i - 1
  <2> DEFINE m == a + i - 1
  <2> HIDE DEF Rank
  <2>1. m \in a..b /\ m - a + 1 = i
    OBVIOUS
  <2>2. Rank(m) = i
    <3> HIDE DEF m
    <3>1. QED
      BY <1>2, <2>1
  <2>3. ASSUME NEW p \in a..b, Rank(p) = i PROVE p = m
    BY <1>2, <2>3
  <2>4. m \in a..b /\ Rank(m) = i /\ \A p \in a..b : Rank(p) = i => p = m
    <3> HIDE DEF m
    <3>1. QED
      BY <2>1, <2>2, <2>3
  <2> HIDE DEF m
  <2>5. (CHOOSE p \in a..b : Rank(p) = i) = m
    BY <2>4
  <2>6. QED
    BY <2>5 DEF m
<1>4. At(s, a..b) = [i \in 1..(b - a + 1) |-> s[a + i - 1]]
  <2>1. Cardinality(a..b) = b - a + 1
    BY <1>1
  <2>2. At(s, a..b) = [i \in 1..(b - a + 1) |-> s[CHOOSE p \in a..b : Rank(p) = i]]
    BY <2>1, Zenon DEF At
  <2> HIDE DEF Rank
  <2>3. QED
    BY <1>3, <2>2
<1>5. QED
  BY <1>4

\* A sum of numbers is a number.
LEMMA TotalNat ==
  ASSUME NEW numbers \in Seq(Nat)
  PROVE  Total(numbers) \in Nat
<1> DEFINE n == Len(numbers)
           Sums(f, m) == f = [i \in 0..m |-> IF i = 0 THEN 0 ELSE f[i - 1] + numbers[i]]
           Summed == {m \in 0..n : \E f : Sums(f, m)}
<1>1. 0 \in Summed
  <2> DEFINE f == [i \in 0..0 |-> 0]
  <2>1. Sums(f, 0)
    OBVIOUS
  <2>2. 0 \in 0..n
    OBVIOUS
  <2> HIDE DEF Sums, n
  <2>3. QED
    BY <2>1, <2>2
<1>2. ASSUME NEW m \in 1..n, m - 1 \in Summed PROVE m \in Summed
  <2>1. PICK f : Sums(f, m - 1)
    BY <1>2
  <2>2. \A i \in 0..(m - 1) : f[i] = IF i = 0 THEN 0 ELSE f[i - 1] + numbers[i]
    BY <2>1
  <2> DEFINE g == [i \in 0..m |-> IF i = m THEN f[m - 1] + numbers[m] ELSE f[i]]
  <2>3. ASSUME NEW i \in 0..m PROVE g[i] = IF i = 0 THEN 0 ELSE g[i - 1] + numbers[i]
    BY <2>2
  <2>4. Sums(g, m)
    BY <2>3
  <2>5. m \in 0..n
    OBVIOUS
  <2> HIDE DEF Sums, g, n
  <2>6. QED
    BY <2>4, <2>5
<1>3. \E f : Sums(f, n)
  <2> HIDE DEF Sums
  <2>1. n \in Nat
    OBVIOUS
  <2> HIDE DEF n
  <2>2. \A m \in 0..n : m \in Summed
    <3> HIDE DEF Summed
    <3>1. QED
      BY <1>1, <1>2, <2>1, Upward
  <2>3. QED
    BY <2>1, <2>2
<1> DEFINE sums == CHOOSE f : Sums(f, n)
<1>4. Total(numbers) = sums[n]
  BY Zenon DEF Total
<1>5. Sums(sums, n)
  <2> HIDE DEF Sums
  <2>1. QED
    BY <1>3
<1>6. \A i \in 0..n : sums[i] = IF i = 0 THEN 0 ELSE sums[i - 1] + numbers[i]
  <2> HIDE DEF sums
  <2>1. QED
    BY <1>5
<1> HIDE DEF sums
<1> DEFINE Good == {i \in 0..n : sums[i] \in Nat}
<1>7. 0 \in Good
  BY <1>6
<1>8. ASSUME NEW i \in 1..n, i - 1 \in Good PROVE i \in Good
  <2>1. sums[i - 1] \in Nat /\ numbers[i] \in Nat /\ i \in 0..n /\ i # 0
    BY <1>8
  <2>2. QED
    BY <1>6, <2>1
<1>9. n \in Nat /\ \A i \in 0..n : i \in Good
  <2>1. n \in Nat
    OBVIOUS
  <2> HIDE DEF Good, n
  <2>2. QED
    BY <1>7, <1>8, <2>1, Upward
<1>10. QED
  BY <1>4, <1>9

------------------------------------------------------------------------------
(* Varints *)

\* The 7 low bits of a number and the rest, which encode_varint shifts right: the rest
\* is smaller, which is why its loop ends.
LEMMA DivideBy128 ==
  ASSUME NEW n \in Nat
  PROVE  /\ n \div 128 \in Nat /\ n % 128 \in 0..127
         /\ n = (n % 128) + 128 * (n \div 128)
         /\ n < 128 => n % 128 = n
         /\ n >= 128 => n \div 128 <= n - 1
OBVIOUS

\* The recursive definition of EncodeVarint has a solution.
LEMMA VarintRule ==
  ASSUME NEW n \in Nat
  PROVE  EncodeVarint[n] = IF n < 128 THEN <<n>>
                           ELSE <<128 + (n % 128)>> \o EncodeVarint[n \div 128]
<1> DEFINE Rule(f, m) == f[m] = IF m < 128 THEN <<m>> ELSE <<128 + (m % 128)>> \o f[m \div 128]
           Upto(f, top) == \A m \in 0..top : Rule(f, m)
           Solved == {top \in Nat : \E f : Upto(f, top)}
<1>1. ASSUME NEW top \in Nat, \A m \in 0..(top - 1) : m \in Solved PROVE top \in Solved
  <2>1. CASE top = 0
    <3> DEFINE f == [m \in 0..0 |-> <<m>>]
    <3>1. Upto(f, top)
      BY <2>1
    <3> HIDE DEF Upto, f
    <3>2. QED
      BY <3>1
  <2>2. CASE top # 0
    <3>1. top - 1 \in 0..(top - 1)
      BY <2>2
    <3>2. PICK f : Upto(f, top - 1)
      BY <1>1, <3>1
    <3> DEFINE g == [m \in 0..top |-> IF m < top THEN f[m]
                      ELSE IF m < 128 THEN <<m>> ELSE <<128 + (m % 128)>> \o f[m \div 128]]
    <3>3. ASSUME NEW m \in 0..top PROVE Rule(g, m)
      <4>1. m \in Nat /\ (m >= 128 => m \div 128 \in 0..(top - 1))
        BY DivideBy128
      <4>2. m >= 128 => g[m \div 128] = f[m \div 128]
        BY <4>1
      <4>3. CASE m < top
        <5>1. m \in 0..(top - 1) /\ g[m] = f[m]
          BY <4>3
        <5>2. Rule(f, m)
          BY <3>2, <5>1
        <5> HIDE DEF g
        <5>3. QED
          BY <4>1, <4>2, <5>1, <5>2
      <4>4. CASE m = top
        <5>1. g[m] = IF m < 128 THEN <<m>> ELSE <<128 + (m % 128)>> \o f[m \div 128]
          BY <4>4
        <5> HIDE DEF g
        <5>2. QED
          BY <4>1, <4>2, <5>1
      <4>5. QED
        BY <4>3, <4>4
    <3>4. Upto(g, top)
      BY <3>3
    <3> HIDE DEF Upto, g
    <3>5. QED
      BY <3>4
  <2>3. QED
    BY <2>1, <2>2
<1>2. \A top \in Nat : \E f : Upto(f, top)
  <2>1. \A top \in Nat : top \in Solved
    <3> HIDE DEF Solved
    <3>1. QED
      BY <1>1, FromSmaller
  <2> HIDE DEF Upto
  <2>2. QED
    BY <2>1
<1>3. ASSUME NEW top \in Nat, NEW high \in Nat, top <= high, NEW f, Upto(f, top), NEW g, Upto(g, high)
      PROVE  f[top] = g[top]
  <2> DEFINE Same == {m \in Nat : m <= top => f[m] = g[m]}
  <2>1. ASSUME NEW m \in Nat, \A i \in 0..(m - 1) : i \in Same PROVE m \in Same
    <3>1. SUFFICES ASSUME m <= top PROVE f[m] = g[m]
      OBVIOUS
    <3>2. m \in 0..top /\ m \in 0..high
      BY <1>3, <3>1
    <3>3. Rule(f, m) /\ Rule(g, m)
      BY <1>3, <3>2
    <3>4. m >= 128 => f[m \div 128] = g[m \div 128]
      <4>1. SUFFICES ASSUME m >= 128 PROVE f[m \div 128] = g[m \div 128]
        OBVIOUS
      <4>2. m \div 128 \in 0..(m - 1) /\ m \div 128 <= top
        BY <3>1, <4>1, DivideBy128
      <4>3. m \div 128 \in Same
        BY <2>1, <4>2
      <4>4. QED
        BY <4>2, <4>3
    <3>5. QED
      BY <3>3, <3>4
  <2>2. \A m \in Nat : m \in Same
    <3> HIDE DEF Same
    <3>1. QED
      BY <2>1, FromSmaller
  <2>3. QED
    BY <2>2
<1> DEFINE chosen == [top \in Nat |-> CHOOSE f : Upto(f, top)]
           F == [m \in Nat |-> chosen[m][m]]
<1>4. ASSUME NEW m \in Nat PROVE Upto(chosen[m], m)
  <2> HIDE DEF Upto
  <2>1. chosen[m] = CHOOSE f : Upto(f, m)
    OBVIOUS
  <2>2. QED
    BY <1>2, <2>1
<1> HIDE DEF chosen
<1>5. ASSUME NEW m \in Nat PROVE Rule(F, m)
  <2>1. Rule(chosen[m], m)
    BY <1>4
  <2>2. F[m] = chosen[m][m]
    OBVIOUS
  <2>3. m >= 128 => F[m \div 128] = chosen[m][m \div 128]
    <3>1. SUFFICES ASSUME m >= 128 PROVE F[m \div 128] = chosen[m][m \div 128]
      OBVIOUS
    <3> DEFINE d == m \div 128
    <3>2. d \in Nat /\ d <= m
      BY <3>1, DivideBy128
    <3>3. Upto(chosen[d], d) /\ Upto(chosen[m], m) /\ F[d] = chosen[d][d]
      <4> HIDE DEF Upto, d
      <4>1. QED
        BY <1>4, <3>2
    <3>4. chosen[d][d] = chosen[m][d]
      <4> HIDE DEF Upto, d
      <4>1. QED
        BY <1>3, <3>2, <3>3
    <3>5. QED
      BY <3>3, <3>4
  <2> HIDE DEF F
  <2>4. QED
    BY <2>1, <2>2, <2>3
<1>6. F = [m \in Nat |-> IF m < 128 THEN <<m>> ELSE <<128 + (m % 128)>> \o F[m \div 128]]
  <2>1. F = [m \in Nat |-> F[m]]
    OBVIOUS
  <2> HIDE DEF F
  <2>2. QED
    BY <1>5, <2>1
<1>7. EncodeVarint = [m \in Nat |-> IF m < 128 THEN <<m>>
                                    ELSE <<128 + (m % 128)>> \o EncodeVarint[m \div 128]]
  <2> HIDE DEF F
  <2>1. QED
    BY <1>6, Zenon DEF EncodeVarint
<1>8. QED
  <2> DEFINE E == EncodeVarint
  <2>1. E = [m \in Nat |-> IF m < 128 THEN <<m>> ELSE <<128 + (m % 128)>> \o E[m \div 128]]
    BY <1>7
  <2> HIDE DEF E
  <2>2. E[n] = IF n < 128 THEN <<n>> ELSE <<128 + (n % 128)>> \o E[n \div 128]
    BY <2>1
  <2>3. QED
    BY <2>2 DEF E

\* v are the values of the number read backwards from the used-th byte.
Values(v, bytes, used) ==
  v = [i \in 1..used |-> (bytes[i] % 128) + (IF i = used THEN 0 ELSE 128 * v[i + 1])]

\* The first used bytes are a varint, of the number n.
Reads(bytes, used, n) ==
  /\ used \in 1..Len(bytes) /\ bytes[used] < 128
  /\ \A i \in 1..(used - 1) : bytes[i] >= 128
  /\ \E v : Values(v, bytes, used) /\ v[1] = n

\* Then decode_varint finds it.
LEMMA ReadsDecodes ==
  ASSUME NEW bytes \in Seq(Nat), NEW used \in Nat, NEW n, Reads(bytes, used, n),
         used <= MaxVarint
  PROVE  DecodeVarint(bytes) = [used |-> used, value |-> n]
<1> DEFINE ends == {i \in DOMAIN bytes : bytes[i] < 128 /\ i <= MaxVarint}
           V == CHOOSE v : Values(v, bytes, used)
<1>1. used \in 1..Len(bytes) /\ bytes[used] < 128 /\ \A i \in 1..(used - 1) : bytes[i] >= 128
  BY DEF Reads
<1>2. used \in ends /\ \A i \in ends : used <= i
  <2>1. used \in ends
    BY <1>1
  <2>2. ASSUME NEW i \in ends, i < used PROVE FALSE
    <3>1. i \in 1..(used - 1) /\ bytes[i] < 128 /\ bytes[i] \in Nat
      BY <1>1, <2>2
    <3>2. QED
      BY <1>1, <3>1
  <2>3. \A i \in ends : i \in Nat
    OBVIOUS
  <2>4. QED
    BY <2>1, <2>2, <2>3
<1>3. ends # {} /\ Min(ends) = used
  <2>1. \A i \in ends : i \in Nat
    OBVIOUS
  <2>2. Min(ends) = CHOOSE x \in ends : \A y \in ends : x <= y
    BY Zenon DEF Min
  <2> HIDE DEF ends
  <2>3. \A x \in ends : (\A y \in ends : x <= y) => x = used
    BY <1>2, <2>1
  <2>4. QED
    BY <1>2, <2>2, <2>3
<1>4. DecodeVarint(bytes) = [used |-> used, value |-> V[1]]
  <2> DEFINE u == IF ends = {} THEN 0 ELSE Min(ends)
  <2>1. DecodeVarint(bytes) =
          [used |-> u, value |-> IF u = 0 THEN 0 ELSE (CHOOSE v : Values(v, bytes, u))[1]]
    BY Zenon DEF DecodeVarint, Values
  <2>2. u = used
    BY <1>3
  <2> HIDE DEF u
  <2>3. DecodeVarint(bytes) = [used |-> used, value |-> IF used = 0 THEN 0 ELSE V[1]]
    BY <2>1, <2>2
  <2> HIDE DEF V
  <2>4. QED
    BY <1>1, <2>3
<1>5. PICK w : Values(w, bytes, used) /\ w[1] = n
  BY DEF Reads
<1>6. Values(V, bytes, used)
  BY <1>5
<1> HIDE DEF V
<1> DEFINE Same == {i \in 1..used : V[i] = w[i]}
<1>7. \A i \in 1..used :
        /\ V[i] = (bytes[i] % 128) + (IF i = used THEN 0 ELSE 128 * V[i + 1])
        /\ w[i] = (bytes[i] % 128) + (IF i = used THEN 0 ELSE 128 * w[i + 1])
  BY <1>5, <1>6 DEF Values
<1>8. used \in Same
  BY <1>1, <1>7
<1>9. ASSUME NEW i \in 1..(used - 1), i + 1 \in Same PROVE i \in Same
  <2>1. i \in 1..used /\ i # used /\ V[i + 1] = w[i + 1]
    BY <1>9
  <2>2. QED
    BY <1>7, <2>1
<1>10. 1 \in Same
  <2>1. 1 \in 1..used
    BY <1>1
  <2> HIDE DEF Same
  <2>2. QED
    BY <1>8, <1>9, <2>1, Downward
<1>11. QED
  BY <1>4, <1>5, <1>10

\* A byte with the continuation bit in front of a varint
LEMMA ReadsMore ==
  ASSUME NEW bytes \in Seq(Nat), NEW used \in Nat, NEW n \in Nat, Reads(bytes, used, n),
         NEW c \in 0..127
  PROVE  Reads(<<128 + c>> \o bytes, used + 1, c + 128 * n)
<1> DEFINE more == <<128 + c>> \o bytes
<1>1. used \in 1..Len(bytes) /\ bytes[used] < 128 /\ \A i \in 1..(used - 1) : bytes[i] >= 128
  BY DEF Reads
<1>2. PICK v : Values(v, bytes, used) /\ v[1] = n
  BY DEF Reads
<1>3. \A i \in 1..used :
        v[i] = (bytes[i] % 128) + (IF i = used THEN 0 ELSE 128 * v[i + 1])
  BY <1>2 DEF Values
<1> DEFINE w == [i \in 1..(used + 1) |-> IF i = 1 THEN c + 128 * n ELSE v[i - 1]]
<1>4. Len(more) = Len(bytes) + 1 /\ more[1] = 128 + c
        /\ \A i \in 2..(Len(bytes) + 1) : more[i] = bytes[i - 1]
  OBVIOUS
<1> HIDE DEF more
<1>5. ASSUME NEW i \in 1..(used + 1)
      PROVE  w[i] = (more[i] % 128) + (IF i = used + 1 THEN 0 ELSE 128 * w[i + 1])
  <2>1. CASE i = 1
    <3>1. w[1] = c + 128 * n /\ w[2] = v[1] /\ 1 # used + 1
      BY <1>1
    <3>2. more[1] % 128 = c
      <4>1. (128 + c) % 128 = c
        OBVIOUS
      <4>2. QED
        BY <1>4, <4>1
    <3>3. QED
      BY <1>2, <2>1, <3>1, <3>2
  <2>2. CASE i # 1
    <3>1. i - 1 \in 1..used /\ more[i] = bytes[i - 1] /\ w[i] = v[i - 1]
      BY <1>1, <1>4, <2>2
    <3>2. i # used + 1 => w[i + 1] = v[i] /\ (i - 1) + 1 = i
      BY <2>2
    <3>3. i - 1 = used <=> i = used + 1
      OBVIOUS
    <3> HIDE DEF w
    <3>4. QED
      BY <1>3, <3>1, <3>2, <3>3
  <2>3. QED
    BY <2>1, <2>2
<1>6. Values(w, more, used + 1) /\ w[1] = c + 128 * n
  <2>1. w = [i \in 1..(used + 1) |-> w[i]] /\ w[1] = c + 128 * n
    OBVIOUS
  <2> HIDE DEF w
  <2>2. QED
    BY <1>5, <2>1 DEF Values
<1>7. \A i \in 1..used : more[i] >= 128
  <2>1. ASSUME NEW i \in 1..used PROVE more[i] >= 128
    <3>1. CASE i = 1
      BY <1>4, <3>1
    <3>2. CASE i # 1
      <4>1. i - 1 \in 1..(used - 1) /\ more[i] = bytes[i - 1]
        BY <1>1, <1>4, <3>2
      <4>2. QED
        BY <1>1, <4>1
    <3>3. QED
      BY <3>1, <3>2
  <2>2. QED
    BY <2>1
<1>8. used + 1 \in 1..Len(more) /\ more[used + 1] < 128
  BY <1>1, <1>4
<1> HIDE DEF w
<1>9. Reads(more, used + 1, c + 128 * n)
  BY <1>6, <1>7, <1>8 DEF Reads
<1>10. QED
  BY <1>9 DEF more

\* What encode_varint writes, decode_varint reads, whatever follows.
LEMMA VarintReads ==
  ASSUME NEW n \in Nat
  PROVE  /\ EncodeVarint[n] \in Seq(Nat) /\ Len(EncodeVarint[n]) >= 1
         /\ \A t \in Seq(Nat) : Reads(EncodeVarint[n] \o t, Len(EncodeVarint[n]), n)
<1> DEFINE Good(m) ==
             /\ EncodeVarint[m] \in Seq(Nat) /\ Len(EncodeVarint[m]) >= 1
             /\ \A t \in Seq(Nat) : Reads(EncodeVarint[m] \o t, Len(EncodeVarint[m]), m)
           Fine == {m \in Nat : Good(m)}
<1>1. ASSUME NEW m \in Nat, m < 128 PROVE Good(m)
  <2>1. EncodeVarint[m] = <<m>>
    BY <1>1, VarintRule
  <2>2. ASSUME NEW t \in Seq(Nat) PROVE Reads(<<m>> \o t, 1, m)
    <3> DEFINE bytes == <<m>> \o t
               v == [i \in 1..1 |-> m]
    <3>1. 1 \in 1..Len(bytes) /\ bytes[1] = m
      OBVIOUS
    <3> HIDE DEF bytes
    <3>2. Values(v, bytes, 1) /\ v[1] = m
      BY <1>1, <3>1 DEF Values
    <3> HIDE DEF v
    <3>3. QED
      BY <1>1, <3>1, <3>2 DEF Reads, bytes
  <2>3. QED
    BY <2>1, <2>2
<1>2. ASSUME NEW m \in Nat, m >= 128, Good(m \div 128) PROVE Good(m)
  <2> DEFINE d == m \div 128
             c == m % 128
             r == EncodeVarint[d]
  <2>1. d \in Nat /\ c \in 0..127 /\ m = c + 128 * d
    <3>1. m \div 128 \in Nat /\ m % 128 \in 0..127 /\ m = (m % 128) + 128 * (m \div 128)
      BY DivideBy128
    <3>2. QED
      BY <3>1, Zenon
  <2>2. EncodeVarint[m] = <<128 + c>> \o r
    <3>1. EncodeVarint[m] = IF m < 128 THEN <<m>>
                            ELSE <<128 + (m % 128)>> \o EncodeVarint[m \div 128]
      BY VarintRule
    <3>2. ~(m < 128)
      BY <1>2
    <3>3. QED
      BY <3>1, <3>2, Zenon
  <2>3. r \in Seq(Nat) /\ Len(r) >= 1 /\ \A t \in Seq(Nat) : Reads(r \o t, Len(r), d)
    BY <1>2
  <2> HIDE DEF d, c, r
  <2>4. <<128 + c>> \o r \in Seq(Nat) /\ Len(<<128 + c>> \o r) = Len(r) + 1
    BY <2>1, <2>3
  <2>5. ASSUME NEW t \in Seq(Nat) PROVE Reads((<<128 + c>> \o r) \o t, Len(r) + 1, m)
    <3>1. r \o t \in Seq(Nat) /\ Len(r) \in Nat
      BY <2>3
    <3>2. Reads(r \o t, Len(r), d)
      BY <2>3
    <3>3. Reads(<<128 + c>> \o (r \o t), Len(r) + 1, c + 128 * d)
      BY <2>1, <3>1, <3>2, ReadsMore
    <3>4. (<<128 + c>> \o r) \o t = <<128 + c>> \o (r \o t)
      BY <2>1, <2>3
    <3>5. QED
      BY <2>1, <3>3, <3>4
  <2>6. QED
    BY <2>2, <2>3, <2>4, <2>5
<1>3. ASSUME NEW m \in Nat, \A i \in 0..(m - 1) : i \in Fine PROVE m \in Fine
  <2>1. CASE m < 128
    <3> HIDE DEF Good
    <3>1. QED
      BY <1>1, <2>1
  <2>2. CASE m >= 128
    <3>1. m \div 128 \in 0..(m - 1)
      BY <2>2, DivideBy128
    <3> HIDE DEF Good
    <3>2. QED
      BY <1>2, <1>3, <2>2, <3>1
  <2>3. QED
    BY <2>1, <2>2
<1>4. n \in Fine
  <2> HIDE DEF Fine
  <2>1. \A m \in Nat : m \in Fine
    BY <1>3, FromSmaller
  <2>2. QED
    BY <2>1
<1>5. QED
  BY <1>4

\* decode_varint applied to what encode_varint appended, whatever follows it, returns
\* a number of 64 bits and leaves exactly what follows.
LEMMA VarintRoundTrip ==
  ASSUME NEW n \in Nat, IsLength(n), NEW t \in Seq(Nat)
  PROVE  LET s == EncodeVarint[n] \o t IN
         /\ s \in Seq(Nat)
         /\ DecodeVarint(s).used # 0 /\ DecodeVarint(s).value = n
         /\ AfterVarint(s) = t
<1> DEFINE e == EncodeVarint[n]
<1>1. e \in Seq(Nat) /\ Len(e) >= 1 /\ Reads(e \o t, Len(e), n)
  BY VarintReads
<1>9. Len(e) <= MaxVarint
  BY DEF IsLength
<1> HIDE DEF e
<1>2. e \o t \in Seq(Nat) /\ Len(e) \in Nat
  BY <1>1
<1>3. DecodeVarint(e \o t) = [used |-> Len(e), value |-> n]
  BY <1>1, <1>2, <1>9, ReadsDecodes
<1>4. DecodeVarint(e \o t).used = Len(e) /\ DecodeVarint(e \o t).value = n
  BY <1>3
<1>5. SubSeq(e \o t, Len(e) + 1, Len(e \o t)) = t
  <2> DEFINE u == SubSeq(e \o t, Len(e) + 1, Len(e \o t))
  <2>1. u \in Seq(Nat) /\ Len(u) = Len(t)
    BY <1>1
  <2>2. \A i \in 1..Len(u) : u[i] = t[i]
    BY <1>1
  <2> HIDE DEF u
  <2>3. u = t
    BY <2>1, <2>2, SameSeq
  <2>4. QED
    BY <2>3 DEF u
<1>6. AfterVarint(e \o t) = t
  BY <1>4, <1>5 DEF AfterVarint
<1>7. Len(e) # 0
  BY <1>1
<1>8. QED
  BY <1>2, <1>4, <1>6, <1>7 DEF e

------------------------------------------------------------------------------
(* Blocks *)

\* The common prefix of two keys is a prefix of both.
LEMMA CommonPrefix ==
  ASSUME NEW a \in Seq(Nat), NEW b \in Seq(Nat)
  PROVE  LET c == CommonPrefixLen(a, b) IN
         /\ c \in 0..Len(a) /\ c <= Len(b)
         /\ SubSeq(a, 1, c) \o SubSeq(b, c + 1, Len(b)) = b
<1> DEFINE common == {n \in 0..Len(a) : n <= Len(b) /\ SubSeq(a, 1, n) = SubSeq(b, 1, n)}
           c == CommonPrefixLen(a, b)
<1>1. 0 \in common
  OBVIOUS
<1>2. IsFiniteSet(common) /\ common \subseteq Nat
  <2>1. Len(a) \in Nat /\ common \subseteq 0..Len(a) /\ common \subseteq Nat
    OBVIOUS
  <2>2. IsFiniteSet(0..Len(a))
    BY <2>1, FS_Interval
  <2>3. IsFiniteSet(common)
    <3> HIDE DEF common
    <3>1. QED
      BY <2>1, <2>2, FS_Subset
  <2>4. QED
    BY <2>1, <2>3
<1>3. PICK m \in common : \A n \in common : m >= n
  <2> HIDE DEF common
  <2>1. QED
    BY <1>1, <1>2, FiniteNatMax
<1>4. c = CHOOSE x \in common : \A y \in common : x >= y
  BY Zenon DEF CommonPrefixLen, Max
<1>5. c \in common
  <2> HIDE DEF common, c
  <2>1. QED
    BY <1>3, <1>4
<1> HIDE DEF c
<1>6. c \in 0..Len(a) /\ c <= Len(b) /\ SubSeq(a, 1, c) = SubSeq(b, 1, c)
  BY <1>5
<1>7. SubSeq(b, 1, c) \o SubSeq(b, c + 1, Len(b)) = b
  <2>1. SubSeq(b, 1, c) \o SubSeq(b, c + 1, Len(b)) = SubSeq(b, 1, Len(b))
    <3>1. 1 \in 1..(Len(b) + 1) /\ c \in (1 - 1)..Len(b) /\ Len(b) \in c..Len(b)
      BY <1>6
    <3>2. QED
      BY <3>1, ConcatAdjacentSubSeq
  <2>2. QED
    BY <2>1, SubSeqFull
<1>8. QED
  BY <1>6, <1>7 DEF c

\* What a memtable hands to the writer
Entry ==
  {e \in [key : Seq(Nat), size : Nat, timestamp : Nat] :
     IsLength(e.size) /\ \A n \in 0..Len(e.key) : IsLength(n)}

\* decode_block reads an entry that was stored after the key it has just read.
LEMMA EntryDecodes ==
  ASSUME NEW last_key \in Seq(Nat), NEW e \in Entry, last_key = <<>> \/ Less(last_key, e.key),
         NEW read
  PROVE  DecodeEntry([corrupted |-> FALSE, previous |-> last_key, entries |-> read],
                     EncodeEntry(last_key, e))
           = [corrupted |-> FALSE, previous |-> e.key, entries |-> Append(read, e)]
<1> DEFINE acc == [corrupted |-> FALSE, previous |-> last_key, entries |-> read]
           c == EncodeEntry(last_key, e)
           shared == CommonPrefixLen(last_key, e.key)
           rest == SubSeq(e.key, shared + 1, Len(e.key))
           tail == EncodeVarint[e.size]
           behind == EncodeVarint[Len(rest)] \o tail
<1>1. e.key \in Seq(Nat) /\ e.size \in Nat /\ IsLength(e.size)
      /\ e = [key |-> e.key, size |-> e.size, timestamp |-> e.timestamp]
  BY DEF Entry
<1>2. shared \in Nat /\ shared <= Len(last_key)
      /\ SubSeq(last_key, 1, shared) \o rest = e.key
  <2>1. shared \in 0..Len(last_key)
    BY <1>1, CommonPrefix
  <2>2. SubSeq(last_key, 1, shared) \o rest = e.key
    BY <1>1, CommonPrefix
  <2>3. shared \in Nat /\ shared <= Len(last_key)
    <3> HIDE DEF shared
    <3>1. QED
      BY <2>1
  <2>4. QED
    BY <2>2, <2>3
<1>3. c = [lengths |-> (EncodeVarint[shared] \o EncodeVarint[Len(rest)]) \o tail,
           rest |-> rest, size |-> e.size, timestamp |-> e.timestamp]
  BY Zenon DEF EncodeEntry
<1>4. Len(rest) \in Nat /\ rest \in Seq(Nat)
  <2>1. \A i \in (shared + 1)..Len(e.key) : e.key[i] \in Nat
    <3> DEFINE k == e.key
    <3>1. k \in Seq(Nat) /\ shared \in Nat
      BY <1>1, <1>2
    <3> HIDE DEF shared, k
    <3>2. \A i \in (shared + 1)..Len(k) : k[i] \in Nat
      <4> SUFFICES ASSUME NEW i \in (shared + 1)..Len(k) PROVE k[i] \in Nat
        OBVIOUS
      <4>1. i \in 1..Len(k)
        BY <3>1
      <4>2. QED
        BY <3>1, <4>1, ElementOfSeq
    <3>3. QED
      BY <3>2 DEF k
  <2>2. shared + 1 \in Int /\ Len(e.key) \in Int
    <3> HIDE DEF shared
    <3>1. QED
      BY <1>1, <1>2
  <2>3. rest \in Seq(Nat)
    <3> HIDE DEF shared
    <3>1. QED
      BY <2>1, <2>2, SubSeqProperties
  <2> HIDE DEF rest
  <2>4. QED
    BY <2>3
<1>18. IsLength(shared) /\ IsLength(Len(rest))
  <2> DEFINE k == e.key
  <2>1. \A n \in 0..Len(k) : IsLength(n)
    BY DEF Entry
  <2>2. k \in Seq(Nat) /\ shared \in Nat /\ shared <= Len(k)
    <3>1. shared <= Len(k)
      BY <1>1, CommonPrefix
    <3> HIDE DEF shared
    <3>2. QED
      BY <1>1, <1>2, <3>1
  <2>3. rest = SubSeq(k, shared + 1, Len(k))
    OBVIOUS
  <2> HIDE DEF shared, k, rest
  <2>4. Len(rest) = Len(k) - shared /\ Len(k) \in Nat
    BY <2>2, <2>3
  <2>5. shared \in 0..Len(k) /\ Len(rest) \in 0..Len(k)
    BY <2>2, <2>4
  <2>6. QED
    BY <2>1, <2>5
<1> HIDE DEF shared, rest, c
<1>5. EncodeVarint[shared] \in Seq(Nat) /\ EncodeVarint[Len(rest)] \in Seq(Nat) /\ tail \in Seq(Nat)
  BY <1>1, <1>2, <1>4, VarintReads
<1>6. c.lengths = EncodeVarint[shared] \o behind /\ tail = tail \o <<>> /\ behind \in Seq(Nat)
      /\ <<>> \in Seq(Nat)
  <2> DEFINE x == EncodeVarint[shared]
             y == EncodeVarint[Len(rest)]
  <2>1. x \in Seq(Nat) /\ y \in Seq(Nat) /\ tail \in Seq(Nat) /\ c.lengths = (x \o y) \o tail
    BY <1>3, <1>5
  <2> HIDE DEF x, y, tail
  <2>2. (x \o y) \o tail = x \o (y \o tail)
    BY <2>1, ConcatAssociative
  <2>3. tail = tail \o <<>> /\ <<>> \in Seq(Nat)
    BY <2>1, ConcatEmptySeq, EmptySeq
  <2>4. y \o tail \in Seq(Nat)
    BY <2>1, ConcatProperties
  <2>5. QED
    BY <2>1, <2>2, <2>3, <2>4 DEF x, y
<1>7. /\ DecodeVarint(c.lengths).used # 0 /\ DecodeVarint(c.lengths).value = shared
      /\ AfterVarint(c.lengths) = behind
  <2> HIDE DEF behind
  <2>1. QED
    BY <1>2, <1>6, <1>18, VarintRoundTrip
<1>8. /\ DecodeVarint(behind).used # 0 /\ DecodeVarint(behind).value = Len(rest)
      /\ AfterVarint(behind) = tail
  <2> DEFINE k == Len(rest)
             s == EncodeVarint[k] \o tail
  <2>1. k \in Nat /\ IsLength(k) /\ tail \in Seq(Nat)
    BY <1>4, <1>5, <1>18
  <2> HIDE DEF tail, k
  <2>2. DecodeVarint(s).used # 0 /\ DecodeVarint(s).value = k /\ AfterVarint(s) = tail
    BY <2>1, VarintRoundTrip
  <2>3. QED
    BY <2>2 DEF k
<1>9. DecodeVarint(tail).used # 0 /\ DecodeVarint(tail).value = e.size
  <2> DEFINE k == e.size
             s == EncodeVarint[k] \o <<>>
  <2>1. k \in Nat /\ IsLength(k) /\ <<>> \in Seq(Nat) /\ tail = s
    BY <1>1, <1>6, Zenon
  <2> HIDE DEF k, tail
  <2>2. DecodeVarint(s).used # 0 /\ DecodeVarint(s).value = k
    BY <2>1, VarintRoundTrip
  <2> HIDE DEF s
  <2>3. QED
    BY <2>1, <2>2 DEF k
<1>10. c.rest = rest /\ c.size = e.size /\ c.timestamp = e.timestamp
  BY <1>3
<1> HIDE DEF tail, behind
<1> DEFINE one == DecodeVarint(c.lengths)
           two == DecodeVarint(AfterVarint(c.lengths))
           three == DecodeVarint(AfterVarint(AfterVarint(c.lengths)))
           key == SubSeq(acc.previous, 1, one.value) \o c.rest
           bad == \/ acc.corrupted
                  \/ one.used = 0 \/ two.used = 0 \/ three.used = 0
                  \/ one.value > Len(acc.previous)
                  \/ ~(two.value = Len(c.rest) /\ three.value = c.size)
                  \/ ~(acc.previous = <<>> \/ Less(acc.previous, key))
<1>11. DecodeEntry(acc, c) =
         IF bad THEN [acc EXCEPT !.corrupted = TRUE]
         ELSE [corrupted |-> FALSE, previous |-> key,
               entries |-> Append(acc.entries,
                 [key |-> key, size |-> c.size, timestamp |-> c.timestamp])]
  BY Zenon DEF DecodeEntry
<1>12. acc.corrupted = FALSE /\ acc.previous = last_key /\ acc.entries = read
  OBVIOUS
<1>13. one.used # 0 /\ one.value = shared /\ two.used # 0 /\ two.value = Len(rest)
       /\ three.used # 0 /\ three.value = e.size
  BY <1>7, <1>8, <1>9
<1> HIDE DEF acc, one, two, three
<1>14. key = e.key
  BY <1>2, <1>10, <1>12, <1>13
<1> HIDE DEF key
<1>15. ~bad
  <2>1. ~(shared > Len(last_key))
    BY <1>2
  <2>2. QED
    BY <1>10, <1>12, <1>13, <1>14, <2>1
<1> HIDE DEF bad
<1>16. DecodeEntry(acc, c) =
         [corrupted |-> FALSE, previous |-> e.key, entries |-> Append(read, e)]
  BY <1>1, <1>10, <1>11, <1>12, <1>14, <1>15
<1>17. QED
  BY <1>16 DEF acc, c

\* The buffer of a block after these entries
Encoded(es) == [i \in 1..Len(es) |-> EncodeEntry(IF i = 1 THEN <<>> ELSE es[i - 1].key, es[i])]

\* Entries in the order of their keys, no key twice
Sorted(es) == \A i \in 1..Len(es), j \in 1..Len(es) : i < j => Less(es[i].key, es[j].key)

\* decode_block reads what the builder wrote.
LEMMA BlockDecodes ==
  ASSUME NEW es \in Seq(Entry), Sorted(es)
  PROVE  ~DecodeBlock(Encoded(es)).corrupted /\ DecodeBlock(Encoded(es)).entries = es
<1> DEFINE n == Len(es)
           block == Encoded(es)
           start == [corrupted |-> FALSE, previous |-> <<>>, entries |-> <<>>]
           Rule(f) == f = [i \in 0..Len(block) |->
                             IF i = 0 THEN start ELSE DecodeEntry(f[i - 1], block[i])]
           after == [i \in 0..n |->
                       [corrupted |-> FALSE, previous |-> IF i = 0 THEN <<>> ELSE es[i].key,
                        entries |-> SubSeq(es, 1, i)]]
           read == CHOOSE f : Rule(f)
<1>1. n \in Nat /\ Len(block) = n /\ \A i \in 1..n :
        block[i] = EncodeEntry(IF i = 1 THEN <<>> ELSE es[i - 1].key, es[i])
  <2>1. n \in Nat
    OBVIOUS
  <2>2. block = [i \in 1..n |-> EncodeEntry(IF i = 1 THEN <<>> ELSE es[i - 1].key, es[i])]
    BY Zenon DEF Encoded
  <2> HIDE DEF block, n
  <2>3. QED
    BY <2>1, <2>2
<1>2. DecodeBlock(block) = read[Len(block)]
  BY Zenon DEF DecodeBlock
<1> HIDE DEF block
<1>3. ASSUME NEW i \in 1..n PROVE after[i] = DecodeEntry(after[i - 1], block[i])
  <2> DEFINE last_key == IF i = 1 THEN <<>> ELSE es[i - 1].key
  <2>1. es[i] \in Entry /\ es[i].key \in Seq(Nat) /\ last_key \in Seq(Nat)
        /\ (last_key = <<>> \/ Less(last_key, es[i].key))
    <3>1. CASE i = 1
      <4>1. es[i] \in Entry /\ last_key = <<>> /\ <<>> \in Seq(Nat)
        BY <3>1
      <4>2. QED
        BY <4>1 DEF Entry
    <3>2. CASE i # 1
      <4>1. i - 1 \in 1..n /\ es[i - 1] \in Entry /\ es[i] \in Entry
        BY <3>2
      <4>2. es[i].key \in Seq(Nat) /\ es[i - 1].key \in Seq(Nat)
        <5>1. \A x \in Entry : x.key \in Seq(Nat)
          BY DEF Entry
        <5>2. QED
          BY <4>1, <5>1
      <4>3. Less(es[i - 1].key, es[i].key)
        BY <3>2, <4>1 DEF Sorted
      <4>4. QED
        BY <3>2, <4>1, <4>2, <4>3
    <3>3. QED
      BY <3>1, <3>2
  <2>2. after[i - 1] = [corrupted |-> FALSE, previous |-> last_key, entries |-> SubSeq(es, 1, i - 1)]
    OBVIOUS
  <2>3. block[i] = EncodeEntry(last_key, es[i])
    BY <1>1
  <2>4. after[i] = [corrupted |-> FALSE, previous |-> es[i].key,
                    entries |-> Append(SubSeq(es, 1, i - 1), es[i])]
    <3>1. SubSeq(es, 1, i) = Append(SubSeq(es, 1, i - 1), es[i])
      OBVIOUS
    <3>2. i \in 0..n /\ i # 0
      OBVIOUS
    <3>3. after[i] = [corrupted |-> FALSE, previous |-> es[i].key, entries |-> SubSeq(es, 1, i)]
      BY <3>2
    <3>4. QED
      BY <3>1, <3>3
  <2> HIDE DEF last_key, after
  <2>5. QED
    BY <2>1, <2>2, <2>3, <2>4, EntryDecodes
<1>4. after[0] = start
  <2>1. SubSeq(es, 1, 0) = <<>>
    OBVIOUS
  <2>2. 0 \in 0..n
    BY <1>1
  <2>3. QED
    BY <2>1, <2>2
<1>5. Rule(after)
  <2>1. after = [i \in 0..n |-> after[i]]
    OBVIOUS
  <2> HIDE DEF after, start
  <2>2. ASSUME NEW i \in 0..n
        PROVE  after[i] = IF i = 0 THEN start ELSE DecodeEntry(after[i - 1], block[i])
    BY <1>1, <1>3, <1>4
  <2>3. QED
    BY <1>1, <2>1, <2>2
<1>6. Rule(read)
  <2> HIDE DEF Rule
  <2>1. QED
    BY <1>5
<1> HIDE DEF read, start
<1>7. \A i \in 0..n : read[i] = IF i = 0 THEN start ELSE DecodeEntry(read[i - 1], block[i])
  BY <1>1, <1>6
<1> DEFINE Same == {i \in 0..n : read[i] = after[i]}
<1>8. 0 \in Same
  <2>1. 0 \in 0..n
    BY <1>1
  <2> HIDE DEF after
  <2>2. QED
    BY <2>1, <1>4, <1>7
<1>9. ASSUME NEW i \in 1..n, i - 1 \in Same PROVE i \in Same
  <2>1. i \in 0..n /\ i # 0 /\ read[i - 1] = after[i - 1]
    BY <1>9
  <2> HIDE DEF after
  <2>2. QED
    BY <1>3, <1>7, <2>1
<1>10. n \in Same
  <2>1. \A i \in 0..n : i \in Same
    <3> HIDE DEF Same, n
    <3>1. QED
      BY <1>1, <1>8, <1>9, Upward
  <2>2. QED
    BY <1>1, <2>1
<1>11. DecodeBlock(block) = after[n]
  <2> HIDE DEF after
  <2>1. QED
    BY <1>1, <1>2, <1>10
<1>12. SubSeq(es, 1, n) = es
  OBVIOUS
<1>13. after[n].corrupted = FALSE /\ after[n].entries = es
  BY <1>1, <1>12
<1> HIDE DEF after
<1>14. QED
  BY <1>11, <1>13 DEF block

\* An empty buffer decodes to nothing, and one more entry to one more.
LEMMA EncodedGrows ==
  ASSUME NEW es \in Seq(Entry), NEW e \in Entry, NEW last_key,
         last_key = IF es = <<>> THEN <<>> ELSE es[Len(es)].key
  PROVE  /\ Encoded(<<>>) = <<>>
         /\ Encoded(Append(es, e)) = Append(Encoded(es), EncodeEntry(last_key, e))
<1>1. Encoded(<<>>) = <<>>
  BY DEF Encoded
<1> DEFINE n == Len(es)
           more == Append(es, e)
           left == Encoded(more)
           right == Append(Encoded(es), EncodeEntry(last_key, e))
<1>2. n \in Nat /\ Len(more) = n + 1 /\ more[n + 1] = e /\ (\A i \in 1..n : more[i] = es[i])
      /\ (es = <<>> <=> n = 0)
  OBVIOUS
<1>3. left = [i \in 1..(n + 1) |-> EncodeEntry(IF i = 1 THEN <<>> ELSE more[i - 1].key, more[i])]
  BY <1>2 DEF Encoded
<1>4. Encoded(es) = [i \in 1..n |-> EncodeEntry(IF i = 1 THEN <<>> ELSE es[i - 1].key, es[i])]
  BY Zenon DEF Encoded
<1> DEFINE old == Encoded(es)
<1>5. Len(old) = n /\ DOMAIN old = 1..n
  <2> HIDE DEF old, n
  <2>1. old = [i \in 1..n |-> EncodeEntry(IF i = 1 THEN <<>> ELSE es[i - 1].key, es[i])]
    BY <1>4 DEF old
  <2>2. QED
    BY <1>2, <2>1
<1>6. right = [i \in 1..(n + 1) |-> IF i = n + 1 THEN EncodeEntry(last_key, e) ELSE old[i]]
  <2> DEFINE x == EncodeEntry(last_key, e)
             T == {old[i] : i \in 1..n} \cup {x}
             more_old == Append(old, x)
  <2>1. old = [i \in 1..n |-> old[i]]
    <3> HIDE DEF n
    <3>1. QED
      BY <1>4
  <2> HIDE DEF old, x, n
  <2>2. old \in Seq(T) /\ x \in T
    BY <1>2, <2>1
  <2> HIDE DEF T
  <2>3. /\ more_old \in Seq(T) /\ Len(more_old) = n + 1
        /\ \A i \in 1..n : more_old[i] = old[i]
        /\ more_old[n + 1] = x
    BY <1>5, <2>2, AppendProperties
  <2> HIDE DEF more_old
  <2>4. more_old = [i \in 1..(n + 1) |-> more_old[i]]
    BY <1>2, <2>3
  <2>5. \A i \in 1..(n + 1) : more_old[i] = IF i = n + 1 THEN x ELSE old[i]
    BY <1>2, <2>3
  <2>6. more_old = [i \in 1..(n + 1) |-> IF i = n + 1 THEN x ELSE old[i]]
    BY <2>4, <2>5
  <2>7. QED
    BY <2>6 DEF x, old, more_old
<1>7. ASSUME NEW i \in 1..(n + 1)
      PROVE  EncodeEntry(IF i = 1 THEN <<>> ELSE more[i - 1].key, more[i])
               = IF i = n + 1 THEN EncodeEntry(last_key, e) ELSE old[i]
  <2>1. CASE i = n + 1
    <3>1. more[i] = e /\ (IF i = 1 THEN <<>> ELSE more[i - 1].key) = last_key
      <4>1. CASE n = 0
        BY <1>2, <2>1, <4>1
      <4>2. CASE n # 0
        <5>1. i # 1 /\ i - 1 = n /\ n \in 1..n /\ es # <<>>
          BY <1>2, <2>1, <4>2
        <5>2. QED
          BY <1>2, <2>1, <5>1
      <4>3. QED
        BY <4>1, <4>2
    <3>2. QED
      BY <2>1, <3>1
  <2>2. CASE i # n + 1
    <3>1. i \in 1..n /\ more[i] = es[i] /\ (i # 1 => i - 1 \in 1..n /\ more[i - 1] = es[i - 1])
      BY <1>2, <2>2
    <3>2. old[i] = EncodeEntry(IF i = 1 THEN <<>> ELSE es[i - 1].key, es[i])
      BY <1>4, <3>1
    <3> HIDE DEF old, more
    <3>3. (IF i = 1 THEN <<>> ELSE more[i - 1].key) = IF i = 1 THEN <<>> ELSE es[i - 1].key
      BY <3>1
    <3>4. QED
      BY <2>2, <3>1, <3>2, <3>3
  <2>3. QED
    BY <2>1, <2>2
<1> HIDE DEF left, right, more, old
<1>8. left = right
  BY <1>3, <1>6, <1>7
<1>9. QED
  BY <1>1, <1>8 DEF left, right, more

------------------------------------------------------------------------------
(* The inductive invariant *)

\* Some sequence, whatever its members are
IsSeq(s) == Len(s) \in Nat /\ s = [i \in 1..Len(s) |-> s[i]]

\* cuts[i] is the number of entries in the first i of n blocks, done that of all
\* entries given to the writer.
Cuts(cuts, n, done) ==
  /\ cuts \in [0..n -> 0..done] /\ cuts[0] = 0
  /\ \A i \in 1..n : cuts[i - 1] < cuts[i]

\* The i-th entry of the index and the part of the file it is about
BlockStored(part, entry, es, first, last) ==
  /\ entry = [first_key |-> es[first].key, offset |-> entry.offset, size |-> entry.size]
  /\ entry.offset \in Nat /\ entry.size \in Nat \ {0}
  /\ part = [kind |-> "block", at |-> entry.offset, size |-> entry.size,
             body |-> Encoded(SubSeq(es, first, last))]

\* One part of the file per entry of the index, in their order, and below top
BlocksStored(file, index, es, cuts, top) ==
  /\ IsSeq(file) /\ IsSeq(index) /\ Len(file) > Len(index)
  /\ \A i \in 1..Len(index) :
       /\ BlockStored(file[i + 1], index[i], es, cuts[i - 1] + 1, cuts[i])
       /\ index[i].offset < top
  /\ \A i \in 1..Len(index), j \in 1..Len(index) : i < j => index[i].offset < index[j].offset

\* The builder has the entries behind the last cut.
BuilderHas(builder, es, first, done) ==
  builder = [buffer |-> Encoded(SubSeq(es, first, done)),
             last_key |-> IF first > done THEN <<>> ELSE es[done].key,
             first_key |-> IF first > done THEN <<>> ELSE es[first].key]

\* The header counts the blocks and has the least and the largest timestamp.
HeaderHas(header, n, es, done) ==
  LET times == {es[i].timestamp : i \in 1..done}
  IN /\ header \in [num_blocks : Nat, min_timestamp : Nat, max_timestamp : Nat]
     /\ header.num_blocks = n
     /\ IF done = 0 THEN header.min_timestamp = MaxTimestamp /\ header.max_timestamp = 0
        ELSE /\ header.min_timestamp \in times /\ header.max_timestamp \in times
             /\ \A t \in times : header.min_timestamp <= t /\ t <= header.max_timestamp

\* The filter has the keys of the entries.
FilterHas(filter, h, es, done) ==
  /\ filter \in [num_bits : {NumBits}, num_hash_functions : {NumHashes},
                 bytes : {BytesFor(NumBits)}, bits : SUBSET Nat]
  /\ \A i \in 1..done : BloomContains(filter, h[es[i].key])

\* The writer w has been given the first done of the entries es.
Given(w, h, es, cuts, done) ==
  LET n == Len(w.index_entries) IN
  /\ DOMAIN w = {"builder", "index_entries", "bloom_filter", "offset", "header", "file"}
  /\ Cuts(cuts, n, done)
  /\ w.offset \in Nat
  /\ BlocksStored(w.file, w.index_entries, es, cuts, w.offset)
  /\ BuilderHas(w.builder, es, cuts[n] + 1, done)
  /\ HeaderHas(w.header, n, es, done)
  /\ FilterHas(w.bloom_filter, h, es, done)
  /\ w.file[1].kind = "header" /\ w.file[1].at = 0 /\ w.file[1].size = HeaderSize
  /\ w.file[1] = [kind |-> "header", at |-> 0, size |-> HeaderSize, body |-> w.file[1].body]

\* Its file is still open: header and blocks, and the writer is at the end.
Unfinished(w) ==
  Len(w.file) = Len(w.index_entries) + 1 /\ w.offset = FileSize(w.file)

\* Its file is closed: the header is about the whole table, filter, index and
\* footer are behind the blocks, and the footer tells where.
Closed(w) ==
  LET n == Len(w.index_entries)
      filter == EncodeFilter(w.bloom_filter)
      footer == w.file[n + 4].body
  IN /\ Len(w.file) = n + 4 /\ w.builder.buffer = <<>>
     /\ w.file[1].body = w.header
     /\ w.file[n + 2] = [kind |-> "bloom", at |-> footer.bloom_offset, size |-> footer.bloom_size,
                         body |-> filter]
     /\ footer.bloom_size = filter.size
     /\ w.file[n + 3] = [kind |-> "index", at |-> footer.index_offset, size |-> footer.index_size,
                         body |-> w.index_entries]
     /\ w.file[n + 4] = [kind |-> "footer", at |-> w.file[n + 4].at, size |-> FooterSize,
                         body |-> footer]
     /\ w.file[n + 4].at \in Nat

\* The memtable: its keys, and the account is never too small.
MemInv ==
  /\ IsFiniteSet(DOMAIN data) /\ DOMAIN data \subseteq Keys
  /\ \A k \in DOMAIN data : data[k] \in [size : ValueSizes, timestamp : 1..MaxPuts]
  /\ puts \in 0..MaxPuts
  /\ IsFiniteSet(EntryBytes) /\ Cardinality(EntryBytes) <= size_bytes /\ size_bytes \in Nat
  /\ (DOMAIN data = {} => size_bytes = 0)

\* Before the flush the writer is new; then it has been given all but todo.
FlushInv ==
  /\ frozen \in BOOLEAN /\ finished \in BOOLEAN
  /\ hash_fn \in HashFns
  /\ ~frozen => ~finished /\ New
  /\ ~frozen \/ finished => todo = <<>>
  /\ frozen =>
       /\ DOMAIN data # {}
       /\ \E done \in 0..Len(Entries) :
            /\ todo = SubSeq(Entries, done + 1, Len(Entries))
            /\ \E cuts \in [0..Len(writer.index_entries) -> 0..done] :
                 Given(writer, hash_fn, Entries, cuts, done)
            /\ IF finished THEN Closed(writer) ELSE Unfinished(writer)

TableInv == MemInv /\ FlushInv

------------------------------------------------------------------------------
(* The memtable *)

\* A put sets one entry.
LEMMA PutSets ==
  ASSUME NEW k, NEW size, Put(k, size)
  PROVE  /\ DOMAIN data' = DOMAIN data \cup {k}
         /\ data'[k] = [size |-> size, timestamp |-> puts + 1]
         /\ \A j \in DOMAIN data : j # k => data'[j] = data[j]
BY DEF Put

\* The bytes of one entry, counted
LEMMA OneEntryBytes ==
  ASSUME NEW k, NEW b \in Nat
  PROVE  IsFiniteSet({k} \X (1..b)) /\ Cardinality({k} \X (1..b)) = b
<1>1. IsFiniteSet({k}) /\ Cardinality({k}) = 1
  BY FS_Singleton
<1>2. IsFiniteSet(1..b) /\ Cardinality(1..b) = b
  <2>1. 1 \in Int /\ b \in Int
    OBVIOUS
  <2>2. QED
    BY <2>1, FS_Interval
<1>3. IsFiniteSet({k} \X (1..b)) /\ Cardinality({k} \X (1..b)) = 1 * b
  <2> DEFINE one == {k}
             bytes == 1..b
  <2>1. IsFiniteSet(one) /\ IsFiniteSet(bytes)
    BY <1>1, <1>2
  <2>2. IsFiniteSet(one \X bytes) /\ Cardinality(one \X bytes) = Cardinality(one) * Cardinality(bytes)
    <3> HIDE DEF one, bytes
    <3>1. QED
      BY <2>1, FS_Product, Zenon
  <2>3. QED
    BY <1>1, <1>2, <2>2, Zenon
<1>4. 1 * b = b
  OBVIOUS
<1>5. QED
  BY <1>3, <1>4, Zenon

\* An empty memtable has an empty account.
LEMMA MemInvInit == MemInit => MemInv
<1> SUFFICES ASSUME MemInit PROVE MemInv
  OBVIOUS
<1>1. DOMAIN data = {} /\ size_bytes = 0 /\ puts = 0
  BY DEF MemInit
<1>2. EntryBytes = {}
  BY <1>1 DEF EntryBytes
<1>3. IsFiniteSet({}) /\ Cardinality({}) = 0
  BY FS_EmptySet
<1>4. 0 \in 0..MaxPuts
  BY MemTableAssumption
<1>5. QED
  BY <1>1, <1>2, <1>3, <1>4 DEF MemInv

\* The account after a put still covers the bytes of all entries: a replaced
\* value is taken off only if its bytes are there.
LEMMA PutCounts ==
  ASSUME MemInv, NEW k \in Keys, NEW size \in ValueSizes, Put(k, size)
  PROVE  IsFiniteSet(EntryBytes') /\ Cardinality(EntryBytes') <= size_bytes'
         /\ size_bytes' \in Nat /\ size_bytes' # 0
<1> DEFINE E == EntryBytes
           oldBytes == IF k \in DOMAIN data THEN {k} \X (1..Bytes(k, data[k].size)) ELSE {}
           newBytes == {k} \X (1..Bytes(k, size))
           rest == E \ oldBytes
<1>1. Len(k) \in Nat /\ size \in Nat /\ Bytes(k, size) \in Nat /\ Bytes(k, size) # 0
      /\ Bytes(k, size) = Len(k) + size + 48
  BY MemTableAssumption DEF Bytes, EntryOverhead
<1>2. k \in DOMAIN data => data[k].size \in Nat
  BY MemTableAssumption DEF MemInv
<1>3. IsFiniteSet(E) /\ Cardinality(E) \in Nat /\ Cardinality(E) <= size_bytes /\ size_bytes \in Nat
  BY FS_CardinalityType DEF MemInv
<1>4. EntryBytes' = rest \cup newBytes
  <2>1. EntryBytes' = UNION {{j} \X (1..Bytes(j, data'[j].size)) : j \in DOMAIN data'}
    BY DEF EntryBytes
  <2>2. E = UNION {{j} \X (1..Bytes(j, data[j].size)) : j \in DOMAIN data}
    BY DEF EntryBytes
  <2>3. rest = UNION {{j} \X (1..Bytes(j, data[j].size)) : j \in DOMAIN data \ {k}}
    <3> HIDE DEF E
    <3>1. QED
      BY <2>2
  <2>4. DOMAIN data' = (DOMAIN data \ {k}) \cup {k} /\ data'[k].size = size
        /\ \A j \in DOMAIN data \ {k} : data'[j] = data[j]
    <3>1. /\ DOMAIN data' = DOMAIN data \cup {k}
          /\ data'[k] = [size |-> size, timestamp |-> puts + 1]
          /\ \A j \in DOMAIN data : j # k => data'[j] = data[j]
      BY PutSets, Zenon
    <3>2. QED
      BY <3>1
  <2> HIDE DEF rest
  <2>5. QED
    BY <2>1, <2>3, <2>4
<1>5. IsFiniteSet(newBytes) /\ Cardinality(newBytes) = Bytes(k, size)
  BY <1>1, OneEntryBytes
<1> DEFINE was == IF k \in DOMAIN data THEN Len(k) + data[k].size + 48 ELSE 0
<1>6. was \in Nat /\ Cardinality(oldBytes) = was /\ IsFiniteSet(oldBytes)
  <2>1. CASE k \in DOMAIN data
    <3> DEFINE b == Bytes(k, data[k].size)
    <3>1. b \in Nat /\ b = was
      BY <1>1, <1>2, <2>1 DEF Bytes, EntryOverhead
    <3>2. oldBytes = {k} \X (1..b)
      BY <2>1
    <3> HIDE DEF b, oldBytes, was
    <3>3. QED
      BY <3>1, <3>2, OneEntryBytes
  <2>2. CASE k \notin DOMAIN data
    BY <2>2, FS_EmptySet
  <2>3. QED
    BY <2>1, <2>2
<1>7. oldBytes \subseteq E
  BY DEF EntryBytes
<1> HIDE DEF E, oldBytes, newBytes
<1>8. IsFiniteSet(rest) /\ Cardinality(rest) = Cardinality(E) - was /\ Cardinality(rest) \in Nat
  <2>1. E \cap oldBytes = oldBytes
    BY <1>7
  <2>2. IsFiniteSet(rest) /\ Cardinality(rest) = Cardinality(E) - Cardinality(E \cap oldBytes)
    BY <1>3, FS_Difference
  <2> HIDE DEF rest
  <2>3. QED
    BY <1>6, <2>1, <2>2, FS_CardinalityType
<1>9. IsFiniteSet(rest \cup newBytes)
      /\ Cardinality(rest \cup newBytes) <= Cardinality(E) - was + Bytes(k, size)
  <2> HIDE DEF rest
  <2>1. IsFiniteSet(rest \cup newBytes)
        /\ Cardinality(rest \cup newBytes) =
             Cardinality(rest) + Cardinality(newBytes) - Cardinality(rest \cap newBytes)
    BY <1>5, <1>8, FS_Union
  <2>2. Cardinality(rest \cap newBytes) \in Nat
    <3>1. IsFiniteSet(rest \cap newBytes)
      BY <1>8, FS_Intersection
    <3>2. QED
      BY <3>1, FS_CardinalityType
  <2> HIDE DEF was
  <2>3. QED
    BY <1>1, <1>3, <1>5, <1>6, <1>8, <2>1, <2>2
<1>10. Cardinality(E) - was + Bytes(k, size) <= size_bytes' /\ size_bytes' \in Nat
       /\ size_bytes' # 0
  <2>1. size_bytes' = IF OldSize(k) > 0 THEN size_bytes - OldSize(k) + size
                      ELSE size_bytes + Bytes(k, size)
    BY DEF Put, SizeAfter
  <2>2. CASE OldSize(k) > 0
    <3>1. k \in DOMAIN data /\ OldSize(k) = data[k].size
      BY <2>2 DEF OldSize
    <3>2. was = Len(k) + OldSize(k) + 48 /\ OldSize(k) \in Nat
      BY <1>2, <3>1
    <3>3. was <= Cardinality(E)
      BY <1>3, <1>6, <1>8
    <3> HIDE DEF was
    <3>4. QED
      BY <1>1, <1>3, <1>6, <2>1, <2>2, <3>2, <3>3
  <2>3. CASE ~(OldSize(k) > 0)
    <3> HIDE DEF was
    <3>1. QED
      BY <1>1, <1>3, <1>6, <2>1, <2>3
  <2>4. QED
    BY <2>2, <2>3
<1>11. Cardinality(rest \cup newBytes) \in Nat
  BY <1>9, FS_CardinalityType
<1> HIDE DEF rest, was
<1>12. QED
  BY <1>1, <1>3, <1>4, <1>6, <1>9, <1>10, <1>11

\* MemTable::put leaves its map finite and its account no smaller than the map's bytes.
LEMMA PutKeepsMemInv ==
  ASSUME MemInv, NEW k \in Keys, NEW size \in ValueSizes, Put(k, size)
  PROVE  MemInv'
<1>1. puts \in Nat /\ puts < MaxPuts /\ puts' = puts + 1 /\ MaxPuts \in Nat
  BY MemTableAssumption DEF MemInv, Put
<1>0. /\ DOMAIN data' = DOMAIN data \cup {k}
      /\ data'[k] = [size |-> size, timestamp |-> puts + 1]
      /\ \A j \in DOMAIN data : j # k => data'[j] = data[j]
  BY PutSets, Zenon
<1>2. IsFiniteSet(DOMAIN data') /\ DOMAIN data' \subseteq Keys /\ DOMAIN data' # {}
  <2>1. IsFiniteSet((DOMAIN data) \cup {k})
    BY FS_AddElement DEF MemInv
  <2>2. QED
    BY <1>0, <2>1 DEF MemInv
<1>3. ASSUME NEW j \in DOMAIN data'
      PROVE  data'[j] \in [size : ValueSizes, timestamp : 1..MaxPuts]
  <2>1. CASE j = k
    BY <1>0, <1>1, <2>1
  <2>2. CASE j # k
    BY <1>0, <2>2 DEF MemInv
  <2>3. QED
    BY <2>1, <2>2
<1>4. puts' \in 0..MaxPuts
  BY <1>1
<1>5. QED
  BY <1>2, <1>3, <1>4, PutCounts DEF MemInv

------------------------------------------------------------------------------
(* The writer *)

\* The compressor returns something for every block.
SnappyYieldsBytes == \A n \in Nat : Compressed(n) \in Nat \ {0}

\* What a memtable hands over: keys it knows, times not beyond the clock's end
Flushable(es) ==
  /\ es \in Seq(Entry) /\ Sorted(es)
  /\ \A i \in 1..Len(es) : es[i].key \in Keys /\ es[i].timestamp <= MaxTimestamp

\* Append, for a sequence of which only the shape is known.
LEMMA AppendAny ==
  ASSUME NEW s, IsSeq(s), NEW x
  PROVE  LET t == Append(s, x) IN
         /\ IsSeq(t) /\ Len(t) = Len(s) + 1 /\ t[Len(s) + 1] = x
         /\ \A i \in 1..Len(s) : t[i] = s[i]
<1> DEFINE n == Len(s)
           T == {s[i] : i \in 1..n} \cup {x}
           t == Append(s, x)
<1>1. n \in Nat /\ s = [i \in 1..n |-> s[i]]
  BY DEF IsSeq
<1>2. s \in Seq(T) /\ x \in T
  <2> HIDE DEF n
  <2>1. QED
    BY <1>1
<1> HIDE DEF T
<1>3. t \in Seq(T) /\ Len(t) = n + 1 /\ t[n + 1] = x /\ \A i \in 1..n : t[i] = s[i]
  BY <1>2, AppendProperties
<1> HIDE DEF t
<1>4. t = [i \in 1..Len(t) |-> t[i]] /\ Len(t) \in Nat
  BY <1>3
<1>5. QED
  BY <1>3, <1>4 DEF IsSeq, t

\* A part of a sequence that takes in one member more
LEMMA SubSeqGrows ==
  ASSUME NEW T, NEW s \in Seq(T), NEW first \in Nat \ {0}, NEW done \in Nat,
         first <= done + 1, done < Len(s)
  PROVE  SubSeq(s, first, done + 1) = Append(SubSeq(s, first, done), s[done + 1])
OBVIOUS

\* The members, the length and the type of a part of a sequence
LEMMA SubSeqType ==
  ASSUME NEW T, NEW s \in Seq(T), NEW first \in Nat \ {0}, NEW last \in Nat,
         first <= last + 1, last <= Len(s)
  PROVE  LET t == SubSeq(s, first, last) IN
         /\ t \in Seq(T) /\ Len(t) = last - first + 1
         /\ \A i \in 1..Len(t) : t[i] = s[first + i - 1]
         /\ t = <<>> <=> first > last
OBVIOUS

\* Encoding a part of the entries
LEMMA EncodedPart ==
  ASSUME NEW es \in Seq(Entry), NEW first \in Nat \ {0}, NEW done \in Nat,
         first <= done + 1, done <= Len(es)
  PROVE  /\ Encoded(SubSeq(es, first, done)) = <<>> <=> first > done
         /\ done < Len(es) =>
              LET last_key == IF first > done THEN <<>> ELSE es[done].key
              IN  Encoded(SubSeq(es, first, done + 1)) =
                    Append(Encoded(SubSeq(es, first, done)), EncodeEntry(last_key, es[done + 1]))
<1> DEFINE part == SubSeq(es, first, done)
           last_key == IF first > done THEN <<>> ELSE es[done].key
<1>1. /\ part \in Seq(Entry) /\ Len(part) = done - first + 1
      /\ \A i \in 1..Len(part) : part[i] = es[first + i - 1]
      /\ part = <<>> <=> first > done
  BY SubSeqType
<1>2. Encoded(part) = <<>> <=> first > done
  <2>1. Len(Encoded(part)) = Len(part) /\ Len(part) \in Nat
    <3> HIDE DEF part
    <3>1. QED
      BY <1>1 DEF Encoded
  <2> HIDE DEF part
  <2>2. Encoded(part) = <<>> => Len(part) = 0
    BY <2>1
  <2>3. part = <<>> => Encoded(part) = <<>>
    BY EncodedGrows, <1>1 DEF Encoded
  <2>4. QED
    BY <1>1, <2>2, <2>3
<1>3. ASSUME done < Len(es)
      PROVE  Encoded(SubSeq(es, first, done + 1)) =
               Append(Encoded(part), EncodeEntry(last_key, es[done + 1]))
  <2>1. SubSeq(es, first, done + 1) = Append(part, es[done + 1])
    BY <1>3, SubSeqGrows
  <2>2. es[done + 1] \in Entry
    BY <1>3
  <2>3. last_key = IF part = <<>> THEN <<>> ELSE part[Len(part)].key
    <3>1. CASE first > done
      BY <1>1, <3>1
    <3>2. CASE first <= done
      <4>1. Len(part) \in 1..Len(part) /\ first + Len(part) - 1 = done
        BY <1>1, <3>2
      <4>2. part[Len(part)] = es[done] /\ part # <<>> /\ ~(first > done)
        BY <1>1, <3>2, <4>1
      <4> HIDE DEF part
      <4>3. QED
        BY <4>2
    <3>3. QED
      BY <3>1, <3>2
  <2> DEFINE lk == last_key
             e == es[done + 1]
  <2>4. lk = IF part = <<>> THEN <<>> ELSE part[Len(part)].key
    BY <2>3
  <2>5. part \in Seq(Entry) /\ e \in Entry
    BY <1>1, <2>2
  <2> HIDE DEF part, lk, e
  <2>6. Encoded(Append(part, e)) = Append(Encoded(part), EncodeEntry(lk, e))
    BY <2>4, <2>5, EncodedGrows
  <2>7. QED
    BY <2>1, <2>6, Zenon DEF lk, e
<1>4. QED
  BY <1>2, <1>3

\* A block has a size.
LEMMA BlockBytesNat ==
  ASSUME NEW es \in Seq(Entry)
  PROVE  BlockBytes(Encoded(es)) \in Nat
<1> DEFINE block == Encoded(es)
           sizes == [i \in DOMAIN block |->
                       Len(block[i].lengths) + Len(block[i].rest) + block[i].size + 8]
           n == Len(es)
<1>1. n \in Nat /\ block = [i \in 1..n |-> EncodeEntry(IF i = 1 THEN <<>> ELSE es[i - 1].key, es[i])]
  BY DEF Encoded
<1>2. ASSUME NEW i \in 1..n
      PROVE  /\ Len(block[i].lengths) \in Nat /\ Len(block[i].rest) \in Nat
             /\ block[i].size \in Nat
  <2> DEFINE last_key == IF i = 1 THEN <<>> ELSE es[i - 1].key
             e == es[i]
             shared == CommonPrefixLen(last_key, e.key)
             rest == SubSeq(e.key, shared + 1, Len(e.key))
  <2>1. e \in Entry /\ last_key \in Seq(Nat)
    <3>1. CASE i = 1
      <4>1. last_key = <<>> /\ <<>> \in Seq(Nat) /\ e \in Entry
        BY <3>1
      <4>2. QED
        BY <4>1
    <3>2. CASE i # 1
      <4>1. i - 1 \in 1..n /\ es[i - 1] \in Entry /\ e \in Entry
        BY <3>2
      <4>2. QED
        BY <3>2, <4>1 DEF Entry
    <3>3. QED
      BY <3>1, <3>2
  <2>2. block[i] = EncodeEntry(last_key, e)
    <3> HIDE DEF block
    <3>1. QED
      BY <1>1
  <2> HIDE DEF last_key, e, block
  <2>3. e.key \in Seq(Nat) /\ e.size \in Nat
    BY <2>1 DEF Entry
  <2>4. shared \in 0..Len(last_key) /\ shared <= Len(e.key)
    BY <2>1, <2>3, CommonPrefix
  <2>5. shared \in Nat /\ Len(e.key) \in Nat
    <3> HIDE DEF shared
    <3>1. QED
      BY <2>1, <2>3, <2>4
  <2>6. Len(rest) \in Nat
    <3> DEFINE k == e.key
    <3>1. k \in Seq(Nat)
      BY <2>3
    <3> HIDE DEF shared, k
    <3>2. Len(SubSeq(k, shared + 1, Len(k))) \in Nat
      BY <2>4, <2>5, <3>1 DEF k
    <3>3. QED
      BY <3>2 DEF k
  <2> DEFINE x == EncodeVarint[shared]
             y == EncodeVarint[Len(rest)]
             z == EncodeVarint[e.size]
             lengths == x \o y \o z
  <2>7. block[i] = [lengths |-> lengths, rest |-> rest, size |-> e.size, timestamp |-> e.timestamp]
    BY <2>2, Zenon DEF EncodeEntry
  <2>8. EncodeVarint[shared] \in Seq(Nat) /\ EncodeVarint[Len(rest)] \in Seq(Nat)
        /\ EncodeVarint[e.size] \in Seq(Nat)
    BY <2>3, <2>5, <2>6, VarintReads
  <2> HIDE DEF shared, rest
  <2>9. Len(lengths) \in Nat
    <3>1. x \in Seq(Nat) /\ y \in Seq(Nat) /\ z \in Seq(Nat)
      BY <2>8
    <3> HIDE DEF x, y, z
    <3>2. x \o y \in Seq(Nat)
      BY <3>1, ConcatProperties
    <3>3. lengths \in Seq(Nat)
      BY <3>1, <3>2, ConcatProperties
    <3> HIDE DEF lengths
    <3>4. QED
      BY <3>3
  <2> HIDE DEF lengths
  <2>10. block[i].lengths = lengths /\ block[i].rest = rest /\ block[i].size = e.size
    BY <2>7
  <2>11. QED
    BY <2>3, <2>6, <2>9, <2>10
<1>3. sizes \in Seq(Nat)
  <2>1. DOMAIN block = 1..n
    <3> HIDE DEF block, n
    <3>1. QED
      BY <1>1
  <2> HIDE DEF block, n
  <2>2. sizes = [i \in 1..n |-> Len(block[i].lengths) + Len(block[i].rest) + block[i].size + 8]
    BY <2>1
  <2> HIDE DEF sizes
  <2>3. ASSUME NEW i \in 1..n
        PROVE  Len(block[i].lengths) + Len(block[i].rest) + block[i].size + 8 \in Nat
    <3> DEFINE a == Len(block[i].lengths)
               b == Len(block[i].rest)
               c == block[i].size
    <3>1. a \in Nat /\ b \in Nat /\ c \in Nat
      BY <1>2
    <3> HIDE DEF a, b, c
    <3>2. a + b + c + 8 \in Nat
      BY <3>1
    <3>3. QED
      BY <3>2 DEF a, b, c
  <2>4. sizes \in [1..n -> Nat]
    BY <2>2, <2>3
  <2>5. QED
    BY <1>1, <2>4
<1>4. BlockBytes(block) = Total(sizes)
  BY Zenon DEF BlockBytes
<1> HIDE DEF sizes
<1>5. QED
  BY <1>3, <1>4, TotalNat

\* One more entry in the builder
LEMMA BuilderAdds ==
  ASSUME NEW es, Flushable(es), NEW first \in Nat \ {0}, NEW done \in Nat,
         first <= done + 1, done < Len(es), NEW b, BuilderHas(b, es, first, done)
  PROVE  BuilderHas(AddToBlock(b, es[done + 1]), es, first, done + 1)
<1> DEFINE last_key == IF first > done THEN <<>> ELSE es[done].key
           e == es[done + 1]
           old == Encoded(SubSeq(es, first, done))
           new == Encoded(SubSeq(es, first, done + 1))
<1>1. es \in Seq(Entry)
  BY DEF Flushable
<1>2. (old = <<>> <=> first > done) /\ new = Append(old, EncodeEntry(last_key, e))
  BY <1>1, EncodedPart
<1>3. b = [buffer |-> old, last_key |-> last_key,
           first_key |-> IF first > done THEN <<>> ELSE es[first].key]
  BY Zenon DEF BuilderHas
<1> HIDE DEF old, new, last_key
<1>4. b.buffer = old /\ b.last_key = last_key /\ (first <= done => b.first_key = es[first].key)
  BY <1>3
<1>5. AddToBlock(b, e) = [buffer |-> Append(b.buffer, EncodeEntry(b.last_key, e)), last_key |-> e.key,
                          first_key |-> IF b.buffer = <<>> THEN e.key ELSE b.first_key]
  BY Zenon DEF AddToBlock
<1>6. (IF b.buffer = <<>> THEN e.key ELSE b.first_key) = es[first].key
  <2>1. CASE first > done
    <3>1. first = done + 1
      BY <2>1
    <3>2. QED
      BY <1>2, <1>4, <2>1, <3>1
  <2>2. CASE first <= done
    BY <1>2, <1>4, <2>2
  <2>3. QED
    BY <2>1, <2>2
<1>7. AddToBlock(b, e) = [buffer |-> new, last_key |-> e.key, first_key |-> es[first].key]
  BY <1>2, <1>4, <1>5, <1>6
<1>8. ~(first > done + 1)
  OBVIOUS
<1>9. QED
  BY <1>7, <1>8 DEF BuilderHas, new

\* One more time in the header
LEMMA HeaderAdds ==
  ASSUME NEW es, Flushable(es), NEW done \in Nat, done < Len(es), NEW n, NEW header,
         HeaderHas(header, n, es, done), NEW e, e = es[done + 1]
  PROVE  HeaderHas([header EXCEPT !.min_timestamp = Lesser(e.timestamp, header.min_timestamp),
                                  !.max_timestamp = Greater(e.timestamp, header.max_timestamp)],
                   n, es, done + 1)
<1> DEFINE lo == header.min_timestamp
           hi == header.max_timestamp
           t == e.timestamp
           new == [header EXCEPT !.min_timestamp = Lesser(t, lo), !.max_timestamp = Greater(t, hi)]
           times == {es[i].timestamp : i \in 1..done}
           more == {es[i].timestamp : i \in 1..(done + 1)}
<1>1. header \in [num_blocks : Nat, min_timestamp : Nat, max_timestamp : Nat]
      /\ header.num_blocks = n
  BY Zenon DEF HeaderHas
<1>3. es \in Seq(Entry) /\ \A i \in 1..Len(es) : es[i].timestamp \in Nat
  <2>1. es \in Seq(Entry)
    BY DEF Flushable
  <2>2. \A i \in 1..Len(es) : es[i] \in Entry
    BY <2>1
  <2>3. QED
    BY <2>1, <2>2 DEF Entry
<1>4. t \in Nat /\ t <= MaxTimestamp /\ MaxTimestamp \in Nat
  BY <1>3, SsTableAssumption DEF Flushable
<1>5. more = times \cup {t}
  <2>1. \A i \in 1..(done + 1) : i = done + 1 \/ i \in 1..done
    OBVIOUS
  <2>2. done + 1 \in 1..(done + 1) /\ \A i \in 1..done : i \in 1..(done + 1)
    OBVIOUS
  <2>3. QED
    BY <2>1, <2>2
<1>6. /\ Lesser(t, lo) \in more /\ Greater(t, hi) \in more
      /\ \A u \in more : Lesser(t, lo) <= u /\ u <= Greater(t, hi)
  <2>1. CASE done = 0
    <3>1. lo = MaxTimestamp /\ hi = 0
      BY <2>1 DEF HeaderHas
    <3>2. times = {}
      BY <2>1
    <3> HIDE DEF t, lo, hi, times, more
    <3>3. Lesser(t, lo) = t /\ Greater(t, hi) = t
      BY <1>4, <3>1 DEF Lesser, Greater
    <3>4. QED
      BY <1>4, <1>5, <3>2, <3>3
  <2>2. CASE done # 0
    <3>1. lo \in times /\ hi \in times /\ \A u \in times : lo <= u /\ u <= hi
      BY <2>2 DEF HeaderHas
    <3>2. times \subseteq Nat
      BY <1>3
    <3> HIDE DEF t, lo, hi, times, more
    <3>3. lo \in Nat /\ hi \in Nat
      BY <3>1, <3>2
    <3>4. \A u \in more : u \in Nat /\ Lesser(t, lo) <= u /\ u <= Greater(t, hi)
      BY <1>4, <1>5, <3>1, <3>2, <3>3 DEF Lesser, Greater
    <3>5. Lesser(t, lo) \in {t, lo} /\ Greater(t, hi) \in {t, hi}
      BY DEF Lesser, Greater
    <3>6. QED
      BY <1>5, <3>1, <3>4, <3>5
  <2>3. QED
    BY <2>1, <2>2
<1>7. done + 1 # 0
  OBVIOUS
<1>8. /\ new \in [num_blocks : Nat, min_timestamp : Nat, max_timestamp : Nat]
      /\ new.num_blocks = n
      /\ new.min_timestamp = Lesser(t, lo) /\ new.max_timestamp = Greater(t, hi)
  <2>1. lo \in Nat /\ hi \in Nat
    BY <1>1
  <2>2. Lesser(t, lo) \in Nat /\ Greater(t, hi) \in Nat
    <3> HIDE DEF t, lo, hi
    <3>1. QED
      BY <1>4, <2>1 DEF Lesser, Greater
  <2> DEFINE x == Lesser(t, lo)
             y == Greater(t, hi)
  <2>3. new = [header EXCEPT !.min_timestamp = x, !.max_timestamp = y]
    OBVIOUS
  <2> HIDE DEF new, x, y
  <2>4. QED
    BY <1>1, <2>2, <2>3 DEF x, y
<1> HIDE DEF new
<1>9. HeaderHas(new, n, es, done + 1)
  BY <1>6, <1>7, <1>8 DEF HeaderHas
<1>10. QED
  BY <1>9 DEF new

\* A remainder is below the modulus.
LEMMA RemainderBelow ==
  ASSUME NEW a \in Int, NEW b \in Nat \ {0}
  PROVE  a % b \in 0..(b - 1)
OBVIOUS

\* Every position of a key lies within the bit array.
LEMMA PositionsInArray ==
  ASSUME NEW filter, filter.num_bits = NumBits, filter.num_hash_functions = NumHashes,
         filter.bytes = BytesFor(NumBits), NEW h \in Nat \X Nat, NEW p \in Positions(filter, h)
  PROVE  InArray(filter, p) /\ p \in Nat
<1>1. NumBits \in Nat \ {0} /\ NumHashes \in Nat \ {0} /\ Word \in Nat \ {0}
  BY BloomAssumption
<1>2. PICK i \in 0..(NumHashes - 1) :
        p = ((h[1] + ((i * h[2]) % Word)) % Word) % NumBits
  BY DEF Positions
<1>3. h[1] \in Nat /\ h[2] \in Nat /\ i \in Nat
  BY <1>1
<1> DEFINE a == i * h[2]
           b == h[1] + (a % Word)
           c == b % Word
<1>4. a \in Int
  BY <1>3
<1> HIDE DEF a
<1>5. a % Word \in 0..(Word - 1)
  BY <1>1, <1>4, RemainderBelow
<1>6. b \in Int
  BY <1>1, <1>3, <1>5
<1> HIDE DEF b
<1>7. c \in 0..(Word - 1)
  BY <1>1, <1>6, RemainderBelow
<1>8. c \in Int
  <2> HIDE DEF c
  <2>1. QED
    BY <1>1, <1>7
<1> HIDE DEF c
<1>9. c % NumBits \in 0..(NumBits - 1)
  BY <1>1, <1>8, RemainderBelow
<1>10. p = c % NumBits
  BY <1>2 DEF a, b, c
<1>11. p \in 0..(NumBits - 1)
  BY <1>9, <1>10
<1>12. p \div 8 < (NumBits + 7) \div 8
  BY <1>1, <1>11
<1>13. QED
  BY <1>1, <1>11, <1>12 DEF InArray, BytesFor

\* One more key in the filter
LEMMA FilterAdds ==
  ASSUME NEW es, NEW done \in Nat, NEW filter, NEW h, FilterHas(filter, h, es, done),
         h[es[done + 1].key] \in Nat \X Nat
  PROVE  FilterHas(AddToFilter(filter, h[es[done + 1].key]), h, es, done + 1)
<1> DEFINE v == h[es[done + 1].key]
           new == AddToFilter(filter, v)
<1>1. filter \in [num_bits : {NumBits}, num_hash_functions : {NumHashes},
                    bytes : {BytesFor(NumBits)}, bits : SUBSET Nat]
  BY Zenon DEF FilterHas
<1>2. {p \in Positions(filter, v) : InArray(filter, p)} \subseteq Nat
  BY <1>1, PositionsInArray
<1>3. /\ new \in [num_bits : {NumBits}, num_hash_functions : {NumHashes},
                  bytes : {BytesFor(NumBits)}, bits : SUBSET Nat]
      /\ new.num_bits = filter.num_bits /\ new.num_hash_functions = filter.num_hash_functions
      /\ new.bytes = filter.bytes
      /\ filter.num_bits = NumBits /\ filter.num_hash_functions = NumHashes
      /\ filter.bytes = BytesFor(NumBits)
      /\ new.bits = filter.bits \cup {p \in Positions(filter, v) : InArray(filter, p)}
  <2> DEFINE set == {p \in Positions(filter, v) : InArray(filter, p)}
  <2>1. new = [filter EXCEPT !.bits = @ \cup set]
    BY Zenon DEF AddToFilter
  <2> HIDE DEF new, set
  <2>2. QED
    BY <1>1, <1>2, <2>1 DEF set
<1>4. \A u : Positions(new, u) = Positions(filter, u)
  <2> HIDE DEF new
  <2>1. QED
    BY <1>3 DEF Positions
<1>5. \A p : InArray(new, p) <=> InArray(filter, p)
  <2> HIDE DEF new
  <2>1. QED
    BY <1>3 DEF InArray
<1>6. BloomContains(new, v)
  <2>1. v \in Nat \X Nat
    OBVIOUS
  <2> HIDE DEF new, v
  <2>2. \A p \in Positions(filter, v) : InArray(filter, p)
    BY <1>3, <2>1, PositionsInArray
  <2>3. QED
    BY <1>3, <1>4, <1>5, <2>2 DEF BloomContains
<1>7. \A u : BloomContains(filter, u) => BloomContains(new, u)
  <2> HIDE DEF new, v
  <2>1. QED
    BY <1>3, <1>4, <1>5 DEF BloomContains
<1>8. \A i \in 1..(done + 1) : i = done + 1 \/ i \in 1..done
  OBVIOUS
<1>9. \A i \in 1..(done + 1) : BloomContains(new, h[es[i].key])
  <2>1. ASSUME NEW i \in 1..(done + 1) PROVE BloomContains(new, h[es[i].key])
    <3>1. CASE i = done + 1
      BY <1>6, <3>1
    <3>2. CASE i \in 1..done
      <4> HIDE DEF new
      <4>1. QED
        BY <1>7, <3>2 DEF FilterHas
    <3>3. QED
      BY <1>8, <3>1, <3>2
  <2>2. QED
    BY <2>1
<1> HIDE DEF new
<1>10. FilterHas(new, h, es, done + 1)
  BY <1>3, <1>9 DEF FilterHas
<1>11. QED
  BY <1>10 DEF new

\* What SsTableWriter::add does before a full block is flushed
Added(w, h, e) ==
  [w EXCEPT !.bloom_filter = AddToFilter(w.bloom_filter, h[e.key]),
            !.header.min_timestamp = Lesser(e.timestamp, w.header.min_timestamp),
            !.header.max_timestamp = Greater(e.timestamp, w.header.max_timestamp),
            !.builder = AddToBlock(w.builder, e)]

\* SsTableWriter::add of the next entry: the open block now ends with that entry, and the
\* blocks already written are as they were.
LEMMA AddGiven ==
  ASSUME NEW es, Flushable(es), NEW h \in [Keys -> Nat \X Nat], NEW w, NEW cuts, NEW done \in Nat,
         done < Len(es), Given(w, h, es, cuts, done), Unfinished(w)
  PROVE  /\ Given(Added(w, h, es[done + 1]), h, es, cuts, done + 1)
         /\ Unfinished(Added(w, h, es[done + 1]))
<1> DEFINE e == es[done + 1]
           n == Len(w.index_entries)
           v == Added(w, h, e)
           filter == AddToFilter(w.bloom_filter, h[e.key])
           builder == AddToBlock(w.builder, e)
           lo == Lesser(e.timestamp, w.header.min_timestamp)
           hi == Greater(e.timestamp, w.header.max_timestamp)
           header == [w.header EXCEPT !.min_timestamp = lo, !.max_timestamp = hi]
<1>1. /\ DOMAIN w = {"builder", "index_entries", "bloom_filter", "offset", "header", "file"}
      /\ Cuts(cuts, n, done) /\ w.offset \in Nat
      /\ BlocksStored(w.file, w.index_entries, es, cuts, w.offset)
      /\ BuilderHas(w.builder, es, cuts[n] + 1, done)
      /\ HeaderHas(w.header, n, es, done)
      /\ FilterHas(w.bloom_filter, h, es, done)
      /\ w.file[1].kind = "header" /\ w.file[1].at = 0 /\ w.file[1].size = HeaderSize
      /\ w.file[1] = [kind |-> "header", at |-> 0, size |-> HeaderSize, body |-> w.file[1].body]
  BY Zenon DEF Given
<1>2. n \in Nat
  BY <1>1 DEF BlocksStored, IsSeq
<1>3. cuts[n] \in 0..done /\ cuts[n] + 1 \in Nat \ {0} /\ cuts[n] + 1 <= done + 1
  BY <1>1, <1>2 DEF Cuts
<1>4. BuilderHas(builder, es, cuts[n] + 1, done + 1)
  BY <1>1, <1>3, BuilderAdds
<1>5. HeaderHas(header, n, es, done + 1)
  BY <1>1, HeaderAdds
<1>6. FilterHas(filter, h, es, done + 1)
  <2>1. e.key \in Keys
    <3>1. done + 1 \in 1..Len(es)
      BY DEF Flushable
    <3>2. QED
      BY <3>1 DEF Flushable
  <2>2. h[e.key] \in Nat \X Nat
    BY <2>1
  <2>3. QED
    BY <1>1, <2>2, FilterAdds
<1>7. Cuts(cuts, n, done + 1)
  <2>1. 0..done \subseteq 0..(done + 1)
    OBVIOUS
  <2>2. QED
    BY <1>1, <2>1 DEF Cuts
<1>8. w.header \in [num_blocks : Nat, min_timestamp : Nat, max_timestamp : Nat]
      /\ lo \in Nat /\ hi \in Nat
  <2>1. w.header \in [num_blocks : Nat, min_timestamp : Nat, max_timestamp : Nat]
    BY <1>1 DEF HeaderHas
  <2>2. header.min_timestamp \in Nat /\ header.max_timestamp \in Nat
    BY <1>5 DEF HeaderHas
  <2>3. header.min_timestamp = lo /\ header.max_timestamp = hi
    <3> HIDE DEF lo, hi
    <3>1. QED
      BY <2>1
  <2>4. QED
    BY <2>1, <2>2, <2>3
<1>9. v = [w EXCEPT !.bloom_filter = filter, !.header.min_timestamp = lo,
                    !.header.max_timestamp = hi, !.builder = builder]
  BY Zenon DEF Added
<1>10. /\ DOMAIN v = {"builder", "index_entries", "bloom_filter", "offset", "header", "file"}
       /\ v.builder = builder /\ v.bloom_filter = filter /\ v.header = header
       /\ v.index_entries = w.index_entries /\ v.offset = w.offset /\ v.file = w.file
  <2> HIDE DEF v, builder, filter, lo, hi
  <2>1. QED
    BY <1>1, <1>8, <1>9
<1> HIDE DEF v, builder, filter, header
<1>11. Given(v, h, es, cuts, done + 1)
  BY <1>1, <1>4, <1>5, <1>6, <1>7, <1>10 DEF Given
<1>12. Unfinished(v)
  BY <1>10 DEF Unfinished
<1>13. QED
  BY <1>11, <1>12 DEF v

\* A part more at the end of a file
LEMMA FileGrows ==
  ASSUME NEW file, IsSeq(file), NEW kind, NEW size, NEW body
  PROVE  LET t == WriteAll(file, kind, size, body) IN
         /\ IsSeq(t) /\ Len(t) = Len(file) + 1
         /\ \A i \in 1..Len(file) : t[i] = file[i]
         /\ t[Len(file) + 1] = [kind |-> kind, at |-> FileSize(file), size |-> size, body |-> body]
         /\ FileSize(t) = FileSize(file) + size
<1> DEFINE part == [kind |-> kind, at |-> FileSize(file), size |-> size, body |-> body]
           t == Append(file, part)
<1>1. t = WriteAll(file, kind, size, body)
  BY Zenon DEF WriteAll
<1>2. part.at = FileSize(file) /\ part.size = size
  OBVIOUS
<1> HIDE DEF part
<1>3. /\ IsSeq(t) /\ Len(t) = Len(file) + 1 /\ t[Len(file) + 1] = part
      /\ \A i \in 1..Len(file) : t[i] = file[i]
  BY AppendAny
<1> HIDE DEF t
<1>4. Len(file) \in Nat /\ t # <<>>
  BY <1>3 DEF IsSeq
<1>5. FileSize(t) = FileSize(file) + size
  BY <1>2, <1>3, <1>4 DEF FileSize, Last
<1>6. QED
  BY <1>1, <1>3, <1>5, Zenon DEF part

\* A flush closes the block of the builder.
LEMMA FlushGiven ==
  ASSUME SnappyYieldsBytes, NEW es, Flushable(es), NEW h, NEW w, NEW cuts, NEW done \in Nat,
         done <= Len(es), Given(w, h, es, cuts, done), Unfinished(w)
  PROVE  \E more : /\ Given(FlushBlock(w), h, es, more, done)
                   /\ Unfinished(FlushBlock(w)) /\ FlushBlock(w).builder.buffer = <<>>
<1> DEFINE n == Len(w.index_entries)
           buffer == w.builder.buffer
           size == Compressed(BlockBytes(buffer))
           entry == [first_key |-> w.builder.first_key, offset |-> w.offset, size |-> size]
           file == WriteAll(w.file, "block", size, buffer)
           index == Append(w.index_entries, entry)
           v == [w EXCEPT !.file = file, !.index_entries = index, !.offset = w.offset + size,
                          !.header.num_blocks = @ + 1, !.builder = NewBuilder]
           more == [i \in 0..(n + 1) |-> IF i = n + 1 THEN done ELSE cuts[i]]
<1>1. /\ DOMAIN w = {"builder", "index_entries", "bloom_filter", "offset", "header", "file"}
      /\ Cuts(cuts, n, done) /\ w.offset \in Nat
      /\ BlocksStored(w.file, w.index_entries, es, cuts, w.offset)
      /\ BuilderHas(w.builder, es, cuts[n] + 1, done)
      /\ HeaderHas(w.header, n, es, done)
      /\ FilterHas(w.bloom_filter, h, es, done)
      /\ w.file[1].kind = "header" /\ w.file[1].at = 0 /\ w.file[1].size = HeaderSize
      /\ w.file[1] = [kind |-> "header", at |-> 0, size |-> HeaderSize, body |-> w.file[1].body]
  BY Zenon DEF Given
<1>2. CASE buffer = <<>>
  <2>1. FlushBlock(w) = w
    BY <1>2 DEF FlushBlock
  <2>2. QED
    BY <1>2, <2>1
<1>3. CASE buffer # <<>>
  <2>1. FlushBlock(w) = v
    <3>1. FlushBlock(w) = IF buffer = <<>> THEN w ELSE v
      BY Zenon DEF FlushBlock, Reset
    <3> HIDE DEF v, buffer
    <3>2. QED
      BY <1>3, <3>1
  <2>2. n \in Nat /\ IsSeq(w.file) /\ IsSeq(w.index_entries) /\ Len(w.file) = n + 1
        /\ w.offset = FileSize(w.file)
    BY <1>1 DEF BlocksStored, IsSeq, Unfinished
  <2>3. cuts \in [0..n -> 0..done] /\ cuts[0] = 0 /\ cuts[n] \in 0..done
        /\ \A i \in 1..n : cuts[i - 1] < cuts[i]
    BY <1>1, <2>2 DEF Cuts
  <2> DEFINE first == cuts[n] + 1
  <2>4. first \in Nat \ {0} /\ first <= done + 1 /\ es \in Seq(Entry)
    BY <2>3 DEF Flushable
  <2>5. buffer = Encoded(SubSeq(es, first, done)) /\ first <= done
        /\ w.builder.first_key = es[first].key
    <3>1. buffer = Encoded(SubSeq(es, first, done))
          /\ w.builder.first_key = IF first > done THEN <<>> ELSE es[first].key
      <4> HIDE DEF first
      <4>1. QED
        BY <1>1 DEF BuilderHas, first
    <3>2. Encoded(SubSeq(es, first, done)) = <<>> <=> first > done
      <4> HIDE DEF first
      <4>1. QED
        BY <2>4, EncodedPart
    <3> HIDE DEF buffer
    <3>3. ~(first > done)
      BY <1>3, <3>1, <3>2
    <3> HIDE DEF first
    <3>4. QED
      BY <2>4, <3>1, <3>3
  <2>6. size \in Nat \ {0}
    <3>1. SubSeq(es, first, done) \in Seq(Entry)
      <4> HIDE DEF first
      <4>1. QED
        BY <2>4, SubSeqType
    <3>2. BlockBytes(buffer) \in Nat
      <4> DEFINE part == SubSeq(es, first, done)
      <4> HIDE DEF part, buffer
      <4>1. QED
        BY <2>5, <3>1, BlockBytesNat DEF part
    <3>3. QED
      BY <3>2 DEF SnappyYieldsBytes
  <2> HIDE DEF size, buffer
  <2>7. /\ IsSeq(file) /\ Len(file) = n + 2 /\ \A i \in 1..(n + 1) : file[i] = w.file[i]
        /\ file[n + 2] = [kind |-> "block", at |-> w.offset, size |-> size, body |-> buffer]
        /\ FileSize(file) = w.offset + size
    <3>1. LET t == WriteAll(w.file, "block", size, buffer) IN
          /\ IsSeq(t) /\ Len(t) = Len(w.file) + 1
          /\ \A i \in 1..Len(w.file) : t[i] = w.file[i]
          /\ t[Len(w.file) + 1] = [kind |-> "block", at |-> FileSize(w.file), size |-> size, body |-> buffer]
          /\ FileSize(t) = FileSize(w.file) + size
      BY <2>2, FileGrows
    <3>2. Len(w.file) + 1 = n + 2
      BY <2>2
    <3> HIDE DEF file
    <3>3. QED
      BY <2>2, <3>1, <3>2 DEF file
  <2>8. /\ IsSeq(index) /\ Len(index) = n + 1 /\ index[n + 1] = entry
        /\ \A i \in 1..n : index[i] = w.index_entries[i]
    <3> HIDE DEF entry
    <3>1. QED
      BY <2>2, AppendAny
  <2>9. /\ DOMAIN v = {"builder", "index_entries", "bloom_filter", "offset", "header", "file"}
        /\ v.builder = NewBuilder /\ v.bloom_filter = w.bloom_filter
        /\ v.header = [w.header EXCEPT !.num_blocks = w.header.num_blocks + 1]
        /\ v.index_entries = index /\ v.offset = w.offset + size /\ v.file = file
    <3>1. w.header \in [num_blocks : Nat, min_timestamp : Nat, max_timestamp : Nat]
      BY <1>1 DEF HeaderHas
    <3>2. v = [w EXCEPT !.file = file, !.index_entries = index, !.offset = w.offset + size,
                        !.header.num_blocks = @ + 1, !.builder = NewBuilder]
      OBVIOUS
    <3> HIDE DEF v, file, index
    <3>3. QED
      BY <1>1, <3>1, <3>2
  <2>10. entry.first_key = es[first].key /\ entry.offset = w.offset /\ entry.size = size
    BY <2>5
  <2>11. entry = [first_key |-> es[first].key, offset |-> w.offset, size |-> size]
    BY <2>5
  <2> HIDE DEF v, file, index, entry
  <2>12. /\ more \in [0..(n + 1) -> 0..done] /\ more[0] = 0 /\ more[n + 1] = done
         /\ \A i \in 0..n : more[i] = cuts[i]
    <3>1. n + 1 \in 0..(n + 1) /\ 0 \in 0..(n + 1) /\ 0 # n + 1 /\ (\A i \in 0..n : i \in 0..(n + 1) /\ i # n + 1)
          /\ (\A i \in 0..(n + 1) : i = n + 1 \/ i \in 0..n) /\ done \in 0..done
      BY <2>2
    <3> HIDE DEF n
    <3>2. QED
      BY <2>2, <2>3, <3>1
  <2> HIDE DEF more
  <2>13. Cuts(more, n + 1, done)
    <3>1. ASSUME NEW i \in 1..(n + 1) PROVE more[i - 1] < more[i]
      <4>1. CASE i = n + 1
        <5>1. i - 1 = n /\ n \in 0..n
          BY <2>2, <4>1
        <5>2. more[i - 1] = cuts[n] /\ more[i] = done
          BY <2>12, <4>1, <5>1
        <5>3. cuts[n] < done
          BY <2>3, <2>5
        <5>4. QED
          BY <5>2, <5>3
      <4>2. CASE i # n + 1
        <5>1. i \in 1..n /\ i - 1 \in 0..n /\ i \in 0..n
          BY <2>2, <4>2
        <5>2. QED
          BY <2>3, <2>12, <5>1
      <4>3. QED
        BY <4>1, <4>2
    <3>2. QED
      BY <2>12, <3>1 DEF Cuts
  <2>14. w.offset + size \in Nat /\ w.offset < w.offset + size
    BY <1>1, <2>6
  <2>15. ASSUME NEW i \in 1..n
         PROVE  /\ BlockStored(file[i + 1], index[i], es, more[i - 1] + 1, more[i])
                /\ index[i].offset \in Nat /\ index[i].offset < w.offset
    <3>1. /\ BlockStored(w.file[i + 1], w.index_entries[i], es, cuts[i - 1] + 1, cuts[i])
          /\ w.index_entries[i].offset < w.offset
      BY <1>1 DEF BlocksStored
    <3>2. i + 1 \in 1..(n + 1) /\ i - 1 \in 0..n /\ i \in 0..n
      BY <2>2
    <3>3. file[i + 1] = w.file[i + 1] /\ index[i] = w.index_entries[i]
          /\ more[i - 1] = cuts[i - 1] /\ more[i] = cuts[i]
      BY <2>7, <2>8, <2>12, <3>2
    <3>4. QED
      BY <3>1, <3>3 DEF BlockStored
  <2>16. BlockStored(file[n + 2], index[n + 1], es, more[n] + 1, more[n + 1])
    <3>1. more[n] + 1 = first /\ more[n + 1] = done
      BY <2>2, <2>12
    <3>2. file[n + 2] = [kind |-> "block", at |-> w.offset, size |-> size,
                         body |-> Encoded(SubSeq(es, first, done))]
      BY <2>5, <2>7
    <3> HIDE DEF first
    <3>3. QED
      BY <1>1, <2>6, <2>8, <2>10, <2>11, <3>1, <3>2 DEF BlockStored
  <2>17. BlocksStored(file, index, es, more, w.offset + size)
    <3>1. ASSUME NEW i \in 1..(n + 1)
          PROVE  /\ BlockStored(file[i + 1], index[i], es, more[i - 1] + 1, more[i])
                 /\ index[i].offset < w.offset + size
      <4>1. CASE i = n + 1
        <5>1. i + 1 = n + 2 /\ i - 1 = n
          BY <2>2, <4>1
        <5>2. index[i].offset = w.offset
          BY <2>8, <2>10, <4>1
        <5>3. QED
          BY <2>14, <2>16, <4>1, <5>1, <5>2
      <4>2. CASE i # n + 1
        <5>1. i \in 1..n
          BY <2>2, <4>2
        <5>2. QED
          BY <1>1, <2>6, <2>15, <5>1
      <4>3. QED
        BY <4>1, <4>2
    <3>2. ASSUME NEW i \in 1..(n + 1), NEW j \in 1..(n + 1), i < j
          PROVE  index[i].offset < index[j].offset
      <4>1. i \in 1..n
        BY <2>2, <3>2
      <4>2. CASE j = n + 1
        <5>1. index[j].offset = w.offset
          BY <2>8, <2>10, <4>2
        <5>2. QED
          BY <2>15, <4>1, <5>1
      <4>3. CASE j # n + 1
        <5>1. j \in 1..n
          BY <2>2, <4>3
        <5>2. index[i] = w.index_entries[i] /\ index[j] = w.index_entries[j]
          BY <2>8, <4>1, <5>1
        <5>3. QED
          BY <1>1, <3>2, <4>1, <5>1, <5>2 DEF BlocksStored
      <4>4. QED
        BY <4>2, <4>3
    <3>3. Len(file) > Len(index)
      BY <2>2, <2>7, <2>8
    <3>4. QED
      BY <2>7, <2>8, <3>1, <3>2, <3>3 DEF BlocksStored
  <2>18. BuilderHas(NewBuilder, es, done + 1, done)
    <3>1. done + 1 \in Nat \ {0} /\ done + 1 <= done + 1 /\ done + 1 > done
      OBVIOUS
    <3>2. Encoded(SubSeq(es, done + 1, done)) = <<>>
      BY <2>4, <3>1, EncodedPart
    <3>3. QED
      BY <3>1, <3>2 DEF BuilderHas, NewBuilder
  <2>19. HeaderHas(v.header, n + 1, es, done)
    <3> DEFINE header == w.header
               new == [header EXCEPT !.num_blocks = header.num_blocks + 1]
    <3>1. header \in [num_blocks : Nat, min_timestamp : Nat, max_timestamp : Nat]
          /\ header.num_blocks = n
      BY <1>1 DEF HeaderHas
    <3> HIDE DEF header
    <3>2. /\ new \in [num_blocks : Nat, min_timestamp : Nat, max_timestamp : Nat]
          /\ new.num_blocks = n + 1
          /\ new.min_timestamp = header.min_timestamp /\ new.max_timestamp = header.max_timestamp
      BY <3>1
    <3>3. HeaderHas(header, n, es, done)
      BY <1>1 DEF header
    <3> HIDE DEF new
    <3>4. HeaderHas(new, n + 1, es, done)
      BY <3>2, <3>3 DEF HeaderHas
    <3>5. QED
      BY <2>9, <3>4 DEF new, header
  <2>20. v.file[1] = w.file[1]
    <3>1. 1 \in 1..(n + 1)
      BY <2>2
    <3>2. QED
      BY <2>7, <2>9, <3>1
  <2>21. Given(v, h, es, more, done)
    <3>1. Len(v.index_entries) = n + 1 /\ more[n + 1] + 1 = done + 1
      BY <2>8, <2>9, <2>12
    <3>2. BuilderHas(v.builder, es, more[n + 1] + 1, done)
      BY <2>9, <2>18, <3>1
    <3>3. FilterHas(v.bloom_filter, h, es, done)
      BY <1>1, <2>9
    <3>4. BlocksStored(v.file, v.index_entries, es, more, v.offset) /\ v.offset \in Nat
      BY <2>9, <2>14, <2>17
    <3>5. Cuts(more, Len(v.index_entries), done) /\ HeaderHas(v.header, Len(v.index_entries), es, done)
          /\ BuilderHas(v.builder, es, more[Len(v.index_entries)] + 1, done)
      BY <2>13, <2>19, <3>1, <3>2
    <3>6. QED
      BY <1>1, <2>9, <2>20, <3>3, <3>4, <3>5 DEF Given
  <2>22. Unfinished(v) /\ v.builder.buffer = <<>>
    <3>1. NewBuilder.buffer = <<>>
      BY DEF NewBuilder
    <3>2. QED
      BY <2>2, <2>7, <2>8, <2>9, <3>1 DEF Unfinished
  <2>23. QED
    BY <2>1, <2>21, <2>22
<1>4. QED
  BY <1>2, <1>3

\* What is in the blocks so far
LEMMA GivenFacts ==
  ASSUME NEW es, Flushable(es), NEW h, NEW w, NEW cuts, NEW done \in Nat,
         done <= Len(es), Given(w, h, es, cuts, done)
  PROVE  /\ Len(w.index_entries) \in Nat
         /\ cuts[0] = 0 /\ cuts[Len(w.index_entries)] <= done
         /\ \A i \in 0..Len(w.index_entries) : cuts[i] \in 0..done
         /\ \A i \in 1..Len(w.index_entries) :
              /\ cuts[i - 1] \in Nat /\ cuts[i] \in Nat /\ cuts[i - 1] < cuts[i]
              /\ cuts[i] <= done
              /\ cuts[i - 1] + 1 \in 1..Len(es)
              /\ w.index_entries[i].first_key = es[cuts[i - 1] + 1].key
              /\ w.index_entries[i].first_key \in Keys
<1> DEFINE n == Len(w.index_entries)
<1>1. /\ Cuts(cuts, n, done)
      /\ BlocksStored(w.file, w.index_entries, es, cuts, w.offset)
  BY Zenon DEF Given
<1>2. n \in Nat
  BY <1>1 DEF BlocksStored, IsSeq
<1>3. cuts \in [0..n -> 0..done] /\ cuts[0] = 0 /\ \A i \in 1..n : cuts[i - 1] < cuts[i]
  BY <1>1 DEF Cuts
<1>4. es \in Seq(Entry) /\ Len(es) \in Nat /\ \A i \in 1..Len(es) : es[i].key \in Keys
  BY DEF Flushable
<1>5. n \in 0..n
  BY <1>2
<1>6. ASSUME NEW i \in 1..n
      PROVE  /\ cuts[i - 1] \in Nat /\ cuts[i] \in Nat /\ cuts[i - 1] < cuts[i]
             /\ cuts[i] <= done
             /\ cuts[i - 1] + 1 \in 1..Len(es)
             /\ w.index_entries[i].first_key = es[cuts[i - 1] + 1].key
             /\ w.index_entries[i].first_key \in Keys
  <2>1. i - 1 \in 0..n /\ i \in 0..n
    BY <1>2
  <2>2. cuts[i - 1] \in 0..done /\ cuts[i] \in 0..done /\ cuts[i - 1] < cuts[i]
    BY <1>3, <2>1
  <2>3. cuts[i - 1] + 1 \in 1..Len(es)
    BY <1>4, <2>2
  <2>4. w.index_entries[i].first_key = es[cuts[i - 1] + 1].key
    <3> DEFINE entry == w.index_entries[i]
               key == es[cuts[i - 1] + 1].key
    <3>1. BlockStored(w.file[i + 1], entry, es, cuts[i - 1] + 1, cuts[i])
      BY <1>1 DEF BlocksStored
    <3>2. entry = [first_key |-> key, offset |-> entry.offset, size |-> entry.size]
      BY <3>1 DEF BlockStored
    <3> HIDE DEF entry, key
    <3>3. entry.first_key = key
      BY <3>2
    <3>4. QED
      BY <3>3 DEF entry, key
  <2>5. QED
    BY <1>4, <2>2, <2>3, <2>4
<1>7. cuts[n] \in 0..done
  BY <1>3, <1>5
<1>8. QED
  BY <1>2, <1>3, <1>6, <1>7

\* The index of a table takes a whole number of bytes.
LEMMA IndexBytesNat ==
  ASSUME NEW index, IsSeq(index), \A i \in 1..Len(index) : index[i].first_key \in Seq(Nat)
  PROVE  IndexBytes(index) \in Nat
<1> DEFINE n == Len(index)
           sizes == [i \in DOMAIN index |-> 2 + Len(index[i].first_key) + 8 + 4]
<1>1. n \in Nat /\ DOMAIN index = 1..n
  BY DEF IsSeq
<1>2. sizes = [i \in 1..n |-> 2 + Len(index[i].first_key) + 8 + 4]
  BY <1>1
<1>3. ASSUME NEW i \in 1..n PROVE 2 + Len(index[i].first_key) + 8 + 4 \in Nat
  <2>1. Len(index[i].first_key) \in Nat
    OBVIOUS
  <2>2. QED
    BY <2>1
<1> HIDE DEF sizes, n
<1>4. sizes \in [1..n -> Nat]
  BY <1>2, <1>3
<1>5. sizes \in Seq(Nat)
  BY <1>1, <1>4
<1>6. IndexBytes(index) = Total(sizes)
  BY Zenon DEF IndexBytes, sizes
<1>7. QED
  BY <1>5, <1>6, TotalNat

\* Writing the header again changes the body of the first part only.
LEMMA HeaderRewritten ==
  ASSUME NEW parts, IsSeq(parts), Len(parts) >= 1, NEW header
  PROVE  LET t == RewriteHeader(parts, header) IN
         /\ IsSeq(t) /\ Len(t) = Len(parts)
         /\ t[1] = [parts[1] EXCEPT !.body = header]
         /\ \A i \in 2..Len(parts) : t[i] = parts[i]
<1> DEFINE n == Len(parts)
           t == RewriteHeader(parts, header)
<1>1. n \in Nat /\ parts = [i \in 1..n |-> parts[i]] /\ 1 \in 1..n
  BY DEF IsSeq
<1> HIDE DEF n
<1>2. /\ t = [i \in 1..n |-> t[i]] /\ t[1] = [parts[1] EXCEPT !.body = header]
      /\ \A i \in 1..n : i # 1 => t[i] = parts[i]
  BY <1>1 DEF RewriteHeader
<1> HIDE DEF t
<1>3. Len(t) = n
  BY <1>1, <1>2
<1>4. \A i \in 2..n : i \in 1..n /\ i # 1
  BY <1>1
<1>5. QED
  BY <1>1, <1>2, <1>3, <1>4 DEF IsSeq, t, n

\* The writer once finish has written what comes behind the blocks, and the header again
Closing(w) ==
  LET filter == EncodeFilter(w.bloom_filter)
      bytes == IndexBytes(w.index_entries)
      footer == [bloom_offset |-> w.offset, bloom_size |-> filter.size,
                 index_offset |-> w.offset + filter.size, index_size |-> bytes]
      filtered == WriteAll(w.file, "bloom", filter.size, filter)
      indexed == WriteAll(filtered, "index", bytes, w.index_entries)
      closed == WriteAll(indexed, "footer", FooterSize, footer)
  IN [w EXCEPT !.offset = footer.index_offset + bytes, !.file = RewriteHeader(closed, w.header)]

\* Finishing the file: the blocks stay, and each part is where the footer says.
LEMMA CloseGiven ==
  ASSUME NEW es, Flushable(es), NEW h, NEW w, NEW cuts, NEW done \in Nat, done <= Len(es),
         Given(w, h, es, cuts, done), Unfinished(w), w.builder.buffer = <<>>
  PROVE  Given(Closing(w), h, es, cuts, done) /\ Closed(Closing(w))
<1> DEFINE filter == EncodeFilter(w.bloom_filter)
           bytes == IndexBytes(w.index_entries)
           footer == [bloom_offset |-> w.offset, bloom_size |-> filter.size,
                      index_offset |-> w.offset + filter.size, index_size |-> bytes]
           filtered == WriteAll(w.file, "bloom", filter.size, filter)
           indexed == WriteAll(filtered, "index", bytes, w.index_entries)
           closed == WriteAll(indexed, "footer", FooterSize, footer)
           v == [w EXCEPT !.offset = footer.index_offset + bytes,
                          !.file = RewriteHeader(closed, w.header)]
<1>closing. Closing(w) = v
  BY Zenon DEF Closing
<1> HIDE DEF filter, bytes, footer, filtered, indexed, closed, v
<1>parts. /\ filter = EncodeFilter(w.bloom_filter)
          /\ bytes = IndexBytes(w.index_entries)
          /\ footer = [bloom_offset |-> w.offset, bloom_size |-> filter.size,
                       index_offset |-> w.offset + filter.size, index_size |-> bytes]
          /\ filtered = WriteAll(w.file, "bloom", filter.size, filter)
          /\ indexed = WriteAll(filtered, "index", bytes, w.index_entries)
          /\ closed = WriteAll(indexed, "footer", FooterSize, footer)
          /\ v = [w EXCEPT !.offset = footer.index_offset + bytes,
                           !.file = RewriteHeader(closed, w.header)]
  BY Zenon DEF filter, bytes, footer, filtered, indexed, closed, v
<1> USE <1>parts
<1> DEFINE n == Len(w.index_entries)
           file == RewriteHeader(closed, w.header)
<1>1. /\ DOMAIN w = {"builder", "index_entries", "bloom_filter", "offset", "header", "file"}
      /\ Cuts(cuts, n, done) /\ w.offset \in Nat
      /\ BlocksStored(w.file, w.index_entries, es, cuts, w.offset)
      /\ BuilderHas(w.builder, es, cuts[n] + 1, done)
      /\ HeaderHas(w.header, n, es, done)
      /\ FilterHas(w.bloom_filter, h, es, done)
      /\ w.file[1].kind = "header" /\ w.file[1].at = 0 /\ w.file[1].size = HeaderSize
      /\ w.file[1] = [kind |-> "header", at |-> 0, size |-> HeaderSize, body |-> w.file[1].body]
  BY Zenon DEF Given
<1>2. n \in Nat /\ IsSeq(w.file) /\ IsSeq(w.index_entries) /\ Len(w.file) = n + 1
      /\ w.offset = FileSize(w.file)
  BY <1>1 DEF BlocksStored, IsSeq, Unfinished
<1>3. filter.size \in Nat
  <2>1. w.bloom_filter.bytes = BytesFor(NumBits)
    BY <1>1 DEF FilterHas
  <2>2. BytesFor(NumBits) \in Nat
    BY BloomAssumption DEF BytesFor
  <2>3. filter.size = 8 + w.bloom_filter.bytes
    BY DEF EncodeFilter
  <2>4. QED
    BY <2>1, <2>2, <2>3
<1>4. bytes \in Nat
  <2>1. \A i \in 1..n : w.index_entries[i].first_key \in Keys
    BY GivenFacts
  <2>2. \A i \in 1..n : w.index_entries[i].first_key \in Seq(Nat)
    BY <2>1, MemTableAssumption
  <2>3. QED
    BY <1>2, <2>2, IndexBytesNat
<1>5. /\ footer.bloom_offset = w.offset /\ footer.bloom_size = filter.size
      /\ footer.index_offset = w.offset + filter.size /\ footer.index_size = bytes
  OBVIOUS
<1>6. /\ IsSeq(filtered) /\ Len(filtered) = n + 2 /\ \A i \in 1..(n + 1) : filtered[i] = w.file[i]
      /\ filtered[n + 2] = [kind |-> "bloom", at |-> w.offset, size |-> filter.size, body |-> filter]
      /\ FileSize(filtered) = w.offset + filter.size
  <2>1. /\ IsSeq(filtered) /\ Len(filtered) = Len(w.file) + 1
        /\ \A i \in 1..Len(w.file) : filtered[i] = w.file[i]
        /\ filtered[Len(w.file) + 1] =
             [kind |-> "bloom", at |-> FileSize(w.file), size |-> filter.size, body |-> filter]
        /\ FileSize(filtered) = FileSize(w.file) + filter.size
    BY <1>2, FileGrows
  <2>2. Len(w.file) + 1 = n + 2
    BY <1>2
  <2>3. QED
    BY <1>2, <2>1, <2>2
<1>7. /\ IsSeq(indexed) /\ Len(indexed) = n + 3 /\ \A i \in 1..(n + 2) : indexed[i] = filtered[i]
      /\ indexed[n + 3] = [kind |-> "index", at |-> w.offset + filter.size, size |-> bytes,
                           body |-> w.index_entries]
      /\ FileSize(indexed) = w.offset + filter.size + bytes
  <2>1. /\ IsSeq(indexed) /\ Len(indexed) = Len(filtered) + 1
        /\ \A i \in 1..Len(filtered) : indexed[i] = filtered[i]
        /\ indexed[Len(filtered) + 1] =
             [kind |-> "index", at |-> FileSize(filtered), size |-> bytes, body |-> w.index_entries]
        /\ FileSize(indexed) = FileSize(filtered) + bytes
    BY <1>6, FileGrows
  <2>2. Len(filtered) + 1 = n + 3
    BY <1>2, <1>6
  <2>3. QED
    BY <1>6, <2>1, <2>2
<1>8. /\ IsSeq(closed) /\ Len(closed) = n + 4 /\ \A i \in 1..(n + 3) : closed[i] = indexed[i]
      /\ closed[n + 4] = [kind |-> "footer", at |-> w.offset + filter.size + bytes,
                          size |-> FooterSize, body |-> footer]
  <2>1. /\ IsSeq(closed) /\ Len(closed) = Len(indexed) + 1
        /\ \A i \in 1..Len(indexed) : closed[i] = indexed[i]
        /\ closed[Len(indexed) + 1] =
             [kind |-> "footer", at |-> FileSize(indexed), size |-> FooterSize, body |-> footer]
    BY <1>7, FileGrows
  <2>2. Len(indexed) + 1 = n + 4
    BY <1>2, <1>7
  <2>3. QED
    BY <1>7, <2>1, <2>2
<1>9. /\ \A i \in 1..(n + 1) : closed[i] = w.file[i]
      /\ closed[n + 2] = [kind |-> "bloom", at |-> w.offset, size |-> filter.size, body |-> filter]
      /\ closed[n + 3] = [kind |-> "index", at |-> w.offset + filter.size, size |-> bytes,
                          body |-> w.index_entries]
  <2>1. n + 2 \in 1..(n + 2) /\ n + 2 \in 1..(n + 3) /\ n + 3 \in 1..(n + 3)
        /\ \A i \in 1..(n + 1) : i \in 1..(n + 2) /\ i \in 1..(n + 3)
    BY <1>2
  <2>2. \A i \in 1..(n + 1) : closed[i] = w.file[i]
    BY <1>6, <1>7, <1>8, <2>1
  <2>3. closed[n + 2] = filtered[n + 2] /\ closed[n + 3] = indexed[n + 3]
    <3> HIDE DEF n
    <3>1. QED
      BY <1>7, <1>8, <2>1
  <2>4. QED
    BY <1>6, <1>7, <2>2, <2>3
<1>10. /\ IsSeq(file) /\ Len(file) = n + 4
       /\ \A i \in 2..(n + 4) : file[i] = closed[i]
       /\ file[1] = [kind |-> "header", at |-> 0, size |-> HeaderSize, body |-> w.header]
  <2> DEFINE body == closed[1].body
             header == w.header
  <2>1. closed[1] = [kind |-> "header", at |-> 0, size |-> HeaderSize, body |-> body]
    <3>1. closed[1] = w.file[1]
      <4>1. 1 \in 1..(n + 1)
        BY <1>2
      <4>2. QED
        BY <1>9, <4>1
    <3>2. QED
      BY <1>1, <3>1
  <2>2. file = RewriteHeader(closed, header)
    OBVIOUS
  <2>3. IsSeq(closed) /\ Len(closed) >= 1
    BY <1>2, <1>8
  <2> HIDE DEF file, header, body
  <2>4. /\ IsSeq(file) /\ Len(file) = Len(closed)
        /\ file[1] = [closed[1] EXCEPT !.body = header]
        /\ \A i \in 2..Len(closed) : file[i] = closed[i]
    BY <2>2, <2>3, HeaderRewritten
  <2>5. file[1] = [kind |-> "header", at |-> 0, size |-> HeaderSize, body |-> header]
    <3> DEFINE one == closed[1]
    <3> HIDE DEF one
    <3>1. one \in [kind : {"header"}, at : {0}, size : {HeaderSize}, body : {body, header}]
      BY <2>1 DEF one
    <3>2. [one EXCEPT !.body = header] =
            [kind |-> one.kind, at |-> one.at, size |-> one.size, body |-> header]
      BY <3>1
    <3>3. one.kind = "header" /\ one.at = 0 /\ one.size = HeaderSize
      BY <3>1
    <3>4. QED
      BY <2>4, <3>2, <3>3 DEF one
  <2>6. Len(closed) = n + 4
    BY <1>8
  <2>7. QED
    BY <2>4, <2>5, <2>6 DEF header
<1>11. /\ DOMAIN v = {"builder", "index_entries", "bloom_filter", "offset", "header", "file"}
       /\ v.builder = w.builder /\ v.bloom_filter = w.bloom_filter /\ v.header = w.header
       /\ v.index_entries = w.index_entries /\ v.offset = w.offset + filter.size + bytes
       /\ v.file = file
  <2>1. v = [w EXCEPT !.offset = w.offset + filter.size + bytes, !.file = file]
    BY <1>5
  <2> HIDE DEF file
  <2>2. QED
    BY <1>1, <2>1
<1>12. \A i \in 1..n : file[i + 1] = w.file[i + 1]
  <2>1. \A i \in 1..n : i + 1 \in 1..(n + 1) /\ i + 1 \in 2..(n + 4)
    BY <1>2
  <2> HIDE DEF file
  <2>2. QED
    BY <1>9, <1>10, <2>1
<1>13. n + 2 \in 2..(n + 4) /\ n + 3 \in 2..(n + 4) /\ n + 4 \in 2..(n + 4)
  BY <1>2
<1> HIDE DEF file
<1>14. BlocksStored(file, w.index_entries, es, cuts, v.offset) /\ v.offset \in Nat
  <2>1. w.offset <= v.offset /\ v.offset \in Nat
    BY <1>1, <1>3, <1>4, <1>11
  <2>2. ASSUME NEW i \in 1..n
        PROVE  /\ BlockStored(file[i + 1], w.index_entries[i], es, cuts[i - 1] + 1, cuts[i])
               /\ w.index_entries[i].offset < v.offset
    <3>1. /\ BlockStored(w.file[i + 1], w.index_entries[i], es, cuts[i - 1] + 1, cuts[i])
          /\ w.index_entries[i].offset < w.offset
      BY <1>1 DEF BlocksStored
    <3>2. w.index_entries[i].offset \in Nat
      BY <3>1 DEF BlockStored
    <3>3. QED
      BY <1>1, <1>12, <2>1, <3>1, <3>2
  <2>3. Len(file) > n
    BY <1>2, <1>10
  <2>4. QED
    BY <1>1, <1>2, <1>10, <2>1, <2>2, <2>3 DEF BlocksStored
<1>15. Given(v, h, es, cuts, done)
  <2>1. file[1].kind = "header" /\ file[1].at = 0 /\ file[1].size = HeaderSize
        /\ file[1] = [kind |-> "header", at |-> 0, size |-> HeaderSize, body |-> file[1].body]
    BY <1>10
  <2>2. QED
    BY <1>1, <1>11, <1>14, <2>1 DEF Given
<1>16. Closed(v)
  <2>1. Len(v.file) = n + 4 /\ v.builder.buffer = <<>>
    BY <1>10, <1>11
  <2>2. v.file[1].body = v.header
    BY <1>10, <1>11
  <2>3. /\ v.file[n + 2] = closed[n + 2] /\ v.file[n + 3] = closed[n + 3] /\ v.file[n + 4] = closed[n + 4]
    BY <1>10, <1>11, <1>13
  <2>4. v.file[n + 4].body = footer
    BY <1>8, <2>3
  <2>5. v.file[n + 4].at \in Nat
        /\ v.file[n + 4] = [kind |-> "footer", at |-> v.file[n + 4].at, size |-> FooterSize,
                            body |-> footer]
    BY <1>1, <1>3, <1>4, <1>8, <2>3
  <2>6. v.file[n + 2] = [kind |-> "bloom", at |-> footer.bloom_offset, size |-> footer.bloom_size,
                         body |-> filter]
        /\ v.file[n + 3] = [kind |-> "index", at |-> footer.index_offset, size |-> footer.index_size,
                            body |-> v.index_entries]
    BY <1>5, <1>9, <1>11, <2>3
  <2>7. filter = EncodeFilter(v.bloom_filter) /\ Len(v.index_entries) = n
        /\ footer.bloom_size = filter.size
    BY <1>5, <1>11
  <2>8. QED
    BY <2>1, <2>2, <2>4, <2>5, <2>6, <2>7 DEF Closed
<1>17. QED
  BY <1>15, <1>16, <1>closing, Zenon


------------------------------------------------------------------------------
(* The flush *)

\* The entry of a key
EntryOf(k) == [key |-> k, size |-> data[k].size, timestamp |-> data[k].timestamp]

\* Sizes, numbers of puts and timestamps are natural numbers.
LEMMA SizesAndTimes ==
  /\ ValueSizes \subseteq Nat /\ MaxPuts \in Nat /\ MaxTimestamp \in Nat
  /\ MaxPuts <= MaxTimestamp
<1>1. ValueSizes \subseteq Nat /\ MaxPuts \in Nat
  BY Zenon, MemTableAssumption
<1>2. QED
  BY <1>1, TableAssumption, SsTableAssumption

\* What the memtable hands over: one entry per key, in order.
LEMMA EntriesShape ==
  ASSUME MemInv
  PROVE  /\ Flushable(Entries)
         /\ Len(Entries) \in Nat /\ Len(Entries) = Cardinality(DOMAIN data)
         /\ \A i \in 1..Len(Entries) :
              Entries[i].key \in DOMAIN data /\ Entries[i] = EntryOf(Entries[i].key)
         /\ \A k \in DOMAIN data : \E i \in 1..Len(Entries) : Entries[i] = EntryOf(k)
         /\ \A k \in DOMAIN data : EntryOf(k).key = k
<1> DEFINE D == DOMAIN data
           n == Cardinality(D)
           s == Ascending(D)
           es == [i \in 1..n |-> EntryOf(s[i])]
<1>1. IsFiniteSet(D) /\ D \subseteq Keys /\ D \subseteq Seq(Nat)
  BY MemTableAssumption DEF MemInv
<1>2. /\ n \in Nat /\ s \in [1..n -> D]
      /\ \A i, j \in 1..n : i < j => Less(s[i], s[j])
      /\ \A k \in D : \E i \in 1..n : s[i] = k
  <2> HIDE DEF D
  <2>1. QED
    BY <1>1, AscendingShape
<1> HIDE DEF n
<1>3. Entries = es
  <2>1. Entries = [i \in DOMAIN s |-> EntryOf(s[i])]
    BY Zenon DEF Entries, EntryOf
  <2> HIDE DEF s
  <2>2. DOMAIN s = 1..n
    BY <1>2
  <2>3. QED
    BY <2>1, <2>2
<1>4. \A k \in D : /\ EntryOf(k) \in Entry /\ EntryOf(k).key = k
                   /\ EntryOf(k).timestamp <= MaxTimestamp
  <2> TAKE k \in D
  <2>1. data[k] \in [size : ValueSizes, timestamp : 1..MaxPuts] /\ k \in Seq(Nat)
    BY <1>1 DEF MemInv
  <2> DEFINE d == data[k]
  <2> HIDE DEF d
  <2>4. d.size \in ValueSizes /\ d.timestamp \in 1..MaxPuts
    BY <2>1 DEF d
  <2>6. d.size \in Nat
    BY <2>4, SizesAndTimes
  <2>7. d.timestamp \in Nat /\ d.timestamp <= MaxPuts
    BY <2>4, SizesAndTimes
  <2>2. data[k].size \in Nat /\ data[k].timestamp \in Nat /\ data[k].timestamp <= MaxPuts
    BY <2>6, <2>7 DEF d
  <2>3. data[k].timestamp <= MaxTimestamp
    BY <2>2, SizesAndTimes
  <2>8. IsLength(data[k].size) /\ \A m \in 0..Len(k) : IsLength(m)
    <3>1. \A j \in Keys : \A m \in 0..Len(j) : IsLength(m)
      BY Zenon, LengthsAssumption
    <3>2. \A size \in ValueSizes : IsLength(size)
      BY Zenon, LengthsAssumption
    <3>3. QED
      BY <1>1, <2>4, <3>1, <3>2 DEF d
  <2>5. QED
    BY <2>1, <2>2, <2>3, <2>8 DEF EntryOf, Entry
<1> HIDE DEF s
<1>5. \A i \in 1..n : es[i] = EntryOf(s[i]) /\ s[i] \in D /\ es[i].key = s[i] /\ es[i] \in Entry
  BY <1>2, <1>4
<1>6. es \in Seq(Entry) /\ Len(es) = n
  <2>1. es \in [1..n -> Entry]
    BY <1>5
  <2> HIDE DEF es
  <2>2. QED
    BY <1>2, <2>1
<1> HIDE DEF es, D
<1>7. Flushable(es)
  <2>1. Sorted(es)
    BY <1>2, <1>5, <1>6 DEF Sorted
  <2>2. \A i \in 1..n : es[i].key \in Keys /\ es[i].timestamp <= MaxTimestamp
    BY <1>1, <1>4, <1>5
  <2>3. QED
    BY <1>6, <2>1, <2>2 DEF Flushable
<1>8. \A i \in 1..n : es[i].key \in D /\ es[i] = EntryOf(es[i].key)
  BY <1>5
<1>9. \A k \in D : \E i \in 1..n : es[i] = EntryOf(k)
  BY <1>2, <1>5
<1>10. \A k \in D : EntryOf(k).key = k
  BY <1>4
<1>11. QED
  BY <1>2, <1>3, <1>6, <1>7, <1>8, <1>9, <1>10 DEF D, n

\* A new writer has been given nothing.
LEMMA NewGiven ==
  ASSUME New, NEW es, Flushable(es)
  PROVE  \E cuts : Given(writer, hash_fn, es, cuts, 0) /\ Unfinished(writer)
                   /\ cuts \in [0..Len(writer.index_entries) -> 0..0]
<1> DEFINE cuts == [i \in 0..0 |-> 0]
           one == [kind |-> "header", at |-> 0, size |-> HeaderSize, body |-> NewHeader]
           file == WriteAll(<<>>, "header", HeaderSize, NewHeader)
<1>1. /\ DOMAIN writer = {"builder", "index_entries", "bloom_filter", "offset", "header", "file"}
      /\ writer.builder = NewBuilder /\ writer.index_entries = <<>>
      /\ writer.bloom_filter = NewFilter /\ writer.offset = 64 /\ writer.header = NewHeader
      /\ writer.file = file
  <2> HIDE DEF file
  <2>1. QED
    BY DEF New, DataStart, HeaderSize, file
<1>2. /\ IsSeq(file) /\ Len(file) = 1 /\ file[1] = one /\ FileSize(file) = 64
  <2>1. FileSize(<<>>) = 0
    BY DEF FileSize
  <2>2. file = Append(<<>>, one)
    BY <2>1 DEF WriteAll
  <2>3. one.at = 0 /\ one.size = 64
    BY DEF HeaderSize
  <2> HIDE DEF file, one
  <2>4. IsSeq(file) /\ Len(file) = 1 /\ file[1] = one /\ file # <<>>
    BY <2>2 DEF IsSeq
  <2>5. FileSize(file) = 64
    BY <2>3, <2>4 DEF FileSize, Last
  <2>6. QED
    BY <2>4, <2>5
<1> HIDE DEF file
<1>3. one.kind = "header" /\ one.at = 0 /\ one.size = HeaderSize /\ one.body = NewHeader
  OBVIOUS
<1> HIDE DEF one
<1>4. Len(writer.index_entries) = 0 /\ IsSeq(writer.index_entries)
  BY <1>1 DEF IsSeq
<1>5. cuts[0] = 0 /\ cuts \in [0..0 -> 0..0] /\ Cuts(cuts, 0, 0)
  BY DEF Cuts
<1> HIDE DEF cuts
<1>6. BlocksStored(writer.file, writer.index_entries, es, cuts, writer.offset)
  BY <1>1, <1>2, <1>4 DEF BlocksStored
<1>7. BuilderHas(writer.builder, es, cuts[0] + 1, 0)
  <2>1. Encoded(SubSeq(es, 1, 0)) = <<>>
    <3>1. es \in Seq(Entry)
      BY DEF Flushable
    <3>2. QED
      BY <3>1, EncodedPart
  <2>2. QED
    BY <1>1, <1>5, <2>1 DEF BuilderHas, NewBuilder
<1>8. HeaderHas(writer.header, 0, es, 0)
  BY <1>1, SsTableAssumption DEF HeaderHas, NewHeader
<1>9. FilterHas(writer.bloom_filter, hash_fn, es, 0)
  BY <1>1 DEF FilterHas, NewFilter
<1>10. Given(writer, hash_fn, es, cuts, 0)
  <2>1. writer.file[1] = one
    BY <1>1, <1>2
  <2>2. writer.file[1] = [kind |-> "header", at |-> 0, size |-> HeaderSize,
                          body |-> writer.file[1].body]
    BY <1>3, <2>1 DEF one
  <2>3. QED
    BY <1>1, <1>3, <1>4, <1>5, <1>6, <1>7, <1>8, <1>9, <2>1, <2>2 DEF Given
<1>11. Unfinished(writer)
  BY <1>1, <1>2, <1>4 DEF Unfinished
<1>12. QED
  BY <1>4, <1>5, <1>10, <1>11

\* A put before the freeze keeps the invariant: the writer has been given nothing yet.
LEMMA FillKeeps ==
  ASSUME TableInv, NEW k \in Keys, NEW size \in ValueSizes, Fill(k, size)
  PROVE  TableInv'
<1>1. MemInv /\ Put(k, size) /\ ~frozen /\ UNCHANGED <<svars, frozen, todo, finished>>
  BY DEF Fill, TableInv
<1>2. MemInv'
  <2>1. MemInv /\ Put(k, size) => MemInv'
    BY PutKeepsMemInv, Zenon
  <2>2. QED
    BY <1>1, <2>1
<1>3. FlushInv'
  BY <1>1 DEF TableInv, FlushInv, New, svars
<1>4. QED
  BY <1>2, <1>3 DEF TableInv

\* The freeze hands the entries of the memtable, in order, to a new writer.
LEMMA FreezeKeeps ==
  ASSUME TableInv, Freeze
  PROVE  TableInv'
<1>1. /\ MemInv /\ ~frozen /\ Full /\ frozen' = TRUE /\ todo' = Entries /\ ~finished /\ New
      /\ hash_fn \in HashFns
      /\ UNCHANGED mvars /\ UNCHANGED svars /\ UNCHANGED finished
  BY DEF Freeze, TableInv, FlushInv
<1>2. /\ data' = data /\ size_bytes' = size_bytes /\ puts' = puts /\ writer' = writer
      /\ hash_fn' = hash_fn
  BY <1>1 DEF mvars, svars
<1>3. MemInv'
  <2>1. EntryBytes' = EntryBytes
    BY <1>2 DEF EntryBytes
  <2>2. QED
    BY <1>1, <1>2, <2>1 DEF MemInv
<1>4. DOMAIN data # {}
  <2>1. size_bytes >= MaxSize /\ MaxSize \in Nat \ {0}
    BY <1>1, MemTableAssumption DEF Full
  <2>2. size_bytes # 0
    BY <2>1
  <2>3. QED
    BY <1>1, <2>2 DEF MemInv
<1>5. Entries' = Entries
  BY <1>2 DEF Entries
<1>6. Flushable(Entries) /\ Len(Entries) \in Nat
  BY <1>1, EntriesShape
<1>7. PICK cuts : Given(writer, hash_fn, Entries, cuts, 0) /\ Unfinished(writer)
                   /\ cuts \in [0..Len(writer.index_entries) -> 0..0]
  BY <1>1, <1>6, NewGiven
<1>8. SubSeq(Entries, 1, Len(Entries)) = Entries
  BY <1>6, SubSeqFull DEF Flushable
<1>9. FlushInv'
  <2> DEFINE es == Entries
  <2> HIDE DEF es
  <2>0. es = Entries
    BY DEF es
  <2>1. 0 \in 0..Len(es) /\ SubSeq(es, 0 + 1, Len(es)) = es
    BY <1>6, <1>8 DEF es
  <2>2. \E done \in 0..Len(es) :
            /\ es = SubSeq(es, done + 1, Len(es))
            /\ \E c \in [0..Len(writer.index_entries) -> 0..done] :
                 Given(writer, hash_fn, es, c, done)
            /\ Unfinished(writer)
    BY <1>7, <2>0, <2>1
  <2>3. todo' = es /\ Entries' = es
    BY <1>1, <1>5 DEF es
  <2>4. frozen' /\ ~finished' /\ finished' \in BOOLEAN /\ hash_fn' \in HashFns /\ DOMAIN data' # {}
    BY <1>1, <1>2, <1>4 DEF TableInv, FlushInv
  <2>5. \E done \in 0..Len(Entries') :
            /\ todo' = SubSeq(Entries', done + 1, Len(Entries'))
            /\ \E c \in [0..Len(writer'.index_entries) -> 0..done] :
                 Given(writer', hash_fn', Entries', c, done)
            /\ Unfinished(writer')
    BY <1>2, <2>2, <2>3
  <2>6. QED
    BY <1>1, <2>4, <2>5 DEF FlushInv
<1>10. QED
  BY <1>3, <1>9 DEF TableInv

\* What remains of the entries is cut off one by one.
LEMMA TodoShrinks ==
  ASSUME NEW T, NEW es \in Seq(T), NEW done \in 0..Len(es),
         SubSeq(es, done + 1, Len(es)) # <<>>
  PROVE  /\ done < Len(es)
         /\ Head(SubSeq(es, done + 1, Len(es))) = es[done + 1]
         /\ Tail(SubSeq(es, done + 1, Len(es))) = SubSeq(es, done + 2, Len(es))
<1>1. Len(es) \in Nat /\ done \in Nat /\ done <= Len(es) /\ done + 1 \in Nat \ {0}
      /\ done + 1 <= Len(es) + 1 /\ (done + 1) + 1 = done + 2
  OBVIOUS
<1>2. ~(done + 1 > Len(es))
  BY <1>1, SubSeqType
<1>3. done + 1 \in 1..Len(es) /\ Len(es) \in (done + 1)..Len(es)
  BY <1>1, <1>2
<1>4. QED
  BY <1>1, <1>3, HeadTailOfSubSeq

\* What holds while the memtable is written
LEMMA FrozenFacts ==
  ASSUME TableInv, frozen
  PROVE  /\ MemInv /\ hash_fn \in HashFns /\ hash_fn \in [Keys -> Nat \X Nat]
         /\ Flushable(Entries) /\ Entries \in Seq(Entry) /\ Len(Entries) \in Nat
         /\ DOMAIN data # {}
         /\ \E done \in 0..Len(Entries) : \E cuts :
              /\ todo = SubSeq(Entries, done + 1, Len(Entries))
              /\ Given(writer, hash_fn, Entries, cuts, done)
              /\ IF finished THEN Closed(writer) ELSE Unfinished(writer)
<1>1. MemInv /\ hash_fn \in HashFns /\ DOMAIN data # {}
  BY DEF TableInv, FlushInv
<1>2. hash_fn \in [Keys -> Nat \X Nat]
  BY <1>1, TableAssumption
<1>3. Flushable(Entries) /\ Len(Entries) \in Nat
  BY <1>1, EntriesShape
<1>4. Entries \in Seq(Entry)
  BY <1>3 DEF Flushable
<1>5. \E done \in 0..Len(Entries) : \E cuts :
        /\ todo = SubSeq(Entries, done + 1, Len(Entries))
        /\ Given(writer, hash_fn, Entries, cuts, done)
        /\ IF finished THEN Closed(writer) ELSE Unfinished(writer)
  BY DEF TableInv, FlushInv
<1>6. QED
  BY <1>1, <1>2, <1>3, <1>4, <1>5

\* The same, after a step that leaves the memtable alone
LEMMA StillFrozen ==
  ASSUME TableInv, frozen, UNCHANGED <<mvars, hash_fn, frozen>>, finished' \in BOOLEAN,
         NEW done \in 0..Len(Entries), todo' = SubSeq(Entries, done + 1, Len(Entries)),
         NEW cuts, Given(writer', hash_fn, Entries, cuts, done),
         IF finished' THEN Closed(writer') /\ todo' = <<>> ELSE Unfinished(writer')
  PROVE  TableInv'
<1>1. data' = data /\ size_bytes' = size_bytes /\ puts' = puts /\ hash_fn' = hash_fn
      /\ frozen' = frozen
  BY DEF mvars
<1>2. MemInv'
  <2>1. EntryBytes' = EntryBytes
    BY <1>1 DEF EntryBytes
  <2>2. QED
    BY <1>1, <2>1 DEF MemInv, TableInv
<1>3. Entries' = Entries
  BY <1>1 DEF Entries
<1>4. cuts \in [0..Len(writer'.index_entries) -> 0..done]
  BY DEF Given, Cuts
<1>5. hash_fn \in HashFns /\ DOMAIN data # {} /\ frozen \in BOOLEAN
  BY FrozenFacts DEF TableInv, FlushInv
<1>6. \E d \in 0..Len(Entries') :
        /\ todo' = SubSeq(Entries', d + 1, Len(Entries'))
        /\ \E c \in [0..Len(writer'.index_entries) -> 0..d] :
             Given(writer', hash_fn', Entries', c, d)
        /\ IF finished' THEN Closed(writer') ELSE Unfinished(writer')
  BY <1>1, <1>3, <1>4
<1>7. FlushInv'
  <2>0. frozen = TRUE
    BY <1>5
  <2>1. frozen' = TRUE /\ finished' \in BOOLEAN
    BY <1>1, <2>0
  <2>2. hash_fn' \in HashFns /\ DOMAIN data' # {}
    BY <1>1, <1>5
  <2>3. finished' => todo' = <<>>
    OBVIOUS
  <2>4. QED
    BY <1>6, <2>1, <2>2, <2>3, Zenon DEF FlushInv
<1>8. QED
  BY <1>2, <1>7 DEF TableInv

\* One turn of the flush's loop over the frozen entries: a full block is written before
\* the entry is added to the next.
LEMMA AddNextKeeps ==
  ASSUME SnappyYieldsBytes, TableInv, AddNext
  PROVE  TableInv'
<1> DEFINE es == Entries
           n == Len(es)
<1>1. frozen /\ todo # <<>> /\ Add(Head(todo)) /\ todo' = Tail(todo)
      /\ UNCHANGED <<mvars, frozen, finished>>
  BY DEF AddNext
<1>2. /\ hash_fn \in [Keys -> Nat \X Nat] /\ Flushable(es) /\ es \in Seq(Entry) /\ n \in Nat
      /\ \E done \in 0..n : \E cuts :
           /\ todo = SubSeq(es, done + 1, n)
           /\ Given(writer, hash_fn, es, cuts, done)
           /\ IF finished THEN Closed(writer) ELSE Unfinished(writer)
  BY <1>1, FrozenFacts
<1>3. ~finished
  BY <1>1 DEF TableInv, FlushInv
<1>4. PICK done, cuts :
           /\ done \in 0..n /\ todo = SubSeq(es, done + 1, n)
           /\ Given(writer, hash_fn, es, cuts, done)
           /\ Unfinished(writer)
  BY <1>2, <1>3
<1> HIDE DEF es
<1>5. done < n /\ Head(todo) = es[done + 1] /\ todo' = SubSeq(es, done + 2, n)
  BY <1>1, <1>2, <1>4, TodoShrinks
<1> DEFINE v == Added(writer, hash_fn, es[done + 1])
<1>6. Given(v, hash_fn, es, cuts, done + 1) /\ Unfinished(v)
  BY <1>2, <1>4, <1>5, AddGiven
<1>7. writer' = (IF BlockBytes(v.builder.buffer) >= BlockSize THEN FlushBlock(v) ELSE v)
      /\ hash_fn' = hash_fn
  <2>1. writer' = IF BlockBytes(Added(writer, hash_fn, Head(todo)).builder.buffer) >= BlockSize
                    THEN FlushBlock(Added(writer, hash_fn, Head(todo)))
                    ELSE Added(writer, hash_fn, Head(todo))
    BY <1>1, Zenon DEF Add, Added
  <2>2. hash_fn' = hash_fn
    BY <1>1 DEF Add
  <2>3. QED
    BY <1>5, <2>1, <2>2
<1> HIDE DEF v
<1>8. done + 1 \in Nat /\ done + 1 <= n /\ done + 1 \in 0..n /\ (done + 1) + 1 = done + 2
  BY <1>2, <1>4, <1>5
<1>9. \E more : Given(writer', hash_fn, es, more, done + 1) /\ Unfinished(writer')
  <2>1. CASE BlockBytes(v.builder.buffer) >= BlockSize
    <3>1. \E more : /\ Given(FlushBlock(v), hash_fn, es, more, done + 1)
                    /\ Unfinished(FlushBlock(v)) /\ FlushBlock(v).builder.buffer = <<>>
      BY <1>2, <1>6, <1>8, FlushGiven
    <3>2. QED
      BY <1>7, <2>1, <3>1
  <2>2. CASE ~(BlockBytes(v.builder.buffer) >= BlockSize)
    BY <1>6, <1>7, <2>2
  <2>3. QED
    BY <2>1, <2>2
<1>10. PICK more : Given(writer', hash_fn, es, more, done + 1) /\ Unfinished(writer')
  BY <1>9
<1>11. /\ UNCHANGED <<mvars, hash_fn, frozen>> /\ finished' = FALSE /\ frozen
       /\ todo' = SubSeq(es, (done + 1) + 1, n)
  <2>1. finished' = FALSE
    BY <1>1, <1>3, Zenon DEF TableInv, FlushInv
  <2>2. QED
    BY <1>1, <1>5, <1>7, <1>8, <2>1
<1>12. QED
  BY <1>8, <1>10, <1>11, StillFrozen DEF es

\* SsTableWriter::finish writes the last block, the filter, the index and the footer, and
\* rewrites the header: all entries are then in blocks, and the file is closed.
LEMMA FinishFlushKeeps ==
  ASSUME SnappyYieldsBytes, TableInv, FinishFlush
  PROVE  TableInv'
<1> DEFINE es == Entries
           n == Len(es)
           w == FlushBlock(writer)
<1>1. frozen /\ todo = <<>> /\ ~finished /\ FinishTable /\ finished' = TRUE
      /\ UNCHANGED <<mvars, frozen, todo>>
  BY DEF FinishFlush
<1>2. /\ Flushable(es) /\ es \in Seq(Entry) /\ n \in Nat
      /\ \E done \in 0..n : \E cuts :
           /\ todo = SubSeq(es, done + 1, n)
           /\ Given(writer, hash_fn, es, cuts, done)
           /\ IF finished THEN Closed(writer) ELSE Unfinished(writer)
  BY <1>1, FrozenFacts
<1>3. PICK done, cuts :
           /\ done \in 0..n /\ todo = SubSeq(es, done + 1, n)
           /\ Given(writer, hash_fn, es, cuts, done)
           /\ Unfinished(writer)
  BY <1>1, <1>2
<1>4. writer' = Closing(w) /\ hash_fn' = hash_fn
  BY <1>1, Zenon DEF FinishTable, Closing
<1> HIDE DEF es, w
<1>5. done \in Nat /\ done <= n
  BY <1>2, <1>3
<1>6. PICK more : Given(w, hash_fn, es, more, done) /\ Unfinished(w) /\ w.builder.buffer = <<>>
  BY <1>2, <1>3, <1>5, FlushGiven DEF w
<1>8. Given(Closing(w), hash_fn, es, more, done) /\ Closed(Closing(w))
  BY <1>2, <1>5, <1>6, CloseGiven
<1>9. /\ UNCHANGED <<mvars, hash_fn, frozen>> /\ finished' \in BOOLEAN /\ finished'
      /\ todo' = SubSeq(es, done + 1, n) /\ todo' = <<>>
  BY <1>1, <1>3, <1>4
<1>10. QED
  BY <1>1, <1>3, <1>4, <1>8, <1>9, StillFrozen DEF es

\* The invariant holds before the first put.
LEMMA TableInvInit ==
  ASSUME TableInit
  PROVE  TableInv
<1>1. MemInv
  BY MemInvInit DEF TableInit
<1>2. FlushInv
  BY DEF TableInit, FlushInv, New
<1>3. QED
  BY <1>1, <1>2 DEF TableInv

\* The invariant is about the variables of the module only.
LEMMA TableInvStutter ==
  ASSUME TableInv, UNCHANGED tvars
  PROVE  TableInv'
<1>1. /\ data' = data /\ size_bytes' = size_bytes /\ puts' = puts
      /\ writer' = writer /\ hash_fn' = hash_fn
      /\ frozen' = frozen /\ todo' = todo /\ finished' = finished
  BY DEF tvars, mvars, svars
<1>2. EntryBytes' = EntryBytes
  BY <1>1 DEF EntryBytes
<1>3. Entries' = Entries
  BY <1>1 DEF Entries
<1>4. MemInv'
  BY <1>1, <1>2 DEF MemInv, TableInv
<1>5. New => New'
  BY <1>1 DEF New
<1>6. FlushInv'
  <2>1. frozen => FlushInv'
    BY <1>1, <1>3 DEF TableInv, FlushInv
  <2>2. ~frozen => FlushInv'
    BY <1>1, <1>5 DEF TableInv, FlushInv
  <2>3. QED
    BY <2>1, <2>2
<1>7. QED
  BY <1>4, <1>6 DEF TableInv

\* Whatever is put, whenever the memtable is frozen and however far the flush has come,
\* the writer's file, its index and its open block hold exactly the entries it was given,
\* in order and each once, cut into blocks none of which is empty (MemTable::put,
\* SsTableWriter::add, flush_block and finish).
THEOREM TableInvariant == SnappyYieldsBytes => (TableSpec => []TableInv)
<1> SUFFICES ASSUME SnappyYieldsBytes PROVE TableSpec => []TableInv
  OBVIOUS
<1>1. TableInit => TableInv
  BY TableInvInit
<1>2. TableInv /\ [TableNext]_tvars => TableInv'
  <2> SUFFICES ASSUME TableInv, [TableNext]_tvars PROVE TableInv'
    OBVIOUS
  <2>1. ASSUME NEW k \in Keys, NEW size \in ValueSizes, Fill(k, size) PROVE TableInv'
    BY <2>1, FillKeeps
  <2>2. CASE Freeze
    BY <2>2, FreezeKeeps
  <2>3. CASE AddNext
    BY <2>3, AddNextKeeps
  <2>4. CASE FinishFlush
    BY <2>4, FinishFlushKeeps
  <2>5. CASE UNCHANGED tvars
    BY <2>5, TableInvStutter
  <2>6. QED
    BY <2>1, <2>2, <2>3, <2>4, <2>5 DEF TableNext
<1>3. QED
  BY <1>1, <1>2, PTL DEF TableSpec

\* The memtable's own part of the invariant needs nothing of the encoder.
LEMMA MemInvariant == TableSpec => []MemInv
<1>1. TableInit => MemInv
  BY MemInvInit DEF TableInit
<1>2. MemInv /\ [TableNext]_tvars => MemInv'
  <2> SUFFICES ASSUME MemInv, [TableNext]_tvars PROVE MemInv'
    OBVIOUS
  <2>1. ASSUME NEW k \in Keys, NEW size \in ValueSizes, Fill(k, size) PROVE MemInv'
    <3>1. Put(k, size)
      BY <2>1 DEF Fill
    <3>2. QED
      BY <3>1, PutKeepsMemInv
  <2>2. CASE UNCHANGED mvars
    <3>1. data' = data /\ size_bytes' = size_bytes /\ puts' = puts
      BY <2>2 DEF mvars
    <3>2. EntryBytes' = EntryBytes
      BY <3>1 DEF EntryBytes
    <3>3. QED
      BY <3>1, <3>2 DEF MemInv
  <2>3. QED
    BY <2>1, <2>2 DEF TableNext, Freeze, AddNext, FinishFlush, tvars
<1>3. QED
  BY <1>1, <1>2, PTL DEF TableSpec

\* MemTable's size_bytes, which put changes in one way for a new key (or an empty old value)
\* and in another for a replaced value, is never below the bytes of the entries in the map:
\* the limit it is compared with is never passed unnoticed and its subtraction never
\* underflows.
THEOREM AccountNeverUndercounts == TableSpec => []NeverUndercounts
<1>1. MemInv => NeverUndercounts
  <2> SUFFICES ASSUME MemInv PROVE NeverUndercounts
    OBVIOUS
  <2>1. Cardinality(EntryBytes) \in Nat
    BY FS_CardinalityType DEF MemInv
  <2>2. QED
    BY <2>1 DEF MemInv, NeverUndercounts
<1>2. QED
  BY <1>1, MemInvariant, PTL

------------------------------------------------------------------------------
(* The finished file *)

\* After SsTableWriter::finish every entry of the frozen memtable is in a closed file.
LEMMA FinishedFacts ==
  ASSUME TableInv, finished
  PROVE  /\ frozen
         /\ \E cuts : Given(writer, hash_fn, Entries, cuts, Len(Entries)) /\ Closed(writer)
<1>1. frozen /\ todo = <<>>
  BY DEF TableInv, FlushInv
<1>2. /\ Entries \in Seq(Entry) /\ Len(Entries) \in Nat
      /\ \E done \in 0..Len(Entries) : \E cuts :
           /\ todo = SubSeq(Entries, done + 1, Len(Entries))
           /\ Given(writer, hash_fn, Entries, cuts, done)
           /\ IF finished THEN Closed(writer) ELSE Unfinished(writer)
  BY <1>1, FrozenFacts
<1>3. PICK done, cuts :
        /\ done \in 0..Len(Entries) /\ todo = SubSeq(Entries, done + 1, Len(Entries))
        /\ Given(writer, hash_fn, Entries, cuts, done)
        /\ Closed(writer)
  BY <1>2
<1>4. done + 1 \in Nat \ {0} /\ done + 1 <= Len(Entries) + 1 /\ done \in Nat
  BY <1>2, <1>3
<1>5. done + 1 > Len(Entries)
  <2> DEFINE es == Entries
             n == Len(es)
             first == done + 1
  <2>1. es \in Seq(Entry) /\ n \in Nat /\ n <= Len(es) /\ SubSeq(es, first, n) = <<>>
        /\ first <= n + 1 /\ first \in Nat \ {0}
    BY <1>1, <1>2, <1>3, <1>4
  <2> HIDE DEF es, n, first
  <2>2. SubSeq(es, first, n) = <<>> <=> first > n
    BY <2>1, SubSeqType
  <2>3. QED
    BY <2>1, <2>2 DEF es, n, first
<1>6. done = Len(Entries)
  BY <1>2, <1>3, <1>4, <1>5
<1>7. QED
  BY <1>1, <1>3, <1>6

\* A part that is the only one of its kind at its place is found.
LEMMA OnePart ==
  ASSUME IsSeq(writer.file), NEW i \in 1..Len(writer.file),
         \A j \in 1..Len(writer.file) :
           writer.file[j].kind = writer.file[i].kind /\ writer.file[j].at = writer.file[i].at => j = i
  PROVE  Stored(writer.file[i].kind, writer.file[i].at, writer.file[i].size) = {writer.file[i].body}
<1> DEFINE file == writer.file
           one == file[i]
           found == {g \in Range(file) : g.kind = one.kind /\ g.at = one.at /\ g.size = one.size}
<1>1. Stored(one.kind, one.at, one.size) = {part.body : part \in found}
  BY Zenon DEF Stored
<1> HIDE DEF file
<1>2. Range(file) = {file[j] : j \in 1..Len(file)}
  <2>1. DOMAIN file = 1..Len(file)
    BY DEF IsSeq, file
  <2>2. QED
    BY <2>1 DEF Range
<1>3. one \in found
  BY <1>2 DEF file
<1>4. \A g \in found : g = one
  BY <1>2 DEF file
<1>5. found = {one}
  BY <1>3, <1>4
<1> HIDE DEF found, one
<1>6. {part.body : part \in found} = {one.body}
  BY <1>5
<1>7. QED
  BY <1>1, <1>6 DEF one, file

\* The header, the filter, the index and the footer are the only ones of their
\* kinds, and no two blocks are at the same place.
LEMMA PartsOf ==
  ASSUME NEW w, NEW h, NEW es, NEW cuts, NEW done, Given(w, h, es, cuts, done)
  PROVE  LET n == Len(w.index_entries) IN
         /\ n \in Nat /\ IsSeq(w.file) /\ IsSeq(w.index_entries) /\ Len(w.file) > n
         /\ w.file[1].kind = "header"
         /\ \A i \in 1..n : /\ w.file[i + 1].kind = "block"
                            /\ w.file[i + 1].at = w.index_entries[i].offset
                            /\ w.index_entries[i].offset \in Nat
                            /\ w.index_entries[i].size \in Nat \ {0}
         /\ \A i \in 1..n, j \in 1..n :
              w.index_entries[i].offset = w.index_entries[j].offset => i = j
<1> DEFINE n == Len(w.index_entries)
<1>1. BlocksStored(w.file, w.index_entries, es, cuts, w.offset) /\ w.file[1].kind = "header"
  BY Zenon DEF Given
<1>2. n \in Nat /\ IsSeq(w.file) /\ IsSeq(w.index_entries) /\ Len(w.file) > n
  BY <1>1 DEF BlocksStored, IsSeq
<1>3. ASSUME NEW i \in 1..n
      PROVE  /\ w.file[i + 1].kind = "block" /\ w.file[i + 1].at = w.index_entries[i].offset
             /\ w.index_entries[i].offset \in Nat /\ w.index_entries[i].size \in Nat \ {0}
  <2> DEFINE part == w.file[i + 1]
             entry == w.index_entries[i]
             body == Encoded(SubSeq(es, cuts[i - 1] + 1, cuts[i]))
  <2>1. BlockStored(part, entry, es, cuts[i - 1] + 1, cuts[i])
    BY <1>1 DEF BlocksStored
  <2>2. entry.offset \in Nat /\ entry.size \in Nat \ {0}
        /\ part = [kind |-> "block", at |-> entry.offset, size |-> entry.size, body |-> body]
    BY <2>1 DEF BlockStored
  <2> HIDE DEF part, entry, body
  <2>3. part.kind = "block" /\ part.at = entry.offset
    BY <2>2
  <2>4. QED
    BY <2>2, <2>3 DEF part, entry
<1>4. ASSUME NEW i \in 1..n, NEW j \in 1..n, w.index_entries[i].offset = w.index_entries[j].offset
      PROVE  i = j
  <2>1. w.index_entries[i].offset \in Nat /\ w.index_entries[j].offset \in Nat
    BY <1>3
  <2>2. (i < j => w.index_entries[i].offset < w.index_entries[j].offset)
        /\ (j < i => w.index_entries[j].offset < w.index_entries[i].offset)
    BY <1>1 DEF BlocksStored
  <2>3. i \in Int /\ j \in Int
    BY <1>2
  <2>4. QED
    BY <1>4, <2>1, <2>2, <2>3
<1>5. QED
  BY <1>1, <1>2, <1>3, <1>4

\* The parts of a closed file
LEMMA ClosedParts ==
  ASSUME NEW w, NEW h, NEW es, NEW cuts, NEW done, Given(w, h, es, cuts, done), Closed(w)
  PROVE  LET n == Len(w.index_entries)
             footer == w.file[n + 4].body
         IN /\ Len(w.file) = n + 4 /\ n \in Nat
            /\ w.file[1].kind = "header" /\ w.file[1].at = 0 /\ w.file[1].size = HeaderSize
            /\ w.file[1].body = w.header
            /\ \A i \in 1..n : w.file[i + 1].kind = "block"
            /\ w.file[n + 2].kind = "bloom" /\ w.file[n + 2].at = footer.bloom_offset
            /\ w.file[n + 2].size = footer.bloom_size
            /\ w.file[n + 2].body = EncodeFilter(w.bloom_filter)
            /\ w.file[n + 3].kind = "index" /\ w.file[n + 3].at = footer.index_offset
            /\ w.file[n + 3].size = footer.index_size /\ w.file[n + 3].body = w.index_entries
            /\ w.file[n + 4].kind = "footer" /\ w.file[n + 4].at \in Nat
            /\ w.file[n + 4].size = FooterSize
<1> DEFINE n == Len(w.index_entries)
           footer == w.file[n + 4].body
           filter == EncodeFilter(w.bloom_filter)
<1>1. /\ Len(w.file) = n + 4 /\ w.file[1].body = w.header
      /\ w.file[n + 2] = [kind |-> "bloom", at |-> footer.bloom_offset, size |-> footer.bloom_size,
                          body |-> filter]
      /\ w.file[n + 3] = [kind |-> "index", at |-> footer.index_offset, size |-> footer.index_size,
                          body |-> w.index_entries]
      /\ w.file[n + 4] = [kind |-> "footer", at |-> w.file[n + 4].at, size |-> FooterSize,
                          body |-> footer]
      /\ w.file[n + 4].at \in Nat
  BY Zenon DEF Closed
<1>2. n \in Nat /\ w.file[1].kind = "header" /\ \A i \in 1..n : w.file[i + 1].kind = "block"
  BY PartsOf
<1>3. w.file[1].at = 0 /\ w.file[1].size = HeaderSize
  BY Zenon DEF Given
<1> DEFINE p == w.file[n + 2]
           q == w.file[n + 3]
           r == w.file[n + 4]
<1> HIDE DEF n, filter
<1>4. p.kind = "bloom" /\ p.at = footer.bloom_offset /\ p.size = footer.bloom_size /\ p.body = filter
  <2> HIDE DEF p, footer
  <2>1. p = [kind |-> "bloom", at |-> footer.bloom_offset, size |-> footer.bloom_size, body |-> filter]
    BY <1>1 DEF p
  <2>2. QED
    BY <2>1
<1>5. q.kind = "index" /\ q.at = footer.index_offset /\ q.size = footer.index_size
      /\ q.body = w.index_entries
  <2> HIDE DEF q, footer
  <2>1. q = [kind |-> "index", at |-> footer.index_offset, size |-> footer.index_size,
             body |-> w.index_entries]
    BY <1>1 DEF q
  <2>2. QED
    BY <2>1
<1>6. r.kind = "footer" /\ r.size = FooterSize
  <2> DEFINE at == r.at
             size == FooterSize
             body == footer
  <2>1. r = [kind |-> "footer", at |-> at, size |-> size, body |-> body]
    BY <1>1
  <2> HIDE DEF r, at, size, body
  <2>2. r.kind = "footer" /\ r.size = size
    BY <2>1
  <2>3. QED
    BY <2>2 DEF size
<1>7. QED
  BY <1>1, <1>2, <1>3, <1>4, <1>5, <1>6 DEF n, filter

\* Blocks are right behind the header.
LEMMA BlocksFirst ==
  ASSUME NEW w, NEW h, NEW es, NEW cuts, NEW done, Given(w, h, es, cuts, done),
         Closed(w) \/ Unfinished(w), NEW j \in 1..Len(w.file), w.file[j].kind = "block"
  PROVE  j <= Len(w.index_entries) + 1
<1> DEFINE n == Len(w.index_entries)
<1>1. n \in Nat
  BY PartsOf
<1>2. CASE Unfinished(w)
  <2>1. Len(w.file) = n + 1
    BY <1>2 DEF Unfinished
  <2>2. QED
    BY <1>1, <2>1
<1>3. CASE Closed(w)
  <2>1. Len(w.file) = n + 4 /\ w.file[n + 2].kind = "bloom" /\ w.file[n + 3].kind = "index"
        /\ w.file[n + 4].kind = "footer"
    BY <1>3, ClosedParts
  <2> HIDE DEF n
  <2>2. j # n + 2 /\ j # n + 3 /\ j # n + 4
    BY <2>1
  <2>3. j \in 1..(n + 4)
    BY <2>1
  <2>4. QED
    BY <1>1, <2>2, <2>3 DEF n
<1>4. QED
  BY <1>2, <1>3

\* The reader of the file that was written
Reader == [header |-> writer.header, index |-> writer.index_entries,
           bloom_filter |-> writer.bloom_filter]

\* SsTableReader::open, which goes from the footer at the end of the file to the index and
\* the filter, opens the file of a finished flush in one way: it reads the footer, the
\* index and the filter the writer wrote and nothing else.
LEMMA TheReader ==
  ASSUME TableInv, finished
  PROVE  Readers = {Reader}
<1> DEFINE w == writer
           n == Len(w.index_entries)
           footer == w.file[n + 4].body
           filter == EncodeFilter(w.bloom_filter)
<1>1. PICK cuts : Given(writer, hash_fn, Entries, cuts, Len(Entries)) /\ Closed(writer)
  BY FinishedFacts
<1>2. /\ Len(w.file) = n + 4 /\ n \in Nat
      /\ w.file[1].kind = "header" /\ w.file[1].at = 0 /\ w.file[1].size = HeaderSize
      /\ w.file[1].body = w.header
      /\ \A i \in 1..n : w.file[i + 1].kind = "block"
      /\ w.file[n + 2].kind = "bloom" /\ w.file[n + 2].at = footer.bloom_offset
      /\ w.file[n + 2].size = footer.bloom_size
      /\ w.file[n + 2].body = EncodeFilter(w.bloom_filter)
      /\ w.file[n + 3].kind = "index" /\ w.file[n + 3].at = footer.index_offset
      /\ w.file[n + 3].size = footer.index_size /\ w.file[n + 3].body = w.index_entries
      /\ w.file[n + 4].kind = "footer" /\ w.file[n + 4].at \in Nat
      /\ w.file[n + 4].size = FooterSize
  BY <1>1, ClosedParts
<1>3. IsSeq(w.file)
  BY <1>1, PartsOf
<1> HIDE DEF n
<1>4. \A j \in 1..(n + 4) : \/ j = 1 /\ w.file[j].kind = "header"
                            \/ j \in 2..(n + 1) /\ w.file[j].kind = "block"
                            \/ j = n + 2 /\ w.file[j].kind = "bloom"
                            \/ j = n + 3 /\ w.file[j].kind = "index"
                            \/ j = n + 4 /\ w.file[j].kind = "footer"
  <2> TAKE j \in 1..(n + 4)
  <2>1. CASE j \in 2..(n + 1)
    <3>1. j - 1 \in 1..n /\ (j - 1) + 1 = j
      BY <1>2, <2>1
    <3>2. w.file[(j - 1) + 1].kind = "block"
      BY <1>2, <3>1
    <3>3. QED
      BY <2>1, <3>1, <3>2
  <2>2. CASE j \notin 2..(n + 1)
    <3>1. j = 1 \/ j = n + 2 \/ j = n + 3 \/ j = n + 4
      BY <1>2, <2>2
    <3>2. QED
      BY <1>2, <3>1
  <2>3. QED
    BY <2>1, <2>2
<1>5. 1 \in 1..(n + 4) /\ n + 2 \in 1..(n + 4) /\ n + 3 \in 1..(n + 4) /\ n + 4 \in 1..(n + 4)
  BY <1>2
<1>6. Headers = {w.header}
  <2>1. \A j \in 1..Len(w.file) : w.file[j].kind = w.file[1].kind => j = 1
    BY <1>2, <1>4
  <2>2. Stored(w.file[1].kind, w.file[1].at, w.file[1].size) = {w.file[1].body}
    BY <1>2, <1>3, <1>5, <2>1, OnePart
  <2>3. QED
    BY <1>2, <2>2 DEF Headers
<1>7. Footers = {footer}
  <2>1. \A j \in 1..Len(w.file) : w.file[j].kind = w.file[n + 4].kind => j = n + 4
    BY <1>2, <1>4
  <2> DEFINE p == n + 4
  <2>2. p \in 1..Len(w.file) /\ \A j \in 1..Len(w.file) : w.file[j].kind = w.file[p].kind => j = p
    BY <1>2, <1>5, <2>1
  <2> HIDE DEF p
  <2>3. Stored(w.file[p].kind, w.file[p].at, w.file[p].size) = {w.file[p].body}
    BY <1>3, <2>2, OnePart
  <2>4. FileSize(w.file) - FooterSize = w.file[n + 4].at
    <3>1. w.file # <<>> /\ Last(w.file) = w.file[n + 4]
      BY <1>2, <1>3 DEF Last
    <3>2. FileSize(w.file) = w.file[n + 4].at + 64
      BY <1>2, <3>1 DEF FileSize, FooterSize
    <3> DEFINE at == w.file[n + 4].at
               all == FileSize(w.file)
    <3>3. at \in Nat /\ all = at + 64
      BY <1>2, <3>2
    <3> HIDE DEF at, all
    <3>4. all - 64 = at
      BY <3>3
    <3>5. QED
      BY <3>4 DEF at, all, FooterSize
  <2>5. QED
    BY <1>2, <2>3, <2>4 DEF Footers, p
<1>8. Indexes(footer) = {w.index_entries}
  <2>1. \A j \in 1..Len(w.file) : w.file[j].kind = w.file[n + 3].kind => j = n + 3
    BY <1>2, <1>4
  <2> DEFINE p == n + 3
  <2>2. p \in 1..Len(w.file) /\ \A j \in 1..Len(w.file) : w.file[j].kind = w.file[p].kind => j = p
    BY <1>2, <1>5, <2>1
  <2> HIDE DEF p
  <2>3. Stored(w.file[p].kind, w.file[p].at, w.file[p].size) = {w.file[p].body}
    BY <1>3, <2>2, OnePart
  <2>4. QED
    BY <1>2, <2>3 DEF Indexes, p
<1>9. Stored("bloom", footer.bloom_offset, footer.bloom_size) = {filter}
  <2>1. \A j \in 1..Len(w.file) : w.file[j].kind = w.file[n + 2].kind => j = n + 2
    BY <1>2, <1>4
  <2> DEFINE p == n + 2
  <2>2. p \in 1..Len(w.file) /\ \A j \in 1..Len(w.file) : w.file[j].kind = w.file[p].kind => j = p
    BY <1>2, <1>5, <2>1
  <2> HIDE DEF p
  <2>3. Stored(w.file[p].kind, w.file[p].at, w.file[p].size) = {w.file[p].body}
    BY <1>3, <2>2, OnePart
  <2>4. QED
    BY <1>2, <2>3 DEF p
<1>10. FilterDecodes(filter) /\ DecodeFilter(filter) = w.bloom_filter
  <2> DEFINE f == w.bloom_filter
             B == BytesFor(NumBits)
  <2>1. f \in [num_bits : {NumBits}, num_hash_functions : {NumHashes},
               bytes : {B}, bits : SUBSET Nat]
    BY <1>1 DEF Given, FilterHas
  <2>2. B \in Nat
    BY BloomAssumption DEF BytesFor
  <2>3. BytesFor(f.num_bits) = B
    BY <2>1
  <2> HIDE DEF f, B
  <2>4. f.bytes = B
    BY <2>1
  <2>5. /\ filter.size = 8 + B /\ filter.num_bits = f.num_bits
        /\ filter.num_hash_functions = f.num_hash_functions /\ filter.bits = f.bits
    BY <2>4 DEF EncodeFilter, f
  <2> HIDE DEF filter
  <2>6. filter.size >= 8 /\ filter.size - 8 = B
    BY <2>2, <2>5
  <2>7. FilterDecodes(filter)
    BY <2>3, <2>5, <2>6 DEF FilterDecodes
  <2>8. DecodeFilter(filter) = [num_bits |-> f.num_bits, num_hash_functions |-> f.num_hash_functions,
                                bytes |-> B, bits |-> f.bits]
    BY <2>5, <2>6 DEF DecodeFilter
  <2>9. f = [num_bits |-> f.num_bits, num_hash_functions |-> f.num_hash_functions,
             bytes |-> B, bits |-> f.bits]
    BY <2>1, <2>4
  <2>10. QED
    BY <2>7, <2>8, <2>9 DEF f
<1> HIDE DEF filter, footer
<1>11. Filters(footer) = {filter}
  BY <1>9, <1>10 DEF Filters
<1>12. UNION {Indexes(f) : f \in Footers} = {w.index_entries} /\ UNION {Filters(f) : f \in Footers} = {filter}
  BY <1>7, <1>8, <1>11
<1>13. Readers = {[header |-> h, index |-> i, bloom_filter |-> DecodeFilter(b)] :
                     h \in {w.header}, i \in {w.index_entries}, b \in {filter}}
  <2> DEFINE I == UNION {Indexes(f) : f \in Footers}
             B == UNION {Filters(f) : f \in Footers}
  <2>1. Readers = {[header |-> h, index |-> i, bloom_filter |-> DecodeFilter(b)] :
                     h \in Headers, i \in I, b \in B}
    BY DEF Readers
  <2>2. Headers = {w.header} /\ I = {w.index_entries} /\ B = {filter}
    BY <1>6, <1>12
  <2> HIDE DEF I, B
  <2>3. QED
    BY <2>1, <2>2
<1>14. QED
  BY <1>10, <1>13 DEF Reader

\* The entries of the i-th block
BlockEntries(es, cuts, i) == SubSeq(es, cuts[i - 1] + 1, cuts[i])

\* Every block is read back as its entries.
LEMMA BlocksRead ==
  ASSUME NEW h, NEW es, Flushable(es), NEW cuts, NEW done \in Nat, done <= Len(es),
         Given(writer, h, es, cuts, done), Closed(writer) \/ Unfinished(writer)
  PROVE  \A i \in 1..Len(writer.index_entries) :
           /\ ~ReadBlock(writer.index_entries[i]).corrupted
           /\ ReadBlock(writer.index_entries[i]).entries = BlockEntries(es, cuts, i)
<1> TAKE i \in 1..Len(writer.index_entries)
<1>0. \A j \in 1..Len(writer.file) :
        writer.file[j].kind = "block" => j <= Len(writer.index_entries) + 1
  BY BlocksFirst
<1> DEFINE n == Len(writer.index_entries)
           entry == writer.index_entries[i]
           part == SubSeq(es, cuts[i - 1] + 1, cuts[i])
           body == Encoded(part)
<1>1. /\ n \in Nat /\ IsSeq(writer.file) /\ Len(writer.file) > n /\ Len(writer.file) \in Nat
      /\ writer.file[1].kind = "header"
      /\ \A k \in 1..n : /\ writer.file[k + 1].kind = "block"
                         /\ writer.file[k + 1].at = writer.index_entries[k].offset
      /\ \A k \in 1..n, j \in 1..n :
           writer.index_entries[k].offset = writer.index_entries[j].offset => k = j
  BY PartsOf DEF IsSeq
<1>2. /\ cuts[i - 1] \in Nat /\ cuts[i] \in Nat /\ cuts[i - 1] < cuts[i] /\ cuts[i] <= done
  BY GivenFacts
<1>3. es \in Seq(Entry) /\ Sorted(es) /\ Len(es) \in Nat
  BY DEF Flushable
<1>4. writer.file[i + 1] = [kind |-> "block", at |-> entry.offset, size |-> entry.size, body |-> body]
  <2>1. BlocksStored(writer.file, writer.index_entries, es, cuts, writer.offset)
    BY Zenon DEF Given
  <2>2. BlockStored(writer.file[i + 1], entry, es, cuts[i - 1] + 1, cuts[i])
    BY <2>1 DEF BlocksStored
  <2>3. QED
    BY <2>2 DEF BlockStored
<1>5. Stored("block", entry.offset, entry.size) = {body}
  <2>1. i + 1 \in 1..Len(writer.file)
    BY <1>1
  <2>2. ASSUME NEW j \in 1..Len(writer.file),
               writer.file[j].kind = "block", writer.file[j].at = entry.offset
        PROVE  j = i + 1
    <3>1. j # 1 /\ j <= n + 1 /\ j \in Int /\ j >= 1
      BY <1>0, <1>1, <2>2
    <3>2. j - 1 \in 1..n /\ (j - 1) + 1 = j
      BY <1>1, <3>1
    <3>3. writer.file[(j - 1) + 1].at = writer.index_entries[j - 1].offset
      BY <1>1, <3>2
    <3>4. writer.index_entries[j - 1].offset = writer.index_entries[i].offset
      BY <2>2, <3>2, <3>3
    <3>5. j - 1 = i
      BY <1>1, <3>2, <3>4
    <3>6. QED
      BY <3>1, <3>5
  <2> DEFINE p == i + 1
             at == entry.offset
             size == entry.size
  <2>3. /\ IsSeq(writer.file) /\ p \in 1..Len(writer.file)
        /\ writer.file[p].kind = "block" /\ writer.file[p].at = at /\ writer.file[p].size = size
        /\ writer.file[p].body = body
        /\ \A j \in 1..Len(writer.file) :
             writer.file[j].kind = "block" /\ writer.file[j].at = at => j = p
    BY <1>1, <1>4, <2>1, <2>2
  <2> HIDE DEF body, at, size, p
  <2>4. Stored("block", at, size) = {body}
    BY <2>3, OnePart
  <2>5. QED
    BY <2>4 DEF at, size
<1>6. part \in Seq(Entry) /\ Len(part) = cuts[i] - cuts[i - 1]
      /\ \A j \in 1..Len(part) : part[j] = es[cuts[i - 1] + j]
  <2> DEFINE first == cuts[i - 1] + 1
             last == cuts[i]
  <2>1. first \in Nat \ {0} /\ last \in Nat /\ first <= last + 1 /\ last <= Len(es)
    BY <1>2, <1>3
  <2>2. /\ part \in Seq(Entry) /\ Len(part) = last - first + 1
        /\ \A j \in 1..Len(part) : part[j] = es[first + j - 1]
    <3> HIDE DEF first, last
    <3>1. LET t == SubSeq(es, first, last) IN
          /\ t \in Seq(Entry) /\ Len(t) = last - first + 1
          /\ \A k \in 1..Len(t) : t[k] = es[first + k - 1]
      BY <1>3, <2>1, SubSeqType
    <3>2. QED
      BY <3>1 DEF first, last
  <2> HIDE DEF part
  <2>3. \A j \in 1..Len(part) : first + j - 1 = cuts[i - 1] + j
    BY <1>2
  <2>4. QED
    BY <1>2, <2>2, <2>3
<1> HIDE DEF part
<1>7. Sorted(part)
  <2>1. ASSUME NEW j \in 1..Len(part), NEW k \in 1..Len(part), j < k
        PROVE  Less(part[j].key, part[k].key)
    <3>1. cuts[i - 1] + j \in 1..Len(es) /\ cuts[i - 1] + k \in 1..Len(es)
          /\ cuts[i - 1] + j < cuts[i - 1] + k
      BY <1>2, <1>3, <1>6, <2>1
    <3>2. QED
      BY <1>3, <1>6, <3>1 DEF Sorted
  <2>2. QED
    BY <2>1 DEF Sorted
<1>8. ~DecodeBlock(body).corrupted /\ DecodeBlock(body).entries = part
  BY <1>6, <1>7, BlockDecodes
<1>9. ReadBlock(entry) = DecodeBlock(body)
  <2> DEFINE found == Stored("block", entry.offset, entry.size)
  <2>1. ReadBlock(entry) = IF found = {} THEN [corrupted |-> TRUE, entries |-> <<>>]
                           ELSE DecodeBlock(CHOOSE b \in found : TRUE)
    BY Zenon DEF ReadBlock
  <2>2. found = {body}
    BY <1>5
  <2> HIDE DEF body, found
  <2>3. found # {} /\ (CHOOSE b \in found : TRUE) = body
    <3>1. found # {} /\ \A b \in found : b = body
      BY <2>2
    <3>2. (CHOOSE b \in found : TRUE) \in found
      BY <3>1, Zenon
    <3>3. QED
      BY <3>1, <3>2
  <2>4. QED
    BY <2>1, <2>3, Zenon
<1>10. part = BlockEntries(es, cuts, i)
  BY Zenon DEF part, BlockEntries
<1>11. QED
  BY <1>8, <1>9, <1>10

\* The timestamps of the entries are those of the memtable.
LEMMA TimesOfEntries ==
  ASSUME MemInv
  PROVE  {Entries[i].timestamp : i \in 1..Len(Entries)} = {data[k].timestamp : k \in DOMAIN data}
<1> DEFINE es == Entries
<1>1. /\ \A i \in 1..Len(es) : es[i].key \in DOMAIN data /\ es[i] = EntryOf(es[i].key)
      /\ \A k \in DOMAIN data : \E i \in 1..Len(es) : es[i] = EntryOf(k)
  BY EntriesShape
<1>2. \A k : EntryOf(k).timestamp = data[k].timestamp
  BY DEF EntryOf
<1> HIDE DEF es
<1>3. ASSUME NEW i \in 1..Len(es)
      PROVE  es[i].timestamp \in {data[k].timestamp : k \in DOMAIN data}
  <2>1. es[i].timestamp = EntryOf(es[i].key).timestamp
    BY <1>1
  <2>2. QED
    BY <1>1, <1>2, <2>1
<1>4. ASSUME NEW k \in DOMAIN data
      PROVE  data[k].timestamp \in {es[i].timestamp : i \in 1..Len(es)}
  <2>1. PICK i \in 1..Len(es) : es[i] = EntryOf(k)
    BY <1>1
  <2>2. es[i].timestamp = data[k].timestamp
    BY <1>2, <2>1
  <2>3. QED
    BY <2>2
<1>5. QED
  BY <1>3, <1>4 DEF es

\* What the header says, from the invariant
LEMMA HeaderRight ==
  ASSUME TableInv
  PROVE  HeaderDescribesTable
<1> SUFFICES ASSUME finished
             PROVE  writer.header =
                      [num_blocks |-> Len(writer.index_entries),
                       min_timestamp |-> Min({data[k].timestamp : k \in DOMAIN data}),
                       max_timestamp |-> Max({data[k].timestamp : k \in DOMAIN data})]
  <2>1. finished => Readers = {Reader}
    BY TheReader
  <2>2. Reader.header = writer.header /\ Reader.index = writer.index_entries
    BY DEF Reader
  <2>3. QED
    BY <2>1, <2>2 DEF HeaderDescribesTable
<1> DEFINE header == writer.header
           n == Len(writer.index_entries)
           es == Entries
           times == {data[k].timestamp : k \in DOMAIN data}
<1>1. PICK cuts : Given(writer, hash_fn, Entries, cuts, Len(Entries)) /\ Closed(writer)
  BY FinishedFacts
<1>2. MemInv /\ DOMAIN data # {} /\ frozen
  BY FinishedFacts DEF TableInv, FlushInv
<1>3. HeaderHas(header, n, es, Len(es))
  BY <1>1 DEF Given
<1>4. times = {es[i].timestamp : i \in 1..Len(es)}
  BY <1>2, TimesOfEntries
<1>5. Len(es) # 0
  BY <1>2, EntriesShape
<1> HIDE DEF es, times, header, n
<1>6. /\ header \in [num_blocks : Nat, min_timestamp : Nat, max_timestamp : Nat]
      /\ header.num_blocks = n
      /\ header.min_timestamp \in times /\ header.max_timestamp \in times
      /\ \A t \in times : header.min_timestamp <= t /\ t <= header.max_timestamp
  BY <1>3, <1>4, <1>5 DEF HeaderHas
<1>7. times \subseteq Nat
  <2>1. \A k \in DOMAIN data : data[k].timestamp \in Nat
    <3> TAKE k \in DOMAIN data
    <3>1. data[k] \in [size : ValueSizes, timestamp : 1..MaxPuts]
      BY <1>2 DEF MemInv
    <3> DEFINE d == data[k]
    <3> HIDE DEF d
    <3>2. d.timestamp \in 1..MaxPuts
      BY <3>1 DEF d
    <3>3. QED
      BY <3>2, SizesAndTimes DEF d
  <2>2. QED
    BY <2>1 DEF times
<1>8. Min(times) = header.min_timestamp
  <2> DEFINE m == header.min_timestamp
  <2>1. m \in times /\ \A t \in times : m <= t
    BY <1>6
  <2> HIDE DEF m
  <2>2. Min(times) \in times /\ \A t \in times : Min(times) <= t
    BY <2>1, Zenon DEF Min
  <2> DEFINE x == Min(times)
  <2> HIDE DEF x
  <2>3. m \in Nat /\ x \in Nat /\ m <= x /\ x <= m
    BY <1>7, <2>1, <2>2 DEF x
  <2>4. m = x
    BY <2>3
  <2>5. QED
    BY <2>4 DEF m, x
<1>9. Max(times) = header.max_timestamp
  <2> DEFINE m == header.max_timestamp
  <2>1. m \in times /\ \A t \in times : m >= t
    BY <1>6, <1>7
  <2> HIDE DEF m
  <2>2. Max(times) \in times /\ \A t \in times : Max(times) >= t
    BY <2>1, Zenon DEF Max
  <2> DEFINE x == Max(times)
  <2> HIDE DEF x
  <2>3. m \in Nat /\ x \in Nat /\ m >= x /\ x >= m
    BY <1>7, <2>1, <2>2 DEF x
  <2>4. m = x
    BY <2>3
  <2>5. QED
    BY <2>4 DEF m, x
<1>10. QED
  BY <1>6, <1>8, <1>9 DEF header, n, times

\* The header that SsTableWriter::finish seeks back to write over the one of new() names the
\* number of blocks in the index and the smallest and the largest timestamp of the
\* entries in the file.
THEOREM TableHeaderDescribesTable == SnappyYieldsBytes => (TableSpec => []HeaderDescribesTable)
<1>1. TableInv => HeaderDescribesTable
  BY HeaderRight
<1>2. QED
  BY <1>1, TableInvariant, PTL

\* The types of the variables, from the invariant
LEMMA TypesRight ==
  ASSUME TableInv
  PROVE  TableTypeOK
<1> DEFINE index == writer.index_entries
<1>1. /\ \A k \in DOMAIN data : k \in Keys /\ data[k].size \in ValueSizes
      /\ size_bytes \in Nat /\ puts \in 0..MaxPuts
  BY DEF TableInv, MemInv
<1>2. frozen \in BOOLEAN /\ finished \in BOOLEAN
  BY DEF TableInv, FlushInv
<1>3. /\ \A i \in DOMAIN index : index[i].first_key \in Keys
      /\ writer.builder.buffer = <<>> => writer.builder = NewBuilder
  <2>1. CASE ~frozen
    <3>1. writer.index_entries = <<>> /\ writer.builder = NewBuilder
      BY <2>1 DEF TableInv, FlushInv, New
    <3>2. QED
      BY <3>1
  <2>2. CASE frozen
    <3>1. /\ Flushable(Entries) /\ Entries \in Seq(Entry) /\ Len(Entries) \in Nat
          /\ \E done \in 0..Len(Entries) : \E cuts : Given(writer, hash_fn, Entries, cuts, done)
      BY <2>2, FrozenFacts
    <3>2. PICK done, cuts : done \in 0..Len(Entries) /\ Given(writer, hash_fn, Entries, cuts, done)
      BY <3>1
    <3>3. done \in Nat /\ done <= Len(Entries)
      BY <3>1, <3>2
    <3> DEFINE n == Len(index)
               first == cuts[n] + 1
    <3>4. /\ n \in Nat /\ cuts[n] \in 0..done
          /\ \A i \in 1..n : index[i].first_key \in Keys
      <4>1. /\ Len(writer.index_entries) \in Nat
            /\ \A i \in 0..Len(writer.index_entries) : cuts[i] \in 0..done
            /\ \A i \in 1..Len(writer.index_entries) : writer.index_entries[i].first_key \in Keys
        BY <3>1, <3>2, <3>3, GivenFacts
      <4>2. n \in 0..n
        BY <4>1
      <4>3. QED
        BY <4>1, <4>2
    <3>5. DOMAIN index = 1..n
      <4>1. IsSeq(index)
        BY <3>2, PartsOf
      <4>2. QED
        BY <4>1 DEF IsSeq
    <3>6. BuilderHas(writer.builder, Entries, first, done)
      BY <3>2 DEF Given
    <3> DEFINE builder == writer.builder
               es == Entries
               last_key == IF first > done THEN <<>> ELSE es[done].key
               first_key == IF first > done THEN <<>> ELSE es[first].key
               buffer == Encoded(SubSeq(es, first, done))
    <3>7. builder = [buffer |-> buffer, last_key |-> last_key, first_key |-> first_key]
      BY <3>6 DEF BuilderHas
    <3>8. buffer = <<>> => first > done
      <4>1. first \in Nat \ {0} /\ first <= done + 1
        BY <3>3, <3>4
      <4> HIDE DEF first, es, n
      <4>2. es \in Seq(Entry) /\ done <= Len(es) /\ done \in Nat
        BY <3>1, <3>3 DEF es
      <4>3. Encoded(SubSeq(es, first, done)) = <<>> <=> first > done
        BY <4>1, <4>2, EncodedPart
      <4>4. QED
        BY <4>3
    <3>9. buffer = <<>> => last_key = <<>> /\ first_key = <<>>
      <4> HIDE DEF first, es, buffer
      <4>1. QED
        BY <3>8
    <3> HIDE DEF builder, buffer, last_key, first_key
    <3>10. builder.buffer = buffer
      BY <3>7
    <3>11. builder.buffer = <<>> => builder = NewBuilder
      BY <3>7, <3>9, <3>10 DEF NewBuilder
    <3>12. QED
      BY <3>4, <3>5, <3>11 DEF builder
  <2>3. QED
    BY <2>1, <2>2
<1>4. QED
  BY <1>1, <1>2, <1>3 DEF TableTypeOK

\* The memtable, the index of the writer and its open block have the types the code declares
\* for them, in every state of a flush.
THEOREM TableTypeCorrect == SnappyYieldsBytes => (TableSpec => []TableTypeOK)
<1>1. TableInv => TableTypeOK
  BY TypesRight
<1>2. QED
  BY <1>1, TableInvariant, PTL

------------------------------------------------------------------------------
(* Reading *)

\* The cuts of the entries into blocks never go back.
LEMMA CutsAscend ==
  ASSUME NEW cuts, NEW n \in Nat, NEW done \in Nat, Cuts(cuts, n, done), NEW j \in 0..n
  PROVE  \A i \in 0..j : cuts[i] \in Nat /\ cuts[i] <= cuts[j] /\ cuts[j] <= done /\ cuts[j] \in Nat
<1>1. cuts \in [0..n -> 0..done] /\ \A i \in 1..n : cuts[i - 1] < cuts[i]
  BY DEF Cuts
<1>2. \A i \in 0..n : cuts[i] \in 0..done
  BY <1>1
<1> DEFINE S == {i \in 0..j : cuts[i] <= cuts[j]}
<1>3. j \in S
  BY <1>2
<1>4. ASSUME NEW i \in 0..(j - 1), i + 1 \in S PROVE i \in S
  <2>1. i + 1 \in 1..n /\ (i + 1) - 1 = i /\ i \in 0..n /\ i \in 0..j /\ i + 1 \in 0..n
    OBVIOUS
  <2>2. cuts[(i + 1) - 1] < cuts[i + 1]
    BY <1>1, <2>1
  <2>3. cuts[i] < cuts[i + 1] /\ cuts[i + 1] <= cuts[j]
    BY <1>4, <2>1, <2>2
  <2>4. QED
    BY <1>2, <2>1, <2>3
<1>5. \A i \in 0..j : i \in S
  <2> HIDE DEF S
  <2>1. 0 \in Nat /\ j \in Nat
    OBVIOUS
  <2>2. QED
    BY <1>3, <1>4, <2>1, Downward
<1>6. QED
  BY <1>2, <1>5

\* A part of a sorted sequence is sorted.
LEMMA PartSorted ==
  ASSUME NEW es \in Seq(Entry), Sorted(es), NEW first \in Nat \ {0}, NEW last \in Nat,
         first <= last + 1, last <= Len(es)
  PROVE  SubSeq(es, first, last) \in Seq(Entry) /\ Sorted(SubSeq(es, first, last))
<1> DEFINE part == SubSeq(es, first, last)
<1>1. /\ part \in Seq(Entry) /\ Len(part) = last - first + 1
      /\ \A i \in 1..Len(part) : part[i] = es[first + i - 1]
  BY SubSeqType
<1> HIDE DEF part
<1>2. ASSUME NEW j \in 1..Len(part), NEW k \in 1..Len(part), j < k
      PROVE  Less(part[j].key, part[k].key)
  <2>1. first + j - 1 \in 1..Len(es) /\ first + k - 1 \in 1..Len(es)
        /\ first + j - 1 < first + k - 1
    BY <1>1, <1>2
  <2>2. QED
    BY <1>1, <2>1 DEF Sorted
<1>3. QED
  BY <1>1, <1>2 DEF Sorted, part

\* The blocks from the m-th to the last, read one after the other as scan reads them, give
\* the entries from the first of the m-th block on.
LEMMA EntriesFromIs ==
  ASSUME NEW h, NEW es, Flushable(es), NEW cuts, NEW done \in Nat, done <= Len(es),
         Given(writer, h, es, cuts, done), Closed(writer) \/ Unfinished(writer),
         NEW m \in 1..(Len(writer.index_entries) + 1)
  PROVE  EntriesFrom(writer.index_entries, m)
           = SubSeq(es, cuts[m - 1] + 1, cuts[Len(writer.index_entries)])
<1> DEFINE index == writer.index_entries
           n == Len(index)
           Rule(f) == f = [j \in m..(n + 1) |->
                             IF j > n THEN <<>> ELSE ReadBlock(index[j]).entries \o f[j + 1]]
           from == CHOOSE f : Rule(f)
           rest == [j \in m..(n + 1) |-> SubSeq(es, cuts[j - 1] + 1, cuts[n])]
<1>1. EntriesFrom(index, m) = from[m]
  BY Zenon DEF EntriesFrom
<1>2. n \in Nat /\ Cuts(cuts, n, done)
  BY PartsOf, Zenon DEF Given
<1>3. es \in Seq(Entry) /\ Len(es) \in Nat
  BY DEF Flushable
<1>4. \A i \in 1..n : ReadBlock(index[i]).entries = SubSeq(es, cuts[i - 1] + 1, cuts[i])
  <2>1. \A i \in 1..Len(writer.index_entries) :
          /\ ~ReadBlock(writer.index_entries[i]).corrupted
          /\ ReadBlock(writer.index_entries[i]).entries = BlockEntries(es, cuts, i)
    BY BlocksRead
  <2>2. \A i : BlockEntries(es, cuts, i) = SubSeq(es, cuts[i - 1] + 1, cuts[i])
    BY DEF BlockEntries
  <2>3. QED
    BY <2>1, <2>2
<1>5. n \in 0..n
  BY <1>2
<1>6. \A i \in 0..n : cuts[i] \in Nat /\ cuts[i] <= cuts[n] /\ cuts[n] \in Nat /\ cuts[n] <= Len(es)
  <2> HIDE DEF n
  <2>1. \A i \in 0..n : cuts[i] \in Nat /\ cuts[i] <= cuts[n] /\ cuts[n] <= done /\ cuts[n] \in Nat
    BY <1>2, <1>5, CutsAscend
  <2>2. QED
    BY <1>3, <2>1
<1> HIDE DEF index, n
<1>7. ASSUME NEW j \in m..n
      PROVE  rest[j] = ReadBlock(index[j]).entries \o rest[j + 1]
  <2>1. j \in m..(n + 1) /\ j + 1 \in m..(n + 1) /\ (j + 1) - 1 = j /\ j \in 1..n
        /\ j - 1 \in 0..n /\ j \in 0..n
    BY <1>2
  <2>2. rest[j] = SubSeq(es, cuts[j - 1] + 1, cuts[n]) /\ rest[j + 1] = SubSeq(es, cuts[j] + 1, cuts[n])
    BY <2>1
  <2> DEFINE a == cuts[j - 1]
             b == cuts[j]
             c == cuts[n]
  <2>3. a \in Nat /\ b \in Nat /\ c \in Nat /\ a < b /\ b <= c /\ c <= Len(es)
    <3>1. cuts[j - 1] < cuts[j]
      BY <1>2, <2>1 DEF Cuts
    <3>2. QED
      BY <1>6, <2>1, <3>1
  <2> HIDE DEF a, b, c
  <2>4. a + 1 \in 1..(Len(es) + 1) /\ b \in ((a + 1) - 1)..Len(es) /\ c \in b..Len(es)
    BY <1>3, <2>3
  <2>5. SubSeq(es, a + 1, b) \o SubSeq(es, b + 1, c) = SubSeq(es, a + 1, c)
    BY <1>3, <2>4, ConcatAdjacentSubSeq
  <2>6. ReadBlock(index[j]).entries = SubSeq(es, a + 1, b)
    BY <1>4, <2>1 DEF a, b
  <2> HIDE DEF rest
  <2>7. QED
    BY <2>2, <2>5, <2>6 DEF a, b, c
<1>8. n + 1 \in m..(n + 1) /\ rest[n + 1] = <<>>
  <2>1. n + 1 \in m..(n + 1) /\ (n + 1) - 1 = n
    BY <1>2 DEF n, index
  <2>2. rest[n + 1] = SubSeq(es, cuts[n] + 1, cuts[n])
    BY <2>1
  <2>3. cuts[n] + 1 \in Int /\ cuts[n] \in Int /\ cuts[n] < cuts[n] + 1
    BY <1>5, <1>6
  <2> HIDE DEF rest
  <2>4. QED
    BY <2>1, <2>2, <2>3, SubSeqEmpty
<1>9. Rule(rest)
  <2>1. rest = [j \in m..(n + 1) |-> rest[j]]
    OBVIOUS
  <2> HIDE DEF rest
  <2>2. ASSUME NEW j \in m..(n + 1)
        PROVE  rest[j] = IF j > n THEN <<>> ELSE ReadBlock(index[j]).entries \o rest[j + 1]
    <3>1. CASE j > n
      <4>1. j = n + 1
        BY <1>2, <3>1
      <4>2. QED
        BY <1>8, <3>1, <4>1
    <3>2. CASE ~(j > n)
      <4>1. j \in m..n
        BY <1>2, <3>2
      <4>2. QED
        BY <1>7, <3>2, <4>1
    <3>3. QED
      BY <3>1, <3>2
  <2>3. QED
    BY <2>1, <2>2
<1>10. Rule(from)
  <2> HIDE DEF Rule
  <2>1. QED
    BY <1>9
<1> HIDE DEF from
<1>11. \A j \in m..(n + 1) :
         from[j] = IF j > n THEN <<>> ELSE ReadBlock(index[j]).entries \o from[j + 1]
  BY <1>10
<1> HIDE DEF rest
<1> DEFINE Same == {j \in m..(n + 1) : from[j] = rest[j]}
<1>12. n + 1 \in Same
  <2>1. n + 1 > n
    BY <1>2
  <2>2. QED
    BY <1>8, <1>11, <2>1
<1>13. ASSUME NEW j \in m..n, j + 1 \in Same PROVE j \in Same
  <2>1. ~(j > n) /\ j \in m..(n + 1)
    BY <1>2
  <2>2. from[j + 1] = rest[j + 1]
    BY <1>13
  <2>3. QED
    BY <1>7, <1>11, <2>1, <2>2
<1>14. m \in Same
  <2>1. m \in Nat /\ n + 1 \in Nat /\ m..((n + 1) - 1) = m..n /\ m \in m..(n + 1)
    BY <1>2 DEF n, index
  <2> DEFINE top == n + 1
  <2>2. /\ top \in Nat /\ top \in Same /\ m \in m..top
        /\ \A j \in m..(top - 1) : j + 1 \in Same => j \in Same
    BY <1>12, <1>13, <2>1
  <2> HIDE DEF Same, top
  <2>3. \A j \in m..top : j \in Same
    BY <2>1, <2>2, Downward
  <2>4. QED
    BY <2>2, <2>3
<1>15. from[m] = SubSeq(es, cuts[m - 1] + 1, cuts[n])
  <2>1. from[m] = rest[m] /\ m \in m..(n + 1)
    BY <1>14
  <2>2. QED
    BY <2>1 DEF rest
<1>16. QED
  BY <1>1, <1>15 DEF n, index

\* What the file decodes to, from the invariant
LEMMA DecodesRight ==
  ASSUME TableInv
  PROVE  WrittenDecodes
<1> DEFINE index == writer.index_entries
           buffer == writer.builder.buffer
           n == Len(index)
           es == Entries
           N == Len(es)
<1> SUFFICES ASSUME frozen
             PROVE  /\ \A i \in DOMAIN index : ~ReadBlock(index[i]).corrupted
                    /\ EntriesFrom(index, 1) \o DecodeBlock(buffer).entries \o todo = es
  BY Zenon DEF WrittenDecodes
<1>1. /\ Flushable(es) /\ es \in Seq(Entry) /\ N \in Nat
      /\ \E done \in 0..N : \E cuts :
              /\ todo = SubSeq(es, done + 1, N)
              /\ Given(writer, hash_fn, es, cuts, done)
              /\ IF finished THEN Closed(writer) ELSE Unfinished(writer)
  BY FrozenFacts
<1>2. PICK done, cuts :
        /\ done \in 0..N /\ todo = SubSeq(es, done + 1, N)
        /\ Given(writer, hash_fn, es, cuts, done)
        /\ Closed(writer) \/ Unfinished(writer)
  BY <1>1
<1> HIDE DEF es
<1>3. done \in Nat /\ done <= N /\ Sorted(es)
  BY <1>1, <1>2 DEF Flushable
<1>4. n \in Nat /\ IsSeq(index) /\ Cuts(cuts, n, done) /\ BuilderHas(writer.builder, es, cuts[n] + 1, done)
  BY <1>2, PartsOf, Zenon DEF Given
<1>5. \A i \in 1..n : ~ReadBlock(index[i]).corrupted
  BY <1>1, <1>2, <1>3, BlocksRead
<1>6. DOMAIN index = 1..n
  BY <1>4 DEF IsSeq
<1>7. cuts[0] = 0 /\ cuts[n] \in 0..done
  BY <1>4 DEF Cuts
<1>8. EntriesFrom(index, 1) = SubSeq(es, 1, cuts[n])
  <2>1. 1 \in 1..(n + 1)
    BY <1>4
  <2>2. EntriesFrom(index, 1) = SubSeq(es, cuts[1 - 1] + 1, cuts[n])
    BY <1>1, <1>2, <1>3, <2>1, EntriesFromIs
  <2>3. cuts[1 - 1] + 1 = 1
    BY <1>7
  <2>4. QED
    BY <2>2, <2>3
<1> DEFINE c == cuts[n]
           part == SubSeq(es, c + 1, done)
<1>9. c \in Nat /\ c <= done /\ c + 1 \in Nat \ {0} /\ c + 1 <= done + 1
  BY <1>3, <1>7
<1>10. DecodeBlock(buffer).entries = part
  <2>1. buffer = Encoded(part)
    <3> DEFINE first == c + 1
               last_key == IF first > done THEN <<>> ELSE es[done].key
               first_key == IF first > done THEN <<>> ELSE es[first].key
               bytes == Encoded(part)
               builder == writer.builder
    <3>1. builder = [buffer |-> bytes, last_key |-> last_key, first_key |-> first_key]
      BY <1>4 DEF BuilderHas
    <3> HIDE DEF builder, last_key, first_key, bytes
    <3>2. builder.buffer = bytes
      BY <3>1
    <3>3. QED
      BY <3>2 DEF builder, bytes
  <2>2. part \in Seq(Entry) /\ Sorted(part)
    <3> HIDE DEF c
    <3>1. QED
      BY <1>1, <1>3, <1>9, PartSorted
  <2> HIDE DEF part
  <2>3. QED
    BY <2>1, <2>2, BlockDecodes
<1>11. SubSeq(es, 1, c) \o part \o todo = es
  <2> HIDE DEF c
  <2>1. 1 \in 1..(N + 1) /\ c \in (1 - 1)..N /\ done \in c..N /\ done \in (1 - 1)..N /\ N \in done..N
        /\ c \in Int
    BY <1>1, <1>3, <1>9
  <2>2. SubSeq(es, 1, c) \o SubSeq(es, c + 1, done) = SubSeq(es, 1, done)
    BY <1>1, <2>1, ConcatAdjacentSubSeq
  <2>3. SubSeq(es, 1, done) \o SubSeq(es, done + 1, N) = SubSeq(es, 1, N)
    BY <1>1, <2>1, ConcatAdjacentSubSeq
  <2>4. SubSeq(es, 1, N) = es
    BY <1>1, SubSeqFull
  <2>5. QED
    BY <1>2, <2>2, <2>3, <2>4
<1>12. QED
  BY <1>5, <1>6, <1>8, <1>10, <1>11

\* At every moment of a flush, the blocks in the file, each decompressed and decoded entry by
\* entry against the key before it, then the open block, then what the writer has still
\* to be given, are the entries of the memtable: all of them, none twice, in the same
\* order (BlockBuilder's add, decode_block).
THEOREM FileDecodesToEntries == SnappyYieldsBytes => (TableSpec => []WrittenDecodes)
<1>1. TableInv => WrittenDecodes
  BY DecodesRight
<1>2. QED
  BY <1>1, TableInvariant, PTL

\* A set of the first numbers is as large as its largest.
LEMMA FirstNumbers ==
  ASSUME NEW n \in Nat, NEW S, S \subseteq 1..n, \A j \in S : \A i \in 1..j : i \in S
  PROVE  Cardinality(S) \in 0..n /\ S = 1..Cardinality(S)
<1>1. CASE S = {}
  <2>1. Cardinality(S) = 0
    BY <1>1, FS_EmptySet
  <2>2. QED
    BY <1>1, <2>1
<1>2. CASE S # {}
  <2>1. IsFiniteSet(S) /\ S \subseteq Nat
    <3>1. 1 \in Int /\ n \in Int
      OBVIOUS
    <3>2. IsFiniteSet(1..n)
      BY <3>1, FS_Interval
    <3>3. IsFiniteSet(S)
      BY <3>2, FS_Subset
    <3>4. QED
      BY <3>3
  <2>2. PICK m \in S : \A j \in S : m >= j
    BY <1>2, <2>1, FiniteNatMax
  <2>3. m \in 1..n /\ S = 1..m
    <3>1. m \in 1..n /\ \A i \in 1..m : i \in S
      BY <2>2
    <3>2. \A j \in S : j \in 1..m
      BY <2>2, <3>1
    <3>3. QED
      BY <3>1, <3>2
  <2>4. Cardinality(1..m) = m
    <3>1. 1 \in Int /\ m \in Int /\ 1 <= m
      BY <2>3
    <3>2. Cardinality(1..m) = IF 1 > m THEN 0 ELSE m - 1 + 1
      BY <3>1, FS_Interval
    <3>3. QED
      BY <3>1, <3>2
  <2>5. QED
    BY <2>3, <2>4
<1>3. QED
  BY <1>1, <1>2

\* In a sorted sequence, positions and keys are in the same order.
LEMMA SortedOrder ==
  ASSUME NEW es \in Seq(Entry), Sorted(es), NEW p \in 1..Len(es), NEW q \in 1..Len(es)
  PROVE  /\ es[p].key \in Seq(Nat) /\ es[q].key \in Seq(Nat)
         /\ p < q => Less(es[p].key, es[q].key)
         /\ p <= q => AtMost(es[p].key, es[q].key)
         /\ es[p].key = es[q].key => p = q
<1>1. es[p] \in Entry /\ es[q] \in Entry /\ p \in Int /\ q \in Int
  OBVIOUS
<1>2. es[p].key \in Seq(Nat) /\ es[q].key \in Seq(Nat)
  BY <1>1 DEF Entry
<1>3. (p < q => Less(es[p].key, es[q].key)) /\ (q < p => Less(es[q].key, es[p].key))
  BY DEF Sorted
<1>4. p <= q => AtMost(es[p].key, es[q].key)
  <2>1. p <= q => p < q \/ p = q
    BY <1>1
  <2>2. QED
    BY <1>3, <2>1 DEF AtMost
<1>5. es[p].key = es[q].key => p = q
  <2>1. SUFFICES ASSUME es[p].key = es[q].key, p # q PROVE FALSE
    OBVIOUS
  <2>2. p < q \/ q < p
    BY <1>1, <2>1
  <2>3. QED
    BY <1>2, <1>3, <2>1, <2>2, LessAsymmetric
<1>6. QED
  BY <1>2, <1>3, <1>4, <1>5

\* In a finished table the blocks take in every entry.
LEMMA FinishedCuts ==
  ASSUME TableInv, finished
  PROVE  /\ Flushable(Entries) /\ Entries \in Seq(Entry) /\ Sorted(Entries) /\ Len(Entries) \in Nat
         /\ \E cuts : /\ Given(writer, hash_fn, Entries, cuts, Len(Entries)) /\ Closed(writer)
                      /\ cuts[Len(writer.index_entries)] = Len(Entries)
<1> DEFINE es == Entries
           N == Len(es)
           n == Len(writer.index_entries)
<1>1. Flushable(es) /\ es \in Seq(Entry) /\ Sorted(es) /\ N \in Nat
  BY FinishedFacts, FrozenFacts DEF Flushable
<1>2. PICK cuts : Given(writer, hash_fn, es, cuts, N) /\ Closed(writer)
  BY FinishedFacts
<1> HIDE DEF es
<1>3. n \in Nat /\ Cuts(cuts, n, N) /\ BuilderHas(writer.builder, es, cuts[n] + 1, N)
  BY <1>2, PartsOf, Zenon DEF Given
<1>4. cuts[n] \in 0..N
  BY <1>3 DEF Cuts
<1> DEFINE first == cuts[n] + 1
           bytes == Encoded(SubSeq(es, first, N))
           builder == writer.builder
<1>5. bytes = <<>>
  <2> DEFINE last_key == IF first > N THEN <<>> ELSE es[N].key
             first_key == IF first > N THEN <<>> ELSE es[first].key
  <2>1. builder = [buffer |-> bytes, last_key |-> last_key, first_key |-> first_key]
    BY <1>3 DEF BuilderHas
  <2>2. builder.buffer = <<>>
    BY <1>2 DEF Closed
  <2> HIDE DEF builder, bytes, last_key, first_key
  <2>3. QED
    BY <2>1, <2>2
<1>6. first > N
  <2>1. first \in Nat \ {0} /\ first <= N + 1 /\ N <= Len(es)
    BY <1>1, <1>4
  <2> HIDE DEF first, N
  <2>2. Encoded(SubSeq(es, first, N)) = <<>> <=> first > N
    BY <1>1, <2>1, EncodedPart
  <2>3. QED
    BY <1>5, <2>2
<1>7. cuts[n] = N
  BY <1>1, <1>4, <1>6
<1>8. QED
  BY <1>1, <1>2, <1>7 DEF es

\* The search finds the block behind which all keys are larger, and before which
\* they are smaller.
LEMMA FindBlockIs ==
  ASSUME NEW h, NEW es, Flushable(es), NEW cuts,
         Given(writer, h, es, cuts, Len(es)), cuts[Len(writer.index_entries)] = Len(es),
         NEW key \in Seq(Nat)
  PROVE  LET g == FindBlock(writer.index_entries, key) IN
         /\ g \in 0..Len(writer.index_entries)
         /\ \A p \in 1..Len(es) : AtMost(es[p].key, key) => p <= cuts[g]
         /\ g # 0 => \A p \in 1..cuts[g - 1] : p \in 1..Len(es) /\ Less(es[p].key, key)
<1> DEFINE index == writer.index_entries
           n == Len(index)
           N == Len(es)
           S == {i \in DOMAIN index : AtMost(index[i].first_key, key)}
           g == FindBlock(index, key)
<1>1. es \in Seq(Entry) /\ Sorted(es) /\ N \in Nat
  BY DEF Flushable
<1>2. n \in Nat /\ DOMAIN index = 1..n /\ Cuts(cuts, n, N)
  <2>1. n \in Nat /\ IsSeq(index) /\ Cuts(cuts, n, N)
    BY PartsOf, Zenon DEF Given
  <2>2. QED
    BY <2>1 DEF IsSeq
<1>3. /\ \A i \in 0..n : cuts[i] \in 0..N
      /\ \A i \in 1..n : /\ cuts[i - 1] \in Nat /\ cuts[i] \in Nat /\ cuts[i - 1] < cuts[i]
                         /\ cuts[i - 1] + 1 \in 1..N
                         /\ index[i].first_key = es[cuts[i - 1] + 1].key
  <2>1. N \in Nat /\ N <= Len(es)
    BY <1>1
  <2>2. QED
    BY <1>1, <2>1, GivenFacts
<1>4. g = Cardinality(S)
  BY Zenon DEF FindBlock
<1>5. ASSUME NEW j \in S, NEW i \in 1..j PROVE i \in S
  <2>1. j \in 1..n /\ i \in 1..n /\ i <= j /\ i - 1 \in 0..(j - 1) /\ j - 1 \in 0..n
    BY <1>2
  <2>2. cuts[i - 1] <= cuts[j - 1]
    BY <1>1, <1>2, <2>1, CutsAscend
  <2> DEFINE a == cuts[i - 1] + 1
             b == cuts[j - 1] + 1
  <2>3. a \in 1..N /\ b \in 1..N /\ a <= b
    <3>1. a \in 1..N /\ cuts[i - 1] \in Nat
      BY <1>3, <2>1
    <3>2. b \in 1..N /\ cuts[j - 1] \in Nat
      BY <1>3, <2>1
    <3> DEFINE x == cuts[i - 1]
               y == cuts[j - 1]
    <3>3. x \in Nat /\ y \in Nat /\ x <= y
      BY <2>2, <3>1, <3>2
    <3> HIDE DEF x, y
    <3>4. x + 1 <= y + 1
      BY <3>3
    <3>5. QED
      BY <3>1, <3>2, <3>4 DEF x, y
  <2>4. index[i].first_key = es[a].key /\ index[j].first_key = es[b].key
    BY <1>3, <2>1
  <2> HIDE DEF a, b
  <2>5. AtMost(es[a].key, es[b].key) /\ es[a].key \in Seq(Nat) /\ es[b].key \in Seq(Nat)
    BY <1>1, <2>3, SortedOrder
  <2>6. AtMost(es[b].key, key)
    BY <2>4
  <2>7. AtMost(es[a].key, key)
    BY <2>5, <2>6, AtMostLess
  <2>8. QED
    BY <1>2, <2>1, <2>4, <2>7
<1>6. g \in 0..n /\ S = 1..g
  <2>1. S \subseteq 1..n
    BY <1>2
  <2> HIDE DEF S, n, g
  <2>2. QED
    BY <1>2, <1>4, <1>5, <2>1, FirstNumbers
<1>7. \A i \in 1..n : AtMost(index[i].first_key, key) <=> i <= g
  <2>1. \A i \in 1..n : i \in S <=> AtMost(index[i].first_key, key)
    BY <1>2
  <2>2. \A i \in 1..n : i \in 1..g <=> i <= g
    BY <1>2, <1>6
  <2> HIDE DEF S, n, g
  <2>3. QED
    BY <1>6, <2>1, <2>2
<1> HIDE DEF g, S
<1>8. ASSUME NEW p \in 1..N, AtMost(es[p].key, key) PROVE p <= cuts[g]
  <2>1. SUFFICES ASSUME p > cuts[g] PROVE FALSE
    BY <1>3, <1>6
  <2>2. g # n
    BY <1>1, <2>1
  <2>3. g + 1 \in 1..n /\ (g + 1) - 1 = g /\ ~(g + 1 <= g)
    BY <1>2, <1>6, <2>2
  <2> DEFINE a == cuts[g] + 1
  <2>4. a \in 1..N /\ a <= p /\ index[g + 1].first_key = es[a].key
    BY <1>3, <1>6, <2>1, <2>3
  <2> HIDE DEF a
  <2>5. AtMost(es[a].key, es[p].key) /\ es[a].key \in Seq(Nat) /\ es[p].key \in Seq(Nat)
    BY <1>1, <2>4, SortedOrder
  <2>6. AtMost(es[a].key, key)
    BY <1>8, <2>5, AtMostLess
  <2>7. QED
    BY <1>7, <2>3, <2>4, <2>6
<1>9. ASSUME g # 0, NEW p \in 1..cuts[g - 1] PROVE p \in 1..N /\ Less(es[p].key, key)
  <2>1. g \in 1..n /\ g <= g
    BY <1>6, <1>9
  <2> DEFINE a == cuts[g - 1] + 1
  <2>2. a \in 1..N /\ p < a /\ p \in 1..N /\ index[g].first_key = es[a].key
    BY <1>3, <2>1
  <2> HIDE DEF a
  <2>3. Less(es[p].key, es[a].key) /\ es[a].key \in Seq(Nat) /\ es[p].key \in Seq(Nat)
    BY <1>1, <2>2, SortedOrder
  <2>4. AtMost(es[a].key, key)
    BY <1>7, <2>1, <2>2
  <2>5. QED
    BY <2>2, <2>3, <2>4, AtMostLess
<1>10. QED
  BY <1>6, <1>8, <1>9 DEF g

\* get finds in its block the entry of the key.
LEMMA GetIs ==
  ASSUME TableInv, finished, NEW k \in Keys
  PROVE  TableGet(Reader, k) = [error |-> FALSE, found |-> MemGet(k)]
<1> DEFINE index == writer.index_entries
           n == Len(index)
           es == Entries
           N == Len(es)
           g == FindBlock(index, k)
<1>1. /\ Flushable(es) /\ es \in Seq(Entry) /\ Sorted(es) /\ N \in Nat
      /\ \E cuts : /\ Given(writer, hash_fn, es, cuts, N) /\ Closed(writer) /\ cuts[n] = N
  BY FinishedCuts
<1>2. PICK cuts : Given(writer, hash_fn, es, cuts, N) /\ Closed(writer) /\ cuts[n] = N
  BY <1>1
<1>3. /\ \A i \in 1..N : es[i].key \in DOMAIN data /\ es[i] = EntryOf(es[i].key)
      /\ \A j \in DOMAIN data : \E i \in 1..N : es[i] = EntryOf(j)
      /\ \A j \in DOMAIN data : EntryOf(j).key = j
  BY EntriesShape DEF TableInv
<1>4. MemGet(k) = {EntryOf(j) : j \in DOMAIN data \cap {k}}
  BY Zenon DEF MemGet, EntryOf
<1> HIDE DEF es
<1>5. k \in Seq(Nat)
  BY Zenon, MemTableAssumption
<1>6. /\ g \in 0..n
      /\ \A p \in 1..N : AtMost(es[p].key, k) => p <= cuts[g]
      /\ g # 0 => \A p \in 1..cuts[g - 1] : p \in 1..N /\ Less(es[p].key, k)
  BY <1>1, <1>2, <1>5, FindBlockIs
<1>11. \A i \in 1..n : /\ ~ReadBlock(index[i]).corrupted
                       /\ ReadBlock(index[i]).entries = SubSeq(es, cuts[i - 1] + 1, cuts[i])
  <2>0. N \in Nat /\ N <= Len(es)
    BY <1>1
  <2>1. \A i \in 1..Len(writer.index_entries) :
          /\ ~ReadBlock(writer.index_entries[i]).corrupted
          /\ ReadBlock(writer.index_entries[i]).entries = BlockEntries(es, cuts, i)
    BY <1>1, <1>2, <2>0, BlocksRead
  <2>2. \A i : BlockEntries(es, cuts, i) = SubSeq(es, cuts[i - 1] + 1, cuts[i])
    BY DEF BlockEntries
  <2>3. QED
    BY <2>1, <2>2
<1>7. TableGet(Reader, k) =
        [error |-> FALSE,
         found |-> IF ~BloomContains(writer.bloom_filter, hash_fn[k]) \/ g = 0 THEN {}
                   ELSE {e \in Range(ReadBlock(index[g]).entries) : e.key = k}]
  <2>1. Reader.index = index /\ Reader.bloom_filter = writer.bloom_filter
    BY DEF Reader
  <2>2. TableGet(Reader, k) =
          LET at == FindBlock(Reader.index, k)
              block == ReadBlock(Reader.index[at])
          IN IF ~BloomContains(Reader.bloom_filter, hash_fn[k]) \/ at = 0
               THEN [error |-> FALSE, found |-> {}]
             ELSE IF block.corrupted THEN [error |-> TRUE, found |-> {}]
             ELSE [error |-> FALSE, found |-> {e \in Range(block.entries) : e.key = k}]
    BY Zenon DEF TableGet
  <2>4. g # 0 => ~ReadBlock(index[g]).corrupted
    <3>1. g # 0 => g \in 1..n
      BY <1>6
    <3>2. QED
      BY <1>11, <3>1
  <2> HIDE DEF index
  <2>3. QED
    BY <2>1, <2>2, <2>4
<1> HIDE DEF g
<1>8. g # 0 => /\ cuts[g - 1] \in Nat /\ cuts[g] \in Nat /\ cuts[g] <= N
               /\ Range(ReadBlock(index[g]).entries) = {es[p] : p \in (cuts[g - 1] + 1)..cuts[g]}
  <2> SUFFICES ASSUME g # 0
               PROVE  /\ cuts[g - 1] \in Nat /\ cuts[g] \in Nat /\ cuts[g] <= N
                      /\ Range(ReadBlock(index[g]).entries) = {es[p] : p \in (cuts[g - 1] + 1)..cuts[g]}
    OBVIOUS
  <2>1. g \in 1..n
    BY <1>6
  <2>2. cuts[g - 1] \in Nat /\ cuts[g] \in Nat /\ cuts[g - 1] < cuts[g] /\ cuts[g] <= N
    BY <1>1, <1>2, <2>1, GivenFacts
  <2>3. ReadBlock(index[g]).entries = SubSeq(es, cuts[g - 1] + 1, cuts[g])
    BY <1>11, <2>1
  <2> DEFINE first == cuts[g - 1] + 1
             last == cuts[g]
             t == SubSeq(es, first, last)
  <2>4. first \in Nat \ {0} /\ last \in Nat /\ first <= last + 1 /\ last <= Len(es)
    BY <2>2
  <2> HIDE DEF first, last
  <2>5. /\ t \in Seq(Entry) /\ Len(t) = last - first + 1
        /\ \A i \in 1..Len(t) : t[i] = es[first + i - 1]
    BY <1>1, <2>4, SubSeqType
  <2> HIDE DEF t
  <2>6. Range(t) = {es[p] : p \in first..last}
    <3>1. Range(t) = {t[i] : i \in 1..Len(t)}
      BY <2>5 DEF Range
    <3>2. ASSUME NEW i \in 1..Len(t) PROVE t[i] \in {es[p] : p \in first..last}
      <4>1. first + i - 1 \in first..last
        BY <2>4, <2>5
      <4>2. QED
        BY <2>5, <4>1
    <3>3. ASSUME NEW p \in first..last PROVE es[p] \in {t[i] : i \in 1..Len(t)}
      <4>1. p - first + 1 \in 1..Len(t) /\ first + (p - first + 1) - 1 = p
        BY <2>4, <2>5
      <4>2. QED
        BY <2>5, <4>1
    <3>4. QED
      BY <3>1, <3>2, <3>3
  <2>7. QED
    BY <2>2, <2>3, <2>6 DEF first, last, t
<1>9. CASE k \in DOMAIN data
  <2>1. PICK p \in 1..N : es[p] = EntryOf(k)
    BY <1>3, <1>9
  <2>2. es[p].key = k
    BY <1>3, <1>9, <2>1
  <2>3. BloomContains(writer.bloom_filter, hash_fn[k])
    <3>1. FilterHas(writer.bloom_filter, hash_fn, es, N)
      BY <1>2, Zenon DEF Given
    <3>2. BloomContains(writer.bloom_filter, hash_fn[es[p].key])
      BY <3>1 DEF FilterHas
    <3>3. QED
      BY <2>2, <3>2
  <2>4. p <= cuts[g] /\ p \in Nat /\ p # 0
    <3>1. AtMost(es[p].key, k)
      BY <2>2 DEF AtMost
    <3>2. QED
      BY <1>6, <3>1
  <2>5. g # 0
    <3>1. cuts[0] = 0
      BY <1>2 DEF Given, Cuts
    <3>2. QED
      BY <2>4, <3>1
  <2>6. p \in (cuts[g - 1] + 1)..cuts[g]
    <3>1. ~(p \in 1..cuts[g - 1])
      <4>1. SUFFICES ASSUME p \in 1..cuts[g - 1] PROVE FALSE
        OBVIOUS
      <4>2. Less(k, k)
        BY <1>6, <2>2, <2>5, <4>1
      <4>3. QED
        BY <1>5, <4>2, LessAsymmetric
    <3>2. QED
      BY <1>8, <2>4, <2>5, <3>1
  <2>7. \A q \in (cuts[g - 1] + 1)..cuts[g] : es[q].key = k => q = p
    <3> TAKE q \in (cuts[g - 1] + 1)..cuts[g]
    <3>1. q \in 1..N
      BY <1>8, <2>5
    <3>2. QED
      BY <1>1, <2>2, <3>1, SortedOrder
  <2>8. {e \in Range(ReadBlock(index[g]).entries) : e.key = k} = {es[p]}
    BY <1>8, <2>2, <2>5, <2>6, <2>7
  <2>9. MemGet(k) = {EntryOf(k)}
    BY <1>4, <1>9
  <2>10. QED
    BY <1>7, <2>1, <2>3, <2>5, <2>8, <2>9
<1>10. CASE k \notin DOMAIN data
  <2>1. MemGet(k) = {}
    BY <1>4, <1>10
  <2>2. g # 0 => {e \in Range(ReadBlock(index[g]).entries) : e.key = k} = {}
    <3>1. SUFFICES ASSUME g # 0 PROVE \A q \in (cuts[g - 1] + 1)..cuts[g] : es[q].key # k
      BY <1>8
    <3> TAKE q \in (cuts[g - 1] + 1)..cuts[g]
    <3>2. q \in 1..N
      BY <1>8, <3>1
    <3>3. QED
      BY <1>3, <1>10, <3>2
  <2>3. QED
    BY <1>7, <2>1, <2>2
<1>12. QED
  BY <1>9, <1>10

\* SsTableReader::get on the file of a finished flush answers, for every key and without an
\* error, what
\* MemTable::get answered before the flush: neither the filter, nor the search of
\* the index, nor the scan of the block loses a key or finds one that is not there.
THEOREM FlushedGetsAgree == SnappyYieldsBytes => (TableSpec => []GetFindsFlushed)
<1>1. TableInv => GetFindsFlushed
  <2> SUFFICES ASSUME TableInv, finished
               PROVE  /\ Readers # {}
                      /\ \A r \in Readers, k \in Keys :
                           TableGet(r, k) = [error |-> FALSE, found |-> MemGet(k)]
    BY DEF GetFindsFlushed
  <2>1. Readers = {Reader}
    BY TheReader
  <2>2. \A k \in Keys : TableGet(Reader, k) = [error |-> FALSE, found |-> MemGet(k)]
    BY GetIs
  <2>3. QED
    BY <2>1, <2>2
<1>2. QED
  BY <1>1, TableInvariant, PTL

\* A key cuts a sorted sequence: the smaller keys, then itself, then the others.
LEMMA KeyCuts ==
  ASSUME NEW es \in Seq(Entry), Sorted(es), NEW key \in Seq(Nat)
  PROVE  \E lo \in 0..Len(es) : \E hi \in 0..Len(es) :
           /\ lo <= hi
           /\ \A p \in 1..Len(es) : /\ Less(es[p].key, key) <=> p <= lo
                                    /\ AtMost(es[p].key, key) <=> p <= hi
<1> DEFINE N == Len(es)
           L == {p \in 1..N : Less(es[p].key, key)}
           M == {p \in 1..N : AtMost(es[p].key, key)}
           lo == Cardinality(L)
           hi == Cardinality(M)
<1>1. N \in Nat
  OBVIOUS
<1>2. ASSUME NEW j \in L, NEW i \in 1..j PROVE i \in L
  <2>1. i \in 1..N /\ j \in 1..N /\ i <= j
    BY <1>1
  <2>2. AtMost(es[i].key, es[j].key) /\ es[i].key \in Seq(Nat) /\ es[j].key \in Seq(Nat)
    BY <2>1, SortedOrder
  <2>3. Less(es[i].key, key)
    BY <2>2, AtMostLess
  <2>4. QED
    BY <2>1, <2>3
<1>3. ASSUME NEW j \in M, NEW i \in 1..j PROVE i \in M
  <2>1. i \in 1..N /\ j \in 1..N /\ i <= j
    BY <1>1
  <2>2. AtMost(es[i].key, es[j].key) /\ es[i].key \in Seq(Nat) /\ es[j].key \in Seq(Nat)
    BY <2>1, SortedOrder
  <2>3. AtMost(es[i].key, key)
    BY <2>2, AtMostLess
  <2>4. QED
    BY <2>1, <2>3
<1>4. lo \in 0..N /\ L = 1..lo /\ hi \in 0..N /\ M = 1..hi
  <2>1. L \subseteq 1..N /\ M \subseteq 1..N
    OBVIOUS
  <2> HIDE DEF L, M, N
  <2>2. lo \in 0..N /\ L = 1..lo
    BY <1>1, <1>2, <2>1, FirstNumbers
  <2>3. hi \in 0..N /\ M = 1..hi
    BY <1>1, <1>3, <2>1, FirstNumbers
  <2>4. QED
    BY <2>2, <2>3
<1> HIDE DEF lo, hi
<1>5. \A p \in 1..N : (Less(es[p].key, key) <=> p <= lo) /\ (AtMost(es[p].key, key) <=> p <= hi)
  <2>1. \A p \in 1..N : (p \in 1..lo <=> p <= lo) /\ (p \in 1..hi <=> p <= hi)
    BY <1>1, <1>4
  <2>2. \A p \in 1..N : (p \in L <=> Less(es[p].key, key)) /\ (p \in M <=> AtMost(es[p].key, key))
    OBVIOUS
  <2> HIDE DEF L, M, N
  <2>3. QED
    BY <1>4, <2>1, <2>2
<1>6. lo <= hi
  <2>1. CASE lo = 0
    BY <1>1, <1>4, <2>1
  <2>2. CASE lo # 0
    <3>1. lo \in 1..N /\ lo <= lo
      BY <1>1, <1>4, <2>2
    <3>2. Less(es[lo].key, key)
      BY <1>5, <3>1
    <3>3. AtMost(es[lo].key, key)
      BY <3>2 DEF AtMost
    <3>4. QED
      BY <1>5, <3>1, <3>3
  <2>3. QED
    BY <2>1, <2>2
<1>7. QED
  BY <1>4, <1>5, <1>6

\* SsTableReader::scan of a finished table: it returns what the memtable's scan
\* returns and, because its end is inclusive, the entry of the end key as well.
LEMMA ScanIs ==
  ASSUME TableInv, finished, NEW start \in Keys, NEW end \in Keys, AtMost(start, end)
  PROVE  TableScan(Reader, start, end) =
           [error |-> FALSE,
            entries |-> MemScan(start, end)
                          \o At(Entries, {i \in DOMAIN Entries : Entries[i].key = end})]
<1> DEFINE index == writer.index_entries
           n == Len(index)
           es == Entries
           N == Len(es)
           g == FindBlock(index, start)
           m == Greater(g, 1)
<1>1. /\ Flushable(es) /\ es \in Seq(Entry) /\ Sorted(es) /\ N \in Nat
      /\ \E cuts : /\ Given(writer, hash_fn, es, cuts, N) /\ Closed(writer) /\ cuts[n] = N
  BY FinishedCuts
<1>2. PICK cuts : Given(writer, hash_fn, es, cuts, N) /\ Closed(writer) /\ cuts[n] = N
  BY <1>1
<1>3. start \in Seq(Nat) /\ end \in Seq(Nat)
  BY Zenon, MemTableAssumption
<1>4. MemScan(start, end) =
        At(es, {i \in DOMAIN es : AtMost(start, es[i].key) /\ Less(es[i].key, end)})
  BY Zenon DEF MemScan
<1> HIDE DEF es
<1>5. DOMAIN es = 1..N /\ \A p \in 1..N : es[p] \in Entry /\ es[p].key \in Seq(Nat)
  <2>1. DOMAIN es = 1..N /\ \A p \in 1..N : es[p] \in Entry
    BY <1>1
  <2>2. \A e \in Entry : e.key \in Seq(Nat)
    BY DEF Entry
  <2>3. QED
    BY <2>1, <2>2
<1>6. PICK lo \in 0..N : \E b \in 0..N :
        \A p \in 1..N : /\ Less(es[p].key, start) <=> p <= lo
                        /\ AtMost(es[p].key, start) <=> p <= b
  BY <1>1, <1>3, KeyCuts
<1>7. PICK b, c : /\ b \in 0..N /\ c \in 0..N /\ b <= c
                  /\ \A p \in 1..N : /\ Less(es[p].key, end) <=> p <= b
                                     /\ AtMost(es[p].key, end) <=> p <= c
  BY <1>1, <1>3, KeyCuts
<1> DEFINE a == lo + 1
<1>8. a \in Nat \ {0} /\ a <= b + 1 /\ lo <= b
  <2>1. CASE lo = 0
    BY <1>1, <1>6, <1>7, <2>1
  <2>2. CASE lo # 0
    <3>1. lo \in 1..N /\ lo <= lo
      BY <1>1, <1>6, <2>2
    <3>2. Less(es[lo].key, start)
      BY <1>6, <3>1
    <3>3. Less(es[lo].key, end)
      BY <1>3, <1>5, <3>1, <3>2, AtMostLess
    <3>4. lo <= b
      BY <1>7, <3>1, <3>3
    <3>5. QED
      BY <1>6, <1>7, <3>4
  <2>3. QED
    BY <2>1, <2>2
<1>9. {i \in 1..N : AtMost(start, es[i].key) /\ Less(es[i].key, end)} = a..b
  <2>1. \A p \in 1..N : AtMost(start, es[p].key) <=> ~(p <= lo)
    BY <1>3, <1>5, <1>6, AtMostLess
  <2>2. \A p \in 1..N : p \in a..b <=> ~(p <= lo) /\ p <= b
    BY <1>1, <1>6, <1>7
  <2>3. a..b \subseteq 1..N
    BY <1>1, <1>6, <1>7
  <2> HIDE DEF a
  <2>4. QED
    BY <1>7, <2>1, <2>2, <2>3
<1>10. {i \in 1..N : es[i].key = end} = (b + 1)..c
  <2>1. \A p \in 1..N : es[p].key = end <=> p <= c /\ ~(p <= b)
    <3> TAKE p \in 1..N
    <3>1. AtMost(es[p].key, end) <=> es[p].key = end \/ Less(es[p].key, end)
      BY DEF AtMost
    <3>2. ~Less(end, end)
      BY <1>3, AtMostLess
    <3>3. QED
      BY <1>7, <3>1, <3>2
  <2>2. \A p \in 1..N : p \in (b + 1)..c <=> p <= c /\ ~(p <= b)
    BY <1>1, <1>7
  <2>3. (b + 1)..c \subseteq 1..N
    BY <1>1, <1>7
  <2>4. QED
    BY <2>1, <2>2, <2>3
<1>11. MemScan(start, end) \o At(es, {i \in DOMAIN es : es[i].key = end}) = SubSeq(es, a, c)
  <2>1. At(es, a..b) = SubSeq(es, a, b)
    <3>1. b \in Nat /\ b <= Len(es)
      BY <1>1, <1>7
    <3> HIDE DEF a
    <3>2. QED
      BY <1>1, <1>8, <3>1, AtInterval
  <2>2. At(es, (b + 1)..c) = SubSeq(es, b + 1, c)
    <3> DEFINE first == b + 1
    <3>1. first \in Nat \ {0} /\ c \in Nat /\ first <= c + 1 /\ c <= Len(es)
      BY <1>1, <1>7
    <3> HIDE DEF first
    <3>2. At(es, first..c) = SubSeq(es, first, c)
      BY <1>1, <3>1, AtInterval
    <3>3. QED
      BY <3>2 DEF first
  <2>3. SubSeq(es, a, b) \o SubSeq(es, b + 1, c) = SubSeq(es, a, c)
    <3>1. a \in 1..(Len(es) + 1) /\ b \in (a - 1)..Len(es) /\ c \in b..Len(es)
      BY <1>1, <1>6, <1>7, <1>8
    <3> HIDE DEF a
    <3>2. QED
      BY <1>1, <3>1, ConcatAdjacentSubSeq
  <2>4. MemScan(start, end) = At(es, a..b)
    BY <1>4, <1>5, <1>9
  <2>5. At(es, {i \in DOMAIN es : es[i].key = end}) = At(es, (b + 1)..c)
    BY <1>5, <1>10
  <2> HIDE DEF a
  <2>6. QED
    BY <2>1, <2>2, <2>3, <2>4, <2>5
<1> DEFINE read == EntriesFrom(Reader.index, Greater(FindBlock(Reader.index, start), 1))
           beyond == {i \in DOMAIN read : StopsAfterEnd(read[i], end)}
           seen == {i \in DOMAIN read : \A stop \in beyond : i < stop}
           wanted == {i \in seen : ~Less(read[i].key, start)}
           d == cuts[m - 1]
           bad == \E j \in BlocksUpTo(Reader.index, Greater(FindBlock(Reader.index, start), 1), end) :
                    ReadBlock(Reader.index[j]).corrupted
<1>12. TableScan(Reader, start, end) =
         IF bad THEN [error |-> TRUE, entries |-> <<>>]
                ELSE [error |-> FALSE, entries |-> At(read, wanted)]
  BY Zenon DEF TableScan
<1>13. n \in Nat /\ m \in 1..(n + 1) /\ d \in Nat /\ d <= lo
  <2>1. n \in Nat /\ cuts[0] = 0
    BY <1>2, PartsOf, Zenon DEF Given, Cuts
  <2>2. /\ g \in 0..n
        /\ g # 0 => \A p \in 1..cuts[g - 1] : p \in 1..N /\ Less(es[p].key, start)
    BY <1>1, <1>2, <1>3, FindBlockIs
  <2>3. g # 0 => cuts[g - 1] \in Nat
    <3>1. N \in Nat /\ N <= Len(es)
      BY <1>1
    <3>2. \A i \in 1..n : cuts[i - 1] \in Nat
      BY <1>1, <1>2, <3>1, GivenFacts
    <3>3. QED
      BY <2>1, <2>2, <3>2
  <2> HIDE DEF n, g
  <2>4. CASE g = 0
    <3>1. m = 1
      BY <2>4 DEF Greater
    <3>2. QED
      BY <1>6, <2>1, <3>1
  <2>5. CASE g # 0
    <3>1. m = g
      BY <2>1, <2>2, <2>5 DEF Greater
    <3>2. d \in Nat /\ \A p \in 1..d : p \in 1..N /\ Less(es[p].key, start)
      BY <2>2, <2>3, <2>5, <3>1
    <3> HIDE DEF d, N
    <3>3. d <= lo
      <4>1. CASE d = 0
        BY <1>1, <1>6, <4>1
      <4>2. CASE d # 0
        <5>1. d \in 1..d
          BY <3>2, <4>2
        <5>2. QED
          BY <1>6, <3>2, <5>1
      <4>3. QED
        BY <4>1, <4>2
    <3>4. QED
      BY <2>1, <2>2, <2>5, <3>1, <3>2, <3>3
  <2>6. QED
    BY <2>4, <2>5
<1>19. ~bad
  <2>1. \A i \in 1..n : ~ReadBlock(index[i]).corrupted
    <3>1. N \in Nat /\ N <= Len(es)
      BY <1>1
    <3>2. QED
      BY <1>1, <1>2, <3>1, BlocksRead
  <2>2. BlocksUpTo(index, m, end) \subseteq m..n
    BY DEF BlocksUpTo
  <2>3. Reader.index = index
    BY DEF Reader
  <2> HIDE DEF m, n, index
  <2>4. \A j \in m..n : j \in 1..n
    BY <1>13
  <2>5. QED
    BY <2>1, <2>2, <2>3, <2>4 DEF m
<1> HIDE DEF bad
<1>14. read = SubSeq(es, d + 1, N)
  <2>1. read = EntriesFrom(index, m)
    BY DEF Reader
  <2>2. EntriesFrom(index, m) = SubSeq(es, cuts[m - 1] + 1, cuts[n])
    <3>1. N \in Nat /\ N <= Len(es)
      BY <1>1
    <3> HIDE DEF m
    <3>2. QED
      BY <1>1, <1>2, <1>13, <3>1, EntriesFromIs
  <2> HIDE DEF read, m
  <2>3. QED
    BY <1>2, <2>1, <2>2
<1> HIDE DEF read, d, m, g, n, index
<1>15. /\ read \in Seq(Entry) /\ Len(read) = N - d /\ DOMAIN read = 1..(N - d)
       /\ \A i \in 1..(N - d) : d + i \in 1..N /\ read[i] = es[d + i]
  <2> DEFINE first == d + 1
  <2>1. first \in Nat \ {0} /\ first <= N + 1 /\ N <= Len(es)
    BY <1>1, <1>6, <1>13
  <2> HIDE DEF first, N
  <2>2. LET t == SubSeq(es, first, N) IN
        /\ t \in Seq(Entry) /\ Len(t) = N - first + 1
        /\ \A i \in 1..Len(t) : t[i] = es[first + i - 1]
    BY <1>1, <2>1, SubSeqType
  <2>3. read \in Seq(Entry) /\ Len(read) = N - first + 1
        /\ \A i \in 1..Len(read) : read[i] = es[first + i - 1]
    BY <1>14, <2>2 DEF first
  <2>4. \A i \in 1..Len(read) : first + i - 1 = d + i
    BY <1>13 DEF first
  <2>5. Len(read) = N - d
    BY <1>1, <1>13, <2>3 DEF first
  <2>6. DOMAIN read = 1..(N - d)
    BY <2>3, <2>5
  <2>7. \A i \in 1..(N - d) : d + i \in 1..N
    BY <1>1, <1>13
  <2>8. QED
    BY <2>3, <2>4, <2>5, <2>6, <2>7
<1>16. wanted = (a - d)..(c - d)
  <2>1. ASSUME NEW i \in 1..(N - d)
        PROVE  /\ StopsAfterEnd(read[i], end) <=> ~(d + i <= c)
               /\ Less(read[i].key, start) <=> d + i <= lo
    <3> DEFINE p == d + i
    <3>1. p \in 1..N /\ read[i] = es[p]
      BY <1>15
    <3> HIDE DEF p
    <3>2. es[p].key \in Seq(Nat)
      BY <1>5, <3>1
    <3>3. Less(end, es[p].key) <=> ~AtMost(es[p].key, end)
      BY <1>3, <3>2, AtMostLess
    <3>4. Less(end, es[p].key) <=> ~(p <= c)
      BY <1>7, <3>1, <3>3
    <3>5. Less(es[p].key, start) <=> p <= lo
      BY <1>6, <3>1
    <3>6. QED
      BY <3>1, <3>4, <3>5 DEF p, StopsAfterEnd
  <2>2. beyond = {i \in 1..(N - d) : ~(d + i <= c)}
    BY <1>15, <2>1
  <2>3. seen = {i \in 1..(N - d) : d + i <= c}
    <3> HIDE DEF beyond
    <3>1. ASSUME NEW i \in 1..(N - d), d + i <= c, NEW stop \in beyond PROVE i < stop
      BY <1>1, <1>7, <1>13, <2>2, <3>1
    <3>2. ASSUME NEW i \in 1..(N - d), \A stop \in beyond : i < stop PROVE d + i <= c
      <4>1. ~(i < i)
        OBVIOUS
      <4>2. i \notin beyond
        BY <3>2, <4>1
      <4>3. QED
        BY <2>2, <4>2
    <3>3. QED
      BY <1>15, <3>1, <3>2
  <2>4. wanted = {i \in 1..(N - d) : d + i <= c /\ ~(d + i <= lo)}
    <3> HIDE DEF seen
    <3>1. QED
      BY <2>1, <2>3
  <2>5. \A i \in 1..(N - d) : d + i <= c /\ ~(d + i <= lo) <=> i \in (a - d)..(c - d)
    BY <1>1, <1>6, <1>7, <1>13
  <2>6. (a - d)..(c - d) \subseteq 1..(N - d)
    BY <1>1, <1>6, <1>7, <1>13
  <2> HIDE DEF wanted, a
  <2>7. QED
    BY <2>4, <2>5, <2>6
<1>17. At(read, (a - d)..(c - d)) = SubSeq(es, a, c)
  <2> DEFINE x == a - d
             y == c - d
             s == SubSeq(read, x, y)
             t == SubSeq(es, a, c)
  <2>1. x \in Nat \ {0} /\ y \in Nat /\ x <= y + 1 /\ y <= Len(read)
        /\ a \in Nat \ {0} /\ c \in Nat /\ a <= c + 1 /\ c <= Len(es) /\ y - x = c - a
        /\ d + x = a
    BY <1>1, <1>6, <1>7, <1>8, <1>13, <1>15
  <2> HIDE DEF x, y, a
  <2>2. At(read, x..y) = s
    BY <1>15, <2>1, AtInterval
  <2>3. /\ s \in Seq(Entry) /\ Len(s) = y - x + 1
        /\ \A i \in 1..Len(s) : s[i] = read[x + i - 1]
    BY <1>15, <2>1, SubSeqType
  <2>4. /\ t \in Seq(Entry) /\ Len(t) = c - a + 1
        /\ \A i \in 1..Len(t) : t[i] = es[a + i - 1]
    BY <1>1, <2>1, SubSeqType
  <2> HIDE DEF s, t
  <2>5. Len(s) = Len(t)
    BY <2>1, <2>3, <2>4
  <2>6. ASSUME NEW i \in 1..Len(s) PROVE s[i] = t[i]
    <3>1. x + i - 1 \in 1..(N - d) /\ d + (x + i - 1) = a + i - 1 /\ i \in 1..Len(t)
      <4>1. i \in 1..(y - x + 1) /\ N - d \in Nat /\ y <= N - d
        BY <1>1, <1>6, <1>13, <1>15, <2>1, <2>3
      <4>2. x + i - 1 \in 1..(N - d)
        BY <2>1, <4>1
      <4>3. d + (x + i - 1) = a + i - 1
        BY <1>13, <2>1, <4>1
      <4>4. QED
        BY <2>5, <4>2, <4>3
    <3>2. s[i] = read[x + i - 1] /\ t[i] = es[a + i - 1]
      BY <2>3, <2>4, <3>1
    <3>3. read[x + i - 1] = es[d + (x + i - 1)]
      BY <1>15, <3>1
    <3>4. QED
      BY <3>1, <3>2, <3>3
  <2>7. s = t
    BY <2>3, <2>4, <2>5, <2>6, SameSeq
  <2>8. QED
    BY <2>2, <2>7 DEF x, y, t
<1> HIDE DEF wanted, a
<1>18. QED
  BY <1>11, <1>12, <1>16, <1>17, <1>19 DEF es

\* SsTableReader::scan on the file of a finished flush returns, in order, the entries that
\* MemTable::scan returned before it, and the entry at the end of the range, which only
\* the table's scan includes.
THEOREM FlushedScansAgree == SnappyYieldsBytes => (TableSpec => []ScanFindsFlushed)
<1>1. TableInv => ScanFindsFlushed
  <2> SUFFICES ASSUME TableInv, finished, NEW start \in Keys, NEW end \in Keys, AtMost(start, end),
                      NEW r \in Readers
               PROVE  TableScan(r, start, end) =
                        [error |-> FALSE,
                         entries |-> MemScan(start, end)
                                       \o At(Entries, {i \in DOMAIN Entries : Entries[i].key = end})]
    BY DEF ScanFindsFlushed
  <2>1. r = Reader
    BY TheReader
  <2>2. QED
    BY <2>1, ScanIs
<1>2. QED
  BY <1>1, TableInvariant, PTL
==============================================================================
