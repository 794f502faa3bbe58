------------------------------- MODULE SetProofs -------------------------------
(* Finite sets of numbers: the largest and the smallest member, images.      *)
EXTENDS Naturals, FiniteSetsExt, FiniteSetTheorems, WellFoundedInduction, TLAPS

\* A finite set of numbers has a largest one: a minimal subset without would
\* have one after all.
LEMMA FiniteNatMax ==
  ASSUME NEW S, IsFiniteSet(S), S \subseteq Nat, S # {}
  PROVE  \E x \in S : \A y \in S : x >= y
<1> DEFINE HasMax(T) == \E x \in T : \A y \in T : x >= y
           Bad == {T \in FiniteSubsetsOf(S) : T # {} /\ ~HasMax(T)}
<1>1. S \in FiniteSubsetsOf(S)
  BY DEF FiniteSubsetsOf
<1>2. SUFFICES ASSUME Bad # {} PROVE FALSE
  BY <1>1
<1>3. IsWellFoundedOn(StrictSubsetOrdering(S), FiniteSubsetsOf(S))
  BY FS_StrictSubsetOrderingWellFounded
<1>4. Bad \subseteq FiniteSubsetsOf(S)
  OBVIOUS
<1>5. PICK T \in Bad : \A U \in Bad : <<U, T>> \notin StrictSubsetOrdering(S)
  <2> HIDE DEF Bad
  <2>1. QED
    BY <1>2, <1>3, <1>4, WFMin
<1>6. T \subseteq S /\ IsFiniteSet(T) /\ T # {} /\ ~HasMax(T)
  BY DEF FiniteSubsetsOf
<1>7. PICK x \in T : TRUE
  BY <1>6
<1>8. T \ {x} \in FiniteSubsetsOf(S)
  BY <1>6, FS_RemoveElement DEF FiniteSubsetsOf
<1>9. <<T \ {x}, T>> \in StrictSubsetOrdering(S)
  BY <1>6, <1>7 DEF StrictSubsetOrdering
<1>10. T \ {x} \notin Bad
  BY <1>5, <1>9
<1>11. CASE T \ {x} = {}
  <2>1. \A y \in T : y = x /\ x \in Nat
    BY <1>6, <1>7, <1>11
  <2>2. QED
    BY <1>6, <1>7, <2>1
<1>12. CASE HasMax(T \ {x})
  <2>1. PICK m \in T \ {x} : \A y \in T \ {x} : m >= y
    BY <1>12
  <2>2. m \in Nat /\ x \in Nat /\ \A y \in T : y \in Nat /\ (y = x \/ m >= y)
    BY <1>6, <1>7, <2>1
  <2>3. CASE m >= x
    BY <1>6, <2>1, <2>2, <2>3
  <2>4. CASE ~(m >= x)
    <3>1. \A y \in T : x >= y
      BY <2>2, <2>4
    <3>2. QED
      BY <1>6, <1>7, <3>1
  <2>5. QED
    BY <2>3, <2>4
<1>13. QED
  BY <1>8, <1>10, <1>11, <1>12

LEMMA MaxType ==
  ASSUME NEW S, IsFiniteSet(S), S \subseteq Nat, S # {}
  PROVE  Max(S) \in S /\ \A y \in S : Max(S) >= y
BY FiniteNatMax DEF Max

\* The image of a finite set is finite.
LEMMA FiniteImage ==
  ASSUME NEW L, IsFiniteSet(L), NEW f, DOMAIN f = L
  PROVE  IsFiniteSet({f[n] : n \in L})
<1> DEFINE T == {f[n] : n \in L}
           g == [n \in L |-> f[n]]
<1>1. g \in Surjection(L, T)
  BY DEF Surjection
<1>2. QED
  BY <1>1, FS_Surjection

\* ... and a smallest one.
LEMMA FiniteNatMin ==
  ASSUME NEW S, IsFiniteSet(S), S \subseteq Nat, S # {}
  PROVE  \E x \in S : \A y \in S : x <= y
<1>1. PICK top \in S : \A y \in S : top >= y
  BY FiniteNatMax
<1> DEFINE f == [y \in S |-> top - y]
           T == {f[y] : y \in S}
<1>2. IsFiniteSet(T)
  BY FiniteImage
<1>3. T \subseteq Nat /\ T # {}
  BY <1>1
<1>4. PICK z \in T : \A t \in T : z >= t
  <2> HIDE DEF T
  <2>1. QED
    BY <1>2, <1>3, FiniteNatMax
<1>5. PICK x \in S : z = top - x
  BY <1>4
<1>6. ASSUME NEW y \in S PROVE x <= y
  <2>1. top - y \in T
    OBVIOUS
  <2>2. top - x >= top - y /\ top \in Nat /\ x \in Nat /\ y \in Nat
    BY <1>1, <1>4, <1>5, <2>1
  <2>3. QED
    BY <2>2
<1>7. QED
  BY <1>5, <1>6

\* The place of each member of a finite set in a total order, "before" giving the
\* members up to and including it: the places are 1, 2, ... and all are taken.
LEMMA Ranking ==
  ASSUME NEW S, IsFiniteSet(S), NEW before \in [S -> SUBSET S],
         \A i \in S : i \in before[i],
         \A i, j \in S : i # j => (i \in before[j] <=> j \notin before[i]),
         \A i, j \in S : i \in before[j] => before[i] \subseteq before[j]
  PROVE  /\ \A i \in S : Cardinality(before[i]) \in 1..Cardinality(S)
         /\ \A i, j \in S : i \in before[j] <=> Cardinality(before[i]) <= Cardinality(before[j])
         /\ \A m \in 1..Cardinality(S) : \E i \in S : Cardinality(before[i]) = m
<1> DEFINE rank == [i \in S |-> Cardinality(before[i])]
<1>1. Cardinality(S) \in Nat
  BY FS_CardinalityType
<1>2. ASSUME NEW i \in S
      PROVE  IsFiniteSet(before[i]) /\ Cardinality(before[i]) \in 1..Cardinality(S)
  <2>1. before[i] \in SUBSET S /\ before[i] # {}
    OBVIOUS
  <2>2. IsFiniteSet(before[i]) /\ Cardinality(before[i]) <= Cardinality(S)
    BY <2>1, FS_Subset
  <2>3. Cardinality(before[i]) \in Nat /\ Cardinality(before[i]) # 0
    BY <2>1, <2>2, FS_CardinalityType, FS_EmptySet
  <2>4. QED
    BY <1>1, <2>2, <2>3
<1>3. ASSUME NEW i \in S, NEW j \in S, i # j, i \in before[j]
      PROVE  Cardinality(before[i]) < Cardinality(before[j])
  <2>1. before[i] \in SUBSET before[j] /\ before[i] # before[j]
    BY <1>3
  <2>2. Cardinality(before[i]) <= Cardinality(before[j])
        /\ Cardinality(before[i]) # Cardinality(before[j])
    BY <1>2, <2>1, FS_Subset
  <2>3. QED
    BY <1>2, <2>2
<1>4. ASSUME NEW i \in S, NEW j \in S
      PROVE  i \in before[j] <=> Cardinality(before[i]) <= Cardinality(before[j])
  <2>1. CASE i = j
    BY <1>2, <2>1
  <2>2. CASE i # j /\ i \in before[j]
    BY <1>2, <1>3, <2>2
  <2>3. CASE i # j /\ j \in before[i]
    BY <1>2, <1>3, <2>3
  <2>4. QED
    BY <2>1, <2>2, <2>3
<1>5. ASSUME NEW i \in S, NEW j \in S, rank[i] = rank[j] PROVE i = j
  <2>1. i \in before[j] /\ j \in before[i]
    BY <1>2, <1>4, <1>5
  <2>2. QED
    BY <2>1
<1>6. rank \in Injection(S, 1..Cardinality(S))
  BY <1>2, <1>5 DEF Injection, IsInjective
<1>7. IsFiniteSet(1..Cardinality(S)) /\ Cardinality(1..Cardinality(S)) = Cardinality(S)
  BY <1>1, FS_Interval
<1>8. rank \in Surjection(S, 1..Cardinality(S))
  <2> HIDE DEF rank
  <2>1. QED
    BY <1>6, <1>7, FS_Injection
<1>9. \A m \in 1..Cardinality(S) : \E i \in S : rank[i] = m
  BY <1>8 DEF Surjection
<1>10. QED
  BY <1>2, <1>4, <1>9

\* Induction on a set of numbers: upwards,
LEMMA Upward ==
  ASSUME NEW n \in Nat, NEW S, 0 \in S, \A i \in 1..n : i - 1 \in S => i \in S
  PROVE  \A i \in 0..n : i \in S
<1> DEFINE D == {i \in 0..n : i \notin S}
<1>1. SUFFICES ASSUME D # {} PROVE FALSE
  OBVIOUS
<1>2. IsFiniteSet(D) /\ D \subseteq Nat
  <2>1. IsFiniteSet(0..n) /\ D \subseteq 0..n
    BY FS_Interval
  <2>2. QED
    BY <2>1, FS_Subset
<1>3. PICK m \in D : \A j \in D : m <= j
  <2> HIDE DEF D
  <2>1. QED
    BY <1>1, <1>2, FiniteNatMin
<1>4. m \in 1..n /\ m - 1 \in 0..n /\ m \notin S /\ ~(m <= m - 1)
  OBVIOUS
<1>5. m - 1 \in S
  BY <1>3, <1>4
<1>6. QED
  BY <1>4, <1>5

\* downwards,
LEMMA Downward ==
  ASSUME NEW m \in Nat, NEW n \in Nat, NEW S, n \in S,
         \A i \in m..(n - 1) : i + 1 \in S => i \in S
  PROVE  \A i \in m..n : i \in S
<1> DEFINE D == {i \in m..n : i \notin S}
<1>1. SUFFICES ASSUME D # {} PROVE FALSE
  OBVIOUS
<1>2. IsFiniteSet(D) /\ D \subseteq Nat
  <2>1. IsFiniteSet(m..n) /\ D \subseteq m..n
    BY FS_Interval
  <2>2. QED
    BY <2>1, FS_Subset
<1>3. PICK i \in D : \A j \in D : i >= j
  <2> HIDE DEF D
  <2>1. QED
    BY <1>1, <1>2, FiniteNatMax
<1>4. i \in m..(n - 1) /\ i + 1 \in m..n /\ i \notin S /\ ~(i >= i + 1)
  OBVIOUS
<1>5. i + 1 \in S
  BY <1>3, <1>4
<1>6. QED
  BY <1>4, <1>5

\* and from all smaller numbers
LEMMA FromSmaller ==
  ASSUME NEW S, \A n \in Nat : (\A m \in 0..(n - 1) : m \in S) => n \in S
  PROVE  \A n \in Nat : n \in S
<1> SUFFICES ASSUME NEW n \in Nat PROVE n \in S
  OBVIOUS
<1> DEFINE T == {i \in 0..n : \A m \in 0..i : m \in S}
<1>1. 0 \in T
  OBVIOUS
<1>2. ASSUME NEW i \in 1..n, i - 1 \in T PROVE i \in T
  <2>1. \A m \in 0..(i - 1) : m \in S
    BY <1>2
  <2>2. i \in S
    BY <2>1
  <2>3. \A m \in 0..i : m = i \/ m \in 0..(i - 1)
    OBVIOUS
  <2>4. QED
    BY <2>1, <2>2, <2>3
<1>3. n \in T
  <2> HIDE DEF T
  <2>1. \A i \in 0..n : i \in T
    BY <1>1, <1>2, Upward
  <2>2. QED
    BY <2>1
<1>4. QED
  BY <1>3

==============================================================================
