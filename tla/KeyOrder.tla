------------------------------- MODULE KeyOrder -------------------------------
(* The order of keys: byte strings, compared lexicographically, as Vec<u8>   *)
(* compares them.  Memtables, SSTables and the merge keep their keys in it.  *)
EXTENDS Naturals, Sequences, FiniteSets, SequencesExt

\* a < b: a proper prefix, or smaller at the first byte that differs.
Less(a, b) ==
  \/ IsPrefix(a, b) /\ a # b
  \/ \E i \in 1..Len(a) :
       /\ i <= Len(b) /\ a[i] < b[i]
       /\ \A j \in 1..(i - 1) : a[j] = b[j]

AtMost(a, b) == a = b \/ Less(a, b)

\* The keys in a finite set, in their order
Ascending(set) ==
  [i \in 1..Cardinality(set) |->
     CHOOSE k \in set : Cardinality({j \in set : AtMost(j, k)}) = i]

\* What a loop over s takes that skips all but the given positions
At(s, positions) ==
  [i \in 1..Cardinality(positions) |->
     s[CHOOSE p \in positions : Cardinality({q \in positions : q <= p}) = i]]

\* The sum of a sequence of numbers
Total(numbers) ==
  LET upto[i \in 0..Len(numbers)] == IF i = 0 THEN 0 ELSE upto[i - 1] + numbers[i]
  IN upto[Len(numbers)]

==============================================================================
