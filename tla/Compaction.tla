------------------------------ MODULE Compaction ------------------------------
(* src/compaction.rs: the choice of the SSTables to merge, and the k-way     *)
(* merge with a heap.  A file is its size, its data (key -> timestamp, 0 for *)
(* a key it does not have) and whether its blocks can be read.  An entry is  *)
(* known by its key, its timestamp and the input it comes from.              *)
EXTENDS Naturals, FiniteSets, SequencesExt

CONSTANTS
  NumKeys,       \* keys are the numbers 1..NumKeys, in the order of the keys
  ScanEnd,       \* the largest key that is not above [0xFF; 1024]
  Files,         \* the files there may be: [size, data, readable]
  NumFiles,      \* bound: files in the directory
  MinInputs      \* min_sstables

ASSUME CompactionAssumption ==
  /\ NumKeys \in Nat /\ ScanEnd \in Nat /\ NumFiles \in Nat /\ MinInputs \in Nat \ {0}
  /\ \A f \in Files : f.size \in Nat /\ f.readable \in BOOLEAN /\ f.data \in [1..NumKeys -> Nat]

Keys == 1..NumKeys

VARIABLES
  paths,         \* the files, in the order of read_dir
  inputs,        \* the selected ones, in the order of their sizes
  iterators,     \* for each input its entries, an empty list if it is unreadable
  heap,          \* entries [key, timestamp, sstable_id]
  positions,     \* how far the merge is in each iterator
  last_key,      \* the key written last, 0 for None
  output,        \* what the writer has been given
  phase          \* "select", "merge", "done", "failed"

cvars == <<paths, inputs, iterators, heap, positions, last_key, output, phase>>

CompactionInit ==
  /\ paths \in [1..NumFiles -> Files]
  /\ inputs = <<>> /\ iterators = <<>> /\ heap = {} /\ positions = <<>>
  /\ last_key = 0 /\ output = <<>>
  /\ phase = "select"

------------------------------------------------------------------------------
(* select_sstables_for_compaction *)

\* The files in the order of their sizes; the sort is stable.
BySize ==
  LET rank(i) == Cardinality({j \in 1..NumFiles :
                   \/ paths[j].size < paths[i].size
                   \/ paths[j].size = paths[i].size /\ j <= i})
  IN [m \in 1..NumFiles |-> CHOOSE i \in 1..NumFiles : rank(i) = m]

\* Seeded bug: each file is compared with the one before it.
GroupChained(order, i) ==
  {j \in i..NumFiles :
     \A m \in (i + 1)..j : 2 * paths[order[m]].size <= 3 * paths[order[m - 1]].size}

\* The files from the i-th smallest on that are at most half as large again
Group(order, i) ==
  {j \in i..NumFiles : 2 * paths[order[j]].size <= 3 * paths[order[i]].size}

\* The first of the largest groups that are large enough; none if there is none
Selected ==
  LET order == BySize
      members == [i \in 1..NumFiles |-> Cardinality(Group(order, i))]
      large == {i \in 1..NumFiles : members[i] >= MinInputs}
      best == CHOOSE i \in large : \A j \in large :
                members[j] < members[i] \/ (members[j] = members[i] /\ i <= j)
  IN IF large = {} THEN <<>> ELSE SubSeq(order, best, best + members[best] - 1)

------------------------------------------------------------------------------
(* merge_sstables *)

\* The numbers in a finite set, in their order
InOrder(set) ==
  CHOOSE s \in [1..Cardinality(set) -> set] : \A i, j \in DOMAIN s : i < j => s[i] < s[j]

\* The keys that a scan from the empty key to [0xFF; 1024] comes to
Scanned == {k \in Keys : k <= ScanEnd}

\* That scan of a table: its entries in the order of the keys
Scan(file) ==
  LET present == InOrder({k \in Scanned : file.data[k] # 0})
  IN [n \in DOMAIN present |-> [key |-> present[n], timestamp |-> file.data[present[n]]]]

\* The input can be read and has an entry, the first of which goes into the heap.
HasFirst(file) == file.readable /\ Scan(file) # <<>>

\* Seeded bug: an unreadable input adds no iterator, and shifts those after it.
AddsIfReadable(file) == HasFirst(file)

\* An empty input adds nothing to the list of iterators, an unreadable one an empty one.
AddsIterator(file) == ~file.readable \/ HasFirst(file)
Iterator(file) == IF file.readable THEN Scan(file) ELSE <<>>

\* The entry at position n of table t, on behalf of input id
HeapEntry(t, n, id) == [key |-> t[n].key, timestamp |-> t[n].timestamp, sstable_id |-> id]

\* The selection, and the first entry of each input in the heap
Select ==
  /\ phase = "select"
  /\ LET chosen == Selected
         file(i) == paths[chosen[i]]
         adding == InOrder({i \in DOMAIN chosen : AddsIterator(file(i))})
     IN /\ inputs' = chosen
        /\ phase' = IF chosen = <<>> THEN "done" ELSE "merge"
        /\ iterators' = [n \in DOMAIN adding |-> Iterator(file(adding[n]))]
        /\ positions' = [n \in DOMAIN adding |-> 1]
        /\ heap' = {HeapEntry(Scan(file(i)), 1, i) : i \in {j \in DOMAIN chosen : HasFirst(file(j))}}
  /\ UNCHANGED <<paths, last_key, output>>

\* Seeded bug: the older of two timestamps comes first.
PrecedesOlder(e, f) == e.key < f.key \/ (e.key = f.key /\ e.timestamp < f.timestamp)

\* Ord for CompactionEntry: smaller key first, then the newer timestamp
Precedes(e, f) == e.key < f.key \/ (e.key = f.key /\ e.timestamp > f.timestamp)

\* Seeded bug: every entry that is popped is written.
WriteAll(e) == TRUE

\* An entry is written unless its key is the one written last.
IsNew(e) == e.key # last_key

\* Seeded bug: a duplicate is skipped before its input is advanced.
AdvancedIfNew(e) == positions[e.sstable_id] + IF IsNew(e) THEN 1 ELSE 0

\* The position in the input of the entry that was popped
Advanced(e) == positions[e.sstable_id] + 1

\* One round of the loop: pop, write or skip, push the next entry of that input.
\* Equal entries come out of the heap in any order.
Pop ==
  /\ phase = "merge"
  /\ \E e \in heap :
       /\ \A f \in heap : ~Precedes(f, e)
       /\ output' = IF IsNew(e) THEN Append(output, e) ELSE output
       /\ last_key' = e.key
       /\ LET id == e.sstable_id
              n == Advanced(e)
          IN /\ positions' = [positions EXCEPT ![id] = n]
             /\ heap' = (heap \ {e}) \cup
                  (IF n <= Len(iterators[id]) THEN {HeapEntry(iterators[id], n, id)} ELSE {})
  /\ UNCHANGED <<paths, inputs, iterators, phase>>

\* writer.finish
FinishMerge ==
  /\ phase = "merge" /\ heap = {}
  /\ phase' = "done"
  /\ UNCHANGED <<paths, inputs, iterators, heap, positions, last_key, output>>

\* The output cannot be created, written or finished: compact_sstables returns the
\* error.  An input that cannot be opened ends it so before the first round.
FailMerge ==
  /\ phase = "merge"
  /\ phase' = "failed"
  /\ UNCHANGED <<paths, inputs, iterators, heap, positions, last_key, output>>

CompactionNext == Select \/ Pop \/ FinishMerge \/ FailMerge

CompactionSpec == CompactionInit /\ [][CompactionNext]_cvars
\* A merge that has begun runs on: compact_sstables does not wait for anything.
FairCompactionSpec == CompactionSpec /\ WF_cvars(Pop \/ FinishMerge)

------------------------------------------------------------------------------
(* Properties *)

\* An entry in the heap is the one at its input's position: "positions" and
\* "iterators" are indexed by the number of the input (compaction.rs:193-203).
CompactionTypeOK ==
  /\ \A i \in DOMAIN inputs : inputs[i] \in 1..NumFiles
  /\ \A e \in heap :
       /\ e.sstable_id \in DOMAIN iterators
       /\ positions[e.sstable_id] \in DOMAIN iterators[e.sstable_id]
       /\ e = HeapEntry(iterators[e.sstable_id], positions[e.sstable_id], e.sstable_id)
  /\ Len(positions) = Len(iterators)
  /\ last_key \in Keys \cup {0}
  /\ phase \in {"select", "merge", "done", "failed"}

\* The selected files are "within 50% of each other", and no larger set of files
\* is (compaction.rs:214 select_sstables_for_compaction).
SelectsLargestGroup ==
  LET similar(set) == \A i, j \in set : 2 * paths[i].size <= 3 * paths[j].size
      sets == {set \in SUBSET (1..NumFiles) : Cardinality(set) >= MinInputs /\ similar(set)}
      selected == {inputs[i] : i \in DOMAIN inputs}
  IN phase # "select" =>
       IF sets = {} THEN selected = {}
       ELSE selected \in sets /\ \A set \in sets : Cardinality(set) <= Cardinality(selected)

\* The writer is given its keys in strictly ascending order, as its blocks and
\* its index require (compaction.rs merge_sstables, sstable/writer.rs add).
WritesAscending == \A i, j \in DOMAIN output : i < j => output[i].key < output[j].key

\* The merge keeps "the newest version of each key" (compaction.rs:12): of every
\* key that the scan of a readable input comes to, exactly one version is written,
\* and none of the inputs has one with a later timestamp.
KeepsNewest ==
  phase = "done" =>
    LET readable == {i \in {inputs[j] : j \in DOMAIN inputs} : paths[i].readable}
        times(k) == {paths[i].data[k] : i \in readable} \ {0}
    IN {<<e.key, e.timestamp>> : e \in Range(output)}
         = {<<k, Max(times(k))>> : k \in {k \in Scanned : times(k) # {}}}

\* A merge ends, if not with an error: each round takes an entry of some input off the
\* heap for good, duplicates included (compaction.rs merge_sstables).
MergeEnds == phase = "merge" ~> phase \in {"done", "failed"}

==============================================================================
