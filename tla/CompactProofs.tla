------------------------------ MODULE CompactProofs ----------------------------
(* The engine with everything it can do, compaction next to a background flush, *)
(* crashes, restarts and failing writes: every file that opens has an entry,    *)
(* and a file that a flush has completed is never written again.                *)
EXTENDS EngineProofs

------------------------------------------------------------------------------
(* No put runs in a process that is gone. *)

RunningInv == pc # "idle" => up

LEMMA RunningInit == EngineInit => RunningInv
BY DEF EngineInit, RunningInv

LEMMA RunningNext ==
  ASSUME RunningInv, [EngineNext]_evars PROVE RunningInv'
<1> SUFFICES ASSUME pc' # "idle" PROVE up'
  BY DEF RunningInv
<1>1. CASE UNCHANGED evars
  BY <1>1 DEF RunningInv, evars, vars, volatile
<1>2. CASE \E n \in 1..MaxSegments : OpenEngine(n)
  BY <1>2 DEF RunningInv, OpenEngine, Open
<1>3. CASE \E k \in Keys : PutAppend(k)
  BY <1>3 DEF PutAppend, ForgetEngine
<1>4. CASE PutRefused
  BY <1>4 DEF PutRefused, volatile
<1>5. CASE CrashEngine \/ StopEngine
  BY <1>5 DEF CrashEngine, StopEngine, ForgetEngine
<1>6. CASE FlushThread
  BY <1>6 DEF RunningInv, FlushThread, BeginFlush, EndFlush, FlushThreadFails, vars
<1>7. CASE MarkFlush \/ CleanLog
  BY <1>7 DEF MarkFlush, MarkFlushed, CleanLog, Cleanup, CleanupFails
<1>8. CASE Collect \/ NothingToCollect \/ SkipCompaction \/ SelectInputs \/ Merge \/ MergeFails
           \/ DeleteInput \/ Insert \/ Poll \/ GiveUpWaiting \/ Swap \/ SyncFlush
  BY <1>8 DEF Collect, NothingToCollect, SkipCompaction, SelectInputs, Merge, MergeFails,
              DeleteInput, Insert, Poll, GiveUpWaiting, Swap, SyncFlush, vars
<1>9. QED
  BY <1>1, <1>2, <1>3, <1>4, <1>5, <1>6, <1>7, <1>8 DEF EngineNext, PutStep

------------------------------------------------------------------------------
(* No empty tables *)

\* A put that waits for a flush has something to flush, and a compaction that has
\* inputs has two of them, of which at most one has the name of its output.
FilledInv ==
  /\ TablesNotEmpty
  /\ \A i \in 1..Len(flush_tx) : flush_tx[i].table # EmptyTable
  /\ pc \in {"wait", "sync"} \/ (pc \in {"mark", "clean"} /\ resume = "wait")
       => memtable # EmptyTable
  /\ pc = "merge" => \E n, m \in inputs : n # m

LEMMA FilledInit == EngineInit => FilledInv
BY EmptyQueues DEF EngineInit, FilledInv, TablesNotEmpty, Loadable

\* A table that is not the empty one has a key.
LEMMA FilledHasKey ==
  ASSUME NEW n \in Nat, NEW table \in Tables(n), table # EmptyTable
  PROVE  \E k \in Keys : table[k] # 0
BY DEF Tables, EmptyTable

\* A directory in which one file was completed, created or deleted
LEMMA FilledFiles ==
  ASSUME TablesNotEmpty, NEW name, NEW table,
         \/ files' = files
         \/ files' = Create(files, name)
         \/ files' = Finish(files, name, table) /\ table # EmptyTable
         \/ files' = [n \in DOMAIN files \ {name} |-> files[n]]
  PROVE  TablesNotEmpty'
<1> SUFFICES ASSUME NEW n \in DOMAIN files', files'[n].complete
             PROVE  files'[n].data # EmptyTable
  BY DEF TablesNotEmpty, Loadable, Opens
<1>1. n \in DOMAIN files /\ files'[n] = files[n] => files'[n].data # EmptyTable
  BY DEF TablesNotEmpty, Loadable, Opens
<1>2. CASE files' = files
  BY <1>1, <1>2
<1>3. CASE files' = Create(files, name)
  BY <1>1, <1>3 DEF Create
<1>4. CASE files' = Finish(files, name, table) /\ table # EmptyTable
  BY <1>1, <1>4 DEF Finish
<1>5. CASE files' = [m \in DOMAIN files \ {name} |-> files[m]]
  BY <1>1, <1>5
<1>6. QED
  BY <1>2, <1>3, <1>4, <1>5

\* With the process the queue and the put are gone.
LEMMA FilledForgotten ==
  ASSUME ForgetEngine, TablesNotEmpty' PROVE FilledInv'
BY EmptyQueues DEF ForgetEngine, FilledInv

\* Steps that leave the files, the queue and the memtable alone
LEMMA FilledSame ==
  ASSUME FilledInv, UNCHANGED <<files, flush_tx, memtable, inputs, resume>>,
         pc' \in {pc, "idle", "check", "compact", "insert", "delete"}
           \/ (pc' = "clean" /\ pc = "mark") \/ (pc' = resume /\ pc = "clean")
           \/ (pc' = "sync" /\ pc = "wait"),
         resume \in {"idle", "check", "wait"}
  PROVE  FilledInv'
<1>1. TablesNotEmpty'
  BY DEF FilledInv, TablesNotEmpty, Loadable, Opens
<1>2. QED
  BY <1>1 DEF FilledInv

\* A full memtable has a key.
LEMMA InsertFilled ==
  ASSUME FilledInv, TypeInv, Insert PROVE FilledInv'
<1>1. UNCHANGED <<files, flush_tx, inputs>> /\ pc' \in {"idle", "wait", "sync"}
  BY DEF Insert, Ack
<1>2. TablesNotEmpty'
  BY <1>1 DEF FilledInv, TablesNotEmpty, Loadable, Opens
<1>3. ASSUME pc' # "idle" PROVE memtable' # EmptyTable
  <2>1. IsFull(memtable')
    BY <1>3 DEF Insert, Ack
  <2> DEFINE Has == {k \in Keys : memtable'[k] # 0}
  <2>2. Cardinality(Has) >= MemTableLimit
    BY <2>1 DEF IsFull
  <2>3. Has # {}
    <3> HIDE DEF Has
    <3>1. Cardinality({}) = 0 /\ ~(0 >= MemTableLimit)
      BY FS_EmptySet, EngineAssumption
    <3>2. QED
      BY <2>2, <3>1
  <2>4. QED
    BY <2>3 DEF EmptyTable
<1>4. QED
  BY <1>1, <1>2, <1>3 DEF FilledInv

\* What is handed to the thread was a full memtable.
LEMMA SwapFilled ==
  ASSUME FilledInv, TypeInv, Swap PROVE FilledInv'
<1>1. /\ flush_tx' = Append(flush_tx, [id |-> sstable_counter, table |-> memtable])
      /\ UNCHANGED <<files, inputs>> /\ pc' = "idle" /\ memtable # EmptyTable
      /\ flush_tx \in Seq(Messages(appended))
  BY DEF Swap, Ack, FilledInv, TypeInv
<1>2. \A i \in 1..Len(flush_tx') : flush_tx'[i].table # EmptyTable
  BY <1>1, AppendItems DEF FilledInv
<1>3. TablesNotEmpty'
  BY <1>1 DEF FilledInv, TablesNotEmpty, Loadable, Opens
<1>4. QED
  BY <1>1, <1>2, <1>3 DEF FilledInv

LEMMA SyncFlushFilled ==
  ASSUME FilledInv, SyncFlush PROVE FilledInv'
<1>1. /\ UNCHANGED <<flush_tx, inputs>> /\ memtable # EmptyTable
      /\ pc' = "idle" \/ (pc' = "mark" /\ resume' = "idle")
      /\ \/ files' = Finish(files, Plain(sstable_counter), memtable)
         \/ files' = Create(files, Plain(sstable_counter))
         \/ files' = files
  BY DEF SyncFlush, FailedWrites, Fail, FilledInv
<1>2. TablesNotEmpty'
  BY <1>1, FilledFiles DEF FilledInv
<1>3. QED
  BY <1>1, <1>2 DEF FilledInv

LEMMA ThreadFilled ==
  ASSUME FilledInv, TypeInv, FlushThread PROVE FilledInv'
<1>1. flush_tx \in Seq(Messages(appended)) /\ flush_tx # <<>>
  BY DEF FlushThread, BeginFlush, EndFlush, FlushThreadFails, TypeInv
<1>2. flush_tx' = flush_tx \/ flush_tx' = Tail(flush_tx)
  BY DEF FlushThread, BeginFlush, EndFlush, FlushThreadFails
<1>3. \A i \in 1..Len(flush_tx') : \E j \in 1..Len(flush_tx) : flush_tx'[i] = flush_tx[j]
  BY <1>1, <1>2, TailItems
<1>4. \A i \in 1..Len(flush_tx') : flush_tx'[i].table # EmptyTable
  BY <1>3 DEF FilledInv
<1>5. Head(flush_tx).table # EmptyTable
  BY <1>1, TailItems DEF FilledInv
<1>6. TablesNotEmpty'
  <2> DEFINE name == Plain(Head(flush_tx).id)
             table == Head(flush_tx).table
  <2>1. \/ files' = files
        \/ files' = Create(files, name)
        \/ files' = Finish(files, name, table)
    BY DEF FlushThread, BeginFlush, EndFlush, FlushThreadFails
  <2>2. PICK n : n = name
    OBVIOUS
  <2>3. PICK t : t = table
    OBVIOUS
  <2>4. t # EmptyTable
    BY <1>5, <2>3
  <2> HIDE DEF name, table
  <2>5. QED
    BY <2>1, <2>2, <2>3, <2>4, FilledFiles DEF FilledInv
<1>7. UNCHANGED <<pc, resume, memtable, inputs>>
  BY DEF FlushThread, BeginFlush, EndFlush, FlushThreadFails
<1>8. QED
  BY <1>4, <1>6, <1>7 DEF FilledInv

\* What two files or more merge into has what at least one of them has.
LEMMA MergedHasEntry ==
  ASSUME FilledInv, LogInv, TypeInv, pc = "merge", \A n \in inputs : Opens(n),
         NEW table \in MergeOf(inputs \ {Output})
  PROVE  table # EmptyTable
<1>1. PICK n \in inputs \ {Output} : Opens(n)
  BY DEF FilledInv
<1>2. files[n].data # EmptyTable /\ files[n].data \in Tables(appended)
  BY <1>1 DEF FilledInv, TablesNotEmpty, Loadable, Opens, TypeInv, FilesTyped, Contents
<1>3. PICK k \in Keys : files[n].data[k] # 0
  BY <1>2, AppendedNat, FilledHasKey
<1>4. {files[m].data[k] : m \in inputs \ {Output}} \ {0} # {}
  BY <1>1, <1>3
<1>5. table[k] \in {files[m].data[k] : m \in inputs \ {Output}} \ {0}
  BY <1>4 DEF MergeOf
<1>6. QED
  BY <1>5 DEF EmptyTable

LEMMA MergeFilled ==
  ASSUME FilledInv, LogInv, TypeInv, Merge \/ MergeFails PROVE FilledInv'
<1>1. UNCHANGED <<flush_tx, memtable, resume>> /\ pc' \in {"delete", "idle"} /\ pc = "merge"
  BY DEF Merge, MergeFails, Fail
<1>2. \/ files' = files
      \/ \E table : /\ table # EmptyTable
                    /\ files' \in FailedWrites(files, Output, table)
  BY <1>1, MergedHasEntry DEF Merge, MergeFails, FailedWrites
<1>3. PICK name : name = Output
  OBVIOUS
<1>4. TablesNotEmpty'
  BY <1>2, <1>3, FilledFiles DEF FilledInv, FailedWrites
<1>5. QED
  BY <1>1, <1>4 DEF FilledInv

LEMMA SelectFilled ==
  ASSUME MinInputs > 1, FilledInv, SelectInputs PROVE FilledInv'
<1>1. UNCHANGED <<files, flush_tx, memtable, resume>> /\ pc' = "merge"
      /\ Cardinality(inputs') >= MinInputs
  BY DEF SelectInputs
<1>2. TablesNotEmpty'
  BY <1>1 DEF FilledInv, TablesNotEmpty, Loadable, Opens
<1>3. \E n, m \in inputs' : n # m
  <2>1. inputs' # {} /\ \A n : inputs' # {n}
    <3>1. Cardinality({}) = 0 /\ \A n : Cardinality({n}) = 1
      BY FS_EmptySet, FS_Singleton
    <3>2. ~(0 >= MinInputs) /\ ~(1 >= MinInputs)
      BY EngineAssumption
    <3>3. QED
      BY <1>1, <3>1, <3>2
  <2>2. PICK n : n \in inputs'
    BY <2>1
  <2>3. inputs' # {n}
    BY <2>1
  <2>4. QED
    BY <2>2, <2>3
<1>4. QED
  BY <1>1, <1>2, <1>3 DEF FilledInv

LEMMA FilledNext ==
  ASSUME MinInputs > 1, LogInv, TypeInv, RunningInv, FilledInv, [EngineNext]_evars
  PROVE  FilledInv'
<1>1. resume \in {"idle", "check", "wait"}
  BY DEF TypeInv
<1>2. CASE UNCHANGED evars
  BY <1>1, <1>2, FilledSame DEF evars, volatile
<1>3. CASE \E n \in 1..MaxSegments : OpenEngine(n)
  <2>1. UNCHANGED <<files, flush_tx, inputs, resume, pc>>
    BY <1>3 DEF OpenEngine
  <2>2. TablesNotEmpty'
    BY <2>1 DEF FilledInv, TablesNotEmpty, Loadable, Opens
  <2>3. pc = "idle"
    BY <1>3 DEF OpenEngine, Open, RunningInv
  <2>4. QED
    BY <2>1, <2>2, <2>3 DEF FilledInv
<1>4. CASE PutRefused
  BY <1>1, <1>4, FilledSame DEF PutRefused, volatile
<1>5. CASE \E k \in Keys : PutAppend(k)
  <2>1. files' = files
    BY <1>5 DEF PutAppend
  <2>2. TablesNotEmpty'
    BY <2>1 DEF FilledInv, TablesNotEmpty, Loadable, Opens
  <2>3. CASE up'
    <3>1. UNCHANGED <<memtable, flush_tx, inputs, resume>> /\ pc' \in {"check", "idle"}
      BY <1>5, <2>3 DEF PutAppend
    <3>2. QED
      BY <1>1, <2>1, <3>1, FilledSame
  <2>4. CASE ~up'
    BY <1>5, <2>2, <2>4, FilledForgotten DEF PutAppend
  <2>5. QED
    BY <2>3, <2>4
<1>6. CASE CrashEngine \/ StopEngine
  <2>1. ForgetEngine /\ \/ files' = files
                        \/ files' = Create(files, Plain(sstable_counter))
                        \/ files' = Create(files, Output)
    BY <1>6 DEF CrashEngine, StopEngine
  <2>2. PICK n, m : n = Plain(sstable_counter) /\ m = Output
    OBVIOUS
  <2>3. TablesNotEmpty'
    BY <2>1, <2>2, FilledFiles DEF FilledInv
  <2>4. QED
    BY <2>1, <2>3, FilledForgotten
<1>7. CASE Collect
  <2>1. UNCHANGED <<files, flush_tx, memtable, inputs>>
        /\ (pc' = "idle" \/ (pc' = "mark" /\ resume' = pc))
    BY <1>7 DEF Collect, Fail
  <2>2. TablesNotEmpty'
    BY <2>1 DEF FilledInv, TablesNotEmpty, Loadable, Opens
  <2>3. QED
    BY <2>1, <2>2 DEF FilledInv
<1>8. CASE NothingToCollect \/ MarkFlush \/ CleanLog \/ SkipCompaction \/ Poll \/ GiveUpWaiting
  <2>1. UNCHANGED <<files, flush_tx, memtable, inputs, resume>>
    BY <1>8 DEF NothingToCollect, MarkFlush, CleanLog, SkipCompaction, Poll, GiveUpWaiting
  <2>2. pc' \in {pc, "idle", "compact", "insert"}
           \/ (pc' = "clean" /\ pc = "mark") \/ (pc' = resume /\ pc = "clean")
           \/ (pc' = "sync" /\ pc = "wait")
    BY <1>8 DEF NothingToCollect, MarkFlush, CleanLog, SkipCompaction, Poll, GiveUpWaiting, Ack,
                Fail
  <2>3. QED
    BY <1>1, <2>1, <2>2, FilledSame
<1>9. CASE DeleteInput
  <2>1. PICK n : files' = [m \in DOMAIN files \ {n} |-> files[m]] \/ files' = files
    BY <1>9 DEF DeleteInput
  <2>2. TablesNotEmpty'
    BY <2>1, FilledFiles DEF FilledInv
  <2>3. UNCHANGED <<flush_tx, memtable, resume>> /\ pc' \in {"insert", "delete"}
    BY <1>9 DEF DeleteInput
  <2>4. QED
    BY <2>2, <2>3 DEF FilledInv
<1>10. QED
  BY <1>2, <1>3, <1>4, <1>5, <1>6, <1>7, <1>8, <1>9, InsertFilled, SwapFilled, SyncFlushFilled,
     ThreadFilled, MergeFilled, SelectFilled DEF EngineNext, PutStep

\* Whatever writes it, a put, the flush thread or a merge, of whatever was replayed
\* after whatever crash: a complete SSTable has an entry, for every number of files
\* a compaction asks for above one.
THEOREM TablesHaveEntries == EngineSpec => [](MinInputs > 1 => TablesNotEmpty)
<1>1. EngineInit => TypeInv /\ RunningInv /\ FilledInv
  BY TypeInit, RunningInit, FilledInit
<1>2. LogInv /\ LogInv' /\ TypeInv /\ RunningInv /\ (MinInputs > 1 => FilledInv)
      /\ [EngineNext]_evars
        => TypeInv' /\ RunningInv' /\ (MinInputs > 1 => FilledInv)'
  BY TypeNext, RunningNext, FilledNext
<1>3. (MinInputs > 1 => FilledInv) => (MinInputs > 1 => TablesNotEmpty)
  BY DEF FilledInv
<1>4. QED
  BY <1>1, <1>2, <1>3, EngineKeepsLog, PTL DEF EngineSpec

------------------------------------------------------------------------------
(* The files of the flushes *)

\* A number is given to one file: those of the files that open are used up, and none
\* of them is the number of a message, however many processes wrote to the directory.
NumbersUsed ==
  /\ ~up => flush_tx = <<>>
  /\ up => \A n \in Loadable : ~n.compacted => n.id < sstable_counter
  /\ \A i \in 1..Len(flush_tx) :
       flush_tx[i].id < sstable_counter /\ Plain(flush_tx[i].id) \notin Loadable
  /\ \A i, j \in 1..Len(flush_tx) : i < j => flush_tx[i].id < flush_tx[j].id

\* What the directory looks like after one file was created, completed or deleted
LEMMA FilesMove ==
  ASSUME NEW name, NEW table
  PROVE  /\ files' = files => Loadable' = Loadable
         /\ files' = Create(files, name) =>
              /\ Loadable' = Loadable \ {name}
              /\ \A n \in Loadable' : files'[n] = files[n]
         /\ files' = Finish(files, name, table) =>
              /\ Loadable' = Loadable \cup {name} /\ files'[name].data = table
              /\ \A n \in Loadable \ {name} : files'[n] = files[n]
         /\ files' = [n \in DOMAIN files \ {name} |-> files[n]] =>
              /\ Loadable' = Loadable \ {name}
              /\ \A n \in Loadable' : files'[n] = files[n]
<1>1. files' = files => Loadable' = Loadable
  BY DEF Loadable, Opens
<1>2. files' = Create(files, name) =>
        /\ Loadable' = Loadable \ {name} /\ \A n \in Loadable' : files'[n] = files[n]
  BY DEF Loadable, Opens, Create
<1>3. files' = Finish(files, name, table) =>
        /\ Loadable' = Loadable \cup {name} /\ files'[name].data = table
        /\ \A n \in Loadable \ {name} : files'[n] = files[n]
  BY DEF Loadable, Opens, Finish
<1>4. files' = [n \in DOMAIN files \ {name} |-> files[n]] =>
        /\ Loadable' = Loadable \ {name} /\ \A n \in Loadable' : files'[n] = files[n]
  BY DEF Loadable, Opens
<1>5. QED
  BY <1>1, <1>2, <1>3, <1>4

\* Names are told apart by their numbers, and by who wrote the file.
LEMMA NamesDiffer ==
  /\ \A a, b : Plain(a) # Compacted(b) /\ (Plain(a) = Plain(b) => a = b)
  /\ \A a : /\ Plain(a).id = a /\ ~Plain(a).compacted
            /\ Compacted(a).id = a /\ Compacted(a).compacted
BY DEF Plain, Compacted

LEMMA NumbersForgotten ==
  ASSUME ForgetEngine, ~up' PROVE NumbersUsed'
BY EmptyQueues DEF ForgetEngine, NumbersUsed

\* Steps that leave files, queue and counter alone
LEMMA NumbersSame ==
  ASSUME NumbersUsed, UNCHANGED <<up, files, flush_tx, sstable_counter>>
  PROVE  NumbersUsed'
<1>1. Loadable' = Loadable
  BY FilesMove
<1>2. QED
  BY <1>1 DEF NumbersUsed

LEMMA OpenNumbers ==
  ASSUME LogInv, TypeInv, NumbersUsed, NEW n \in 1..MaxSegments, OpenEngine(n)
  PROVE  NumbersUsed'
<1>1. ~up /\ UNCHANGED <<files, flush_tx>>
  BY DEF OpenEngine, Open
<1>2. Loadable' = Loadable /\ flush_tx' = <<>>
  BY <1>1, FilesMove DEF NumbersUsed
<1>3. up' => sstable_counter' = NextId
  BY DEF OpenEngine
<1>4. \A m \in Loadable : ~m.compacted => m.id < NextId
  BY AppendedNat, NextIdAbove DEF TypeInv
<1>5. QED
  BY <1>1, <1>2, <1>3, <1>4, EmptyQueues DEF NumbersUsed

LEMMA SwapNumbers ==
  ASSUME TypeInv, NumbersUsed, Swap PROVE NumbersUsed'
<1> DEFINE msg == [id |-> sstable_counter, table |-> memtable]
<1>1. /\ up /\ up' /\ flush_tx' = Append(flush_tx, msg)
      /\ sstable_counter' = sstable_counter + 1 /\ files' = files
      /\ flush_tx \in Seq(Messages(appended)) /\ sstable_counter \in Nat
  BY DEF Swap, Ack, TypeInv, vars
<1>2. Loadable' = Loadable /\ Plain(sstable_counter) \notin Loadable
  <2>1. Loadable' = Loadable
    BY <1>1, FilesMove
  <2>2. \A m \in Loadable : ~m.compacted => m.id # sstable_counter
    BY <1>1 DEF NumbersUsed
  <2>3. QED
    BY <2>1, <2>2, NamesDiffer
<1>3. /\ Len(flush_tx) \in Nat /\ Len(flush_tx') = Len(flush_tx) + 1
      /\ flush_tx'[Len(flush_tx) + 1].id = sstable_counter
      /\ \A i \in 1..Len(flush_tx) : flush_tx'[i] = flush_tx[i]
      /\ \A i \in 1..Len(flush_tx') : i \in 1..Len(flush_tx) \/ i = Len(flush_tx) + 1
  BY <1>1, AppendItems
<1>4. \A i \in 1..Len(flush_tx) : flush_tx[i].id \in Nat
  BY QueueIds
<1>5. \A i \in 1..Len(flush_tx') :
        flush_tx'[i].id < sstable_counter' /\ Plain(flush_tx'[i].id) \notin Loadable'
  BY <1>1, <1>2, <1>3, <1>4 DEF NumbersUsed
<1>6. \A i, j \in 1..Len(flush_tx') : i < j => flush_tx'[i].id < flush_tx'[j].id
  BY <1>1, <1>3, <1>4 DEF NumbersUsed
<1>7. \A m \in Loadable : m.id \in Nat
  BY LoadableFinite DEF TypeInv, FilesTyped, Loadable, Names
<1>8. \A m \in Loadable' : ~m.compacted => m.id < sstable_counter'
  BY <1>1, <1>2, <1>7 DEF NumbersUsed
<1>9. QED
  BY <1>1, <1>5, <1>6, <1>8 DEF NumbersUsed

\* A file written under the number of the counter, by a flush or by a merge
LEMMA CounterNumbers ==
  ASSUME TypeInv, NumbersUsed, up, up', NEW name \in {Plain(sstable_counter), Output}, NEW table,
         \/ files' = Create(files, name)
         \/ files' = Finish(files, name, table)
         \/ files' = files,
         sstable_counter' = sstable_counter + 1, flush_tx' = flush_tx
  PROVE  NumbersUsed'
<1>1. Loadable' \subseteq Loadable \cup {name}
  BY FilesMove
<1>2. /\ name.id = sstable_counter /\ sstable_counter \in Nat
      /\ \A i \in 1..Len(flush_tx) : flush_tx[i].id \in Nat /\ Plain(flush_tx[i].id) # name
  <2>1. \A i \in 1..Len(flush_tx) : flush_tx[i].id \in Nat /\ flush_tx[i].id < sstable_counter
    BY QueueIds DEF NumbersUsed
  <2>2. sstable_counter \in Nat
    BY DEF TypeInv
  <2>3. QED
    BY <2>1, <2>2, NamesDiffer DEF Output
<1>3. \A m \in Loadable : m.id \in Nat
  BY DEF TypeInv, FilesTyped, Loadable, Names
<1>4. \A m \in Loadable' : ~m.compacted => m.id < sstable_counter'
  BY <1>1, <1>2, <1>3 DEF NumbersUsed
<1>5. \A i \in 1..Len(flush_tx') :
        flush_tx'[i].id < sstable_counter' /\ Plain(flush_tx'[i].id) \notin Loadable'
  BY <1>1, <1>2 DEF NumbersUsed
<1>6. QED
  BY <1>4, <1>5 DEF NumbersUsed

\* What the thread does leaves the files that open as they are.
LEMMA ThreadFiles ==
  ASSUME TypeInv, NumbersUsed, FlushThread
  PROVE  \A n \in Loadable : n \in Loadable' /\ files'[n] = files[n]
<1> DEFINE name == Plain(Head(flush_tx).id)
<1>1. flush_tx \in Seq(Messages(appended)) /\ flush_tx # <<>>
  BY DEF FlushThread, BeginFlush, EndFlush, FlushThreadFails, TypeInv
<1>2. name \notin Loadable
  BY <1>1, TailItems DEF NumbersUsed
<1>3. \/ files' = files
      \/ files' = Create(files, name)
      \/ files' = Finish(files, name, Head(flush_tx).table)
  BY DEF FlushThread, BeginFlush, EndFlush, FlushThreadFails
<1>4. PICK n : n = name
  OBVIOUS
<1>5. PICK t : t = Head(flush_tx).table
  OBVIOUS
<1> HIDE DEF name
<1>6. QED
  BY <1>2, <1>3, <1>4, <1>5, FilesMove

LEMMA ThreadNumbers ==
  ASSUME TypeInv, NumbersUsed, FlushThread PROVE NumbersUsed'
<1> DEFINE name == Plain(Head(flush_tx).id)
<1>1. flush_tx \in Seq(Messages(appended)) /\ flush_tx # <<>> /\ up
  BY DEF FlushThread, BeginFlush, EndFlush, FlushThreadFails, TypeInv
<1>2. /\ Head(flush_tx) = flush_tx[1] /\ 1 \in 1..Len(flush_tx)
      /\ \A i \in 1..Len(Tail(flush_tx)) : /\ i + 1 \in 1..Len(flush_tx) /\ i + 1 > 1
                                           /\ Tail(flush_tx)[i] = flush_tx[i + 1]
  BY <1>1, TailItems
<1>3. UNCHANGED <<up, sstable_counter>>
  BY DEF FlushThread, BeginFlush, EndFlush, FlushThreadFails, vars
<1>5. CASE BeginFlush
  <2>1. flush_tx' = flush_tx /\ files' = Create(files, name)
    BY <1>5 DEF BeginFlush
  <2>2. Loadable' \subseteq Loadable
    <3>1. PICK n : n = name
      OBVIOUS
    <3> HIDE DEF name
    <3>2. QED
      BY <2>1, <3>1, FilesMove
  <2>3. QED
    BY <1>1, <1>3, <2>1, <2>2 DEF NumbersUsed
<1>6. CASE EndFlush \/ FlushThreadFails
  <2>1. flush_tx' = Tail(flush_tx)
        /\ (files' = files \/ files' = Finish(files, name, Head(flush_tx).table))
    BY <1>6 DEF EndFlush, FlushThreadFails
  <2>2. Loadable' \subseteq Loadable \cup {name}
    <3>1. PICK n : n = name
      OBVIOUS
    <3>2. PICK t : t = Head(flush_tx).table
      OBVIOUS
    <3> HIDE DEF name
    <3>3. QED
      BY <2>1, <3>1, <3>2, FilesMove
  <2>3. name.id = flush_tx[1].id /\ flush_tx[1].id < sstable_counter
    BY <1>2, NamesDiffer DEF NumbersUsed
  <2>4. \A m \in Loadable' : ~m.compacted => m.id < sstable_counter'
    BY <1>1, <1>3, <2>2, <2>3 DEF NumbersUsed
  <2>5. \A i \in 1..Len(flush_tx') :
          flush_tx'[i].id < sstable_counter' /\ Plain(flush_tx'[i].id) \notin Loadable'
    <3> SUFFICES ASSUME NEW i \in 1..Len(flush_tx')
                 PROVE  flush_tx'[i].id < sstable_counter' /\ Plain(flush_tx'[i].id) \notin Loadable'
      OBVIOUS
    <3>1. i + 1 \in 1..Len(flush_tx) /\ i + 1 > 1 /\ flush_tx'[i] = flush_tx[i + 1]
      BY <1>2, <2>1
    <3>2. flush_tx[1].id < flush_tx[i + 1].id /\ flush_tx[1].id \in Nat
          /\ flush_tx[i + 1].id \in Nat
      BY <1>2, <3>1, QueueIds DEF NumbersUsed
    <3>3. Plain(flush_tx[i + 1].id) # name
      BY <2>3, <3>2, NamesDiffer
    <3>4. flush_tx[i + 1].id < sstable_counter /\ Plain(flush_tx[i + 1].id) \notin Loadable
      BY <3>1 DEF NumbersUsed
    <3> HIDE DEF name
    <3>5. QED
      BY <1>3, <2>2, <3>1, <3>3, <3>4
  <2>6. \A i, j \in 1..Len(flush_tx') : i < j => flush_tx'[i].id < flush_tx'[j].id
    BY <1>2, <2>1 DEF NumbersUsed
  <2>7. QED
    BY <1>1, <1>3, <2>4, <2>5, <2>6 DEF NumbersUsed
<1>7. QED
  BY <1>5, <1>6 DEF FlushThread

LEMMA DeleteInputNumbers ==
  ASSUME NumbersUsed, DeleteInput PROVE NumbersUsed'
<1>1. PICK n : files' = [m \in DOMAIN files \ {n} |-> files[m]] \/ files' = files
  BY DEF DeleteInput
<1>2. Loadable' \subseteq Loadable
  BY <1>1, FilesMove
<1>3. UNCHANGED <<up, flush_tx, sstable_counter>>
  BY DEF DeleteInput, vars
<1>4. QED
  BY <1>2, <1>3 DEF NumbersUsed

\* Steps that write no file and send no message
LEMMA QuietNumbers ==
  ASSUME TypeInv, NumbersUsed,
         \/ PutRefused \/ Collect \/ NothingToCollect \/ MarkFlush \/ CleanLog \/ SkipCompaction
         \/ SelectInputs \/ Insert \/ Poll \/ GiveUpWaiting \/ UNCHANGED evars
  PROVE  NumbersUsed'
<1>1. UNCHANGED <<files, flush_tx, sstable_counter>>
  BY DEF PutRefused, Collect, NothingToCollect, MarkFlush, CleanLog, SkipCompaction, SelectInputs,
         Insert, Poll, GiveUpWaiting, evars, volatile
<1>2. up' = up
  BY DEF PutRefused, AppendRefused, AppendRotationFails, FlushFails, Collect, NothingToCollect,
         MarkFlush, MarkFlushed, CleanLog, Cleanup, CleanupFails, SkipCompaction, SelectInputs,
         Insert, Poll, GiveUpWaiting, evars, vars
<1>3. QED
  BY <1>1, <1>2, NumbersSame

\* A step that writes a file under the number of the counter
Numbered ==
  \/ SyncFlush \/ Merge \/ MergeFails
  \/ CrashEngine /\ files' # files

LEMMA NumberedFiles ==
  ASSUME Numbered
  PROVE  \E name \in {Plain(sstable_counter), Output} : \E table :
           files' \in FailedWrites(files, name, table)
BY DEF Numbered, SyncFlush, Merge, MergeFails, CrashEngine, FailedWrites

LEMMA NumbersNext ==
  ASSUME LogInv, TypeInv, NumbersUsed, [EngineNext]_evars PROVE NumbersUsed'
<1>1. CASE \E k \in Keys : PutAppend(k)
  <2>1. up /\ UNCHANGED files
    BY <1>1 DEF PutAppend, AppendHere, AppendRotating
  <2>2. CASE up'
    BY <1>1, <2>1, <2>2, NumbersSame DEF PutAppend
  <2>3. CASE ~up'
    BY <1>1, <2>3, NumbersForgotten DEF PutAppend
  <2>4. QED
    BY <2>2, <2>3
<1>2. CASE CrashEngine \/ StopEngine
  BY <1>2, NumbersForgotten DEF CrashEngine, StopEngine, Crash, Shutdown, Forget
<1>3. CASE SyncFlush \/ Merge \/ MergeFails
  <2>1. up /\ up' /\ sstable_counter' = sstable_counter + 1 /\ flush_tx' = flush_tx
    BY <1>3 DEF SyncFlush, Merge, MergeFails, vars
  <2>2. PICK name \in {Plain(sstable_counter), Output} : \E table :
          files' \in FailedWrites(files, name, table)
    BY <1>3, NumberedFiles DEF Numbered
  <2>3. QED
    BY <2>1, <2>2, CounterNumbers DEF FailedWrites
<1>4. QED
  BY <1>1, <1>2, <1>3, OpenNumbers, SwapNumbers, ThreadNumbers, DeleteInputNumbers,
     QuietNumbers DEF EngineNext, PutStep

\* No step writes to a file that a flush has completed.
LEMMA FilesStay ==
  ASSUME TypeInv, NumbersUsed, [EngineNext]_evars,
         NEW n \in Loadable, ~n.compacted, n \notin inputs
  PROVE  n \in Loadable' /\ files'[n] = files[n]
<1>1. CASE files' = files
  BY <1>1, FilesMove
<1>2. CASE FlushThread
  BY <1>2, ThreadFiles
<1>3. CASE DeleteInput
  <2>1. PICK m \in inputs : files' = [l \in DOMAIN files \ {m} |-> files[l]] \/ files' = files
    BY <1>3 DEF DeleteInput
  <2>2. QED
    BY <2>1, FilesMove
<1>4. CASE Numbered
  <2>1. up /\ n.id # sstable_counter
    <3>1. up
      BY <1>4 DEF Numbered, SyncFlush, Merge, MergeFails, CrashEngine, Crash
    <3>2. n.id \in Nat /\ sstable_counter \in Nat
      BY DEF TypeInv, FilesTyped, Loadable, Names
    <3>3. QED
      BY <3>1, <3>2 DEF NumbersUsed
  <2>2. PICK name \in {Plain(sstable_counter), Output} : \E table :
          files' \in FailedWrites(files, name, table)
    BY <1>4, NumberedFiles
  <2>3. n # name
    BY <2>1, <2>2, NamesDiffer DEF Output
  <2>4. QED
    BY <2>2, <2>3, FilesMove DEF FailedWrites
<1>5. QED
  <2>1. (\E m \in 1..MaxSegments : OpenEngine(m)) \/ (\E k \in Keys : PutAppend(k))
          \/ PutRefused \/ StopEngine \/ UNCHANGED evars => files' = files
    BY DEF OpenEngine, PutAppend, PutRefused, StopEngine, evars
  <2>2. Collect \/ NothingToCollect \/ MarkFlush \/ CleanLog \/ SkipCompaction \/ SelectInputs
          \/ Insert \/ Poll \/ GiveUpWaiting \/ Swap => files' = files
    BY DEF Collect, NothingToCollect, MarkFlush, CleanLog, SkipCompaction, SelectInputs, Insert,
           Poll, GiveUpWaiting, Swap
  <2>3. QED
    BY <1>1, <1>2, <1>3, <1>4, <2>1, <2>2 DEF EngineNext, PutStep, Numbered

\* Once a flush has completed a file, no flush, failed flush, merge, crash or restart
\* writes to it again, whatever numbers are in the directory; only a compaction that
\* has it among its inputs deletes it.
THEOREM CompletedFilesStay == EngineSpec => FlushedFilesStay
<1>1. EngineInit => TypeInv /\ NumbersUsed
  <2>1. EngineInit => NumbersUsed
    BY EmptyQueues DEF EngineInit, Init, NumbersUsed
  <2>2. QED
    BY <2>1, TypeInit
<1>2. LogInv /\ LogInv' /\ TypeInv /\ NumbersUsed /\ [EngineNext]_evars
        => TypeInv' /\ NumbersUsed'
  BY TypeNext, NumbersNext
<1>3. TypeInv /\ NumbersUsed /\ [EngineNext]_evars
        => [\A n \in Loadable :
              n.compacted \/ n \in inputs \/ (n \in Loadable' /\ files'[n] = files[n])]_evars
  BY FilesStay
<1>4. QED
  BY <1>1, <1>2, <1>3, EngineKeepsLog, PTL DEF EngineSpec, FlushedFilesStay

==============================================================================
