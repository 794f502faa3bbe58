----------------------------- MODULE StorageEngine -----------------------------
(* The storage engine of src/storage_engine.rs on top of the write-ahead log *)
(* of module Wal: put, the background flush thread, the synchronous flush,   *)
(* compaction, crash and restart.                                            *)
(*                                                                           *)
(* put takes &mut self, so at most one runs at a time (the server holds the  *)
(* engine in a Mutex).  It is cut into steps at the points where the flush   *)
(* thread or a crash can come in between: pc is where it stands.  The value  *)
(* a put writes is the number of its log record, so a larger value is a      *)
(* newer version; 0 means "no value".  A memtable and the data of an SSTable *)
(* map each key to a value.                                                  *)
EXTENDS Wal, SequencesExt

CONSTANTS
  Keys,
  MemTableLimit,     \* memtable_max_size, in distinct keys
  Background,        \* background_flush_enabled
  Compaction,        \* compaction_enabled
  MinInputs,         \* the 4 of maybe_compact
  SimilarSizes,      \* all SSTables are within a factor 1.5 in size
  PutsPerSecond,     \* puts that fall in one second, the unit of the timestamps
  MaxWait,           \* max_wait of trigger_background_flush, in polls
  FlushInTime,       \* a working flush thread is done before max_wait is over
  MaxFlushFaults,    \* bound: failing flushes of a memtable
  MaxCompactFaults   \* bound: failing file operations of a compaction

ASSUME EngineAssumption ==
  /\ MemTableLimit \in Nat \ {0} /\ MinInputs \in Nat \ {0}
  /\ PutsPerSecond \in Nat \ {0} /\ MaxWait \in Nat
  /\ {Background, Compaction, SimilarSizes, FlushInTime} \subseteq BOOLEAN

VARIABLES
  memtable,            \* key -> value
  immutable_memtable,  \* key -> value; None is the empty table
  sstables,            \* the open SSTables [name, data], in the order of the Vec
  files,               \* the .sst files: name -> [data, complete]
  sstable_counter,
  flush_tx,            \* Flush messages the thread has not finished
  flush_rx,            \* names of flushed files, not yet collected
  writing,             \* the thread has created the file of the first message
  pc,                  \* where the running put stands; "idle" when none runs
  resume,              \* where put goes on after cleanup_wal_after_flush
  waited,              \* polls of trigger_background_flush so far
  inputs,              \* input files of the running compaction
  flushFaults, compactFaults,   \* faults so far
  keyOf,               \* history: the key of each record
  acked                \* history: the last value put returned Ok for, per key

volatile == <<memtable, immutable_memtable, sstables, sstable_counter, flush_tx,
              flush_rx, writing, pc, resume, waited, inputs>>
fileFaults == <<flushFaults, compactFaults>>
evars == <<vars, volatile, files, fileFaults, keyOf, acked>>

EmptyTable == [k \in Keys |-> 0]
Plain(id) == [id |-> id, compacted |-> FALSE]            \* {:06}.sst
Compacted(id) == [id |-> id, compacted |-> TRUE]         \* {:06}_compacted.sst
Second(v) == v \div PutsPerSecond
IsFull(table) == Cardinality({k \in Keys : table[k] # 0}) >= MemTableLimit

\* SsTableWriter::new creates the file, or truncates it.
Create(fs, name) ==
  [n \in DOMAIN fs \cup {name} |->
     IF n = name THEN [data |-> EmptyTable, complete |-> FALSE] ELSE fs[n]]

\* finish() completes it: data, index and footer are there and synced.
Finish(fs, name, table) ==
  [n \in DOMAIN fs \cup {name} |->
     IF n = name THEN [data |-> table, complete |-> TRUE] ELSE fs[n]]

\* What is there of a file when its creation, a write, finish or its first
\* opening ended in an error: nothing new, a part of it, or all of it.
FailedWrites(fs, name, table) == {fs, Create(fs, name), Finish(fs, name, table)}

\* SsTableReader::open succeeds
Opens(name) == name \in DOMAIN files /\ files[name].complete

\* The reader open returns.  It keeps the file open: unlinking the name does not
\* take the data away from it.
Reader(fs, name) == [name |-> name, data |-> fs[name].data]

------------------------------------------------------------------------------
(* Reading *)

\* The SSTable get stops at: the last one of the list that has the key.
Hits(k) == {i \in 1..Len(sstables) : sstables[i].data[k] # 0}

\* Seeded bug: get does not look at the immutable memtable.
GetSkippingImmutable(k) ==
  IF memtable[k] # 0 THEN memtable[k]
  ELSE IF Hits(k) = {} THEN 0
  ELSE sstables[Max(Hits(k))].data[k]

\* get(k)
Get(k) ==
  IF memtable[k] # 0 THEN memtable[k]
  ELSE IF immutable_memtable[k] # 0 THEN immutable_memtable[k]
  ELSE IF Hits(k) = {} THEN 0
  ELSE sstables[Max(Hits(k))].data[k]

\* The versions of k, or 0, in the sources of scan, in the order it asks them in
Sources(k) ==
  <<memtable[k], immutable_memtable[k]>> \o [i \in DOMAIN sstables |-> sstables[i].data[k]]
Found(k) == {i \in DOMAIN Sources(k) : Sources(k)[i] # 0}

\* Seeded bug: the timestamps are sorted the other way round.
ScanOldest(k) ==
  LET found == Sources(k)
      first == {i \in Found(k) : \A j \in Found(k) :
                  \/ Second(found[j]) > Second(found[i])
                  \/ Second(found[j]) = Second(found[i]) /\ i <= j}
  IN IF first = {} THEN 0 ELSE found[Max(first)]

\* What scan returns for k: its newest second, of several the one found first.
Scan(k) ==
  LET found == Sources(k)
      first == {i \in Found(k) : \A j \in Found(k) :
                  \/ Second(found[j]) < Second(found[i])
                  \/ Second(found[j]) = Second(found[i]) /\ i <= j}
  IN IF first = {} THEN 0 ELSE found[Max(first)]

\* Where log has records of k: segment and place in it
Occurrences(log, k) ==
  {p \in UNION {{n} \X DOMAIN log[n] : n \in DOMAIN log} : keyOf[log[p[1]][p[2]]] = k}

\* Seeded bug: the first record of a key wins the replay.
ReplayFirst(log, k) ==
  LET at == Occurrences(log, k)
      first == CHOOSE p \in at : \A q \in at : p[1] < q[1] \/ (p[1] = q[1] /\ p[2] <= q[2])
  IN IF at = {} THEN 0 ELSE log[first[1]][first[2]]

\* The value of k after replaying the log contents log: that of its last record,
\* 0 if it has none.
Replay(log, k) ==
  LET at == Occurrences(log, k)
      last == CHOOSE p \in at : \A q \in at : q[1] < p[1] \/ (q[1] = p[1] /\ q[2] <= p[2])
  IN IF at = {} THEN 0 ELSE log[last[1]][last[2]]

\* Seeded bug: the newest file sorts first.
SortKeyDescending(name) == IF name.compacted THEN 0 ELSE MaxAppends - name.id

\* sort_by_key in new_with_config: the stem of a compacted file is no number
\* and counts as 0.
SortKey(name) == IF name.compacted THEN 0 ELSE name.id
Loadable == {n \in DOMAIN files : Opens(n)}
LoadOrders ==
  {s \in SetToSeqs({Reader(files, n) : n \in Loadable}) :
     \A i, j \in 1..Len(s) : i < j => SortKey(s[i].name) <= SortKey(s[j].name)}

\* Seeded bug: the counter restarts at the largest id in use.
LargestId == Max({1} \cup {n.id : n \in {m \in Loadable : ~m.compacted}})

\* max_sstable_id + 1: only the files whose stem is a number count.
NextId == Max({0} \cup {n.id : n \in {m \in Loadable : ~m.compacted}}) + 1

\* What get(k) may answer after a replay of the log as it is in the files.
OnDisk(k) ==
  LET log == [n \in DOMAIN segments |-> Entries(segments[n])]
      holders == {n \in Loadable : files[n].data[k] # 0}
      newest == {n \in holders : \A m \in holders : SortKey(m) <= SortKey(n)}
      replayed == Replay(log, k)
  IN IF replayed # 0 THEN {replayed}
     ELSE IF holders = {} THEN {0}
     ELSE {files[n].data[k] : n \in newest}

\* recover reads every segment to its end, or to what it takes for it.
LogOpens == \A n \in DOMAIN segments : ~MustFail(segments[n])

\* What get(k) may answer if the process died now and the engine reopened:
\* nothing when recover ends in an error, for then new_with_config does.
Recoverable(k) == IF LogOpens THEN OnDisk(k) ELSE {}

------------------------------------------------------------------------------
EngineInit ==
  /\ Init
  /\ memtable = EmptyTable /\ immutable_memtable = EmptyTable
  /\ sstables = <<>> /\ files = [n \in {} |-> <<>>]
  /\ sstable_counter = 0
  /\ flush_tx = <<>> /\ flush_rx = <<>> /\ writing = FALSE
  /\ pc = "idle" /\ resume = "idle" /\ waited = 0 /\ inputs = {}
  /\ flushFaults = 0 /\ compactFaults = 0
  /\ keyOf = <<>> /\ acked = EmptyTable

\* The engine is gone with the process; files stay as they are.
ForgetEngine ==
  /\ memtable' = EmptyTable /\ immutable_memtable' = EmptyTable
  /\ sstables' = <<>> /\ sstable_counter' = 0
  /\ flush_tx' = <<>> /\ flush_rx' = <<>> /\ writing' = FALSE
  /\ pc' = "idle" /\ resume' = "idle" /\ waited' = 0 /\ inputs' = {}

\* put(k) returns Ok.
Ack ==
  /\ pc' = "idle"
  /\ acked' = [acked EXCEPT ![keyOf[appended]] = appended]

\* put returns Err: the client hears of an error.
Fail == pc' = "idle" /\ UNCHANGED acked

\* Wal::new and StorageEngine::new_with_config
OpenEngine(n) ==
  /\ Open(n)
  /\ IF up'
       THEN /\ memtable' = [k \in Keys |-> Replay(recovered', k)]
            /\ sstables' \in LoadOrders
            /\ sstable_counter' = NextId
       ELSE UNCHANGED <<memtable, sstables, sstable_counter>>
  /\ UNCHANGED <<immutable_memtable, flush_tx, flush_rx, writing, pc, resume, waited,
                 inputs, files, fileFaults, keyOf, acked>>

\* put(k, value), up to the unlock of the log
PutAppend(k) ==
  /\ pc = "idle"
  /\ AppendHere \/ AppendRotating
  /\ keyOf' = Append(keyOf, k)
  /\ IF up'
       THEN /\ pc' = IF writeFaults' = writeFaults THEN "check" ELSE "idle"
            /\ UNCHANGED <<memtable, immutable_memtable, sstables, sstable_counter,
                           flush_tx, flush_rx, writing, resume, waited, inputs>>
       ELSE ForgetEngine
  /\ UNCHANGED <<files, fileFaults, acked>>

\* put that the log answers with an error before it has the record: the entry
\* is too large, or the rotation fails, in its flush or in its new file.
PutRefused ==
  /\ pc = "idle"
  /\ \/ AppendRefused
     \/ AppendRotationFails
     \/ RotationDue /\ FlushFails
  /\ UNCHANGED <<volatile, files, fileFaults, keyOf, acked>>

\* check_flush_completion with a result: open the new SSTable, drop the
\* immutable memtable, clean up the log.
Collect ==
  /\ up
  /\ pc = "check" \/ (pc = "wait" /\ immutable_memtable # EmptyTable /\ waited < MaxWait)
  /\ flush_rx # <<>>
  /\ IF Opens(Head(flush_rx))
       THEN /\ sstables' = Append(sstables, Reader(files, Head(flush_rx)))
            /\ flush_rx' = Tail(flush_rx)
            /\ immutable_memtable' = EmptyTable
            /\ pc' = "mark" /\ resume' = pc
            /\ UNCHANGED acked
       ELSE /\ flush_rx' = <<>>
            /\ Fail
            /\ UNCHANGED <<sstables, immutable_memtable, resume>>
  /\ UNCHANGED <<vars, memtable, sstable_counter, flush_tx, writing, waited, inputs,
                 files, fileFaults, keyOf>>

\* check_flush_completion without a result, in check_and_compact
NothingToCollect ==
  /\ up /\ pc = "check" /\ flush_rx = <<>>
  /\ pc' = IF Compaction THEN "compact" ELSE "insert"
  /\ UNCHANGED <<vars, memtable, immutable_memtable, sstables, sstable_counter, flush_tx,
                 flush_rx, writing, resume, waited, inputs, files, fileFaults, keyOf, acked>>

\* cleanup_wal_after_flush: mark_flushed ...
MarkFlush ==
  /\ pc = "mark"
  /\ MarkFlushed
  /\ pc' = "clean"
  /\ UNCHANGED <<memtable, immutable_memtable, sstables, sstable_counter, flush_tx,
                 flush_rx, writing, resume, waited, inputs, files, fileFaults, keyOf, acked>>

\* ... and cleanup_old_segments(0), which may end in an error.
CleanLog ==
  /\ pc = "clean"
  /\ \/ /\ Cleanup(0)
        /\ IF resume = "idle" THEN Ack ELSE pc' = resume /\ UNCHANGED acked
     \/ /\ CleanupFails(0)
        /\ Fail
  /\ UNCHANGED <<memtable, immutable_memtable, sstables, sstable_counter, flush_tx,
                 flush_rx, writing, resume, waited, inputs, files, fileFaults, keyOf>>

\* maybe_compact that does nothing: checked less than a second ago, too few
\* files, or no group of similar size.
SkipCompaction ==
  /\ up /\ pc = "compact"
  /\ pc' = "insert"
  /\ UNCHANGED <<vars, memtable, immutable_memtable, sstables, sstable_counter, flush_tx,
                 flush_rx, writing, resume, waited, inputs, files, fileFaults, keyOf, acked>>

\* maybe_compact that picks files of the directory, open or not: a largest
\* group of similar size, which is any group as far as the data tells.
Groups ==
  IF SimilarSizes THEN {DOMAIN files} ELSE SUBSET DOMAIN files

SelectInputs ==
  /\ up /\ pc = "compact"
  /\ \E group \in Groups :
        /\ Cardinality(group) >= MinInputs
        /\ inputs' = group
  /\ pc' = "merge"
  /\ UNCHANGED <<vars, memtable, immutable_memtable, sstables, sstable_counter, flush_tx,
                 flush_rx, writing, resume, waited, files, fileFaults, keyOf, acked>>

\* Seeded bug: the oldest second wins.
MergeKeepingOldest(names) ==
  LET values(k) == {files[n].data[k] : n \in names} \ {0}
      oldest(k) == {v \in values(k) : \A w \in values(k) : Second(v) <= Second(w)}
  IN {t \in [Keys -> 0..appended] :
        \A k \in Keys : IF values(k) = {} THEN t[k] = 0 ELSE t[k] \in oldest(k)}

\* The merged data merge_sstables may write: for each key a value of the newest
\* second; the order among equal timestamps is that of the heap.
MergeOf(names) ==
  LET values(k) == {files[n].data[k] : n \in names} \ {0}
      newest(k) == {v \in values(k) : \A w \in values(k) : Second(w) <= Second(v)}
  IN {t \in [Keys -> 0..appended] :
        \A k \in Keys : IF values(k) = {} THEN t[k] = 0 ELSE t[k] \in newest(k)}

\* The name of the file a compaction writes.
Output == Compacted(sstable_counter)

\* retain: the list without the readers of names, in its order; it is one list.
Retained(names) ==
  LET stay == {i \in DOMAIN sstables : sstables[i].name \notin names}
  IN {[i \in DOMAIN at |-> sstables[at[i]]] :
        at \in {s \in SetToSeqs(stay) : \A i, j \in DOMAIN s : i < j => s[i] < s[j]}}

\* A reader keeps its file open and its index in memory.  When the file is
\* truncated and written again beneath it, it finds of a key what the file has
\* now, or nothing.
AfterRewrite(list, name, table) ==
  LET stale == {i \in DOMAIN list : list[i].name = name}
      seen(i, found) == [k \in Keys |-> IF <<i, k>> \in found THEN table[k] ELSE 0]
  IN {[i \in DOMAIN list |->
         IF i \in stale THEN [list[i] EXCEPT !.data = seen(i, found)] ELSE list[i]] :
        found \in SUBSET (stale \X Keys)}

\* compact_sstables_sync: merge the inputs, replace their readers by one of the
\* output, at the end of the list.  An input with the name of the output was
\* truncated when the output was created.
Merge ==
  /\ up /\ pc = "merge"
  /\ \A n \in inputs : Opens(n)
  /\ sstable_counter' = sstable_counter + 1
  /\ \E table \in MergeOf(inputs \ {Output}), kept \in Retained(inputs) :
        /\ files' = Finish(files, Output, table)
        /\ \E list \in AfterRewrite(kept, Output, table) :
              sstables' = Append(list, Reader(files', Output))
  /\ pc' = "delete"
  /\ UNCHANGED <<vars, memtable, immutable_memtable, flush_tx, flush_rx, writing, resume,
                 waited, inputs, fileFaults, keyOf, acked>>

\* compact_sstables_sync that ends in an error, and put with it: an input does
\* not open, or the output is not created, written, finished or opened.
MergeFails ==
  /\ up /\ pc = "merge"
  /\ sstable_counter' = sstable_counter + 1
  /\ \/ /\ \E n \in inputs : ~Opens(n)
        /\ UNCHANGED <<files, sstables, compactFaults>>
     \/ /\ \A n \in inputs : Opens(n)
        /\ compactFaults < MaxCompactFaults
        /\ compactFaults' = compactFaults + 1
        /\ \E table \in MergeOf(inputs \ {Output}) :
              files' \in FailedWrites(files, Output, table)
        /\ IF files' = files THEN sstables' = sstables
           ELSE sstables' \in AfterRewrite(sstables, Output, files'[Output].data)
  /\ Fail
  /\ inputs' = {}
  /\ UNCHANGED <<vars, memtable, immutable_memtable, flush_tx, flush_rx, writing, resume,
                 waited, flushFaults, keyOf>>

\* remove_file of one input, in the order of the sizes; when it fails, the file
\* stays and put goes on.
DeleteInput ==
  /\ up /\ pc = "delete"
  /\ \E n \in inputs :
        /\ inputs' = inputs \ {n}
        /\ \/ /\ files' = [m \in DOMAIN files \ {n} |-> files[m]]
              /\ UNCHANGED compactFaults
           \/ /\ compactFaults < MaxCompactFaults
              /\ compactFaults' = compactFaults + 1
              /\ UNCHANGED files
  /\ pc' = IF inputs' = {} THEN "insert" ELSE "delete"
  /\ UNCHANGED <<vars, memtable, immutable_memtable, sstables, sstable_counter, flush_tx,
                 flush_rx, writing, resume, waited, flushFaults, keyOf, acked>>

\* memtable.put, and what put does next
Insert ==
  /\ up /\ pc = "insert"
  /\ memtable' = [memtable EXCEPT ![keyOf[appended]] = appended]
  /\ IF ~IsFull(memtable') THEN Ack
     ELSE pc' = (IF Background THEN "wait" ELSE "sync") /\ UNCHANGED acked
  /\ waited' = 0
  /\ UNCHANGED <<vars, immutable_memtable, sstables, sstable_counter, flush_tx, flush_rx,
                 writing, resume, inputs, files, fileFaults, keyOf>>

\* Seeded bug: the polls are not counted.
PollUncounted ==
  /\ up /\ pc = "wait"
  /\ FlushInTime => flush_tx = <<>>
  /\ immutable_memtable # EmptyTable /\ waited < MaxWait /\ flush_rx = <<>>
  /\ UNCHANGED evars

\* One poll of trigger_background_flush that finds nothing, then 1 ms of sleep
Poll ==
  /\ up /\ pc = "wait"
  /\ FlushInTime => flush_tx = <<>>
  /\ immutable_memtable # EmptyTable /\ waited < MaxWait /\ flush_rx = <<>>
  /\ waited' = waited + 1
  /\ UNCHANGED <<vars, memtable, immutable_memtable, sstables, sstable_counter, flush_tx,
                 flush_rx, writing, pc, resume, inputs, files, fileFaults, keyOf, acked>>

\* max_wait is over: flush the active memtable synchronously.
GiveUpWaiting ==
  /\ up /\ pc = "wait" /\ immutable_memtable # EmptyTable /\ waited = MaxWait
  /\ pc' = "sync"
  /\ UNCHANGED <<vars, memtable, immutable_memtable, sstables, sstable_counter, flush_tx,
                 flush_rx, writing, resume, waited, inputs, files, fileFaults, keyOf, acked>>

\* trigger_background_flush: hand the full memtable to the flush thread.
Swap ==
  /\ up /\ pc = "wait" /\ immutable_memtable = EmptyTable
  /\ immutable_memtable' = memtable
  /\ memtable' = EmptyTable
  /\ flush_tx' = Append(flush_tx, [id |-> sstable_counter, table |-> memtable])
  /\ sstable_counter' = sstable_counter + 1
  /\ Ack
  /\ UNCHANGED <<vars, sstables, flush_rx, writing, resume, waited, inputs, files,
                 fileFaults, keyOf>>

\* Seeded bug: the file is written from the memtable after it was replaced.
SyncFlushOfNew ==
  /\ up /\ pc = "sync"
  /\ sstable_counter' = sstable_counter + 1
  /\ memtable' = EmptyTable
  /\ files' = Finish(files, Plain(sstable_counter), memtable')
  /\ sstables' = Append(sstables, Reader(files', Plain(sstable_counter)))
  /\ pc' = "mark" /\ resume' = "idle"
  /\ UNCHANGED <<vars, immutable_memtable, flush_tx, flush_rx, writing, waited, inputs, keyOf,
                 fileFaults, acked>>

\* flush_memtable_sync, up to the cleanup of the log.  The memtable has been
\* replaced before the file is written and opened, and stays so when that fails.
SyncFlush ==
  /\ up /\ pc = "sync"
  /\ sstable_counter' = sstable_counter + 1
  /\ memtable' = EmptyTable
  /\ \/ /\ files' = Finish(files, Plain(sstable_counter), memtable)
        /\ files'[Plain(sstable_counter)].complete
        /\ sstables' = Append(sstables, Reader(files', Plain(sstable_counter)))
        /\ pc' = "mark" /\ resume' = "idle"
        /\ UNCHANGED <<fileFaults, acked>>
     \/ /\ flushFaults < MaxFlushFaults
        /\ flushFaults' = flushFaults + 1
        /\ files' \in FailedWrites(files, Plain(sstable_counter), memtable)
        /\ Fail
        /\ UNCHANGED <<sstables, resume, compactFaults>>
  /\ UNCHANGED <<vars, immutable_memtable, flush_tx, flush_rx, writing, waited, inputs, keyOf>>

------------------------------------------------------------------------------
(* The flush thread *)

\* Seeded bug: the thread waits until the frozen memtable is released.
BeginFlushLate ==
  /\ immutable_memtable = EmptyTable
  /\ up /\ flush_tx # <<>> /\ ~writing
  /\ writing' = TRUE
  /\ files' = Create(files, Plain(Head(flush_tx).id))
  /\ UNCHANGED <<vars, memtable, immutable_memtable, sstables, sstable_counter, flush_tx,
                 flush_rx, pc, resume, waited, inputs, fileFaults, keyOf, acked>>

\* It takes the next message and creates the file ...
BeginFlush ==
  /\ up /\ flush_tx # <<>> /\ ~writing
  /\ writing' = TRUE
  /\ files' = Create(files, Plain(Head(flush_tx).id))
  /\ UNCHANGED <<vars, memtable, immutable_memtable, sstables, sstable_counter, flush_tx,
                 flush_rx, pc, resume, waited, inputs, fileFaults, keyOf, acked>>

\* Seeded bug: the thread does not report what it has flushed.
EndFlushUnreported ==
  /\ up /\ writing
  /\ writing' = FALSE
  /\ flush_tx' = Tail(flush_tx)
  /\ LET name == Plain(Head(flush_tx).id) IN
       files' = IF name \in DOMAIN files
                  THEN Finish(files, name, Head(flush_tx).table) ELSE files
  /\ UNCHANGED <<vars, memtable, immutable_memtable, sstables, sstable_counter, flush_rx, pc,
                 resume, waited, inputs, fileFaults, keyOf, acked>>

\* ... completes it and sends the result.  If compaction has deleted the name
\* in between, the file has no name any more.
EndFlush ==
  /\ up /\ writing
  /\ writing' = FALSE
  /\ flush_tx' = Tail(flush_tx)
  /\ LET name == Plain(Head(flush_tx).id) IN
       /\ files' = IF name \in DOMAIN files
                     THEN Finish(files, name, Head(flush_tx).table) ELSE files
       /\ flush_rx' = Append(flush_rx, name)
  /\ UNCHANGED <<vars, memtable, immutable_memtable, sstables, sstable_counter, pc, resume,
                 waited, inputs, fileFaults, keyOf, acked>>

\* The file is not created, not completed, or complete when sync_all fails: a line
\* on stderr, no result, no retry.
FlushThreadFails ==
  /\ up /\ flush_tx # <<>>
  /\ flushFaults < MaxFlushFaults
  /\ flushFaults' = flushFaults + 1
  /\ writing' = FALSE
  /\ flush_tx' = Tail(flush_tx)
  /\ \/ UNCHANGED files
     \/ /\ writing /\ Plain(Head(flush_tx).id) \in DOMAIN files
        /\ files' = Finish(files, Plain(Head(flush_tx).id), Head(flush_tx).table)
  /\ UNCHANGED <<vars, memtable, immutable_memtable, sstables, sstable_counter, flush_rx, pc,
                 resume, waited, inputs, compactFaults, keyOf, acked>>

\* The process dies.  A file that put was writing is left incomplete.
CrashEngine ==
  /\ Crash
  /\ \/ files' = files
     \/ pc = "sync" /\ files' = Create(files, Plain(sstable_counter))
     \/ pc = "merge" /\ files' = Create(files, Output)
  /\ ForgetEngine
  /\ UNCHANGED <<fileFaults, keyOf, acked>>

\* Ctrl-C: the log is flushed when it is dropped; the flush thread is not
\* joined, what it was writing is left incomplete.
StopEngine ==
  /\ pc = "idle"
  /\ Shutdown
  /\ ForgetEngine
  /\ UNCHANGED <<files, fileFaults, keyOf, acked>>

PutStep ==
  \/ Collect \/ NothingToCollect \/ MarkFlush \/ CleanLog
  \/ SkipCompaction \/ SelectInputs \/ Merge \/ MergeFails \/ DeleteInput
  \/ Insert \/ Poll \/ GiveUpWaiting \/ Swap \/ SyncFlush
FlushThread == BeginFlush \/ EndFlush \/ FlushThreadFails

EngineNext ==
  \/ \E n \in 1..MaxSegments : OpenEngine(n)
  \/ \E k \in Keys : PutAppend(k)
  \/ PutRefused
  \/ PutStep
  \/ FlushThread
  \/ CrashEngine
  \/ StopEngine

EngineSpec == EngineInit /\ [][EngineNext]_evars

------------------------------------------------------------------------------
(* Properties *)

EngineTypeOK ==
  /\ TypeOK
  /\ memtable \in [Keys -> 0..appended] /\ immutable_memtable \in [Keys -> 0..appended]
  /\ \A i \in 1..Len(sstables) : sstables[i].data \in [Keys -> 0..appended]
  /\ \A n \in DOMAIN files : files[n].data \in [Keys -> 0..appended]
  /\ Len(keyOf) = appended
  /\ pc \in {"idle", "check", "mark", "clean", "compact", "merge", "delete", "insert",
             "wait", "sync"}

\* The versions of k up to the last one put acknowledged, without those a crash
\* has taken with the buffer of the log.
Acknowledged(k) == {v \in 1..acked[k] : keyOf[v] = k /\ v \notin lost}

\* Between two operations get answers with the last value put acknowledged, or
\* a newer one whose put ended in an error: no stale read, before or after a
\* flush, a crash or a restart (storage_engine.rs get).
ReadsLatest ==
  up /\ pc = "idle" => \A k \in Keys : \A v \in Acknowledged(k) : Get(k) >= v

\* A compaction that failed is harmless until the next restart, which may take
\* the files it left for newer than they are: none has failed, or the log was
\* empty when the engine was opened.
NothingLeftBehind == compactFaults = 0 \/ \A n \in DOMAIN recovered : recovered[n] = <<>>

\* The same in the unit of the timestamps, which is all that a compaction goes
\* by: no flush, merge, failed merge or restart takes get back to an earlier
\* second (storage_engine.rs compact_sstables_sync, compaction.rs merge_sstables).
ReadsLatestSecond ==
  up /\ pc = "idle" /\ NothingLeftBehind =>
    \A k \in Keys : \A v \in Acknowledged(k) : Get(k) # 0 /\ Second(Get(k)) >= Second(v)

\* scan, which goes by the timestamps, and get, which goes by the order of the
\* tables, find the same keys, and versions of the same second: memtable,
\* immutable memtable and list of SSTables are ordered as the seconds of their
\* values are.  Within a second the two may differ (storage_engine.rs scan, get).
ScanAgrees ==
  up /\ pc = "idle" /\ NothingLeftBehind =>
    \A k \in Keys :
      /\ Second(Scan(k)) = Second(Get(k))
      /\ Scan(k) = 0 <=> Get(k) = 0

\* At whatever step the process dies, a restart that opens brings back every
\* acknowledged put whose record had left the buffer of the log: "All data
\* recovered" (ARCHITECTURE.md:197), as far as it goes.  What was in the buffer
\* is gone, and a record torn in its payload keeps the engine from opening.
SurvivesCrash ==
  \A k \in Keys :
    \A v \in Acknowledged(k) \ Ids(buffer), w \in Recoverable(k) : w >= v

\* Cleanup deletes no record of a value that is not in a complete SSTable: "This
\* method ensures segments are only deleted when ... They've been flushed to
\* SSTable" (wal.rs:151 cleanup_old_segments).
LogKeepsUnflushed ==
  \A k \in Keys :
    acked[k] \in cleaned => \E n \in Loadable : files[n].data[k] >= acked[k]

\* get walks the SSTables "newest to oldest" (ARCHITECTURE.md:126): of two in
\* the list that have the same key, the later one has the newer value.
NewestToOldest ==
  \A i, j \in 1..Len(sstables) : i < j =>
    \A k \in Keys :
      sstables[i].data[k] # 0 /\ sstables[j].data[k] # 0
        => sstables[i].data[k] <= sstables[j].data[k]

\* A file that a flush has completed is never written again, whatever numbers a
\* restart, a failed flush or a compaction leaves behind: only a compaction that
\* has it among its inputs deletes it (storage_engine.rs new_with_config).
FlushedFilesStay ==
  [][\A n \in Loadable :
       n.compacted \/ n \in inputs \/ (n \in Loadable' /\ files'[n] = files[n])]_evars

\* A compaction deletes its inputs and keeps its output: "Delete old SSTables"
\* (compaction.rs:14).
OutputSurvives == pc = "delete" => Last(sstables).name \in DOMAIN files \ inputs

\* No complete SSTable is empty, whatever flush, replay or merge wrote it: the
\* merge numbers its iterators by the inputs that have a first entry, and one
\* without would shift them against the inputs (compaction.rs merge_sstables).
TablesNotEmpty == \A n \in Loadable : files[n].data # EmptyTable

\* The immutable memtable is the "MemTable being flushed" (ARCHITECTURE.md:122):
\* while there is one, the flush thread has it, or its result is waiting.
ImmutableIsBeingFlushed ==
  immutable_memtable # EmptyTable => flush_tx # <<>> \/ flush_rx # <<>>

\* What a user sees of the engine: while it runs, what get answers; while it is
\* down, what is on the disk, whether or not the next open gets at it.
View == [k \in Keys |-> IF up THEN Get(k) ELSE CHOOSE v \in OnDisk(k) : TRUE]

KV == INSTANCE KVStore WITH store <- View, MaxVersion <- MaxAppends

\* The engine implements a durable register per key: each of its steps, crash
\* and restart included, is a put of one key or changes nothing a user sees.
ImplementsKVStore == KV!KVSpec

\* put runs on its caller's thread and never blocks on the flush thread for
\* ever; the flush thread runs on its own.  Both are scheduled by the system.
Fairness == WF_evars(PutStep) /\ WF_evars(BeginFlush \/ EndFlush)
FairEngineSpec == EngineSpec /\ Fairness

\* Every put returns, whatever becomes of the background flush, the compaction
\* and the cleanup: the wait for the flush thread is bounded
\* (storage_engine.rs trigger_background_flush).
PutReturns == pc # "idle" ~> pc = "idle"

\* A memtable handed to the flush thread is written, or given up with an error:
\* the queue drains (storage_engine.rs spawn_flush_thread).
FlushQueueDrains == flush_tx # <<>> ~> flush_tx = <<>>

==============================================================================
