# Verification of the CityHall store

CityHall is a key-value store in Rust: a TCP server in front of a log-structured
storage engine.  This directory holds TLA+ models of its core, TLC
configurations that check them on small instances, and proofs that TLAPS checks
for every value of the constants.

    tlc -workers 2 -config Wal_log.cfg Wal      # one run
    tlapm WalProofs.tla                         # the proofs of one module

## 1. The system

| component | source | state it keeps | operations |
|---|---|---|---|
| write-ahead log | `src/wal.rs` | segment files, current segment, its buffer, `bytes_written`, `segment_number`, `last_flushed_segment` | open, recover, append, rotate, flush, `mark_flushed`, `cleanup_old_segments`, list/read closed segments, drop |
| storage engine | `src/storage_engine.rs` | memtable, immutable memtable, list of SSTables, id counter, queues to and from the flush thread | open, put, get, scan, background and synchronous flush, compaction |
| flush thread | `storage_engine.rs` 145-189 | the memtable it was sent | write an SSTable, send the result |
| compaction | `src/compaction.rs` | none between calls | select files of similar size, k-way merge |
| memtable | `src/memtable.rs` | sorted map, size in bytes | put, get, scan, entries |
| SSTable files | `src/sstable/` | blocks, index, Bloom filter, header, footer | write, open, get, scan |
| server | `src/commands/server.rs` | the engine in a mutex, one task per connection with its request and its reply | accept, read a line, PUT, GET, reply, leave, Ctrl-C, kill, start |
| client, command line | `src/commands/client.rs`, `src/cli.rs` | none | connect, one line, one reply |
| dashboard, metrics | `src/http_server.rs`, `src/metrics.rs` | counters | display |

How they interact.  A connection locks the mutex and calls `put` or `get`.
`put` locks the log, appends, unlocks; then collects a finished flush, maybe
compacts, and only then inserts into the memtable.  A full memtable is frozen and
sent over an unbounded channel to the flush thread; the result comes back over a
second channel and is collected by a later `put`.  Collecting it opens the file,
releases the frozen memtable, and tells the log (`mark_flushed`,
`cleanup_old_segments(0)`).  The flush thread shares nothing with the engine but
the two channels and *the data directory*, which compaction lists.  At a start
the log is replayed into the memtable and every `.sst` file that opens is loaded,
sorted by the number in its name.

What is hard.

* The flush thread is concurrent with everything `put` does: rotation, cleanup,
  compaction, another full memtable.
* The process may die between any two of these steps, in the middle of writing
  the log, or in the middle of writing an SSTable.
* I/O errors: a write that is retried, a rotation that fails half-way, a cleanup
  that stops in the middle, a flush that fails in the thread or in the put, a
  compaction whose output fails or whose inputs cannot be deleted.
* A bounded wait (100 polls) for the thread, with a fallback.
* The order of versions is kept four times: order of segments, order of the list
  of SSTables, order of file names, timestamps in seconds.

What makes it correct.  The log: order, no silent loss, readable after a crash,
cleanup only of what is in SSTables.  The engine: a get answers the last
acknowledged put, before and after a restart.  Compaction: the newest second
stays, and no file of a flush is overwritten.  Every put returns.  The tables: what was put into the memtable is what the file gives
back, byte for byte.  The server: linearizable to its clients, every request answered.

The hazards are listed one by one, at their lines, in `PROJECT.json`.

## 2. The modules

### Wal

The state of `Wal` and `WalSegment`, and the directory of segment files.

* A record is the number of its append (1, 2, ...) over all lives of the
  process, so "older" is "smaller" and history needs no clock.  Sizes are in
  records.  `append` and `append_delete` differ in a byte that recovery ignores.
* A file is a sequence of records and torn records.  The two kinds of torn
  record are told apart because `read_record` treats them differently: an end of
  file inside the 7 header bytes ends the segment, one inside the payload is an
  error of the whole recovery (`MustFail`).  Bytes that follow a torn record are
  parsed out of step, which ends the segment or is an error, depending on the
  bytes (`MayFail`, a choice in `Open`).
* `Open` is `Wal::new` followed by `Wal::recover`, as `run_server` does.
* `append` is `AppendHere` (no rotation due), `AppendRotating` (rotation and
  append), `AppendRefused` (rotation, then a record that is too large) or
  `AppendRotationFails`.  An append fills the buffer, or writes it out; writing
  may fail half-way, the process may die half-way.
* `Flush`, `FlushFails`, `MarkFlushed`, `Cleanup`, `CleanupFails`, `Crash`,
  `Shutdown` (the log is dropped, which flushes it).
* `appended`, `marked`, `lost`, `cleaned` are history: what was appended, how
  much of it before the last mark, what died in a buffer, what cleanup deleted.

The log is used under an `RwLock`, so each call is one step; a crash inside a
call is a choice of the step.

### StorageEngine

EXTENDS Wal; every step of the engine that uses the log is a step of the log.

`put` takes `&mut self`, so one runs at a time and `pc` says where it stands.
It is cut where the flush thread, or a crash, can tell the difference:

    idle --PutAppend--> check --NothingToCollect--> compact --SkipCompaction--> insert
            check --Collect--> mark --MarkFlush--> clean --CleanLog--> check
            compact --SelectInputs--> merge --Merge--> delete --DeleteInput*--> insert
            merge --MergeFails--> idle
    insert --Insert--> idle, or a full memtable: wait (background) or sync
            wait --Poll, Collect...--> Swap --> idle,  or GiveUpWaiting --> sync
            sync --SyncFlush--> mark --> clean --> idle

The flush thread is `BeginFlush` (the file exists, incomplete), `EndFlush` (it
is complete, the result is sent), `FlushThreadFails` (at any point).  `CrashEngine` may come at
any moment and leaves a file under construction incomplete; `StopEngine` is a
Ctrl-C, which drops (and flushes) the log but does not wait for the thread.

File operations fail as the code lets them.  `SyncFlush` takes the memtable first and
then creates, writes, finishes and opens the file; an error of any of these ends put
before the log is marked, and the file may be missing, incomplete or complete
(`FailedWrites`).  `MergeFails` is the same of a compaction's output, and of an input
that does not open.  An input that cannot be deleted is skipped (`DeleteInput`).
`MaxFlushFaults` and `MaxCompactFaults` bound them.  `Recoverable` is what get may
answer after a restart; it is empty if `recover` refuses the log (`LogOpens`), for then
`new_with_config` ends with that error.

The value a put writes is the number of its record; 0 is "no value".  An SSTable
is its name, its data, and whether it is complete; a reader keeps the data it
opened even if the name is deleted.  Names are kept as pairs of an id and
"compacted or not", because loading treats `000007_compacted.sst` as number 0
(`SortKey`) and does not count it for the next id (`NextId`).  The merge keeps,
per key, a version of the newest *second*: which of several is left open
(`MergeOf`).  A group of files of similar size is all files or any subset
(`Groups`), as `SimilarSizes` says.

`Get` is `get`; `Scan` is what `scan` leaves of one key after it sorts by second
and drops duplicates (`sort_by` is stable, so a tie goes to the source it asked first).

`keyOf` and `acked` are history: the key of each record, the last put per key
that returned Ok.

### KVStore

What the engine promises: a durable register per key.  A put takes effect at one
moment and never replaces a newer version; nothing else changes what a user
sees, crash and restart included.  `StorageEngine` implements it under the map
`View`: what `get` answers, and while the engine is down what is on the disk (`OnDisk`),
also if a torn payload keeps the next open from getting at it.  So the refinement
speaks of what is stored; that the engine opens at all is OpensAfterCrash, which
fails (Wal_torn).  A put that returned
an error may or may not have taken effect, and may still take effect at a restart.

### Server, LinearKV

`Server` EXTENDS StorageEngine with one task per connection, as
`handle_client_connection` runs it:

    none --Accept--> read --ReadRequest--> lock --ServeGet, RefusePut--> write
                     read --ReadOther--> write       (any other line: ERROR)
                     lock --StartPut--> put --EndPut--> write --WriteReply--> read
                     read, write --Leave--> none

A task gives up its thread at `read_line` and `write_all` only; from `lock()` to
the end of `put` it keeps it.  So a put of the engine runs while exactly one task
is at "put" (`OnePutAtATime`), and `EngineRuns` is the step of that put.  `Kill`
takes the connections with the process; `CtrlC` waits for the tasks that are not at
an await, drops the others, then drops the engine.  A client sends its next line
after the reply; `client.rs` sends one per connection, which is a case of it.  Empty
lines are skipped by the code and are no request here.

`LinearKV` EXTENDS KVStore with clients: a call is open, takes effect or takes its
answer at one moment, and returns.  A PUT that is answered ERROR after its record was
logged, or cut off by a crash, leaves its key *in doubt*: the value may come back at
a restart, but never over a later PUT.  `Server` implements it under `View`, `CallOf`
and `InDoubt`.

### KeyOrder, MemTable, BlockCodec, BloomFilter, SsTable, TableFlush

What the engine takes for granted of its tables, at the level of bytes.

* `MemTable`: the sorted map and `size_bytes`, which grows and shrinks with every
  put (`SizeAfter`) and decides when the table is full.
* `BlockCodec`: the block builder with its prefix compression (`Encode`) and its
  varints, byte by byte, and the decoder with each of its checks, that for varints of
  more than ten bytes included; lengths are therefore numbers of 64 bits
  (`LengthsAssumption` of TableFlush).  A key is a
  sequence of bytes; a value is its length and its timestamp.
* `BloomFilter`: the bit array, the double hashing that wraps at `Word`, the
  serialized form and the reader's decoding of it.  `Word` is a small power of two
  in place of 2^64; `hash` is any function of `HashFns`, so what holds owes nothing to
  the hash being a good one.
* `SsTable`: the file, part by part with its position: header, compressed blocks,
  index, filter, footer.  The writer (`Add`, which ends a block as soon as it is full,
  `FinishTable`, which goes back to rewrite the header), the reader that opens
  (`Readers`: footer, header, filter, index), gets and scans; a block that does not decode
  ends either with an error.  Fixed-width fields are
  read back as written; Snappy is the size it yields (`Compressed`).
* `TableFlush` composes them as `flush_memtable_to_disk` does: fill, freeze, one
  `AddNext` per entry, `FinishFlush`.  Its specification of the SSTable is the
  memtable it came from, which is still there to be compared with.

### Compaction

`compaction.rs` step by step, where StorageEngine only says what comes out:
`Select` (sort by size, groups within a factor 1.5, the first largest; then one
iterator and one heap entry per input), `Pop` (one round of the loop; of equal
entries any may come out, as a heap is not stable), `FinishMerge`, and `FailMerge`, an error
of the writer at any round.  An input
that cannot be scanned contributes an empty iterator; one that has no entries
contributes none.  The scan ends at `[0xFF; 1024]`, so a key above it (the server has
none, its keys being UTF-8, but the library accepts it) is dropped by a merge:
`ScanEnd` is the last key that is not.

### MCStorageEngine, MCTableFlush, MCCompaction

The first adds the symmetry of the keys, used where a run checks invariants
only; the other two give the keys, hash functions and files their values.

### The proof modules

| module | extends | proves |
|---|---|---|
| SetProofs | | finite sets of numbers have a least and a largest member; every element of a finite total order has its place; induction, up, down and from all smaller numbers, over a set |
| WalProofs | Wal | the invariants of the log, closed segments, readability |
| EngineProofs | StorageEngine, WalProofs | the engine uses the log by its steps only; types of tables; the flush queue; what a replay finds of a key |
| DurableProofs | EngineProofs | durability, `get` and `scan`, the refinement of KVStore |
| CompactProofs | EngineProofs | compaction inside the engine |
| ServerProofs | Server, DurableProofs | the mutex, the refinement of LinearKV |
| MergeProofs | Compaction | the selection of files and the merge, step by step |
| TableProofs | TableFlush, SetProofs | a flush loses nothing: memtable, writer, codec, filter, header, `get` and `scan` of the finished table |

Section 4 says along which argument.

`Seeded bug` definitions are alternatives of the definition that follows them:
put in its place, they break the property that is there to notice.

## 3. What is checked

| run | question | result |
|---|---|---|
| Wal_log | crashes, torn tails, failing and retried writes, failing rotations, cut-short cleanups, any replica position | TypeOK, CleanupSafe, SegmentOrder, NoSilentLoss, ClosedImmutable, FlushedReadable hold, and so does the inductive invariant LogInv |
| Wal_torn | does the log open after a crash? (WAL_ANALYSIS.md:721) | no |
| Wal_retry | is a torn record the last one of its segment? (ARCHITECTURE.md:228) | no |
| Engine_sync | two crashes at any point, a log with a buffer, torn records, restarts, rotation and one that fails, cleanup, synchronous flush | reads are up to date; a restart that opens brings back every acknowledged put that had left the buffer; the log keeps what is not in an SSTable |
| Server_clients | two clients, the flush thread, a crash, two puts per second, a cleanup that fails and so answers ERROR to a PUT that was logged | one put at a time, reads are up to date, scan agrees with get to the second, the list is ordered, the immutable memtable is always on its way; implements KVStore and LinearKV; every request is answered |
| Engine_compaction | compaction of all files, two puts per second, a file operation of it that fails, clean restarts, no crash | reads stay in the second of the last put, scan agrees with get to the second, no table is empty, completed flushes are not overwritten |
| Engine_progress | everything that fails without a crash, a slow thread, compaction | every put returns, the flush queue drains |
| Table_flush | every memtable of up to 4 puts, written to an SSTable and opened again, for each of three hash functions | the size account never falls short, every block decodes at every moment, the header tells what is in the file, get answers as the memtable did, and scan too but for the end of the range, which only the SSTable includes |
| Compaction_merge | every three files over 3 keys, one of them behind the end of the scan, and 2 timestamps; a merge that fails at any round | the largest group is selected, keys are written in ascending order, the newest version of each key the scans come to is kept, a merge ends |
| Engine_rotation | is the log kept while a flush is under way? (wal.rs:151-153) | no |
| Engine_timeout | is the list of SSTables ordered after the bounded wait? (ARCHITECTURE.md:126) | no |
| Engine_idreuse | does the output of a compaction stay? (compaction.rs:13-14) | no |

The counterexamples.

* *Wal_torn.* A crash cuts a record in its payload; `read_exact` returns
  `UnexpectedEof` and `recover` returns it.  Every restart creates one more empty
  segment and fails.
* *Wal_retry.* `write_all` fails after a part of the buffer; the buffer is kept;
  the next flush writes all of it again behind the torn record.  Recovery stops at
  the torn record and loses the second copy, which was acknowledged.
* *Engine_rotation.* The memtable is frozen; further puts go to the new
  memtable, and the log rotates; the flush is collected, and `mark_flushed`
  records the *present* segment; cleanup deletes the segment of the further puts,
  which are in no SSTable.  A crash now loses them.
* *Engine_timeout.* After 100 ms the active memtable is flushed synchronously and
  its SSTable listed; then the older one arrives and is listed after it, where
  `get` looks first.  ReadsLatest fails there too.
* *Engine_idreuse.* After a restart the next id is taken from uncompacted files
  only; the next compaction may call its output like one of its inputs: it
  truncates it, and deletes it with the inputs.

Further deviations that the same models show when a constant or a condition is
changed; the passing runs exclude each by what is named:

* *A put that is in the buffer.*  With `BufferCapacity = 2` in Engine_sync an acknowledged
  put is lost at a crash if its record had not been written out ("All data
  recovered", ARCHITECTURE.md:197; the server's default buffer is 1 MiB, `cli.rs:31`).
  ReadsLatest and SurvivesCrash leave out the records a crash took with the buffer
  (`lost`, `buffer`), so they say what is kept and not that all is.
* *A lost record whose value is in an SSTable.*  In the same run a memtable is flushed
  while its last record is in the buffer; the crash takes the record, the restart
  replays an older record of that key, which was not cleaned up, and the memtable then
  shadows the newer value of the SSTable.  NewestToOldest (after the next flush) and
  KVStore fail for it, which is why they are checked in Server_clients, over a log
  written through.
* *A cleanup that fails.*  `MaxDeleteFaults = 1`, `SegmentLimit = 1`, `BufferCapacity = 1` in
  Engine_sync: SurvivesCrash fails, a cleanup that deletes a newer segment and then
  fails leaves an older one, whose record is replayed over the newer value in an
  SSTable.
* *A flush that fails.*  `MaxFlushFaults = 1` in Engine_sync: ReadsLatest fails, the
  memtable is gone before its file is written, and its values are in the log only.
  In Server_clients: ImmutableIsBeingFlushed fails, nobody retries the flush, and
  later full memtables wait for it.
* *Timestamps that tie.*  ReadsLatest in place of ReadsLatestSecond fails in
  Engine_compaction: of two versions of one second the heap may hand out the older one
  first ("ensuring the most recent value wins", BENCHMARKS.md:141).  Within a second
  scan and get may differ as well: get takes the newest SSTable, scan the oldest.
* *Groups of some of the files.*  `SimilarSizes = FALSE` in Engine_compaction:
  ReadsLatestSecond fails, the output of a group of older files is listed after newer
  files.
* *What a compaction leaves behind.*  Without the condition `NothingLeftBehind`
  ReadsLatestSecond and ScanAgrees fail in Engine_compaction.  An input whose deletion
  failed is still there at the next restart; its name is a number, the output's counts as
  0 (`SortKey`), so the input is listed behind the output that replaced it, and get
  answers the older version.  A crash between two deletions does the same
  (`MaxCrashes = 1`).  And an output that failed half-way leaves a file whose id
  the restarted engine may give out again, as in Engine_idreuse.
* *Two keys in doubt.*  With two keys Server_clients does not implement KVStore: a
  cleanup that fails makes put return an error although the record is in the log; two
  such puts of two keys return in the one step of a restart, and KVStore puts one
  key per step.  LinearKV has keys in doubt for it.

Deviations seen while reading, in code that no model needs:

* "the dashboard just won't be available" if port 8080 cannot be bound
  (`http_server.rs` 42-43): `start_dashboard_server` then returns, and the `select!` at
  `server.rs:115`, one branch of which it is, stops the whole server.
* The number of SSTables on the dashboard is counted up at a background flush only
  (`storage_engine.rs:184`): a compaction, a synchronous flush and a restart do not change it.
  False positives of the Bloom filter are counted at every miss
  (`storage_engine.rs` 373-375), compactions never.
* `SsTableReader::read_bloom_filter` with a size of 0 (`reader.rs` 156-159) makes a new filter, which
  denies every key; the decoder's answer to empty data, a filter that admits
  every key, is out of reach.  The writer never writes a size of 0.
* `trim().splitn(3, ' ')` takes spaces at the ends off a value, and an empty value
  cannot be put.

### Bounds, and why they are enough

Wal_log: 4 appends, 4 segments, 2 records per segment and per buffer, two
crashes, one fault of each kind.  A buffer of two has whole, partial and torn
writes; segments of two rotate with an empty and with a full buffer; four
segments hold one torn by a crash, one closed by a rotation, one whose creation
failed, and a current one.  Every file with three records behaves like one with two.

Engine_sync: 2 keys, memtables of 2 keys, 5 puts, 5 segments, two crashes, a buffer of
two records, so that acknowledged records are in the buffer when the process dies, and
a write of the buffer has a whole, a missing and a torn record.  Two
flushes with a cleanup and a restart in between, and a key in two SSTables.
The rotation that fails leaves
`segment_number` ahead of the file written to, with a flush and a crash still to come.
The run is synchronous: the interleavings of a flush with a rotation or with a put
that gives up are those of Engine_rotation and Engine_timeout, where they go wrong.
Server_clients: two clients, of which one may write while the other asks, one key
(linearizability is local: a history is linearizable if that of each key is), a memtable
of one key, so that every put freezes it and the third put waits; a crash and a
restart between a put that is answered ERROR after it was logged and the gets after
it; the thread is `FlushInTime`, that is a poll waits until a working thread is done.
Two puts fall in a second, so that
memtables and files have versions whose timestamps tie.
Engine_compaction: 5 puts with
memtables of one key, so that a compacted file is compacted again (`MinInputs` is 2
instead of 4; a group of two has both the shape "an older and a newer version" and
"the output among the inputs"); two puts per second give ties, within a key and
between files; one failing operation is any of creating, writing, finishing and opening an
output, or deleting an input, and the behaviour goes on after it, restart included.
Clocks are taken to be monotone.  Engine_progress: 3 puts, memtables of one key, a
buffer of two records, one fault each of writing the log, writing an SSTable and
cleanup, a wait of one poll: the third put finds the memtable of the first still frozen,
with or without a result on its way.

Table_flush: the empty key, `0`, `0 1`, `1`, `1 0` (every kind of shared prefix: none,
whole key, part of it), values of 0 and 130 bytes, one with a length of one byte and one with a
length of two, blocks of 30 bytes, so that a block has one, two or three entries, and
tables have several blocks; a filter of 11 bits, whose last byte is not full; three
hash functions, with which all keys share their bits, keys of one length do,
and the second probe wraps around `Word`.  Compaction_merge: three
files and `MinInputs` 2, so that groups of none, two and three files occur and
overlap; tables have any of three keys, so that two inputs may hold the same key
with the same or with different timestamps; the third key is behind the end of the scan.
Readable files have an entry the scan comes to:
TablesNotEmpty says so of the engine (theorem `TablesHaveEntries`), but for keys
behind that end.

`CHECK_DEADLOCK FALSE` in every run: the behaviours end where the bounds on
appends and segments end, and a process that died need not be started again.

### Fairness

`FairEngineSpec` assumes weak fairness of the running put (`PutStep`) and of the
flush thread (`BeginFlush \/ EndFlush`).  Each is a thread that the operating
system schedules and that never blocks: `put` polls with `try_recv`, the thread
blocks only on an empty channel.  `FairCompactionSpec` assumes it of a merge that has
begun (`Pop \/ FinishMerge`), a loop without a wait.
`FairServerSpec` assumes weak fairness of the running put and of the thread, and strong fairness
of what a task does from `lock()` to the release of the mutex (`Serve(c)`): parking_lot
hands the mutex over to the longest waiter once in a while, which rules out that others take it
for ever.  A task that waits in `lock()` blocks a worker of the runtime, but the
holder always has one of its own; the workers are not modelled.  Nothing is assumed of
clients: one that does not read its reply leaves its task at `write_all`.  Nothing is assumed of new puts, faults, crashes
or restarts.

## 4. What is proved

The assumptions are `WalAssumption` (the two capacities are positive, the bounds are
natural numbers, torn records are no numbers), `EngineAssumption`, `CompactionAssumption`,
`MemTableAssumption`, `BloomAssumption`, `SsTableAssumption` (likewise), `TableAssumption` (hash
functions are defined on keys; no timestamp goes beyond the largest) and `LengthsAssumption`
(lengths of keys and values are numbers of 64 bits); each theorem is for every value of the constants.
What a theorem needs beyond them stands in its statement.

### The log (WalProofs)

* `LogInvariant`: `Spec => []LogInv`;
* `TypeCorrect`, `CleanupIsSafe`, `SegmentsInOrder`, `NothingLostSilently`: the
  invariants TLC checks in Wal_log;
* `ClosedSegmentsImmutable`: the action property of closed segments;
* `WrittenIsReadable`: `Spec => []FlushedReadable`.

SegmentOrder is not inductive: a write appends to the current
segment what is in the buffer, so one has to know that the buffer is newer than
every earlier segment (`HistoryInv`) and that there is no later one
(`NumbersInv`).  The hard case is a rotation that failed: `segment_number` is then
ahead of the file written to.  `NumbersInv` says that in that state the buffer is
empty and a rotation is still due, so no append reaches the old file before a
rotation has succeeded.  CleanupSafe needs `FlushPointInv`: segments below the
flush point hold only what was appended before the mark, because the mark is
the number of the current segment and writes go to that or later ones.
`WriteOutFacts`, `CreateSegmentFacts`, `WriteBuffer` and `RotationFacts` say what the
operators on directories do; then there is one lemma per action.

FlushedReadable needs `TornInv`: as long as no write was retried, a torn record is the last
one of its segment, and there is none in the segment that is written to.

### From the log to the engine to the server (EngineProofs, ServerProofs)

The modules are layered by EXTENDS, so that a step of the server is a step of the engine or
leaves it alone (`ServerUsesEngine`), and a step of the engine is a step of the log or
leaves it alone (`EngineUsesWal`).  What holds of the log therefore
holds under the engine (`EngineKeepsLog`, `EngineLogReadable`) and under the server
(`ServerKeepsLog`), whatever the flush thread, compaction or clients do.  `MutualExclusion`
(`OnePutAtATime`) and `ConnectionsTyped` (`ServerTypeOK`) are for any number of clients; the
first needs that `pc` leaves "idle" only with a task at "put", and a task
leaves "put" only when `pc` is "idle" again.

### The engine's tables and queue (EngineProofs)

* `EngineTypeCorrect`: `EngineSpec => []EngineTypeOK`, compaction included;
* `FrozenIsOnItsWay`: `EngineSpec => [](~Compaction /\ MaxFlushFaults = 0 => ImmutableIsBeingFlushed)`.

EngineTypeOK says of each table that it holds versions appended so far.  That it
survives a restart depends on what a replay returns, a maximum over the places of a key in
the log: `FiniteNatMax` (a finite set of numbers has a largest), `EntriesFinite` and `ReplayLast`
say that there is one, `ReplayType` that it is a record.  The inductive invariant `TypeInv` adds the
types of files, queues and names, which the CHOOSE of `NextId` and the orders of
loading need.  ImmutableIsBeingFlushed follows from `QueueInv`: a result stays
collectable, because the file it names is complete and every later write, of the thread or of
put, goes to a larger number; and the file under construction exists until it is finished.
The second theorem is not true with compaction, which may
delete the file of a flush under way: the thread has created it and the directory lists it.

### Durability (DurableProofs)

* `SurvivesEveryCrash`: `CalmSpec => [](Reliable => SurvivesCrash)`;
* `ReadsItsWrites`, `CleanupKeepsUnflushed`, `ListFromOldToNew`: the same of ReadsLatest,
  LogKeepsUnflushed and NewestToOldest;
* `ScanAgreesWithGet`: the same of ScanAgrees, for every number of puts in a second;
* `EngineIsKVStore`: `CalmSpec => (Reliable => ImplementsKVStore)`;
* `SteadyIsCalm`, `SteadyIsDurable`, `SteadyIsKVStore`: the same without an assumption
  about behaviours, for engines that are `Steady`.

SurvivesCrash speaks of the restarts that open.  A crash inside the payload of a record makes
every later one fail: `Recoverable` is empty then, and the theorem claims nothing of that state.
What it does claim needs no other restriction on where the crash cuts.

They hold for every number of keys, puts, segments, crashes, restarts and failed rotations,
every size of memtable and segment, and every interleaving of put, flush thread and
crash.  What they are true under, and what goes wrong without it:

* `Reliable`, about the constants: no compaction (Engine_idreuse); the log is written
  through, which is what a capacity of 1 says (else an acknowledged put may be in the process's
  buffer, and a lost record may let an older one shadow an SSTable, section 3); no write of the log fails (Wal_retry) and no deletion (a segment left
  behind shadows an SSTable); a flush may fail in the thread, but not in a
  synchronous put (the memtable is gone before its file is written).
* `CalmStep`, about behaviours: the log does not rotate while the flush thread has a memtable
  (Engine_rotation), and no put gives up waiting (Engine_timeout).  `CalmSpec` is
  `EngineSpec` with calm steps only.  It excludes no crash, and nothing the thread does.
* `Steady`: no write or deletion fails; flushes are synchronous, or the thread is in time
  (`FlushInTime`, `MaxWait > 0`) and the log fills no segment (`MaxAppends < SegmentLimit`).
  `SteadyIsCalm` proves that its steps are calm (`PatienceInv`: a segment counts no
  more than was appended, and no poll goes unanswered).  Server_clients is such an
  engine but for its failing cleanup; Engine_sync, but for its buffer, of which the theorems say
  nothing and TLC what is in section 3.

*Versions.*  The value of a put is the number of its record.  `Live(k)` has the versions
of k that the log took; `Settled(k)` leaves out the one of the running put until it
is in the memtable, or until the process dies, for then the replay will insert it.
A step settles at most one version, the newest of its key (`SettlesOne`), and what a user
sees is the newest settled one (`ViewNewest`): that is the register of KVStore
(`SettlingWrites`).

*The log* (`TightInv`).  Written through, append is all or nothing: records ascend within a
segment, none that was given up is in one, and none is older than a deleted one.  With
`TornInv` every record in a segment is readable; so the last record a replay
finds of a key is the newest in the log (`ReplayNewest`), and it is newer than every deleted
one (`ReplayFacts`).

*The engine* (`DurableInv`).

* `CleanedInv`: a deleted record is in a file, or a newer version is.
* `FilesInv`: of two files with a key the one with the larger number is newer.
* `HandoverInv`: at most one memtable is with the thread, or its result on the way back, and
  that is the immutable one; its file gets the largest number there is.  This is what a put that
  gives up waiting breaks.
* `ListInv`: the list has the files that open, by number, but for the one not collected yet, or
  completed by a flush that failed at the very end (its memtable stays immutable for good).
  A restart preserves it because it sorts by the number, a flush because the counter
  is past every file (`NextIdAbove`).
* `TableInv`: the memtable is newer than the immutable one, that newer than every file, and
  together they have every settled version.
* `ShelterInv`: until the log is cleaned up after a flush, the segments below the current one hold
  nothing newer than the frozen memtable and the files.  The flush point is read after the
  flush, when puts have gone on; it is right for what was frozen before only because
  of this, and this is what a rotation during the flush breaks.

The hard case is the restart (`OpenDurable`): the files may
have versions whose records are deleted, the log versions that no file has, and both may
have the same; the replayed value must not be older than what a file has.

*The properties* follow from `GetNewest`, which walks memtables and list, and
`RestartNewest`, which says the same of replay and files at any step the process may die at.

### Compaction in the engine (CompactProofs)

* `TablesHaveEntries`: `EngineSpec => [](MinInputs > 1 => TablesNotEmpty)`;
* `CompletedFilesStay`: `EngineSpec => FlushedFilesStay`.

Unlike durability these hold with background flushes, crashes, restarts and all faults.
The first needs that no empty memtable is ever frozen, and that a merge has two inputs: one of them is
not the file its output truncates, and has an entry (`FilledInv`).  The code asks for four
inputs.  The second holds without any condition.  `NumbersUsed` says that what the thread will
write is below the counter and is no complete file; that the counter is past
every complete file of a flush; and that messages have different numbers.  A restart takes the
counter from the files that open (`NextId`): an incomplete file may be written again, a
complete one may not.  Of the outputs of compactions this is not true: their numbers do not
count, and Engine_idreuse shows what follows.

### The server (ServerProofs)

* `ServerIsLinearizable`: `CalmServerSpec => (Reliable => ImplementsLinearKV)`;
* `SteadyIsLinearizable`: `ServerSpec => (Steady => ImplementsLinearKV)`.

Under the conditions of durability every behaviour of the server with any number of clients, keys
and restarts is one of a linearizable register per key.  The steps map as follows:

| Server | LinearKV |
|---|---|
| `ReadRequest` | `Invoke` |
| `Insert` of the running put | `TakeEffect` |
| `ServeGet` | `AnswerGet` |
| `EndPut`, `RefusePut` | `AnswerPut` or `AnswerError` |
| `WriteReply`, `Leave` | `Return`, or nothing if there was no request |
| `Kill`, and a `StartPut` the process dies in | `ServerGoes` |
| everything else: flush thread, log, restart | nothing |

`LinkInv` ties tasks to the engine: the record of the running put is the last one appended, and has
the key of the request of the one task at "put".  `Shapes` says what each place of a
task means for the call of its client, `Doubts` which keys are in doubt: those with
a record newer than what get answers, the running put's aside.  The refinement of KVStore does the rest:
`SettlesOne` says which version a step makes visible.  Server_clients also has a cleanup that
fails once, which the theorem excludes: with longer behaviours than that run has, a
cleanup that stops in the middle breaks SurvivesCrash.

### The merge (SetProofs, MergeProofs)

* `SelectionIsLargest`: `CompactionSpec => []SelectsLargestGroup`;
* `MergeIndexesAreValid`: `NonEmptyFiles /\ CompactionSpec => []CompactionTypeOK`;
* `OutputAscends`, `MergeKeepsNewest`: the same of WritesAscending and KeepsNewest.

*Selection.*  The code sorts by size, and for each file takes the stretch of files that are
within the factor of it; the claim is that no larger set of similar files exists at all.
`Ranking` says that the sorted list has each file at one place; `GroupShape` that a group is a stretch of
it; `SimilarInGroup` that any set of similar files lies in the group of its smallest member.

*Merge.*  `CompactionInv`: the heap has the entry at the position of each input that is not
exhausted (`HeapInv`); what is ahead in any input is not before the last key written, nor newer
at that key (`AheadInv`); what was passed has an entry in the output that is no older
(`PassedInv`), and the output has nothing else (`WrittenInv`).  When the heap is empty everything has
been passed.  `HeapTop` says that the popped entry is the least of all that is ahead,
because each list ascends (`IteratorShape`).

`NonEmptyFiles` says that every readable file has a key the scan comes to.  The code skips an input whose
scan has no entry when it builds its iterators, but numbers the heap entries by input; an empty
one would shift the indexes.  `TablesHaveEntries` says that the engine writes no such file.

### A flush loses nothing (TableProofs)

* `TableInvariant`: `SnappyYieldsBytes => (TableSpec => []TableInv)`;
* `TableTypeCorrect`, `FileDecodesToEntries`, `TableHeaderDescribesTable`, `FlushedGetsAgree`,
  `FlushedScansAgree`: the same of TableTypeOK, WrittenDecodes, HeaderDescribesTable, GetFindsFlushed
  and ScanFindsFlushed;
* `AccountNeverUndercounts`: `TableSpec => []NeverUndercounts`.

They hold for all sets of keys (byte strings of any length, the empty one and prefixes of each other
among them), sizes of values, numbers of puts, limits of memtable and block, sizes and hash
functions of the filter, word widths and compressed sizes.  `SnappyYieldsBytes` says that a compressed block has at
least one byte, as every Snappy stream has (it starts with its length): with none, two blocks would be
at one place of the file.  It is a hypothesis of the theorems and not an assumption of the module
because TLC cannot evaluate it for all numbers.

*The invariant* says where each entry is.  `cuts` are the numbers of entries in the first 0, 1, 2 ...
blocks, `done` that of the entries added.  `Given(w, h, es, cuts, done)`: the i-th part behind the
header is the block of the entries between the cuts i-1 and i, and the i-th entry of the index has its place,
its size and its first key; the builder has what is behind the last cut; header and filter are about the first
`done` entries.  What is still to be added is the rest (`FlushInv`).  `Unfinished` ties the writer's own count of its
position to the length of the file, `Closed` says where footer, index, filter and header are.
None of WrittenDecodes, GetFindsFlushed or HeaderDescribesTable is inductive alone: that the next entry
decodes depends on what the builder holds, that it is found on the places of all blocks before.

*The codec.*  What it computes is an induction over lengths.  The library's induction
theorems are out of reach, so induction is over a set: the numbers for which the statement holds
contain 0 and every successor (`Upward`, `Downward`, `FromSmaller`, from the well-foundedness of the natural
numbers).  `VarintRule` shows in this way that the recursive definition of the encoder has a solution,
`VarintRoundTrip` that the decoder reads it back whatever follows; then an entry of the block
decodes against the key before it, and a block against nothing (`BlockDecodes`).

*The account.*  `EntryBytes` is a set, so NeverUndercounts compares a counter with a
cardinality; `PutCounts` follows the cases of `SizeAfter`.  The one in which the account is too large is a replaced empty
value, which counts as a new key.

*Reading.*  The parts of a file are apart, so there is exactly one reader (`TheReader`: the footer at the end
leads to filter and index, and no other part is there).  Each block reads as what was put into it (`BlocksRead`);
`FindBlockIs` says that the search of the index (`partition_point`, whose premise, an index in the
order of the first keys, is part of the proof), with a key before, between or behind the first
keys, ends at a block behind which the key cannot be and before which it cannot be either. `GetIs`
and `ScanIs` follow with the order of the keys, which is proved total, transitive and asymmetric
for byte strings (`LessTotal`, `LessTransitive`, `LessAsymmetric`).

### Only model-checked

* Reads *with* compaction: ReadsLatestSecond and ScanAgrees do not hold in general
  (section 3); Engine_compaction checks them under `NothingLeftBehind` and without a crash.
* What is kept over a log with a buffer: SurvivesCrash in Engine_sync.
* Liveness: PutReturns, FlushQueueDrains, EveryRequestAnswered, MergeEnds.  Fairness and ENABLED
  are out of the provers' reach.

## 5. What is not modelled

* Replication: `src/` has only the readers of closed segments and a parameter of
  cleanup; `Cleanup(r)` takes every value of it, and the engine passes 0.
* The command line and the printing of metrics, which have no state; the dashboard
  and the metrics, independent counters that are shown and never read by the store.
* Errors of reading in the engine: a `get` whose SSTable cannot be read ends in an error.  SsTable has
  these errors (`TableGet`, `TableScan`), but only reads what was written.  A reader whose file is
  truncated beneath it (Engine_idreuse) is taken to find the new data of a key or
  nothing (`AfterRewrite`), where the code may also return an error.
* A clock that goes backwards.
* A line cut by the end of a connection, which `read_line` returns like a whole one; a value is
  a number here, and a cut one cannot be told from a short one.
* Snappy beyond the size it yields; the workers of the runtime.
* A scan of the engine is modelled key by key; that a memtable leaves out the end of the
  range and an SSTable does not is noted in the hazards, and the server has no command for it.

## 6. Plan

Modelled: the log, the engine, its tables and their bytes, the merge, the server.
What is left, in this order:

1. **Abstract log**: `DurableLog`, a sequence with a durable prefix, implemented by
   Wal without faults; the engine restated over it.
2. **Scan**: ranges of the engine's scan over tables with different ideas of the end.
3. **Replicas**: readers of closed segments (`list_closed_segments`, `read_segment`)
   against cleanup, once `src/` has a caller.
