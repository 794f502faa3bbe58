--------------------------------- MODULE Wal ---------------------------------
(* The segmented write-ahead log of src/wal.rs.                              *)
(*                                                                           *)
(* A record stands for one encoded entry; it is the position of the append   *)
(* in the history of the log (1, 2, 3, ...), over all lives of the process.  *)
(* append and append_delete write records that recovery treats alike, so one *)
(* action models both.  A segment file is a sequence of records in which a   *)
(* failed or interrupted write may leave a torn record: TornHeader when      *)
(* fewer than the seven header bytes arrived, TornBody when the header is    *)
(* complete and the payload is not.  Sizes count records: bytes_written and  *)
(* the buffer length are in units of one record.                             *)
(*                                                                           *)
(* Time passes between the steps of a log only through its caller (it is     *)
(* behind an RwLock), a crash of the process, or an I/O error.               *)
EXTENDS Naturals, Sequences, FiniteSets

CONSTANTS
  SegmentLimit,      \* segment_size_limit, in records
  BufferCapacity,    \* buffer_capacity, in records
  TornHeader,        \* what a write cut inside the record header leaves
  TornBody,          \* what a write cut inside the record payload leaves
  MaxAppends,        \* bound: appends in a behaviour
  MaxSegments,       \* bound: highest segment number
  MaxCrashes,        \* bound: crashes of the process
  MaxWriteFaults,    \* bound: failing write_all / sync_all calls
  MaxCreateFaults,   \* bound: failing creations of a segment file
  MaxDeleteFaults    \* bound: cleanups cut short by an error of remove_file

ASSUME WalAssumption ==
  /\ SegmentLimit \in Nat \ {0}
  /\ BufferCapacity \in Nat \ {0}
  /\ MaxAppends \in Nat
  /\ MaxSegments \in Nat
  /\ {TornHeader, TornBody} \cap Nat = {}

VARIABLES
  up,                     \* a Wal object exists (the process runs)
  segments,               \* the directory: number of a segment file -> its content
  current_segment,        \* number of the file current_segment writes to
  segment_number,         \* Wal.segment_number
  buffer,                 \* WalSegment.buffer: appended, not yet written out
  bytes_written,          \* WalSegment.bytes_written
  last_flushed_segment,   \* Wal.last_flushed_segment
  recovered,              \* what the last successful recover() read, per segment
  refused,                \* the last attempt to open the log ended in an error
  appended,               \* history: number of records appended so far
  marked,                 \* history: value of appended at the last mark_flushed
  lost,                   \* history: records that were in the buffer at a crash
  cleaned,                \* history: records of the segments cleanup deleted
  crashes, writeFaults, createFaults, deleteFaults   \* faults so far

memory == <<current_segment, segment_number, buffer, bytes_written,
            last_flushed_segment>>
faults == <<crashes, writeFaults, createFaults, deleteFaults>>
history == <<appended, marked, lost, cleaned>>
vars == <<up, segments, memory, recovered, refused, history, faults>>

Records == 1..MaxAppends
Items == Records \cup {TornHeader, TornBody}

------------------------------------------------------------------------------
(* Segment files *)

\* The records a file holds, torn or hidden behind a torn one included.
Ids(s) == {s[i] : i \in 1..Len(s)} \cap Records

\* The positions recover_segment gets to: those before the first torn record.
Intact(s) == {i \in 1..Len(s) : \A j \in 1..i : s[j] \in Records}

\* What recover_segment returns when it returns Ok.
Entries(s) == [i \in Intact(s) |-> s[i]]

\* i is the first torn record of s.
FirstTorn(s, i) == i \in 1..Len(s) /\ i \notin Intact(s) /\ 1..(i-1) \subseteq Intact(s)

\* A payload cut off by the end of the file is an I/O error, not a corruption:
\* read_exact fails and recover_segment returns Err.
MustFail(s) == FirstTorn(s, Len(s)) /\ s[Len(s)] = TornBody

\* Bytes that follow a torn record are parsed at the wrong offset: the checksum
\* fails (the segment ends there), or the type byte or the length is wrong (Err).
MayFail(s) == \E i \in 1..Len(s) : i < Len(s) /\ FirstTorn(s, i)

\* write_all appends items to segment file n; a file that cleanup has unlinked
\* takes the bytes with it.
WriteOut(segs, n, items) ==
  [m \in DOMAIN segs |-> IF m = n THEN segs[m] \o items ELSE segs[m]]

\* WalSegment::new: create if missing, open for append.
CreateSegment(segs, n) ==
  [m \in DOMAIN segs \cup {n} |-> IF m \in DOMAIN segs THEN segs[m] ELSE <<>>]

\* What an interrupted write of the buffer b may leave in the file: some whole
\* records and possibly a torn one.  All of b is there when only sync_all failed.
CutWrites(b) ==
  {SubSeq(b, 1, k) : k \in 0..Len(b)}
    \cup {Append(SubSeq(b, 1, k), t) : k \in 0..(Len(b) - 1), t \in {TornHeader, TornBody}}

\* Seeded bug: the log reopens the latest segment instead of the next one.
LatestSegment(n) ==
  /\ \A m \in DOMAIN segments : m <= n
  /\ n = 1 \/ n \in DOMAIN segments

\* Seeded bug: segments are numbered by counting the files.
CountedSegment(n) == n = Cardinality(DOMAIN segments) + 1

\* find_latest_segment_number() + 1
NextSegment(n) ==
  /\ \A m \in DOMAIN segments : m < n
  /\ n = 1 \/ n - 1 \in DOMAIN segments

------------------------------------------------------------------------------
Init ==
  /\ up = FALSE
  /\ segments = [n \in {} |-> <<>>]
  /\ current_segment = 0 /\ segment_number = 0
  /\ buffer = <<>> /\ bytes_written = 0
  /\ last_flushed_segment = 0
  /\ recovered = [n \in {} |-> <<>>]
  /\ refused = FALSE
  /\ appended = 0 /\ marked = 0
  /\ lost = {} /\ cleaned = {}
  /\ crashes = 0 /\ writeFaults = 0 /\ createFaults = 0 /\ deleteFaults = 0

\* The Wal object is gone: what it held in memory is forgotten.
Forget ==
  /\ up' = FALSE
  /\ current_segment' = 0 /\ segment_number' = 0
  /\ buffer' = <<>> /\ bytes_written' = 0
  /\ last_flushed_segment' = 0

\* Wal::new, then Wal::recover over every segment file: main.rs opens the log
\* and StorageEngine::new_with_config replays it.  When recover fails the
\* program ends; the segment file that Wal::new has created stays.
Open(n) ==
  /\ ~up
  /\ n <= MaxSegments
  /\ NextSegment(n)
  /\ segments' = CreateSegment(segments, n)
  /\ \/ /\ \A m \in DOMAIN segments' : ~MustFail(segments'[m])
        /\ up' = TRUE
        /\ current_segment' = n /\ segment_number' = n
        /\ buffer' = <<>> /\ bytes_written' = 0
        /\ last_flushed_segment' = 0
        /\ recovered' = [m \in DOMAIN segments' |-> Entries(segments'[m])]
        /\ refused' = FALSE
     \/ /\ \E m \in DOMAIN segments' : MustFail(segments'[m]) \/ MayFail(segments'[m])
        /\ refused' = TRUE
        /\ UNCHANGED <<up, memory, recovered>>
  /\ UNCHANGED <<history, faults>>

\* The log goes on with segment file n, w records counted in it.
ContinueOn(n, w) ==
  /\ current_segment' = n
  /\ segment_number' = IF n > segment_number THEN n ELSE segment_number
  /\ bytes_written' = w
  /\ UNCHANGED <<up, last_flushed_segment, lost, crashes>>

\* WalSegment::append of a new record to file n, which holds segs[n], after b
\* was buffered and w records were counted: buffered only, or written out and
\* synced with the rest of the buffer.  On an error the record stays buffered,
\* and the caller gets Err; the process may also die inside the write.
AppendTo(segs, n, b, w) ==
  LET pending == Append(b, appended + 1) IN
  /\ appended' = appended + 1
  /\ \/ /\ Len(pending) < BufferCapacity
        /\ segments' = segs
        /\ buffer' = pending
        /\ ContinueOn(n, w + 1)
        /\ UNCHANGED writeFaults
     \/ /\ Len(pending) >= BufferCapacity
        /\ segments' = WriteOut(segs, n, pending)
        /\ buffer' = <<>>
        /\ ContinueOn(n, w + 1)
        /\ UNCHANGED writeFaults
     \/ /\ Len(pending) >= BufferCapacity
        /\ writeFaults < MaxWriteFaults
        /\ writeFaults' = writeFaults + 1
        /\ \E cut \in CutWrites(pending) : segments' = WriteOut(segs, n, cut)
        /\ buffer' = pending
        /\ ContinueOn(n, w + 1)
     \/ /\ Len(pending) >= BufferCapacity
        /\ crashes < MaxCrashes
        /\ crashes' = crashes + 1
        /\ \E cut \in CutWrites(pending) :
              /\ segments' = WriteOut(segs, n, cut)
              /\ lost' = lost \cup (Ids(pending) \ Ids(cut))
        /\ Forget
        /\ UNCHANGED writeFaults
  /\ UNCHANGED <<recovered, refused, marked, cleaned, createFaults, deleteFaults>>

\* Seeded bug: the rotation drops the unwritten buffer.
RotatedWithoutFlush == CreateSegment(segments, segment_number + 1)

\* rotate_segment() has flushed the full segment and opened the next one.
Rotated == CreateSegment(WriteOut(segments, current_segment, buffer), segment_number + 1)

\* should_rotate()
RotationDue == bytes_written >= SegmentLimit

\* Seeded bug: append does not look whether a rotation is due.
AppendWithoutRotation ==
  /\ up /\ appended < MaxAppends
  /\ AppendTo(segments, current_segment, buffer, bytes_written)

\* append / append_delete, when the current segment has room.
AppendHere ==
  /\ up /\ appended < MaxAppends
  /\ ~RotationDue
  /\ AppendTo(segments, current_segment, buffer, bytes_written)

\* append / append_delete, when it has not: rotate, then append.
AppendRotating ==
  /\ up /\ appended < MaxAppends
  /\ RotationDue /\ segment_number < MaxSegments
  /\ AppendTo(Rotated, segment_number + 1, <<>>, 0)

\* append of an entry encode_record refuses ("Record too large"): the rotation
\* that was due has happened, nothing else.
AppendRefused ==
  /\ up
  /\ RotationDue /\ segment_number < MaxSegments
  /\ segments' = Rotated
  /\ current_segment' = segment_number + 1
  /\ segment_number' = segment_number + 1
  /\ buffer' = <<>> /\ bytes_written' = 0
  /\ UNCHANGED <<up, last_flushed_segment, recovered, refused, history, faults>>

\* append whose rotation fails after the flush: segment_number has moved on,
\* current_segment has not.
AppendRotationFails ==
  /\ up
  /\ RotationDue /\ segment_number < MaxSegments
  /\ createFaults < MaxCreateFaults
  /\ createFaults' = createFaults + 1
  /\ segments' = WriteOut(segments, current_segment, buffer)
  /\ buffer' = <<>>
  /\ segment_number' = segment_number + 1
  /\ UNCHANGED <<up, current_segment, bytes_written, last_flushed_segment,
                 recovered, refused, history, crashes, writeFaults, deleteFaults>>

\* flush(), called by the user of the log
Flush ==
  /\ up
  /\ segments' = WriteOut(segments, current_segment, buffer)
  /\ buffer' = <<>>
  /\ UNCHANGED <<up, current_segment, segment_number, bytes_written,
                 last_flushed_segment, recovered, refused, history, faults>>

\* flush() that returns Err, whoever called it: flush itself, or the rotation
\* of an append.  The buffer is kept and will be written again from its start.
FlushFails ==
  /\ up /\ buffer # <<>>
  /\ writeFaults < MaxWriteFaults
  /\ writeFaults' = writeFaults + 1
  /\ \E cut \in CutWrites(buffer) : segments' = WriteOut(segments, current_segment, cut)
  /\ UNCHANGED <<up, memory, recovered, refused, history, crashes, createFaults,
                 deleteFaults>>

\* The process dies, possibly in the middle of writing the buffer out.
Crash ==
  /\ up /\ crashes < MaxCrashes
  /\ crashes' = crashes + 1
  /\ \E cut \in CutWrites(buffer) :
        /\ segments' = WriteOut(segments, current_segment, cut)
        /\ lost' = lost \cup (Ids(buffer) \ Ids(cut))
  /\ Forget
  /\ UNCHANGED <<recovered, refused, appended, marked, cleaned, writeFaults,
                 createFaults, deleteFaults>>

\* Drop for Wal: the buffer is flushed on the way out.
Shutdown ==
  /\ up
  /\ segments' = WriteOut(segments, current_segment, buffer)
  /\ Forget
  /\ UNCHANGED <<recovered, refused, history, faults>>

\* Seeded bug: the flush point is one segment too far.
FlushPointAhead == segment_number + 1

\* The segment mark_flushed records: the current one.
FlushPoint == segment_number

\* mark_flushed(): every record appended so far is in an SSTable, says the caller.
MarkFlushed ==
  /\ up
  /\ last_flushed_segment' = FlushPoint
  /\ marked' = appended
  /\ UNCHANGED <<up, segments, current_segment, segment_number, buffer,
                 bytes_written, recovered, refused, appended, lost, cleaned, faults>>

\* safe_to_delete in cleanup_old_segments
SafeToDelete(minReplica) ==
  IF minReplica > 0 /\ minReplica < last_flushed_segment
    THEN minReplica ELSE last_flushed_segment

Victims(minReplica) == {n \in DOMAIN segments : n < SafeToDelete(minReplica)}

Delete(victims) ==
  /\ segments' = [n \in DOMAIN segments \ victims |-> segments[n]]
  /\ cleaned' = cleaned \cup UNION {Ids(segments[n]) : n \in victims}

\* cleanup_old_segments(minReplica)
Cleanup(minReplica) ==
  /\ up
  /\ Delete(Victims(minReplica))
  /\ UNCHANGED <<up, memory, recovered, refused, appended, marked, lost, faults>>

\* cleanup_old_segments that remove_file stops after some files, in the
\* arbitrary order of read_dir.
CleanupFails(minReplica) ==
  /\ up /\ deleteFaults < MaxDeleteFaults
  /\ deleteFaults' = deleteFaults + 1
  /\ \E done \in SUBSET Victims(minReplica) :
        done # Victims(minReplica) /\ Delete(done)
  /\ UNCHANGED <<up, memory, recovered, refused, appended, marked, lost, crashes,
                 writeFaults, createFaults>>

Next ==
  \/ \E n \in 1..MaxSegments : Open(n)
  \/ AppendHere
  \/ AppendRotating
  \/ AppendRefused
  \/ AppendRotationFails
  \/ Flush
  \/ FlushFails
  \/ Crash
  \/ Shutdown
  \/ MarkFlushed
  \/ \E r \in 0..MaxSegments : Cleanup(r) \/ CleanupFails(r)

Spec == Init /\ [][Next]_vars

------------------------------------------------------------------------------
(* Properties *)

\* The log's state is well-formed in every reachable state.
TypeOK ==
  /\ up \in BOOLEAN /\ refused \in BOOLEAN
  /\ DOMAIN segments \subseteq 1..MaxSegments
  /\ \A n \in DOMAIN segments : segments[n] \in Seq(Items)
  /\ current_segment \in 0..MaxSegments /\ segment_number \in 0..MaxSegments
  /\ buffer \in Seq(Records)
  /\ bytes_written \in Nat
  /\ last_flushed_segment \in 0..MaxSegments
  /\ DOMAIN recovered \subseteq 1..MaxSegments
  /\ appended \in 0..MaxAppends /\ marked \in 0..appended
  /\ lost \subseteq Records /\ cleaned \subseteq Records

\* Cleanup deletes only records that were appended before some mark_flushed:
\* a record appended after the flush point stays, through any number of
\* rotations, failed rotations and restarts in between (wal.rs cleanup_old_segments).
CleanupSafe == \A id \in cleaned : id <= marked

\* Entries are globally ordered across segments: everything in a segment was
\* appended before everything in a later one, crashes, restarts and retried
\* writes included; replay in the order of the numbers is replay in order of
\* append (wal.rs recover).
SegmentOrder ==
  \A m, n \in DOMAIN segments :
    m < n => \A i \in Ids(segments[m]), j \in Ids(segments[n]) : i < j

\* No record disappears: each one appended so far is still buffered, is in a
\* segment file, was in the buffer when the process died, or was deleted by
\* cleanup.  So a flush() that returned Ok made its records outlive every later
\* crash, rotation and restart.
NoSilentLoss ==
  1..appended \subseteq
    Ids(buffer) \cup lost \cup cleaned \cup UNION {Ids(segments[n]) : n \in DOMAIN segments}

\* list_closed_segments, and the n for which is_segment_available(n)
ClosedSegments == {n \in DOMAIN segments : n < segment_number}

\* A closed segment, one whose number is below the current number, never
\* changes again while it exists: what a reader of closed segments saw stays
\* true (wal.rs list_closed_segments, is_segment_available).
ClosedImmutable ==
  [][up => \A n \in ClosedSegments \cap DOMAIN segments' : segments'[n] = segments[n]]_vars

\* As long as no write fails, whatever was written out and not deleted since is
\* what a recovery that succeeds reads, through any crashes and restarts: no record
\* is hidden behind a torn one.  Whether recovery succeeds is OpensAfterCrash: a
\* payload cut by a crash makes it return an error (wal.rs recover_segment).
FlushedReadable ==
  writeFaults = 0 =>
    \A id \in 1..appended :
      \/ id \in Ids(buffer) \cup lost \cup cleaned
      \/ \E n \in DOMAIN segments : \E i \in Intact(segments[n]) : segments[n][i] = id

------------------------------------------------------------------------------
(* The inductive invariant behind TypeOK, CleanupSafe, SegmentOrder,           *)
(* NoSilentLoss and ClosedImmutable.                                           *)

\* While the log is open no segment has a number above the current one, and
\* the file written to is the current one; only after a rotation that failed
\* half-way it is an older one, and then nothing is buffered for it and every
\* append tries to rotate again.
NumbersInv ==
  /\ up =>
       /\ current_segment \in 1..segment_number
       /\ \A n \in DOMAIN segments : n <= segment_number
       /\ current_segment = segment_number => current_segment \in DOMAIN segments
       /\ current_segment < segment_number => buffer = <<>> /\ RotationDue
  /\ ~up => buffer = <<>> /\ last_flushed_segment = 0
  /\ last_flushed_segment <= segment_number

\* Files and buffer hold records of the past; what is buffered for the current
\* segment is newer than every earlier segment.
HistoryInv ==
  /\ \A n \in DOMAIN segments : \A i \in Ids(segments[n]) : i <= appended
  /\ \A i \in Ids(buffer) : i <= appended
  /\ \A n \in DOMAIN segments :
       n < current_segment => \A i \in Ids(segments[n]), j \in Ids(buffer) : i < j

\* The segments below the flush point hold nothing newer than the last mark.
FlushPointInv ==
  \A n \in DOMAIN segments :
    n < last_flushed_segment => \A i \in Ids(segments[n]) : i <= marked

LogInv ==
  /\ TypeOK /\ NumbersInv /\ HistoryInv /\ FlushPointInv
  /\ CleanupSafe /\ SegmentOrder /\ NoSilentLoss

------------------------------------------------------------------------------
(* What the documentation says and the code does not keep *)

\* "assumes append-only, no partial writes in middle" (ARCHITECTURE.md:228):
\* a torn record is the last of its segment.  A failed write that is retried
\* from the start of the buffer breaks it (WalSegment::flush).
TornOnlyAtEnd ==
  \A n \in DOMAIN segments : \A i \in 1..(Len(segments[n]) - 1) : segments[n][i] \in Records

\* "read_record() detects checksum mismatches, stops reading at corruption
\* point" (WAL_ANALYSIS.md:721): the log opens after any crash.  A record cut
\* in its payload makes read_exact fail, and recover with it (read_record).
OpensAfterCrash == ~refused

==============================================================================
