----------------------------- MODULE DurableProofs -----------------------------
(* Durability of the engine without compaction over a log written through, for *)
(* every number of keys, segments, puts, flushes, crashes and restarts, and    *)
(* for any speed of the flush thread: get answers with the last acknowledged   *)
(* put, a restart brings it back, and the engine implements the register per   *)
(* key of module KVStore.  What it takes beyond that, and the documentation    *)
(* takes for granted, is that behaviours are calm.                             *)
EXTENDS EngineProofs

------------------------------------------------------------------------------
(* Calm behaviours *)

\* Nothing is compacted, every append is written, and of writes and deletes only
\* those of the flush thread fail.  The process may die at any step.
Reliable == ~Compaction /\ WrittenThrough /\ (Background \/ MaxFlushFaults = 0)

\* The log does not rotate while the flush thread has a memtable, and no put gives
\* up waiting for the thread: what the runs "rotation" and "timeout" break.
CalmStep ==
  /\ immutable_memtable # EmptyTable /\ up' => segment_number' = segment_number
  /\ pc = "wait" => pc' # "sync"

\* The record of the running put is in the log and not yet in the memtable.
InFlight == pc \in {"check", "insert"} \/ (pc \in {"mark", "clean"} /\ resume = "check")

\* The versions that have got into the memtable, or whose put died before they could
Settled(k) == {v \in Live(k) : InFlight => v # appended}

\* A file that opens has v, or a newer version of k.
Backed(k, v) == \E n \in Loadable : v <= files[n].data[k]

\* Where put stands, without compaction
PlaceInv ==
  /\ pc \in {"idle", "check", "insert", "wait", "sync", "mark", "clean"}
  /\ resume \in {"idle", "check", "wait"}
  /\ pc # "idle" => up /\ appended \in 1..MaxAppends /\ appended \notin lost
  /\ pc \in {"wait", "sync"} \/ (pc \in {"mark", "clean"} /\ resume = "wait")
       => memtable # EmptyTable
  /\ pc \in {"mark", "clean"} => immutable_memtable = EmptyTable
  /\ immutable_memtable # EmptyTable \/ pc = "wait"
       \/ (pc \in {"mark", "clean"} /\ resume = "wait")
       => Background
  /\ pc = "sync" => ~Background
  /\ ~Background => flushFaults = 0
  /\ ~up => memtable = EmptyTable /\ immutable_memtable = EmptyTable /\ sstables = <<>>
  /\ \A n \in DOMAIN files : n = Plain(n.id)

\* At most one memtable is with the flush thread, or its result is on the way
\* back: the immutable one.  Its file gets the largest number there is.
HandoverInv ==
  /\ immutable_memtable = EmptyTable => flush_tx = <<>> /\ flush_rx = <<>>
  /\ flush_tx = <<>> \/ flush_rx = <<>>
  /\ flush_tx # <<>> =>
       /\ Len(flush_tx) = 1 /\ Head(flush_tx).table = immutable_memtable
       /\ Head(flush_tx).id < sstable_counter
       /\ \A n \in Loadable : n.id < Head(flush_tx).id
  /\ flush_rx # <<>> =>
       /\ Len(flush_rx) = 1 /\ Head(flush_rx) \in Loadable
       /\ files[Head(flush_rx)].data = immutable_memtable
       /\ \A n \in Loadable : n.id <= Head(flush_rx).id
  /\ writing => flush_tx # <<>> /\ Plain(Head(flush_tx).id) \in DOMAIN files

\* Tables hold settled versions, each at its key.
HeldInv ==
  /\ acked \in [Keys -> Nat]
  /\ \A k \in Keys :
       /\ memtable[k] \in {0} \cup Settled(k)
       /\ immutable_memtable[k] \in {0} \cup Settled(k)
       /\ acked[k] \in {0} \cup Settled(k)
       /\ \A n \in Loadable : files[n].data[k] \in {0} \cup Settled(k)

\* Of two files that have a key, the one with the larger number is newer.
FilesInv ==
  \A k \in Keys : \A n, m \in Loadable :
    n.id < m.id /\ files[m].data[k] # 0 => files[n].data[k] <= files[m].data[k]

Listed(n) == \E i \in 1..Len(sstables) : sstables[i].name = n
Uncollected(n) == flush_rx # <<>> /\ n = Head(flush_rx)

\* The flush thread failed when the file was complete; the memtable stays immutable.
Unreported(n) ==
  /\ immutable_memtable # EmptyTable /\ flush_tx = <<>> /\ flush_rx = <<>>
  /\ files[n].data = immutable_memtable

\* The list has the files that open, in the order of their numbers, except the
\* one whose result has not been collected or will never come.
ListInv ==
  /\ \A i \in 1..Len(sstables) :
       sstables[i].name \in Loadable /\ sstables[i] = Reader(files, sstables[i].name)
  /\ \A i, j \in 1..Len(sstables) : i < j => sstables[i].name.id < sstables[j].name.id
  /\ \A n \in Loadable : n.id < sstable_counter /\ (Listed(n) \/ Uncollected(n) \/ Unreported(n))
  /\ \A n \in Loadable : Uncollected(n) => ~Listed(n)

\* The memtable is newer than the immutable one, that than every file, and together
\* they have every settled version, or a newer one of the key.
TableInv ==
  \A k \in Keys :
    /\ memtable[k] # 0 => /\ immutable_memtable[k] <= memtable[k]
                          /\ \A n \in Loadable : files[n].data[k] <= memtable[k]
    /\ immutable_memtable[k] # 0 =>
         \A n \in Loadable : files[n].data[k] <= immutable_memtable[k]
    /\ \A v \in Settled(k) :
         v <= memtable[k] \/ v <= immutable_memtable[k] \/ Backed(k, v)

\* Cleanup deleted only what a file has.
CleanedInv == \A v \in cleaned : Backed(keyOf[v], v)

\* While a memtable is being flushed, and until the log is cleaned up after it, the
\* segments below the current one hold nothing newer than that memtable and the files:
\* the flush point, read after the flush, is right for what was frozen before.
ShelterInv ==
  immutable_memtable # EmptyTable \/ pc \in {"mark", "clean"} =>
    \A n \in DOMAIN segments : n < segment_number =>
      \A v \in Ids(segments[n]) :
        v <= immutable_memtable[keyOf[v]] \/ Backed(keyOf[v], v)

\* The inductive invariant of the engine above the log
DurableInv ==
  /\ PlaceInv /\ HandoverInv /\ HeldInv /\ FilesInv /\ CleanedInv
  /\ up => ListInv /\ TableInv /\ ShelterInv

\* A step settles at most one version, the newest of its key.
SettlesOne ==
  \/ \A k \in Keys : Settled(k)' = Settled(k)
  \/ \E h \in Keys, a \in 1..MaxAppends :
       /\ Settled(h)' = Settled(h) \cup {a} /\ \A v \in Settled(h) : v <= a
       /\ \A k \in Keys \ {h} : Settled(k)' = Settled(k)

\* What one step of the induction has to show, and may use.
Context ==
  /\ Reliable /\ LogInv /\ TornInv /\ TightInv /\ TypeInv /\ DurableInv

\* The types and bounds the steps below go by
LEMMA ContextFacts ==
  ASSUME Context
  PROVE  /\ appended \in 0..MaxAppends /\ buffer = <<>> /\ \A v \in lost : v <= appended
         /\ \A v \in lost \cup cleaned : v \in 1..MaxAppends /\ v <= appended
         /\ keyOf \in Seq(Keys) /\ Len(keyOf) = appended
         /\ \A v \in 1..appended : keyOf[v] \in Keys
         /\ sstable_counter \in Nat
         /\ memtable \in Tables(appended) /\ immutable_memtable \in Tables(appended)
         /\ \A n \in Loadable : n \in DOMAIN files /\ n.id \in Nat /\ files[n].complete
                                /\ files[n].data \in Tables(appended) /\ n = Plain(n.id)
<1>1. appended \in 0..MaxAppends /\ buffer = <<>> /\ \A v \in lost : v <= appended
  BY DEF Context, LogInv, TypeOK, TightInv
<1>2. /\ keyOf \in Seq(Keys) /\ Len(keyOf) = appended /\ sstable_counter \in Nat
      /\ memtable \in Tables(appended) /\ immutable_memtable \in Tables(appended)
  BY DEF Context, TypeInv
<1>3. \A v \in lost \cup cleaned : v \in 1..MaxAppends /\ v <= appended
  <2>1. lost \subseteq Records /\ cleaned \subseteq Records /\ \A v \in cleaned : v <= appended
    <3>1. marked \in 0..appended /\ \A v \in cleaned : v <= marked
      BY DEF Context, LogInv, TypeOK, CleanupSafe
    <3>2. lost \subseteq Records /\ cleaned \subseteq Records
      BY DEF Context, LogInv, TypeOK
    <3>3. QED
      BY <1>1, <3>1, <3>2, WalAssumption DEF Records
  <2>2. QED
    BY <1>1, <2>1 DEF Records
<1>4. ASSUME NEW n \in Loadable
      PROVE  /\ n \in DOMAIN files /\ n.id \in Nat /\ files[n].complete
             /\ files[n].data \in Tables(appended) /\ n = Plain(n.id)
  <2>1. n \in DOMAIN files /\ files[n].complete
    BY DEF Loadable, Opens
  <2>2. n \in Names /\ files[n] \in Contents(appended)
    BY <2>1 DEF Context, TypeInv, FilesTyped
  <2>3. n = Plain(n.id)
    BY <2>1 DEF Context, DurableInv, PlaceInv
  <2>4. QED
    BY <2>1, <2>2, <2>3 DEF Names, Contents
<1>5. \A v \in 1..appended : keyOf[v] \in Keys
  BY <1>2
<1>6. QED
  BY <1>1, <1>2, <1>3, <1>4, <1>5

\* The empty table has no key.
LEMMA EmptyHasNone == \A k \in Keys : EmptyTable[k] = 0
BY DEF EmptyTable

\* A record in a segment is one the log took.
LEMMA SegmentLive ==
  ASSUME Context, NEW n \in DOMAIN segments, NEW v \in Ids(segments[n])
  PROVE  v \in 1..appended /\ v \in Live(keyOf[v]) /\ keyOf[v] \in Keys
<1>1. Past(segments) /\ Tight(segments, lost, cleaned) /\ v \in 1..MaxAppends
  BY LogInvDirectory DEF Context, TightInv, Ids, Records
<1>2. v \in 1..appended /\ v \notin lost
  BY <1>1, ContextFacts DEF Past, Tight
<1>3. QED
  BY <1>2, ContextFacts DEF Live

\* It holds of an empty directory.
LEMMA DurableInit == EngineInit => DurableInv
<1> SUFFICES ASSUME EngineInit PROVE DurableInv
  OBVIOUS
<1>1. DOMAIN files = {} /\ Loadable = {} /\ cleaned = {} /\ ~up
  BY DEF EngineInit, Init, Loadable
<1>2. PlaceInv /\ HandoverInv
  BY <1>1 DEF EngineInit, PlaceInv, HandoverInv
<1>3. HeldInv
  BY <1>1 DEF EngineInit, HeldInv, EmptyTable
<1>4. FilesInv /\ CleanedInv
  BY <1>1 DEF FilesInv, CleanedInv
<1>5. QED
  BY <1>1, <1>2, <1>3, <1>4 DEF DurableInv

\* The same versions, as long as neither log nor put moves across a settling.
LEMMA SameVersions ==
  ASSUME UNCHANGED <<appended, lost, keyOf>>, InFlight' <=> InFlight
  PROVE  \A k : Settled(k)' = Settled(k)
BY DEF Settled, Live

\* The same files, or more that do not open
LEMMA SameFiles ==
  ASSUME Loadable' = Loadable, \A n \in Loadable : files'[n] = files[n]
  PROVE  /\ \A k, v : Backed(k, v)' <=> Backed(k, v)
         /\ FilesInv' <=> FilesInv
BY DEF Backed, FilesInv

\* put has settled its record and returns: what is acknowledged is settled.
LEMMA AckHeld ==
  ASSUME Context, pc # "idle", ~InFlight, Ack
  PROVE  acked' \in [Keys -> Nat] /\ \A k \in Keys : acked'[k] \in {0} \cup Settled(k)
<1>1. appended \in 1..appended /\ appended \notin lost
  BY DEF Context, DurableInv, PlaceInv
<1>2. appended \in Settled(keyOf[appended])
  BY <1>1 DEF Settled, Live
<1>3. acked \in [Keys -> Nat] /\ appended \in Nat
      /\ \A k \in Keys : acked[k] \in {0} \cup Settled(k)
  BY ContextFacts DEF Context, DurableInv, HeldInv
<1>4. /\ acked' \in [Keys -> Nat]
      /\ \A k \in Keys : acked'[k] = acked[k] \/ (acked'[k] = appended /\ k = keyOf[appended])
  BY <1>3 DEF Ack
<1>5. QED
  BY <1>2, <1>3, <1>4

------------------------------------------------------------------------------
(* Restart *)

\* A restart finds each version in the log or in a file, and nothing newer in a
\* file than in the log: it rebuilds memtable and list, and settles nothing.
LEMMA OpenDurable ==
  ASSUME Context, LogInv', TornInv', TightInv', NEW n \in 1..MaxSegments, OpenEngine(n)
  PROVE  DurableInv' /\ SettlesOne
<1>1. /\ ~up /\ pc = "idle" /\ UNCHANGED <<immutable_memtable, flush_tx, flush_rx, writing, pc,
                     resume, files, flushFaults, keyOf, acked, appended, lost, cleaned>>
      /\ memtable = EmptyTable /\ immutable_memtable = EmptyTable /\ sstables = <<>>
      /\ flush_tx = <<>> /\ flush_rx = <<>> /\ ~writing
  BY DEF Context, DurableInv, PlaceInv, HandoverInv, OpenEngine, Open, fileFaults,
         history
<1>2. DurableInv /\ PlaceInv /\ HandoverInv /\ HeldInv /\ FilesInv /\ CleanedInv
  BY DEF Context, DurableInv
<1>3. \A k : Settled(k)' = Settled(k) /\ Settled(k) = Live(k)
  BY <1>1, SameVersions DEF Settled, InFlight
<1>4. Loadable' = Loadable /\ (\A k, v : Backed(k, v)' <=> Backed(k, v)) /\ FilesInv'
  <2>1. Loadable' = Loadable
    BY <1>1 DEF Loadable, Opens
  <2>2. QED
    BY <1>1, <1>2, <2>1, SameFiles
<1>5. CleanedInv'
  BY <1>1, <1>2, <1>4 DEF CleanedInv
<1>5a. HandoverInv'
  BY <1>1 DEF HandoverInv
<1>6. CASE ~up'
  <2>1. UNCHANGED <<memtable, sstables, sstable_counter>>
    BY <1>6 DEF OpenEngine
  <2>2. PlaceInv'
    BY <1>1, <1>2, <1>6, <2>1 DEF PlaceInv
  <2>3. HeldInv'
    BY <1>1, <1>2, <1>3, <1>4, <2>1 DEF HeldInv
  <2>4. QED
    BY <1>3, <1>4, <1>5, <1>5a, <1>6, <2>2, <2>3 DEF DurableInv, SettlesOne
<1>7. CASE up'
  <2>1. /\ recovered' = [m \in DOMAIN segments' |-> Entries(segments'[m])]
        /\ memtable' = [k \in Keys |-> Replay(recovered', k)]
        /\ sstables' \in LoadOrders /\ sstable_counter' = NextId
    BY <1>1, <1>7 DEF OpenEngine, Open
  <2>2. /\ Directory(segments') /\ Ordered(segments') /\ Past(segments')
        /\ Tight(segments', lost, cleaned) /\ AllTornLast(segments')
        /\ 1..appended \subseteq lost \cup cleaned \cup Stored(segments')
    <3>1. Directory(segments') /\ Ordered(segments') /\ Past(segments')
      BY <1>1 DEF LogInv, TypeOK, Directory, SegmentOrder, Ordered, HistoryInv, Past
    <3>2. Tight(segments', lost, cleaned) /\ AllTornLast(segments') /\ buffer' = <<>>
      BY <1>1 DEF TightInv, TornInv
    <3>3. 1..appended \subseteq Ids(<<>>) \cup lost \cup cleaned \cup Stored(segments')
      BY <1>1, <3>2 DEF LogInv, NoSilentLoss, Stored
    <3>4. QED
      BY <3>1, <3>2, <3>3, BufferItems
  <2>3. \A k \in Keys :
          /\ memtable'[k] \in {0} \cup Live(k)
          /\ \A v \in Live(k) : v <= memtable'[k] \/ v \in cleaned
          /\ memtable'[k] # 0 => \A v \in cleaned : v < memtable'[k]
    <3>1. \A k \in Keys : memtable'[k] = ReplayOf(segments', k)
      BY <2>1 DEF ReplayOf
    <3>2. appended \in Nat
      BY AppendedNat DEF Context
    <3>3. QED
      BY <2>2, <3>1, <3>2, ReplayFacts
  <2>4. PlaceInv'
    BY <1>1, <1>2, <1>7 DEF PlaceInv
  <2>5. HeldInv'
    BY <1>1, <1>2, <1>3, <1>4, <2>3 DEF HeldInv
  <2>6. ListInv'
    <3>1. appended \in Nat /\ FilesTyped(files, appended)
          /\ \A m \in Loadable : m = Plain(m.id)
      BY AppendedNat, ContextFacts DEF Context, TypeInv
    <3>2. /\ \A i \in 1..Len(sstables') :
               sstables'[i].name \in Loadable /\ sstables'[i] = Reader(files, sstables'[i].name)
          /\ \A i, j \in 1..Len(sstables') : i < j => sstables'[i].name.id < sstables'[j].name.id
          /\ \A m \in Loadable : \E i \in 1..Len(sstables') : sstables'[i].name = m
      BY <2>1, <3>1, LoadsAll
    <3>3. \A m \in Loadable : m.id < sstable_counter'
      BY <2>1, <3>1, NextIdAbove DEF Plain
    <3>4. QED
      BY <1>1, <1>4, <3>2, <3>3 DEF ListInv, Listed, Uncollected, Unreported
  <2>7. TableInv'
    <3> SUFFICES ASSUME NEW k \in Keys
                 PROVE  /\ memtable'[k] # 0 =>
                             \A m \in Loadable : files[m].data[k] <= memtable'[k]
                        /\ \A v \in Live(k) : v <= memtable'[k] \/ Backed(k, v)
                        /\ memtable'[k] \in Nat
      BY <1>1, <1>3, <1>4, EmptyHasNone DEF TableInv
    <3>1. ASSUME memtable'[k] # 0, NEW m \in Loadable PROVE files[m].data[k] <= memtable'[k]
      <4>1. files[m].data[k] \in {0} \cup Live(k)
        BY <1>2, <1>3 DEF HeldInv
      <4>2. memtable'[k] \in 1..appended /\ \A v \in cleaned : v < memtable'[k] /\ v \in Nat
        BY <2>3, <3>1, ContextFacts DEF Live
      <4>3. files[m].data[k] = 0 \/ files[m].data[k] <= memtable'[k]
            \/ files[m].data[k] \in cleaned
        BY <2>3, <4>1
      <4>4. QED
        BY <4>2, <4>3
    <3>2. ASSUME NEW v \in Live(k), v \in cleaned PROVE Backed(k, v)
      BY <1>2, <3>2 DEF CleanedInv, Live
    <3>3. memtable'[k] \in Nat
      BY <2>3 DEF Live
    <3>4. QED
      BY <2>3, <3>1, <3>2, <3>3
  <2>8. ShelterInv'
    BY <1>1 DEF ShelterInv
  <2>9. QED
    BY <1>3, <1>4, <1>5, <1>5a, <2>4, <2>5, <2>6, <2>7, <2>8 DEF DurableInv, SettlesOne
<1>8. QED
  BY <1>6, <1>7

------------------------------------------------------------------------------
(* A put and its log record *)

\* append takes the next number, and gives it up only with the process.
LEMMA AppendFacts ==
  ASSUME Context, AppendHere \/ AppendRotating
  PROVE  /\ appended' = appended + 1 /\ appended < MaxAppends /\ cleaned' = cleaned
         /\ up' => lost' = lost /\ writeFaults' = writeFaults
         /\ lost \subseteq lost' /\ lost' \subseteq lost \cup {appended + 1}
<1> DEFINE a == appended + 1
           pending == Append(<<>>, a)
<1>1. PICK segs, n, w : appended < MaxAppends /\ AppendTo(segs, n, <<>>, w)
  BY ContextFacts DEF AppendHere, AppendRotating
<1>2. ~(writeFaults < MaxWriteFaults)
  BY DEF Context, Reliable, WrittenThrough, TightInv
<1>3. Ids(pending) = {a}
  <2>1. a \in Records /\ pending = <<a>>
    BY <1>1, ContextFacts, WalAssumption DEF Records
  <2> HIDE DEF a
  <2>2. QED
    BY <2>1 DEF Ids
<1>4. appended' = a /\ cleaned' = cleaned /\ up
  BY <1>1 DEF AppendTo, AppendHere, AppendRotating
<1> HIDE DEF pending
<1>5. \/ UNCHANGED <<up, lost, writeFaults>>
      \/ /\ up' = FALSE
         /\ \E cut \in CutWrites(pending) : lost' = lost \cup (Ids(pending) \ Ids(cut))
  BY <1>1, <1>2 DEF AppendTo, ContinueOn, Forget, pending
<1>6. QED
  BY <1>1, <1>3, <1>4, <1>5

\* append without a rotation writes to no segment but the current one.
LEMMA AppendStays ==
  ASSUME Context, AppendHere \/ AppendRotating, up', segment_number' = segment_number
  PROVE  \A n \in DOMAIN segments' :
           n < segment_number => n \in DOMAIN segments /\ segments'[n] = segments[n]
<1>1. segment_number \in Nat /\ up /\ [Next]_vars /\ LogInv
  <2>1. up /\ [Next]_vars
    BY DEF AppendHere, AppendRotating, Next
  <2>2. QED
    BY <2>1, WalAssumption DEF Context, LogInv, TypeOK
<1>2. ~AppendRotating
  <2> SUFFICES ASSUME AppendRotating PROVE FALSE
    OBVIOUS
  <2>1. AppendTo(Rotated, segment_number + 1, <<>>, 0)
    BY DEF AppendRotating
  <2>2. segment_number' = segment_number + 1 \/ up' = FALSE
    BY <1>1, <2>1 DEF AppendTo, ContinueOn, Forget
  <2>3. QED
    BY <1>1, <2>2
<1>3. DOMAIN segments' = DOMAIN segments
  <2>1. AppendTo(segments, current_segment, buffer, bytes_written)
    BY <1>2 DEF AppendHere
  <2>2. segments' = segments \/ \E items : segments' = WriteOut(segments, current_segment, items)
    BY <2>1 DEF AppendTo
  <2>3. QED
    BY <2>2 DEF WriteOut
<1>4. QED
  BY <1>1, <1>3, StepLeavesClosed

\* The record is in the log and the put goes on, or the process died in between,
\* and then the record counts as settled if it is complete.
LEMMA PutAppendDurable ==
  ASSUME Context, CalmStep, NEW k \in Keys, PutAppend(k) PROVE DurableInv' /\ SettlesOne
<1> DEFINE a == appended + 1
<1>1. /\ a \in 1..MaxAppends /\ appended' = a /\ appended \in Nat /\ a \notin lost
      /\ cleaned' = cleaned
      /\ up' => lost' = lost /\ writeFaults' = writeFaults
      /\ lost \subseteq lost' /\ lost' \subseteq lost \cup {a}
      /\ \A v \in cleaned : v \in 1..appended
  BY AppendFacts, ContextFacts, WalAssumption DEF PutAppend
<1>2. /\ keyOf'[a] = k /\ \A v \in 1..appended : keyOf'[v] = keyOf[v]
  BY <1>1, ContextFacts DEF PutAppend
<1>3. /\ pc = "idle" /\ UNCHANGED <<files, flushFaults, acked>> /\ up
      /\ AppendHere \/ AppendRotating
  BY DEF PutAppend, AppendHere, AppendRotating, fileFaults
<1>4. /\ DurableInv /\ PlaceInv /\ HandoverInv /\ HeldInv /\ FilesInv /\ CleanedInv
      /\ ListInv /\ TableInv /\ ShelterInv
  BY <1>3 DEF Context, DurableInv
<1>5. \A h : Settled(h) = Live(h)
  BY <1>3 DEF Settled, InFlight
<1>6. Loadable' = Loadable /\ (\A h, v : Backed(h, v)' <=> Backed(h, v)) /\ FilesInv'
  <2>1. Loadable' = Loadable
    BY <1>3 DEF Loadable, Opens
  <2>2. QED
    BY <1>3, <1>4, <2>1, SameFiles
<1>7. CleanedInv'
  BY <1>1, <1>2, <1>4, <1>6 DEF CleanedInv
<1>8. \A h : Live(h)' \ {a} = Live(h) /\ a \notin Live(h) /\ (a \in Live(h)' => h = k)
  <2>1. \A v \in 1..appended' : v \in 1..appended \/ v = a
    BY <1>1
  <2>2. \A v \in 1..appended : v \in 1..appended' /\ v # a
    BY <1>1
  <2> HIDE DEF a
  <2>3. ASSUME NEW h, NEW v PROVE v \in Live(h)' /\ v # a <=> v \in Live(h)
    BY <1>1, <1>2, <2>1, <2>2 DEF Live
  <2>4. \A h : a \notin Live(h) /\ (a \in Live(h)' => h = k)
    BY <1>2, <2>2 DEF Live
  <2>5. QED
    BY <2>3, <2>4
<1>9. CASE up'
  <2>1. pc' = "check" /\ lost' = lost
        /\ UNCHANGED <<memtable, immutable_memtable, sstables, sstable_counter, flush_tx,
                       flush_rx, writing, resume>>
    BY <1>1, <1>9 DEF PutAppend
  <2>2. \A h : Settled(h)' = Settled(h)
    <3> HIDE DEF a
    <3>1. \A h : Settled(h)' = Live(h)' \ {a}
      BY <1>1, <2>1 DEF Settled, InFlight
    <3>2. QED
      BY <1>5, <1>8, <3>1
  <2>3. PlaceInv' /\ HandoverInv'
    <3>1. PlaceInv'
      BY <1>1, <1>3, <1>4, <1>9, <2>1 DEF PlaceInv
    <3>2. HandoverInv'
      BY <1>3, <1>4, <1>6, <2>1 DEF HandoverInv
    <3>3. QED
      BY <3>1, <3>2
  <2>4. HeldInv'
    BY <1>3, <1>4, <1>6, <2>1, <2>2 DEF HeldInv
  <2>5. ListInv' /\ TableInv'
    <3>1. ListInv'
      BY <1>3, <1>4, <1>6, <2>1 DEF ListInv, Listed, Uncollected, Unreported, Reader
    <3>2. TableInv'
      BY <1>3, <1>4, <1>6, <2>1, <2>2 DEF TableInv
    <3>3. QED
      BY <3>1, <3>2
  <2>6. ShelterInv'
    <3> SUFFICES ASSUME immutable_memtable # EmptyTable, NEW n \in DOMAIN segments',
                        n < segment_number', NEW v \in Ids(segments'[n])
                 PROVE  v <= immutable_memtable[keyOf'[v]] \/ Backed(keyOf'[v], v)
      BY <1>6, <2>1 DEF ShelterInv
    <3>1. segment_number' = segment_number
      BY <1>9 DEF CalmStep
    <3>2. n \in DOMAIN segments /\ segments'[n] = segments[n]
      BY <1>3, <1>9, <3>1, AppendStays
    <3>3. v \in 1..appended /\ keyOf'[v] = keyOf[v]
      BY <1>2, <3>2, SegmentLive
    <3>4. QED
      BY <1>4, <3>1, <3>2, <3>3 DEF ShelterInv
  <2>7. QED
    BY <1>6, <1>7, <2>2, <2>3, <2>4, <2>5, <2>6 DEF DurableInv, SettlesOne
<1>10. CASE ~up'
  <2>1. ForgetEngine
    BY <1>10 DEF PutAppend
  <2>2. \A h : Settled(h)' = Live(h)'
    BY <2>1 DEF Settled, InFlight, ForgetEngine
  <2>3. \A h : Settled(h) \subseteq Settled(h)'
    BY <1>5, <1>8, <2>2
  <2>4. PlaceInv' /\ HandoverInv'
    BY <1>3, <1>4, <1>10, <2>1 DEF PlaceInv, HandoverInv, ForgetEngine
  <2>5. HeldInv'
    BY <1>3, <1>4, <1>6, <2>1, <2>3 DEF HeldInv, ForgetEngine, EmptyTable
  <2>6. SettlesOne
    <3>1. \A v \in Settled(k) : v <= a
      BY <1>1, <1>5 DEF Live
    <3>2. \A h \in Keys \ {k} : Settled(h)' = Settled(h)
      BY <1>5, <1>8, <2>2
    <3>3. CASE a \in Live(k)'
      <4>1. Settled(k)' = Settled(k) \cup {a}
        BY <1>5, <1>8, <2>2, <3>3
      <4>2. QED
        BY <1>1, <3>1, <3>2, <4>1 DEF SettlesOne
    <3>4. CASE a \notin Live(k)'
      <4>1. Settled(k)' = Settled(k)
        BY <1>5, <1>8, <2>2, <3>4
      <4>2. QED
        BY <3>2, <4>1 DEF SettlesOne
    <3>5. QED
      BY <3>3, <3>4
  <2>7. QED
    BY <1>6, <1>7, <1>10, <2>4, <2>5, <2>6 DEF DurableInv
<1>11. QED
  BY <1>9, <1>10

------------------------------------------------------------------------------
(* Steps that move put, and nothing else *)

\* Steps that leave tables, files and versions alone
LEMMA PlaceDurable ==
  ASSUME Context, CalmStep,
         PutRefused \/ NothingToCollect \/ MarkFlush \/ Poll \/ UNCHANGED evars
  PROVE  DurableInv' /\ SettlesOne
<1>1. /\ UNCHANGED <<up, memtable, immutable_memtable, sstables, sstable_counter, flush_tx,
                     flush_rx, writing, resume, files, flushFaults, keyOf, acked, appended,
                     lost, cleaned>>
      /\ \/ pc' = pc /\ (pc = "idle" \/ UNCHANGED <<segments, segment_number>>)
         \/ pc = "check" /\ pc' = "insert" /\ UNCHANGED <<segments, segment_number>>
         \/ pc = "mark" /\ pc' = "clean" /\ UNCHANGED <<segments, segment_number>>
  <2>1. CASE PutRefused
    BY <2>1 DEF PutRefused, AppendRefused, AppendRotationFails, FlushFails, history, volatile,
                fileFaults
  <2>2. CASE NothingToCollect
    BY <2>2 DEF NothingToCollect, vars, memory, history, fileFaults, Context, Reliable
  <2>3. CASE MarkFlush
    BY <2>3 DEF MarkFlush, MarkFlushed, fileFaults
  <2>4. CASE Poll
    BY <2>4 DEF Poll, vars, memory, history, fileFaults
  <2>5. CASE UNCHANGED evars
    BY <2>5 DEF evars, vars, memory, history, volatile, fileFaults
  <2>6. QED
    BY <2>1, <2>2, <2>3, <2>4, <2>5
<1>2. /\ DurableInv /\ PlaceInv /\ HandoverInv /\ HeldInv /\ FilesInv /\ CleanedInv
      /\ (up => ListInv /\ TableInv /\ ShelterInv)
  BY DEF Context, DurableInv
<1>3. \A k : Settled(k)' = Settled(k)
  BY <1>1, SameVersions DEF InFlight
<1>4. Loadable' = Loadable /\ (\A k, v : Backed(k, v)' <=> Backed(k, v)) /\ FilesInv'
  <2>1. Loadable' = Loadable
    BY <1>1 DEF Loadable, Opens
  <2>2. QED
    BY <1>1, <1>2, <2>1, SameFiles
<1>5. PlaceInv' /\ HandoverInv'
  <2>1. PlaceInv'
    BY <1>1, <1>2 DEF PlaceInv
  <2>2. HandoverInv'
    BY <1>1, <1>2, <1>4 DEF HandoverInv
  <2>3. QED
    BY <2>1, <2>2
<1>6. HeldInv' /\ CleanedInv'
  BY <1>1, <1>2, <1>3, <1>4 DEF HeldInv, CleanedInv
<1>7. up' => ListInv' /\ TableInv'
  <2>1. up => ListInv'
    BY <1>1, <1>2, <1>4 DEF ListInv, Listed, Uncollected, Unreported, Reader
  <2>2. up => TableInv'
    BY <1>1, <1>2, <1>3, <1>4 DEF TableInv
  <2>3. QED
    BY <1>1, <2>1, <2>2
<1>8. up' => ShelterInv'
  <2>1. CASE UNCHANGED <<segments, segment_number>>
    BY <1>1, <1>2, <1>4, <2>1 DEF ShelterInv
  <2>2. CASE pc = "idle" /\ pc' = pc /\ immutable_memtable = EmptyTable
    BY <1>1, <2>2 DEF ShelterInv
  <2>3. ASSUME PutRefused, immutable_memtable # EmptyTable PROVE FALSE
    <3>1. up /\ up' /\ segment_number \in Nat
      BY <2>3, WalAssumption
         DEF PutRefused, AppendRefused, AppendRotationFails, FlushFails, Context, LogInv, TypeOK
    <3>2. segment_number' = segment_number
      BY <2>3, <3>1 DEF CalmStep
    <3>3. ~FlushFails
      BY DEF FlushFails, Context, TightInv
    <3>4. segment_number' = segment_number + 1
      BY <2>3, <3>3 DEF PutRefused, AppendRefused, AppendRotationFails
    <3>5. QED
      BY <3>1, <3>2, <3>4
  <2>4. PutRefused \/ UNCHANGED <<segments, segment_number>>
    BY DEF NothingToCollect, MarkFlush, MarkFlushed, Poll, evars, vars, memory
  <2>5. PutRefused => pc = "idle" /\ pc' = pc
    BY DEF PutRefused, volatile
  <2>6. QED
    BY <2>1, <2>2, <2>3, <2>4, <2>5
<1>9. QED
  BY <1>3, <1>4, <1>5, <1>6, <1>7, <1>8 DEF DurableInv, SettlesOne

\* Cleanup deletes segments below the flush point, and what they have is in a file.
LEMMA CleanDurable ==
  ASSUME Context, CleanLog PROVE DurableInv' /\ SettlesOne
<1>1. /\ pc = "clean" /\ up
      /\ UNCHANGED <<up, memtable, immutable_memtable, sstables, sstable_counter, flush_tx,
                     flush_rx, writing, resume, files, flushFaults, keyOf, appended, lost>>
      /\ cleaned' = cleaned \cup UNION {Ids(segments[n]) : n \in Victims(0)}
      /\ \/ resume = "idle" /\ Ack
         \/ resume # "idle" /\ pc' = resume /\ acked' = acked
  <2>1. pc = "clean" /\ up
    BY DEF CleanLog, Context, DurableInv, PlaceInv
  <2>2. ~CleanupFails(0)
    BY DEF CleanupFails, Context, Reliable, WrittenThrough, TightInv
  <2>3. QED
    BY <2>1, <2>2 DEF CleanLog, Cleanup, Delete, fileFaults
<1>2. /\ PlaceInv /\ HandoverInv /\ HeldInv /\ FilesInv /\ CleanedInv
      /\ ListInv /\ TableInv /\ ShelterInv
  BY <1>1 DEF Context, DurableInv
<1>3. immutable_memtable = EmptyTable /\ resume \in {"idle", "check", "wait"}
      /\ pc' \in {"idle", "check", "wait"} /\ (pc' # "idle" => pc' = resume)
  BY <1>1, <1>2 DEF PlaceInv, Ack
<1>4. \A k : Settled(k)' = Settled(k)
  BY <1>1, <1>3, SameVersions DEF InFlight, Ack
<1>5. Loadable' = Loadable /\ (\A k, v : Backed(k, v)' <=> Backed(k, v)) /\ FilesInv'
  <2>1. Loadable' = Loadable
    BY <1>1 DEF Loadable, Opens
  <2>2. QED
    BY <1>1, <1>2, <2>1, SameFiles
<1>6. CleanedInv'
  <2>1. ASSUME NEW n \in Victims(0), NEW v \in Ids(segments[n]) PROVE Backed(keyOf[v], v)
    <3>1. n \in DOMAIN segments /\ n < segment_number
      <4>1. /\ last_flushed_segment <= segment_number /\ n < last_flushed_segment
            /\ n \in DOMAIN segments
        BY <2>1 DEF Context, LogInv, NumbersInv, Victims, SafeToDelete
      <4>2. n \in Nat /\ last_flushed_segment \in Nat /\ segment_number \in Nat
        BY <4>1, WalAssumption DEF Context, LogInv, TypeOK
      <4>3. QED
        BY <4>1, <4>2
    <3>2. v \in 1..appended /\ keyOf[v] \in Keys
      BY <3>1, SegmentLive
    <3>3. immutable_memtable[keyOf[v]] = 0
      BY <1>3, <3>2, EmptyHasNone
    <3>4. v <= immutable_memtable[keyOf[v]] \/ Backed(keyOf[v], v)
      BY <1>1, <1>2, <3>1 DEF ShelterInv
    <3>5. QED
      BY <3>2, <3>3, <3>4
  <2>2. QED
    BY <1>1, <1>2, <1>5, <2>1 DEF CleanedInv
<1>7. PlaceInv' /\ HandoverInv'
  <2>1. PlaceInv'
    BY <1>1, <1>2, <1>3 DEF PlaceInv
  <2>2. HandoverInv'
    BY <1>1, <1>2, <1>5 DEF HandoverInv
  <2>3. QED
    BY <2>1, <2>2
<1>8. HeldInv'
  <2>1. acked' \in [Keys -> Nat] /\ \A k \in Keys : acked'[k] \in {0} \cup Settled(k)
    <3>1. CASE resume = "idle" /\ Ack
      BY <1>1, <3>1, AckHeld DEF InFlight
    <3>2. CASE acked' = acked
      BY <1>2, <3>2 DEF HeldInv
    <3>3. QED
      BY <1>1, <3>1, <3>2
  <2>2. QED
    BY <1>1, <1>2, <1>4, <1>5, <2>1 DEF HeldInv
<1>9. ListInv' /\ TableInv'
  <2>1. ListInv'
    BY <1>1, <1>2, <1>5 DEF ListInv, Listed, Uncollected, Unreported, Reader
  <2>2. TableInv'
    BY <1>1, <1>2, <1>4, <1>5 DEF TableInv
  <2>3. QED
    BY <2>1, <2>2
<1>10. ShelterInv'
  BY <1>1, <1>3 DEF ShelterInv
<1>11. QED
  BY <1>4, <1>5, <1>6, <1>7, <1>8, <1>9, <1>10 DEF DurableInv, SettlesOne

------------------------------------------------------------------------------
(* The memtable, and the immutable one *)

\* The record of a running put settles: it is the newest one of its key.
LEMMA InFlightSettles ==
  ASSUME Context, InFlight, UNCHANGED <<appended, lost, keyOf>>, ~InFlight'
  PROVE  \E h \in Keys :
         /\ h = keyOf[appended] /\ appended \in 1..MaxAppends
         /\ Settled(h)' = Settled(h) \cup {appended}
         /\ \A k : \A v \in Settled(k) : v \in 1..appended
         /\ \A k : k # h => Settled(k)' = Settled(k)
         /\ \A k : Settled(k) \subseteq Settled(k)'
         /\ SettlesOne
<1>1. /\ appended \in 1..MaxAppends /\ appended \in 1..appended /\ appended \notin lost
      /\ keyOf[appended] \in Keys
  <2>1. appended \in 1..MaxAppends /\ appended \notin lost
    BY DEF Context, DurableInv, PlaceInv, InFlight
  <2>2. appended \in 1..appended
    BY <2>1
  <2>3. QED
    BY <2>1, <2>2, ContextFacts
<1>2. \A k : Settled(k)' = Live(k) /\ Settled(k) = Live(k) \ {appended}
  BY DEF Settled, Live
<1>3. PICK h \in Keys : h = keyOf[appended]
  BY <1>1
<1>4. appended \in Live(h) /\ \A k : appended \in Live(k) => k = h
  BY <1>1, <1>3 DEF Live
<1>5. /\ Settled(h)' = Settled(h) \cup {appended}
      /\ \A k : k # h => Settled(k)' = Settled(k)
      /\ \A k : Settled(k) \subseteq Settled(k)'
  BY <1>2, <1>4
<1>6. \A k : \A v \in Settled(k) : v \in 1..appended
  BY DEF Settled, Live
<1>7. \A v \in Settled(h) : v <= appended
  BY <1>6
<1>8. SettlesOne
  BY <1>1, <1>5, <1>7 DEF SettlesOne
<1>9. QED
  BY <1>1, <1>3, <1>5, <1>6, <1>8

\* The insert settles the version of the running put, the newest of its key.
LEMMA InsertDurable ==
  ASSUME Context, Insert PROVE DurableInv' /\ SettlesOne
<1>1. /\ pc = "insert" /\ up
      /\ memtable' = [memtable EXCEPT ![keyOf[appended]] = appended]
      /\ UNCHANGED <<up, appended, lost, cleaned, segments, segment_number, immutable_memtable,
                     sstables, sstable_counter, flush_tx, flush_rx, writing, resume, files,
                     flushFaults, keyOf>>
      /\ \/ pc' = "idle" /\ acked' = [acked EXCEPT ![keyOf[appended]] = appended]
         \/ /\ pc' = (IF Background THEN "wait" ELSE "sync") /\ acked' = acked
  <2>1. pc = "insert" /\ up /\ memtable' = [memtable EXCEPT ![keyOf[appended]] = appended]
    BY DEF Insert
  <2>2. UNCHANGED <<up, appended, lost, cleaned, segments, segment_number, immutable_memtable,
                     sstables, sstable_counter, flush_tx, flush_rx, writing, resume, files,
                     flushFaults, keyOf>>
    BY DEF Insert, vars, memory, history, fileFaults
  <2>3. \/ pc' = "idle" /\ acked' = [acked EXCEPT ![keyOf[appended]] = appended]
        \/ pc' = (IF Background THEN "wait" ELSE "sync") /\ acked' = acked
    BY DEF Insert, Ack
  <2>4. QED
    BY <2>1, <2>2, <2>3
<1>2. /\ PlaceInv /\ HandoverInv /\ HeldInv /\ FilesInv /\ CleanedInv
      /\ ListInv /\ TableInv /\ ShelterInv
  BY <1>1 DEF Context, DurableInv
<1>3. PICK h \in Keys :
      /\ h = keyOf[appended] /\ appended \in 1..MaxAppends
      /\ Settled(h)' = Settled(h) \cup {appended}
      /\ \A k : \A v \in Settled(k) : v \in 1..appended
      /\ \A k : k # h => Settled(k)' = Settled(k)
      /\ \A k : Settled(k) \subseteq Settled(k)'
      /\ SettlesOne
  BY <1>1, InFlightSettles DEF InFlight
<1>4. Loadable' = Loadable /\ (\A k, v : Backed(k, v)' <=> Backed(k, v)) /\ FilesInv'
  <2>1. Loadable' = Loadable
    BY <1>1 DEF Loadable, Opens
  <2>2. QED
    BY <1>1, <1>2, <2>1, SameFiles
<1>5. /\ memtable'[h] = appended
      /\ \A k \in Keys : k # h => memtable'[k] = memtable[k]
  <2>1. memtable \in [Keys -> 0..appended]
    BY ContextFacts DEF Tables
  <2>2. QED
    BY <1>1, <1>3, <2>1
<1>6. PlaceInv' /\ HandoverInv'
  <2>1. memtable' # EmptyTable
    BY <1>3, <1>5, EmptyHasNone
  <2>2. PlaceInv'
    BY <1>1, <1>2, <2>1 DEF PlaceInv
  <2>3. HandoverInv'
    BY <1>1, <1>2, <1>4 DEF HandoverInv
  <2>4. QED
    BY <2>2, <2>3
<1>7. HeldInv'
  <2>1. acked' \in [Keys -> Nat] /\ \A k \in Keys : acked'[k] \in {0} \cup Settled(k)'
    <3>1. acked \in [Keys -> Nat] /\ \A k \in Keys : acked[k] \in {0} \cup Settled(k)
      BY <1>2 DEF HeldInv
    <3>2. appended \in Nat /\ appended \in Settled(h)'
      BY <1>3
    <3>3. acked' \in [Keys -> Nat]
      BY <1>1, <3>1, <3>2
    <3>4. \A k \in Keys : acked'[k] = acked[k] \/ (k = h /\ acked'[k] = appended)
      BY <1>1, <1>3, <3>1
    <3>5. QED
      BY <1>3, <3>1, <3>2, <3>3, <3>4
  <2>2. ASSUME NEW k \in Keys PROVE memtable'[k] \in {0} \cup Settled(k)'
    <3>1. CASE k = h
      BY <1>3, <1>5, <3>1
    <3>2. CASE k # h
      BY <1>2, <1>3, <1>5, <3>2 DEF HeldInv
    <3>3. QED
      BY <3>1, <3>2
  <2>3. \A k \in Keys : /\ immutable_memtable'[k] \in {0} \cup Settled(k)'
                        /\ \A n \in Loadable : files'[n].data[k] \in {0} \cup Settled(k)'
    BY <1>1, <1>2, <1>3 DEF HeldInv
  <2>4. QED
    BY <1>4, <2>1, <2>2, <2>3 DEF HeldInv
<1>8. CleanedInv' /\ ListInv' /\ ShelterInv'
  <2>1. CleanedInv'
    BY <1>1, <1>2, <1>4 DEF CleanedInv
  <2>2. ListInv'
    BY <1>1, <1>2, <1>4 DEF ListInv, Listed, Uncollected, Unreported, Reader
  <2>3. ShelterInv'
    BY <1>1, <1>2, <1>4 DEF ShelterInv
  <2>4. QED
    BY <2>1, <2>2, <2>3
<1>9. TableInv'
  <2> SUFFICES ASSUME NEW k \in Keys
               PROVE  /\ memtable'[k] # 0 =>
                           /\ immutable_memtable[k] <= memtable'[k]
                           /\ \A n \in Loadable : files[n].data[k] <= memtable'[k]
                      /\ immutable_memtable[k] # 0 =>
                           \A n \in Loadable : files[n].data[k] <= immutable_memtable[k]
                      /\ \A v \in Settled(k)' : \/ v <= memtable'[k]
                                                \/ v <= immutable_memtable[k] \/ Backed(k, v)
    BY <1>1, <1>4 DEF TableInv
  <2>0. immutable_memtable[k] # 0 =>
          \A n \in Loadable : files[n].data[k] <= immutable_memtable[k]
    BY <1>2 DEF TableInv
  <2>1. CASE k = h
    <3>1. /\ \A n \in Loadable : files[n].data[h] \in {0} \cup Settled(h)
          /\ immutable_memtable[h] \in {0} \cup Settled(h)
      BY <1>2, <1>3 DEF HeldInv
    <3>2. /\ \A n \in Loadable : files[n].data[h] <= appended
          /\ immutable_memtable[h] <= appended
      BY <1>3, <3>1
    <3>3. \A v \in Settled(h)' : v <= appended
      <4>1. \A v \in Settled(h) : v <= appended
        BY <1>3
      <4>2. appended <= appended
        BY <1>3
      <4>3. QED
        BY <1>3, <4>1, <4>2
    <3>4. QED
      BY <1>5, <2>0, <2>1, <3>2, <3>3
  <2>2. CASE k # h
    BY <1>2, <1>3, <1>5, <2>2 DEF TableInv
  <2>3. QED
    BY <2>1, <2>2
<1>10. QED
  BY <1>3, <1>4, <1>6, <1>7, <1>8, <1>9 DEF DurableInv

\* The list with one more reader, of the file with the largest number
LEMMA ListExtends ==
  ASSUME Context, NEW new, NEW fs, sstables' = Append(sstables, Reader(fs, new)),
         \A i \in 1..Len(sstables) :
           sstables[i] = Reader(fs, sstables[i].name) /\ sstables[i].name.id < new.id,
         \A i, j \in 1..Len(sstables) : i < j => sstables[i].name.id < sstables[j].name.id
  PROVE  /\ \A i \in 1..Len(sstables') :
              /\ sstables'[i] = Reader(fs, sstables'[i].name)
              /\ sstables'[i].name = new \/ Listed(sstables'[i].name)
         /\ \A i, j \in 1..Len(sstables') :
              i < j => sstables'[i].name.id < sstables'[j].name.id
         /\ Listed(new)' /\ \A n : Listed(n) => Listed(n)'
<1>1. sstables \in Seq(Readers(appended))
  BY DEF Context, TypeInv
<1>2. /\ Len(sstables') = Len(sstables) + 1 /\ Len(sstables) \in Nat
      /\ sstables'[Len(sstables) + 1] = Reader(fs, new)
      /\ \A i \in 1..Len(sstables) : sstables'[i] = sstables[i]
  BY <1>1
<1>3. Reader(fs, new).name = new
  BY DEF Reader
<1>4. /\ \A i \in 1..Len(sstables') : i \in 1..Len(sstables) \/ i = Len(sstables) + 1
      /\ \A i \in 1..Len(sstables) : i \in 1..Len(sstables')
      /\ Len(sstables) + 1 \in 1..Len(sstables')
  BY <1>2
<1>5. ASSUME NEW i \in 1..Len(sstables')
      PROVE  /\ sstables'[i] = Reader(fs, sstables'[i].name)
             /\ sstables'[i].name = new \/ Listed(sstables'[i].name)
  <2>1. CASE i \in 1..Len(sstables)
    BY <1>2, <2>1 DEF Listed
  <2>2. CASE i = Len(sstables) + 1
    BY <1>2, <1>3, <2>2
  <2>3. QED
    BY <1>4, <2>1, <2>2
<1>6. ASSUME NEW i \in 1..Len(sstables'), NEW j \in 1..Len(sstables'), i < j
      PROVE  sstables'[i].name.id < sstables'[j].name.id
  <2>1. i \in 1..Len(sstables)
    BY <1>2, <1>6
  <2>2. CASE j \in 1..Len(sstables)
    BY <1>2, <1>6, <2>1, <2>2
  <2>3. CASE j = Len(sstables) + 1
    BY <1>2, <1>3, <2>1, <2>3
  <2>4. QED
    BY <1>4, <2>2, <2>3
<1>7. Listed(new)' /\ \A n : Listed(n) => Listed(n)'
  <2>1. \E i \in 1..Len(sstables') : sstables'[i].name = new
    BY <1>2, <1>3, <1>4
  <2>2. ASSUME NEW n, Listed(n) PROVE \E i \in 1..Len(sstables') : sstables'[i].name = n
    BY <1>2, <1>4, <2>2 DEF Listed
  <2>3. QED
    BY <2>1, <2>2 DEF Listed
<1>8. QED
  BY <1>5, <1>6, <1>7

\* A result is collected: its file, which has what the immutable memtable had, goes
\* to the end of the list.
LEMMA CollectDurable ==
  ASSUME Context, Collect PROVE DurableInv' /\ SettlesOne
<1>0. PICK new : new = Head(flush_rx)
  OBVIOUS
<1>1. up /\ pc \in {"check", "wait"} /\ flush_rx # <<>>
  BY DEF Collect
<1>2. /\ PlaceInv /\ HandoverInv /\ HeldInv /\ FilesInv /\ CleanedInv
      /\ ListInv /\ TableInv /\ ShelterInv
  BY <1>1 DEF Context, DurableInv
<1>3. /\ new \in Loadable /\ files[new].data = immutable_memtable
      /\ \A n \in Loadable : n.id <= new.id
      /\ Len(flush_rx) = 1 /\ flush_tx = <<>> /\ Uncollected(new) /\ ~Listed(new)
      /\ \A n \in Loadable : Uncollected(n) => n = new
      /\ immutable_memtable # EmptyTable
  BY <1>0, <1>1, <1>2 DEF HandoverInv, ListInv, Uncollected
<1>4. /\ sstables' = Append(sstables, Reader(files, new))
      /\ flush_rx' = Tail(flush_rx) /\ immutable_memtable' = EmptyTable
      /\ pc' = "mark" /\ resume' = pc
      /\ UNCHANGED <<up, appended, lost, cleaned, segments, segment_number, memtable,
                     sstable_counter, flush_tx, writing, files, flushFaults, keyOf, acked>>
  BY <1>0, <1>3 DEF Collect, vars, memory, history, fileFaults, Loadable
<1>5. flush_rx' = <<>>
  <2>1. flush_rx \in Seq(Names)
    BY DEF Context, TypeInv
  <2>2. QED
    BY <1>1, <1>3, <1>4, <2>1
<1>6. \A k : Settled(k)' = Settled(k)
  BY <1>1, <1>4, SameVersions DEF InFlight
<1>7. Loadable' = Loadable /\ (\A k, v : Backed(k, v)' <=> Backed(k, v)) /\ FilesInv'
  <2>1. Loadable' = Loadable
    BY <1>4 DEF Loadable, Opens
  <2>2. QED
    BY <1>2, <1>4, <2>1, SameFiles
<1>8. PlaceInv' /\ HandoverInv'
  <2>1. PlaceInv'
    BY <1>1, <1>2, <1>3, <1>4 DEF PlaceInv
  <2>2. HandoverInv'
    BY <1>2, <1>3, <1>4, <1>5 DEF HandoverInv
  <2>3. QED
    BY <2>1, <2>2
<1>9. HeldInv' /\ CleanedInv'
  BY <1>2, <1>4, <1>6, <1>7, EmptyHasNone DEF HeldInv, CleanedInv
<1>10. ListInv'
  <2>1. \A i \in 1..Len(sstables) :
          /\ sstables[i] = Reader(files, sstables[i].name)
          /\ sstables[i].name \in Loadable /\ sstables[i].name # new
    BY <1>2, <1>3 DEF ListInv, Listed
  <2>2. \A n \in Loadable : n # new => n.id < new.id
    <3> SUFFICES ASSUME NEW n \in Loadable, n # new PROVE n.id < new.id
      OBVIOUS
    <3>1. n = Plain(n.id) /\ new = Plain(new.id) /\ n.id \in Nat /\ new.id \in Nat
      BY <1>3, ContextFacts
    <3>2. n.id # new.id
      BY <3>1
    <3>3. QED
      BY <1>3, <3>1, <3>2
  <2>3. /\ \A i \in 1..Len(sstables') :
             /\ sstables'[i] = Reader(files, sstables'[i].name)
             /\ sstables'[i].name = new \/ Listed(sstables'[i].name)
        /\ \A i, j \in 1..Len(sstables') :
             i < j => sstables'[i].name.id < sstables'[j].name.id
        /\ Listed(new)' /\ \A n : Listed(n) => Listed(n)'
    <3>1. \A i \in 1..Len(sstables) : sstables[i].name.id < new.id
      BY <2>1, <2>2
    <3>2. \A i, j \in 1..Len(sstables) : i < j => sstables[i].name.id < sstables[j].name.id
      BY <1>2 DEF ListInv
    <3>3. QED
      BY <1>4, <2>1, <3>1, <3>2, ListExtends
  <2>4. \A n : Listed(n) => n \in Loadable
    BY <1>2 DEF ListInv, Listed
  <2>5. \A n \in Loadable : n.id < sstable_counter /\ Listed(n)'
    BY <1>2, <1>3, <2>3 DEF ListInv, Unreported
  <2>6. QED
    BY <1>3, <1>4, <1>5, <1>7, <2>3, <2>4, <2>5 DEF ListInv, Uncollected, Unreported
<1>11. TableInv'
  <2>1. \A k \in Keys : \A v : v <= immutable_memtable[k] => Backed(k, v)
    BY <1>3 DEF Backed
  <2>2. \A k \in Keys : memtable[k] \in Nat
    BY ContextFacts DEF Tables
  <2>3. QED
    BY <1>2, <1>4, <1>6, <1>7, <2>1, <2>2, EmptyHasNone DEF TableInv
<1>12. ShelterInv'
  <2> SUFFICES ASSUME NEW n \in DOMAIN segments, n < segment_number, NEW v \in Ids(segments[n])
               PROVE  Backed(keyOf[v], v)
    BY <1>4, <1>7 DEF ShelterInv
  <2>1. v <= immutable_memtable[keyOf[v]] \/ Backed(keyOf[v], v)
    BY <1>2, <1>3 DEF ShelterInv
  <2>2. QED
    BY <1>3, <2>1 DEF Backed
<1>13. QED
  BY <1>6, <1>7, <1>8, <1>9, <1>10, <1>11, <1>12 DEF DurableInv, SettlesOne

\* The memtable is handed over: at this moment every version is in it or in a file,
\* and so is what the segments have.
LEMMA SwapDurable ==
  ASSUME Context, Swap PROVE DurableInv' /\ SettlesOne
<1> DEFINE msg == [id |-> sstable_counter, table |-> memtable]
<1>1. /\ up /\ pc = "wait" /\ immutable_memtable = EmptyTable
      /\ immutable_memtable' = memtable /\ memtable' = EmptyTable
      /\ flush_tx' = Append(flush_tx, msg) /\ sstable_counter' = sstable_counter + 1
      /\ pc' = "idle" /\ Ack
      /\ UNCHANGED <<up, appended, lost, cleaned, segments, segment_number, sstables, flush_rx,
                     writing, resume, files, flushFaults, keyOf>>
  BY DEF Swap, Ack, vars, memory, history, fileFaults
<1>2. /\ PlaceInv /\ HandoverInv /\ HeldInv /\ FilesInv /\ CleanedInv
      /\ ListInv /\ TableInv /\ ShelterInv
  BY <1>1 DEF Context, DurableInv
<1>3. /\ flush_tx = <<>> /\ flush_rx = <<>> /\ ~writing /\ memtable # EmptyTable /\ Background
  BY <1>1, <1>2 DEF HandoverInv, PlaceInv
<1>4. flush_tx' # <<>> /\ Len(flush_tx') = 1 /\ Head(flush_tx') = msg
  <2>1. flush_tx' = Append(<<>>, msg)
    BY <1>1, <1>3
  <2> HIDE DEF msg
  <2>2. QED
    BY <2>1
<1>5. (\A k : Settled(k)' = Settled(k)) /\ \A k : Settled(k) = Live(k)
  BY <1>1, SameVersions DEF InFlight, Settled
<1>6. Loadable' = Loadable /\ (\A k, v : Backed(k, v)' <=> Backed(k, v)) /\ FilesInv'
  <2>1. Loadable' = Loadable
    BY <1>1 DEF Loadable, Opens
  <2>2. QED
    BY <1>1, <1>2, <2>1, SameFiles
<1>7. PlaceInv' /\ HandoverInv'
  <2>1. PlaceInv'
    BY <1>1, <1>2, <1>3 DEF PlaceInv
  <2>2. sstable_counter \in Nat /\ msg.id = sstable_counter /\ msg.table = memtable
    BY ContextFacts
  <2>3. \A n \in Loadable : n.id < sstable_counter
    BY <1>2 DEF ListInv
  <2> HIDE DEF msg
  <2>4. HandoverInv'
    BY <1>1, <1>3, <1>4, <1>6, <2>2, <2>3 DEF HandoverInv
  <2>5. QED
    BY <2>1, <2>4
<1>8. HeldInv' /\ CleanedInv'
  <2>1. acked' \in [Keys -> Nat] /\ \A k \in Keys : acked'[k] \in {0} \cup Settled(k)
    BY <1>1, AckHeld DEF InFlight
  <2>2. HeldInv'
    BY <1>1, <1>2, <1>5, <1>6, <2>1, EmptyHasNone DEF HeldInv
  <2>3. CleanedInv'
    BY <1>1, <1>2, <1>6 DEF CleanedInv
  <2>4. QED
    BY <2>2, <2>3
<1>9. ListInv'
  <2>1. \A n \in Loadable : n.id \in Nat /\ n.id < sstable_counter
    BY <1>2, ContextFacts DEF ListInv
  <2>2. \A n \in Loadable : n.id < sstable_counter'
    BY <1>1, <2>1, ContextFacts
  <2>3. QED
    BY <1>1, <1>2, <1>6, <2>2 DEF ListInv, Listed, Uncollected, Unreported, Reader
<1>10. TableInv'
  <2>1. \A k \in Keys : immutable_memtable[k] = 0 /\ memtable[k] \in Nat
    BY <1>1, EmptyHasNone, ContextFacts DEF Tables
  <2>2. \A k : \A v \in Settled(k) : v \in Nat /\ v # 0
    BY DEF Settled, Live
  <2>3. QED
    BY <1>1, <1>2, <1>5, <1>6, <2>1, <2>2, EmptyHasNone DEF TableInv
<1>11. ShelterInv'
  <2> SUFFICES ASSUME NEW n \in DOMAIN segments, NEW v \in Ids(segments[n])
               PROVE  v <= memtable[keyOf[v]] \/ Backed(keyOf[v], v)
    BY <1>1, <1>6 DEF ShelterInv
  <2>1. v \in Settled(keyOf[v]) /\ keyOf[v] \in Keys /\ v \in 1..appended
    BY <1>5, SegmentLive
  <2>2. immutable_memtable[keyOf[v]] = 0
    BY <1>1, <2>1, EmptyHasNone
  <2>3. QED
    BY <1>2, <2>1, <2>2 DEF TableInv
<1>12. QED
  BY <1>5, <1>6, <1>7, <1>8, <1>9, <1>10, <1>11 DEF DurableInv, SettlesOne

------------------------------------------------------------------------------
(* Files *)

\* A file with the largest number is finished: it joins those that open, and it may
\* as long as its versions are newer than theirs.
LEMMA FileFinished ==
  ASSUME Context, NEW new, new = Plain(new.id), NEW table, files' = Finish(files, new, table),
         \A n \in Loadable : n.id < new.id, new.id \in Nat
  PROVE  /\ Loadable' = Loadable \cup {new} /\ new \notin Loadable
         /\ \A n \in Loadable : files'[n] = files[n]
         /\ files'[new].data = table
         /\ \A k, v : Backed(k, v) \/ v <= table[k] => Backed(k, v)'
         /\ \A n \in DOMAIN files' : n = Plain(n.id)
         /\ (\A k \in Keys : table[k] # 0 => \A n \in Loadable : files[n].data[k] <= table[k])
              => FilesInv'
<1>1. \A n \in Loadable : n.id \in Nat
  BY ContextFacts
<1>2. new \notin Loadable
  BY <1>1
<1>3. /\ DOMAIN files' = DOMAIN files \cup {new}
      /\ files'[new] = [data |-> table, complete |-> TRUE]
      /\ \A n \in DOMAIN files : n # new => files'[n] = files[n]
  BY DEF Finish
<1>4. Loadable' = Loadable \cup {new} /\ \A n \in Loadable : files'[n] = files[n]
  <2>1. \A n : n \in Loadable' <=> n \in DOMAIN files' /\ files'[n].complete
    BY DEF Loadable, Opens
  <2>2. \A n : n \in Loadable <=> n \in DOMAIN files /\ files[n].complete
    BY DEF Loadable, Opens
  <2>3. files'[new].complete
    BY <1>3
  <2>4. QED
    BY <1>2, <1>3, <2>1, <2>2, <2>3
<1>5. files'[new].data = table
  BY <1>3
<1>6. \A k, v : Backed(k, v) \/ v <= table[k] => Backed(k, v)'
  BY <1>4, <1>5 DEF Backed
<1>7. \A n \in DOMAIN files' : n = Plain(n.id)
  BY <1>3 DEF Context, DurableInv, PlaceInv
<1>8. ASSUME \A k \in Keys : table[k] # 0 => \A n \in Loadable : files[n].data[k] <= table[k]
      PROVE  FilesInv'
  <2> SUFFICES ASSUME NEW k \in Keys, NEW n \in Loadable', NEW m \in Loadable', n.id < m.id,
                      files'[m].data[k] # 0
               PROVE  files'[n].data[k] <= files'[m].data[k]
    BY DEF FilesInv
  <2>1. n # new
    BY <1>1, <1>4
  <2>2. CASE m = new
    BY <1>4, <1>5, <1>8, <2>1, <2>2
  <2>3. CASE m # new
    BY <1>4, <2>1, <2>3 DEF Context, DurableInv, FilesInv
  <2>4. QED
    BY <2>2, <2>3
<1>9. QED
  BY <1>2, <1>4, <1>5, <1>6, <1>7, <1>8

\* A file that does not open is created, of a number none that opens has.
LEMMA FileCreated ==
  ASSUME Context, NEW new, new = Plain(new.id), files' = Create(files, new), new \notin Loadable
  PROVE  /\ Loadable' = Loadable /\ \A n \in Loadable : files'[n] = files[n]
         /\ \A n \in DOMAIN files' : n = Plain(n.id)
         /\ new \in DOMAIN files'
<1>1. /\ DOMAIN files' = DOMAIN files \cup {new} /\ files'[new].complete = FALSE
      /\ \A n \in DOMAIN files : n # new => files'[n] = files[n]
  BY DEF Create
<1>2. \A n : n \in Loadable' <=> n \in DOMAIN files' /\ files'[n].complete
  BY DEF Loadable, Opens
<1>3. \A n : n \in Loadable <=> n \in DOMAIN files /\ files[n].complete
  BY DEF Loadable, Opens
<1>4. \A n \in DOMAIN files' : n = Plain(n.id)
  BY <1>1 DEF Context, DurableInv, PlaceInv
<1>5. QED
  BY <1>1, <1>2, <1>3, <1>4

\* The memtable becomes the newest file, without the flush thread.
LEMMA SyncFlushDurable ==
  ASSUME Context, SyncFlush PROVE DurableInv' /\ SettlesOne
<1>0. PICK new : new = Plain(sstable_counter)
  OBVIOUS
<1>1. /\ pc = "sync" /\ up
      /\ sstable_counter' = sstable_counter + 1
      /\ memtable' = EmptyTable
      /\ files' = Finish(files, new, memtable)
      /\ sstables' = Append(sstables, Reader(files', new))
      /\ pc' = "mark" /\ resume' = "idle"
      /\ UNCHANGED <<up, appended, lost, cleaned, segments, segment_number, immutable_memtable,
                     flush_tx, flush_rx, writing, flushFaults, keyOf, acked>>
  <2>1. ~(flushFaults < MaxFlushFaults)
    BY DEF SyncFlush, Context, Reliable, DurableInv, PlaceInv
  <2>2. QED
    BY <1>0, <2>1 DEF SyncFlush, vars, memory, history, fileFaults
<1>2. /\ PlaceInv /\ HandoverInv /\ HeldInv /\ FilesInv /\ CleanedInv
      /\ ListInv /\ TableInv /\ ShelterInv
  BY <1>1 DEF Context, DurableInv
<1>3. /\ immutable_memtable = EmptyTable /\ flush_tx = <<>> /\ flush_rx = <<>> /\ ~writing
      /\ ~Background
  BY <1>1, <1>2 DEF PlaceInv, HandoverInv
<1>4. \A k : Settled(k)' = Settled(k)
  BY <1>1, SameVersions DEF InFlight
<1>5. /\ sstable_counter \in Nat /\ new.id = sstable_counter /\ new = Plain(new.id)
      /\ \A n \in Loadable : n.id < new.id /\ n.id \in Nat
  <2>1. sstable_counter \in Nat /\ \A n \in Loadable : n.id \in Nat /\ n.id < sstable_counter
    BY <1>2, ContextFacts DEF ListInv
  <2>2. QED
    BY <1>0, <2>1 DEF Plain
<1>6. /\ Loadable' = Loadable \cup {new} /\ new \notin Loadable
      /\ \A n \in Loadable : files'[n] = files[n]
      /\ files'[new].data = memtable
      /\ \A k, v : Backed(k, v) \/ v <= memtable[k] => Backed(k, v)'
      /\ \A n \in DOMAIN files' : n = Plain(n.id)
      /\ FilesInv'
  <2>1. \A k \in Keys : memtable[k] # 0 => \A n \in Loadable : files[n].data[k] <= memtable[k]
    BY <1>2 DEF TableInv
  <2>2. QED
    BY <1>1, <1>5, <2>1, FileFinished
<1>7. PlaceInv' /\ HandoverInv'
  <2>1. PlaceInv'
    BY <1>1, <1>2, <1>3, <1>6 DEF PlaceInv
  <2>2. HandoverInv'
    BY <1>1, <1>3 DEF HandoverInv
  <2>3. QED
    BY <2>1, <2>2
<1>8. HeldInv'
  BY <1>1, <1>2, <1>4, <1>6, EmptyHasNone DEF HeldInv
<1>9. CleanedInv'
  BY <1>1, <1>2, <1>6 DEF CleanedInv
<1>10. ListInv'
  <2>1. \A i \in 1..Len(sstables) :
          /\ sstables[i].name \in Loadable /\ sstables[i] = Reader(files', sstables[i].name)
          /\ sstables[i].name.id < new.id
    BY <1>2, <1>5, <1>6 DEF ListInv, Reader
  <2>2. \A i, j \in 1..Len(sstables) : i < j => sstables[i].name.id < sstables[j].name.id
    BY <1>2 DEF ListInv
  <2>3. PICK fs : fs = files'
    OBVIOUS
  <2>4. /\ \A i \in 1..Len(sstables') :
             /\ sstables'[i] = Reader(fs, sstables'[i].name)
             /\ sstables'[i].name = new \/ Listed(sstables'[i].name)
        /\ \A i, j \in 1..Len(sstables') :
             i < j => sstables'[i].name.id < sstables'[j].name.id
        /\ Listed(new)' /\ \A n : Listed(n) => Listed(n)'
    BY <1>1, <2>1, <2>2, <2>3, ListExtends
  <2>5. \A n : Listed(n) => n \in Loadable
    BY <1>2 DEF ListInv, Listed
  <2>6. \A n \in Loadable' : n.id < sstable_counter' /\ Listed(n)'
    <3>1. \A n \in Loadable : Listed(n)
      BY <1>2, <1>3 DEF ListInv, Uncollected, Unreported
    <3>2. QED
      BY <1>1, <1>5, <1>6, <2>4, <3>1
  <2>7. QED
    BY <1>1, <1>3, <1>6, <2>3, <2>4, <2>5, <2>6 DEF ListInv, Uncollected, Unreported
<1>11. \A k \in Keys : \A v \in Settled(k) : Backed(k, v)'
  <2> SUFFICES ASSUME NEW k \in Keys, NEW v \in Settled(k) PROVE Backed(k, v)'
    OBVIOUS
  <2>1. immutable_memtable[k] = 0 /\ v \in Nat /\ v # 0
    BY <1>3, EmptyHasNone DEF Settled, Live
  <2>2. v <= memtable[k] \/ Backed(k, v)
    BY <1>2, <2>1 DEF TableInv
  <2>3. QED
    BY <1>6, <2>2
<1>12. TableInv'
  BY <1>1, <1>3, <1>4, <1>11, EmptyHasNone DEF TableInv
<1>13. ShelterInv'
  <2> SUFFICES ASSUME NEW n \in DOMAIN segments, NEW v \in Ids(segments[n])
               PROVE  Backed(keyOf[v], v)'
    BY <1>1 DEF ShelterInv, Backed
  <2>1. v \in Settled(keyOf[v]) /\ keyOf[v] \in Keys
    BY <1>1, SegmentLive DEF Settled, InFlight
  <2>2. PICK k \in Keys : k = keyOf[v]
    BY <2>1
  <2>3. Backed(k, v)'
    BY <1>11, <2>1, <2>2
  <2>4. QED
    BY <1>1, <2>2, <2>3
<1>14. QED
  BY <1>1, <1>4, <1>6, <1>7, <1>8, <1>9, <1>10, <1>12, <1>13 DEF DurableInv, SettlesOne

\* The flush thread creates its file, which does not open yet.
LEMMA BeginFlushDurable ==
  ASSUME Context, BeginFlush PROVE DurableInv' /\ SettlesOne
<1>0. PICK new : new = Plain(Head(flush_tx).id)
  OBVIOUS
<1>1. /\ up /\ flush_tx # <<>> /\ writing' = TRUE /\ files' = Create(files, new)
      /\ UNCHANGED <<up, appended, lost, cleaned, segments, segment_number, memtable,
                     immutable_memtable, sstables, sstable_counter, flush_tx, flush_rx, pc,
                     resume, flushFaults, keyOf, acked>>
  BY <1>0 DEF BeginFlush, vars, memory, history, fileFaults
<1>2. /\ PlaceInv /\ HandoverInv /\ HeldInv /\ FilesInv /\ CleanedInv
      /\ ListInv /\ TableInv /\ ShelterInv
  BY <1>1 DEF Context, DurableInv
<1>3. \A k : Settled(k)' = Settled(k)
  BY <1>1, SameVersions DEF InFlight
<1>4. new = Plain(new.id) /\ new \notin Loadable
  <2>1. \A n \in Loadable : n.id \in Nat /\ n.id < Head(flush_tx).id
    BY <1>1, <1>2, ContextFacts DEF HandoverInv
  <2>2. new = Plain(new.id) /\ new.id = Head(flush_tx).id
    BY <1>0 DEF Plain
  <2>3. QED
    BY <2>1, <2>2
<1>5. Loadable' = Loadable /\ (\A n \in Loadable : files'[n] = files[n])
      /\ (\A n \in DOMAIN files' : n = Plain(n.id)) /\ new \in DOMAIN files'
  BY <1>1, <1>4, FileCreated
<1>6. (\A k, v : Backed(k, v)' <=> Backed(k, v)) /\ FilesInv'
  BY <1>2, <1>5, SameFiles
<1>7. PlaceInv' /\ HandoverInv'
  <2>1. PlaceInv'
    BY <1>1, <1>2, <1>5 DEF PlaceInv
  <2>2. HandoverInv'
    BY <1>0, <1>1, <1>2, <1>5 DEF HandoverInv
  <2>3. QED
    BY <2>1, <2>2
<1>8. HeldInv' /\ CleanedInv'
  BY <1>1, <1>2, <1>3, <1>5, <1>6 DEF HeldInv, CleanedInv
<1>9. ListInv' /\ TableInv' /\ ShelterInv'
  <2>1. ListInv'
    <3>1. \A n \in Loadable : Listed(n) \/ Uncollected(n)
      BY <1>1, <1>2 DEF ListInv, Unreported
    <3>2. \A n : (Listed(n)' <=> Listed(n)) /\ (Uncollected(n)' <=> Uncollected(n))
      BY <1>1 DEF Listed, Uncollected
    <3>3. \A i \in 1..Len(sstables) :
            sstables[i].name \in Loadable /\ sstables[i] = Reader(files', sstables[i].name)
      BY <1>2, <1>5 DEF ListInv, Reader
    <3>4. QED
      BY <1>1, <1>2, <1>5, <3>1, <3>2, <3>3 DEF ListInv
  <2>2. TableInv'
    BY <1>1, <1>2, <1>3, <1>5, <1>6 DEF TableInv
  <2>3. ShelterInv'
    BY <1>1, <1>2, <1>6 DEF ShelterInv
  <2>4. QED
    BY <2>1, <2>2, <2>3
<1>10. QED
  BY <1>3, <1>6, <1>7, <1>8, <1>9 DEF DurableInv, SettlesOne

\* The flush thread finishes its file: the immutable memtable is also in the newest
\* file that opens, which the list does not have yet.
LEMMA WrittenDurable ==
  ASSUME Context, up, writing, ~writing', flush_tx' = Tail(flush_tx),
         files' = Finish(files, Plain(Head(flush_tx).id), Head(flush_tx).table),
         flush_rx' = Append(flush_rx, Plain(Head(flush_tx).id)) \/ flush_rx' = flush_rx,
         UNCHANGED <<up, appended, lost, cleaned, segments, segment_number, memtable,
                     immutable_memtable, sstables, sstable_counter, pc, resume, keyOf, acked>>
  PROVE  DurableInv' /\ SettlesOne
<1>0. PICK new : new = Plain(Head(flush_tx).id)
  OBVIOUS
<1>1. /\ up /\ writing /\ ~writing' /\ flush_tx' = Tail(flush_tx)
      /\ UNCHANGED <<up, appended, lost, cleaned, segments, segment_number, memtable,
                     immutable_memtable, sstables, sstable_counter, pc, resume, keyOf, acked>>
  OBVIOUS
<1>2. /\ PlaceInv /\ HandoverInv /\ HeldInv /\ FilesInv /\ CleanedInv
      /\ ListInv /\ TableInv /\ ShelterInv
  BY <1>1 DEF Context, DurableInv
<1>3. /\ flush_tx # <<>> /\ new \in DOMAIN files /\ Len(flush_tx) = 1 /\ flush_rx = <<>>
      /\ Head(flush_tx).table = immutable_memtable /\ immutable_memtable # EmptyTable
      /\ Head(flush_tx).id < sstable_counter /\ Background
      /\ \A n \in Loadable : n.id < Head(flush_tx).id
  BY <1>0, <1>1, <1>2 DEF HandoverInv, PlaceInv
<1>4. /\ files' = Finish(files, new, immutable_memtable) /\ flush_tx' = <<>>
      /\ flush_rx' # <<>> => Len(flush_rx') = 1 /\ Head(flush_rx') = new
  <2>1. flush_tx \in Seq(Messages(appended))
    BY DEF Context, TypeInv
  <2>2. (flush_rx' = Append(<<>>, new) \/ flush_rx' = <<>>)
        /\ files' = Finish(files, new, immutable_memtable)
    BY <1>0, <1>3
  <2>3. QED
    BY <1>1, <1>3, <2>1, <2>2
<1>5. \A k : Settled(k)' = Settled(k)
  BY <1>1, SameVersions DEF InFlight
<1>6. /\ new.id = Head(flush_tx).id /\ new.id \in Nat /\ new = Plain(new.id)
      /\ \A n \in Loadable : n.id < new.id /\ n.id \in Nat
  <2>1. flush_tx \in Seq(Messages(appended))
    BY DEF Context, TypeInv
  <2>2. Head(flush_tx).id \in Nat
    <3>1. Head(flush_tx) \in Messages(appended)
      BY <1>3, <2>1, QueueParts
    <3>2. QED
      BY <3>1 DEF Messages
  <2>3. new.id = Head(flush_tx).id /\ new = Plain(new.id)
    BY <1>0 DEF Plain
  <2>4. QED
    BY <1>3, <2>2, <2>3, ContextFacts
<1>7. /\ Loadable' = Loadable \cup {new} /\ new \notin Loadable
      /\ \A n \in Loadable : files'[n] = files[n]
      /\ files'[new].data = immutable_memtable
      /\ \A k, v : Backed(k, v) => Backed(k, v)'
      /\ \A n \in DOMAIN files' : n = Plain(n.id)
      /\ FilesInv'
  <2>1. \A k \in Keys : immutable_memtable[k] # 0 =>
          \A n \in Loadable : files[n].data[k] <= immutable_memtable[k]
    BY <1>2 DEF TableInv
  <2>2. QED
    BY <1>4, <1>6, <2>1, FileFinished
<1>8. PlaceInv' /\ HandoverInv'
  <2>1. PlaceInv'
    BY <1>1, <1>2, <1>3, <1>7 DEF PlaceInv
  <2>2. \A n \in Loadable' : n.id <= new.id
    BY <1>6, <1>7
  <2>3. HandoverInv'
    BY <1>1, <1>3, <1>4, <1>7, <2>2 DEF HandoverInv
  <2>4. QED
    BY <2>1, <2>3
<1>9. HeldInv' /\ CleanedInv'
  <2>1. HeldInv'
    BY <1>1, <1>2, <1>5, <1>7 DEF HeldInv
  <2>2. CleanedInv'
    BY <1>1, <1>2, <1>7 DEF CleanedInv
  <2>3. QED
    BY <2>1, <2>2
<1>10. ListInv'
  <2>1. \A i \in 1..Len(sstables) :
          sstables[i].name \in Loadable /\ sstables[i] = Reader(files', sstables[i].name)
    BY <1>2, <1>7 DEF ListInv, Reader
  <2>2. ~Listed(new) /\ \A n \in Loadable : Listed(n)
    BY <1>2, <1>3, <1>7, <2>1 DEF ListInv, Listed, Uncollected, Unreported
  <2>3. \A n \in Loadable' : n.id < sstable_counter
    BY <1>2, <1>3, <1>6, <1>7 DEF ListInv
  <2>4. \A n : Listed(n)' <=> Listed(n)
    BY <1>1 DEF Listed
  <2>5. (\A n : Uncollected(n)' => n = new) /\ (Uncollected(new)' \/ Unreported(new)')
    BY <1>1, <1>3, <1>4, <1>7 DEF Uncollected, Unreported
  <2>6. QED
    BY <1>1, <1>2, <1>7, <2>1, <2>2, <2>3, <2>4, <2>5 DEF ListInv
<1>11. TableInv'
  <2> SUFFICES ASSUME NEW k \in Keys
               PROVE  /\ memtable[k] # 0 =>
                           \A n \in Loadable' : files'[n].data[k] <= memtable[k]
                      /\ immutable_memtable[k] # 0 =>
                           \A n \in Loadable' : files'[n].data[k] <= immutable_memtable[k]
    BY <1>1, <1>2, <1>5, <1>7 DEF TableInv
  <2>1. immutable_memtable[k] \in Nat
    BY ContextFacts DEF Tables
  <2>2. QED
    BY <1>2, <1>7, <2>1 DEF TableInv
<1>12. ShelterInv'
  BY <1>1, <1>2, <1>7 DEF ShelterInv
<1>13. QED
  BY <1>5, <1>7, <1>8, <1>9, <1>10, <1>11, <1>12 DEF DurableInv, SettlesOne

LEMMA EndFlushDurable ==
  ASSUME Context, EndFlush PROVE DurableInv' /\ SettlesOne
<1>1. Plain(Head(flush_tx).id) \in DOMAIN files
  BY DEF EndFlush, Context, DurableInv, HandoverInv
<1>2. QED
  BY <1>1, WrittenDurable DEF EndFlush, vars, memory, history

\* The flush thread fails: the memtable stays immutable for good, and the log is not
\* cleaned up.
LEMMA FlushThreadFailsDurable ==
  ASSUME Context, FlushThreadFails PROVE DurableInv' /\ SettlesOne
<1>0. SUFFICES ASSUME files' = files PROVE DurableInv' /\ SettlesOne
  BY WrittenDurable DEF FlushThreadFails, vars, memory, history
<1>1. /\ up /\ flush_tx # <<>> /\ writing' = FALSE /\ flush_tx' = Tail(flush_tx)
      /\ UNCHANGED <<up, appended, lost, cleaned, segments, segment_number, memtable,
                     immutable_memtable, sstables, sstable_counter, flush_rx, pc,
                     resume, files, keyOf, acked>>
  BY <1>0 DEF FlushThreadFails, vars, memory, history
<1>2. /\ PlaceInv /\ HandoverInv /\ HeldInv /\ FilesInv /\ CleanedInv
      /\ ListInv /\ TableInv /\ ShelterInv
  BY <1>1 DEF Context, DurableInv
<1>3. flush_tx' = <<>> /\ flush_rx = <<>> /\ immutable_memtable # EmptyTable /\ Background
  <2>1. flush_tx \in Seq(Messages(appended)) /\ flush_tx # <<>> /\ Len(flush_tx) = 1
    BY <1>1, <1>2 DEF Context, TypeInv, HandoverInv
  <2>2. QED
    BY <1>1, <1>2, <2>1 DEF HandoverInv, PlaceInv
<1>4. \A k : Settled(k)' = Settled(k)
  BY <1>1, SameVersions DEF InFlight
<1>5. Loadable' = Loadable /\ (\A k, v : Backed(k, v)' <=> Backed(k, v)) /\ FilesInv'
  <2>1. Loadable' = Loadable
    BY <1>1 DEF Loadable, Opens
  <2>2. QED
    BY <1>1, <1>2, <2>1, SameFiles
<1>6. PlaceInv' /\ HandoverInv'
  <2>1. PlaceInv'
    BY <1>1, <1>2, <1>3 DEF PlaceInv
  <2>2. HandoverInv'
    BY <1>1, <1>3 DEF HandoverInv
  <2>3. QED
    BY <2>1, <2>2
<1>7. HeldInv' /\ CleanedInv'
  BY <1>1, <1>2, <1>4, <1>5 DEF HeldInv, CleanedInv
<1>8. ListInv' /\ TableInv' /\ ShelterInv'
  <2>1. ListInv'
    BY <1>1, <1>2, <1>5 DEF ListInv, Listed, Uncollected, Unreported, Reader
  <2>2. TableInv'
    BY <1>1, <1>2, <1>4, <1>5 DEF TableInv
  <2>3. ShelterInv'
    BY <1>1, <1>2, <1>5 DEF ShelterInv
  <2>4. QED
    BY <2>1, <2>2, <2>3
<1>9. QED
  BY <1>4, <1>5, <1>6, <1>7, <1>8 DEF DurableInv, SettlesOne

\* The process ends: the files that open are the same, and a put under way has
\* settled, for its record is in the log.
LEMMA EndDurable ==
  ASSUME Context, CrashEngine \/ StopEngine PROVE DurableInv' /\ SettlesOne
<1>1. /\ up /\ ~up' /\ ForgetEngine
      /\ UNCHANGED <<appended, lost, cleaned, keyOf, acked, flushFaults>>
      /\ \/ files' = files
         \/ pc = "sync" /\ files' = Create(files, Plain(sstable_counter))
  <2>1. CASE CrashEngine
    <3>1. PICK cut \in CutWrites(buffer) : lost' = lost \cup (Ids(buffer) \ Ids(cut))
      BY <2>1 DEF CrashEngine, Crash
    <3>2. Ids(buffer) = {}
      BY ContextFacts, BufferItems
    <3>3. lost' = lost
      BY <3>1, <3>2
    <3>4. pc # "merge"
      BY DEF Context, DurableInv, PlaceInv
    <3>5. QED
      BY <2>1, <3>3, <3>4 DEF CrashEngine, Crash, Forget, fileFaults
  <2>2. CASE StopEngine
    BY <2>2 DEF StopEngine, Shutdown, Forget, history, fileFaults
  <2>3. QED
    BY <2>1, <2>2
<1>2. PlaceInv /\ HandoverInv /\ HeldInv /\ FilesInv /\ CleanedInv /\ ListInv /\ TableInv
  BY <1>1 DEF Context, DurableInv
<1>3. /\ Loadable' = Loadable /\ \A n \in Loadable : files'[n] = files[n]
      /\ \A n \in DOMAIN files' : n = Plain(n.id)
  <2>1. CASE files' = files
    BY <1>2, <2>1 DEF Loadable, Opens, PlaceInv
  <2>2. CASE files' = Create(files, Plain(sstable_counter))
    <3>1. PICK new : new = Plain(sstable_counter)
      OBVIOUS
    <3>2. new.id = sstable_counter /\ new = Plain(new.id)
      BY <3>1 DEF Plain
    <3>3. \A n \in Loadable : n.id \in Nat /\ n.id < sstable_counter
      BY <1>2, ContextFacts DEF ListInv
    <3>4. new \notin Loadable
      BY <3>2, <3>3
    <3>5. QED
      BY <2>2, <3>1, <3>2, <3>4, FileCreated
  <2>3. QED
    BY <1>1, <2>1, <2>2
<1>4. (\A k, v : Backed(k, v)' <=> Backed(k, v)) /\ FilesInv'
  BY <1>2, <1>3, SameFiles
<1>5. SettlesOne /\ \A k : Settled(k) \subseteq Settled(k)'
  <2>1. ~InFlight'
    BY <1>1 DEF ForgetEngine, InFlight
  <2>2. CASE InFlight
    BY <1>1, <2>1, <2>2, InFlightSettles
  <2>3. CASE ~InFlight
    BY <1>1, <2>1, <2>3, SameVersions DEF SettlesOne
  <2>4. QED
    BY <2>2, <2>3
<1>6. PlaceInv' /\ HandoverInv'
  <2>1. PlaceInv'
    BY <1>1, <1>2, <1>3 DEF PlaceInv, ForgetEngine
  <2>2. HandoverInv'
    BY <1>1 DEF HandoverInv, ForgetEngine
  <2>3. QED
    BY <2>1, <2>2
<1>7. HeldInv'
  BY <1>1, <1>2, <1>3, <1>5 DEF HeldInv, ForgetEngine, EmptyTable
<1>8. CleanedInv'
  BY <1>1, <1>2, <1>4 DEF CleanedInv
<1>9. QED
  BY <1>1, <1>4, <1>5, <1>6, <1>7, <1>8 DEF DurableInv

\* Every calm step of the engine keeps the invariant and settles at most one version.
LEMMA DurableNext ==
  ASSUME Context, LogInv', TornInv', TightInv', [EngineNext]_evars, CalmStep
  PROVE  DurableInv' /\ SettlesOne
<1>1. pc \notin {"compact", "merge", "delete"}
  BY DEF Context, DurableInv, PlaceInv
<1>2. ~(SkipCompaction \/ SelectInputs \/ Merge \/ MergeFails \/ DeleteInput)
  BY <1>1 DEF SkipCompaction, SelectInputs, Merge, MergeFails, DeleteInput
<1>3. ~GiveUpWaiting
  BY DEF GiveUpWaiting, CalmStep
<1>4. QED
  BY <1>2, <1>3, OpenDurable, PutAppendDurable, PlaceDurable, CleanDurable, InsertDurable,
     CollectDurable, SwapDurable, SyncFlushDurable, BeginFlushDurable, EndFlushDurable,
     FlushThreadFailsDurable, EndDurable DEF EngineNext, PutStep, FlushThread

------------------------------------------------------------------------------
(* What get answers, and what a restart brings back *)

\* get answers with the newest settled version.
LEMMA GetNewest ==
  ASSUME Context, up, NEW k \in Keys
  PROVE  Get(k) \in {0} \cup Settled(k) /\ \A v \in Settled(k) : v <= Get(k)
<1>1. /\ HeldInv /\ FilesInv /\ ListInv /\ TableInv /\ HandoverInv
      /\ memtable[k] \in Nat /\ immutable_memtable[k] \in Nat
      /\ \A n \in Loadable : files[n].data[k] \in Nat
      /\ \A v \in Settled(k) : v \in Nat /\ v # 0
  BY ContextFacts DEF Context, DurableInv, Tables, Settled, Live
<1>2. ASSUME NEW i \in 1..Len(sstables)
      PROVE  sstables[i].name \in Loadable /\ sstables[i].data = files[sstables[i].name].data
  <2>1. sstables[i].name \in Loadable /\ sstables[i] = Reader(files, sstables[i].name)
    BY <1>1 DEF ListInv
  <2>2. \A n : Reader(files, n).data = files[n].data
    BY DEF Reader
  <2>3. QED
    BY <2>1, <2>2
<1>3. ASSUME immutable_memtable[k] = 0, NEW n \in Loadable, files[n].data[k] # 0
      PROVE  \E i \in Hits(k) : sstables[i].name = n /\ sstables[i].data = files[n].data
  <2>1. ~Uncollected(n) /\ ~Unreported(n)
    BY <1>1, <1>3 DEF HandoverInv, Uncollected, Unreported
  <2>2. PICK i \in 1..Len(sstables) : sstables[i].name = n
    BY <1>1, <1>3, <2>1 DEF ListInv, Listed
  <2>3. QED
    BY <1>2, <1>3, <2>2 DEF Hits
<1>4. CASE memtable[k] # 0
  <2>1. Get(k) = memtable[k]
    BY <1>4 DEF Get
  <2>2. ASSUME NEW v \in Settled(k) PROVE v <= memtable[k]
    <3>1. v <= memtable[k] \/ v <= immutable_memtable[k]
          \/ \E n \in Loadable : v <= files[n].data[k]
      BY <1>1 DEF TableInv, Backed
    <3>2. /\ immutable_memtable[k] <= memtable[k]
          /\ \A n \in Loadable : files[n].data[k] <= memtable[k]
      BY <1>1, <1>4 DEF TableInv
    <3>3. QED
      BY <1>1, <3>1, <3>2
  <2>3. QED
    BY <1>1, <2>1, <2>2 DEF HeldInv
<1>5. CASE memtable[k] = 0 /\ immutable_memtable[k] # 0
  <2>1. Get(k) = immutable_memtable[k]
    BY <1>5 DEF Get
  <2>2. ASSUME NEW v \in Settled(k) PROVE v <= immutable_memtable[k]
    <3>1. v <= immutable_memtable[k] \/ \E n \in Loadable : v <= files[n].data[k]
      BY <1>1, <1>5 DEF TableInv, Backed
    <3>2. \A n \in Loadable : files[n].data[k] <= immutable_memtable[k]
      BY <1>1, <1>5 DEF TableInv
    <3>3. QED
      BY <1>1, <3>1, <3>2
  <2>3. QED
    BY <1>1, <2>1, <2>2 DEF HeldInv
<1>6. ASSUME memtable[k] = 0, immutable_memtable[k] = 0, NEW v \in Settled(k)
      PROVE  \E i \in Hits(k) : v <= sstables[i].data[k]
  <2>1. PICK n \in Loadable : v <= files[n].data[k]
    BY <1>1, <1>6 DEF TableInv, Backed
  <2>2. files[n].data[k] # 0
    BY <1>1, <2>1
  <2>3. QED
    BY <1>3, <1>6, <2>1, <2>2
<1>7. CASE memtable[k] = 0 /\ immutable_memtable[k] = 0 /\ Hits(k) = {}
  <2>1. Get(k) = 0
    BY <1>7 DEF Get
  <2>2. QED
    BY <1>6, <1>7, <2>1
<1>8. CASE memtable[k] = 0 /\ immutable_memtable[k] = 0 /\ Hits(k) # {}
  <2> DEFINE last == Max(Hits(k))
  <2>1. last \in Hits(k) /\ \A i \in Hits(k) : last >= i
    <3>1. sstables \in Seq(Readers(appended))
      BY DEF Context, TypeInv
    <3>2. Len(sstables) \in Nat
      BY <3>1
    <3>3. Hits(k) \in SUBSET (1..Len(sstables)) /\ IsFiniteSet(1..Len(sstables))
      BY <3>2, FS_Interval DEF Hits
    <3>4. IsFiniteSet(Hits(k)) /\ Hits(k) \subseteq Nat
      BY <3>3, FS_Subset
    <3>5. QED
      BY <1>8, <3>4, MaxType
  <2> HIDE DEF last
  <2>2. Get(k) = sstables[last].data[k]
    BY <1>8 DEF Get, last
  <2>3. /\ last \in 1..Len(sstables) /\ sstables[last].data[k] # 0
        /\ sstables[last].name \in Loadable
        /\ sstables[last].data = files[sstables[last].name].data
    BY <1>2, <2>1 DEF Hits
  <2>4. Get(k) \in Settled(k)
    BY <1>1, <2>2, <2>3 DEF HeldInv
  <2>5. ASSUME NEW i \in Hits(k) PROVE sstables[i].data[k] <= Get(k)
    <3>1. /\ i \in 1..Len(sstables) /\ sstables[i].name \in Loadable
          /\ sstables[i].data = files[sstables[i].name].data
      BY <1>2 DEF Hits
    <3>2. i = last \/ i < last
      BY <2>1, <2>3, <3>1
    <3>3. CASE i = last
      BY <1>1, <2>2, <2>3, <3>3
    <3>4. CASE i < last
      <4>1. sstables[i].name.id < sstables[last].name.id
        BY <1>1, <2>3, <3>1, <3>4 DEF ListInv
      <4>2. QED
        BY <1>1, <2>2, <2>3, <3>1, <4>1 DEF FilesInv
    <3>5. QED
      BY <3>2, <3>3, <3>4
  <2>6. ASSUME NEW v \in Settled(k) PROVE v <= Get(k)
    <3>1. PICK i \in Hits(k) : v <= sstables[i].data[k]
      BY <1>6, <1>8
    <3>2. sstables[i].data[k] <= Get(k) /\ sstables[i].data[k] \in Nat
      BY <1>1, <1>2, <2>5 DEF Hits
    <3>3. QED
      BY <1>1, <2>4, <3>1, <3>2
  <2>7. QED
    BY <2>4, <2>6
<1>9. QED
  BY <1>1, <1>4, <1>5, <1>7, <1>8

\* A restart brings back the newest version the log took, of those whose record
\* was complete; and there is something to come back.
LEMMA RestartNewest ==
  ASSUME Context, NEW k \in Keys
  PROVE  /\ OnDisk(k) # {}
         /\ \A r \in OnDisk(k) :
              r \in {0} \cup Live(k) /\ \A v \in Live(k) : v <= r
<1>1. /\ HeldInv /\ FilesInv /\ CleanedInv /\ appended \in Nat
      /\ \A n \in Loadable : files[n].data[k] \in {0} \cup Live(k)
      /\ \A n \in Loadable : n.id \in Nat /\ n = Plain(n.id) /\ files[n].data[k] \in Nat
      /\ \A v \in Live(k) : v \in Nat /\ v # 0
  BY ContextFacts DEF Context, DurableInv, HeldInv, Tables, Settled, Live
<1> DEFINE replayed == Replay([n \in DOMAIN segments |-> Entries(segments[n])], k)
           holders == {n \in Loadable : files[n].data[k] # 0}
           newest == {n \in holders : \A m \in holders : SortKey(m) <= SortKey(n)}
<1>2. /\ replayed \in {0} \cup Live(k)
      /\ \A v \in Live(k) : v <= replayed \/ v \in cleaned
      /\ replayed # 0 => \A v \in cleaned : v < replayed
  <2>1. Directory(segments) /\ Ordered(segments) /\ Past(segments)
    BY LogInvDirectory DEF Context
  <2>2. Tight(segments, lost, cleaned) /\ AllTornLast(segments) /\ buffer = <<>>
    BY DEF Context, TightInv, TornInv
  <2>3. 1..appended \subseteq lost \cup cleaned \cup Stored(segments)
    BY <2>2, LogInvDirectory, BufferItems DEF Context
  <2>4. replayed = ReplayOf(segments, k)
    BY DEF ReplayOf
  <2>5. QED
    BY <1>1, <2>1, <2>2, <2>3, <2>4, ReplayFacts
<1>3. OnDisk(k) = IF replayed # 0 THEN {replayed}
                       ELSE IF holders = {} THEN {0}
                       ELSE {files[n].data[k] : n \in newest}
  BY DEF OnDisk
<1> HIDE DEF replayed
<1>4. CASE replayed # 0
  <2>1. \A v \in Live(k) : v <= replayed
    BY <1>1, <1>2, <1>4
  <2>2. QED
    BY <1>2, <1>3, <1>4, <2>1
<1>5. ASSUME replayed = 0, NEW v \in Live(k) PROVE \E n \in holders : v <= files[n].data[k]
  <2>1. v \in cleaned /\ keyOf[v] = k
    BY <1>1, <1>2, <1>5 DEF Live
  <2>2. PICK n \in Loadable : v <= files[n].data[k]
    BY <1>1, <2>1 DEF CleanedInv, Backed
  <2>3. QED
    BY <1>1, <2>2
<1>6. CASE replayed = 0 /\ holders = {}
  BY <1>3, <1>5, <1>6
<1>7. CASE replayed = 0 /\ holders # {}
  <2>1. \A n, m \in holders : SortKey(m) <= SortKey(n) <=> m.id <= n.id
    BY <1>1 DEF SortKey, Plain
  <2>2. newest # {}
    <3> DEFINE f == [n \in holders |-> n.id]
               numbers == {f[n] : n \in holders}
    <3>1. IsFiniteSet(holders)
      <4>1. holders \in SUBSET Loadable
        OBVIOUS
      <4>2. IsFiniteSet(Loadable)
        BY <1>1, LoadableFinite DEF Context, TypeInv
      <4> HIDE DEF holders
      <4>3. QED
        BY <4>1, <4>2, FS_Subset
    <3>2. numbers # {} /\ numbers \subseteq Nat
      BY <1>1, <1>7
    <3>3. IsFiniteSet(numbers)
      <4> HIDE DEF holders
      <4>1. DOMAIN f = holders
        OBVIOUS
      <4> HIDE DEF f
      <4>2. QED
        BY <3>1, <4>1, FiniteImage
    <3>4. PICK x \in numbers : \A y \in numbers : x >= y
      <4> HIDE DEF numbers
      <4>1. QED
        BY <3>2, <3>3, FiniteNatMax
    <3>5. PICK n \in holders : n.id = x
      BY <3>4
    <3>6. \A m \in holders : m.id <= n.id
      BY <1>1, <3>4, <3>5
    <3>7. QED
      BY <2>1, <3>5, <3>6
  <2>3. ASSUME NEW n \in newest
        PROVE  /\ files[n].data[k] \in Live(k)
               /\ \A v \in Live(k) : v <= files[n].data[k]
    <3>1. /\ n \in Loadable /\ files[n].data[k] # 0
          /\ \A m \in holders : m.id <= n.id /\ m \in Loadable
      BY <2>1
    <3>2. ASSUME NEW v \in Live(k) PROVE v <= files[n].data[k]
      <4>1. PICK m \in holders : v <= files[m].data[k]
        BY <1>5, <1>7
      <4>2. m = n \/ m.id < n.id
        <5>1. m.id = n.id => m = n
          BY <1>1, <3>1
        <5>2. QED
          BY <1>1, <3>1, <5>1
      <4>3. files[m].data[k] <= files[n].data[k]
        BY <1>1, <3>1, <4>2 DEF FilesInv
      <4>4. QED
        BY <1>1, <3>1, <4>1, <4>3
    <3>3. QED
      BY <1>1, <3>1, <3>2
  <2> HIDE DEF newest, holders
  <2>4. OnDisk(k) = {files[n].data[k] : n \in newest}
    BY <1>3, <1>7
  <2>5. OnDisk(k) # {}
    BY <2>2, <2>4
  <2>6. ASSUME NEW r \in OnDisk(k)
        PROVE  r \in {0} \cup Live(k) /\ \A v \in Live(k) : v <= r
    <3>1. PICK n \in newest : r = files[n].data[k]
      BY <2>4
    <3>2. QED
      BY <2>3, <3>1
  <2>7. QED
    BY <2>5, <2>6
<1>8. QED
  BY <1>4, <1>6, <1>7

------------------------------------------------------------------------------
(* Every reachable state *)

\* The engine, in behaviours that are calm
CalmSpec == EngineSpec /\ [][CalmStep]_evars

\* The invariants of log and engine together, in every calm behaviour
LEMMA EngineDurable ==
  CalmSpec => [](Reliable => Context) /\ [][Reliable => SettlesOne]_evars
<1> DEFINE Inv == TornInv /\ TypeInv /\ (Reliable => TightInv /\ DurableInv)
<1>1. EngineInit => Inv
  <2>1. EngineInit => Init
    BY DEF EngineInit
  <2>2. QED
    BY <2>1, TornInit, TightInit, TypeInit, DurableInit
<1>2. LogInv /\ Inv => (Reliable => Context)
  BY DEF Context, Reliable
<1>3. LogInv /\ LogInv' /\ Inv /\ [EngineNext]_evars /\ [CalmStep]_evars
        => Inv' /\ [Reliable => SettlesOne]_evars
  <2> SUFFICES ASSUME LogInv, LogInv', Inv, [EngineNext]_evars, [CalmStep]_evars
               PROVE  Inv' /\ [Reliable => SettlesOne]_evars
    OBVIOUS
  <2>1. TornInv'
    BY EngineStepUsesWal, TornNext
  <2>2. TypeInv'
    BY TypeNext
  <2>3. CalmStep
    BY DEF CalmStep, evars, vars, memory, volatile
  <2>4. ASSUME Reliable PROVE TightInv' /\ DurableInv' /\ SettlesOne
    <3>1. Context
      BY <1>2, <2>4
    <3>2. TightInv'
      BY <2>4, EngineStepUsesWal, TightNext DEF Reliable
    <3>3. QED
      BY <2>1, <2>3, <3>1, <3>2, DurableNext
  <2>5. (Reliable => TightInv /\ DurableInv)'
    BY <2>4 DEF Reliable, WrittenThrough
  <2>6. QED
    BY <2>1, <2>2, <2>4, <2>5
<1>4. QED
  BY <1>1, <1>2, <1>3, EngineKeepsLog, PTL DEF EngineSpec, CalmSpec

------------------------------------------------------------------------------
(* The properties *)

\* What was acknowledged is settled.
LEMMA AckedSettled ==
  ASSUME Context, NEW k \in Keys
  PROVE  /\ acked[k] \in {0} \cup Settled(k) /\ acked[k] \in Nat
         /\ \A v \in Settled(k) : v \in Live(k) /\ v \in Nat /\ v # 0 /\ keyOf[v] = k
BY ContextFacts DEF Context, DurableInv, HeldInv, Settled, Live

\* get never answers with an older version than the last acknowledged put, for
\* any number of keys, puts, flushes, crashes and restarts, whether the tables are
\* flushed by the put or in the background, fast, slowly or in vain.
THEOREM ReadsItsWrites == CalmSpec => [](Reliable => ReadsLatest)
<1>1. (Reliable => Context) => (Reliable => ReadsLatest)
  <2> SUFFICES ASSUME Context, up, NEW k \in Keys, NEW v \in Acknowledged(k)
               PROVE  Get(k) >= v
    BY DEF ReadsLatest
  <2>1. Get(k) \in {0} \cup Settled(k) /\ \A w \in Settled(k) : w <= Get(k)
    BY GetNewest
  <2>2. QED
    BY <2>1, AckedSettled DEF Acknowledged
<1>2. QED
  BY <1>1, EngineDurable, PTL

\* At whatever step the process dies, between the append and the insert, while the
\* flush thread writes, between the flush and the cleanup of the log, or during
\* the recovery itself, a restart that opens brings back every acknowledged put.
\* A crash inside a record's payload leaves a log that does not open: that is what
\* OpensAfterCrash of module Wal is about.
THEOREM SurvivesEveryCrash == CalmSpec => [](Reliable => SurvivesCrash)
<1>1. (Reliable => Context) => (Reliable => SurvivesCrash)
  <2> SUFFICES ASSUME Context, NEW k \in Keys, NEW r \in OnDisk(k), NEW w \in Acknowledged(k)
               PROVE  r >= w
    BY DEF SurvivesCrash, Recoverable
  <2>1. r \in {0} \cup Live(k) /\ \A v \in Live(k) : v <= r
    BY RestartNewest
  <2>2. r \in Nat
    BY <2>1, ContextFacts DEF Live
  <2>3. QED
    BY <2>1, <2>2, AckedSettled DEF Acknowledged
<1>2. QED
  BY <1>1, EngineDurable, PTL

\* The cleanup after a flush deletes the log record of an acknowledged value
\* only once a complete SSTable has it, or a newer value of the key, although the
\* flush point is read long after the memtable was frozen.
THEOREM CleanupKeepsUnflushed == CalmSpec => [](Reliable => LogKeepsUnflushed)
<1>1. (Reliable => Context) => (Reliable => LogKeepsUnflushed)
  <2> SUFFICES ASSUME Context, NEW k \in Keys, acked[k] \in cleaned
               PROVE  \E n \in Loadable : files[n].data[k] >= acked[k]
    BY DEF LogKeepsUnflushed
  <2>1. acked[k] # 0
    BY ContextFacts
  <2>2. keyOf[acked[k]] = k
    BY <2>1, AckedSettled
  <2>3. PICK n \in Loadable : acked[k] <= files[n].data[k]
    BY <2>2 DEF Context, DurableInv, CleanedInv, Backed
  <2>4. files[n].data[k] \in Nat
    BY ContextFacts DEF Tables
  <2>5. QED
    BY <2>3, <2>4, AckedSettled
<1>2. QED
  BY <1>1, EngineDurable, PTL

\* The list get walks from its end is ordered from old to new, whether its
\* tables were flushed by this process or loaded by a restart.
THEOREM ListFromOldToNew == CalmSpec => [](Reliable => NewestToOldest)
<1>1. (Reliable => Context) => (Reliable => NewestToOldest)
  <2> SUFFICES ASSUME Context, NEW i \in 1..Len(sstables), NEW j \in 1..Len(sstables), i < j,
                      NEW k \in Keys, sstables[j].data[k] # 0
               PROVE  sstables[i].data[k] <= sstables[j].data[k]
    BY DEF NewestToOldest
  <2>1. up
    <3>1. Len(<<>>) = 0 /\ ~(0 >= 1)
      OBVIOUS
    <3>2. ~up => sstables = <<>>
      BY DEF Context, DurableInv, PlaceInv
    <3>3. Len(sstables) # 0
      OBVIOUS
    <3>4. QED
      BY <3>1, <3>2, <3>3
  <2>2. ListInv /\ FilesInv
    BY <2>1 DEF Context, DurableInv
  <2>3. /\ sstables[i] = Reader(files, sstables[i].name) /\ sstables[i].name \in Loadable
        /\ sstables[j] = Reader(files, sstables[j].name) /\ sstables[j].name \in Loadable
        /\ sstables[i].name.id < sstables[j].name.id
    BY <2>2 DEF ListInv
  <2>4. \A n : Reader(files, n).data = files[n].data
    BY DEF Reader
  <2>5. /\ sstables[i].data = files[sstables[i].name].data
        /\ sstables[j].data = files[sstables[j].name].data
    BY <2>3, <2>4
  <2>6. QED
    BY <2>2, <2>3, <2>5 DEF FilesInv
<1>2. QED
  BY <1>1, EngineDurable, PTL

\* Timestamps are in the order of the versions, however many fall in a second.
LEMMA SecondsInOrder ==
  ASSUME NEW v \in Nat, NEW w \in Nat, v <= w
  PROVE  Second(v) \in Nat /\ Second(w) \in Nat /\ Second(v) <= Second(w)
<1>1. PutsPerSecond \in Nat /\ PutsPerSecond > 0
  BY EngineAssumption
<1>2. QED
  BY <1>1 DEF Second

\* scan goes by the timestamps and get by the order of the tables: both return a
\* version of the newest second there is, if there is one.
LEMMA ScanNewest ==
  ASSUME Context, up, NEW k \in Keys
  PROVE  Second(Scan(k)) = Second(Get(k)) /\ (Scan(k) = 0 <=> Get(k) = 0)
<1> DEFINE found == Sources(k)
           rows == [i \in DOMAIN sstables |-> sstables[i].data[k]]
           first == {i \in Found(k) : \A j \in Found(k) :
                       \/ Second(found[j]) < Second(found[i])
                       \/ Second(found[j]) = Second(found[i]) /\ i <= j}
           answering == {i \in Found(k) : Second(found[i]) = Second(Get(k))}
<1>1. Scan(k) = IF first = {} THEN 0 ELSE found[Max(first)]
  BY DEF Scan
<1>2. /\ Get(k) \in {0} \cup Settled(k) /\ \A v \in Settled(k) : v <= Get(k)
      /\ \A v \in Settled(k) : v \in Nat /\ v # 0
  BY GetNewest, ContextFacts DEF Settled, Live
<1>3. /\ memtable[k] \in {0} \cup Settled(k) /\ immutable_memtable[k] \in {0} \cup Settled(k)
      /\ \A i \in 1..Len(sstables) : sstables[i].data[k] \in {0} \cup Settled(k)
  <2>1. HeldInv /\ ListInv
    BY DEF Context, DurableInv
  <2>2. ASSUME NEW i \in 1..Len(sstables)
        PROVE  sstables[i].data[k] \in {0} \cup Settled(k)
    <3>1. sstables[i].name \in Loadable /\ sstables[i] = Reader(files, sstables[i].name)
      BY <2>1 DEF ListInv
    <3>2. \A n : Reader(files, n).data = files[n].data
      BY DEF Reader
    <3>3. QED
      BY <2>1, <3>1, <3>2 DEF HeldInv
  <2>3. QED
    BY <2>1, <2>2 DEF HeldInv
<1>4. /\ Len(sstables) \in Nat /\ DOMAIN found = 1..(2 + Len(sstables))
      /\ found[1] = memtable[k] /\ found[2] = immutable_memtable[k]
      /\ \A i \in 1..Len(sstables) : found[2 + i] = sstables[i].data[k]
  <2>1. sstables \in Seq(Readers(appended))
    BY DEF Context, TypeInv
  <2>2. Len(sstables) \in Nat /\ DOMAIN sstables = 1..Len(sstables)
    BY <2>1
  <2>3. /\ rows \in Seq({0} \cup Settled(k)) /\ Len(rows) = Len(sstables)
        /\ \A i \in 1..Len(sstables) : rows[i] = sstables[i].data[k]
    BY <1>3, <2>2
  <2>4. found = <<memtable[k], immutable_memtable[k]>> \o rows
    BY DEF Sources
  <2> HIDE DEF rows, found
  <2>5. <<memtable[k], immutable_memtable[k]>> \in Seq({0} \cup Settled(k))
    BY <1>3
  <2>6. QED
    BY <2>2, <2>3, <2>4, <2>5
<1>5. /\ Found(k) = {i \in 1..(2 + Len(sstables)) : found[i] # 0}
      /\ \A i \in Found(k) : found[i] \in Settled(k)
  <2>1. Found(k) = {i \in 1..(2 + Len(sstables)) : found[i] # 0}
    BY <1>4 DEF Found
  <2>2. \A i \in 1..(2 + Len(sstables)) :
          i = 1 \/ i = 2 \/ \E j \in 1..Len(sstables) : i = 2 + j
    <3>1. ASSUME NEW i \in 1..(2 + Len(sstables)), i # 1, i # 2
          PROVE  i - 2 \in 1..Len(sstables) /\ i = 2 + (i - 2)
      BY <1>4, <3>1
    <3>2. QED
      BY <3>1
  <2> HIDE DEF found
  <2>3. QED
    BY <1>3, <1>4, <2>1, <2>2
<1>6. Get(k) # 0 => answering # {}
  <2> SUFFICES ASSUME Get(k) # 0 PROVE \E i \in Found(k) : found[i] = Get(k)
    OBVIOUS
  <2> HIDE DEF found
  <2>1. CASE Get(k) = memtable[k]
    BY <1>4, <1>5, <2>1
  <2>2. CASE Get(k) = immutable_memtable[k]
    BY <1>4, <1>5, <2>2
  <2>3. CASE Hits(k) # {} /\ Get(k) = sstables[Max(Hits(k))].data[k]
    <3>1. Max(Hits(k)) \in Hits(k)
      <4>1. Hits(k) \in SUBSET (1..Len(sstables)) /\ IsFiniteSet(1..Len(sstables))
        BY <1>4, FS_Interval DEF Hits
      <4>2. IsFiniteSet(Hits(k)) /\ Hits(k) \subseteq Nat
        BY <4>1, FS_Subset
      <4>3. QED
        BY <2>3, <4>2, MaxType
    <3>2. PICK i \in 1..Len(sstables) : Get(k) = sstables[i].data[k]
      BY <2>3, <3>1 DEF Hits
    <3>3. 2 + i \in 1..(2 + Len(sstables)) /\ found[2 + i] = Get(k)
      BY <1>4, <3>2
    <3>4. QED
      BY <1>5, <3>3
  <2>4. QED
    BY <2>1, <2>2, <2>3 DEF Get
<1>7. CASE Get(k) = 0
  <2>1. Found(k) = {}
    BY <1>2, <1>5, <1>7
  <2>2. QED
    BY <1>1, <1>7, <2>1
<1>8. CASE Get(k) # 0
  <2>1. Found(k) \subseteq Nat /\ IsFiniteSet(Found(k))
    <3>1. Found(k) \in SUBSET (1..(2 + Len(sstables))) /\ IsFiniteSet(1..(2 + Len(sstables)))
      BY <1>4, <1>5, FS_Interval
    <3>2. QED
      BY <3>1, FS_Subset
  <2>2. PICK p \in answering : \A q \in answering : p <= q
    <3>1. answering \subseteq Nat /\ IsFiniteSet(answering)
      BY <2>1, FS_Subset
    <3>2. QED
      BY <1>6, <1>8, <3>1, FiniteNatMin
  <2>3. Get(k) \in Nat
    BY <1>2
  <2>4. ASSUME NEW i \in Found(k)
        PROVE  /\ Second(found[i]) \in Nat /\ Second(Get(k)) \in Nat
               /\ Second(found[i]) <= Second(Get(k))
    <3>1. found[i] \in Nat /\ found[i] <= Get(k)
      BY <1>2, <1>5
    <3>2. QED
      BY <2>3, <3>1, SecondsInOrder
  <2>5. p \in first
    BY <2>1, <2>2, <2>4
  <2>6. \A i \in first : i = p
    <3> SUFFICES ASSUME NEW i \in first PROVE i = p
      OBVIOUS
    <3>1. i \in Found(k) /\ p \in Found(k) /\ Second(found[p]) = Second(Get(k))
      BY <2>2
    <3>2. Second(found[i]) = Second(Get(k)) /\ i <= p
      BY <2>4, <3>1
    <3>3. p <= i
      BY <2>2, <3>1, <3>2
    <3>4. QED
      BY <2>1, <3>1, <3>2, <3>3
  <2>7. Max(first) = p
    <3>1. first = {p} /\ IsFiniteSet({p}) /\ {p} \subseteq Nat
      BY <2>1, <2>2, <2>5, <2>6, FS_Singleton
    <3>2. Max({p}) \in {p}
      BY <3>1, MaxType
    <3>3. QED
      BY <3>1, <3>2
  <2>8. Scan(k) = found[p] /\ found[p] # 0
    BY <1>1, <1>5, <2>2, <2>5, <2>7
  <2>9. QED
    BY <1>8, <2>2, <2>8
<1>9. QED
  BY <1>7, <1>8

\* scan and get find the same keys and versions of the same second, whatever is in
\* the memtable, with the flush thread or in the files, however many puts fall in a
\* second, after any rotation, crash or restart.
THEOREM ScanAgreesWithGet == CalmSpec => [](Reliable => ScanAgrees)
<1>1. (Reliable => Context) => (Reliable => ScanAgrees)
  BY ScanNewest DEF ScanAgrees
<1>2. QED
  BY <1>1, EngineDurable, PTL

------------------------------------------------------------------------------
(* The register of KVStore *)

\* A user sees the newest settled version of each key, or none.
ViewInv ==
  /\ View \in [Keys -> Nat]
  /\ \A k \in Keys :
       /\ View[k] \in {0} \cup Settled(k)
       /\ \A v \in Settled(k) : v <= View[k] /\ v \in 1..MaxAppends

\* What is seen is that, while the engine runs and while it is down.
LEMMA ViewNewest == Context => ViewInv
<1> SUFFICES ASSUME Context, NEW k \in Keys
             PROVE  /\ View[k] \in {0} \cup Settled(k) /\ View[k] \in Nat
                    /\ \A v \in Settled(k) : v <= View[k] /\ v \in 1..MaxAppends
  BY DEF ViewInv, View
<1>1. \A v \in Settled(k) : v \in 1..MaxAppends
  BY ContextFacts, WalAssumption DEF Settled, Live
<1>2. CASE up
  <2>1. View[k] = Get(k)
    BY <1>2 DEF View
  <2>2. QED
    BY <1>1, <1>2, <2>1, GetNewest
<1>3. CASE ~up
  <2>1. View[k] \in OnDisk(k)
    <3>1. View[k] = CHOOSE v \in OnDisk(k) : TRUE
      BY <1>3 DEF View
    <3>2. QED
      BY <3>1, RestartNewest
  <2>2. View[k] \in {0} \cup Live(k) /\ \A v \in Live(k) : v <= View[k]
    BY <2>1, RestartNewest
  <2>3. Settled(k) = Live(k)
    BY <1>3 DEF Context, DurableInv, PlaceInv, InFlight, Settled
  <2>4. QED
    BY <1>1, <2>2, <2>3
<1>4. QED
  BY <1>2, <1>3

\* The newest of a set of versions does not change unless the set does, and
\* becomes the new one when a newest is added.
LEMMA NewestMoves ==
  ASSUME NEW V, NEW x, NEW y, x \in {0} \cup V, \A v \in V : v <= x /\ v \in 1..MaxAppends
  PROVE  /\ y \in {0} \cup V /\ (\A v \in V : v <= y) => y = x
         /\ \A a \in 1..MaxAppends :
              (\A v \in V : v <= a) /\ y \in {0} \cup V \cup {a}
                /\ (\A v \in V \cup {a} : v <= y) => y = a /\ (y = x \/ y \in (x + 1)..MaxAppends)
BY WalAssumption

\* What is seen changes with what is settled, and only for the key of that.
LEMMA SettlingShows ==
  ASSUME ViewInv, ViewInv', SettlesOne
  PROVE  \/ View' = View
         \/ \E h \in Keys : \E a \in (View[h] + 1)..MaxAppends :
              a \in Settled(h)' /\ a \notin Settled(h) /\ View' = [View EXCEPT ![h] = a]
<1>1. /\ View \in [Keys -> Nat] /\ View' \in [Keys -> Nat]
      /\ \A k \in Keys : /\ View[k] \in {0} \cup Settled(k) /\ View'[k] \in {0} \cup Settled(k)'
                         /\ \A v \in Settled(k) : v <= View[k] /\ v \in 1..MaxAppends
                         /\ \A v \in Settled(k)' : v <= View'[k] /\ v \in 1..MaxAppends
  BY DEF ViewInv
<1>2. ASSUME NEW k \in Keys, Settled(k)' = Settled(k) PROVE View'[k] = View[k]
  BY <1>1, <1>2, NewestMoves
<1>3. CASE \A k \in Keys : Settled(k)' = Settled(k)
  BY <1>1, <1>2, <1>3
<1>4. ASSUME NEW h \in Keys, NEW a \in 1..MaxAppends,
             Settled(h)' = Settled(h) \cup {a}, \A v \in Settled(h) : v <= a,
             \A k \in Keys \ {h} : Settled(k)' = Settled(k)
      PROVE  \/ View' = View
             \/ /\ a \in (View[h] + 1)..MaxAppends /\ a \in Settled(h)' /\ a \notin Settled(h)
                /\ View' = [View EXCEPT ![h] = a]
  <2>1. View'[h] = a /\ (View'[h] = View[h] \/ View'[h] \in (View[h] + 1)..MaxAppends)
    BY <1>1, <1>4, NewestMoves
  <2>2. \A k \in Keys \ {h} : View'[k] = View[k]
    BY <1>2, <1>4
  <2>3. View' = [View EXCEPT ![h] = a]
    BY <1>1, <2>1, <2>2
  <2>4. CASE View'[h] = View[h]
    BY <1>1, <2>2, <2>4
  <2>5. CASE View'[h] \in (View[h] + 1)..MaxAppends
    <3>1. a \notin Settled(h)
      BY <1>1, <2>1, <2>5
    <3>2. QED
      BY <1>4, <2>1, <2>3, <2>5, <3>1
  <2>6. QED
    BY <2>1, <2>4, <2>5
<1>5. QED
  BY <1>3, <1>4 DEF SettlesOne

\* Settling a version is a write to the register, or changes nothing.
LEMMA SettlingWrites ==
  ASSUME ViewInv, ViewInv', SettlesOne PROVE [KV!KVNext]_View
BY SettlingShows DEF KV!KVNext, KV!Write

\* A step that changes nothing of the engine settles nothing.
LEMMA NothingSettles == UNCHANGED evars => SettlesOne
<1>1. UNCHANGED evars => \A k : Settled(k)' = Settled(k)
  BY DEF evars, volatile, vars, memory, history, InFlight, Settled, Live
<1>2. QED
  BY <1>1 DEF SettlesOne

\* The engine is a durable register per key for every number of keys, segments,
\* puts, flushes, crashes and restarts: a put takes effect at one moment, and no
\* rotation, flush, cleanup, crash or restart is seen by a user.
THEOREM EngineIsKVStore == CalmSpec => (Reliable => ImplementsKVStore)
<1> SUFFICES ASSUME Reliable PROVE CalmSpec => ImplementsKVStore
  OBVIOUS
<1>1. EngineInit /\ (Reliable => Context) => KV!KVInit
  <2> SUFFICES ASSUME EngineInit, Context PROVE KV!KVInit
    OBVIOUS
  <2>1. ViewInv
    BY ViewNewest
  <2>2. \A k \in Keys : Settled(k) = {}
    BY DEF EngineInit, Init, Settled, Live
  <2>3. QED
    BY <2>1, <2>2 DEF ViewInv, KV!KVInit
<1>2. (Reliable => Context) => ViewInv
  BY ViewNewest
<1>3. ViewInv /\ ViewInv' /\ [Reliable => SettlesOne]_evars => [KV!KVNext]_View
  BY NothingSettles, SettlingWrites
<1>4. QED
  BY <1>1, <1>2, <1>3, EngineDurable, PTL DEF CalmSpec, EngineSpec, ImplementsKVStore, KV!KVSpec


------------------------------------------------------------------------------
(* Engines that are calm by themselves *)

\* No write or delete fails, and flushes are done by the put, or by a thread that is
\* in time, over a log that does not fill a segment.  The process may die at any step.
Steady ==
  /\ ~Compaction /\ WrittenThrough /\ MaxFlushFaults = 0
  /\ Background => FlushInTime /\ MaxWait > 0 /\ MaxAppends < SegmentLimit

\* A segment counts no more records than were appended, and no poll for the flush
\* thread goes unanswered.
PatienceInv ==
  /\ bytes_written <= appended
  /\ pc = "wait" \/ (pc \in {"mark", "clean"} /\ resume = "wait") => waited = 0

\* Every record counted in a segment was appended.
LEMMA CountNext ==
  ASSUME LogInv, bytes_written <= appended, [Next]_vars
  PROVE  bytes_written' <= appended'
<1>1. appended \in Nat /\ bytes_written \in Nat
  BY AppendedNat DEF LogInv, TypeOK
<1>2. ASSUME NEW segs, NEW n, NEW b, NEW w \in Nat, w <= appended, AppendTo(segs, n, b, w)
      PROVE  bytes_written' <= appended'
  BY <1>1, <1>2 DEF AppendTo, ContinueOn, Forget
<1>3. CASE AppendHere
  BY <1>1, <1>2, <1>3 DEF AppendHere
<1>4. CASE AppendRotating
  BY <1>1, <1>2, <1>4 DEF AppendRotating
<1>5. CASE \E n \in 1..MaxSegments : Open(n)
  BY <1>1, <1>5 DEF Open, memory, history
<1>6. CASE Crash \/ Shutdown
  BY <1>1, <1>6 DEF Crash, Shutdown, Forget, history
<1>7. CASE AppendRefused
  BY <1>1, <1>7 DEF AppendRefused, history
<1>8. CASE AppendRotationFails \/ Flush \/ FlushFails \/ MarkFlushed
  BY <1>8 DEF AppendRotationFails, Flush, FlushFails, MarkFlushed, history, memory
<1>9. CASE \E r \in 0..MaxSegments : Cleanup(r) \/ CleanupFails(r)
  BY <1>9 DEF Cleanup, CleanupFails, memory
<1>10. CASE UNCHANGED vars
  BY <1>10 DEF vars, memory, history
<1>11. QED
  BY <1>3, <1>4, <1>5, <1>6, <1>7, <1>8, <1>9, <1>10 DEF Next

\* The log stays on its segment as long as that has room.
LEMMA SegmentKept ==
  ASSUME LogInv, up, up', ~RotationDue, [Next]_vars
  PROVE  segment_number' = segment_number
<1>1. current_segment \in 1..segment_number /\ segment_number \in 0..MaxSegments
      /\ MaxSegments \in Nat
  BY WalAssumption DEF LogInv, TypeOK, NumbersInv
<1>2. CASE AppendHere
  <2>1. AppendTo(segments, current_segment, buffer, bytes_written)
    BY <1>2 DEF AppendHere
  <2>2. ~Forget
    BY DEF Forget
  <2>3. ContinueOn(current_segment, bytes_written + 1)
    BY <2>1, <2>2 DEF AppendTo
  <2>4. QED
    BY <1>1, <2>3 DEF ContinueOn
<1>3. ~AppendRotating /\ ~AppendRefused /\ ~AppendRotationFails
      /\ ~(\E n \in 1..MaxSegments : Open(n))
  BY DEF AppendRotating, AppendRefused, AppendRotationFails, Open
<1>4. ~Crash /\ ~Shutdown
  BY DEF Crash, Shutdown, Forget
<1>5. CASE Flush \/ FlushFails \/ MarkFlushed
  BY <1>5 DEF Flush, FlushFails, MarkFlushed, memory
<1>6. CASE \E r \in 0..MaxSegments : Cleanup(r) \/ CleanupFails(r)
  BY <1>6 DEF Cleanup, CleanupFails, memory
<1>7. CASE UNCHANGED vars
  BY <1>7 DEF vars, memory
<1>8. QED
  BY <1>2, <1>3, <1>4, <1>5, <1>6, <1>7 DEF Next

\* No put of a steady engine gives up, and none finds nothing when it polls: while
\* there is an immutable memtable, the thread has it, or its result is there.
LEMMA NoVainPoll ==
  ASSUME Steady, DurableInv, QueueInv, PatienceInv
  PROVE  ~Poll /\ ~GiveUpWaiting
<1>1. pc = "wait" => Background /\ waited = 0
  BY DEF DurableInv, PlaceInv, PatienceInv
<1>2. ~Poll
  BY <1>1 DEF Steady, Poll, QueueInv, ImmutableIsBeingFlushed
<1>3. ~GiveUpWaiting
  BY <1>1 DEF Steady, GiveUpWaiting
<1>4. QED
  BY <1>2, <1>3

\* A poll that finds nothing is the only step that counts up.
LEMMA PatienceNext ==
  ASSUME Steady, LogInv, DurableInv, QueueInv, PatienceInv, [EngineNext]_evars
  PROVE  PatienceInv'
<1>1. bytes_written' <= appended'
  BY EngineStepUsesWal, CountNext DEF PatienceInv
<1> DEFINE Waits == pc = "wait" \/ (pc \in {"mark", "clean"} /\ resume = "wait")
<1>2. Waits => waited = 0
  BY DEF PatienceInv
<1> SUFFICES Waits' => waited' = 0
  BY <1>1 DEF PatienceInv
<1>3. CASE UNCHANGED evars
  BY <1>2, <1>3 DEF evars, volatile
<1>4. CASE Collect \/ MarkFlush \/ CleanLog
  BY <1>2, <1>4 DEF Collect, MarkFlush, CleanLog, Ack, Fail
<1>5. CASE Insert
  BY <1>5 DEF Insert
<1>6. CASE NothingToCollect \/ SkipCompaction \/ SelectInputs \/ Merge \/ MergeFails
           \/ DeleteInput \/ Swap \/ SyncFlush
  <2>1. pc' # "wait" /\ ~(pc' \in {"mark", "clean"} /\ resume' = "wait")
    BY <1>6 DEF NothingToCollect, SkipCompaction, SelectInputs, Merge, MergeFails,
                DeleteInput, Swap, SyncFlush, Ack, Fail
  <2>2. QED
    BY <2>1
<1>7. CASE FlushThread
  BY <1>2, <1>7 DEF FlushThread, BeginFlush, EndFlush, FlushThreadFails
<1>8. CASE CrashEngine \/ StopEngine
  BY <1>8 DEF CrashEngine, StopEngine, ForgetEngine
<1>9. CASE \E n \in 1..MaxSegments : OpenEngine(n)
  BY <1>2, <1>9 DEF OpenEngine
<1>10. CASE PutRefused
  BY <1>2, <1>10 DEF PutRefused, volatile
<1>11. CASE \E k \in Keys : PutAppend(k)
  <2>1. pc' \in {"check", "idle"}
    BY <1>11 DEF PutAppend, ForgetEngine
  <2>2. QED
    BY <2>1
<1>12. QED
  BY <1>3, <1>4, <1>5, <1>6, <1>7, <1>8, <1>9, <1>10, <1>11, NoVainPoll DEF EngineNext, PutStep

\* Every step of a steady engine is a calm one.
LEMMA SteadyStepCalm ==
  ASSUME Steady, LogInv, DurableInv, QueueInv, PatienceInv, [EngineNext]_evars
  PROVE  CalmStep
<1>1. ASSUME immutable_memtable # EmptyTable, up' PROVE segment_number' = segment_number
  <2>1. up /\ Background
    BY <1>1 DEF DurableInv, PlaceInv
  <2>2. ~RotationDue
    <3>1. MaxAppends < SegmentLimit
      BY <2>1 DEF Steady
    <3>2. bytes_written \in Nat /\ appended \in 0..MaxAppends /\ bytes_written <= appended
      BY DEF LogInv, TypeOK, PatienceInv
    <3>3. QED
      BY <3>1, <3>2, WalAssumption DEF RotationDue
  <2>3. QED
    BY <1>1, <2>1, <2>2, EngineStepUsesWal, SegmentKept
<1>2. ASSUME pc = "wait" PROVE pc' # "sync"
  <2>1. CASE PutStep
    <3>1. ~(NothingToCollect \/ MarkFlush \/ CleanLog \/ SkipCompaction \/ SelectInputs
            \/ Merge \/ MergeFails \/ DeleteInput \/ Insert \/ SyncFlush)
      BY <1>2 DEF NothingToCollect, MarkFlush, CleanLog, SkipCompaction, SelectInputs, Merge,
                  MergeFails, DeleteInput, Insert, SyncFlush
    <3>2. (Collect \/ Swap) => pc' # "sync"
      BY DEF Collect, Swap, Ack, Fail
    <3>3. QED
      BY <2>1, <3>1, <3>2, NoVainPoll DEF PutStep
  <2>2. CASE FlushThread \/ UNCHANGED evars \/ \E n \in 1..MaxSegments : OpenEngine(n)
    BY <1>2, <2>2 DEF FlushThread, BeginFlush, EndFlush, FlushThreadFails, evars, volatile,
                      OpenEngine
  <2>3. CASE CrashEngine \/ StopEngine
    BY <2>3 DEF CrashEngine, StopEngine, ForgetEngine
  <2>4. ~PutRefused /\ ~(\E k \in Keys : PutAppend(k))
    BY <1>2 DEF PutRefused, PutAppend
  <2>5. QED
    BY <2>1, <2>2, <2>3, <2>4 DEF EngineNext
<1>3. QED
  BY <1>1, <1>2 DEF CalmStep

\* A steady engine is reliable and its behaviours are calm, so all of the above holds
\* of every behaviour of it: of the synchronous engine without further condition, and
\* of the background engine as long as the log keeps to one segment.
THEOREM SteadyIsCalm == EngineSpec => (Steady => [][CalmStep]_evars)
<1> SUFFICES ASSUME Steady PROVE EngineSpec => [][CalmStep]_evars
  OBVIOUS
<1> DEFINE Inv == TornInv /\ TypeInv /\ TightInv /\ DurableInv /\ QueueInv /\ PatienceInv
<1>1. Reliable /\ ~Compaction /\ MaxFlushFaults = 0
  BY DEF Steady, Reliable
<1>2. EngineInit => Inv
  <2>1. EngineInit => Init
    BY DEF EngineInit
  <2>2. EngineInit => PatienceInv
    BY DEF EngineInit, Init, PatienceInv
  <2>3. QED
    BY <1>1, <2>1, <2>2, TornInit, TightInit, TypeInit, DurableInit, QueueInit
<1>3. LogInv /\ LogInv' /\ Inv /\ [EngineNext]_evars => Inv' /\ [CalmStep]_evars
  <2> SUFFICES ASSUME LogInv, LogInv', Inv, [EngineNext]_evars
               PROVE  Inv' /\ [CalmStep]_evars
    OBVIOUS
  <2>1. TornInv' /\ TypeInv'
    BY <1>1, EngineStepUsesWal, TornNext, TypeNext
  <2>2. TightInv'
    BY <1>1, EngineStepUsesWal, TightNext DEF Reliable
  <2>3. QueueInv'
    BY <1>1, QueueNext
  <2>4. CalmStep /\ PatienceInv'
    BY SteadyStepCalm, PatienceNext
  <2>5. DurableInv'
    <3>1. Context
      BY <1>1 DEF Context
    <3>2. QED
      BY <2>1, <2>2, <2>4, <3>1, DurableNext
  <2>6. QED
    BY <2>1, <2>2, <2>3, <2>4, <2>5
<1>4. QED
  BY <1>2, <1>3, EngineKeepsLog, PTL DEF EngineSpec

\* So a steady engine is a durable register per key, in every behaviour it has.
THEOREM SteadyIsKVStore == EngineSpec => (Steady => ImplementsKVStore)
<1>1. Steady => Reliable
  BY DEF Steady, Reliable
<1>2. QED
  BY <1>1, SteadyIsCalm, EngineIsKVStore, PTL DEF CalmSpec

\* It never reads stale values, loses nothing at a crash, and never cleans up what is
\* not in a file.
THEOREM SteadyIsDurable ==
  EngineSpec => [](Steady => ReadsLatest /\ SurvivesCrash /\ LogKeepsUnflushed /\ NewestToOldest)
<1>1. Steady => Reliable
  BY DEF Steady, Reliable
<1>2. Steady' <=> Steady
  BY DEF Steady, WrittenThrough
<1>3. (Steady => Reliable) /\ (Reliable => ReadsLatest) /\ (Reliable => SurvivesCrash)
      /\ (Reliable => LogKeepsUnflushed) /\ (Reliable => NewestToOldest)
        => (Steady => ReadsLatest /\ SurvivesCrash /\ LogKeepsUnflushed /\ NewestToOldest)
  OBVIOUS
<1>4. QED
  BY <1>1, <1>2, <1>3, SteadyIsCalm, ReadsItsWrites, SurvivesEveryCrash, CleanupKeepsUnflushed,
     ListFromOldToNew, PTL DEF CalmSpec

==============================================================================
