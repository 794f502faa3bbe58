----------------------------- MODULE EngineProofs -----------------------------
(* Proofs about the storage engine, for every value of its constants: it uses *)
(* the log as module Wal describes it, its tables are well-formed, a frozen    *)
(* memtable is, with compaction off, always on its way to disk, and a replay   *)
(* finds of a key what is in the segments with the largest numbers.           *)
EXTENDS StorageEngine, WalProofs, SetProofs

------------------------------------------------------------------------------
(* The engine uses the log as module Wal describes it *)

LEMMA PutStepUsesWal == PutStep => [Next]_vars
<1> SUFFICES ASSUME PutStep PROVE [Next]_vars
  OBVIOUS
<1>1. CASE MarkFlush
  BY <1>1 DEF MarkFlush, Next
<1>2. CASE CleanLog
  <2>1. 0 \in 0..MaxSegments
    BY WalAssumption
  <2>2. Cleanup(0) \/ CleanupFails(0)
    BY <1>2 DEF CleanLog
  <2>3. QED
    BY <2>1, <2>2 DEF Next
<1>3. CASE Collect \/ NothingToCollect \/ SkipCompaction \/ SelectInputs
  BY <1>3 DEF Collect, NothingToCollect, SkipCompaction, SelectInputs
<1>4. CASE Merge \/ MergeFails
  BY <1>4 DEF Merge, MergeFails
<1>5. CASE DeleteInput \/ Insert \/ Poll \/ GiveUpWaiting \/ Swap
  BY <1>5 DEF DeleteInput, Insert, Poll, GiveUpWaiting, Swap
<1>6. CASE SyncFlush
  BY <1>6 DEF SyncFlush
<1>7. QED
  BY <1>1, <1>2, <1>3, <1>4, <1>5, <1>6 DEF PutStep

LEMMA EngineStepUsesWal == [EngineNext]_evars => [Next]_vars
<1> SUFFICES ASSUME [EngineNext]_evars PROVE [Next]_vars
  OBVIOUS
<1>1. ASSUME NEW n \in 1..MaxSegments, OpenEngine(n) PROVE Next
  BY <1>1 DEF OpenEngine, Next
<1>2. ASSUME NEW k \in Keys, PutAppend(k) PROVE Next
  BY <1>2 DEF PutAppend, Next
<1>3. CASE PutRefused
  BY <1>3 DEF PutRefused, Next
<1>4. CASE PutStep
  BY <1>4, PutStepUsesWal
<1>5. CASE FlushThread
  BY <1>5 DEF FlushThread, BeginFlush, EndFlush, FlushThreadFails
<1>6. CASE CrashEngine
  BY <1>6 DEF CrashEngine, Next
<1>7. CASE StopEngine
  BY <1>7 DEF StopEngine, Next
<1>8. CASE UNCHANGED evars
  BY <1>8 DEF evars
<1>9. QED
  BY <1>1, <1>2, <1>3, <1>4, <1>5, <1>6, <1>7, <1>8 DEF EngineNext

\* The storage engine implements the log's specification: whatever put, flush,
\* cleanup, crash and restart do to the log, it is a step module Wal allows.
THEOREM EngineUsesWal == EngineSpec => Spec
<1>1. EngineInit => Init
  BY DEF EngineInit
<1>2. QED
  BY <1>1, EngineStepUsesWal, PTL DEF EngineSpec, Spec

\* So the log of the engine keeps its invariant, and with it: no record lost but
\* by a crash or a cleanup, cleanup only below the flush point, segments in order.
THEOREM EngineKeepsLog == EngineSpec => []LogInv
BY EngineUsesWal, LogInvariant, PTL

------------------------------------------------------------------------------
(* Replay *)

\* A log as Replay takes it: finitely many positions in finitely many segments
Finite(log) ==
  /\ DOMAIN log \subseteq 1..MaxSegments
  /\ \A n \in DOMAIN log : DOMAIN log[n] \subseteq Nat /\ IsFiniteSet(DOMAIN log[n])

\* Replay answers with the last occurrence of the key; there is one, as the
\* positions are finite.
LEMMA ReplayLast ==
  ASSUME NEW log, Finite(log), NEW k, Occurrences(log, k) # {}
  PROVE  \E p \in Occurrences(log, k) :
           /\ Replay(log, k) = log[p[1]][p[2]]
           /\ \A q \in Occurrences(log, k) : q[1] < p[1] \/ (q[1] = p[1] /\ q[2] <= p[2])
<1> DEFINE at == Occurrences(log, k)
           IsLast(p) == \A q \in at : q[1] < p[1] \/ (q[1] = p[1] /\ q[2] <= p[2])
           Segs == {n \in DOMAIN log : \E p \in at : p[1] = n}
<1>1. \A p \in at : p[1] \in DOMAIN log /\ p[2] \in DOMAIN log[p[1]]
  BY DEF Occurrences
<1>2. IsFiniteSet(Segs) /\ Segs \subseteq Nat /\ Segs # {}
  <2>1. IsFiniteSet(1..MaxSegments)
    BY WalAssumption, FS_Interval
  <2>2. Segs \in SUBSET (1..MaxSegments) /\ Segs # {} /\ Segs \subseteq Nat
    BY <1>1 DEF Finite
  <2> HIDE DEF Segs
  <2>3. QED
    BY <2>1, <2>2, FS_Subset
<1>3. PICK n \in Segs : \A m \in Segs : n >= m
  <2> HIDE DEF Segs
  <2>1. QED
    BY <1>2, FiniteNatMax
<1> DEFINE Places == {i \in DOMAIN log[n] : \E p \in at : p[1] = n /\ p[2] = i}
<1>4. IsFiniteSet(Places) /\ Places \subseteq Nat /\ Places # {}
  <2>1. Places \in SUBSET DOMAIN log[n] /\ Places # {} /\ Places \subseteq Nat
    BY <1>1, <1>3 DEF Finite
  <2>2. IsFiniteSet(DOMAIN log[n])
    BY <1>3 DEF Finite
  <2> HIDE DEF Places
  <2>3. QED
    BY <2>1, <2>2, FS_Subset
<1>5. PICK i \in Places : \A j \in Places : i >= j
  <2> HIDE DEF Places
  <2>1. QED
    BY <1>4, FiniteNatMax
<1>6. PICK p \in at : p[1] = n /\ p[2] = i
  BY <1>5
<1>7. IsLast(p)
  <2> SUFFICES ASSUME NEW q \in at
               PROVE  q[1] < p[1] \/ (q[1] = p[1] /\ q[2] <= p[2])
    OBVIOUS
  <2>1. q[1] \in Segs /\ q[1] \in Nat /\ n \in Nat /\ q[1] <= n
    BY <1>1, <1>2, <1>3
  <2>2. ASSUME q[1] = n PROVE q[2] <= i
    <3>1. q[2] \in Places
      BY <1>1, <2>2
    <3>2. QED
      BY <1>4, <1>5, <3>1
  <2>3. QED
    BY <1>6, <2>1, <2>2
<1> DEFINE last == CHOOSE p_1 \in at : IsLast(p_1)
<1>8. last \in at /\ IsLast(last)
  <2> HIDE DEF at, IsLast
  <2>1. QED
    BY <1>6, <1>7
<1>9. Replay(log, k) = log[last[1]][last[2]]
  BY DEF Replay
<1>10. QED
  <2> HIDE DEF last
  <2>1. QED
    BY <1>8, <1>9

\* What it answers is a record of the log, or 0.
LEMMA ReplayType ==
  ASSUME NEW log, Finite(log),
         \A n \in DOMAIN log : \A i \in DOMAIN log[n] : log[n][i] \in 1..appended,
         appended \in Nat, NEW k
  PROVE  Replay(log, k) \in 0..appended
<1>1. CASE Occurrences(log, k) = {}
  BY <1>1 DEF Replay
<1>2. CASE Occurrences(log, k) # {}
  <2>1. PICK p \in Occurrences(log, k) : Replay(log, k) = log[p[1]][p[2]]
    BY <1>2, ReplayLast
  <2>2. p[1] \in DOMAIN log /\ p[2] \in DOMAIN log[p[1]]
    BY DEF Occurrences
  <2>3. QED
    BY <2>1, <2>2
<1>3. QED
  BY <1>1, <1>2

\* The readable part of a directory is such a log.
LEMMA EntriesFinite ==
  ASSUME NEW segs, Directory(segs)
  PROVE  Finite([n \in DOMAIN segs |-> Entries(segs[n])])
<1> SUFFICES ASSUME NEW n \in DOMAIN segs
             PROVE  Intact(segs[n]) \subseteq Nat /\ IsFiniteSet(Intact(segs[n]))
  BY DEF Directory, Finite, Entries
<1>1. Len(segs[n]) \in Nat
  BY DEF Directory
<1>2. Intact(segs[n]) \in SUBSET (1..Len(segs[n]))
  BY DEF Intact
<1>3. IsFiniteSet(1..Len(segs[n]))
  BY <1>1, FS_Interval
<1>4. QED
  BY <1>1, <1>2, <1>3, FS_Subset

------------------------------------------------------------------------------
(* The types of tables, files and queues, after n appends *)

Names == [id : Nat, compacted : BOOLEAN]
Tables(n) == [Keys -> 0..n]
Readers(n) == [name : Names, data : Tables(n)]
Contents(n) == [data : Tables(n), complete : BOOLEAN]
Messages(n) == [id : Nat, table : Tables(n)]

FilesTyped(fs, n) ==
  /\ IsFiniteSet(DOMAIN fs) /\ DOMAIN fs \subseteq Names
  /\ fs \in [DOMAIN fs -> Contents(n)]

TypeInv ==
  /\ memtable \in Tables(appended) /\ immutable_memtable \in Tables(appended)
  /\ sstables \in Seq(Readers(appended))
  /\ FilesTyped(files, appended)
  /\ sstable_counter \in Nat
  /\ flush_tx \in Seq(Messages(appended)) /\ flush_rx \in Seq(Names)
  /\ writing \in BOOLEAN /\ (writing => flush_tx # <<>>)
  /\ keyOf \in Seq(Keys) /\ Len(keyOf) = appended
  /\ pc \in {"idle", "check", "mark", "clean", "compact", "merge", "delete", "insert",
             "wait", "sync"}
  /\ ~Compaction => pc \notin {"compact", "merge", "delete"}
  /\ resume \in {"idle", "check", "wait"}

\* A larger number of appends allows every table there was.
LEMMA TablesGrow ==
  ASSUME NEW m \in Nat, NEW n \in Nat, m <= n
  PROVE  /\ Tables(m) \subseteq Tables(n)
         /\ Seq(Readers(m)) \subseteq Seq(Readers(n))
         /\ Seq(Messages(m)) \subseteq Seq(Messages(n))
         /\ \A fs : FilesTyped(fs, m) => FilesTyped(fs, n)
<1>1. Tables(m) \subseteq Tables(n)
  BY DEF Tables
<1>2. Readers(m) \subseteq Readers(n) /\ Messages(m) \subseteq Messages(n)
      /\ Contents(m) \subseteq Contents(n)
  BY <1>1 DEF Readers, Messages, Contents
<1>3. \A A, B : A \subseteq B => Seq(A) \subseteq Seq(B)
  OBVIOUS
<1>4. \A fs : FilesTyped(fs, m) => FilesTyped(fs, n)
  BY <1>2 DEF FilesTyped
<1>5. QED
  BY <1>1, <1>2, <1>3, <1>4

\* The empty table and the names of files
LEMMA EmptyTyped == \A n \in Nat : EmptyTable \in Tables(n)
BY DEF EmptyTable, Tables

LEMMA NamesOfIds == \A id \in Nat : Plain(id) \in Names /\ Compacted(id) \in Names
BY DEF Plain, Compacted, Names

\* Creating and completing a file keep the directory well-formed.
LEMMA FilesWritten ==
  ASSUME NEW fs, NEW n \in Nat, FilesTyped(fs, n), NEW name \in Names,
         NEW table \in Tables(n)
  PROVE  /\ FilesTyped(Create(fs, name), n)
         /\ FilesTyped(Finish(fs, name, table), n)
         /\ Reader(Finish(fs, name, table), name) \in Readers(n)
<1>1. IsFiniteSet(DOMAIN fs \cup {name}) /\ DOMAIN fs \cup {name} \subseteq Names
  BY FS_AddElement DEF FilesTyped
<1>2. \A m \in DOMAIN fs : fs[m] \in Contents(n)
  BY DEF FilesTyped
<1>3. [data |-> EmptyTable, complete |-> FALSE] \in Contents(n)
  BY EmptyTyped DEF Contents
<1>4. [data |-> table, complete |-> TRUE] \in Contents(n)
  BY DEF Contents
<1>5. FilesTyped(Create(fs, name), n)
  BY <1>1, <1>2, <1>3 DEF FilesTyped, Create
<1>6. FilesTyped(Finish(fs, name, table), n)
  BY <1>1, <1>2, <1>4 DEF FilesTyped, Finish
<1>7. Finish(fs, name, table)[name].data = table
  BY DEF Finish
<1>8. QED
  BY <1>5, <1>6, <1>7 DEF Reader, Readers

\* What Reader::open returns
LEMMA ReaderTyped ==
  ASSUME NEW n \in Nat, FilesTyped(files, n), NEW name \in DOMAIN files
  PROVE  Reader(files, name) \in Readers(n)
BY DEF FilesTyped, Reader, Readers, Contents

\* The files that open are finite in number, and so are their ids.
LEMMA LoadableFinite ==
  ASSUME NEW n \in Nat, FilesTyped(files, n)
  PROVE  IsFiniteSet(Loadable) /\ Loadable \subseteq DOMAIN files
<1>1. Loadable \in SUBSET DOMAIN files
  BY DEF Loadable
<1>2. QED
  BY <1>1, FS_Subset DEF FilesTyped

\* The counter starts behind every file that opens and that no compaction wrote.
LEMMA NextIdAbove ==
  ASSUME NEW c \in Nat, FilesTyped(files, c)
  PROVE  NextId \in Nat /\ \A n \in Loadable : ~n.compacted => n.id < NextId
<1> DEFINE L == {m \in Loadable : ~m.compacted}
           f == [m \in L |-> m.id]
           Used == {f[m] : m \in L}
<1>1. IsFiniteSet(L) /\ L \subseteq Names
  <2>1. L \in SUBSET Loadable
    OBVIOUS
  <2>2. L \subseteq Names
    BY <2>1, LoadableFinite DEF FilesTyped
  <2>3. QED
    <3> HIDE DEF L
    <3>1. QED
      BY <2>1, <2>2, LoadableFinite, FS_Subset
<1>2. IsFiniteSet(Used)
  <2> HIDE DEF L
  <2>1. DOMAIN f = L
    OBVIOUS
  <2> HIDE DEF f
  <2>2. QED
    BY <1>1, <2>1, FiniteImage
<1>3. Used \subseteq Nat /\ Used = {m.id : m \in L}
  BY <1>1 DEF Names
<1>4. IsFiniteSet({0} \cup Used) /\ {0} \cup Used \subseteq Nat /\ {0} \cup Used # {}
  <2> HIDE DEF Used
  <2>1. IsFiniteSet(Used \cup {0})
    BY <1>2, FS_AddElement
  <2>2. Used \cup {0} = {0} \cup Used
    OBVIOUS
  <2>3. QED
    BY <1>3, <2>1, <2>2
<1>5. Max({0} \cup Used) \in Nat /\ \A y \in Used : Max({0} \cup Used) >= y
  <2> HIDE DEF Used
  <2>1. QED
    BY <1>4, MaxType
<1>6. NextId = Max({0} \cup Used) + 1
  BY <1>3 DEF NextId
<1>7. ASSUME NEW n \in L PROVE n.id < NextId
  <2> DEFINE id == n.id
             m == Max({0} \cup Used)
  <2>1. id \in Used /\ NextId = m + 1
    BY <1>6
  <2>2. id \in Nat /\ m \in Nat /\ m >= id
    <3> HIDE DEF Used, id
    <3>1. QED
      BY <1>3, <1>5, <2>1
  <2> HIDE DEF m, id
  <2>3. id < NextId
    BY <2>1, <2>2
  <2>4. QED
    BY <2>3 DEF id
<1>8. QED
  BY <1>5, <1>6, <1>7

\* The list a start loads is a list of readers.
LEMMA LoadOrdersType ==
  ASSUME NEW n \in Nat, FilesTyped(files, n), NEW s \in LoadOrders
  PROVE  s \in Seq(Readers(n))
<1> DEFINE f == [m \in Loadable |-> Reader(files, m)]
           R == {f[m] : m \in Loadable}
<1>1. R = {Reader(files, m) : m \in Loadable}
  OBVIOUS
<1>2. IsFiniteSet(R)
  <2>1. DOMAIN f = Loadable
    OBVIOUS
  <2> HIDE DEF f
  <2>2. QED
    BY <2>1, LoadableFinite, FiniteImage
<1>3. R \subseteq Readers(n)
  BY LoadableFinite, ReaderTyped
<1>4. s \in [1..Cardinality(R) -> R]
  BY <1>1 DEF LoadOrders, SetToSeqs
<1>5. Cardinality(R) \in Nat
  <2> HIDE DEF R
  <2>1. QED
    BY <1>2, FS_CardinalityType
<1>6. QED
  <2> HIDE DEF R
  <2>1. s \in Seq(R)
    BY <1>4, <1>5
  <2>2. QED
    BY <1>3, <2>1

------------------------------------------------------------------------------
(* Every step keeps the types *)

LEMMA AppendedNat == LogInv => appended \in Nat
BY WalAssumption DEF LogInv, TypeOK

\* The empty queue
LEMMA EmptyQueues == \A S : <<>> \in Seq(S) /\ Len(<<>>) = 0
OBVIOUS

LEMMA TypeInit == EngineInit => TypeInv
<1> SUFFICES ASSUME EngineInit PROVE TypeInv
  OBVIOUS
<1>1. appended = 0
  BY DEF EngineInit, Init
<1>2. EmptyTable \in Tables(0)
  BY EmptyTyped
<1>3. FilesTyped(files, 0)
  BY FS_EmptySet DEF EngineInit, FilesTyped
<1>4. QED
  BY <1>1, <1>2, <1>3, EmptyQueues DEF EngineInit, TypeInv

\* The engine forgotten with its process
LEMMA ForgetTyped ==
  ASSUME TypeInv, appended \in Nat, appended' \in Nat, appended <= appended',
         ForgetEngine, FilesTyped(files', appended),
         keyOf' \in Seq(Keys), Len(keyOf') = appended'
  PROVE  TypeInv'
<1>1. EmptyTable \in Tables(appended') /\ FilesTyped(files', appended')
  BY EmptyTyped, TablesGrow
<1>2. QED
  BY <1>1, EmptyQueues DEF ForgetEngine, TypeInv

\* The engine as it was, after a step of the log
LEMMA RestTyped ==
  ASSUME TypeInv, appended \in Nat, appended' \in Nat, appended <= appended',
         UNCHANGED <<memtable, immutable_memtable, sstables, files, sstable_counter,
                     flush_tx, flush_rx, writing, resume>>,
         pc' \in {pc, "idle", "check"},
         keyOf' \in Seq(Keys), Len(keyOf') = appended'
  PROVE  TypeInv'
BY TablesGrow DEF TypeInv

LEMMA AppendCounts ==
  AppendHere \/ AppendRotating => appended' = appended + 1
BY DEF AppendHere, AppendRotating, AppendTo

LEMMA PutAppendTyped ==
  ASSUME LogInv, LogInv', TypeInv, NEW k \in Keys, PutAppend(k) PROVE TypeInv'
<1>1. appended \in Nat /\ appended' = appended + 1
  BY AppendedNat, AppendCounts DEF PutAppend
<1>2. keyOf' \in Seq(Keys) /\ Len(keyOf') = appended'
  BY <1>1 DEF PutAppend, TypeInv
<1>3. files' = files /\ FilesTyped(files, appended)
  BY DEF PutAppend, TypeInv
<1>4. CASE up'
  BY <1>1, <1>2, <1>4, RestTyped DEF PutAppend
<1>5. CASE ~up'
  BY <1>1, <1>2, <1>3, <1>5, ForgetTyped DEF PutAppend
<1>6. QED
  BY <1>4, <1>5

LEMMA PutRefusedTyped ==
  ASSUME LogInv, TypeInv, PutRefused PROVE TypeInv'
<1>1. appended \in Nat /\ appended' = appended
  BY AppendedNat DEF PutRefused, AppendRefused, AppendRotationFails, FlushFails, history
<1>2. keyOf' \in Seq(Keys) /\ Len(keyOf') = appended'
  BY <1>1 DEF PutRefused, TypeInv
<1>3. QED
  BY <1>1, <1>2, RestTyped DEF PutRefused, volatile

LEMMA OpenEngineTyped ==
  ASSUME LogInv, LogInv', TypeInv, NEW n \in 1..MaxSegments, OpenEngine(n) PROVE TypeInv'
<1>1. appended \in Nat /\ appended' = appended
  BY AppendedNat DEF OpenEngine, Open, history
<1>2. CASE ~up'
  BY <1>1, <1>2, RestTyped DEF OpenEngine, TypeInv
<1>3. CASE up'
  <2>1. /\ recovered' = [m \in DOMAIN segments' |-> Entries(segments'[m])]
        /\ DOMAIN segments' \subseteq 1..MaxSegments
    <3>1. ~up
      BY DEF OpenEngine, Open
    <3>2. recovered' = [m \in DOMAIN segments' |-> Entries(segments'[m])]
      BY <1>3, <3>1 DEF OpenEngine, Open
    <3>3. QED
      BY <3>2 DEF LogInv, TypeOK
  <2>2. ASSUME NEW m \in DOMAIN recovered', NEW i \in DOMAIN recovered'[m]
        PROVE  recovered'[m][i] \in 1..appended
    <3>1. m \in DOMAIN segments' /\ i \in Intact(segments'[m])
          /\ recovered'[m][i] = segments'[m][i]
      BY <2>1 DEF Entries
    <3>2. i \in 1..Len(segments'[m]) /\ segments'[m][i] \in Records
      <4>1. segments'[m] \in Seq(Items)
        BY <3>1 DEF LogInv, TypeOK
      <4>2. i \in 1..Len(segments'[m]) /\ \A j \in 1..i : segments'[m][j] \in Records
        BY <3>1 DEF Intact
      <4>3. i \in 1..i
        BY <4>1, <4>2
      <4>4. QED
        BY <4>2, <4>3
    <3>3. segments'[m][i] \in Ids(segments'[m])
      BY <3>2 DEF Ids
    <3>4. segments'[m][i] <= appended'
      BY <3>1, <3>3 DEF LogInv, HistoryInv
    <3>5. QED
      BY <1>1, <3>1, <3>2, <3>4, WalAssumption DEF Records
  <2>3. \A k \in Keys : Replay(recovered', k) \in 0..appended
    <3>1. Directory(segments')
      BY DEF LogInv, TypeOK, Directory
    <3>2. Finite(recovered')
      BY <2>1, <3>1, EntriesFinite
    <3>3. QED
      BY <1>1, <2>2, <3>2, ReplayType
  <2>4. memtable' \in Tables(appended)
    BY <1>3, <2>3 DEF OpenEngine, Tables
  <2>5. sstables' \in Seq(Readers(appended)) /\ sstable_counter' \in Nat
    BY <1>1, <1>3, LoadOrdersType, NextIdAbove DEF OpenEngine, TypeInv
  <2>6. QED
    BY <1>1, <2>4, <2>5 DEF OpenEngine, TypeInv
<1>4. QED
  BY <1>2, <1>3

\* Head and tail of a queue with an element
LEMMA QueueParts ==
  ASSUME NEW S, NEW q \in Seq(S), q # <<>>
  PROVE  Head(q) \in S /\ Tail(q) \in Seq(S)
OBVIOUS

\* A queue with one more element
LEMMA QueueAppend ==
  ASSUME NEW S, NEW q \in Seq(S), NEW e \in S
  PROVE  Append(q, e) \in Seq(S)
OBVIOUS

LEMMA CollectTyped ==
  ASSUME LogInv, TypeInv, Collect PROVE TypeInv'
<1>1. appended \in Nat /\ UNCHANGED <<appended, keyOf>>
  BY AppendedNat DEF Collect, vars, history
<1>2. flush_rx \in Seq(Names) /\ flush_rx # <<>>
  BY DEF Collect, TypeInv
<1>3. Head(flush_rx) \in Names /\ Tail(flush_rx) \in Seq(Names)
  BY <1>2, QueueParts
<1>4. CASE Opens(Head(flush_rx))
  <2>1. Reader(files, Head(flush_rx)) \in Readers(appended)
    BY <1>1, <1>4, ReaderTyped DEF Opens, TypeInv
  <2>2. sstables \in Seq(Readers(appended))
        /\ sstables' = Append(sstables, Reader(files, Head(flush_rx)))
    BY <1>4 DEF Collect, TypeInv
  <2>3. sstables' \in Seq(Readers(appended))
    BY <2>1, <2>2, QueueAppend
  <2>4. QED
    BY <1>1, <1>3, <1>4, <2>3, EmptyTyped DEF Collect, TypeInv
<1>5. CASE ~Opens(Head(flush_rx))
  BY <1>1, <1>5, EmptyQueues DEF Collect, Fail, TypeInv
<1>6. QED
  BY <1>4, <1>5

\* Steps of put that leave tables, files and queues alone.
LEMMA PlaceTyped ==
  ASSUME LogInv, TypeInv,
         \/ NothingToCollect \/ MarkFlush \/ CleanLog \/ Poll \/ GiveUpWaiting
         \/ SkipCompaction \/ SelectInputs
  PROVE  TypeInv'
<1>1. UNCHANGED <<appended, memtable, immutable_memtable, sstables, files, sstable_counter,
                  flush_tx, flush_rx, writing, resume, keyOf>>
  BY DEF NothingToCollect, MarkFlush, MarkFlushed, CleanLog, Cleanup, CleanupFails, Poll,
         GiveUpWaiting, SkipCompaction, SelectInputs, vars, history
<1>2. pc' \in {"insert", "clean", "wait", "sync", "idle", resume}
      \/ (Compaction /\ pc' = "compact") \/ (pc = "compact" /\ pc' = "merge")
  BY DEF NothingToCollect, MarkFlush, CleanLog, Poll, GiveUpWaiting, SkipCompaction,
         SelectInputs, Ack, Fail
<1>3. QED
  BY <1>1, <1>2 DEF TypeInv

LEMMA InsertTyped ==
  ASSUME LogInv, TypeInv, Insert PROVE TypeInv'
<1>1. appended \in Nat /\ UNCHANGED <<appended, keyOf>>
  BY AppendedNat DEF Insert, vars, history
<1>2. memtable' \in Tables(appended)
  <2>1. appended \in 0..appended
    BY <1>1
  <2>2. ASSUME NEW t \in Tables(appended), NEW k
        PROVE  [t EXCEPT ![k] = appended] \in Tables(appended)
    BY <2>1 DEF Tables
  <2>3. QED
    BY <2>2 DEF Insert, TypeInv
<1>3. pc' \in {"idle", "wait", "sync"}
  BY DEF Insert, Ack
<1>4. QED
  BY <1>1, <1>2, <1>3 DEF Insert, TypeInv

LEMMA SwapTyped ==
  ASSUME LogInv, TypeInv, Swap PROVE TypeInv'
<1>1. appended \in Nat /\ UNCHANGED <<appended, keyOf>>
  BY AppendedNat DEF Swap, vars, history
<1>2. [id |-> sstable_counter, table |-> memtable] \in Messages(appended)
  BY DEF TypeInv, Messages
<1>3. flush_tx' \in Seq(Messages(appended)) /\ flush_tx' # <<>>
  BY <1>2 DEF Swap, TypeInv
<1>4. QED
  BY <1>1, <1>3, EmptyTyped DEF Swap, Ack, TypeInv

LEMMA SyncFlushTyped ==
  ASSUME LogInv, TypeInv, SyncFlush PROVE TypeInv'
<1>1. appended \in Nat /\ UNCHANGED <<appended, keyOf>>
  BY AppendedNat DEF SyncFlush, vars, history
<1>2. Plain(sstable_counter) \in Names /\ memtable \in Tables(appended)
      /\ FilesTyped(files, appended)
  BY NamesOfIds DEF TypeInv
<1>3. FilesTyped(files', appended)
  BY <1>1, <1>2, FilesWritten DEF SyncFlush, FailedWrites
<1>4. sstables' \in Seq(Readers(appended))
  <2>1. CASE sstables' = sstables
    BY <2>1 DEF TypeInv
  <2>2. CASE /\ files' = Finish(files, Plain(sstable_counter), memtable)
             /\ sstables' = Append(sstables, Reader(files', Plain(sstable_counter)))
    <3>1. Reader(files', Plain(sstable_counter)) \in Readers(appended)
      BY <1>1, <1>2, <2>2, FilesWritten
    <3>2. QED
      BY <2>2, <3>1 DEF TypeInv
  <2>3. QED
    BY <2>1, <2>2 DEF SyncFlush
<1>5. pc' \in {"mark", "idle"} /\ resume' \in {"idle", resume}
  BY DEF SyncFlush, Fail
<1>6. sstable_counter' \in Nat
  BY DEF SyncFlush, TypeInv
<1>7. memtable' \in Tables(appended)
  BY <1>1, EmptyTyped DEF SyncFlush
<1>8. UNCHANGED <<immutable_memtable, flush_tx, flush_rx, writing>>
  BY DEF SyncFlush
<1>9. QED
  BY <1>1, <1>3, <1>4, <1>5, <1>6, <1>7, <1>8 DEF TypeInv

LEMMA FlushThreadTyped ==
  ASSUME LogInv, TypeInv, FlushThread PROVE TypeInv'
<1>1. appended \in Nat /\ UNCHANGED <<appended, memtable, immutable_memtable, sstables,
                                      sstable_counter, pc, resume, keyOf>>
  BY AppendedNat DEF FlushThread, BeginFlush, EndFlush, FlushThreadFails, vars, history
<1>2. flush_tx \in Seq(Messages(appended)) /\ flush_tx # <<>>
  BY DEF FlushThread, BeginFlush, EndFlush, FlushThreadFails, TypeInv
<1>3. Head(flush_tx) \in Messages(appended) /\ Tail(flush_tx) \in Seq(Messages(appended))
  BY <1>2, QueueParts
<1>4. Plain(Head(flush_tx).id) \in Names /\ Head(flush_tx).table \in Tables(appended)
  BY <1>3, NamesOfIds DEF Messages
<1>5. FilesTyped(files', appended)
  <2>1. FilesTyped(files, appended)
    BY DEF TypeInv
  <2>2. QED
    BY <1>1, <1>4, <2>1, FilesWritten DEF FlushThread, BeginFlush, EndFlush, FlushThreadFails
<1>6. flush_tx' \in Seq(Messages(appended)) /\ writing' \in BOOLEAN
      /\ (writing' => flush_tx' # <<>>)
  BY <1>2, <1>3 DEF FlushThread, BeginFlush, EndFlush, FlushThreadFails
<1>7. flush_rx' \in Seq(Names)
  <2>1. flush_rx \in Seq(Names)
    BY DEF TypeInv
  <2>2. Append(flush_rx, Plain(Head(flush_tx).id)) \in Seq(Names)
    BY <1>4, <2>1, QueueAppend
  <2>3. QED
    BY <2>1, <2>2 DEF FlushThread, BeginFlush, EndFlush, FlushThreadFails
<1>8. QED
  BY <1>1, <1>5, <1>6, <1>7 DEF TypeInv

\* What stays of a list
LEMMA RetainedType ==
  ASSUME NEW S, sstables \in Seq(S), NEW names, NEW kept \in Retained(names)
  PROVE  kept \in Seq(S)
<1> DEFINE stay == {i \in DOMAIN sstables : sstables[i].name \notin names}
<1>1. PICK at \in SetToSeqs(stay) : kept = [i \in DOMAIN at |-> sstables[at[i]]]
  BY DEF Retained
<1>2. at \in [1..Cardinality(stay) -> stay]
  BY DEF SetToSeqs
<1>3. Cardinality(stay) \in Nat
  <2>1. stay \in SUBSET (1..Len(sstables)) /\ Len(sstables) \in Nat
    OBVIOUS
  <2> HIDE DEF stay
  <2>2. IsFiniteSet(1..Len(sstables))
    BY <2>1, FS_Interval
  <2>3. QED
    BY <2>1, <2>2, FS_Subset, FS_CardinalityType
<1>4. \A i \in stay : sstables[i] \in S
  OBVIOUS
<1>5. kept \in [1..Cardinality(stay) -> S]
  <2> HIDE DEF stay
  <2>1. QED
    BY <1>1, <1>2, <1>4
<1>6. QED
  <2> HIDE DEF stay
  <2>1. QED
    BY <1>3, <1>5

\* The readers of a list when a file is written again beneath one of them
LEMMA RewriteType ==
  ASSUME NEW n \in Nat, NEW list \in Seq(Readers(n)), NEW name, NEW table \in Tables(n),
         NEW new \in AfterRewrite(list, name, table)
  PROVE  new \in Seq(Readers(n))
<1> DEFINE seen(i, found) == [k \in Keys |-> IF <<i, k>> \in found THEN table[k] ELSE 0]
           stale == {i \in DOMAIN list : list[i].name = name}
<1>1. PICK found \in SUBSET (stale \X Keys) :
        new = [i \in DOMAIN list |->
                 IF i \in stale THEN [list[i] EXCEPT !.data = seen(i, found)] ELSE list[i]]
  BY DEF AfterRewrite
<1>2. ASSUME NEW i \in DOMAIN list PROVE new[i] \in Readers(n)
  <2>1. seen(i, found) \in Tables(n)
    BY DEF Tables
  <2>2. list[i] \in Readers(n)
    OBVIOUS
  <2> HIDE DEF seen, stale
  <2>3. [list[i] EXCEPT !.data = seen(i, found)] \in Readers(n)
    BY <2>1, <2>2 DEF Readers
  <2>4. QED
    BY <1>1, <2>2, <2>3
<1>3. DOMAIN list = 1..Len(list) /\ Len(list) \in Nat
  OBVIOUS
<1>4. new \in [1..Len(list) -> Readers(n)]
  <2> HIDE DEF seen, stale
  <2>1. QED
    BY <1>1, <1>2, <1>3
<1>5. QED
  BY <1>3, <1>4

LEMMA MergeTyped ==
  ASSUME LogInv, TypeInv, Merge PROVE TypeInv'
<1>1. /\ appended \in Nat
      /\ UNCHANGED <<appended, keyOf, memtable, immutable_memtable, flush_tx, flush_rx, writing,
                     resume>>
      /\ pc = "merge" /\ pc' = "delete"
  BY AppendedNat DEF Merge, vars, history
<1>2. sstable_counter' \in Nat /\ Output \in Names /\ FilesTyped(files, appended)
  BY NamesOfIds DEF Merge, Output, TypeInv
<1>3. PICK table \in MergeOf(inputs \ {Output}), kept \in Retained(inputs) :
        /\ files' = Finish(files, Output, table)
        /\ \E list \in AfterRewrite(kept, Output, table) :
              sstables' = Append(list, Reader(files', Output))
  BY DEF Merge
<1>4. table \in Tables(appended)
  BY DEF MergeOf, Tables
<1>5. FilesTyped(files', appended) /\ Reader(files', Output) \in Readers(appended)
  BY <1>1, <1>2, <1>3, <1>4, FilesWritten
<1>6. sstables' \in Seq(Readers(appended))
  <2>1. kept \in Seq(Readers(appended))
    BY RetainedType DEF TypeInv
  <2>2. PICK list \in AfterRewrite(kept, Output, table) :
          sstables' = Append(list, Reader(files', Output))
    BY <1>3
  <2>3. list \in Seq(Readers(appended))
    BY <1>1, <1>4, <2>1, RewriteType
  <2>4. QED
    BY <1>5, <2>2, <2>3, QueueAppend
<1>7. QED
  BY <1>1, <1>2, <1>5, <1>6 DEF TypeInv

LEMMA MergeFailsTyped ==
  ASSUME LogInv, TypeInv, MergeFails PROVE TypeInv'
<1>1. /\ appended \in Nat
      /\ UNCHANGED <<appended, keyOf, memtable, immutable_memtable, flush_tx, flush_rx, writing,
                     resume>>
      /\ pc' = "idle"
  BY AppendedNat DEF MergeFails, Fail, vars, history
<1>2. /\ sstable_counter' \in Nat /\ Output \in Names /\ FilesTyped(files, appended)
      /\ sstables \in Seq(Readers(appended))
  BY NamesOfIds DEF MergeFails, Output, TypeInv
<1>3. CASE UNCHANGED <<files, sstables>>
  BY <1>1, <1>2, <1>3 DEF TypeInv
<1>4. ASSUME NEW table \in MergeOf(inputs \ {Output}),
             files' \in FailedWrites(files, Output, table),
             sstables' \in AfterRewrite(sstables, Output, files'[Output].data), files' # files
      PROVE  TypeInv'
  <2>1. table \in Tables(appended)
    BY DEF MergeOf, Tables
  <2>2. FilesTyped(files', appended) /\ Output \in DOMAIN files'
    BY <1>1, <1>2, <1>4, <2>1, FilesWritten DEF FailedWrites, Create, Finish
  <2>3. files'[Output].data \in Tables(appended)
    BY <2>2 DEF FilesTyped, Contents
  <2>4. sstables' \in Seq(Readers(appended))
    BY <1>1, <1>2, <1>4, <2>3, RewriteType
  <2>5. QED
    BY <1>1, <1>2, <2>2, <2>4 DEF TypeInv
<1>5. QED
  BY <1>3, <1>4 DEF MergeFails

LEMMA DeleteInputTyped ==
  ASSUME LogInv, TypeInv, DeleteInput PROVE TypeInv'
<1>1. /\ UNCHANGED <<appended, keyOf, memtable, immutable_memtable, sstables, sstable_counter,
                     flush_tx, flush_rx, writing, resume>>
      /\ pc = "delete" /\ pc' \in {"insert", "delete"}
  BY DEF DeleteInput, vars, history
<1>2. PICK n : files' = [m \in DOMAIN files \ {n} |-> files[m]] \/ files' = files
  BY DEF DeleteInput
<1>3. DOMAIN files' \in SUBSET DOMAIN files /\ IsFiniteSet(DOMAIN files)
  BY <1>2 DEF TypeInv, FilesTyped
<1>4. IsFiniteSet(DOMAIN files')
  BY <1>3, FS_Subset
<1>5. FilesTyped(files', appended)
  BY <1>2, <1>3, <1>4 DEF TypeInv, FilesTyped
<1>6. QED
  BY <1>1, <1>5 DEF TypeInv

\* The end of the process, which may cut a flush or a merge
LEMMA EndTyped ==
  ASSUME LogInv, TypeInv, CrashEngine \/ StopEngine PROVE TypeInv'
<1>1. appended \in Nat /\ UNCHANGED <<appended, keyOf>> /\ ForgetEngine
  BY AppendedNat DEF CrashEngine, StopEngine, Crash, Shutdown, history
<1>2. FilesTyped(files', appended)
  <2>1. Plain(sstable_counter) \in Names /\ Output \in Names /\ EmptyTable \in Tables(appended)
        /\ FilesTyped(files, appended)
    BY <1>1, NamesOfIds, EmptyTyped DEF TypeInv, Output
  <2>2. QED
    BY <1>1, <2>1, FilesWritten DEF CrashEngine, StopEngine
<1>3. QED
  BY <1>1, <1>2, ForgetTyped DEF TypeInv

LEMMA TypeNext ==
  ASSUME LogInv, LogInv', TypeInv, [EngineNext]_evars PROVE TypeInv'
<1>1. CASE PutStep
  BY <1>1, CollectTyped, PlaceTyped, InsertTyped, SwapTyped, SyncFlushTyped, MergeTyped,
     MergeFailsTyped, DeleteInputTyped DEF PutStep
<1>2. CASE UNCHANGED evars
  BY <1>2 DEF evars, volatile, vars, history, TypeInv
<1>3. QED
  BY <1>1, <1>2, OpenEngineTyped, PutAppendTyped, PutRefusedTyped, FlushThreadTyped, EndTyped
     DEF EngineNext

\* Tables, files and list of SSTables are well-formed in every reachable state of the
\* engine: no version that was not appended, in memory, in a file, after a replay or
\* after a merge.
THEOREM EngineTypeCorrect == EngineSpec => []EngineTypeOK
<1>1. EngineInit => TypeInv
  BY TypeInit
<1>2. LogInv /\ LogInv' /\ TypeInv /\ [EngineNext]_evars => TypeInv'
  BY TypeNext
<1>3. LogInv /\ TypeInv => EngineTypeOK
  <2> SUFFICES ASSUME LogInv, TypeInv PROVE EngineTypeOK
    OBVIOUS
  <2>1. TypeOK /\ appended \in Nat
    BY AppendedNat DEF LogInv
  <2>2. memtable \in [Keys -> 0..appended] /\ immutable_memtable \in [Keys -> 0..appended]
    BY DEF TypeInv, Tables
  <2>3. \A i \in 1..Len(sstables) : sstables[i].data \in [Keys -> 0..appended]
    <3>1. \A i \in 1..Len(sstables) : sstables[i] \in Readers(appended)
      BY DEF TypeInv
    <3>2. QED
      BY <3>1 DEF Readers, Tables
  <2>4. \A n \in DOMAIN files : files[n].data \in [Keys -> 0..appended]
    BY DEF TypeInv, FilesTyped, Contents, Tables
  <2>5. QED
    BY <2>1, <2>2, <2>3, <2>4 DEF TypeInv, EngineTypeOK
<1>4. QED
  BY <1>1, <1>2, <1>3, EngineKeepsLog, PTL DEF EngineSpec

------------------------------------------------------------------------------
(* The frozen memtable: messages to the flush thread, results and files *)

\* Reader::open of the file succeeds.
Available(fs, name) == name \in DOMAIN fs /\ fs[name].complete

\* As long as no flush fails: the ids of messages ascend, a result has a smaller
\* id than every message and a complete file, and so the file the thread creates
\* next is none of those.
QueueInv ==
  /\ flushFaults = 0
  /\ ~up => flush_tx = <<>> /\ flush_rx = <<>> /\ immutable_memtable = EmptyTable
  /\ \A i \in 1..Len(flush_tx) : flush_tx[i].id < sstable_counter
  /\ \A i, j \in 1..Len(flush_tx) : i < j => flush_tx[i].id < flush_tx[j].id
  /\ \A i \in 1..Len(flush_rx) : Available(files, flush_rx[i]) /\ flush_rx[i].id < sstable_counter
  /\ \A i \in 1..Len(flush_rx), j \in 1..Len(flush_tx) : flush_rx[i].id < flush_tx[j].id
  /\ writing => Plain(Head(flush_tx).id) \in DOMAIN files
  /\ ImmutableIsBeingFlushed

LEMMA QueueInit == EngineInit => QueueInv
BY EmptyQueues DEF EngineInit, Init, QueueInv, ImmutableIsBeingFlushed

LEMMA ForgetQueues ==
  ASSUME ForgetEngine, flushFaults' = 0 PROVE QueueInv'
BY EmptyQueues DEF ForgetEngine, QueueInv, ImmutableIsBeingFlushed

\* Steps that leave queues and files alone
LEMMA SameQueues ==
  ASSUME QueueInv, TypeInv, up' = up,
         UNCHANGED <<immutable_memtable, files, sstable_counter, flush_tx, flush_rx, writing,
                     flushFaults>>
  PROVE  QueueInv'
BY DEF QueueInv, ImmutableIsBeingFlushed

\* The ids in the queues are numbers.
LEMMA QueueIds ==
  ASSUME TypeInv
  PROVE  /\ \A i \in 1..Len(flush_tx) : flush_tx[i].id \in Nat
         /\ \A i \in 1..Len(flush_rx) : flush_rx[i].id \in Nat
<1>1. \A i \in 1..Len(flush_tx) : flush_tx[i] \in Messages(appended)
  BY DEF TypeInv
<1>2. \A i \in 1..Len(flush_rx) : flush_rx[i] \in Names
  BY DEF TypeInv
<1>3. QED
  BY <1>1, <1>2 DEF Messages, Names

\* The elements of a queue without its head, and of one with a new end
LEMMA TailItems ==
  ASSUME NEW S, NEW q \in Seq(S), q # <<>>
  PROVE  /\ Len(Tail(q)) \in Nat /\ Len(q) \in Nat /\ Len(Tail(q)) = Len(q) - 1
         /\ Head(q) = q[1] /\ 1 \in 1..Len(q)
         /\ \A i \in 1..Len(Tail(q)) : i + 1 \in 1..Len(q) /\ Tail(q)[i] = q[i + 1]
OBVIOUS

LEMMA AppendItems ==
  ASSUME NEW S, NEW q \in Seq(S), NEW e
  PROVE  /\ Len(q) \in Nat /\ Len(Append(q, e)) = Len(q) + 1
         /\ Append(q, e)[Len(q) + 1] = e
         /\ \A i \in 1..Len(q) : Append(q, e)[i] = q[i]
         /\ \A i \in 1..Len(Append(q, e)) : i \in 1..Len(q) \/ i = Len(q) + 1
         /\ Append(q, e) # <<>>
<1>1. Len(q) \in Nat /\ Len(Append(q, e)) = Len(q) + 1
  OBVIOUS
<1>2. Append(q, e)[Len(q) + 1] = e /\ \A i \in 1..Len(q) : Append(q, e)[i] = q[i]
  OBVIOUS
<1>3. Append(q, e) # <<>>
  BY <1>1, EmptyQueues
<1>4. QED
  BY <1>1, <1>2, <1>3

LEMMA OpenQueues ==
  ASSUME QueueInv, TypeInv, NEW n \in 1..MaxSegments, OpenEngine(n) PROVE QueueInv'
<1>1. ~up /\ UNCHANGED <<immutable_memtable, flush_tx, flush_rx, writing, files, flushFaults>>
  BY DEF OpenEngine, Open, fileFaults
<1>2. flush_tx = <<>> /\ flush_rx = <<>> /\ immutable_memtable = EmptyTable /\ ~writing
  BY <1>1 DEF QueueInv, TypeInv
<1>3. QED
  BY <1>1, <1>2, EmptyQueues DEF QueueInv, ImmutableIsBeingFlushed

LEMMA PutAppendQueues ==
  ASSUME QueueInv, TypeInv, NEW k \in Keys, PutAppend(k) PROVE QueueInv'
<1>1. up /\ UNCHANGED <<files, flushFaults>>
  BY DEF PutAppend, AppendHere, AppendRotating, fileFaults
<1>2. CASE up'
  <2>1. UNCHANGED <<immutable_memtable, sstable_counter, flush_tx, flush_rx, writing>>
    BY <1>2 DEF PutAppend
  <2>2. QED
    BY <1>1, <1>2, <2>1 DEF QueueInv, ImmutableIsBeingFlushed
<1>3. CASE ~up'
  BY <1>1, <1>3, ForgetQueues DEF PutAppend, QueueInv
<1>4. QED
  BY <1>2, <1>3

LEMMA CollectQueues ==
  ASSUME QueueInv, TypeInv, Collect PROVE QueueInv'
<1>1. flush_rx \in Seq(Names) /\ flush_rx # <<>>
  BY DEF Collect, TypeInv
<1>2. Opens(Head(flush_rx))
  BY <1>1, TailItems DEF QueueInv, Available, Opens
<1>3. /\ flush_rx' = Tail(flush_rx) /\ immutable_memtable' = EmptyTable
      /\ UNCHANGED <<up, flush_tx, sstable_counter, writing, files, flushFaults>>
  BY <1>2 DEF Collect, vars, fileFaults
<1>4. \A i \in 1..Len(flush_rx') : \E j \in 1..Len(flush_rx) : flush_rx'[i] = flush_rx[j]
  BY <1>1, <1>3, TailItems
<1>5. up
  BY DEF Collect
<1>6. QED
  BY <1>3, <1>4, <1>5 DEF QueueInv, ImmutableIsBeingFlushed

LEMMA SwapQueues ==
  ASSUME QueueInv, TypeInv, Swap PROVE QueueInv'
<1> DEFINE msg == [id |-> sstable_counter, table |-> memtable]
<1>1. /\ flush_tx' = Append(flush_tx, msg) /\ sstable_counter' = sstable_counter + 1
      /\ UNCHANGED <<up, flush_rx, writing, files, flushFaults>>
      /\ up /\ sstable_counter \in Nat /\ flush_tx \in Seq(Messages(appended))
  BY DEF Swap, vars, fileFaults, TypeInv
<1>2. /\ Len(flush_tx) \in Nat /\ Len(flush_tx') = Len(flush_tx) + 1
      /\ flush_tx'[Len(flush_tx) + 1].id = sstable_counter
      /\ \A i \in 1..Len(flush_tx) : flush_tx'[i] = flush_tx[i]
      /\ \A i \in 1..Len(flush_tx') : i \in 1..Len(flush_tx) \/ i = Len(flush_tx) + 1
      /\ flush_tx' # <<>>
  BY <1>1, AppendItems
<1>3. \A i \in 1..Len(flush_tx) : flush_tx[i].id \in Nat
  BY QueueIds
<1>4. \A i \in 1..Len(flush_rx) : flush_rx[i].id \in Nat
  BY QueueIds
<1>5. \A i \in 1..Len(flush_tx') : flush_tx'[i].id < sstable_counter'
  BY <1>1, <1>2, <1>3 DEF QueueInv
<1>6. \A i, j \in 1..Len(flush_tx') : i < j => flush_tx'[i].id < flush_tx'[j].id
  BY <1>1, <1>2, <1>3 DEF QueueInv
<1>7. \A i \in 1..Len(flush_rx') :
        Available(files', flush_rx'[i]) /\ flush_rx'[i].id < sstable_counter'
  BY <1>1, <1>4 DEF QueueInv
<1>8. \A i \in 1..Len(flush_rx'), j \in 1..Len(flush_tx') : flush_rx'[i].id < flush_tx'[j].id
  BY <1>1, <1>2 DEF QueueInv
<1>9. writing' => Plain(Head(flush_tx').id) \in DOMAIN files'
  <2>1. ASSUME writing PROVE Head(flush_tx') = Head(flush_tx)
    <3>1. flush_tx # <<>>
      BY <2>1 DEF TypeInv
    <3>2. QED
      BY <1>1, <3>1
  <2>2. QED
    BY <1>1, <2>1 DEF QueueInv
<1>10. QED
  BY <1>1, <1>2, <1>5, <1>6, <1>7, <1>8, <1>9 DEF QueueInv, ImmutableIsBeingFlushed

\* Files that open go on to do so when another one is created or completed.
LEMMA StaysAvailable ==
  ASSUME NEW fs, NEW name, Available(fs, name), NEW other, NEW table
  PROVE  /\ Available(Finish(fs, other, table), name)
         /\ name # other => Available(Create(fs, other), name)
BY DEF Available, Finish, Create

LEMMA SyncFlushQueues ==
  ASSUME QueueInv, TypeInv, MaxFlushFaults = 0, SyncFlush PROVE QueueInv'
<1>1. /\ files' = Finish(files, Plain(sstable_counter), memtable)
      /\ UNCHANGED <<up, immutable_memtable, flush_tx, flush_rx, writing, flushFaults>>
      /\ sstable_counter' = sstable_counter + 1 /\ sstable_counter \in Nat
  BY DEF SyncFlush, vars, fileFaults, QueueInv, TypeInv
<1>2. \A i \in 1..Len(flush_rx) : Available(files', flush_rx[i])
  BY <1>1, StaysAvailable DEF QueueInv
<1>3. DOMAIN files \subseteq DOMAIN files'
  BY <1>1 DEF Finish
<1>4. \A i \in 1..Len(flush_rx) : flush_rx[i].id \in Nat
  BY QueueIds
<1>5. \A i \in 1..Len(flush_tx) : flush_tx[i].id \in Nat
  BY QueueIds
<1>6. /\ \A i \in 1..Len(flush_rx) : flush_rx[i].id < sstable_counter'
      /\ \A i \in 1..Len(flush_tx) : flush_tx[i].id < sstable_counter'
  BY <1>1, <1>4, <1>5 DEF QueueInv
<1>7. QED
  BY <1>1, <1>2, <1>3, <1>6 DEF QueueInv, ImmutableIsBeingFlushed

LEMMA BeginFlushQueues ==
  ASSUME QueueInv, TypeInv, BeginFlush PROVE QueueInv'
<1>1. /\ files' = Create(files, Plain(Head(flush_tx).id))
      /\ UNCHANGED <<up, immutable_memtable, sstable_counter, flush_tx, flush_rx, flushFaults>>
      /\ flush_tx # <<>> /\ flush_tx \in Seq(Messages(appended))
  BY DEF BeginFlush, vars, fileFaults, TypeInv
<1>2. Head(flush_tx).id = flush_tx[1].id /\ 1 \in 1..Len(flush_tx) /\ flush_tx[1].id \in Nat
  BY <1>1, TailItems, QueueIds
<1>3. ASSUME NEW i \in 1..Len(flush_rx) PROVE Available(files', flush_rx[i])
  <2>1. flush_rx[i].id < Head(flush_tx).id /\ flush_rx[i].id \in Nat
    BY <1>2, QueueIds DEF QueueInv
  <2>2. flush_rx[i] # Plain(Head(flush_tx).id)
    BY <1>2, <2>1 DEF Plain
  <2>3. QED
    BY <1>1, <2>2, StaysAvailable DEF QueueInv
<1>4. Plain(Head(flush_tx).id) \in DOMAIN files'
  BY <1>1 DEF Create
<1>5. QED
  BY <1>1, <1>3, <1>4 DEF QueueInv, ImmutableIsBeingFlushed

LEMMA EndFlushQueues ==
  ASSUME QueueInv, TypeInv, EndFlush PROVE QueueInv'
<1> DEFINE name == Plain(Head(flush_tx).id)
<1>1. /\ files' = Finish(files, name, Head(flush_tx).table)
      /\ flush_tx' = Tail(flush_tx) /\ flush_rx' = Append(flush_rx, name)
      /\ UNCHANGED <<up, immutable_memtable, sstable_counter, flushFaults>>
      /\ up /\ ~writing' /\ flush_tx # <<>>
  BY DEF EndFlush, vars, fileFaults, QueueInv, TypeInv
<1>2. flush_tx \in Seq(Messages(appended)) /\ flush_rx \in Seq(Names)
  BY DEF TypeInv
<1>3. /\ Head(flush_tx) = flush_tx[1] /\ 1 \in 1..Len(flush_tx) /\ name.id = flush_tx[1].id
      /\ \A i \in 1..Len(flush_tx') : i + 1 \in 1..Len(flush_tx) /\ i + 1 > 1
                                       /\ flush_tx'[i] = flush_tx[i + 1]
  BY <1>1, <1>2, TailItems DEF Plain
<1>4. /\ \A i \in 1..Len(flush_rx) : flush_rx'[i] = flush_rx[i]
      /\ \A i \in 1..Len(flush_rx') :
           \/ i \in 1..Len(flush_rx) /\ flush_rx'[i] = flush_rx[i]
           \/ flush_rx'[i] = name
      /\ flush_rx' # <<>>
  BY <1>1, <1>2, AppendItems
<1>5. Available(files', name)
  BY <1>1 DEF Available, Finish
<1>6. \A i \in 1..Len(flush_rx') : Available(files', flush_rx'[i])
  <2>1. \A i \in 1..Len(flush_rx) : Available(files', flush_rx[i])
    BY <1>1, StaysAvailable DEF QueueInv
  <2>2. QED
    BY <1>4, <1>5, <2>1
<1>7. \A i \in 1..Len(flush_rx') : flush_rx'[i].id < sstable_counter'
  BY <1>1, <1>3, <1>4 DEF QueueInv
<1>8. \A i \in 1..Len(flush_tx') : flush_tx'[i].id < sstable_counter'
  BY <1>1, <1>3 DEF QueueInv
<1>9. \A i, j \in 1..Len(flush_tx') : i < j => flush_tx'[i].id < flush_tx'[j].id
  BY <1>3 DEF QueueInv
<1>10. \A i \in 1..Len(flush_rx'), j \in 1..Len(flush_tx') : flush_rx'[i].id < flush_tx'[j].id
  BY <1>3, <1>4 DEF QueueInv
<1>11. QED
  BY <1>1, <1>4, <1>6, <1>7, <1>8, <1>9, <1>10 DEF QueueInv, ImmutableIsBeingFlushed

LEMMA QueueNext ==
  ASSUME ~Compaction, MaxFlushFaults = 0, TypeInv, QueueInv, [EngineNext]_evars
  PROVE  QueueInv'
<1>1. CASE PutRefused \/ NothingToCollect \/ MarkFlush \/ CleanLog \/ Insert \/ Poll
           \/ GiveUpWaiting \/ UNCHANGED evars
  <2>1. /\ up' = up
        /\ UNCHANGED <<immutable_memtable, files, sstable_counter, flush_tx, flush_rx, writing,
                       flushFaults>>
    BY <1>1 DEF PutRefused, AppendRefused, AppendRotationFails, FlushFails, NothingToCollect,
       MarkFlush, MarkFlushed, CleanLog, Cleanup, CleanupFails, Insert, Poll, GiveUpWaiting,
       evars, volatile, vars, fileFaults
  <2>2. QED
    BY <2>1, SameQueues
<1>2. CASE CrashEngine \/ StopEngine
  BY <1>2, ForgetQueues DEF CrashEngine, StopEngine, fileFaults, QueueInv
<1>3. CASE FlushThread
  <2>1. ~FlushThreadFails
    BY DEF FlushThreadFails, QueueInv
  <2>2. QED
    BY <1>3, <2>1, BeginFlushQueues, EndFlushQueues DEF FlushThread
<1>4. CASE PutStep
  <2>1. ~(SkipCompaction \/ SelectInputs \/ Merge \/ MergeFails \/ DeleteInput)
    BY DEF TypeInv, SkipCompaction, SelectInputs, Merge, MergeFails, DeleteInput
  <2>2. QED
    BY <1>1, <1>4, <2>1, CollectQueues, SwapQueues, SyncFlushQueues DEF PutStep
<1>5. QED
  BY <1>1, <1>2, <1>3, <1>4, OpenQueues, PutAppendQueues DEF EngineNext

\* The immutable memtable is being flushed, or its result waits to be collected,
\* as long as no flush fails and no compaction deletes files: no order of the
\* thread, of puts that give up waiting, of crashes and restarts leaves it behind.
THEOREM FrozenIsOnItsWay ==
  EngineSpec => [](~Compaction /\ MaxFlushFaults = 0 => ImmutableIsBeingFlushed)
<1>1. EngineInit => TypeInv /\ (~Compaction /\ MaxFlushFaults = 0 => QueueInv)
  BY TypeInit, QueueInit
<1>2. LogInv /\ LogInv' /\ TypeInv
      /\ (~Compaction /\ MaxFlushFaults = 0 => QueueInv) /\ [EngineNext]_evars
      => TypeInv' /\ (~Compaction /\ MaxFlushFaults = 0 => QueueInv)'
  BY TypeNext, QueueNext
<1>3. (~Compaction /\ MaxFlushFaults = 0 => QueueInv)
        => (~Compaction /\ MaxFlushFaults = 0 => ImmutableIsBeingFlushed)
  BY DEF QueueInv
<1>4. QED
  BY <1>1, <1>2, <1>3, EngineKeepsLog, PTL DEF EngineSpec

------------------------------------------------------------------------------
\* Under the engine too, what was written to the log and not cleaned up is what
\* the next recovery reads, as long as no write fails.
THEOREM EngineLogReadable == EngineSpec => []FlushedReadable
BY EngineUsesWal, WrittenIsReadable, PTL

------------------------------------------------------------------------------
(* The log, written through *)

\* The log the server runs: every append is written, and no write or delete fails.
WrittenThrough == BufferCapacity = 1 /\ MaxWriteFaults = 0 /\ MaxDeleteFaults = 0

\* The records of a segment are in the order of their numbers.
Ascends(s) ==
  \A i, j \in 1..Len(s) : i < j /\ s[i] \in Records /\ s[j] \in Records => s[i] < s[j]

\* Segments have ascending records, none of a record given up, and only records
\* newer than every one that was deleted.
Tight(segs, gone, deleted) ==
  \A n \in DOMAIN segs :
    /\ Ascends(segs[n])
    /\ Ids(segs[n]) \cap gone = {}
    /\ \A c \in deleted, r \in Ids(segs[n]) : c < r

\* With nothing in the buffer, append is all or nothing: a record is lost, or it is
\* in its segment until cleanup deletes it.
TightInv ==
  /\ writeFaults = 0 /\ deleteFaults = 0 /\ buffer = <<>>
  /\ \A i \in lost : i <= appended
  /\ Tight(segments, lost, cleaned)

\* The log starts tight: there is nothing in it.
LEMMA TightInit == Init => TightInv
BY DEF Init, TightInv, Tight

\* Nothing written
LEMMA WriteNothing ==
  ASSUME NEW segs, Directory(segs), NEW n
  PROVE  LET new == WriteOut(segs, n, <<>>) IN
         /\ DOMAIN new = DOMAIN segs /\ Directory(new)
         /\ \A m \in DOMAIN segs : new[m] = segs[m]
<1>1. \A q \in Seq(Items) : q \o <<>> = q
  OBVIOUS
<1>2. QED
  BY <1>1 DEF WriteOut, Directory

\* What is left of one item
LEMMA SubSeqOne ==
  ASSUME NEW a
  PROVE  SubSeq(<<a>>, 1, 1) = <<a>> /\ SubSeq(<<a>>, 1, 0) = <<>>
<1>1. <<a>> \in Seq({a}) /\ Len(<<a>>) = 1
  OBVIOUS
<1>2. SubSeq(<<a>>, 1, 1) \in Seq({a}) /\ SubSeq(<<a>>, 1, 0) \in Seq({a})
  BY <1>1
<1>3. Len(SubSeq(<<a>>, 1, 1)) = 1 /\ Len(SubSeq(<<a>>, 1, 0)) = 0
  BY <1>1
<1>4. SubSeq(<<a>>, 1, 1)[1] = a
  BY <1>1
<1>5. SubSeq(<<a>>, 1, 0) = <<>>
  BY <1>2, <1>3
<1>6. \A s \in Seq({a}) : Len(s) = 1 => s = <<s[1]>>
  OBVIOUS
<1>7. QED
  BY <1>2, <1>3, <1>4, <1>5, <1>6

\* A crash with an empty buffer writes nothing.
LEMMA CutOfNothing == \A cut \in CutWrites(<<>>) : cut = <<>>
<1> SUFFICES ASSUME NEW cut \in CutWrites(<<>>) PROVE cut = <<>>
  OBVIOUS
<1>1. Len(<<>>) = 0 /\ SubSeq(<<>>, 1, 0) = <<>>
  OBVIOUS
<1>2. (\A k \in 0..0 : k = 0) /\ 0..(0 - 1) = {}
  OBVIOUS
<1>3. QED
  BY <1>1, <1>2, CutShape

\* A crash within the write of one record leaves it, nothing, or a torn record.
LEMMA CutOfOne ==
  ASSUME NEW a, NEW cut \in CutWrites(<<a>>)
  PROVE  cut = <<a>> \/ cut = <<>> \/ \E t \in {TornHeader, TornBody} : cut = <<t>>
<1>1. \A t : Append(<<>>, t) = <<t>>
  OBVIOUS
<1>2. Len(<<a>>) = 1 /\ (\A k \in 0..1 : k = 0 \/ k = 1) /\ (\A k \in 0..(1 - 1) : k = 0)
  OBVIOUS
<1>3. \/ \E k \in 0..1 : cut = SubSeq(<<a>>, 1, k)
      \/ \E k \in 0..(1 - 1), t \in {TornHeader, TornBody} :
           cut = Append(SubSeq(<<a>>, 1, k), t)
  BY <1>2, CutShape
<1>4. QED
  BY <1>1, <1>2, <1>3, SubSeqOne

\* One item written behind a sequence
LEMMA OneMore ==
  ASSUME NEW q \in Seq(Items), NEW x \in Items
  PROVE  /\ q \o <<x>> \in Seq(Items) /\ Len(q \o <<x>>) = Len(q) + 1 /\ Len(q) \in Nat
         /\ (q \o <<x>>)[Len(q) + 1] = x
         /\ \A i \in 1..Len(q) : (q \o <<x>>)[i] = q[i]
OBVIOUS

\* A new record, newer than all there are, or a torn one keeps segments tight.
LEMMA TightWrite ==
  ASSUME NEW segs, Directory(segs), NEW gone, NEW deleted, Tight(segs, gone, deleted), NEW n,
         NEW x \in Items,
         x \in Records => /\ x \notin gone
                          /\ \A c \in deleted : c < x
                          /\ \A m \in DOMAIN segs : \A r \in Ids(segs[m]) : r < x
  PROVE  Tight(WriteOut(segs, n, <<x>>), gone, deleted)
<1> DEFINE new == WriteOut(segs, n, <<x>>)
<1> SUFFICES ASSUME NEW m \in DOMAIN segs
             PROVE  /\ Ascends(new[m]) /\ Ids(new[m]) \cap gone = {}
                    /\ \A c \in deleted, r \in Ids(new[m]) : c < r
  BY DEF WriteOut, Tight
<1>1. CASE m # n
  BY <1>1 DEF WriteOut, Tight
<1>2. CASE m = n
  <2> DEFINE q == segs[m]
  <2>1. new[m] = q \o <<x>> /\ q \in Seq(Items)
    BY <1>2 DEF WriteOut, Directory
  <2>2. Ascends(q) /\ Ids(q) \cap gone = {} /\ \A c \in deleted, r \in Ids(q) : c < r
    BY DEF Tight
  <2>3. x \in Records => \A r \in Ids(q) : r < x
    OBVIOUS
  <2> HIDE DEF q, new
  <2>4. /\ Len(new[m]) = Len(q) + 1 /\ Len(q) \in Nat
        /\ new[m][Len(q) + 1] = x
        /\ \A i \in 1..Len(q) : new[m][i] = q[i]
    BY <2>1, OneMore
  <2>5. \A i \in 1..Len(q) : q[i] \in Records => q[i] \in Ids(q)
    BY DEF Ids
  <2>6. Ids(new[m]) \subseteq Ids(q) \cup ({x} \cap Records)
    BY <2>4, <2>5 DEF Ids
  <2>7. Ascends(new[m])
    <3> SUFFICES ASSUME NEW i \in 1..Len(new[m]), NEW j \in 1..Len(new[m]), i < j,
                        new[m][i] \in Records, new[m][j] \in Records
                 PROVE  new[m][i] < new[m][j]
      BY DEF Ascends
    <3>1. i \in 1..Len(q) /\ (j \in 1..Len(q) \/ j = Len(q) + 1)
      BY <2>4
    <3>2. CASE j \in 1..Len(q)
      BY <2>2, <2>4, <3>1, <3>2 DEF Ascends
    <3>3. CASE j = Len(q) + 1
      BY <2>3, <2>4, <2>5, <3>1, <3>3
    <3>4. QED
      BY <3>1, <3>2, <3>3
  <2>8. QED
    BY <2>2, <2>6, <2>7
<1>3. QED
  BY <1>1, <1>2

\* Tight is a matter of the contents only.
LEMMA TightSame ==
  ASSUME NEW segs, NEW gone, NEW deleted, Tight(segs, gone, deleted), NEW new,
         \A n \in DOMAIN new : n \in DOMAIN segs /\ new[n] = segs[n]
  PROVE  Tight(new, gone, deleted)
BY DEF Tight

\* So does an empty segment.
LEMMA TightCreate ==
  ASSUME NEW segs, NEW gone, NEW deleted, Tight(segs, gone, deleted), NEW n
  PROVE  Tight(CreateSegment(segs, n), gone, deleted)
<1>1. Ascends(<<>>) /\ Ids(<<>>) = {}
  BY DEF Ascends, Ids
<1>2. QED
  BY <1>1 DEF CreateSegment, Tight

\* More records lost that are in no segment
LEMMA TightLoses ==
  ASSUME NEW segs, NEW gone, NEW deleted, Tight(segs, gone, deleted), NEW more,
         \A n \in DOMAIN segs : Ids(segs[n]) \cap more = {}
  PROVE  Tight(segs, gone \cup more, deleted)
BY DEF Tight

\* append to a segment of a tight directory, with or without a crash within it
LEMMA AppendToTight ==
  ASSUME LogInv, TightInv, WrittenThrough, NEW STATE segs, NEW STATE n, NEW STATE w,
         Directory(segs), Past(segs), Tight(segs, lost, cleaned), appended < MaxAppends,
         AppendTo(segs, n, <<>>, w)
  PROVE  TightInv'
<1> DEFINE a == appended + 1
           pending == Append(<<>>, a)
<1>1. a \in Records /\ appended \in Nat
  BY WalAssumption DEF LogInv, TypeOK, Records
<1>2. pending = <<a>> /\ Len(pending) = 1
  OBVIOUS
<1>3. /\ \A i \in lost : i <= appended /\ i \in Nat
      /\ \A c \in cleaned : c <= appended /\ c \in Nat
      /\ \A m \in DOMAIN segs : \A r \in Ids(segs[m]) : r <= appended /\ r \in Nat
  <2>1. \A c \in cleaned : c <= appended /\ c \in Nat
    BY <1>1 DEF LogInv, TypeOK, CleanupSafe, Records
  <2>2. \A i \in lost : i <= appended /\ i \in Nat
    BY DEF LogInv, TypeOK, TightInv, Records
  <2>3. QED
    BY <2>1, <2>2 DEF Past, Ids, Records
<1>4. /\ a \notin lost /\ \A c \in cleaned : c < a
      /\ \A m \in DOMAIN segs : a \notin Ids(segs[m]) /\ \A r \in Ids(segs[m]) : r < a
  BY <1>1, <1>3
<1>5. Tight(WriteOut(segs, n, <<a>>), lost, cleaned)
  <2> HIDE DEF a
  <2>1. a \in Items
    BY <1>1 DEF Items
  <2>2. QED
    BY <1>4, <2>1, TightWrite
<1>6. /\ appended' = a /\ UNCHANGED <<cleaned, deleteFaults>>
      /\ \/ /\ segments' = WriteOut(segs, n, pending) /\ buffer' = <<>>
            /\ UNCHANGED <<writeFaults, lost>>
         \/ /\ \E cut \in CutWrites(pending) :
                  /\ segments' = WriteOut(segs, n, cut)
                  /\ lost' = lost \cup (Ids(pending) \ Ids(cut))
            /\ buffer' = <<>> /\ UNCHANGED writeFaults
  <2>1. ~(Len(pending) < BufferCapacity) /\ ~(writeFaults < MaxWriteFaults)
    BY <1>2 DEF WrittenThrough, TightInv
  <2> HIDE DEF pending
  <2>2. QED
    BY <2>1 DEF AppendTo, ContinueOn, Forget, pending
<1> HIDE DEF a, pending
<1>7. CASE segments' = WriteOut(segs, n, pending) /\ UNCHANGED lost
  BY <1>1, <1>2, <1>3, <1>5, <1>6, <1>7 DEF TightInv, a
<1>8. ASSUME NEW cut \in CutWrites(pending), segments' = WriteOut(segs, n, cut),
             lost' = lost \cup (Ids(pending) \ Ids(cut))
      PROVE  Tight(segments', lost', cleaned) /\ \A i \in lost' : i <= appended'
  <2>1. Ids(<<a>>) = {a} /\ Ids(<<>>) = {}
    BY <1>1 DEF Ids
  <2>2. cut = <<a>> \/ cut = <<>> \/ \E t \in {TornHeader, TornBody} : cut = <<t>>
    BY <1>2, CutOfOne
  <2>3. \A i \in lost' : i <= appended'
    BY <1>1, <1>2, <1>3, <1>6, <1>8, <2>1 DEF a
  <2>4. CASE cut = <<a>>
    <3>1. lost' = lost
      BY <1>2, <1>8, <2>4
    <3>2. QED
      BY <1>5, <1>8, <2>3, <2>4, <3>1
  <2>5. CASE cut = <<>>
    <3>1. /\ Tight(segments', lost, cleaned) /\ lost' = lost \cup {a}
          /\ \A m \in DOMAIN segments' : m \in DOMAIN segs /\ segments'[m] = segs[m]
      BY <1>2, <1>8, <2>1, <2>5, WriteNothing, TightSame
    <3>2. QED
      BY <1>4, <2>3, <3>1, TightLoses
  <2>6. ASSUME NEW t \in {TornHeader, TornBody}, cut = <<t>>
        PROVE  Tight(segments', lost', cleaned)
    <3>1. t \in Items /\ t \notin Records /\ Ids(<<t>>) = {} /\ <<t>> \in Seq(Items)
      BY WalAssumption DEF Items, Records, Ids
    <3>2. Tight(segments', lost, cleaned) /\ lost' = lost \cup {a}
      BY <1>2, <1>8, <2>1, <2>6, <3>1, TightWrite
    <3>3. \A m \in DOMAIN segments' : m \in DOMAIN segs
                                      /\ Ids(segments'[m]) \subseteq Ids(segs[m])
      <4>1. /\ DOMAIN segments' = DOMAIN segs
            /\ \A m \in DOMAIN segs : m # n => segments'[m] = segs[m]
            /\ n \in DOMAIN segs => Ids(segments'[n]) = Ids(segs[n]) \cup Ids(<<t>>)
        <5>1. segments' = WriteOut(segs, n, <<t>>)
          BY <1>8, <2>6
        <5>2. ASSUME n \in DOMAIN segs
              PROVE  Ids(segs[n] \o <<t>>) = Ids(segs[n]) \cup Ids(<<t>>)
          BY <3>1, <5>2, IdsConcat DEF Directory
        <5>3. QED
          BY <5>1, <5>2 DEF WriteOut
      <4>2. QED
        BY <3>1, <4>1
    <3>4. QED
      BY <1>4, <3>2, <3>3, TightLoses
  <2>7. QED
    BY <2>2, <2>3, <2>4, <2>5, <2>6
<1>9. QED
  BY <1>6, <1>7, <1>8 DEF TightInv

\* The flush of a rotation or a shutdown finds the buffer empty.
LEMMA TightWriteNothing ==
  ASSUME LogInv, TightInv
  PROVE  /\ Tight(WriteOut(segments, current_segment, buffer), lost, cleaned)
         /\ Directory(WriteOut(segments, current_segment, buffer))
<1>1. Directory(segments) /\ buffer = <<>> /\ Tight(segments, lost, cleaned)
  BY LogInvDirectory DEF TightInv
<1> DEFINE new == WriteOut(segments, current_segment, <<>>)
<1>2. DOMAIN new = DOMAIN segments /\ Directory(new)
      /\ \A m \in DOMAIN segments : new[m] = segments[m]
  BY <1>1, WriteNothing
<1>3. Tight(new, lost, cleaned)
  <2> HIDE DEF new
  <2>1. QED
    BY <1>1, <1>2, TightSame
<1>4. QED
  BY <1>1, <1>2, <1>3

\* So does a rotation, which only adds a segment.
LEMMA TightRotated ==
  ASSUME LogInv, TightInv PROVE Tight(Rotated, lost, cleaned)
BY TightWriteNothing, TightCreate DEF Rotated

\* Cleanup deletes whole segments, older than those it leaves.
LEMMA TightCleanup ==
  ASSUME LogInv, TightInv, NEW r \in 0..MaxSegments, Cleanup(r) PROVE TightInv'
<1>1. /\ segments' = [n \in DOMAIN segments \ Victims(r) |-> segments[n]]
      /\ cleaned' = cleaned \cup UNION {Ids(segments[n]) : n \in Victims(r)}
      /\ UNCHANGED <<lost, appended, buffer, writeFaults, deleteFaults>>
  BY DEF Cleanup, Delete, memory, faults
<1>2. ASSUME NEW n \in DOMAIN segments', NEW c \in cleaned', NEW i \in Ids(segments'[n])
      PROVE  c < i
  <2>1. n \in DOMAIN segments /\ n \notin Victims(r) /\ i \in Ids(segments[n])
    BY <1>1, <1>2
  <2>2. CASE c \in cleaned
    BY <2>1, <2>2 DEF TightInv, Tight
  <2>3. ASSUME NEW m \in Victims(r), c \in Ids(segments[m]) PROVE c < i
    <3>1. m \in DOMAIN segments /\ m < n
      BY <2>1, WalAssumption DEF Victims, SafeToDelete, LogInv, TypeOK
    <3>2. QED
      BY <2>1, <2>3, <3>1, LogInvDirectory DEF Ordered
  <2>4. QED
    BY <1>1, <1>2, <2>2, <2>3
<1>3. Tight(segments', lost', cleaned')
  BY <1>1, <1>2 DEF TightInv, Tight
<1>4. QED
  BY <1>1, <1>3 DEF TightInv

\* Every step of the log keeps it tight.
LEMMA TightNext ==
  ASSUME WrittenThrough, LogInv, TightInv, [Next]_vars PROVE TightInv'
<1>1. ASSUME NEW n \in 1..MaxSegments, Open(n) PROVE TightInv'
  <2>1. segments' = CreateSegment(segments, n) /\ UNCHANGED <<history, faults>>
        /\ buffer' = <<>>
    BY <1>1 DEF Open, TightInv, memory
  <2>2. QED
    BY <2>1, TightCreate DEF TightInv, history, faults
<1>2. CASE AppendHere
  <2>1. AppendTo(segments, current_segment, <<>>, bytes_written) /\ appended < MaxAppends
    BY <1>2 DEF AppendHere, TightInv
  <2>2. QED
    BY <2>1, LogInvDirectory, AppendToTight DEF TightInv
<1>3. CASE AppendRotating
  <2>1. AppendTo(Rotated, segment_number + 1, <<>>, 0) /\ appended < MaxAppends
        /\ up /\ segment_number < MaxSegments
    BY <1>3 DEF AppendRotating
  <2>2. QED
    BY <2>1, RotationFacts, TightRotated, AppendToTight
<1>4. CASE AppendRefused
  BY <1>4, TightRotated DEF AppendRefused, TightInv, history, faults
<1>5. CASE AppendRotationFails \/ Flush \/ Shutdown
  <2>1. /\ segments' = WriteOut(segments, current_segment, buffer) /\ buffer' = <<>>
        /\ UNCHANGED <<lost, appended, cleaned, writeFaults, deleteFaults>>
    BY <1>5 DEF AppendRotationFails, Flush, Shutdown, Forget, history, faults
  <2>2. QED
    BY <2>1, TightWriteNothing DEF TightInv
<1>6. CASE Crash
  <2>1. PICK cut \in CutWrites(<<>>) :
          /\ segments' = WriteOut(segments, current_segment, cut)
          /\ lost' = lost \cup (Ids(<<>>) \ Ids(cut))
    BY <1>6 DEF Crash, TightInv
  <2>2. segments' = WriteOut(segments, current_segment, buffer) /\ lost' = lost
    BY <2>1, CutOfNothing DEF TightInv
  <2>3. buffer' = <<>> /\ UNCHANGED <<appended, cleaned, writeFaults, deleteFaults>>
    BY <1>6 DEF Crash, Forget
  <2>4. QED
    BY <2>2, <2>3, TightWriteNothing DEF TightInv
<1>7. CASE FlushFails
  BY <1>7 DEF FlushFails, TightInv
<1>8. CASE MarkFlushed
  BY <1>8 DEF MarkFlushed, faults, TightInv
<1>9. ASSUME NEW r \in 0..MaxSegments, Cleanup(r) \/ CleanupFails(r) PROVE TightInv'
  <2>1. ~CleanupFails(r)
    BY DEF CleanupFails, WrittenThrough, TightInv
  <2>2. QED
    BY <1>9, <2>1, TightCleanup
<1>10. CASE UNCHANGED vars
  BY <1>10 DEF vars, memory, history, faults, TightInv
<1>11. QED
  BY <1>1, <1>2, <1>3, <1>4, <1>5, <1>6, <1>7, <1>8, <1>9, <1>10 DEF Next

------------------------------------------------------------------------------
(* What a replay finds *)

\* What a recovery from segs has for k
ReplayOf(segs, k) == Replay([n \in DOMAIN segs |-> Entries(segs[n])], k)

\* In a segment torn at the end every record is readable.
LEMMA StoredReadable ==
  ASSUME NEW segs, Directory(segs), AllTornLast(segs), NEW n \in DOMAIN segs, NEW v \in Ids(segs[n])
  PROVE  \E i \in Intact(segs[n]) : segs[n][i] = v
<1>1. PICK i \in 1..Len(segs[n]) : segs[n][i] = v /\ v \in Records
  BY DEF Ids
<1>2. Len(segs[n]) \in Nat
  BY DEF Directory
<1>3. \A j \in 1..i : j = i \/ j \in 1..(Len(segs[n]) - 1)
  BY <1>1, <1>2
<1>4. \A j \in 1..i : segs[n][j] \in Records
  BY <1>1, <1>3 DEF AllTornLast, TornLast
<1>5. QED
  BY <1>1, <1>4 DEF Intact

\* A replay answers with the newest record of the key in the log.
LEMMA ReplayNewest ==
  ASSUME NEW segs, Directory(segs), Ordered(segs), AllTornLast(segs),
         \A n \in DOMAIN segs : Ascends(segs[n]), NEW k
  PROVE  /\ \/ ReplayOf(segs, k) = 0
            \/ ReplayOf(segs, k) \in Stored(segs) /\ keyOf[ReplayOf(segs, k)] = k
         /\ \A v \in Stored(segs) : keyOf[v] = k => v <= ReplayOf(segs, k)
<1> DEFINE log == [n \in DOMAIN segs |-> Entries(segs[n])]
           at == Occurrences(log, k)
<1>1. /\ Finite(log) /\ DOMAIN log = DOMAIN segs
      /\ \A n \in DOMAIN segs : DOMAIN log[n] = Intact(segs[n])
      /\ \A n \in DOMAIN segs : \A i \in Intact(segs[n]) : log[n][i] = segs[n][i]
  BY EntriesFinite DEF Entries
<1>2. \A n \in DOMAIN segs : \A i \in Intact(segs[n]) :
        i \in 1..Len(segs[n]) /\ segs[n][i] \in Records /\ segs[n][i] \in Ids(segs[n])
  <2> SUFFICES ASSUME NEW n \in DOMAIN segs, NEW i \in Intact(segs[n])
               PROVE  i \in 1..Len(segs[n]) /\ segs[n][i] \in Records /\ segs[n][i] \in Ids(segs[n])
    OBVIOUS
  <2>1. i \in 1..Len(segs[n]) /\ \A j \in 1..i : segs[n][j] \in Records
    BY DEF Intact
  <2>2. i \in 1..i
    BY <2>1
  <2>3. QED
    BY <2>1, <2>2 DEF Ids
<1>3. ASSUME NEW v \in Stored(segs), keyOf[v] = k
      PROVE  \E p \in at : log[p[1]][p[2]] = v
  <2>1. PICK n \in DOMAIN segs : v \in Ids(segs[n])
    BY DEF Stored
  <2>2. PICK i \in Intact(segs[n]) : segs[n][i] = v
    BY <2>1, StoredReadable
  <2>3. <<n, i>> \in at
    BY <1>1, <1>3, <2>2 DEF Occurrences
  <2>4. QED
    BY <1>1, <2>2, <2>3
<1>4. CASE at = {}
  <2>1. ReplayOf(segs, k) = 0
    BY <1>4 DEF ReplayOf, Replay
  <2> HIDE DEF at
  <2>2. \A v \in Stored(segs) : keyOf[v] # k
    BY <1>3, <1>4
  <2>3. QED
    BY <2>1, <2>2
<1>5. CASE at # {}
  <2>1. PICK p \in at : /\ ReplayOf(segs, k) = log[p[1]][p[2]]
                        /\ \A q \in at : q[1] < p[1] \/ (q[1] = p[1] /\ q[2] <= p[2])
    <3> HIDE DEF log
    <3>1. QED
      BY <1>1, <1>5, ReplayLast DEF ReplayOf, log
  <2>2. \A q \in at : q[1] \in DOMAIN segs /\ q[2] \in Intact(segs[q[1]])
                      /\ log[q[1]][q[2]] = segs[q[1]][q[2]] /\ keyOf[log[q[1]][q[2]]] = k
    BY <1>1 DEF Occurrences
  <2> HIDE DEF log, at
  <2>3. ReplayOf(segs, k) \in Stored(segs) /\ keyOf[ReplayOf(segs, k)] = k
    BY <1>2, <2>1, <2>2 DEF Stored
  <2>4. ASSUME NEW v \in Stored(segs), keyOf[v] = k PROVE v <= ReplayOf(segs, k)
    <3>1. PICK q \in at : log[q[1]][q[2]] = v
      BY <1>3, <2>4
    <3>2. /\ q[1] \in DOMAIN segs /\ v = segs[q[1]][q[2]] /\ v \in Records
          /\ q[2] \in 1..Len(segs[q[1]]) /\ v \in Ids(segs[q[1]])
      BY <1>2, <2>2, <3>1
    <3>3. /\ p[1] \in DOMAIN segs /\ ReplayOf(segs, k) = segs[p[1]][p[2]]
          /\ ReplayOf(segs, k) \in Records
          /\ p[2] \in 1..Len(segs[p[1]]) /\ ReplayOf(segs, k) \in Ids(segs[p[1]])
      BY <1>2, <2>1, <2>2
    <3>4. CASE q[1] < p[1]
      BY <3>2, <3>3, <3>4 DEF Ordered, Records
    <3>5. CASE q[1] = p[1] /\ q[2] = p[2]
      BY <3>2, <3>3, <3>5 DEF Records
    <3>6. CASE q[1] = p[1] /\ q[2] < p[2]
      BY <3>2, <3>3, <3>6 DEF Ascends, Records
    <3>7. QED
      BY <2>1, <3>2, <3>3, <3>4, <3>5, <3>6
  <2>5. QED
    BY <2>3, <2>4
<1>6. QED
  BY <1>4, <1>5

------------------------------------------------------------------------------
(* What a restart finds *)

\* The versions of k that the log took
Live(k) == {v \in 1..appended : v \notin lost /\ keyOf[v] = k}

\* A replay answers with the newest version of the key that is still in the log,
\* and only a version that cleanup has deleted can be missing: every version
\* deleted is older than every one that stayed.
LEMMA ReplayFacts ==
  ASSUME NEW segs, Directory(segs), Ordered(segs), Past(segs), AllTornLast(segs),
         Tight(segs, lost, cleaned), appended \in Nat,
         1..appended \subseteq lost \cup cleaned \cup Stored(segs), NEW k
  PROVE  /\ ReplayOf(segs, k) \in {0} \cup Live(k)
         /\ \A v \in Live(k) : v <= ReplayOf(segs, k) \/ v \in cleaned
         /\ ReplayOf(segs, k) # 0 => \A v \in cleaned : v < ReplayOf(segs, k)
<1> DEFINE r == ReplayOf(segs, k)
<1>1. /\ r = 0 \/ (r \in Stored(segs) /\ keyOf[r] = k)
      /\ \A v \in Stored(segs) : keyOf[v] = k => v <= r
  BY ReplayNewest DEF Tight
<1>2. ASSUME NEW v \in Stored(segs)
      PROVE  v \in 1..appended /\ v \notin lost /\ \A c \in cleaned : c < v
  <2>1. PICK n \in DOMAIN segs : v \in Ids(segs[n])
    BY DEF Stored
  <2>2. v \in Nat /\ v >= 1
    BY <2>1 DEF Ids, Records
  <2>3. v <= appended /\ v \notin lost /\ \A c \in cleaned : c < v
    BY <2>1 DEF Past, Tight
  <2>4. QED
    BY <2>2, <2>3
<1> HIDE DEF r
<1>3. r \in {0} \cup Live(k)
  BY <1>1, <1>2 DEF Live
<1>4. \A v \in Live(k) : v <= r \/ v \in cleaned
  BY <1>1 DEF Live
<1>5. r # 0 => \A v \in cleaned : v < r
  BY <1>1, <1>2
<1>6. QED
  BY <1>3, <1>4, <1>5 DEF r

\* A start loads every file that opens, once, in the order of the numbers.
LEMMA LoadsAll ==
  ASSUME NEW c \in Nat, FilesTyped(files, c), \A n \in Loadable : n = Plain(n.id),
         NEW s \in LoadOrders
  PROVE  /\ \A i \in 1..Len(s) : s[i].name \in Loadable /\ s[i] = Reader(files, s[i].name)
         /\ \A i, j \in 1..Len(s) : i < j => s[i].name.id < s[j].name.id
         /\ \A n \in Loadable : \E i \in 1..Len(s) : s[i].name = n
<1> DEFINE f == [m \in Loadable |-> Reader(files, m)]
           R == {f[m] : m \in Loadable}
           D == 1..Cardinality(R)
<1>1. R = {Reader(files, m) : m \in Loadable}
  OBVIOUS
<1>2. IsFiniteSet(R) /\ Cardinality(R) \in Nat
  <2>1. DOMAIN f = Loadable
    OBVIOUS
  <2> HIDE DEF f
  <2>2. IsFiniteSet(R)
    BY <2>1, LoadableFinite, FiniteImage
  <2> HIDE DEF R
  <2>3. QED
    BY <2>2, FS_CardinalityType
<1>3. /\ s \in [D -> R] /\ \A i, j \in D : i # j => s[i] # s[j]
      /\ \A i, j \in 1..Len(s) : i < j => SortKey(s[i].name) <= SortKey(s[j].name)
  BY <1>1 DEF LoadOrders, SetToSeqs
<1>4. Len(s) = Cardinality(R)
  <2> HIDE DEF R
  <2>1. s \in Seq(R)
    BY <1>2, <1>3
  <2>2. QED
    BY <1>2, <1>3, <2>1
<1>5. \A r \in R : r.name \in Loadable /\ r = Reader(files, r.name)
  BY DEF Reader
<1>6. \A m \in Loadable : Reader(files, m) \in R /\ Reader(files, m).name = m
  BY DEF Reader
<1>7. s \in Surjection(D, R)
  <2> HIDE DEF R
  <2>1. s \in Injection(D, R)
    BY <1>3 DEF Injection, IsInjective
  <2>2. Cardinality(D) = Cardinality(R)
    BY <1>2, FS_Interval
  <2>3. QED
    BY <1>2, <2>1, <2>2, FS_Injection
<1>8. \A r \in R : \E i \in D : s[i] = r
  <2> HIDE DEF R
  <2>1. QED
    BY <1>7 DEF Surjection
<1>9. ASSUME NEW i \in 1..Len(s), NEW j \in 1..Len(s), i < j
      PROVE  s[i].name.id < s[j].name.id
  <2>1. s[i] \in R /\ s[j] \in R /\ s[i] # s[j]
    <3> HIDE DEF R
    <3>1. QED
      BY <1>2, <1>3, <1>4, <1>9
  <2> DEFINE n == s[i].name
             m == s[j].name
  <2>2. n \in Loadable /\ m \in Loadable /\ n # m
    <3> HIDE DEF R
    <3>1. QED
      BY <1>5, <2>1
  <2>3. n = Plain(n.id) /\ m = Plain(m.id) /\ n.id \in Nat /\ m.id \in Nat
    BY <2>2, LoadableFinite DEF FilesTyped, Names
  <2>4. n.id <= m.id
    BY <1>3, <1>9, <2>3 DEF SortKey, Plain
  <2>5. n.id # m.id
    BY <2>2, <2>3
  <2>6. QED
    BY <2>3, <2>4, <2>5
<1>10. QED
  <2> HIDE DEF R
  <2>1. \A i \in 1..Len(s) : s[i] \in R
    BY <1>2, <1>3, <1>4
  <2>2. \A n \in Loadable : \E i \in 1..Len(s) : s[i].name = n
    BY <1>4, <1>6, <1>8
  <2>3. QED
    BY <1>5, <1>9, <2>1, <2>2

==============================================================================
