------------------------------- MODULE WalProofs -------------------------------
(* Proofs about module Wal, for every value of its constants: the inductive  *)
(* invariant LogInv and the safety properties that follow from it; then, that *)
(* what is written out is what recovery reads, as long as no write fails,     *)
(* because torn records stay at the end of their segments.                   *)
EXTENDS Wal, TLAPS

------------------------------------------------------------------------------
(* Contents of files and buffers *)

\* A sequence of items, as a file or a buffer holds.
LEMMA IdsType == \A s \in Seq(Items) : Ids(s) \subseteq Records
BY DEF Ids

\* Writing t behind s adds its records and removes none.
LEMMA IdsConcat ==
  ASSUME NEW s \in Seq(Items), NEW t \in Seq(Items)
  PROVE  /\ s \o t \in Seq(Items)
         /\ Ids(s \o t) = Ids(s) \cup Ids(t)
<1>1. s \o t \in Seq(Items)
  OBVIOUS
<1>2. ASSUME NEW r \in Ids(s) PROVE r \in Ids(s \o t)
  <2>1. PICK i \in 1..Len(s) : s[i] = r
    BY DEF Ids
  <2>2. i \in 1..Len(s \o t) /\ (s \o t)[i] = r
    BY <2>1
  <2>3. QED
    BY <2>2 DEF Ids
<1>3. ASSUME NEW r \in Ids(t) PROVE r \in Ids(s \o t)
  <2>1. PICK i \in 1..Len(t) : t[i] = r
    BY DEF Ids
  <2>2. Len(s) + i \in 1..Len(s \o t) /\ (s \o t)[Len(s) + i] = r
    BY <2>1
  <2>3. QED
    BY <2>2 DEF Ids
<1>4. ASSUME NEW r \in Ids(s \o t) PROVE r \in Ids(s) \cup Ids(t)
  <2>1. PICK i \in 1..Len(s \o t) : (s \o t)[i] = r
    BY DEF Ids
  <2>2. CASE i <= Len(s)
    <3>1. i \in 1..Len(s) /\ s[i] = r
      BY <2>1, <2>2
    <3>2. QED
      BY <3>1 DEF Ids
  <2>3. CASE i > Len(s)
    <3>1. i - Len(s) \in 1..Len(t) /\ t[i - Len(s)] = r
      BY <2>1, <2>3
    <3>2. QED
      BY <3>1 DEF Ids
  <2>4. QED
    BY <2>1, <2>2, <2>3
<1>5. QED
  BY <1>1, <1>2, <1>3, <1>4

\* Buffering a record adds it.
LEMMA IdsAppend ==
  ASSUME NEW s \in Seq(Records), NEW r \in Records
  PROVE  /\ Append(s, r) \in Seq(Records)
         /\ Ids(Append(s, r)) = Ids(s) \cup {r}
<1>1. Append(s, r) \in Seq(Records) /\ Len(Append(s, r)) = Len(s) + 1
  OBVIOUS
<1>2. \A i \in 1..Len(s) : Append(s, r)[i] = s[i]
  OBVIOUS
<1>3. Append(s, r)[Len(s) + 1] = r
  OBVIOUS
<1>4. QED
  BY <1>1, <1>2, <1>3 DEF Ids

\* A buffer is a sequence of items, and the empty one holds nothing.
LEMMA BufferItems ==
  /\ \A b \in Seq(Records) : b \in Seq(Items)
  /\ <<>> \in Seq(Items) /\ <<>> \in Seq(Records) /\ Ids(<<>>) = {}
<1>1. Records \subseteq Items
  BY DEF Items
<1>2. QED
  BY <1>1 DEF Ids

\* A write cut short leaves records of the buffer, and maybe a torn one.
LEMMA CutWritesType ==
  ASSUME NEW b \in Seq(Records), NEW cut \in CutWrites(b)
  PROVE  cut \in Seq(Items) /\ Ids(cut) \subseteq Ids(b)
<1>1. ASSUME NEW k \in 0..Len(b)
      PROVE  SubSeq(b, 1, k) \in Seq(Items) /\ Ids(SubSeq(b, 1, k)) \subseteq Ids(b)
  <2>1. SubSeq(b, 1, k) \in Seq(Records)
    OBVIOUS
  <2>2. Len(SubSeq(b, 1, k)) = k /\ \A i \in 1..k : SubSeq(b, 1, k)[i] = b[i]
    OBVIOUS
  <2>3. QED
    BY <2>1, <2>2, BufferItems DEF Ids
<1>2. CASE \E k \in 0..Len(b) : cut = SubSeq(b, 1, k)
  BY <1>1, <1>2
<1>3. CASE \E k \in 0..(Len(b) - 1), t \in {TornHeader, TornBody} :
             cut = Append(SubSeq(b, 1, k), t)
  <2>1. PICK k \in 0..(Len(b) - 1), t \in {TornHeader, TornBody} :
               cut = Append(SubSeq(b, 1, k), t)
    BY <1>3
  <2>2. k \in 0..Len(b) /\ t \in Items
    BY DEF Items
  <2>3. SubSeq(b, 1, k) \in Seq(Items) /\ Ids(SubSeq(b, 1, k)) \subseteq Ids(b)
    BY <1>1, <2>2
  <2> DEFINE p == SubSeq(b, 1, k)
  <2>4. cut = Append(p, t) /\ p \in Seq(Items)
    BY <2>1, <2>3
  <2> HIDE DEF p
  <2>5. cut \in Seq(Items)
    BY <2>2, <2>4
  <2>6. t \notin Records
    BY WalAssumption DEF Records
  <2>7. Len(cut) = Len(p) + 1 /\ cut[Len(p) + 1] = t /\ \A i \in 1..Len(p) : cut[i] = p[i]
    BY <2>4, <2>2
  <2>8. Ids(cut) \subseteq Ids(p)
    BY <2>4, <2>6, <2>7 DEF Ids
  <2>9. QED
    BY <2>3, <2>5, <2>8 DEF p
<1>4. QED
  BY <1>2, <1>3 DEF CutWrites

------------------------------------------------------------------------------
(* The directory *)

\* The directory maps segment numbers to sequences of items.
Directory(segs) ==
  /\ DOMAIN segs \subseteq 1..MaxSegments
  /\ \A n \in DOMAIN segs : segs[n] \in Seq(Items)

\* write_all to file n changes that file only.
LEMMA WriteOutFacts ==
  ASSUME NEW segs, Directory(segs), NEW n, NEW items \in Seq(Items)
  PROVE  LET new == WriteOut(segs, n, items) IN
         /\ Directory(new)
         /\ DOMAIN new = DOMAIN segs
         /\ \A m \in DOMAIN segs : m # n => new[m] = segs[m]
         /\ n \in DOMAIN segs => Ids(new[n]) = Ids(segs[n]) \cup Ids(items)
BY IdsConcat DEF WriteOut, Directory

\* Opening a segment file adds it when it is missing, and changes no other.
LEMMA CreateSegmentFacts ==
  ASSUME NEW segs, Directory(segs), NEW n \in 1..MaxSegments
  PROVE  LET new == CreateSegment(segs, n) IN
         /\ Directory(new)
         /\ DOMAIN new = DOMAIN segs \cup {n}
         /\ \A m \in DOMAIN segs : new[m] = segs[m]
         /\ n \notin DOMAIN segs => Ids(new[n]) = {}
BY BufferItems DEF CreateSegment, Directory

\* The parts of the invariant that are about the directory, for any directory.
Stored(segs) == UNION {Ids(segs[n]) : n \in DOMAIN segs}
Ordered(segs) ==
  \A m, n \in DOMAIN segs : m < n => \A i \in Ids(segs[m]), j \in Ids(segs[n]) : i < j
Past(segs) == \A n \in DOMAIN segs : \A i \in Ids(segs[n]) : i <= appended
BelowMark(segs) ==
  \A n \in DOMAIN segs : n < last_flushed_segment => \A i \in Ids(segs[n]) : i <= marked

\* What LogInv says of the directory.
LEMMA LogInvDirectory ==
  ASSUME LogInv
  PROVE  /\ Directory(segments) /\ Ordered(segments) /\ Past(segments)
         /\ BelowMark(segments)
         /\ 1..appended \subseteq Ids(buffer) \cup lost \cup cleaned \cup Stored(segments)
BY DEF LogInv, TypeOK, Directory, Ordered, SegmentOrder, Past, HistoryInv, BelowMark,
       FlushPointInv, NoSilentLoss, Stored

\* Writing out some of the buffer keeps the directory in order: the current
\* segment is the last one, or there is nothing to write.
LEMMA WriteBuffer ==
  ASSUME LogInv, up, NEW items \in Seq(Items), Ids(items) \subseteq Ids(buffer)
  PROVE  LET new == WriteOut(segments, current_segment, items) IN
         /\ Directory(new) /\ DOMAIN new = DOMAIN segments
         /\ \A m \in DOMAIN segments : m # current_segment => new[m] = segments[m]
         /\ Ordered(new) /\ Past(new) /\ BelowMark(new)
         /\ Stored(new) = Stored(segments) \cup Ids(items)
<1> DEFINE new == WriteOut(segments, current_segment, items)
<1>1. /\ Directory(new) /\ DOMAIN new = DOMAIN segments
      /\ \A m \in DOMAIN segments : m # current_segment => new[m] = segments[m]
      /\ current_segment \in DOMAIN segments =>
           Ids(new[current_segment]) = Ids(segments[current_segment]) \cup Ids(items)
  BY WriteOutFacts, LogInvDirectory
<1> HIDE DEF new
<1>2. CASE current_segment < segment_number
  <2>1. Ids(items) = {}
    BY <1>2, BufferItems DEF LogInv, NumbersInv
  <2>2. \A m \in DOMAIN segments : Ids(new[m]) = Ids(segments[m])
    BY <1>1, <2>1
  <2>3. QED
    BY <1>1, <2>1, <2>2, LogInvDirectory DEF Ordered, Past, BelowMark, Stored, new
<1>3. CASE ~(current_segment < segment_number)
  <2>1. /\ current_segment = segment_number /\ current_segment \in DOMAIN segments
        /\ current_segment \in Nat /\ last_flushed_segment \in Nat
        /\ last_flushed_segment <= current_segment
        /\ \A m \in DOMAIN segments : m \in Nat /\ m <= current_segment
    BY <1>3 DEF LogInv, NumbersInv, TypeOK
  <2>2. Ids(new[current_segment]) = Ids(segments[current_segment]) \cup Ids(items)
    BY <1>1, <2>1
  <2>3. /\ \A i \in Ids(items) : i <= appended
        /\ \A n \in DOMAIN segments :
             n < current_segment => \A i \in Ids(segments[n]), j \in Ids(items) : i < j
    BY DEF LogInv, HistoryInv
  <2>4. Ordered(new)
    BY <1>1, <2>1, <2>2, <2>3, LogInvDirectory DEF Ordered
  <2>5. Past(new)
    BY <1>1, <2>1, <2>2, <2>3, LogInvDirectory DEF Past
  <2>6. BelowMark(new)
    BY <1>1, <2>1, LogInvDirectory DEF BelowMark
  <2>7. Stored(new) = Stored(segments) \cup Ids(items)
    BY <1>1, <2>1, <2>2 DEF Stored
  <2>8. QED
    BY <1>1, <2>4, <2>5, <2>6, <2>7 DEF new
<1>4. QED
  BY <1>2, <1>3

\* A rotation flushes the buffer and adds an empty last segment.
LEMMA RotationFacts ==
  ASSUME LogInv, up, segment_number < MaxSegments
  PROVE  LET n == segment_number + 1 IN
         /\ Directory(Rotated) /\ DOMAIN Rotated = DOMAIN segments \cup {n}
         /\ n \in 1..MaxSegments /\ n \notin DOMAIN segments
         /\ \A m \in DOMAIN segments : m < n
         /\ \A m \in DOMAIN segments : m # current_segment => Rotated[m] = segments[m]
         /\ Ids(Rotated[n]) = {}
         /\ Ordered(Rotated) /\ Past(Rotated) /\ BelowMark(Rotated)
         /\ Stored(Rotated) = Stored(segments) \cup Ids(buffer)
<1> DEFINE n == segment_number + 1
           flushed == WriteOut(segments, current_segment, buffer)
<1>1. /\ Directory(flushed) /\ DOMAIN flushed = DOMAIN segments
      /\ \A m \in DOMAIN segments : m # current_segment => flushed[m] = segments[m]
      /\ Ordered(flushed) /\ Past(flushed) /\ BelowMark(flushed)
      /\ Stored(flushed) = Stored(segments) \cup Ids(buffer)
  <2>1. buffer \in Seq(Items)
    BY BufferItems DEF LogInv, TypeOK
  <2>2. QED
    BY <2>1, WriteBuffer
<1>2. /\ n \in 1..MaxSegments /\ n \notin DOMAIN segments
      /\ \A m \in DOMAIN segments : m \in Nat /\ m < n
  BY WalAssumption DEF LogInv, TypeOK, NumbersInv
<1>3. Rotated = CreateSegment(flushed, n)
  BY DEF Rotated
<1> HIDE DEF flushed, n
<1>4. /\ Directory(Rotated) /\ DOMAIN Rotated = DOMAIN flushed \cup {n}
      /\ \A m \in DOMAIN flushed : Rotated[m] = flushed[m]
      /\ Ids(Rotated[n]) = {}
  BY <1>1, <1>2, <1>3, CreateSegmentFacts
<1>5. Ordered(Rotated)
  BY <1>1, <1>2, <1>4 DEF Ordered
<1>6. Past(Rotated) /\ BelowMark(Rotated)
  BY <1>1, <1>2, <1>4 DEF Past, BelowMark
<1>7. Stored(Rotated) = Stored(flushed)
  BY <1>1, <1>4 DEF Stored
<1>8. QED
  BY <1>1, <1>2, <1>4, <1>5, <1>6, <1>7 DEF n

------------------------------------------------------------------------------
(* Appending *)

\* WalSegment::append to the last segment of a directory in order keeps the
\* invariant, however the write ends.
LEMMA AppendToInv ==
  ASSUME LogInv, up, appended < MaxAppends,
         NEW STATE segs, NEW STATE n, NEW STATE b, NEW STATE w,
         n \in 1..MaxSegments, b \in Seq(Records), w \in Nat,
         Directory(segs), Ordered(segs), Past(segs), BelowMark(segs),
         n \in DOMAIN segs, \A m \in DOMAIN segs : m <= n,
         segment_number <= n, last_flushed_segment <= n,
         \A i \in Ids(b) : i <= appended,
         \A m \in DOMAIN segs : m < n => \A i \in Ids(segs[m]), j \in Ids(b) : i < j,
         1..appended \subseteq Ids(b) \cup lost \cup cleaned \cup Stored(segs),
         AppendTo(segs, n, b, w)
  PROVE  LogInv'
<1> DEFINE id == appended + 1
           pending == Append(b, id)
<1>1. id \in Records /\ appended \in Nat /\ id \in Nat
  BY WalAssumption DEF LogInv, TypeOK, Records
<1>2. pending \in Seq(Records) /\ Ids(pending) = Ids(b) \cup {id}
  BY <1>1, IdsAppend
<1>3. /\ appended' = id
      /\ UNCHANGED <<recovered, refused, marked, cleaned>>
      /\ \/ /\ segments' = segs /\ buffer' = pending /\ ContinueOn(n, w + 1)
         \/ \E items \in {pending} \cup CutWrites(pending) :
              /\ segments' = WriteOut(segs, n, items)
              /\ \/ /\ buffer' = <<>> /\ items = pending /\ ContinueOn(n, w + 1)
                 \/ buffer' = pending /\ ContinueOn(n, w + 1)
                 \/ lost' = lost \cup (Ids(pending) \ Ids(items)) /\ Forget
  BY DEF AppendTo
<1>4. \A i \in Ids(pending) : i <= id /\ i \in Nat
  BY <1>1, <1>2, IdsType, BufferItems DEF Records
<1>5. \A m \in DOMAIN segs : m < n => \A i \in Ids(segs[m]), j \in Ids(pending) : i < j
  BY <1>1, <1>2, IdsType DEF Past, Directory, Records
<1>6. 1..id \subseteq Ids(pending) \cup lost \cup cleaned \cup Stored(segs)
  BY <1>1, <1>2
<1>7. n \in Nat /\ \A m \in DOMAIN segs : m \in Nat
  BY WalAssumption DEF Directory
<1> HIDE DEF id, pending
\* The directory is segs, with some of pending written to the last file.
<1>8. ASSUME NEW items \in Seq(Items), Ids(items) \subseteq Ids(pending),
             NEW new, new = WriteOut(segs, n, items)
      PROVE  /\ Directory(new) /\ DOMAIN new = DOMAIN segs /\ Ordered(new)
             /\ \A m \in DOMAIN new : \A i \in Ids(new[m]) : i <= id
             /\ \A m \in DOMAIN new : m < n => \A i \in Ids(new[m]), j \in Ids(pending) : i < j
             /\ BelowMark(new)
             /\ Stored(new) = Stored(segs) \cup Ids(items)
  <2>1. /\ Directory(new) /\ DOMAIN new = DOMAIN segs
        /\ \A m \in DOMAIN segs : m # n => new[m] = segs[m]
        /\ Ids(new[n]) = Ids(segs[n]) \cup Ids(items)
    BY <1>8, WriteOutFacts
  <2>2. Ordered(new)
    BY <1>5, <1>7, <1>8, <2>1 DEF Ordered
  <2>3. \A m \in DOMAIN new : \A i \in Ids(new[m]) : i <= id
    <3>1. \A m \in DOMAIN segs : \A i \in Ids(segs[m]) : i \in Nat /\ i <= appended
      BY IdsType DEF Past, Directory, Records
    <3>2. \A m \in DOMAIN segs : \A i \in Ids(segs[m]) : i <= id
      BY <3>1, <1>1 DEF id
    <3>3. QED
      BY <3>2, <1>4, <1>8, <2>1
  <2>4. \A m \in DOMAIN new : m < n => \A i \in Ids(new[m]), j \in Ids(pending) : i < j
    BY <1>5, <1>7, <2>1
  <2>5. BelowMark(new)
    <3>1. last_flushed_segment \in Nat
      BY DEF LogInv, TypeOK
    <3>2. QED
      BY <1>7, <2>1, <3>1 DEF BelowMark
  <2>6. Stored(new) = Stored(segs) \cup Ids(items)
    BY <2>1 DEF Stored
  <2>7. QED
    BY <2>1, <2>2, <2>3, <2>4, <2>5, <2>6
\* What is common to all outcomes.
<1>9. PICK items \in Seq(Items) :
        /\ Ids(items) \subseteq Ids(pending)
        /\ \/ segments' = segs /\ Ids(items) = {}
           \/ segments' = WriteOut(segs, n, items)
        /\ \/ /\ buffer' = pending /\ ContinueOn(n, w + 1)
           \/ /\ buffer' = <<>> /\ Ids(items) = Ids(pending) /\ ContinueOn(n, w + 1)
           \/ lost' = lost \cup (Ids(pending) \ Ids(items)) /\ Forget
  <2>1. CASE segments' = segs /\ buffer' = pending /\ ContinueOn(n, w + 1)
    BY <2>1, BufferItems
  <2>2. CASE \E items \in {pending} \cup CutWrites(pending) :
              /\ segments' = WriteOut(segs, n, items)
              /\ \/ /\ buffer' = <<>> /\ items = pending /\ ContinueOn(n, w + 1)
                 \/ buffer' = pending /\ ContinueOn(n, w + 1)
                 \/ lost' = lost \cup (Ids(pending) \ Ids(items)) /\ Forget
    BY <2>2, <1>2, CutWritesType, BufferItems
  <2>3. QED
    BY <1>3, <2>1, <2>2
<1>10. /\ Directory(segments') /\ DOMAIN segments' = DOMAIN segs /\ Ordered(segments')
       /\ \A m \in DOMAIN segments' : \A i \in Ids(segments'[m]) : i <= id
       /\ \A m \in DOMAIN segments' :
            m < n => \A i \in Ids(segments'[m]), j \in Ids(pending) : i < j
       /\ BelowMark(segments')
       /\ Stored(segments') = Stored(segs) \cup Ids(items)
  <2>1. CASE segments' = segs /\ Ids(items) = {}
    <3>1. \A m \in DOMAIN segs : \A i \in Ids(segs[m]) : i <= id
      <4>1. \A m \in DOMAIN segs : \A i \in Ids(segs[m]) : i \in Nat /\ i <= appended
        BY IdsType DEF Past, Directory, Records
      <4>2. QED
        BY <4>1, <1>1 DEF id
    <3>2. QED
      BY <2>1, <3>1, <1>5
  <2>2. CASE segments' = WriteOut(segs, n, items)
    BY <1>9, <2>2, <1>8
  <2>3. QED
    BY <1>9, <2>1, <2>2
<1>11. CASE ContinueOn(n, w + 1)
  <2>1. /\ up' /\ current_segment' = n /\ segment_number' = n /\ bytes_written' = w + 1
        /\ UNCHANGED <<last_flushed_segment, lost>>
    BY <1>11, <1>7 DEF ContinueOn, LogInv, TypeOK
  <2>2. /\ buffer' \in Seq(Records) /\ Ids(buffer') \subseteq Ids(pending)
        /\ buffer' = pending \/ Ids(items) = Ids(pending)
    BY <1>2, <1>9, <1>11, <2>1, BufferItems DEF Forget
  <2>3. TypeOK'
    BY <1>1, <1>3, <1>7, <1>10, <2>1, <2>2 DEF TypeOK, LogInv, Directory, id, Records
  <2>4. NumbersInv'
    BY <1>7, <1>10, <2>1 DEF NumbersInv
  <2>5. HistoryInv'
    BY <1>3, <1>4, <1>10, <2>1, <2>2 DEF HistoryInv
  <2>6. FlushPointInv' /\ CleanupSafe' /\ SegmentOrder'
    BY <1>3, <1>10, <2>1 DEF FlushPointInv, BelowMark, CleanupSafe, LogInv, SegmentOrder,
                             Ordered
  <2>7. NoSilentLoss'
    BY <1>3, <1>6, <1>9, <1>10, <2>1, <2>2 DEF NoSilentLoss, Stored
  <2>8. QED
    BY <2>3, <2>4, <2>5, <2>6, <2>7 DEF LogInv
<1>12. CASE lost' = lost \cup (Ids(pending) \ Ids(items)) /\ Forget
  <2>1. /\ ~up' /\ current_segment' = 0 /\ segment_number' = 0 /\ buffer' = <<>>
        /\ bytes_written' = 0 /\ last_flushed_segment' = 0
        /\ lost' = lost \cup (Ids(pending) \ Ids(items))
    BY <1>12 DEF Forget
  <2>2. up' \in BOOLEAN
    BY <1>12 DEF Forget
  <2>3. TypeOK'
    <3>1. lost' \subseteq Records
      BY <2>1 DEF LogInv, TypeOK, Ids
    <3>2. buffer' \in Seq(Records)
      BY <2>1, BufferItems
    <3>3. 0 \in 0..MaxSegments
      BY WalAssumption
    <3>4. appended' \in 0..MaxAppends /\ marked' \in 0..appended'
      BY <1>1, <1>3 DEF LogInv, TypeOK, id, Records
    <3>5. QED
      BY <1>3, <1>10, <2>1, <2>2, <3>1, <3>2, <3>3, <3>4 DEF TypeOK, LogInv, Directory
  <2>4. NumbersInv' /\ HistoryInv' /\ FlushPointInv'
    BY <1>3, <1>7, <1>10, <2>1, BufferItems DEF NumbersInv, HistoryInv, FlushPointInv
  <2>5. CleanupSafe' /\ SegmentOrder'
    BY <1>3, <1>10 DEF CleanupSafe, LogInv, SegmentOrder, Ordered
  <2>6. NoSilentLoss'
    BY <1>3, <1>6, <1>9, <1>10, <2>1 DEF NoSilentLoss, Stored
  <2>7. QED
    BY <2>3, <2>4, <2>5, <2>6 DEF LogInv
<1>13. QED
  BY <1>9, <1>11, <1>12

------------------------------------------------------------------------------
(* LogInv is inductive *)

\* The directory starts empty and the log closed.
LEMMA InitInv == Init => LogInv
<1> SUFFICES ASSUME Init PROVE LogInv
  OBVIOUS
<1>1. DOMAIN segments = {} /\ DOMAIN recovered = {} /\ 1..appended = {}
  BY DEF Init
<1>2. TypeOK
  <2>1. 0 \in 0..MaxSegments /\ 0 \in 0..MaxAppends /\ 0 \in 0..0
    BY WalAssumption
  <2>2. up \in BOOLEAN /\ refused \in BOOLEAN
    BY DEF Init
  <2>3. buffer \in Seq(Records)
    BY BufferItems DEF Init
  <2>4. QED
    BY <1>1, <2>1, <2>2, <2>3 DEF TypeOK, Init
<1>3. NumbersInv /\ HistoryInv /\ FlushPointInv
  BY <1>1, BufferItems DEF NumbersInv, HistoryInv, FlushPointInv, Init
<1>4. CleanupSafe /\ SegmentOrder /\ NoSilentLoss
  BY <1>1 DEF CleanupSafe, SegmentOrder, NoSilentLoss, Init
<1>5. QED
  BY <1>2, <1>3, <1>4 DEF LogInv

\* A step after which the log is closed keeps the invariant, when the records
\* of the buffer are in files or counted as lost.
LEMMA ForgetInv ==
  ASSUME LogInv, Forget, UNCHANGED <<recovered, refused, appended, marked, cleaned>>,
         lost' \subseteq Records,
         Directory(segments'), Ordered(segments'), Past(segments'),
         1..appended \subseteq lost' \cup cleaned \cup Stored(segments')
  PROVE  LogInv'
<1>1. /\ ~up' /\ up' \in BOOLEAN /\ current_segment' = 0 /\ segment_number' = 0
      /\ buffer' = <<>> /\ bytes_written' = 0 /\ last_flushed_segment' = 0
  BY DEF Forget
<1>2. TypeOK'
  BY <1>1, BufferItems, WalAssumption DEF LogInv, TypeOK, Directory
<1>3. \A n \in DOMAIN segments' : n \in Nat /\ ~(n < 0)
  BY DEF Directory
<1>4. NumbersInv' /\ HistoryInv' /\ FlushPointInv'
  BY <1>1, <1>3, BufferItems DEF NumbersInv, HistoryInv, FlushPointInv, Past
<1>5. CleanupSafe' /\ SegmentOrder' /\ NoSilentLoss'
  BY DEF CleanupSafe, LogInv, SegmentOrder, Ordered, NoSilentLoss, Stored
<1>6. QED
  BY <1>2, <1>4, <1>5 DEF LogInv

\* Opening the log: the new segment is the last one and empty.
LEMMA OpenInv == ASSUME LogInv, NEW n \in 1..MaxSegments, Open(n) PROVE LogInv'
<1>1. /\ Directory(segments') /\ DOMAIN segments' = DOMAIN segments \cup {n}
      /\ \A m \in DOMAIN segments : segments'[m] = segments[m]
      /\ n \notin DOMAIN segments /\ Ids(segments'[n]) = {}
      /\ \A m \in DOMAIN segments : m \in Nat /\ m < n
  <2>1. Directory(segments) /\ segments' = CreateSegment(segments, n)
    BY LogInvDirectory DEF Open
  <2>2. \A m \in DOMAIN segments : m \in Nat /\ m < n
    BY <2>1 DEF Open, NextSegment, Directory
  <2>3. n \notin DOMAIN segments
    BY <2>2
  <2>4. QED
    BY <2>1, <2>2, <2>3, CreateSegmentFacts
<1>2. /\ Ordered(segments') /\ Past(segments')
      /\ 1..appended \subseteq Ids(buffer) \cup lost \cup cleaned \cup Stored(segments')
  BY <1>1, LogInvDirectory DEF Ordered, Past, Stored
<1>3. /\ ~up /\ buffer = <<>> /\ Ids(buffer) = {} /\ last_flushed_segment = 0
  BY BufferItems DEF Open, LogInv, NumbersInv
<1>4. UNCHANGED <<appended, marked, lost, cleaned>>
  BY DEF Open, history
<1>5. buffer' = <<>> /\ last_flushed_segment' = 0
  BY <1>3 DEF Open, memory
<1>6. HistoryInv' /\ FlushPointInv'
  <2>1. \A m \in DOMAIN segments' : ~(m < 0)
    BY <1>1 DEF Directory
  <2>2. QED
    BY <1>2, <1>4, <1>5, <2>1, BufferItems DEF HistoryInv, FlushPointInv, Past
<1>7. CleanupSafe' /\ SegmentOrder' /\ NoSilentLoss'
  BY <1>2, <1>3, <1>4, <1>5, BufferItems
  DEF CleanupSafe, LogInv, SegmentOrder, Ordered, NoSilentLoss, Stored
<1>8. CASE up' = TRUE /\ current_segment' = n /\ segment_number' = n /\ bytes_written' = 0
           /\ recovered' = [m \in DOMAIN segments' |-> Entries(segments'[m])]
           /\ refused' = FALSE
  <2>1. TypeOK'
    <3>1. buffer' \in Seq(Records) /\ DOMAIN recovered' \subseteq 1..MaxSegments
      BY <1>1, <1>5, <1>8, BufferItems DEF Directory
    <3>2. n \in 0..MaxSegments /\ 0 \in 0..MaxSegments /\ 0 \in Nat
      BY WalAssumption
    <3>3. QED
      BY <1>1, <1>4, <1>5, <1>8, <3>1, <3>2 DEF TypeOK, LogInv, Directory
  <2>2. NumbersInv'
    BY <1>1, <1>5, <1>8 DEF NumbersInv
  <2>3. QED
    BY <1>6, <1>7, <2>1, <2>2 DEF LogInv
<1>9. CASE refused' = TRUE /\ UNCHANGED <<up, memory, recovered>>
  <2>1. TypeOK'
    BY <1>1, <1>4, <1>9 DEF TypeOK, LogInv, Directory, memory
  <2>2. NumbersInv'
    BY <1>3, <1>9 DEF NumbersInv, LogInv, memory
  <2>3. QED
    BY <1>6, <1>7, <2>1, <2>2 DEF LogInv
<1>10. QED
  BY <1>8, <1>9 DEF Open

LEMMA AppendHereInv == ASSUME LogInv, AppendHere PROVE LogInv'
<1>1. /\ up /\ appended < MaxAppends /\ ~RotationDue
      /\ AppendTo(segments, current_segment, buffer, bytes_written)
  BY DEF AppendHere
<1>2. /\ current_segment = segment_number /\ current_segment \in DOMAIN segments
      /\ current_segment \in 1..MaxSegments /\ last_flushed_segment <= current_segment
      /\ segment_number <= current_segment
      /\ \A m \in DOMAIN segments : m <= current_segment
  BY <1>1, WalAssumption DEF LogInv, NumbersInv, TypeOK
<1>3. buffer \in Seq(Records) /\ bytes_written \in Nat
  BY DEF LogInv, TypeOK
<1>4. /\ \A i \in Ids(buffer) : i <= appended
      /\ \A m \in DOMAIN segments :
           m < current_segment => \A i \in Ids(segments[m]), j \in Ids(buffer) : i < j
  BY DEF LogInv, HistoryInv
<1>5. QED
  BY <1>1, <1>2, <1>3, <1>4, LogInvDirectory, AppendToInv

LEMMA AppendRotatingInv == ASSUME LogInv, AppendRotating PROVE LogInv'
<1> DEFINE n == segment_number + 1
<1>1. /\ up /\ appended < MaxAppends /\ segment_number < MaxSegments
      /\ AppendTo(Rotated, n, <<>>, 0)
  BY DEF AppendRotating
<1>2. /\ Directory(Rotated) /\ Ordered(Rotated) /\ Past(Rotated) /\ BelowMark(Rotated)
      /\ DOMAIN Rotated = DOMAIN segments \cup {n} /\ n \in 1..MaxSegments
      /\ \A m \in DOMAIN segments : m < n
      /\ Stored(Rotated) = Stored(segments) \cup Ids(buffer)
  BY <1>1, RotationFacts
<1>3. /\ n \in DOMAIN Rotated /\ \A m \in DOMAIN Rotated : m <= n
      /\ segment_number <= n /\ last_flushed_segment <= n
  BY <1>2, WalAssumption DEF LogInv, TypeOK, NumbersInv, Directory
<1>4. /\ <<>> \in Seq(Records) /\ Ids(<<>>) = {} /\ 0 \in Nat
  BY BufferItems
<1>5. 1..appended \subseteq Ids(<<>>) \cup lost \cup cleaned \cup Stored(Rotated)
  BY <1>2, <1>4, LogInvDirectory
<1>6. /\ \A i \in Ids(<<>>) : i <= appended
      /\ \A m \in DOMAIN Rotated :
           m < n => \A i \in Ids(Rotated[m]), j \in Ids(<<>>) : i < j
  BY <1>4
<1> HIDE DEF n
<1>7. QED
  BY <1>1, <1>2, <1>3, <1>4, <1>5, <1>6, AppendToInv

\* A step that leaves the log open, with nothing buffered and every record of
\* the buffer in a file, keeps the invariant if the numbers stay right.
LEMMA WrittenInv ==
  ASSUME LogInv, UNCHANGED <<recovered, refused, appended, marked, lost, cleaned,
                             last_flushed_segment>>,
         up' = TRUE, buffer' = <<>>, bytes_written' \in Nat,
         current_segment' \in 0..MaxSegments, segment_number' \in 0..MaxSegments,
         Directory(segments'), Ordered(segments'), Past(segments'), BelowMark(segments'),
         Stored(segments') = Stored(segments) \cup Ids(buffer),
         NumbersInv'
  PROVE  LogInv'
<1>1. TypeOK'
  BY BufferItems DEF LogInv, TypeOK, Directory
<1>2. HistoryInv' /\ FlushPointInv'
  BY BufferItems DEF HistoryInv, FlushPointInv, Past, BelowMark
<1>3. CleanupSafe' /\ SegmentOrder'
  BY DEF LogInv, CleanupSafe, SegmentOrder, Ordered
<1>4. NoSilentLoss'
  BY LogInvDirectory DEF NoSilentLoss, Stored
<1>5. QED
  BY <1>1, <1>2, <1>3, <1>4 DEF LogInv

LEMMA AppendRefusedInv == ASSUME LogInv, AppendRefused PROVE LogInv'
<1>1. /\ up /\ up' = TRUE /\ segment_number < MaxSegments /\ segments' = Rotated
      /\ current_segment' = segment_number + 1 /\ segment_number' = segment_number + 1
      /\ buffer' = <<>> /\ bytes_written' = 0
      /\ UNCHANGED <<recovered, refused, appended, marked, lost, cleaned,
                     last_flushed_segment>>
  BY DEF AppendRefused, history, LogInv, TypeOK
<1>2. /\ Directory(segments') /\ Ordered(segments') /\ Past(segments')
      /\ BelowMark(segments')
      /\ Stored(segments') = Stored(segments) \cup Ids(buffer)
      /\ DOMAIN segments' = DOMAIN segments \cup {segment_number'}
      /\ segment_number' \in 1..MaxSegments
      /\ \A m \in DOMAIN segments : m < segment_number'
  BY <1>1, RotationFacts
<1>3. NumbersInv'
  BY <1>1, <1>2 DEF NumbersInv, LogInv, TypeOK, Directory
<1>4. segment_number' \in 0..MaxSegments /\ current_segment' \in 0..MaxSegments
  BY <1>1, <1>2, WalAssumption
<1>5. QED
  BY <1>1, <1>2, <1>3, <1>4, WrittenInv

\* The whole buffer is written to the current segment.
LEMMA WriteWholeBuffer ==
  ASSUME LogInv, up, segments' = WriteOut(segments, current_segment, buffer)
  PROVE  /\ Directory(segments') /\ Ordered(segments') /\ Past(segments')
         /\ DOMAIN segments' = DOMAIN segments
         /\ UNCHANGED <<last_flushed_segment, marked>> => BelowMark(segments')
         /\ Stored(segments') = Stored(segments) \cup Ids(buffer)
<1>1. buffer \in Seq(Items)
  BY BufferItems DEF LogInv, TypeOK
<1>2. QED
  BY <1>1, WriteBuffer

LEMMA AppendRotationFailsInv == ASSUME LogInv, AppendRotationFails PROVE LogInv'
<1>1. /\ up /\ up' = TRUE /\ segment_number < MaxSegments /\ RotationDue
      /\ segments' = WriteOut(segments, current_segment, buffer)
      /\ segment_number' = segment_number + 1 /\ buffer' = <<>>
      /\ UNCHANGED <<current_segment, bytes_written>>
      /\ UNCHANGED <<recovered, refused, appended, marked, lost, cleaned,
                     last_flushed_segment>>
  BY DEF AppendRotationFails, history, LogInv, TypeOK
<1>2. /\ Directory(segments') /\ Ordered(segments') /\ Past(segments')
      /\ BelowMark(segments') /\ DOMAIN segments' = DOMAIN segments
      /\ Stored(segments') = Stored(segments) \cup Ids(buffer)
  BY <1>1, WriteWholeBuffer
<1>3. RotationDue'
  BY <1>1 DEF RotationDue
<1>4. NumbersInv'
  BY <1>1, <1>2, <1>3 DEF NumbersInv, LogInv, TypeOK, Directory
<1>5. /\ segment_number' \in 0..MaxSegments /\ current_segment' \in 0..MaxSegments
      /\ bytes_written' \in Nat
  BY <1>1, WalAssumption DEF LogInv, TypeOK
<1>6. QED
  BY <1>1, <1>2, <1>4, <1>5, WrittenInv

LEMMA FlushInv == ASSUME LogInv, Flush PROVE LogInv'
<1>1. /\ up /\ up' = TRUE /\ segments' = WriteOut(segments, current_segment, buffer)
      /\ buffer' = <<>>
      /\ UNCHANGED <<current_segment, segment_number, bytes_written>>
      /\ UNCHANGED <<recovered, refused, appended, marked, lost, cleaned,
                     last_flushed_segment>>
  BY DEF Flush, history, LogInv, TypeOK
<1>2. /\ Directory(segments') /\ Ordered(segments') /\ Past(segments')
      /\ BelowMark(segments') /\ DOMAIN segments' = DOMAIN segments
      /\ Stored(segments') = Stored(segments) \cup Ids(buffer)
  BY <1>1, WriteWholeBuffer
<1>3. NumbersInv'
  BY <1>1, <1>2 DEF NumbersInv, LogInv, RotationDue
<1>4. /\ segment_number' \in 0..MaxSegments /\ current_segment' \in 0..MaxSegments
      /\ bytes_written' \in Nat
  BY <1>1 DEF LogInv, TypeOK
<1>5. QED
  BY <1>1, <1>2, <1>3, <1>4, WrittenInv

LEMMA ShutdownInv == ASSUME LogInv, Shutdown PROVE LogInv'
<1>1. /\ up /\ segments' = WriteOut(segments, current_segment, buffer) /\ Forget
      /\ UNCHANGED <<recovered, refused, appended, marked, lost, cleaned>>
  BY DEF Shutdown, history
<1>2. /\ Directory(segments') /\ Ordered(segments') /\ Past(segments')
      /\ Stored(segments') = Stored(segments) \cup Ids(buffer)
  BY <1>1, WriteWholeBuffer
<1>3. lost' \subseteq Records
  BY <1>1 DEF LogInv, TypeOK
<1>4. 1..appended \subseteq lost' \cup cleaned \cup Stored(segments')
  BY <1>1, <1>2, LogInvDirectory
<1>5. QED
  BY <1>1, <1>2, <1>3, <1>4, ForgetInv

\* What a cut write of the buffer leaves.
LEMMA CutBuffer ==
  ASSUME LogInv, up, NEW cut \in CutWrites(buffer),
         segments' = WriteOut(segments, current_segment, cut),
         UNCHANGED appended
  PROVE  /\ Directory(segments') /\ DOMAIN segments' = DOMAIN segments
         /\ Ordered(segments') /\ Past(segments')
         /\ \A m \in DOMAIN segments : m # current_segment => segments'[m] = segments[m]
         /\ UNCHANGED <<last_flushed_segment, marked>> => BelowMark(segments')
         /\ Ids(cut) \subseteq Ids(buffer)
         /\ Stored(segments') = Stored(segments) \cup Ids(cut)
<1>1. cut \in Seq(Items) /\ Ids(cut) \subseteq Ids(buffer)
  BY CutWritesType DEF LogInv, TypeOK
<1>2. QED
  BY <1>1, WriteBuffer

LEMMA CrashInv == ASSUME LogInv, Crash PROVE LogInv'
<1>1. PICK cut \in CutWrites(buffer) :
        /\ segments' = WriteOut(segments, current_segment, cut)
        /\ lost' = lost \cup (Ids(buffer) \ Ids(cut))
  BY DEF Crash
<1>2. /\ up /\ Forget /\ UNCHANGED <<recovered, refused, appended, marked, cleaned>>
  BY DEF Crash
<1>3. /\ Directory(segments') /\ Ordered(segments') /\ Past(segments')
      /\ Stored(segments') = Stored(segments) \cup Ids(cut)
  BY <1>1, <1>2, CutBuffer
<1>4. lost' \subseteq Records
  BY <1>1 DEF LogInv, TypeOK, Ids
<1>5. 1..appended \subseteq lost' \cup cleaned \cup Stored(segments')
  BY <1>1, <1>3, LogInvDirectory
<1>6. QED
  BY <1>2, <1>3, <1>4, <1>5, ForgetInv

LEMMA FlushFailsInv == ASSUME LogInv, FlushFails PROVE LogInv'
<1>1. PICK cut \in CutWrites(buffer) :
        segments' = WriteOut(segments, current_segment, cut)
  BY DEF FlushFails
<1>2. /\ up /\ UNCHANGED <<up, current_segment, segment_number, buffer, bytes_written,
                           last_flushed_segment, recovered, refused, appended, marked,
                           lost, cleaned>>
  BY DEF FlushFails, memory, history
<1>3. /\ Directory(segments') /\ DOMAIN segments' = DOMAIN segments
      /\ Ordered(segments') /\ Past(segments') /\ BelowMark(segments')
      /\ \A m \in DOMAIN segments : m # current_segment => segments'[m] = segments[m]
      /\ Stored(segments') = Stored(segments) \cup Ids(cut)
  BY <1>1, <1>2, CutBuffer
<1>4. TypeOK'
  BY <1>2, <1>3 DEF LogInv, TypeOK, Directory
<1>5. NumbersInv'
  BY <1>2, <1>3 DEF LogInv, NumbersInv, RotationDue
<1>6. HistoryInv'
  <2>1. \A m \in DOMAIN segments : m < current_segment => m # current_segment
    BY DEF LogInv, TypeOK
  <2>2. QED
    BY <1>2, <1>3, <2>1 DEF LogInv, HistoryInv, Past
<1>7. FlushPointInv' /\ CleanupSafe' /\ SegmentOrder'
  BY <1>2, <1>3 DEF LogInv, FlushPointInv, BelowMark, CleanupSafe, SegmentOrder, Ordered
<1>8. NoSilentLoss'
  BY <1>2, <1>3, LogInvDirectory DEF NoSilentLoss, Stored
<1>9. QED
  BY <1>4, <1>5, <1>6, <1>7, <1>8 DEF LogInv

LEMMA MarkFlushedInv == ASSUME LogInv, MarkFlushed PROVE LogInv'
<1>1. /\ up /\ last_flushed_segment' = segment_number /\ marked' = appended
      /\ UNCHANGED <<up, segments, current_segment, segment_number, buffer, bytes_written,
                     recovered, refused, appended, lost, cleaned>>
  BY DEF MarkFlushed, FlushPoint
<1>2. TypeOK'
  BY <1>1 DEF LogInv, TypeOK
<1>3. NumbersInv' /\ HistoryInv'
  BY <1>1 DEF LogInv, TypeOK, NumbersInv, HistoryInv, RotationDue
<1>4. FlushPointInv'
  BY <1>1 DEF LogInv, HistoryInv, FlushPointInv
<1>5. CleanupSafe'
  <2>1. \A id \in cleaned : id \in Nat
    BY DEF LogInv, TypeOK, Records
  <2>2. marked \in Nat /\ appended \in Nat /\ marked <= appended
    BY WalAssumption DEF LogInv, TypeOK
  <2>3. QED
    BY <1>1, <2>1, <2>2 DEF LogInv, CleanupSafe
<1>6. SegmentOrder' /\ NoSilentLoss'
  BY <1>1 DEF LogInv, SegmentOrder, NoSilentLoss
<1>7. QED
  BY <1>2, <1>3, <1>4, <1>5, <1>6 DEF LogInv

\* Deleting segments below the flush point loses only marked records.
LEMMA DeleteInv ==
  ASSUME LogInv, up, NEW r \in Nat, NEW done \in SUBSET Victims(r), Delete(done),
         UNCHANGED <<up, current_segment, segment_number, buffer, bytes_written,
                     last_flushed_segment, recovered, refused, appended, marked, lost>>
  PROVE  LogInv'
<1>1. /\ DOMAIN segments' = DOMAIN segments \ done
      /\ \A m \in DOMAIN segments' : segments'[m] = segments[m]
      /\ cleaned' = cleaned \cup UNION {Ids(segments[n]) : n \in done}
      /\ done \subseteq DOMAIN segments
  BY DEF Delete, Victims
<1>2. \A n \in done : n < last_flushed_segment
  <2>1. last_flushed_segment \in Nat
    BY DEF LogInv, TypeOK
  <2>2. SafeToDelete(r) \in Nat /\ SafeToDelete(r) <= last_flushed_segment
    BY <2>1 DEF SafeToDelete
  <2>3. \A n \in done : n \in Nat /\ n < SafeToDelete(r)
    BY <1>1 DEF Victims, LogInv, TypeOK
  <2>4. QED
    BY <2>1, <2>2, <2>3
<1>3. TypeOK'
  <2>1. cleaned' \subseteq Records
    BY <1>1 DEF LogInv, TypeOK, Ids
  <2>2. QED
    BY <1>1, <2>1 DEF LogInv, TypeOK
<1>4. NumbersInv'
  <2>1. current_segment = segment_number => current_segment \notin done
    BY <1>1, <1>2 DEF LogInv, TypeOK, NumbersInv
  <2>2. QED
    BY <1>1, <2>1 DEF LogInv, NumbersInv, RotationDue
<1>5. HistoryInv' /\ FlushPointInv' /\ SegmentOrder'
  BY <1>1 DEF LogInv, HistoryInv, FlushPointInv, SegmentOrder
<1>6. CleanupSafe'
  BY <1>1, <1>2 DEF LogInv, CleanupSafe, FlushPointInv
<1>7. NoSilentLoss'
  BY <1>1 DEF LogInv, NoSilentLoss
<1>8. QED
  BY <1>3, <1>4, <1>5, <1>6, <1>7 DEF LogInv

LEMMA CleanupInv ==
  ASSUME LogInv, NEW r \in 0..MaxSegments, Cleanup(r) \/ CleanupFails(r)
  PROVE  LogInv'
<1>1. /\ up /\ \E done \in SUBSET Victims(r) : Delete(done)
      /\ UNCHANGED <<up, current_segment, segment_number, buffer, bytes_written,
                     last_flushed_segment, recovered, refused, appended, marked, lost>>
  BY DEF Cleanup, CleanupFails, memory
<1>2. QED
  BY <1>1, DeleteInv

\* Every step keeps the invariant.
LEMMA NextInv == LogInv /\ [Next]_vars => LogInv'
<1> SUFFICES ASSUME LogInv, [Next]_vars PROVE LogInv'
  OBVIOUS
<1>1. CASE Next
  BY <1>1, OpenInv, AppendHereInv, AppendRotatingInv, AppendRefusedInv,
     AppendRotationFailsInv, FlushInv, FlushFailsInv, CrashInv, ShutdownInv,
     MarkFlushedInv, CleanupInv DEF Next
<1>2. CASE UNCHANGED vars
  BY <1>2 DEF vars, memory, history, faults, LogInv, TypeOK, NumbersInv, HistoryInv,
     FlushPointInv, CleanupSafe, SegmentOrder, NoSilentLoss, RotationDue
<1>3. QED
  BY <1>1, <1>2

------------------------------------------------------------------------------
(* Closed segments *)

\* Writing the buffer out, whole or in part, leaves the closed segments alone:
\* either the file written to is the current one, or the buffer is empty.
LEMMA WriteLeavesClosed ==
  ASSUME LogInv, up, NEW cut \in CutWrites(buffer) \cup {buffer},
         NEW n \in DOMAIN segments, n < segment_number
  PROVE  WriteOut(segments, current_segment, cut)[n] = segments[n]
<1>1. current_segment \in Nat /\ segment_number \in Nat /\ current_segment <= segment_number
  BY WalAssumption DEF LogInv, TypeOK, NumbersInv
<1>2. CASE current_segment = segment_number
  <2>1. n # current_segment
    BY <1>1, <1>2
  <2>2. QED
    BY <2>1 DEF WriteOut
<1>3. CASE current_segment # segment_number
  <2>1. buffer = <<>>
    BY <1>1, <1>3 DEF LogInv, NumbersInv
  <2>2. cut = <<>>
    BY <2>1 DEF CutWrites
  <2>3. segments[n] \in Seq(Items)
    BY DEF LogInv, TypeOK
  <2>4. segments[n] \o cut = segments[n]
    BY <2>2, <2>3
  <2>5. QED
    BY <2>4 DEF WriteOut
<1>4. QED
  BY <1>2, <1>3

\* append writes to no file but the one it is given.
LEMMA AppendToLeaves ==
  ASSUME NEW segs, NEW n, NEW b, NEW w, AppendTo(segs, n, b, w),
         NEW m \in DOMAIN segs, m # n
  PROVE  segments'[m] = segs[m]
<1>1. \/ segments' = segs
      \/ \E items : segments' = WriteOut(segs, n, items)
  BY DEF AppendTo
<1>2. QED
  BY <1>1 DEF WriteOut

\* A rotation leaves the segments before the current one alone.
LEMMA RotationLeavesClosed ==
  ASSUME LogInv, up, NEW n \in DOMAIN segments, n < segment_number
  PROVE  n \in DOMAIN Rotated /\ Rotated[n] = segments[n]
<1>1. WriteOut(segments, current_segment, buffer)[n] = segments[n]
  BY WriteLeavesClosed
<1>2. n \in DOMAIN WriteOut(segments, current_segment, buffer)
  BY DEF WriteOut
<1>3. QED
  BY <1>1, <1>2 DEF Rotated, CreateSegment

\* No step changes a closed segment that it does not delete.
LEMMA StepLeavesClosed ==
  ASSUME LogInv, [Next]_vars, up,
         NEW n \in DOMAIN segments \cap DOMAIN segments', n < segment_number
  PROVE  segments'[n] = segments[n]
<1>1. CASE \E m \in 1..MaxSegments : Open(m)
  BY <1>1 DEF Open
<1>2. CASE AppendHere
  <2>1. /\ AppendTo(segments, current_segment, buffer, bytes_written)
        /\ ~RotationDue
    BY <1>2 DEF AppendHere
  <2>2. n # current_segment
    BY <2>1, WalAssumption DEF LogInv, TypeOK, NumbersInv
  <2>3. QED
    BY <2>1, <2>2, AppendToLeaves
<1>3. CASE AppendRotating
  <2>1. AppendTo(Rotated, segment_number + 1, <<>>, 0)
    BY <1>3 DEF AppendRotating
  <2>2. n # segment_number + 1
    BY WalAssumption DEF LogInv, TypeOK
  <2>3. n \in DOMAIN Rotated /\ Rotated[n] = segments[n]
    BY RotationLeavesClosed
  <2>4. QED
    BY <2>1, <2>2, <2>3, AppendToLeaves
<1>4. CASE AppendRefused
  BY <1>4, RotationLeavesClosed DEF AppendRefused
<1>5. CASE AppendRotationFails \/ Flush \/ Shutdown
  <2>1. segments' = WriteOut(segments, current_segment, buffer)
    BY <1>5 DEF AppendRotationFails, Flush, Shutdown
  <2>2. QED
    BY <2>1, WriteLeavesClosed
<1>6. CASE FlushFails \/ Crash
  <2>1. \E cut \in CutWrites(buffer) :
          segments' = WriteOut(segments, current_segment, cut)
    BY <1>6 DEF FlushFails, Crash
  <2>2. QED
    BY <2>1, WriteLeavesClosed
<1>7. CASE MarkFlushed
  BY <1>7 DEF MarkFlushed
<1>8. CASE \E r \in 0..MaxSegments : Cleanup(r) \/ CleanupFails(r)
  <2>1. \E victims : Delete(victims)
    BY <1>8 DEF Cleanup, CleanupFails
  <2>2. QED
    BY <2>1 DEF Delete
<1>9. CASE UNCHANGED vars
  BY <1>9 DEF vars
<1>10. QED
  BY <1>1, <1>2, <1>3, <1>4, <1>5, <1>6, <1>7, <1>8, <1>9 DEF Next

------------------------------------------------------------------------------
(* The theorems *)

\* The inductive invariant holds in every reachable state.
THEOREM LogInvariant == Spec => []LogInv
BY InitInv, NextInv, PTL DEF Spec

\* Every value the log keeps is of its type, in every reachable state.
THEOREM TypeCorrect == Spec => []TypeOK
<1>1. LogInv => TypeOK
  BY DEF LogInv
<1>2. QED
  BY <1>1, LogInvariant, PTL

\* cleanup_old_segments never deletes a record appended after the last
\* mark_flushed, whatever rotations, failures and restarts came in between.
THEOREM CleanupIsSafe == Spec => []CleanupSafe
<1>1. LogInv => CleanupSafe
  BY DEF LogInv
<1>2. QED
  BY <1>1, LogInvariant, PTL

\* Replaying the segments in the order of their numbers replays the records in
\* the order of the appends.
THEOREM SegmentsInOrder == Spec => []SegmentOrder
<1>1. LogInv => SegmentOrder
  BY DEF LogInv
<1>2. QED
  BY <1>1, LogInvariant, PTL

\* A record leaves the buffer and the directory only by a crash that hits it in
\* the buffer or by a cleanup.
THEOREM NothingLostSilently == Spec => []NoSilentLoss
<1>1. LogInv => NoSilentLoss
  BY DEF LogInv
<1>2. QED
  BY <1>1, LogInvariant, PTL

\* A closed segment does not change while it exists: no append, rotation,
\* retried write or crash reaches it, also after a rotation that failed half-way.
THEOREM ClosedSegmentsImmutable == Spec => ClosedImmutable
<1> DEFINE Leaves ==
      up => \A n \in ClosedSegments \cap DOMAIN segments' : segments'[n] = segments[n]
<1>1. LogInv /\ [Next]_vars => [Leaves]_vars
  BY StepLeavesClosed DEF ClosedSegments
<1>2. QED
  BY <1>1, LogInvariant, PTL DEF Spec, ClosedImmutable

------------------------------------------------------------------------------
(* Torn records in a directory *)

\* All but the last item of s are records.
TornLast(s) == \A i \in 1..(Len(s) - 1) : s[i] \in Records

AllTornLast(segs) == \A n \in DOMAIN segs : TornLast(segs[n])

\* File n, if it exists, has no torn record, so that it can be written to.
Whole(segs, n) == n \in DOMAIN segs => segs[n] \in Seq(Records)

\* Whole records are torn nowhere.
LEMMA WholeTornLast == \A s \in Seq(Records) : s \in Seq(Items) /\ TornLast(s)
BY BufferItems DEF TornLast

\* What a write cut short leaves: some records of the buffer, and then nothing or
\* a torn record.
LEMMA CutShape ==
  ASSUME NEW b, NEW cut \in CutWrites(b)
  PROVE  \/ \E k \in 0..Len(b) : cut = SubSeq(b, 1, k)
         \/ \E k \in 0..(Len(b) - 1), t \in {TornHeader, TornBody} :
              cut = Append(SubSeq(b, 1, k), t)
BY DEF CutWrites

\* One torn record behind whole ones is the last item.
LEMMA AppendTornLast ==
  ASSUME NEW p \in Seq(Records), NEW t \in Items PROVE TornLast(Append(p, t))
<1>1. p \in Seq(Items)
  BY WholeTornLast
<1>2. Len(Append(p, t)) = Len(p) + 1 /\ \A i \in 1..Len(p) : Append(p, t)[i] = p[i]
  BY <1>1
<1>3. QED
  BY <1>1, <1>2 DEF TornLast

LEMMA CutTornLast ==
  ASSUME NEW b \in Seq(Records), NEW cut \in CutWrites(b)
  PROVE  cut \in Seq(Items) /\ TornLast(cut)
<1>1. cut \in Seq(Items)
  BY CutWritesType
<1>2. \A k \in 0..Len(b) : SubSeq(b, 1, k) \in Seq(Records)
  OBVIOUS
<1>3. PICK k \in 0..Len(b) :
        \/ cut = SubSeq(b, 1, k)
        \/ \E t \in {TornHeader, TornBody} : cut = Append(SubSeq(b, 1, k), t)
  <2>1. \A k \in 0..(Len(b) - 1) : k \in 0..Len(b)
    OBVIOUS
  <2>2. QED
    BY <2>1, CutShape
<1>4. {TornHeader, TornBody} \subseteq Items
  BY DEF Items
<1>5. TornLast(cut)
  BY <1>2, <1>3, <1>4, WholeTornLast, AppendTornLast
<1>6. QED
  BY <1>1, <1>5

\* A cut write behind whole records is torn at the end only.
LEMMA ConcatTornLast ==
  ASSUME NEW s \in Seq(Records), NEW t \in Seq(Items), TornLast(t)
  PROVE  TornLast(s \o t)
<1>1. s \in Seq(Items) /\ Len(s) \in Nat /\ Len(t) \in Nat
  BY WholeTornLast
<1>2. Len(s \o t) = Len(s) + Len(t)
  BY <1>1
<1>3. ASSUME NEW i \in 1..(Len(s \o t) - 1) PROVE (s \o t)[i] \in Records
  <2>1. CASE i <= Len(s)
    <3>1. (s \o t)[i] = s[i] /\ i \in 1..Len(s)
      BY <1>1, <1>2, <2>1
    <3>2. QED
      BY <3>1
  <2>2. CASE i > Len(s)
    <3>1. (s \o t)[i] = t[i - Len(s)] /\ i - Len(s) \in 1..(Len(t) - 1)
      BY <1>1, <1>2, <2>2
    <3>2. QED
      BY <3>1 DEF TornLast
  <2>3. QED
    BY <2>1, <2>2
<1>4. QED
  BY <1>3 DEF TornLast

\* A write to a whole file, cut or not, tears it at the end at most.
LEMMA WriteTornLast ==
  ASSUME NEW segs, Directory(segs), AllTornLast(segs), NEW n, Whole(segs, n),
         NEW items \in Seq(Items), TornLast(items)
  PROVE  AllTornLast(WriteOut(segs, n, items))
BY ConcatTornLast DEF AllTornLast, WriteOut, Whole

\* A complete write leaves it whole.
LEMMA WriteWhole ==
  ASSUME NEW segs, Directory(segs), AllTornLast(segs), NEW n, Whole(segs, n),
         NEW items \in Seq(Records)
  PROVE  /\ AllTornLast(WriteOut(segs, n, items))
         /\ Whole(WriteOut(segs, n, items), n)
<1>1. AllTornLast(WriteOut(segs, n, items))
  BY WholeTornLast, WriteTornLast
<1>2. Whole(WriteOut(segs, n, items), n)
  BY DEF WriteOut, Whole
<1>3. QED
  BY <1>1, <1>2

\* A new file is empty, and so whole.
LEMMA CreateWhole ==
  ASSUME NEW segs, AllTornLast(segs), NEW n, n \notin DOMAIN segs
  PROVE  AllTornLast(CreateSegment(segs, n)) /\ Whole(CreateSegment(segs, n), n)
<1>1. <<>> \in Seq(Records) /\ TornLast(<<>>)
  BY WholeTornLast, BufferItems
<1> DEFINE new == CreateSegment(segs, n)
<1>2. /\ DOMAIN new = DOMAIN segs \cup {n} /\ new[n] = <<>>
      /\ \A m \in DOMAIN segs : new[m] = segs[m]
  BY DEF CreateSegment
<1> HIDE DEF new
<1>3. AllTornLast(new)
  BY <1>1, <1>2 DEF AllTornLast
<1>4. Whole(new, n)
  BY <1>1, <1>2 DEF Whole
<1>5. QED
  BY <1>3, <1>4 DEF new

------------------------------------------------------------------------------
(* The invariant *)

\* As long as no write fails, torn records are at the end of their segments, and
\* the segment that is written to has none: only a crash tears one, and no life
\* of the process writes to a segment of an earlier one.
TornInv ==
  /\ writeFaults \in Nat
  /\ writeFaults = 0 =>
       AllTornLast(segments) /\ (up => Whole(segments, current_segment))

LEMMA TornInit == Init => TornInv
BY DEF Init, TornInv, AllTornLast

\* append to a whole file of a directory torn at the ends
LEMMA AppendToTorn ==
  ASSUME LogInv, TornInv, NEW STATE segs, NEW STATE n, NEW STATE b, NEW STATE w,
         writeFaults = 0 => AllTornLast(segs) /\ Whole(segs, n),
         Directory(segs), b \in Seq(Records), appended < MaxAppends,
         AppendTo(segs, n, b, w)
  PROVE  TornInv'
<1> DEFINE pending == Append(b, appended + 1)
<1>1. appended + 1 \in Records
  BY WalAssumption DEF LogInv, TypeOK, Records
<1>2. pending \in Seq(Records)
  BY <1>1
<1>3. \/ segments' = segs /\ ContinueOn(n, w + 1) /\ UNCHANGED writeFaults
      \/ segments' = WriteOut(segs, n, pending) /\ ContinueOn(n, w + 1) /\ UNCHANGED writeFaults
      \/ writeFaults' = writeFaults + 1
      \/ /\ \E cut \in CutWrites(pending) : segments' = WriteOut(segs, n, cut)
         /\ Forget /\ UNCHANGED writeFaults
  BY DEF AppendTo
<1> HIDE DEF pending
<1>4. CASE writeFaults' = writeFaults + 1
  BY <1>4 DEF TornInv
<1>5. CASE writeFaults # 0 /\ UNCHANGED writeFaults
  BY <1>5 DEF TornInv
<1>6. CASE writeFaults = 0 /\ UNCHANGED writeFaults
  <2>1. CASE segments' = segs /\ ContinueOn(n, w + 1)
    BY <1>6, <2>1 DEF TornInv, ContinueOn
  <2>2. CASE segments' = WriteOut(segs, n, pending) /\ ContinueOn(n, w + 1)
    BY <1>2, <1>6, <2>2, WriteWhole DEF TornInv, ContinueOn
  <2>3. CASE (\E cut \in CutWrites(pending) : segments' = WriteOut(segs, n, cut)) /\ Forget
    BY <1>2, <1>6, <2>3, CutTornLast, WriteTornLast DEF TornInv, Forget
  <2>4. QED
    BY <1>3, <1>6, <2>1, <2>2, <2>3 DEF TornInv
<1>7. QED
  BY <1>3, <1>4, <1>5, <1>6

\* Flushing the buffer before a rotation, and the new file of the rotation
LEMMA RotatedTorn ==
  ASSUME LogInv, TornInv, up, writeFaults = 0, segment_number < MaxSegments
  PROVE  AllTornLast(Rotated) /\ Whole(Rotated, segment_number + 1)
<1> DEFINE flushed == WriteOut(segments, current_segment, buffer)
<1>1. AllTornLast(flushed) /\ DOMAIN flushed = DOMAIN segments
  BY WriteWhole, LogInvDirectory DEF TornInv, LogInv, TypeOK, WriteOut
<1>2. segment_number + 1 \notin DOMAIN segments
  BY WalAssumption DEF LogInv, TypeOK, NumbersInv
<1>3. QED
  BY <1>1, <1>2, CreateWhole DEF Rotated

LEMMA TornNext == LogInv /\ TornInv /\ [Next]_vars => TornInv'
<1> SUFFICES ASSUME LogInv, TornInv, [Next]_vars PROVE TornInv'
  OBVIOUS
<1>1. ASSUME NEW n \in 1..MaxSegments, Open(n) PROVE TornInv'
  <2>1. /\ n \notin DOMAIN segments /\ segments' = CreateSegment(segments, n)
        /\ UNCHANGED writeFaults
        /\ up' => current_segment' = n
    <3>1. n \notin DOMAIN segments
      BY <1>1 DEF Open, NextSegment, LogInv, TypeOK
    <3>2. QED
      BY <1>1, <3>1 DEF Open, faults
  <2>2. QED
    BY <2>1, CreateWhole DEF TornInv
<1>2. CASE AppendHere
  BY <1>2, AppendToTorn, LogInvDirectory DEF AppendHere, TornInv, LogInv, TypeOK
<1>3. CASE AppendRotating
  BY <1>3, AppendToTorn, RotatedTorn, RotationFacts, BufferItems DEF AppendRotating
<1>4. CASE AppendRefused
  <2>1. /\ up /\ segment_number < MaxSegments /\ segments' = Rotated
        /\ current_segment' = segment_number + 1 /\ UNCHANGED writeFaults
    BY <1>4 DEF AppendRefused, faults
  <2>2. QED
    BY <2>1, RotatedTorn DEF TornInv
<1>5. CASE AppendRotationFails \/ Flush \/ Shutdown
  <2>1. /\ up /\ segments' = WriteOut(segments, current_segment, buffer)
        /\ UNCHANGED writeFaults /\ (up' => UNCHANGED current_segment)
    BY <1>5 DEF AppendRotationFails, Flush, Shutdown, Forget, faults
  <2>2. QED
    BY <2>1, WriteWhole, LogInvDirectory DEF TornInv, LogInv, TypeOK
<1>6. CASE FlushFails
  BY <1>6 DEF FlushFails, TornInv
<1>7. CASE Crash
  <2>1. PICK cut \in CutWrites(buffer) : segments' = WriteOut(segments, current_segment, cut)
    BY <1>7 DEF Crash
  <2>2. up /\ up' = FALSE /\ UNCHANGED writeFaults
    BY <1>7 DEF Crash, Forget
  <2>3. writeFaults = 0 => AllTornLast(segments')
    BY <2>1, <2>2, CutTornLast, WriteTornLast, LogInvDirectory DEF TornInv, LogInv, TypeOK
  <2>4. QED
    BY <2>2, <2>3 DEF TornInv
<1>8. CASE MarkFlushed
  BY <1>8 DEF MarkFlushed, faults, TornInv
<1>9. CASE \E r \in 0..MaxSegments : Cleanup(r) \/ CleanupFails(r)
  <2>1. /\ \E victims : segments' = [n \in DOMAIN segments \ victims |-> segments[n]]
        /\ UNCHANGED <<up, current_segment, writeFaults>>
    BY <1>9 DEF Cleanup, CleanupFails, Delete, memory, faults
  <2>2. QED
    BY <2>1 DEF TornInv, AllTornLast, Whole
<1>10. CASE UNCHANGED vars
  BY <1>10 DEF vars, memory, faults, TornInv
<1>11. QED
  BY <1>1, <1>2, <1>3, <1>4, <1>5, <1>6, <1>7, <1>8, <1>9, <1>10 DEF Next

\* In a segment torn at the end recovery gets to every record.
LEMMA TornReadable ==
  ASSUME LogInv, TornInv PROVE FlushedReadable
<1> SUFFICES ASSUME writeFaults = 0, NEW id \in 1..appended,
                    id \notin Ids(buffer) \cup lost \cup cleaned
             PROVE  \E n \in DOMAIN segments : \E i \in Intact(segments[n]) : segments[n][i] = id
  BY DEF FlushedReadable
<1>1. PICK n \in DOMAIN segments : id \in Ids(segments[n])
  BY DEF LogInv, NoSilentLoss
<1>2. PICK i \in 1..Len(segments[n]) : segments[n][i] = id /\ id \in Records
  BY <1>1 DEF Ids
<1>3. Len(segments[n]) \in Nat
  BY DEF LogInv, TypeOK
<1>4. \A j \in 1..i : j = i \/ j \in 1..(Len(segments[n]) - 1)
  BY <1>2, <1>3
<1>5. \A j \in 1..i : segments[n][j] \in Records
  BY <1>2, <1>4 DEF TornInv, AllTornLast, TornLast
<1>6. i \in Intact(segments[n])
  BY <1>2, <1>5 DEF Intact
<1>7. QED
  BY <1>2, <1>6

------------------------------------------------------------------------------
\* As long as no write fails, recovery reads everything that was written out and
\* not cleaned up, through any number of crashes, restarts and rotations.
THEOREM WrittenIsReadable == Spec => []FlushedReadable
<1>1. Init => TornInv
  BY TornInit
<1>2. LogInv /\ TornInv /\ [Next]_vars => TornInv'
  BY TornNext
<1>3. LogInv /\ TornInv => FlushedReadable
  BY TornReadable
<1>4. QED
  BY <1>1, <1>2, <1>3, LogInvariant, PTL DEF Spec

==============================================================================
