SPECIFICATION FairServerSpec
CONSTANTS
  Clients = {c1, c2}
  SegmentLimit = 9
  BufferCapacity = 1
  TornHeader = TornHeader
  TornBody = TornBody
  MaxAppends = 3
  MaxSegments = 3
  MaxCrashes = 1
  MaxWriteFaults = 0
  MaxCreateFaults = 0
  MaxDeleteFaults = 1
  Keys = {k1}
  MemTableLimit = 1
  Background = TRUE
  Compaction = FALSE
  MinInputs = 2
  SimilarSizes = TRUE
  PutsPerSecond = 2
  MaxWait = 1
  FlushInTime = TRUE
  MaxFlushFaults = 0
  MaxCompactFaults = 0
INVARIANTS ServerTypeOK ReadsLatest ScanAgrees NewestToOldest ImmutableIsBeingFlushed OnePutAtATime
PROPERTIES ImplementsKVStore ImplementsLinearKV EveryRequestAnswered
CHECK_DEADLOCK FALSE
