SPECIFICATION EngineSpec
CONSTANTS
  SegmentLimit = 9
  BufferCapacity = 1
  TornHeader = TornHeader
  TornBody = TornBody
  MaxAppends = 5
  MaxSegments = 1
  MaxCrashes = 0
  MaxWriteFaults = 0
  MaxCreateFaults = 0
  MaxDeleteFaults = 0
  Keys = {k1, k2}
  MemTableLimit = 1
  Background = TRUE
  Compaction = FALSE
  MinInputs = 2
  SimilarSizes = TRUE
  PutsPerSecond = 1
  MaxWait = 1
  FlushInTime = FALSE
  MaxFlushFaults = 0
  MaxCompactFaults = 0
INVARIANT NewestToOldest
CHECK_DEADLOCK FALSE
