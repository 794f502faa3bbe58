SPECIFICATION EngineSpec
CONSTANTS
  SegmentLimit = 9
  BufferCapacity = 1
  TornHeader = TornHeader
  TornBody = TornBody
  MaxAppends = 6
  MaxSegments = 3
  MaxCrashes = 1
  MaxWriteFaults = 0
  MaxCreateFaults = 0
  MaxDeleteFaults = 0
  Keys = {k1, k2}
  MemTableLimit = 1
  Background = FALSE
  Compaction = TRUE
  MinInputs = 2
  SimilarSizes = TRUE
  PutsPerSecond = 1
  MaxWait = 1
  FlushInTime = TRUE
  MaxFlushFaults = 0
  MaxCompactFaults = 0
INVARIANT OutputSurvives
CHECK_DEADLOCK FALSE
