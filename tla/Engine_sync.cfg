SPECIFICATION EngineSpec
CONSTANTS
  SegmentLimit = 2
  BufferCapacity = 2
  TornHeader = TornHeader
  TornBody = TornBody
  MaxAppends = 5
  MaxSegments = 5
  MaxCrashes = 2
  MaxWriteFaults = 0
  MaxCreateFaults = 1
  MaxDeleteFaults = 0
  Keys = {k1, k2}
  MemTableLimit = 2
  Background = FALSE
  Compaction = FALSE
  MinInputs = 2
  SimilarSizes = TRUE
  PutsPerSecond = 1
  MaxWait = 1
  FlushInTime = TRUE
  MaxFlushFaults = 0
  MaxCompactFaults = 0
INVARIANTS EngineTypeOK ReadsLatest SurvivesCrash LogKeepsUnflushed
CHECK_DEADLOCK FALSE
