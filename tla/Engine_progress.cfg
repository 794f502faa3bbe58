SPECIFICATION FairEngineSpec
CONSTANTS
  SegmentLimit = 1
  BufferCapacity = 2
  TornHeader = TornHeader
  TornBody = TornBody
  MaxAppends = 3
  MaxSegments = 4
  MaxCrashes = 0
  MaxWriteFaults = 1
  MaxCreateFaults = 0
  MaxDeleteFaults = 1
  Keys = {k1, k2}
  MemTableLimit = 1
  Background = TRUE
  Compaction = TRUE
  MinInputs = 2
  SimilarSizes = TRUE
  PutsPerSecond = 1
  MaxWait = 1
  FlushInTime = FALSE
  MaxFlushFaults = 1
  MaxCompactFaults = 1
PROPERTIES PutReturns FlushQueueDrains
CHECK_DEADLOCK FALSE
