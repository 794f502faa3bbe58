SPECIFICATION EngineSpec
CONSTANTS
  SegmentLimit = 1
  BufferCapacity = 1
  TornHeader = TornHeader
  TornBody = TornBody
  MaxAppends = 5
  MaxSegments = 7
  MaxCrashes = 0
  MaxWriteFaults = 0
  MaxCreateFaults = 0
  MaxDeleteFaults = 0
  Keys = {k1, k2}
  MemTableLimit = 1
  Background = FALSE
  Compaction = TRUE
  MinInputs = 2
  SimilarSizes = TRUE
  PutsPerSecond = 2
  MaxWait = 1
  FlushInTime = TRUE
  MaxFlushFaults = 0
  MaxCompactFaults = 1
INVARIANTS ReadsLatestSecond ScanAgrees TablesNotEmpty
PROPERTY FlushedFilesStay
SYMMETRY KeySymmetry
CHECK_DEADLOCK FALSE
