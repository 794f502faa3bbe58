SPECIFICATION Spec
CONSTANTS
  SegmentLimit = 2
  BufferCapacity = 2
  TornHeader = TornHeader
  TornBody = TornBody
  MaxAppends = 4
  MaxSegments = 4
  MaxCrashes = 2
  MaxWriteFaults = 1
  MaxCreateFaults = 1
  MaxDeleteFaults = 1
INVARIANTS TypeOK CleanupSafe SegmentOrder NoSilentLoss FlushedReadable LogInv
PROPERTY ClosedImmutable
CHECK_DEADLOCK FALSE
