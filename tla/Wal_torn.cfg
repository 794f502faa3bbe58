SPECIFICATION Spec
CONSTANTS
  SegmentLimit = 2
  BufferCapacity = 2
  TornHeader = TornHeader
  TornBody = TornBody
  MaxAppends = 3
  MaxSegments = 3
  MaxCrashes = 1
  MaxWriteFaults = 0
  MaxCreateFaults = 0
  MaxDeleteFaults = 0
CHECK_DEADLOCK FALSE
INVARIANT OpensAfterCrash
