SPECIFICATION FairCompactionSpec
CONSTANTS
  NumKeys <- MCNumKeys
  ScanEnd <- MCScanEnd
  Files <- MCFiles
  NumFiles = 3
  MinInputs = 2
INVARIANTS CompactionTypeOK SelectsLargestGroup WritesAscending KeepsNewest
PROPERTY MergeEnds
CHECK_DEADLOCK FALSE
