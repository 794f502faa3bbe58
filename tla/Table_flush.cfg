SPECIFICATION TableSpec
CONSTANTS
  Keys <- MCKeys
  ValueSizes = {0, 130}
  MaxSize = 150
  MaxPuts = 4
  BlockSize = 30
  Compressed <- MCCompressed
  NumBits = 11
  NumHashes = 2
  Word = 256
  HashFns <- MCHashFns
  MaxTimestamp = 99
INVARIANTS TableTypeOK NeverUndercounts GetFindsFlushed ScanFindsFlushed WrittenDecodes HeaderDescribesTable
CHECK_DEADLOCK FALSE
