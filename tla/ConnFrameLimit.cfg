CONSTANTS
  Byte <- AllBytes
  MaxU64 = 99
  Requests <- AllRequests
  Malformed <- AllMalformed
  StoredBytes <- ByteStrings
  MaxFrameSize = 16
  ReadSize = 20
  MaxRequests = 2
SPECIFICATION Spec
INVARIANTS
  OnlyLargeFramesRefused
CHECK_DEADLOCK FALSE
