SPECIFICATION Spec
INVARIANTS NoPanic RequestOnWire DecodesMeaning WholeReplies
CONSTANTS
  Requests <- SomeRequests
  Replies <- SomeReplies
  Times <- SomeTimes
  BufferSize = 16
  Chunks = {5, 1000}
  Prepared = {FALSE}
  MaxUint8 = 3
  SizeBits = 12
  MaxMessages = 2
CHECK_DEADLOCK FALSE
