SPECIFICATION Spec
CONSTANTS
  Writers = {w1}
  Kinds = {"Multi"}
  Concurrent = {}
  Lens = {4, 5}
  LocalTxBuf = 7
  HeadRoom = 5
  BulkCaps = {5}
  Limit = 21
  MaxFrame = 6
INVARIANT AggregateCounted
CHECK_DEADLOCK FALSE
