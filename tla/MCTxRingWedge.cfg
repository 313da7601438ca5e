SPECIFICATION Spec
CONSTANTS
  Writers = {w1}
  Kinds = {"Single", "Frag", "Multi"}
  Concurrent = {"Single"}
  Lens = {4, 5}
  LocalTxBuf = 7
  HeadRoom = 5
  BulkCaps = {5}
  Limit = 21
  MaxFrame = 6
INVARIANT EmptyMeansEmpty
CHECK_DEADLOCK FALSE
