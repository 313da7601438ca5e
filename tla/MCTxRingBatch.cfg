SPECIFICATION Spec
CONSTANTS
  Writers = {w1, w2}
  Kinds = {"Multi"}
  Concurrent = {"Multi"}
  Lens = {4, 5}
  LocalTxBuf = 7
  HeadRoom = 5
  BulkCaps = {5}
  Limit = 21
  MaxFrame = 6
INVARIANT BatchOwnsRing
CHECK_DEADLOCK FALSE
