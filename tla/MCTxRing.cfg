SPECIFICATION Spec
CONSTANTS
  Writers = {w1, w2}
  Kinds = {"Single", "Frag", "Multi"}
  Concurrent = {"Single"}
  Lens = {4, 5}
  LocalTxBuf = 9
  HeadRoom = 5
  BulkCaps = {4, 6}
  Limit = 21
  MaxFrame = 6
INVARIANTS QueueIntact BulkIntact WalkFindsHeaders
PROPERTY RefinesFifo
CHECK_DEADLOCK FALSE
