SPECIFICATION Spec
CONSTANTS
  RX_RING_SIZE = 2
  UcharMod = 4
  MaxFaults = 2
CHECK_DEADLOCK FALSE
INVARIANT BytesKept
