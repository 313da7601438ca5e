SPECIFICATION Spec
CONSTANTS
  a1 = a1
  AP = {a1}
  Ssids = {{a1}}
  QueueLen = 6
  AuthMode = "Open"
  Psk = FALSE
  NChan = 1
  MaxEvents = 3
CHECK_DEADLOCK FALSE
CONSTRAINT NotExcused
INVARIANT ScanFlagLowered
