SPECIFICATION Spec
CONSTANTS
  TID = {0}
  NOri = 2
  NRec = 1
  MaxOri = 3
  MaxRec = 1
  MaxRetry = 2
  Tasks = {"mlme", "timer", "tx"}
  MaxEvents = 3
INVARIANT FreesCounted
CHECK_DEADLOCK FALSE
