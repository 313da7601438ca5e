SPECIFICATION Spec
CONSTANTS
  Timer = {"once"}
  Periodic = {}
  QSize = 1
  Canceller = {"mlme", "close"}
  MaxSema = 1
  None = None
  Cmd = {1, 2}
  MaxMsgs = 1
  MaxEvents = 1
INVARIANT CommandsFreed
PROPERTIES CommandServed CloseEnds
CHECK_DEADLOCK FALSE
