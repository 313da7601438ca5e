SPECIFICATION Spec
CONSTANTS
  Timer = {"periodic", "once"}
  Periodic = {"periodic"}
  QSize = 1
  Canceller = {"mlme", "close"}
  MaxSema = 1
  None = None
  Cmd = {}
  MaxMsgs = 1
  MaxEvents = 0
INVARIANT TimerNotLost
PROPERTY CancelReaches
CHECK_DEADLOCK FALSE
