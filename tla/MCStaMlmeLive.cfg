SPECIFICATION Spec
CONSTANTS
  a1 = a1
  AP = {a1}
  Ssids = {{a1}}
  QueueLen = 5
  AuthMode = "Shared"
  Psk = TRUE
  NChan = 1
  MaxEvents = 2
CHECK_DEADLOCK FALSE
PROPERTY AttemptEnds
