SPECIFICATION Spec
CONSTANTS
  a1 = a1
  a2 = a2
  AP = {a1, a2}
  Ssids = {{a1, a2}}
  QueueLen = 5
  AuthMode = "Shared"
  Psk = TRUE
  NChan = 1
  MaxEvents = 2
SYMMETRY Symmetry
CHECK_DEADLOCK FALSE
CONSTRAINT NotExcused
INVARIANTS MachinesEnd WaitSupported ScanFlagEnds
PROPERTY LinkUpAccepted
