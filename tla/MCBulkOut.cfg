SPECIFICATION Spec
CONSTANTS
  Tasks = {1}
  Jobs = {"mgmt", "data", "null", "pspoll"}
  LastPipe = 1
  MGMT_RING_SIZE = 2
  UintMod = 16
  RingCap = 1
  MayScan = TRUE
  TaskletCpus = 1
  MaxJobs = 2
  MaxFaults = 1
CHECK_DEADLOCK FALSE
INVARIANTS TypeOK OneUserPerPipe PendingHasUser MgmtRingConsistent
PROPERTY ResetEnds
