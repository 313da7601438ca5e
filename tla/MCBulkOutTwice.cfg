SPECIFICATION Spec
CONSTANTS
  Tasks = {1, 2}
  Jobs = {"data"}
  LastPipe = 1
  MGMT_RING_SIZE = 2
  UintMod = 16
  RingCap = 1
  MayScan = FALSE
  TaskletCpus = 1
  MaxJobs = 2
  MaxFaults = 1
CHECK_DEADLOCK FALSE
INVARIANT NoDuplicateTransfer
