SPECIFICATION Spec
CONSTANTS
  Tasks = {1, 2}
  Jobs = {"mgmt", "data", "null", "pspoll"}
  LastPipe = 1
  MGMT_RING_SIZE = 2
  UintMod = 16
  RingCap = 1
  MayScan = FALSE
  TaskletCpus = 1
  MaxJobs = 2
  MaxFaults = 0
CHECK_DEADLOCK FALSE
INVARIANT CompletesInOrder
