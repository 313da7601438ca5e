SPECIFICATION Spec
CONSTANTS
  Tasks = {1}
  Jobs = {"data"}
  LastPipe = 0
  MGMT_RING_SIZE = 2
  UintMod = 16
  RingCap = 1
  MayScan = FALSE
  TaskletCpus = 1
  MaxJobs = 2
  MaxFaults = 0
CHECK_DEADLOCK FALSE
PROPERTY ReadyFrameIsSent
