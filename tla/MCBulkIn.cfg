SPECIFICATION Spec
CONSTANTS
  RX_RING_SIZE = 2
  UcharMod = 4
  MaxFaults = 2
CHECK_DEADLOCK FALSE
INVARIANTS TypeOK ReaderOwnsBuffer ReadInOrder PendingRxCounts ConcatenatesFailed
PROPERTY ReceptionResumes
CONSTRAINT NotHasty
