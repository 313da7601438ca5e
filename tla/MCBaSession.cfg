SPECIFICATION Spec
CONSTANTS
  TID = {0, 1}
  NOri = 2
  NRec = 1
  MaxOri = 3
  MaxRec = 1
  MaxRetry = 2
  Tasks = {"mlme", "timer", "tx", "user"}
  MaxEvents = 3
CONSTRAINT NotMet
INVARIANTS
  TypeOK
  Counted
  TxAgreed
  WaitingIffTimed
PROPERTY SetupEnds
CHECK_DEADLOCK FALSE
