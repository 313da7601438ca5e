SPECIFICATION Spec
CONSTANTS
  AP = {a1, a2}
  NoAP = NoAP
  QueueLen = 2
  FirstR = 1
  MaxLinks = 2
  MaxTries = 1
  MaxRekeys = 1
INVARIANTS KeysAgree SecuredHasKeys WcidTable
PROPERTY HandshakeEnds
CHECK_DEADLOCK FALSE
