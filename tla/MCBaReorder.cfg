SPECIFICATION Spec
CONSTANTS
  SEQMOD = 32
  WIN = 3
  POOL = 2
  FIRST = 30
  LAST = 34
  EapFrames = {32}
  MaxArrivals = 6
  MaxChanges = 2
INVARIANTS TypeOK BlocksConserved HeldInWindow FirstCopiesInOrder NoneTwice AllReleased
CHECK_DEADLOCK FALSE
