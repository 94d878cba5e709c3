CONSTANTS
  Ports = {p1, p2, p3}
  Threads = {t1, t2}
  None = None
  MaxSends = 3
SPECIFICATION FairSpec
INVARIANTS NoCircle Asserts 
PROPERTIES RefusedIfCircular CheckReturns
CHECK_DEADLOCK FALSE
