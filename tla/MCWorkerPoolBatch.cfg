\* A batch on a pool that is released.
SPECIFICATION FairSpec
CONSTANTS
  w1 = w1  w2 = w2  r1 = r1  b1 = b1
  None = None
  Workers = {w1}
  Recallers = {}
  Batchers = {b1}
  Jobs = 2
  Cancels = {}
  Releases = TRUE
PROPERTIES EveryCallReturns
CHECK_DEADLOCK FALSE
