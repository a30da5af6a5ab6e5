\* A recall and a batch of three tasks on two goroutines, released at any moment.
SPECIFICATION FairSpec
CONSTANTS
  w1 = w1  w2 = w2  r1 = r1  b1 = b1
  None = None
  Workers = {w1, w2}
  Recallers = {r1}
  Batchers = {b1}
  Jobs = 3
  Cancels = {r1}
  Releases = TRUE
INVARIANT ReturnsComplete
PROPERTIES EveryRecallReturns
CHECK_DEADLOCK FALSE
