\* Two workers, two keys, a channel of one, more queries than a job holds.
SPECIFICATION FairSpec
CONSTANTS
  k1 = k1  k2 = k2  q1 = q1  q2 = q2  q3 = q3  w1 = w1  w2 = w2
  None = None
  Keys = {k1, k2}
  Queries = {q1, q2, q3}
  Workers = {w1, w2}
  QueueSize = 1
  QueryFanout = 2
  MaxRequests = 3
INVARIANT MarksAreTrue
PROPERTIES EveryJobRuns
CHECK_DEADLOCK FALSE
