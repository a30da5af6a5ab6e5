\* The margin before a lease ends: a success confirmed by both authorities.
SPECIFICATION FairSpec
CONSTANTS
  w1 = w1  w2 = w2  j1 = j1  j2 = j2
  None = None
  Workers = {w1}
  Jobs = {j1}
  MaxAttempts = 2
  Withdraws = {}
  ClockMargin = TRUE
PROPERTIES SuccessIsDelivered
CHECK_DEADLOCK FALSE
