\* Two workers and two attempts, of one job or of two jobs for the same build.
SPECIFICATION Spec
CONSTANTS
  w1 = w1  w2 = w2  j1 = j1  j2 = j2
  None = None
  Workers = {w1, w2}
  Jobs = {j1, j2}
  MaxAttempts = 2
  Withdraws = {"rtw", "dc"}
  ClockMargin = TRUE
CONSTRAINT TwoAttempts
INVARIANTS TypeOK SuccessIsAccepted DeliveredIsConfirmed RowPrecedesReady
PROPERTIES ReceiptsAreKept
SYMMETRY Symmetry
CHECK_DEADLOCK FALSE
