SPECIFICATION Spec
CONSTANTS
  MaxAttempts = 2
  c1 = c1
  c2 = c2
  Candidates = {c1, c2}
  None = None
SYMMETRY Symmetry
\* A job that has ended stays so.
CHECK_DEADLOCK FALSE
INVARIANTS
  SuccessIsAccepted
  ReportsAreTrue
  WithdrawnIsNotCompleted
