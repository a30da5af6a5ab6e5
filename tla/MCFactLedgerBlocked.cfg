SPECIFICATION Spec
CONSTANTS
  s1 = s1
  s2 = s2
  alias = alias
  null = null
  None = null
  Subjects = {s1}
  Aliases = {}
  Envelopes <- BlockedFacts
  Displays <- NoDisplays
  ChainLimit = 4
  ReadyLimit = 4
INVARIANTS
  ArrivalPromotes
CHECK_DEADLOCK FALSE
