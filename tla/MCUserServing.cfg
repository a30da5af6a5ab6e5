\* Two workers and two specs; up to two facts over three times.
SPECIFICATION MCSpec
CONSTANTS
  w1 = w1  w2 = w2  None = None
  Workers = {w1, w2}
  Facts <- MCFacts
  Specs <- MCSpecs
  Windows = {1}
  Pairs <- MCPairs
  Horizon = 3
  Lag = 1
  CutLag = 0
  MaxFacts = 2
  MaxDefinitions = 2
  MaxRevision = 2
  MaxGrant = 3
  MaxPointer = 2
  MaxCalls = 5
  Never = 99
SYMMETRY Symmetry
INVARIANTS TypeOK ReadyIsCurrent ServedIsCurrent SnapshotIsOneState CanAlwaysRebuild
PROPERTIES PointersMoveForward
CHECK_DEADLOCK FALSE
