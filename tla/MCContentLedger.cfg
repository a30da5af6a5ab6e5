\* One build with two attempts over two epochs, or two builds that share a
\* revision; every call in every order, tombstones repeated, reordered and
\* contradictory, and a chunk profile bound twice.
SPECIFICATION Spec
CONSTANTS
  b1 = b1  b2 = b2  i1 = i1  i2 = i2  v1 = v1  v2 = v2
  a1 = a1  a2 = a2  r1 = r1  r2 = r2  h1 = h1  h2 = h2  p1 = p1
  None = None
  Builds = {b1, b2}
  Inputs = {i1, i2}
  Revisions = {v1, v2}
  RevisionsOf <- MCRevisionsOf
  Attempts = {a1, a2}
  Refs = {r1, r2}
  Hashes = {h1, h2}
  Profiles = {p1}
  MaxEpoch = 2
  MaxCancel = 1
  MaxVersion = 2
  MaxTime = 2
CONSTRAINT OneBuildOrOneAttempt
INVARIANTS TypeOK OutboxMatchesReady ReadyIsComplete
PROPERTIES StaleAttemptsWriteNothing ExpiredLeaseWritesNothing
           InvalidationIsFinal ImplementsOutcome
SYMMETRY Symmetry
CHECK_DEADLOCK FALSE
