\* Chains with rivals and circles, or impressions and readings, or envelopes of
\* an alias that could be two subjects; or a short stream, two workers and facts
\* that come another way.
SPECIFICATION MCSpec
CONSTANTS
  s1 = s1
  s2 = s2
  w1 = w1
  w2 = w2
  alias = alias
  null = null
  None = null
  Subjects = {s1, s2}
  Aliases = {alias}
  Envelopes <- FactsOfAll
  Displays <- ViewDisplays
  ChainLimit = 2
  ReadyLimit = 2
  Workers = {w1, w2}
  Stream <- Offsets
  BatchLimit = 3
  OtherFacts <- Others
  MaxFaults = 1
INVARIANTS
  TypeOK
  ActiveIsTheTip
  ChainsAreAccepted
  WatermarkIsExact
  LinksLeadToActiveImpressions
  WaitsOnlyForMissing
  BoundWhereItsAliasIs
  AcknowledgedIsAccepted
PROPERTIES
  ImplementsTimeline
  EverythingIsDelivered
CHECK_DEADLOCK FALSE
