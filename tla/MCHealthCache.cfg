SPECIFICATION MCSpec
CHECK_DEADLOCK FALSE
CONSTANTS
  ready = ready
  report = report
  Readers <- MCReaders
  Kind <- MCKind
  Ttl = 0
  Stale = 1
  Attempts = 2
  MaxGeneration = 2
  MaxClock = 2
INVARIANTS
  ServedSound
  RankedAsProbed
  ReportFollowsHealth
PROPERTIES
  NewestRoundRetained
  ReadsEnd
