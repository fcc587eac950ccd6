CONSTANTS
  Rounds = {r1, r2}
  Providers <- MCProviders
  Fingerprints = {f1, f2}
  Limit = 3
  MaxValue = 2
  Sizes <- MCSizes
SPECIFICATION PoolSpec
CHECK_DEADLOCK FALSE
INVARIANTS
  PoolExact
  ValuesCovered
PROPERTIES
  ReservationsEnd
