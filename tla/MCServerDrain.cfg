\* Two slots, one upload permit (half of them), with and without withdrawal.
CONSTANTS
  Conns = {a, b}
  MaxConnections = 2
  UploadLimit = 1
  Withdrawals = {TRUE, FALSE}
SPECIFICATION Spec
INVARIANT ServerInv
PROPERTIES
  EvictionSparesRequests
  StreamsResolve
  ServerStops
