\* Three deliveries of one request over two replicas, two possible inputs, and
\* a quota of two.
CONSTANTS
  first = first
  retry = retry
  elsewhere = elsewhere
  here = here
  there = there
  Calls = {first, retry, elsewhere}
  Replicas = {here, there}
  Home <- MCHome
  Identity <- MCIdentity
  Inputs = {d1, d2}
  MaxAttempts = 2
  NoCall = NoCall
SPECIFICATION Spec
CHECK_DEADLOCK FALSE
INVARIANT StoreInv
PROPERTIES
  ImplementsLedger
  BeginsEnd
