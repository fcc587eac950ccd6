CONSTANTS
  f1 = f1
  f2 = f2
  f3 = f3
  Providers <- MCProviders
  Fingerprints <- MCFingerprints
  Quorums <- MCQuorums
SYMMETRY FingerprintSymmetry
SPECIFICATION Spec
CHECK_DEADLOCK FALSE
INVARIANTS
  AgreedIsUnique
  FailureIsReal
  LowestIndexRetained
  RoundSound
