SPECIFICATION MCSpec
CHECK_DEADLOCK FALSE
CONSTANTS
  Roster <- MCRoster
  Rollouts <- MCRollouts
  Pairs <- MCPairs
  MaxFaults = 1
  Requests <- MCRequests
  Messages <- MCMessages
  Required <- MCRequired
  MaxHeight = 3
  MaxForks = 2
  TargetHeight = 4
  TargetForks = 2
  Depth = 2
  MaxMarkers = 2
INVARIANTS SignedIsFinal NotSignedAgain ReadIsPinned WorkflowInv ServingSound
PROPERTY Converges
