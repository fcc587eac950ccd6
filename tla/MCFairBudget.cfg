\* Four calls, two lanes, a resource shared by both lanes.
SPECIFICATION Spec
CHECK_DEADLOCK FALSE
CONSTANTS
  Calls = {c1, c2, c3, c4}
  N = 2
  Resources = {r1}
  NoResource = NoResource
  ActiveLimit = 2
  PerLane = 1
  WaitingLimit = 1
  PerLaneWaiting = 2
  ResourceLimit = 1
  LaneResourceLimit = 1
  FinishOutcomes = {"Success"}
SYMMETRY CallSymmetry
INVARIANT BudgetInv SnapshotSound
PROPERTY ImplementsAdmission
