\* Three calls, no symmetry: order and liveness over two lanes whose caps can be
\* lowered; no shared resource.
SPECIFICATION WorkingSpec
CHECK_DEADLOCK FALSE
CONSTANTS
  Calls = {c1, c2, c3}
  N = 2
  Resources = {}
  NoResource = NoResource
  ActiveLimit = 3
  PerLane = 2
  WaitingLimit = 2
  PerLaneWaiting = 2
  ResourceLimit = 2
  LaneResourceLimit = 1
  FinishOutcomes = {"Success"}
PROPERTY NoOvertaking QueueDrains
