SPECIFICATION Spec
CHECK_DEADLOCK FALSE
CONSTANTS
  Calls = {1, 2, 3}
  Mixes <- MCMixes
  RpcLimit <- MCLimits
  ParserWait = 2
  SlotWait = 2
  ParserActive = 2
  LaneActive <- MCLanes
  LaneWaiting = 1
  Waiting = 2
  Slots = 1
  MaxWaiting = 1
INVARIANT GateInv
PROPERTY PromptIsNotBlamed
