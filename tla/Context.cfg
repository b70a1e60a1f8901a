SPECIFICATION Spec
CHECK_DEADLOCK FALSE
CONSTANTS
  Listed = 2
  Fallback = 3
  Nearest = 1
  Cost = {1, 3}
  Clipped = 2
  OtherCost <- Costs
  Room = 8
  MaxTurn = 2
  MaxFault = 1
INVARIANTS
  SummariesReachModel
