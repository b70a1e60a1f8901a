SPECIFICATION NavigationSpec
CHECK_DEADLOCK FALSE
CONSTANTS
  Conv = {c1}
  Nowhere = nowhere
  Local = local
  Slow = {"wire"}
  MaxClick = 2
  MaxStream = 1
  MaxOnWay = 1
  MaxLoss = 0
INVARIANTS
  NeverHijacked
