SPECIFICATION ScanSpec
CHECK_DEADLOCK FALSE
CONSTANTS
  MaxSummary = 3
  PageSize = 1
  ScanBudget = 2
  MaxVersion = 2
INVARIANTS
  StaleSummariesMarked
