SPECIFICATION Spec
CHECK_DEADLOCK FALSE
CONSTANTS
  Run = {r1, r2}
  r2 = r2
  r1 = r1
  Flow = {f1, f2}
  f1 = f1
  f2 = f2
  Approval = {a1, a2}
  a2 = a2
  a1 = a1
  NoRun = NoRun
  NoFlow = NoFlow
  NoApproval = NoApproval
  MaxRounds = 1
  MaxFault = 1
  MaxCrash = 1
SYMMETRY Symmetry
CONSTRAINT OneComplication
INVARIANTS
  RunHasOneOwner
  ToolsOnlyOnce
  NoRunStranded
PROPERTIES
  AbortOnlyLeftovers
