SPECIFICATION FairSpec
CHECK_DEADLOCK FALSE
CONSTANTS
  Run = {r1}
  r1 = r1
  Flow = {f1, f2}
  f1 = f1
  f2 = f2
  Approval = {a1}
  a1 = a1
  NoRun = NoRun
  NoFlow = NoFlow
  NoApproval = NoApproval
  MaxRounds = 1
  MaxFault = 0
  MaxCrash = 1
PROPERTIES
  ImplementsLifecycle
  RunSettles
