SPECIFICATION FairSpec
CHECK_DEADLOCK FALSE
CONSTANTS
  look1 = look1
  look2 = look2
  write = write
  Action = {look1, look2, write}
  NoAction = NoAction
  SkillOf <- MCSkillOf
  Risk <- MCRisk
  Destructive = {"files"}
  Mode = {"auto"}
  ParallelSkill = {"lookup"}
  Idempotent = {look1, look2}
  MaxAttempts = 2
  MaxRepeated = 1
  MaxToolRounds = 2
  MaxModelCalls = 3
  MaxBatch = 2
  MaxFault = 1
  MaxCrash = 1
INVARIANTS
  ActionOnce
  CallsAccounted
  BudgetKept
  OnlySanctioned
