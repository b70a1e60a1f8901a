SPECIFICATION FairSpec
CHECK_DEADLOCK FALSE
CONSTANTS
  Skill = {s1}
  s1 = s1
  Toggle = {t1}
  t1 = t1
  Exec = {e1, e2}
  e1 = e1
  e2 = e2
  Deaf = {e1}
  MaxSlots = 2
  MaxHostCalls = 1
INVARIANTS
  PoolIsExact

  
  
