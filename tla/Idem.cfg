SPECIFICATION FairSpec
CHECK_DEADLOCK FALSE
CONSTANTS
  Request = {q1, q2, q3}
  q1 = q1
  q2 = q2
  q3 = q3
  NoRequest = NoRequest
  Background = {q1, q2}
  Hash = {h1, h2}
  h1 = h1
  h2 = h2
  MaxFault = 2
  MaxCrash = 1
INVARIANTS
  HandledOnce
  ReplayIsOwn
PROPERTIES
  KeyUnblocks
