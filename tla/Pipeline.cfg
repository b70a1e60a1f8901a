SPECIFICATION FairSpec
CONSTANTS
  Client = {c1}
  c1 = c1
  Emits = {"start", "queued", "direct"}
  MaxAttempts = 2
  MaxEvent = 3
  MaxFault = 2
  MaxCrash = 1
INVARIANTS
  EventsKept
  DurableBeforeBroadcast
  ReplayCoversGap
PROPERTIES
  EventuallyWritten
