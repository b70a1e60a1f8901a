SPECIFICATION ServicesSpec
CHECK_DEADLOCK FALSE
CONSTANTS
  Caller = {c1, c2}
  c1 = c1
  c2 = c2
  Linker = {l1}
  l1 = l1
  MaxHistory = 3
  MaxChange = 2
  MaxSave = 1
  MaxFailure = 1
  Task <- TwoTasks
  Types = {"make_and_publish_video", "return_home", "other"}
  Ties = {}
  FastRuns = FALSE
  MaxUpset = 1
  Char = {"<", "F", "B", "E", "x"}
  Texts <- PieceTexts
  MaxPieces = 4
  Call = {k1, k2}
  k1 = k1
  k2 = k2
  MaxDelta = 1
  RecordCap = 1
  Pid = {"p1", "p2"}
  MaxDaemon = 3
  Shell = {"s1", "s2"}
  MaxCommand = 3
  AgentRun = {"r1"}
  MaxSummary = 3
  PageSize = 1
  ScanBudget = 2
  MaxVersion = 2
  Fresh = {"h1"}
  Resuming = {"h2", "h3"}
  MaxCompleted = 1
  MaxLoss = 1
  Chat = {"chat1", "chat2"}
  NewRun = {"run1", "run2"}
  Remover = {"del1", "del2"}
  Ours = {"del1"}
  Unset = "unset"
  MaxPatch = 1
  MaxRequest = 1
  Retrieval = {"a", "b"}
  Query = {"q"}
  Skill = {"s"}
  Flight = {"n1", "n2"}
  MaxFailed = 1
  MaxReload = 1
CONSTRAINT NothingLost
INVARIANTS
  
  
  
  MarkersHidden
  OneVoice
  
  SweepMarks
  WatcherCatchesUp
  
  ConversationsHoldTogether
  RankingIsSemantic
