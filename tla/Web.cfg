SPECIFICATION ClientSpec
CHECK_DEADLOCK FALSE
CONSTANTS
  Run <- OneRun
  Msg <- Messages
  Waits = {"approval", "user"}
  Tools = TRUE
  MaxParts = 2
  MaxDelta = 2
  MaxLag = 0
  Faults = {"drop", "save", "late", "reload"}
  MaxFault = 1
  Conv = {c1, c2}
  Nowhere = nowhere
  Local = local
  Slow = {"list", "messages", "run", "added", "wire"}
  MaxClick = 2
  MaxStream = 1
  MaxOnWay = 1
  MaxLoss = 1
  Image = {"i1"}
  Document = {"d1"}
  Draft = {"hi"}
  MaxFiles = 2
  MaxUpload = 2
  MaxSend = 2
  Consumer = {worldPage, panel}
  WorldPage = worldPage
  MaxSock = 2
  MaxClosure = 2
  MaxFetch = 2
  MaxWorld = 1
  Layouts = {2, 3}
  Being = {b1, b2}
  b1 = b1
  b2 = b2
  Primary = b1
  MaxNews = 3
  NodeCount = 3
  Distances <- EdgeDistances
INVARIANTS
  TranscriptIsSound
  
  PageOfOneConversation
  
  WorldKeepsUp
  
  
