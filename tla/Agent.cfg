SPECIFICATION AgentSpec
CONSTANTS
  Sessions = {p1}
  Commands = {"RESTART", "UPDATE", "DISCOVER"}
  Slots = {a1, a2}
  Expiry = 0
  MaxTime = 1
  MaxRequests = 2
  MaxLost = 0
  MaxReboots = 0
  p1 = p1
  a1 = a1
  a2 = a2
  Printers = {a, b}
  Configured = {}
  Answering = {a}
  Levels = {0, 1, 3}
  MaxKills = 1
  MaxFileFaults = 1
  a = a
  b = b
  Sites <- MCSites
  Private <- MCPrivate
  BlockSize = 4
  MaxDetected = 4
  MinAuto = 2
  MaxAuto = 8
  SmallNet = 4
  MaxNeighbours = 2
  MaxAddresses = 8
  Communities = {"public", "site", "private"}
  Default = "public"
  Fallback = {"public", "private"}
  MaxLostReplies = 1
  MaxLookups = 1
  Retention = 1
  LastDay = 2
  MaxLines = 1
  MaxLogRequests = 1
  MaxLogFaults = 1
CHECK_DEADLOCK FALSE
INVARIANTS
  AgentTypesOK
  ProbesStayNear
PROPERTIES
  SearchEnds
  LoopSelfHeals
  FoundOnesKept
  PrintersKept
  LogsReachPanel
