SPECIFICATION FairSpec
CONSTANTS
  Requests = {"q", "c"}
  Expects = {"q"}
  Timed = {"q", "c"}
  Bytes = {"x", "y"}
  Answers <- OneAnswer
  Chunks <- ShortReads
  Clients = {"main", "worker"}
  Main = "main"
  HandlesTimeout = TRUE
  HandlesClosed = FALSE
  HandlesError = TRUE
  MaxSends = 3
  MaxChunks = 1
  MaxSessions = 1
  MaxBacklog = 0
PROPERTIES SendReturns PendingLeaves
CHECK_DEADLOCK FALSE
