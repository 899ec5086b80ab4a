SPECIFICATION FairSpec
CONSTANTS
  Requests = {"q", "c"}
  Expects = {"q"}
  Timed = {"q", "c"}
  Bytes = {"x", "y"}
  Answers <- OneAnswer
  Chunks <- Pairs
  Clients = {"main", "worker"}
  Main = "main"
  HandlesTimeout = FALSE
  HandlesClosed = TRUE
  HandlesError = TRUE
  MaxSends = 3
  MaxChunks = 1
  MaxSessions = 1
  MaxBacklog = 1
CHECK_DEADLOCK FALSE
INVARIANTS EveryCallAccounted TimerIsPending
PROPERTIES ImplementsService CallsSettle
