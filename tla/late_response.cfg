SPECIFICATION Spec
CONSTANTS
  Requests = {"q"}
  Expects = {"q"}
  Timed = {"q"}
  Bytes = {"x", "y"}
  Answers <- OneAnswer
  Chunks <- ShortReads
  Clients = {"main", "worker"}
  Main = "main"
  HandlesTimeout = TRUE
  HandlesClosed = FALSE
  HandlesError = FALSE
  MaxSends = 3
  MaxChunks = 1
  MaxSessions = 1
  MaxBacklog = 0
CHECK_DEADLOCK FALSE
INVARIANTS SentAfterPreviousSettled
