SPECIFICATION Spec
CONSTANTS
  Requests = {"q"}
  Expects = {"q"}
  Timed = {"q"}
  Bytes = {"x", "y"}
  Answers <- OneAnswer
  Chunks <- ShortReads
  Clients = {"main", "worker"}
  Main = "main"
  HandlesTimeout = TRUE
  HandlesClosed = TRUE
  HandlesError = TRUE
  MaxSends = 3
  MaxChunks = 1
  MaxSessions = 2
  MaxBacklog = 1
INVARIANTS TypeOK IdleMeansEmpty WireInOrder ClosedPortForgets
CHECK_DEADLOCK FALSE
