SPECIFICATION FairSpec
CONSTANTS
  Clients = {"main", "worker"}
  Main = "main"
  Opener = "worker"
  HandlesClosed = TRUE
  HandlesError = TRUE
  CloseMayFail = FALSE
  ErrnoKept = TRUE
  MaxSessions = 1
PROPERTIES CloseWorks RemovedPortCloses PollingStops
