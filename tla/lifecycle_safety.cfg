SPECIFICATION Spec
CONSTANTS
  Clients = {"main", "worker"}
  Main = "main"
  Opener = "worker"
  HandlesClosed = TRUE
  HandlesError = TRUE
  CloseMayFail = TRUE
  ErrnoKept = FALSE
  MaxSessions = 2
INVARIANTS TypeOK ReadsOwnDescriptor SourceHasDescriptor NoDescriptorLeak OnePoller
PROPERTIES ImplementsPortSessions
VIEW WithoutGhosts
