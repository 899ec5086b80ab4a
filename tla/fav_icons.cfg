SPECIFICATION Spec
CONSTANTS
  Requests = {1, 2, 3}
  URLs = {"page", "other"}
  Calls <- ThreeCalls
  Host <- OneHost
  None = 0
INVARIANTS NotesAreLive OneOperationPerURL FoundIsHandled
PROPERTIES ImplementsService
CHECK_DEADLOCK FALSE
