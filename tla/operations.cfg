SPECIFICATION FairSpec
CONSTANTS
  Ops = {"a", "b"}
  MaxOps = 2
INVARIANTS TypeOK LeftoversWereCancelled
PROPERTIES ImplementsService CancelEnds RunsSettle
CHECK_DEADLOCK FALSE
