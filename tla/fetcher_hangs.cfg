SPECIFICATION FairSpec
CONSTANTS
  Ops = {"a"}
  MaxOps = 1
PROPERTIES CompletedFinishes
CHECK_DEADLOCK FALSE
