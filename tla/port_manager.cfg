SPECIFICATION Spec
CONSTANTS
  Paths = {"a", "b"}
  Instances = {1, 2}
  MaxPlugs = 3
INVARIANTS SameInstance ListIsExact RemovalCloses
PROPERTIES WakeRestores
CHECK_DEADLOCK FALSE
