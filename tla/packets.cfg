SPECIFICATION Spec
CONSTANTS
  Bytes = {"a", "b"}
  Nil = Nil
  Descriptors = {d1}
  Formats <- SomeFormats
  Clients = {"main", "worker"}
  MaxBytes = 9
INVARIANTS TypeOK NoPacketMissed PacketsDisjoint PacketsAsReceived OneSidedPackets
CHECK_DEADLOCK FALSE
