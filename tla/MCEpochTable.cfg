CONSTANTS
  r1 = r1
  Readers = {r1}
  MaxEpoch = 3
  MaxEdges = 4
SPECIFICATION Spec
INVARIANTS TypeOK SnapshotRead IInv
CHECK_DEADLOCK FALSE
