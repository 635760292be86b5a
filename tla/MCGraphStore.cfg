SPECIFICATION Spec
CONSTANTS
  a = a
  b = b
  c = c
  Vertices = {a, b, c}
  Frags = {0, 1}
  FragOf <- TwoOne
  Loaded = {a, c}
  Parallel = FALSE
  Cascade = FALSE
  MaxEpoch = 1
  MaxRows = 2
  MaxLogs = 6
INVARIANTS SnapshotIsGraph MarkersSound
CHECK_DEADLOCK FALSE
