CONSTANTS
  w1 = w1
  w2 = w2
  r1 = r1
  v1 = v1
  v2 = v2
  NoOne = NoOne
  Writers = {w1}
  Readers = {r1}
  Vertices = {v1}
  DEFAULT_INIT_ORDER = 0
  COPY_THRESHOLD_ORDER = 2
  LAG_EPOCH_NUMBER = 2
  SegSlots <- SmallSegments
  LogEpochs = {0, 1, 2, 3}
  MaxEdges = 4
  MemLimit = 8
SPECIFICATION Spec
INVARIANT InternalSnapshot
CHECK_DEADLOCK FALSE
