CONSTANTS
  w1 = w1
  w2 = w2
  r1 = r1
  v1 = v1
  v2 = v2
  NoOne = NoOne
  Writers = {w1, w2}
  Readers = {}
  Vertices = {v1, v2}
  DEFAULT_INIT_ORDER = 0
  COPY_THRESHOLD_ORDER = 2
  LAG_EPOCH_NUMBER = 2
  SegSlots <- SmallSegments
  LogEpochs = {0}
  MaxEdges = 6
  MemLimit = 10
SPECIFICATION Spec
INVARIANT ChainIsLog
CHECK_DEADLOCK FALSE
