SPECIFICATION Spec
CONSTANTS
  NumFrags = 1
  NumThreads = 1
  Readers = {}
  LogOps = {"add", "delete"}
  UINT64_MAX = 100
  MaxLogs = 4
  MaxEpoch = 1
  MaxCrashes = 0
INVARIANT BarrierWaits
CHECK_DEADLOCK FALSE
