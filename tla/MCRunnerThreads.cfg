SPECIFICATION FairSpec
CONSTANTS
  NumFrags = 1
  NumThreads = 2
  Readers = {}
  LogOps = {"add", "delete"}
  UINT64_MAX = 100
  MaxLogs = 4
  MaxEpoch = 1
  MaxCrashes = 0
INVARIANTS LogsAccounted
PROPERTY AllApplied
CHECK_DEADLOCK FALSE
