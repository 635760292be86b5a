SPECIFICATION CSpec
CONSTANTS
  NumFrags = 2
  NumThreads = 0
  Readers = {h1, h2}
  LogOps = {"add"}
  UINT64_MAX = 100
  MaxLogs = 2
  MaxEpoch = 2
  MaxCrashes = 0
  Handlers = {h1, h2}
  None = None
  MaxFaults = 0
INVARIANT OneSnapshot
