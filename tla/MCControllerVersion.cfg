SPECIFICATION CSpec
CONSTANTS
  NumFrags = 2
  NumThreads = 0
  Readers = {h1}
  LogOps = {"add"}
  UINT64_MAX = 100
  MaxLogs = 2
  MaxEpoch = 2
  MaxCrashes = 1
  Handlers = {h1}
  None = None
  MaxFaults = 1
INVARIANT GaeReadsVersion
