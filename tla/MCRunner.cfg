SPECIFICATION FairSpec
CONSTANTS
  NumFrags = 2
  NumThreads = 0
  Readers = {r1}
  LogOps = {"add", "bulkload_end"}
  UINT64_MAX = 100
  MaxLogs = 3
  MaxEpoch = 2
  MaxCrashes = 1
INVARIANTS PublishedCut ReaderFindsBlobs
PROPERTY CatchesUp
