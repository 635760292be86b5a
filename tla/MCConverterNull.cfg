SPECIFICATION FairSpec
CONSTANTS
  NumThreads = 2
  Capacity = 2
  UseLogsPerEpoch = TRUE
  LogsPerEpoch = 1
  SubgraphNum = 2
  EnableBulkLoad = TRUE
  TxIds = TRUE
  a = a
  b = b
  Oids = {a, b}
  Messages <- NullRows
  MaxMessages = 3
  MaxTimeouts = 1
  MaxCrashes = 1
INVARIANTS InOrderOnce GidsDense IdsResolve EpochsMonotone TransactionCut
PROPERTY AllConverted
CHECK_DEADLOCK FALSE
