SPECIFICATION Spec
CONSTANTS
  NumThreads = 1
  Capacity = 1
  UseLogsPerEpoch = TRUE
  LogsPerEpoch = 2
  SubgraphNum = 1
  EnableBulkLoad = FALSE
  TxIds = TRUE
  a = a
  b = b
  Oids = {a, b}
  Messages <- Txns
  MaxMessages = 4
  MaxTimeouts = 0
  MaxCrashes = 0
INVARIANT TransactionWhole
CHECK_DEADLOCK FALSE
