CONSTANT MaxLen = 6
SPECIFICATION FairSpec
INVARIANTS ScanExact IInv
PROPERTY ScanEnds
CHECK_DEADLOCK FALSE
