\* Two labels, two threads: get_region hands out one region twice.
SPECIFICATION Spec
CONSTANTS
  Threads = {t1, t2}
  Labels = {person, city}
  StringIds = {city}
  NumFamilies = 2
  PropFam <- MCPropFam
  StringProps <- MCStringProps
  Rows <- MCRows
  PageSize = 2
  Capacity = 9
  StrCapacity = 9
  MaxVertices = 2
  MaxEpoch = 2
  MaxOps = 2
CHECK_DEADLOCK FALSE
INVARIANTS
  TypeOK
  SnapshotProps
  OwnPages
  PublishedMapServes
