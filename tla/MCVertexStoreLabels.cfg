\* Two labels, one with string ids, one thread.
SPECIFICATION Spec
CONSTANTS
  Threads = {t1}
  Labels = {person, city}
  StringIds = {city}
  NumFamilies = 2
  PropFam <- MCPropFam
  StringProps <- MCStringProps
  Rows <- MCRows
  PageSize = 2
  Capacity = 9
  StrCapacity = 9
  MaxVertices = 2
  MaxEpoch = 2
  MaxOps = 3
CHECK_DEADLOCK FALSE
INVARIANTS
  TypeOK
  SnapshotProps
  OwnPages
  PublishedMapServes
PROPERTY
  PublishedPagesFrozen
