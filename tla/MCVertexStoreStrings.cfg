\* A string that finds no room is published.
SPECIFICATION Spec
SYMMETRY ThreadSymmetry
CONSTANTS
  Threads = {t1}
  Labels = {person}
  StringIds = {}
  NumFamilies = 2
  PropFam <- MCPropFam
  StringProps <- MCStringProps
  Rows <- MCRows
  PageSize = 2
  Capacity = 6
  StrCapacity = 3
  MaxVertices = 2
  MaxEpoch = 2
  MaxOps = 5
CHECK_DEADLOCK FALSE
INVARIANT
  NoStringLost
