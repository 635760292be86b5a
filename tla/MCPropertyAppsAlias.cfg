SPECIFICATION Spec
CONSTANTS
  Frags = {0, 1}
  Labels = {0, 1}
  Placements <- OneLabel
  Weights = {1}
  MaxOffset = 7
  MaxEdges = 3
  Apps = {"sssp", "wcc", "pagerank"}
  IntMax = 99
  MaxRound = 3
CHECK_DEADLOCK FALSE
INVARIANT SSSPExact
