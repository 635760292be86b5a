SPECIFICATION Spec
CONSTANTS
  Frags = {0, 1}
  Labels = {0, 1}
  Placements <- SomePlacements
  Weights = {1, 3}
  MaxOffset = 7
  MaxEdges = 3
  Apps = {"sssp", "wcc", "pagerank"}
  IntMax = 99
  MaxRound = 3
INVARIANTS GraphHeld SSSPDistances WCCSound RankShares
CHECK_DEADLOCK FALSE
