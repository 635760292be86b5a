CONSTANTS
  w1 = w1
  w2 = w2
  w3 = w3
  c1 = c1
  Workers = {w1, w2}
  Channels = {c1}
  BlockSize = 1
  MaxSends = 2
  MaxRounds = 2
SPECIFICATION Spec
CHECK_DEADLOCK FALSE
INVARIANT EndsAtFixedPoint
