SPECIFICATION Safety
CONSTANTS
  Commands = {c1, c2, c3}
  Connections = {dev, prod}
  Nothing = Nothing
  MaxEdits = 1
INVARIANTS MutationsReviewed NoStaleEntry SerialUseIsSafe
SYMMETRY Symmetry
CONSTRAINT TwoAtATime
CHECK_DEADLOCK FALSE
