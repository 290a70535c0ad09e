SPECIFICATION Safety
CONSTANTS
  Commands = {c1, c2, c3}
  Connections = {dev}
  Nothing = Nothing
  MaxEdits = 1
INVARIANT AppliesHashedPlan
CHECK_DEADLOCK FALSE
