SPECIFICATION Safety
CONSTANTS
  Clients = {c1, c2, c3}
  Keys = {k1, k2}
  Calls = {op1}
  UserModes <- ApprovedExecute
  Policy <- MCPolicy
  Inventories <- Reclassified
  MaxEntries = 2
  NoBinding = NoBinding
  MaxRuns = 1
  MaxCreates = 1
  MaxGates = 3
  MaxLogs = 20
INVARIANTS CallsApproved CallsAudited WaitingIffPending
SYMMETRY ClientSymmetry
CONSTRAINT OneGone
CHECK_DEADLOCK FALSE
