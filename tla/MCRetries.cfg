SPECIFICATION Spec
CONSTANTS
  Clients = {c1, c2}
  Keys = {k1, k2}
  Calls = {op1, op2}
  UserModes <- AnyReader
  Policy <- MCPolicy
  Inventories <- MutatingOnly
  MaxEntries = 1
  NoBinding = NoBinding
  MaxRuns = 1
  MaxCreates = 2
  MaxGates = 2
  MaxLogs = 20
INVARIANTS TypeOK EntriesAccounted RetriesMatch
PROPERTY Answered
CHECK_DEADLOCK FALSE
