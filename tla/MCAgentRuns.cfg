SPECIFICATION Spec
CONSTANTS
  Operations = {op1}
  NoBinding = NoBinding
  MaxRuns = 1
  MaxCreates = 2
  MaxGates = 2
  MaxLogs = 2
  MaxPatches = 1
INVARIANTS AuditTrail RejectionFailsRun KeepsMostRecentRuns
PROPERTY ImplementsLedger
CHECK_DEADLOCK FALSE
