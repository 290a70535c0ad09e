SPECIFICATION Spec
CONSTANTS
  Servers = {s1}
  Fingerprints = {v1, v2}
  Approvals = {a1}
  MaxAttestations = 1
  None = None
  Starts = {p1, p2}
  Stops = {k1, k2}
INVARIANTS ProcessesKnown LaunchesApproved StopsReach
PROPERTIES ImplementsCycle ReleasesServer
CHECK_DEADLOCK FALSE
