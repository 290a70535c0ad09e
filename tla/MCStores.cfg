SPECIFICATION Spec
CONSTANTS
  Servers = {s1, s2, s3}
  Fingerprints = {v1, v2}
  Approvals = {r1, r2, r3}
  MaxAttestations = 2
  None = None
  StudioProcesses = {p1, p2}
  Saves = {r1, r2, r3}
  PolicyScopes = {k1, k2}
  NoPolicy = None
  Managers = {p1, p2}
  Requests = {r1, r2, r3}
  Nobody = None
  Tools = {t1}
  Hashes = {h1, h2}
  MutatingHashes = {h2}
  Projects = {j1}
  Callers = {r1, r2, r3}
  RouteKeys = {k1, k2}
  Routes = {g1, g2}
  MaxAttempts = 1
  McpProjects = {m1}
  Tokens = {token}
  NoToken = None
  MaxLines = 2
INVARIANTS ApprovalsKept PoliciesKept InventoryKept RecordedOncePerKey McpAccountable
SYMMETRY Symmetry
VIEW StateView
CHECK_DEADLOCK FALSE
