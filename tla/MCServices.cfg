SPECIFICATION Spec
CONSTANTS
  Scopes = {"route", "other"}
  TestRisks = {"read_only", "cloud_mutation", "unknown"}
  MaxRules = 2
  Programs = {"conftest", "sentinel", "crossguard"}
  PolicyFiles = {"p1", "p2"}
  Changes <- SomeChanges
  MaxChanges = 1
  MaxPolicies = 2
  Addresses = {a1, a2}
  Kinds = {"identity", "other"}
  SuppressionRules <- SomeSuppressions
  MaxParts = 2
  MaxSuppressions = 1
  Unset = Unset
  MaxCheckpoints = 3
  Handoffs = {h1, h2}
  Drafts = {d1, d2}
  MaxOwnerActs = 1
  Requests = {r1, r2}
  SourceFiles = {f1}
  MaxTurns = 2
  BatchCap = 1
  AuditSize = 1
  Called = {"write_hcl", "rm_all"}
  Nobody = Nobody
  Managers = {api, mcp}
  Api = api
  Connections = {x1}
  ConnRequests = {q1, q2}
  Keys = {e1, e2}
  Passphrases = {phrase}
  Failed = Failed
  Methods = {"aws_static", "aws_profile"}
  Legacy = Legacy
  Nothing = Nothing
  Profiles = {p1}
  SecretNames = {n1, n2}
  MaxOperations = 5
INVARIANTS AllowedMeansReviewed RecorderAgrees ReviewsAgree RulesAgree DriftAccounted ReviewsSeparate AgentInLane ConnectionsKept ProfilesKept
PROPERTIES FailsClosed FirstRuleWins
VIEW StateView
SYMMETRY Symmetry
CHECK_DEADLOCK FALSE
