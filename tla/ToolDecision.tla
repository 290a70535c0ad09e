---------------------------- MODULE ToolDecision ----------------------------
(***************************************************************************)
(* How one MCP tool call is decided: Airlock's firewall verdict on the     *)
(* tool (internal/mcpairlock), the project's route policy                  *)
(* (internal/agentrouting policy.go), the combination of both with the     *)
(* run's mode (decision.go, authorizer.go), and the second check the run   *)
(* recorder makes before it writes a decision down (run_recorder.go).      *)
(*                                                                         *)
(* Pure definitions: no variables.  A route's scope (project, provider,    *)
(* connection, server, tool) is one value of Scopes.                       *)
(***************************************************************************)
EXTENDS Integers, Sequences

CONSTANT Scopes

Modes        == {"read_only", "propose_only", "approved_execute"}
Risks        == {"read_only", "generate_code", "modify_workspace", "cloud_mutation",
                 "secret_sensitive", "destructive", "unknown"}
SchemaStates == {"known", "new", "changed", "unknown"}

Request == [scope : Scopes, mode : Modes, risk : Risks]

Rule == [scope : Scopes, modes : SUBSET Modes, risk : Risks,
         effect : {"allow", "deny"}, approval : BOOLEAN]

(* What EvaluateTool returns: the inventory row and Airlock's verdict.  The *)
(* verdict carries its own copy of the risk.                               *)
Verdict == [status : {"allowed", "approval_required", "blocked"}, risk : Risks]
Entry   == [scope : Scopes, risk : Risks, verdict : Verdict]

DeniedReasons == {"policy_unavailable", "invalid_policy", "mode_risk_mismatch",
                  "no_matching_rule", "policy_denied", "airlock_unavailable",
                  "airlock_tool_mismatch", "airlock_risk_mismatch",
                  "invalid_airlock_decision", "airlock_blocked"}

Decision == [status : {"denied"}, reason : DeniedReasons]
              \union {[status |-> "approval_required", reason |-> "approval_required"],
                      [status |-> "allowed", reason |-> "allowed"]}

Denied(reason)   == [status |-> "denied", reason |-> reason]
ApprovalRequired == [status |-> "approval_required", reason |-> "approval_required"]
Allowed          == [status |-> "allowed", reason |-> "allowed"]

-----------------------------------------------------------------------------
(* Airlock.                                                                *)

SchemaReviewRequired(schema) == schema \in {"new", "changed", "unknown"}

(* Faulty variant: a reader runs freely whatever its schema. *)
DecideToolUnreviewed(risk, schema, allowlisted) ==
  [risk   |-> risk,
   status |-> IF risk = "read_only" THEN "allowed"
              ELSE IF allowlisted THEN "approval_required" ELSE "blocked"]

(* decideToolWithAllowlist: only a reviewed read-only tool runs freely;    *)
(* anything else is blocked until allowlisted, and then needs approval.    *)
DecideTool(risk, schema, allowlisted) ==
  [risk   |-> risk,
   status |-> IF ~SchemaReviewRequired(schema) /\ risk = "read_only" THEN "allowed"
              ELSE IF allowlisted THEN "approval_required" ELSE "blocked"]

-----------------------------------------------------------------------------
(* Route policy.                                                           *)

ModeAllowsRisk(mode, risk) ==
  CASE mode = "read_only"        -> risk = "read_only"
    [] mode = "propose_only"     -> risk \in {"read_only", "generate_code"}
    [] mode = "approved_execute" -> risk # "unknown"

ValidRule(rule) ==
  /\ rule.modes # {}
  /\ rule.effect = "deny" => ~rule.approval
  /\ rule.effect = "allow" =>
       rule.risk # "unknown" /\ (rule.risk # "read_only" => rule.approval)

ValidPolicy(policy) == \A i \in DOMAIN policy : ValidRule(policy[i])

Matches(rule, request) ==
  /\ rule.scope = request.scope
  /\ rule.risk = request.risk
  /\ request.mode \in rule.modes

MatchingRules(policy, request) == {i \in DOMAIN policy : Matches(policy[i], request)}

(* Faulty variant: the last rule that matches. *)
LastMatch(policy, request) ==
  policy[CHOOSE i \in MatchingRules(policy, request) :
           \A j \in MatchingRules(policy, request) : i >= j]

(* Policy.matchValidated: the first rule that matches. *)
FirstMatch(policy, request) ==
  policy[CHOOSE i \in MatchingRules(policy, request) :
           \A j \in MatchingRules(policy, request) : i <= j]

-----------------------------------------------------------------------------
(* The decision.                                                           *)

(* Faulty variant: the risks are not compared. *)
EvaluateAnyRisk(rule, request, verdict) ==
  IF rule.effect = "deny" THEN Denied("policy_denied")
  ELSE IF verdict.status = "blocked" THEN Denied("airlock_blocked")
  ELSE IF verdict.status = "approval_required" \/ rule.approval THEN ApprovalRequired
  ELSE Allowed

EvaluateMatched(rule, request, verdict) ==
  IF rule.effect = "deny" THEN Denied("policy_denied")
  ELSE IF verdict.risk # request.risk THEN Denied("airlock_risk_mismatch")
  ELSE IF verdict.status = "blocked" THEN Denied("airlock_blocked")
  ELSE IF verdict.status = "approval_required" \/ rule.approval THEN ApprovalRequired
  ELSE Allowed

(* Faulty variant: the mode is left to the recorder. *)
AuthorizeAnyMode(request, policies, entries) ==
  IF policies = {} THEN Denied("policy_unavailable")
  ELSE LET policy == CHOOSE p \in policies : TRUE IN
  IF ~ValidPolicy(policy) THEN Denied("invalid_policy")
  ELSE IF MatchingRules(policy, request) = {} THEN Denied("no_matching_rule")
  ELSE IF entries = {} THEN Denied("airlock_unavailable")
  ELSE EvaluateMatched(FirstMatch(policy, request), request,
                       (CHOOSE e \in entries : TRUE).verdict)

(* Authorizer.Authorize on a structurally valid request.  policies and     *)
(* entries are sets of at most one element: empty when the policy store,   *)
(* or Airlock, cannot answer.                                              *)
Authorize(request, policies, entries) ==
  IF ~ModeAllowsRisk(request.mode, request.risk) THEN Denied("mode_risk_mismatch")
  ELSE IF policies = {} THEN Denied("policy_unavailable")
  ELSE LET policy == CHOOSE p \in policies : TRUE IN
  IF ~ValidPolicy(policy) THEN Denied("invalid_policy")
  ELSE IF MatchingRules(policy, request) = {} THEN Denied("no_matching_rule")
  ELSE LET rule == FirstMatch(policy, request) IN
  IF rule.effect = "deny" THEN Denied("policy_denied")
  ELSE IF entries = {} THEN Denied("airlock_unavailable")
  ELSE LET entry == CHOOSE e \in entries : TRUE IN
  IF entry.scope # request.scope THEN Denied("airlock_tool_mismatch")
  ELSE IF entry.risk # entry.verdict.risk THEN Denied("invalid_airlock_decision")
  ELSE EvaluateMatched(rule, request, entry.verdict)

(* RunRecorder.record: the decisions it refuses to write down. *)
RecorderAccepts(request, decision) ==
  IF ~ModeAllowsRisk(request.mode, request.risk)
  THEN decision = Denied("mode_risk_mismatch")
  ELSE /\ decision # Denied("mode_risk_mismatch")
       /\ decision.status = "allowed" => request.risk = "read_only"
=============================================================================
