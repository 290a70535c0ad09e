--------------------------- MODULE MCToolDecision ---------------------------
(***************************************************************************)
(* Model-checking instance of ToolDecision.  A request for one route is    *)
(* decided again and again while rules are appended to the policy, the     *)
(* policy store or Airlock stop answering, the tool is rediscovered and    *)
(* its allowlist entry is dropped.                                         *)
(***************************************************************************)
EXTENDS ToolDecision

CONSTANTS TestRisks, MaxRules

VARIABLES
  request,   \* the request, with the risk read when it arrived
  policies,  \* the policy Get returns: none or one
  tools      \* the inventory row EvaluateTool returns: none or one

checkVars == <<request, policies, tools>>

Row == [risk : TestRisks, schema : {"known", "changed"}, allowlisted : BOOLEAN]

RulesTried == [scope : Scopes, modes : {{"read_only"}, Modes}, risk : TestRisks,
               effect : {"allow", "deny"}, approval : BOOLEAN]

EntryOf(row) ==
  [scope |-> "route", risk |-> row.risk,
   verdict |-> DecideTool(row.risk, row.schema, row.allowlisted)]

decision == Authorize(request, policies, {EntryOf(row) : row \in tools})

CallInit ==
  /\ request \in [scope : {"route"}, mode : Modes, risk : TestRisks]
  /\ policies = {<<>>}
  /\ tools \in {{row} : row \in Row}

AppendRule ==
  /\ \E policy \in policies, rule \in RulesTried :
       Len(policy) < MaxRules /\ policies' = {Append(policy, rule)}
  /\ UNCHANGED <<request, tools>>

LosePolicy == policies # {} /\ policies' = {} /\ UNCHANGED <<request, tools>>

LoseTool == tools # {} /\ tools' = {} /\ UNCHANGED <<request, policies>>

(* Discovery finds another schema: the old review no longer counts. *)
SchemaChanges ==
  /\ \E row \in tools : row.schema = "known" /\ tools' = {[row EXCEPT !.schema = "changed"]}
  /\ UNCHANGED <<request, policies>>

RiskChanges ==
  /\ \E row \in tools, risk \in TestRisks :
       row.risk # risk /\ tools' = {[row EXCEPT !.risk = risk]}
  /\ UNCHANGED <<request, policies>>

Disallow ==
  /\ \E row \in tools : row.allowlisted /\ tools' = {[row EXCEPT !.allowlisted = FALSE]}
  /\ UNCHANGED <<request, policies>>

CallNext == AppendRule \/ LosePolicy \/ LoseTool \/ SchemaChanges \/ RiskChanges \/ Disallow

CallSpec == CallInit /\ [][CallNext]_checkVars

-----------------------------------------------------------------------------
(* Whatever the policy says, a call runs without approval only if it reads *)
(* with a reviewed schema, and is submitted for approval only if a user    *)
(* allowlisted the tool or its rule asks for an approval of such a read.   *)
AllowedMeansReviewed ==
  \A row \in tools :
    LET reviewedRead == request.risk = "read_only" /\ row.risk = "read_only" /\ row.schema = "known"
    IN  /\ decision = Allowed => reviewedRead
        /\ decision = ApprovalRequired =>
             (row.allowlisted \/ reviewedRead) /\ request.risk = row.risk /\ request.risk # "unknown"

(* The recorder's second opinion never refuses what the authorizer decides: *)
(* no decision goes unaudited.                                              *)
RecorderAgrees == RecorderAccepts(request, decision)

Rank == CASE decision.status = "denied"            -> 0
          [] decision.status = "approval_required" -> 1
          [] decision.status = "allowed"           -> 2

(* Losing the policy, Airlock or a review, or dropping the allowlist       *)
(* entry, never loosens a decision, and a risk that changed under the      *)
(* request denies it.                                                      *)
NeverLoosens ==
  /\ LosePolicy \/ LoseTool \/ SchemaChanges \/ Disallow => Rank' <= Rank
  /\ LosePolicy \/ LoseTool => Rank' = 0
  /\ (RiskChanges /\ \A row \in tools : row.risk = request.risk) => Rank' = 0

(* So a decision is as strict as it was, or stricter, after every loss.   *)
FailsClosed == [][NeverLoosens]_checkVars

(* A rule appended behind one that already matches changes nothing, unless *)
(* it makes the policy invalid, which denies everything.                   *)
LaterRuleIdle ==
  \A before \in policies, after \in policies' :
    Len(after) > Len(before) =>
      /\ MatchingRules(before, request) # {} /\ ValidPolicy(after) => decision' = decision
      /\ ~ValidPolicy(after) => Rank' = 0

(* So rules behind the first that matches change no decision. *)
FirstRuleWins == [][LaterRuleIdle]_checkVars
=============================================================================
