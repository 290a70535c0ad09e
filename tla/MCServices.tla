----------------------------- MODULE MCServices -----------------------------
(***************************************************************************)
(* Model-checking instance of what stands around the Agent Runs: the       *)
(* decisions about tool calls, applies and resources, drift and rollback,  *)
(* the review hand-off, the built-in agent, the cloud connections and the  *)
(* provider profiles.  No two of them share state, so a behaviour is one   *)
(* of one component, named by "subject"; the others stay as they began,    *)
(* and the states add up instead of multiplying.                           *)
(***************************************************************************)
EXTENDS MCToolDecision, ApplyReview, ResourceRules, Drift, ReviewHandoff, AgentLoop,
        CloudConnections, ProviderProfiles, TLC

VARIABLE subject

-----------------------------------------------------------------------------
(* The changes of the plans: only metadata; values that print alike; a     *)
(* value that becomes public; nothing; and what creates, forgets, replaces. *)
Having(tags, size, cidr) ==
  [f \in PlanFields |-> CASE f = "tags" -> tags [] f = "size" -> size [] OTHER -> cidr]
Old == Having("a", "b", "a")
Changing(actions, needles, before, after) ==
  [actions |-> actions, type |-> needles, before |-> before, after |-> after]
SomeChanges ==
  {Changing(<<"update">>, {}, Old, Having("b", "b", "a")),
   Changing(<<"update">>, {"iam"}, Old, Having("b", "b_again", "a")),
   Changing(<<"update">>, {}, Old, Having("b", "missing", "public")),
   Changing(<<"no-op">>, {"iam"}, Old, Old),
   Changing(<<"create">>, {"stateful"}, NoObject, Old),
   Changing(<<"forget">>, {}, Old, NoObject),
   Changing(<<"create", "delete">>, {}, Old, Having("b", "b", "a"))}

(* Suppression rules: by each selector, and one that names nothing. *)
AnyDrift == [address |-> "none", type |-> "none", status |-> "none", path |-> "none", classification |-> "none", env |-> "none"]
SomeSuppressions ==
  {AnyDrift, [AnyDrift EXCEPT !.address = CHOOSE a \in Addresses : TRUE],
   [AnyDrift EXCEPT !.status = "missing"], [AnyDrift EXCEPT !.path = "tags"],
   [AnyDrift EXCEPT !.env = "prod", !.status = "drifted"],
   [AnyDrift EXCEPT !.classification = "unauthorized", !.type = "identity"]}

-----------------------------------------------------------------------------
services == <<subject, checkVars, applyVars, ruleVars, driftVars, reviewVars, loopVars, connVars, profileVars>>

(* Where a component can begin in several ways, it rests in one of them. *)
Init ==
  /\ subject \in {"calls", "apply", "rules", "drift", "review", "agent", "connections", "profiles"}
  /\ CallInit
  /\ subject # "calls" =>
       /\ request = CHOOSE r \in [scope : {"route"}, mode : Modes, risk : TestRisks] : TRUE
       /\ tools = {CHOOSE row \in Row : TRUE}
  /\ ApplyInit
  /\ RulesInit
  /\ subject # "rules" => type = "aws_vpc"
  /\ DriftInit
  /\ subject # "drift" => env = "none" /\ \A a \in Addresses : kind[a] = "other"
  /\ ReviewInit
  /\ subject # "review" => hasMain /\ head = "main"
  /\ LoopInit
  /\ ConnInit
  /\ subject # "connections" => \A c \in Connections : records[c] = NoRecord
  /\ subject # "connections" => environment = [m \in Managers |-> Nothing]
  /\ ProfileInit
  /\ subject # "profiles" => \A p \in Profiles : profiles[p] = NoProfile

CallStep ==
  /\ subject = "calls" /\ CallNext
  /\ UNCHANGED <<subject, applyVars, ruleVars, driftVars, reviewVars, loopVars, connVars, profileVars>>

(* As a bound, policies are tried beside no plan, a garbled one and one    *)
(* without changes: they are judged apart from the plan's risk.            *)
ApplyStep ==
  /\ subject = "apply" /\ ApplyNext
  /\ saved'.changes # {} => \A d \in Directories : Present(enginePolicies'[d]) = {}
  /\ UNCHANGED <<subject, checkVars, ruleVars, driftVars, reviewVars, loopVars, connVars, profileVars>>

RulesStep ==
  /\ subject = "rules" /\ RulesNext
  /\ UNCHANGED <<subject, checkVars, applyVars, driftVars, reviewVars, loopVars, connVars, profileVars>>

(* As a bound, an address with several parts, or without a field in the    *)
(* state, is there alone, with at most two instances that have all fields  *)
(* or one that lacks some, and nothing is suppressed in any environment.   *)
Live(a)    == {<<i, n>> \in (1 .. MaxParts) \X (1 .. MaxParts) : i <= Len(entries'[a]) /\ n <= Len(entries'[a][i])}
Lacking(a) == \E p \in Live(a) : Unset \in {entries'[a][p[1]][p[2]][f] : f \in DriftFields}
Several(a) == Len(blocks'[a]) > 1 \/ Len(entries'[a]) > 1 \/ Cardinality(Live(a)) > 1

DriftStep ==
  /\ subject = "drift" /\ DriftNext
  /\ \A a \in Addresses : Several(a) \/ Lacking(a) =>
       /\ env = "none" /\ suppressions' = {}
       /\ \A b \in Addresses \ {a} : blocks'[b] = <<>> /\ entries'[b] = <<>> /\ kind[b] = "other"
       /\ Cardinality(Live(a)) <= IF Lacking(a) THEN 1 ELSE 2
  /\ UNCHANGED <<subject, checkVars, applyVars, ruleVars, reviewVars, loopVars, connVars, profileVars>>

ReviewStep ==
  /\ subject = "review" /\ ReviewNext
  /\ UNCHANGED <<subject, checkVars, applyVars, ruleVars, driftVars, loopVars, connVars, profileVars>>

AgentStep ==
  /\ subject = "agent" /\ LoopNext
  /\ UNCHANGED <<subject, checkVars, applyVars, ruleVars, driftVars, reviewVars, connVars, profileVars>>

(* As a bound, no process is started with another key once two were. *)
ConnectionsStep ==
  /\ subject = "connections" /\ ConnNext
  /\ environment' # environment => ~mixed
  /\ UNCHANGED <<subject, checkVars, applyVars, ruleVars, driftVars, reviewVars, loopVars, profileVars>>

ProfilesStep ==
  /\ subject = "profiles" /\ ProfileNext
  /\ UNCHANGED <<subject, checkVars, applyVars, ruleVars, driftVars, reviewVars, loopVars, connVars>>

Next == CallStep \/ ApplyStep \/ RulesStep \/ DriftStep \/ ReviewStep
        \/ AgentStep \/ ConnectionsStep \/ ProfilesStep

Spec == Init /\ [][Next]_services

(* What tells two states apart.  The variables of the other components     *)
(* never change, and nothing reads what an agent's request that is about   *)
(* to be recorded was told, or most of what a request about connections    *)
(* held once it is over.                                                   *)
AgentView ==
  <<[r \in Requests |-> IF agent[r].pc \in {"record", "done"}
                        THEN <<agent[r].pc, agent[r].specialist, agent[r].failed>> ELSE agent[r]],
    content, audit, recorded>>

(* Nothing tells the requests about connections apart. *)
Symmetry == Permutations(ConnRequests)

(* A manager that keeps its key already does what one does that gets it.   *)
Differing(k, m) == IF k = KeyOf(m) THEN Nothing ELSE k

ConnView ==
  <<records, keyFile, environment, mixed, [m \in Managers |-> <<Differing(encryptKey[m], m), Differing(decryptKey[m], m)>>],
    mutationsMu, given, crossed,
    [r \in ConnRequests |-> IF progress[r].pc \in {"done", "failed"} THEN <<"over", progress[r].connection>>
                            ELSE IF progress[r].pc \in {"rewrite", "commit"} THEN progress[r]
                            ELSE [progress[r] EXCEPT !.snapshot = <<>>]]>>

StateView ==
  <<subject,
    CASE subject = "calls"       -> checkVars
      [] subject = "apply"       -> applyVars
      [] subject = "rules"       -> ruleVars
      [] subject = "drift"       -> driftVars
      [] subject = "review"      -> reviewVars
      [] subject = "agent"       -> AgentView
      [] subject = "connections" -> ConnView
      [] subject = "profiles"    -> profileVars>>

=============================================================================
