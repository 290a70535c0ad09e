------------------------------ MODULE PlanRisk ------------------------------
(***************************************************************************)
(* How a Terraform plan is judged before it is applied: internal/plan      *)
(* reads the plan's JSON or the lines of `terraform plan -json` and gives  *)
(* every change a risk (plan.go, classifier.go); api/plan_classification.go *)
(* chooses what is read.  A plan with a risky, destructive or unknown      *)
(* change needs the user's acknowledgement.                                *)
(*                                                                         *)
(* Pure definitions.  Attributes are of three kinds: one of the metadata   *)
(* fields (tags, tags_all, description, labels, annotations) and two       *)
(* others.  A resource type is the set of needle lists its name matches.   *)
(***************************************************************************)
EXTENDS Integers, Sequences, FiniteSets

Metadata   == {"tags"}
PlanFields == Metadata \union {"size", "cidr"}

(* Two values may differ and print alike: ["a b"] and ["a", "b"], 1 and "1". *)
NoValue == "missing"
Values  == {"a", "b", "b_again", "public"}
Printed(value) == IF value = "b_again" THEN "b" ELSE value

Object   == [PlanFields -> Values \union {NoValue}]
NoObject == [f \in PlanFields |-> NoValue]     \* null: created or deleted
Needles  == {"iam", "network", "stateful"}

(* resource_changes of `terraform show -json`. *)
PlannedActions == {<<>>, <<"no-op">>, <<"read">>, <<"create">>, <<"update">>, <<"delete">>,
                   <<"delete", "create">>, <<"create", "delete">>, <<"forget">>}

Change == [actions : PlannedActions, type : SUBSET Needles, before : Object, after : Object]

(* What a saved or posted plan is: not there, not JSON, or its changes;    *)
(* posted text also tells whether it says "to add".                        *)
Source(kind, changes) == [kind |-> kind, changes |-> changes]

NoPlan          == Source("absent", {})
Garbled         == Source("garbled", {})
PlanOf(changes) == Source("plan", changes)
TextOf(changes, saysToAdd) == [kind |-> "text", changes |-> changes, saysToAdd |-> saysToAdd]

Unknown == [action |-> "unknown", risk |-> "unknown"]

-----------------------------------------------------------------------------
(* plan.go *)

NormalizeAction(action) == IF action = "noop" THEN "no-op" ELSE action

ActionsToAction(actions) ==
  CASE Len(actions) = 1 -> NormalizeAction(actions[1])
    [] Len(actions) = 2 -> "replace"
    [] OTHER            -> "unknown"

DiffMaps(before, after) == {f \in PlanFields : Printed(before[f]) # Printed(after[f])}

FieldChanges(change) ==
  IF change.after = NoObject THEN {} ELSE DiffMaps(change.before, change.after)

ParseFullPlan(changes) ==
  {[action |-> ActionsToAction(c.actions), type |-> c.type, after |-> c.after,
    fields |-> FieldChanges(c)] : c \in changes}

(* A line of the stream names the action, and none of the values. *)
ParseStreamOutput(changes) ==
  {[action |-> ActionsToAction(c.actions), type |-> c.type, after |-> NoObject,
    fields |-> {}] : c \in changes}

-----------------------------------------------------------------------------
(* classifier.go *)

IsMetadataOnlyUpdate(fields) == fields # {} /\ fields \subseteq Metadata

ContainsPublicCIDR(object) == \E f \in PlanFields : object[f] = "public"

Sensitive(change) == change.type # {} \/ ContainsPublicCIDR(change.after)

(* The rules in order: what mutates nothing, what destroys, what changes   *)
(* metadata only, then the sensitive types; the rest is unknown.           *)
ClassifyChange(change) ==
  [action |-> change.action,
   risk |-> IF change.action \in {"no-op", "read"} THEN "safe"
            ELSE IF change.action \in {"delete", "replace"} THEN "destructive"
            ELSE IF change.action = "update" /\ IsMetadataOnlyUpdate(change.fields) THEN "safe"
            ELSE IF change.action \in {"create", "update"} /\ Sensitive(change) THEN "risky"
            ELSE "unknown"]

Classify(changes) == {ClassifyChange(c) : c \in changes}

(* UnknownClassification: what cannot be inspected counts as one change. *)
UnknownClassification == {Unknown}

RequiresAcknowledgment(classified) ==
  \E c \in classified : c.risk \in {"risky", "destructive", "unknown"}

-----------------------------------------------------------------------------
(* plan_classification.go *)

ClassifyFullPlan(source) ==
  IF source.kind = "plan" THEN Classify(ParseFullPlan(source.changes)) ELSE UnknownClassification

ClassifySavedPlan(saved) == ClassifyFullPlan(saved)

(* Posted text that parses to nothing is unknown only if it says "to add". *)
ClassifyText(changes, saysToAdd) ==
  IF changes = {} /\ saysToAdd THEN UnknownClassification
  ELSE Classify(ParseStreamOutput(changes))

ClassifyPlanRequest(json, text, saved) ==
  IF json.kind # "absent" THEN ClassifyFullPlan(json)
  ELSE IF text.kind = "text" THEN ClassifyText(text.changes, text.saysToAdd)
  ELSE ClassifySavedPlan(saved)

(* planSupportsSemanticClassification and the command: what /run asks of   *)
(* an apply; destroy never uses the saved plan.                            *)
Supports(tool) == tool \in {"terraform", "opentofu"}

NeedsRiskAcknowledgement(command, tool, saved) ==
  /\ Supports(tool)
  /\ RequiresAcknowledgment(IF command = "destroy" THEN UnknownClassification ELSE ClassifySavedPlan(saved))
=============================================================================
