----------------------------- MODULE ApplyReview -----------------------------
(***************************************************************************)
(* What an apply is held up by (the /run endpoint's gate in api/router.go, *)
(* over PlanRisk and PolicyEngines) while the project changes under it:    *)
(* plans are written, lost and garbled, policies are added, broken and     *)
(* removed, programs are installed and removed, and the resources change   *)
(* what the built-in rules find.                                           *)
(***************************************************************************)
EXTENDS PlanRisk, PolicyEngines

CONSTANTS
  Programs,      \* of ShellOut, those that may be installed
  PolicyFiles,   \* names of policy files and packs
  Changes,       \* resource changes a plan may hold
  MaxChanges,    \* per plan
  MaxPolicies    \* in all directories together

ASSUME ApplyAssumption ==
  /\ Programs \subseteq ShellOut /\ Changes \subseteq Change
  /\ IsFiniteSet(PolicyFiles) /\ {MaxChanges, MaxPolicies} \subseteq Nat

VARIABLES
  saved,           \* tfplan.json
  directory,       \* of each policies/ directory
  enginePolicies,  \* of each directory, of each name: what the file says
  installed,
  ruleSeverities,  \* severities the built-in rules find in the resources
  pulumi

applyVars == <<saved, directory, enginePolicies, installed, ruleSeverities, pulumi>>

Directories == {"opa", "sentinel", "crossguard"}

Verdicts(d) ==
  CASE d = "opa"        -> RegoVerdicts
    [] d = "sentinel"   -> SentinelVerdicts
    [] d = "crossguard" -> PackVerdicts

NoFiles == [f \in PolicyFiles |-> "absent"]

Project == [directory |-> directory, policies |-> enginePolicies, installed |-> installed,
            plan |-> saved.kind, rules |-> ruleSeverities, pulumi |-> pulumi]

(* A directory that is missing or a plain file holds no policies. *)
ApplyTypeOK ==
  /\ saved \in {NoPlan, Garbled} \union {PlanOf(cs) : cs \in SUBSET Changes}
  /\ directory \in [Directories -> {"missing", "file", "policies"}]
  /\ enginePolicies \in [Directories -> [PolicyFiles -> RegoVerdicts \union SentinelVerdicts \union PackVerdicts \union {"absent"}]]
  /\ \A d \in Directories : \A f \in Present(enginePolicies[d]) :
       directory[d] = "policies" /\ enginePolicies[d][f] \in Verdicts(d)
  /\ installed \subseteq Programs /\ ruleSeverities \subseteq Severities /\ pulumi \in BOOLEAN

-----------------------------------------------------------------------------
(* The gate: the plan's hash and approved:true are checked before; then    *)
(* the risk of the plan, then the policies, each with its own override.    *)
HeldBy(command, tool, riskAcknowledged, acknowledged) ==
  IF NeedsRiskAcknowledgement(command, tool, saved) /\ ~riskAcknowledged THEN "plan_risk_blocked"
  ELSE IF ~acknowledged /\ EvaluateBlockingPolicies(Project) THEN "policy_blocked"
  ELSE "passes"

-----------------------------------------------------------------------------
WritePlan ==
  /\ \E cs \in SUBSET Changes : Cardinality(cs) <= MaxChanges /\ saved' = PlanOf(cs)
  /\ UNCHANGED <<directory, enginePolicies, installed, ruleSeverities, pulumi>>

LosePlan ==
  /\ saved' \in {NoPlan, Garbled} /\ saved' # saved
  /\ UNCHANGED <<directory, enginePolicies, installed, ruleSeverities, pulumi>>

WritePolicy ==
  /\ Cardinality({at \in Directories \X PolicyFiles : at[2] \in Present(enginePolicies[at[1]])}) < MaxPolicies
  /\ \E d \in Directories, f \in PolicyFiles :
       /\ directory[d] # "file" /\ f \notin Present(enginePolicies[d])
       /\ \E v \in Verdicts(d) : enginePolicies' = [enginePolicies EXCEPT ![d][f] = v]
       /\ directory' = [directory EXCEPT ![d] = "policies"]
  /\ UNCHANGED <<saved, installed, ruleSeverities, pulumi>>

RemovePolicies ==
  /\ \E d \in Directories, status \in {"missing", "file"} :
       /\ directory' = [directory EXCEPT ![d] = status] /\ enginePolicies' = [enginePolicies EXCEPT ![d] = NoFiles]
  /\ UNCHANGED <<saved, installed, ruleSeverities, pulumi>>

Install ==
  /\ \E e \in Programs : installed' = (installed \ {e}) \union ({e} \ installed)
  /\ UNCHANGED <<saved, directory, enginePolicies, ruleSeverities, pulumi>>

EditResources ==
  /\ ruleSeverities' \in {{}, {"error", "warning"}} /\ pulumi' \in BOOLEAN
  /\ UNCHANGED <<saved, directory, enginePolicies, installed>>

ApplyInit ==
  /\ saved = NoPlan /\ directory = [d \in Directories |-> "missing"] /\ enginePolicies = [d \in Directories |-> NoFiles]
  /\ installed = {} /\ ruleSeverities = {} /\ pulumi = FALSE

ApplyNext == WritePlan \/ LosePlan \/ WritePolicy \/ RemovePolicies \/ Install \/ EditResources

-----------------------------------------------------------------------------
(* An apply that nobody acknowledged changes, of what its plan shows,      *)
(* nothing but metadata, and no policy whose engine could evaluate it      *)
(* denies it: not one hidden by a broken file beside it, by a program that *)
(* is not installed, or by another engine's failure.                       *)
OnlyMetadata(change) ==
  \/ change.actions \in {<<"no-op">>, <<"read">>}
  \/ change.actions = <<"update">> /\ \A f \in PlanFields \ Metadata : Printed(change.before[f]) = Printed(change.after[f])

DeniesPlan(file) == directory["opa"] = "policies" /\ enginePolicies["opa"][file] = "denies"

NothingUnasked ==
  HeldBy("apply", "terraform", FALSE, FALSE) = "passes" =>
    /\ saved.kind = "plan" /\ \A c \in saved.changes : OnlyMetadata(c)
    /\ ~ \E f \in PolicyFiles : DeniesPlan(f)
    /\ "error" \notin ruleSeverities
    /\ "sentinel" \in installed => \A f \in Present(enginePolicies["sentinel"]) : enginePolicies["sentinel"][f] = "passes"

(* A policy engine that fails, is missing or finds no plan never holds up  *)
(* an apply by itself; of the failures only a Sentinel policy that does    *)
(* not compile does, which passes for one that denies.                     *)
FailuresPass ==
  EvaluateBlockingPolicies(Project) =>
    \/ "error" \in ruleSeverities
    \/ \E f \in PolicyFiles : enginePolicies["opa"][f] \in {"denies", "false"}
    \/ "sentinel" \in installed /\ \E f \in Present(enginePolicies["sentinel"]) : enginePolicies["sentinel"][f] # "passes"
    \/ "crossguard" \in installed /\ \E f \in PolicyFiles : enginePolicies["crossguard"][f] = "mandatory"

(* A stream says less than the saved JSON of the same plan and asks for    *)
(* at least as much.                                                       *)
TextNoLooser ==
  saved.kind = "plan" /\ RequiresAcknowledgment(ClassifySavedPlan(saved)) =>
    RequiresAcknowledgment(ClassifyPlanRequest(NoPlan, TextOf(saved.changes, TRUE), NoPlan))

(* Leaving engines out of a policy run never blocks what the gate lets     *)
(* pass, and a run of all of them over the saved plan blocks what it does. *)
RunsAgree ==
  LET blocked == EvaluateBlockingPolicies(Project) IN
  /\ RunPolicies(Project, "absent", {}) <=> blocked
  /\ \A filter \in {{"opa", "conftest"}, {"sentinel", "other"}, {"other"}} :
       RunPolicies(Project, "absent", filter) => blocked

ReviewsAgree == NothingUnasked /\ FailuresPass /\ TextNoLooser /\ RunsAgree
=============================================================================
