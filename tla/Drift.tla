-------------------------------- MODULE Drift --------------------------------
(***************************************************************************)
(* Drift detection, remediation proposals and rollback checkpoints         *)
(* (internal/drift, internal/recovery and their callers in api/router.go): *)
(* what a project's code and its Terraform state disagree about, what of   *)
(* it a proposal takes up, and which checkpoints a rollback compares.      *)
(*                                                                         *)
(* An address is a type and a name.  Resource and data blocks share it,    *)
(* and so do the resources of all modules in the state, each with an       *)
(* instance per count or for_each key: only one block is compared with     *)
(* only one instance.                                                      *)
(***************************************************************************)
EXTENDS Integers, Sequences, FiniteSets

CONSTANTS
  Addresses,         \* of resources
  Kinds,             \* what resource types look like
  SuppressionRules,  \* those a descriptor may hold
  MaxParts,          \* a bound of the model: blocks, resources and instances of an address
  MaxSuppressions,   \* a bound of the model: rules at a time
  MaxCheckpoints,    \* a bound of the model
  Unset              \* an absent resource, field or value

DriftFields   == {"tags", "size"}
DriftMetadata == {"tags"}   \* tags, labels, annotations, description
Statuses      == {"missing", "drifted", "unmanaged"}
SuppressionRule ==
  [address : Addresses \union {"none"}, type : Kinds \union {"none"}, status : Statuses \union {"none"},
   path : DriftFields \union {"none"}, classification : {"none", "unauthorized"}, env : {"none", "prod"}]

ASSUME DriftAssumption ==
  /\ IsFiniteSet(Addresses) /\ "none" \notin Addresses /\ Unset \notin {0, 1}
  /\ SuppressionRules \subseteq SuppressionRule /\ {MaxParts, MaxSuppressions, MaxCheckpoints} \subseteq Nat

VARIABLES
  blocks,        \* of each address: the parsed blocks, in the order of the files
  entries,       \* of each address: terraform.tfstate's managed resources, and of each its instances
  kind,          \* of each address
  suppressions,  \* of .iac-studio.json
  env,           \* the environment of the detection
  checkpoints,   \* .iac-studio/snapshots, oldest first
  damaged        \* one of them is not JSON

driftVars == <<blocks, entries, kind, suppressions, env, checkpoints, damaged>>

(* Both sides are compared as text, and each may lack a field; 0 stands    *)
(* for the value in the code.                                              *)
Block    == [DriftFields -> {0, Unset}]
Instance == [DriftFields -> {0, 1, Unset}]

DriftTypeOK ==
  /\ blocks \in [Addresses -> Seq(Block)] /\ entries \in [Addresses -> Seq(Seq(Instance))] /\ kind \in [Addresses -> Kinds]
  /\ suppressions \subseteq SuppressionRules /\ env \in {"none", "prod"} /\ damaged \in BOOLEAN
  /\ checkpoints \in Seq([tool : {"terraform", "pulumi"}, env : {"none", "prod"}]) /\ Len(checkpoints) <= MaxCheckpoints

-----------------------------------------------------------------------------
(* runProjectDrift maps the resources by type and name: the last block of  *)
(* an address is what the code says.                                       *)
InCode == {a \in Addresses : blocks[a] # <<>>}
code   == [a \in InCode |-> blocks[a][Len(blocks[a])]]

(* The index of the state: the first instance of the last resource that    *)
(* has one.                                                                *)
Existing(a) == {i \in DOMAIN entries[a] : entries[a][i] # <<>>}
Last(a)     == CHOOSE i \in Existing(a) : \A j \in Existing(a) : j <= i
Managed     == {a \in Addresses : Existing(a) # {}}
live        == [a \in Managed |-> entries[a][Last(a)][1]]

MissingFromState == InCode \ Managed
Unmanaged        == Managed \ InCode

(* Fields of both sides whose values differ. *)
ChangedFields(a) ==
  IF a \notin InCode \intersect Managed THEN {}
  ELSE {f \in DriftFields : Unset \notin {code[a][f], live[a][f]} /\ code[a][f] # live[a][f]}

Drifted == {a \in Addresses : ChangedFields(a) # {}}
InSync  == (InCode \intersect Managed) \ Drifted

(* Faulty variant: one metadata field makes the drift legitimate. *)
ClassifyByOneField(a) ==
  IF ChangedFields(a) \intersect DriftMetadata # {} THEN "legitimate"
  ELSE IF kind[a] \in {"identity", "network", "stateful"} THEN "unauthorized" ELSE "unknown"

(* classifyResourceDrift. *)
ClassifyDrift(a) ==
  IF ChangedFields(a) \subseteq DriftMetadata THEN "legitimate"
  ELSE IF kind[a] \in {"identity", "network", "stateful"} THEN "unauthorized" ELSE "unknown"

(* One finding for an address on one side, one for each changed field. *)
DriftFinding(a, status, path, class) ==
  [address |-> a, type |-> kind[a], status |-> status, path |-> path, classification |-> class]

AllFindings ==
  {DriftFinding(a, "missing", "none", "missing_from_state") : a \in MissingFromState} \union
  {DriftFinding(a, "unmanaged", "none", "unauthorized") : a \in Unmanaged} \union
  UNION {{DriftFinding(a, "drifted", f, ClassifyDrift(a)) : f \in ChangedFields(a)} : a \in Drifted}

(* SuppressionRule.matches: every selector it has, and it needs one. *)
Selectors(rule) == {s \in DOMAIN rule : rule[s] # "none"}
RuleMatches(rule, f) ==
  /\ Selectors(rule) # {}
  /\ \A s \in Selectors(rule) : rule[s] = IF s = "env" THEN env ELSE f[s]

Suppressed == {f \in AllFindings : \E rule \in suppressions : RuleMatches(rule, f)}
Findings   == AllFindings \ Suppressed

(* DetectWithOptions on a state file that exists. *)
Report == [total |-> Cardinality(InCode) + Cardinality(Unmanaged), inSync |-> Cardinality(InSync),
           findings |-> Findings, suppressed |-> Suppressed]

(* BuildRemediationProposal: what each mode takes up, and as what. *)
Taken(mode) == IF mode = "revert" THEN {f \in Findings : f.classification # "legitimate"} ELSE Findings
Action(mode, f) == IF f.status = "drifted" THEN mode ELSE "manual"
Proposal(mode) == {[finding |-> f, action |-> Action(mode, f)] : f \in Taken(mode)}

-----------------------------------------------------------------------------
(* buildProjectRollbackProposal: the newest other checkpoint of the same   *)
(* tool and environment is what the target is compared with.               *)
Others(i) == {j \in DOMAIN checkpoints : j # i /\ checkpoints[j] = checkpoints[i]}
RollbackCurrent(i) == IF Others(i) = {} THEN 0 ELSE CHOOSE j \in Others(i) : \A k \in Others(i) : k <= j
CanRollBack(i, wanted) == ~damaged /\ i \in DOMAIN checkpoints /\ wanted \in {"none", checkpoints[i].env}

-----------------------------------------------------------------------------
(* Users edit the code and the rules, the infrastructure changes.  As a    *)
(* bound, at the end of what an address has, and no more once there are    *)
(* checkpoints, which begin without any resource: rollbacks read neither.  *)
Shortened(s) == IF s = <<>> THEN s ELSE SubSeq(s, 1, Len(s) - 1)

EditCode ==
  /\ checkpoints = <<>>
  /\ \E a \in Addresses : \E new \in {Shortened(blocks[a])} \union {Append(blocks[a], b) : b \in Block} :
       Len(new) <= MaxParts /\ blocks' = [blocks EXCEPT ![a] = new]
  /\ UNCHANGED <<entries, kind, suppressions, env, checkpoints, damaged>>

LiveChanges ==
  /\ checkpoints = <<>>
  /\ \E a \in Addresses :
       \E new \in {Shortened(entries[a]), Append(entries[a], <<>>)} \union
                  {Append(Shortened(entries[a]), Append(entries[a][Len(entries[a])], i)) :
                     i \in IF entries[a] = <<>> THEN {} ELSE Instance} :
         /\ Len(new) <= MaxParts /\ \A i \in DOMAIN new : Len(new[i]) <= MaxParts
         /\ entries' = [entries EXCEPT ![a] = new]
  /\ UNCHANGED <<blocks, kind, suppressions, env, checkpoints, damaged>>

Suppress ==
  /\ checkpoints = <<>> /\ Cardinality(suppressions) < MaxSuppressions
  /\ \E rule \in SuppressionRules \ suppressions : suppressions' = suppressions \union {rule}
  /\ UNCHANGED <<blocks, entries, kind, env, checkpoints, damaged>>

(* RecordSnapshot after a successful run. *)
RecordSnapshot ==
  /\ Len(checkpoints) < MaxCheckpoints /\ suppressions = {}
  /\ \A a \in Addresses : blocks[a] = <<>> /\ entries[a] = <<>>
  /\ \E tool \in {"terraform", "pulumi"}, e \in {"none", "prod"} :
       checkpoints' = Append(checkpoints, [tool |-> tool, env |-> e])
  /\ UNCHANGED <<blocks, entries, kind, suppressions, env, damaged>>

DamageSnapshot ==
  /\ checkpoints # <<>> /\ ~damaged /\ damaged' = TRUE
  /\ UNCHANGED <<blocks, entries, kind, suppressions, env, checkpoints>>

DriftInit ==
  /\ blocks = [a \in Addresses |-> <<>>] /\ entries = [a \in Addresses |-> <<>>]
  /\ kind \in [Addresses -> Kinds] /\ suppressions = {} /\ env \in {"none", "prod"}
  /\ checkpoints = <<>> /\ damaged = FALSE

DriftNext == EditCode \/ LiveChanges \/ Suppress \/ RecordSnapshot \/ DamageSnapshot

-----------------------------------------------------------------------------
(* What an address really has: every block and every instance. *)
Blocks(a)    == {blocks[a][i] : i \in DOMAIN blocks[a]}
Instances(a) == UNION {{entries[a][i][n] : n \in DOMAIN entries[a][i]} : i \in DOMAIN entries[a]}
Parts(a)     == Blocks(a) \X Instances(a)
DifferIn(b, i, f) == Unset \notin {b[f], i[f]} /\ b[f] # i[f]

(* Code and state disagree whichever of its parts are compared. *)
Disagrees(a) ==
  \/ (Blocks(a) = {}) # (Instances(a) = {})
  \/ Parts(a) # {} /\ \A p \in Parts(a) : \E f \in DriftFields : DifferIn(p[1], p[2], f)

(* No difference that all parts of an address show disappears: every       *)
(* address is counted once; if code and state disagree about it, it has a  *)
(* finding, open or suppressed by a rule that names something it has; a    *)
(* field that is reported differs in some of its parts; codify and revert  *)
(* together take up every open finding, and revert passes over no address  *)
(* whose parts all differ in more than metadata.  (What only some parts    *)
(* show may go unseen: one block is compared with one instance.)  A        *)
(* rollback compares with the newest checkpoint of its kind, older than    *)
(* the target only when the target is the newest.                          *)
DriftAccounted ==
  LET report == Report
      found  == report.findings \union report.suppressed
      revert == Proposal("revert")
  IN
  /\ report.total = report.inSync + Cardinality({f.address : f \in found})
  /\ \A a \in Addresses : Disagrees(a) =>
       \/ \E f \in report.findings : f.address = a
       \/ \E rule \in suppressions : /\ rule.address \in {"none", a} /\ rule.env \in {"none", env}
                                     /\ \E s \in DOMAIN rule : rule[s] # "none"
  /\ \A f \in found : f.status = "drifted" => \E p \in Parts(f.address) : DifferIn(p[1], p[2], f.path)
  /\ {p.finding : p \in Proposal("codify") \union revert} = report.findings
  /\ \A f \in report.findings :
       (Parts(f.address) # {} /\ \A p \in Parts(f.address) : DifferIn(p[1], p[2], "size")) =>
         \E p \in revert : p.finding = f
  /\ \A i \in DOMAIN checkpoints : CanRollBack(i, "none") /\ RollbackCurrent(i) # 0 =>
       \/ RollbackCurrent(i) > i
       \/ \A j \in DOMAIN checkpoints : j > i => checkpoints[j] # checkpoints[i]
=============================================================================
