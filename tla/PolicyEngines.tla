---------------------------- MODULE PolicyEngines ----------------------------
(***************************************************************************)
(* The policy engines (internal/policy/engines: built-in rules, OPA,       *)
(* Conftest, Sentinel, CrossGuard) over one project, and who runs them:    *)
(* the apply gate, POST policy/run and the agent's run_policy.             *)
(*                                                                         *)
(* Pure definitions over a project: [directory |-> of each policies/       *)
(* directory "missing", "file" or "policies", policies |-> of each engine  *)
(* what its policy files say, installed |-> programs on PATH, plan |->     *)
(* what tfplan.json is, rules |-> the severities the built-in rules find,  *)
(* pulumi |-> the working directory has a Pulumi.yaml].                    *)
(***************************************************************************)
EXTENDS Integers, FiniteSets

Engines    == {"builtin", "opa", "conftest", "sentinel", "crossguard"}
ShellOut   == {"conftest", "sentinel", "crossguard"}
Severities == {"error", "warning", "info"}

(* What a Rego file says of the plan: its deny or warn rule names          *)
(* something, nothing, or is the value false; a Sentinel policy passes,    *)
(* fails or does not compile; a CrossGuard policy is violated.             *)
RegoVerdicts     == {"denies", "warns", "quiet", "false", "broken"}
SentinelVerdicts == {"passes", "fails", "broken"}
PackVerdicts     == {"mandatory", "advisory", "quiet", "broken"}

(* The files that are there, of all names a policy file may have. *)
Present(files) == {f \in DOMAIN files : files[f] # "absent"}

Result(engine, available, findings, failed) ==
  [engine |-> engine, available |-> available, findings |-> findings, failed |-> failed]

Finding(engine, severity, file) == [engine |-> engine, severity |-> severity, file |-> file]

Quiet(engine)       == Result(engine, TRUE, {}, FALSE)
EngineFails(engine) == Result(engine, TRUE, {}, TRUE)
NotOnPath(engine)   == Result(engine, FALSE, {}, TRUE)

HasPlan(project) == project.plan # "absent"

-----------------------------------------------------------------------------
(* builtin.go: without resources there is nothing to evaluate. *)
Builtin(project) == Result("builtin", TRUE, {Finding("builtin", s, "rules") : s \in project.rules}, FALSE)

(* opa.go, evalFile: any value but a set is a finding, even false. *)
RegoSeverity(verdict) == IF verdict = "warns" THEN "warning" ELSE "error"
EvalFile(engine, file, verdict) ==
  IF verdict \in {"denies", "warns", "false"} THEN {Finding(engine, RegoSeverity(verdict), file)} ELSE {}

(* Faulty variant: the first file that does not compile ends the run. *)
EvalUntilBroken(engine, files) ==
  IF \E f \in Present(files) : files[f] = "broken" THEN EngineFails(engine)
  ELSE Result(engine, TRUE, UNION {EvalFile(engine, f, files[f]) : f \in Present(files)}, FALSE)
(* Every file is evaluated by itself; the first error is kept. *)
EvalFiles(engine, files) ==
  Result(engine, TRUE, UNION {EvalFile(engine, f, files[f]) : f \in Present(files)},
         \E f \in Present(files) : files[f] = "broken")

OPA(project) ==
  IF project.directory["opa"] = "missing" THEN Quiet("opa")
  ELSE IF project.directory["opa"] = "file" THEN EngineFails("opa")
  ELSE IF Present(project.policies["opa"]) = {} THEN Quiet("opa")
  ELSE IF ~HasPlan(project) \/ project.plan = "garbled" THEN EngineFails("opa")
  ELSE EvalFiles("opa", project.policies["opa"])

(* conftest.go: the program loads the whole directory and prints nothing   *)
(* when a file does not compile or the plan is no JSON.                    *)
ConftestTest(project) ==
  LET files == project.policies["opa"] IN
  IF project.plan = "garbled" \/ \E f \in Present(files) : files[f] = "broken" THEN EngineFails("conftest")
  ELSE Result("conftest", TRUE,
              UNION {EvalFile("conftest", f, files[f]) : f \in {g \in Present(files) : files[g] # "false"}}, FALSE)

Conftest(project) ==
  IF "conftest" \notin project.installed THEN NotOnPath("conftest")
  ELSE IF project.directory["opa"] = "missing" THEN Quiet("conftest")
  ELSE IF project.directory["opa"] = "file" \/ ~HasPlan(project) THEN EngineFails("conftest")
  ELSE ConftestTest(project)

(* sentinel.go, runOne: any exit code but 0 is a failing policy, also that *)
(* of a policy that does not compile.                                      *)
SentinelApply(policy, verdict) ==
  IF verdict = "passes" THEN {} ELSE {Finding("sentinel", "error", policy)}

Sentinel(project) ==
  LET files == project.policies["sentinel"] IN
  IF "sentinel" \notin project.installed THEN NotOnPath("sentinel")
  ELSE IF project.directory["sentinel"] = "missing" THEN Quiet("sentinel")
  ELSE IF project.directory["sentinel"] = "file" THEN EngineFails("sentinel")
  ELSE IF Present(files) = {} THEN Quiet("sentinel")
  ELSE IF ~HasPlan(project) THEN EngineFails("sentinel")
  ELSE Result("sentinel", TRUE, UNION {SentinelApply(f, files[f]) : f \in Present(files)}, FALSE)

(* crossguard.go: one preview with every pack; what it printed before it   *)
(* failed counts, and a failure counts only if it printed no violation.    *)
SeverityForEnforcement(enforcement) == IF enforcement = "mandatory" THEN "error" ELSE "warning"

PulumiPreview(packs) ==
  LET violated == {p \in Present(packs) : packs[p] \in {"mandatory", "advisory"}} IN
  Result("crossguard", TRUE,
         {Finding("crossguard", SeverityForEnforcement(packs[p]), p) : p \in violated},
         violated = {} /\ \E p \in Present(packs) : packs[p] = "broken")

CrossGuard(project) ==
  IF "crossguard" \notin project.installed THEN NotOnPath("crossguard")
  ELSE IF project.directory["crossguard"] = "missing" THEN Quiet("crossguard")
  ELSE IF project.directory["crossguard"] = "file" THEN EngineFails("crossguard")
  ELSE IF Present(project.policies["crossguard"]) = {} THEN Quiet("crossguard")
  ELSE IF ~project.pulumi THEN EngineFails("crossguard")
  ELSE PulumiPreview(project.policies["crossguard"])

Evaluate(engine, project) ==
  CASE engine = "builtin"    -> Builtin(project)
    [] engine = "opa"        -> OPA(project)
    [] engine = "conftest"   -> Conftest(project)
    [] engine = "sentinel"   -> Sentinel(project)
    [] engine = "crossguard" -> CrossGuard(project)

-----------------------------------------------------------------------------
(* engines.go: an engine that fails still gives a result, whatever the     *)
(* order of the others.                                                    *)
RunAll(engines, project) == {Evaluate(e, project) : e \in engines}

MergeFindings(results) == UNION {r.findings : r \in results}

IsBlocking(finding) == finding.severity = "error"

Blocking(engines, project) == \E f \in MergeFindings(RunAll(engines, project)) : IsBlocking(f)

(* api/policy.go: an empty filter means every engine, unknown names none. *)
FilterEngines(filter) == IF filter = {} THEN Engines ELSE Engines \intersect filter

(* POST policy/run: a posted plan instead of the saved one. *)
RunPolicies(project, posted, filter) ==
  Blocking(FilterEngines(filter), IF posted = "absent" THEN project ELSE [project EXCEPT !.plan = posted])

(* The apply gate and, at the root of a project, the agent's run_policy. *)
EvaluateBlockingPolicies(project) == Blocking(Engines, project)
=============================================================================
