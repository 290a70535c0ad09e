------------------------------ MODULE McpServer ------------------------------
(***************************************************************************)
(* iac-studio-mcp (cmd/mcp, internal/mcp): JSON-RPC over standard input.   *)
(* One goroutine reads a line, runs the tool's handler, appends one audit  *)
(* record and only then answers.  Tools inspect or propose; one of them,   *)
(* generate_plan, writes a plan file into the project; a single one        *)
(* changes a project otherwise, open_remediation_pr, and it needs the      *)
(* configured approval token.  The process may be killed in between.       *)
(*                                                                         *)
(* list_projects stands for the tools that load no project, and            *)
(* inspect_project for those that load one and only answer.                *)
(***************************************************************************)
EXTENDS Integers, Sequences, FiniteSets

CONSTANTS
  McpProjects, Tokens, NoToken,
  MaxLines   \* a bound of the model

ASSUME McpAssumption == NoToken \notin Tokens /\ MaxLines \in Nat

VARIABLES
  approvalToken,  \* of this process
  descriptor,     \* .iac-studio.json of each project
  serving,        \* the process runs
  stage,          \* where the loop is: "read", "call", "draft", "audit", "answer"
  lines,          \* the lines read, by all processes
  entry,          \* the record about to be appended
  auditLog,       \* .iac-studio/mcp-audit.jsonl
  answers,        \* of each line: what was written to standard output
  drafts,         \* of each project: remediation artifacts the last attempt wrote
  planFiles,      \* the projects a call left a tfplan in
  branches,       \* history: the lines that left a review branch
  unlogged        \* history: calls that ended without a record

mcpVars == <<approvalToken, descriptor, serving, stage, lines, entry, auditLog, answers,
             drafts, planFiles, branches, unlogged>>

Concrete    == {"terraform", "opentofu", "pulumi", "ansible"}
NoFile      == [tool |-> "none", envTool |-> "none"]
Descriptors == [tool : {"none", "multi", "pulumi"}, envTool : {"none", "opentofu"}]

(* buildTools: what only reads, what proposes, and what is risky. *)
Reads     == {"list_projects", "inspect_project", "scan_drift", "generate_plan"}
Proposals == {"propose_iac_change", "propose_drift_remediation", "generate_runbook"}
Risky     == {"call_mcp_airlock_tool", "open_remediation_pr", "apply_plan"}
ToolNames == Reads \union Proposals \union Risky

Line == [kind : {"garbage", "notification", "ping", "other", "call"}, name : ToolNames \union {"unknown"},
         project : McpProjects, token : Tokens \union {NoToken}]
Current == lines[Len(lines)]

(* The tool and environment a call may name. *)
Asked == [tool : {"", "terraform", "multi"}, env : {"", "prod"}]

Outcome(answer, decision, required, approved) ==
  [answer |-> answer, decision |-> decision, required |-> required, approved |-> approved, mutated |-> FALSE]

(* A tool's answer and what is recorded of the call. *)
AuditRecord ==
  [answer : {"result", "error"},
   decision : {"error", "blocked", "allowed", "approval_required", "approved_handoff_required",
               "approved_handoff_created", "proposal_generated", "runbook_generated"},
   required : BOOLEAN, approved : BOOLEAN, mutated : BOOLEAN]

McpTypeOK ==
  /\ approvalToken \in Tokens \union {NoToken} /\ descriptor \in [McpProjects -> Descriptors]
  /\ serving \in BOOLEAN /\ stage \in {"read", "call", "draft", "audit", "answer"}
  /\ lines \in Seq(Line) /\ entry \in AuditRecord
  /\ auditLog \in Seq([line : Nat, entry : AuditRecord]) /\ answers \in Seq({"result", "error", "nothing"})
  /\ drafts \in [McpProjects -> 0 .. 3] /\ planFiles \subseteq McpProjects
  /\ branches \union unlogged \subseteq DOMAIN lines

-----------------------------------------------------------------------------
(* effectiveTool: the environment's tool, else the project's for a request *)
(* that names none, "terraform" included, else what was asked for.         *)
EffectiveTool(d, requested, env) ==
  LET asked == IF requested = "" THEN "terraform" ELSE requested IN
  IF env # "" /\ d.envTool \in Concrete THEN d.envTool
  ELSE IF asked = "terraform" /\ d.tool \in Concrete \union {"multi"} THEN d.tool
  ELSE IF asked = "multi" /\ d.tool \in Concrete THEN d.tool
  ELSE asked

ToolOf(call, asked) == EffectiveTool(descriptor[call.project], asked.tool, asked.env)

(* loadProject may fail otherwise too: no such project or environment, a   *)
(* parse error.                                                            *)
Loads(call, asked)  == ToolOf(call, asked) # "multi"
(* Those have a state to compare with, and a plan file. *)
OnTerraform(call, asked) == ToolOf(call, asked) \in {"terraform", "opentofu"}

(* Faulty variant: without a configured token, a missing one matches. *)
ApprovedByDefault(token) == token = approvalToken
(* Server.approved. *)
Approved(token) == token # NoToken /\ token = approvalToken

-----------------------------------------------------------------------------
(* What a handler answers and records. *)
Fails == Outcome("error", "error", FALSE, FALSE)
Done(decision) == Outcome("result", decision, FALSE, FALSE)

(* Listing needs no project; what asks the firewall may be refused by it. *)
Listed == {Fails, Outcome("error", "blocked", FALSE, FALSE), Done("allowed")}

(* One that loads a project and answers. *)
Inspected(call, asked) == {Fails} \union (IF Loads(call, asked) THEN {Done("allowed")} ELSE {})

(* handleGeneratePlan: no token, and nothing mutated. *)
Planned(call, asked) == {Fails} \union (IF Loads(call, asked) THEN {Done("allowed")} ELSE {})

Scanned(call, asked) == {Fails} \union (IF OnTerraform(call, asked) THEN {Done("allowed")} ELSE {})

ProposedChange(call, asked) == {Fails} \union (IF Loads(call, asked) THEN {Done("proposal_generated")} ELSE {})

(* A remediation cannot do without the drift; a runbook says so when it     *)
(* could not be computed.                                                  *)
ProposedRemediation(call, asked) == {Fails} \union (IF OnTerraform(call, asked) THEN {Done("proposal_generated")} ELSE {})
Runbook(call, asked) == {Fails} \union (IF Loads(call, asked) THEN {Done("runbook_generated")} ELSE {})

(* handleCallMCPAirlockTool: any verdict of the firewall.  The external    *)
(* tool is not called.                                                     *)
AirlockCalled(call) ==
  {Fails, Outcome("error", "blocked", FALSE, FALSE), Done("allowed"),
   IF Approved(call.token) THEN Outcome("result", "allowed", TRUE, TRUE)
   ELSE Outcome("result", "approval_required", TRUE, FALSE)}

(* handleHighRisk: records the approval, and leaves the action to the UI. *)
HighRisk(call) ==
  {Fails, IF Approved(call.token) THEN Outcome("result", "approved_handoff_required", TRUE, TRUE)
          ELSE Outcome("result", "approval_required", TRUE, FALSE)}

Outcomes(call, asked) ==
  CASE call.name = "list_projects"             -> Listed
    [] call.name = "inspect_project"           -> Inspected(call, asked)
    [] call.name = "generate_plan"             -> Planned(call, asked)
    [] call.name = "scan_drift"                -> Scanned(call, asked)
    [] call.name = "propose_iac_change"        -> ProposedChange(call, asked)
    [] call.name = "propose_drift_remediation" -> ProposedRemediation(call, asked)
    [] call.name = "generate_runbook"          -> Runbook(call, asked)
    [] call.name = "call_mcp_airlock_tool"    -> AirlockCalled(call)
    [] call.name = "apply_plan"               -> HighRisk(call)
    [] call.name = "open_remediation_pr"      ->
         IF Approved(call.token) THEN {[Fails EXCEPT !.required = TRUE, !.approved = TRUE]}
         ELSE {Fails, Outcome("result", "approval_required", TRUE, FALSE)}

Answer(what) == answers' = Append(answers, what)
Conclude(outcome) == entry' = outcome /\ stage' = "audit"

-----------------------------------------------------------------------------
(* handleLine: a tool call waits for its handler; everything else has its  *)
(* answer at once, and a notification none, whatever its method.           *)
ReadLine ==
  /\ serving /\ stage = "read" /\ Len(lines) < MaxLines
  /\ \E line \in Line :
       /\ line.kind # "call" => line.name = "unknown"
       /\ line.name = "unknown" =>
            /\ line.project = (CHOOSE p \in McpProjects : TRUE) /\ line.token = NoToken
       /\ lines' = Append(lines, line)
       /\ IF line.kind = "call" /\ line.name # "unknown" THEN stage' = "call" /\ UNCHANGED answers
          ELSE /\ stage' = stage
               /\ Answer(CASE line.kind = "notification" -> "nothing" [] line.kind = "ping" -> "result" [] OTHER -> "error")
  /\ UNCHANGED <<approvalToken, descriptor, serving, entry, auditLog, drafts, planFiles, branches, unlogged>>

(* A handler that changes no project. *)
Handle ==
  /\ serving /\ stage = "call" /\ Current.name # "generate_plan"
  /\ \E asked \in Asked : \E outcome \in Outcomes(Current, asked) : Conclude(outcome)
  /\ UNCHANGED <<approvalToken, descriptor, serving, lines, auditLog, answers, drafts, planFiles, branches, unlogged>>

(* terraform plan -out=tfplan; a plan that failed, or was stopped, may     *)
(* have written its file or not.                                           *)
GeneratePlan ==
  /\ serving /\ stage = "call" /\ Current.name = "generate_plan"
  /\ \E asked \in Asked, written \in BOOLEAN : \E outcome \in Outcomes(Current, asked) :
       /\ written => OnTerraform(Current, asked)
       /\ OnTerraform(Current, asked) /\ outcome # Fails => written
       /\ planFiles' = IF written THEN planFiles \union {Current.project} ELSE planFiles
       /\ Conclude(outcome)
  /\ UNCHANGED <<approvalToken, descriptor, serving, lines, auditLog, answers, drafts, branches, unlogged>>

(* handleOpenRemediationPR with its token: the artifacts one by one, then  *)
(* the branch; a failure leaves the artifacts written so far.              *)
BeginDraft ==
  /\ serving /\ stage = "call" /\ Current.name = "open_remediation_pr"
  /\ Approved(Current.token) /\ \E asked \in Asked : OnTerraform(Current, asked)
  /\ stage' = "draft" /\ drafts' = [drafts EXCEPT ![Current.project] = 0]
  /\ UNCHANGED <<approvalToken, descriptor, serving, lines, entry, auditLog, answers, planFiles, branches, unlogged>>

WriteDraft ==
  /\ serving /\ stage = "draft" /\ drafts[Current.project] < 3
  /\ drafts' = [drafts EXCEPT ![Current.project] = @ + 1]
  /\ UNCHANGED <<approvalToken, descriptor, serving, stage, lines, entry, auditLog, answers, planFiles, branches, unlogged>>

(* CreatePullRequestHandoff. *)
HandOff ==
  /\ serving /\ stage = "draft" /\ drafts[Current.project] = 3
  /\ branches' = branches \union {Len(lines)}
  /\ Conclude([Outcome("result", "approved_handoff_created", TRUE, TRUE) EXCEPT !.mutated = TRUE])
  /\ UNCHANGED <<approvalToken, descriptor, serving, lines, auditLog, answers, drafts, planFiles, unlogged>>

(* An error with all artifacts in place may leave a branch: the commit is  *)
(* there, or git failed the cleanup.                                       *)
DraftFails ==
  /\ serving /\ stage = "draft"
  /\ Conclude([Fails EXCEPT !.required = TRUE, !.approved = TRUE])
  /\ branches' \in {branches} \union (IF drafts[Current.project] = 3 THEN {branches \union {Len(lines)}} ELSE {})
  /\ UNCHANGED <<approvalToken, descriptor, serving, lines, auditLog, answers, drafts, planFiles, unlogged>>

(* Faulty variant: the answer does not wait for the record. *)
AppendAuditLoosely ==
  /\ serving /\ stage = "audit" /\ stage' = "answer"
  /\ \/ auditLog' = Append(auditLog, [line |-> Len(lines), entry |-> entry]) /\ UNCHANGED unlogged
     \/ UNCHANGED <<auditLog, unlogged>>
  /\ UNCHANGED <<approvalToken, descriptor, serving, lines, entry, answers, drafts, planFiles, branches>>

(* callTool: one record, or an error for an answer. *)
AppendAudit ==
  /\ serving /\ stage = "audit" /\ stage' = "answer"
  /\ \/ /\ auditLog' = Append(auditLog, [line |-> Len(lines), entry |-> entry])
        /\ UNCHANGED <<entry, unlogged>>
     \/ /\ entry' = [entry EXCEPT !.answer = "error"] /\ unlogged' = unlogged \union {Len(lines)}
        /\ UNCHANGED auditLog
  /\ UNCHANGED <<approvalToken, descriptor, serving, lines, answers, drafts, planFiles, branches>>

WriteAnswer ==
  /\ serving /\ stage = "answer" /\ stage' = "read"
  /\ Answer(entry.answer)
  /\ UNCHANGED <<approvalToken, descriptor, serving, lines, entry, auditLog, drafts, planFiles, branches, unlogged>>

(* A signal, a closed pipe or an unreadable line ends the process. *)
Kill ==
  /\ serving /\ serving' = FALSE /\ stage' = "read"
  /\ answers' = IF stage = "read" THEN answers ELSE Append(answers, "nothing")
  /\ unlogged' = IF stage \in {"call", "draft", "audit"} THEN unlogged \union {Len(lines)} ELSE unlogged
  /\ UNCHANGED <<approvalToken, descriptor, lines, entry, auditLog, drafts, planFiles, branches>>

Serve ==
  /\ ~serving /\ serving' = TRUE
  /\ approvalToken' \in Tokens \union {NoToken}
  /\ UNCHANGED <<descriptor, stage, lines, entry, auditLog, answers, drafts, planFiles, branches, unlogged>>

McpInit ==
  /\ approvalToken \in Tokens \union {NoToken}
  /\ descriptor \in [McpProjects -> Descriptors]
  /\ serving = TRUE /\ stage = "read" /\ lines = <<>> /\ entry = Fails /\ auditLog = <<>> /\ answers = <<>>
  /\ drafts = [p \in McpProjects |-> 0] /\ planFiles = {} /\ branches = {} /\ unlogged = {}

McpNext ==
  \/ ReadLine \/ Handle \/ GeneratePlan \/ BeginDraft \/ WriteDraft \/ HandOff \/ DraftFails
  \/ AppendAudit \/ WriteAnswer \/ Kill \/ Serve

-----------------------------------------------------------------------------
(* README: "mutating or high-risk MCP tools require explicit approval and  *)
(* are logged".  Artifacts and branches appear in a project only by a call *)
(* that carried a token, and plan files by a call for a plan; an answered  *)
(* call has exactly one record, unless the process died or the log could   *)
(* not be written; no call is answered with a result before its record is  *)
(* in the file; and a record that says mutated is about a branch.  A       *)
(* branch may be there though its record says otherwise, but only that of  *)
(* an approved call that failed.                                           *)
EntriesOf(n) == {i \in DOMAIN auditLog : auditLog[i].line = n}

DraftCall(n) == lines[n].token # NoToken /\ lines[n].name = "open_remediation_pr"

Truthful(record, n) ==
  /\ record.mutated => n \in branches
  /\ n \in branches => record.mutated \/ (record.approved /\ record.decision = "error")
  /\ record.approved => lines[n].token # NoToken

McpAccountable ==
  /\ \A p \in McpProjects : drafts[p] > 0 => \E n \in DOMAIN lines : lines[n].project = p /\ DraftCall(n)
  /\ \A n \in branches : DraftCall(n)
  /\ \A p \in planFiles : \E n \in DOMAIN lines : lines[n].project = p /\ lines[n].name = "generate_plan"
  /\ \A n \in DOMAIN answers : lines[n].kind = "call" /\ lines[n].name # "unknown" =>
       /\ Cardinality(EntriesOf(n)) = IF n \in unlogged THEN 0 ELSE 1
       /\ n \in unlogged => answers[n] \in {"error", "nothing"}
       /\ \A i \in EntriesOf(n) : Truthful(auditLog[i].entry, n)
=============================================================================
