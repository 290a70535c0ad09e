------------------------------ MODULE AgentLoop ------------------------------
(***************************************************************************)
(* The built-in agent (ai/agent, ai/tools, ai/providers/anthropic_tooluse  *)
(* and api/agent.go): a request is routed to one specialist, which talks   *)
(* to the model turn by turn; the tools the model asks for run one after   *)
(* the other in the project's directory, the model's names taken at their  *)
(* word only if the specialist has them.  Requests run concurrently over   *)
(* the same files, and each ends with one entry of a bounded audit log.    *)
(***************************************************************************)
EXTENDS Integers, Sequences, FiniteSets

CONSTANTS
  Requests,
  SourceFiles,  \* .tf files of the project
  MaxTurns,   \* of each request
  BatchCap,   \* Runner.MaxIterations (50)
  AuditSize,  \* entries the audit log keeps (100)
  Called,     \* what the model asks for: names of tools, known or not
  Nobody

ASSUME LoopAssumption == {MaxTurns, BatchCap, AuditSize} \subseteq Nat \ {0} /\ Nobody \notin Requests

VARIABLES
  agent,     \* of each request: where it is and what it holds
  content,   \* of each file: the request that wrote it last, Nobody at first
  audit,     \* the log, most recent last
  recorded   \* history: the requests recorded since the server started

loopVars == <<agent, content, audit, recorded>>

(* DefaultSpecialists, in the order Route scores them. *)
Order == <<"architect", "coder", "policy", "security", "reviewer">>

ToolAllowList ==
  [architect |-> {"list_resources", "get_resource", "search_registry", "write_hcl"},
   coder     |-> {"list_resources", "get_resource", "write_hcl", "run_policy"},
   policy    |-> {"list_resources", "get_resource", "run_policy", "write_hcl"},
   security  |-> {"list_resources", "get_resource", "run_scan", "write_hcl"},
   reviewer  |-> {"list_resources", "get_resource", "run_policy", "run_scan", "read_plan"}]

(* RegisterIaCTools: one tool writes, the others only look. *)
Readers    == {"list_resources", "get_resource"}
Checks     == {"run_policy", "run_scan"}
Searches   == {"search_registry"}
PlanReader == {"read_plan"}
Registered == Readers \union Checks \union Searches \union PlanReader \union {"write_hcl"}

Batches == UNION {[1 .. n -> Called] : n \in 0 .. BatchCap + 1}
Idle == [pc |-> "idle", specialist |-> "none", turn |-> 0, uses |-> <<>>, results |-> <<>>, failed |-> FALSE]

LoopTypeOK ==
  /\ agent \in [Requests -> [pc : {"idle", "model", "tools", "record", "done"},
                             specialist : {"none"} \union DOMAIN ToolAllowList, turn : 0 .. MaxTurns,
                             uses : Batches, results : Seq({"value", "error"}), failed : BOOLEAN]]
  /\ content \in [SourceFiles -> Requests \union {Nobody}]
  /\ audit \in Seq([request : Requests, specialist : {"none"} \union DOMAIN ToolAllowList, failed : BOOLEAN])
  /\ Len(audit) <= AuditSize /\ recorded \in Seq(Requests)

-----------------------------------------------------------------------------
(* Route: the first specialist with most keywords; without any, the        *)
(* architect.                                                              *)
Route(weight) ==
  IF \A i \in DOMAIN Order : weight[i] = 0 THEN "architect"
  ELSE Order[CHOOSE i \in DOMAIN Order : \A j \in DOMAIN Order : weight[j] <= weight[i] /\ (weight[j] = weight[i] => i <= j)]

(* Faulty variant: the specialist's tools are advertised, all can be run. *)
AllRegistered(r) == Registered
(* Run: the registry the runner executes against. *)
Executable(r) == Registered \intersect ToolAllowList[agent[r].specialist]

(* Runner.Run takes the first calls of a batch and drops the others. *)
Calls(r) == SubSeq(agent[r].uses, 1, IF Len(agent[r].uses) > BatchCap THEN BatchCap ELSE Len(agent[r].uses))

-----------------------------------------------------------------------------
(* The endpoint: a provider that can use tools, or an error. *)
Ask(r) ==
  /\ agent[r].pc = "idle"
  /\ \/ \E weight \in [DOMAIN Order -> 0 .. 1] :
          agent' = [agent EXCEPT ![r].pc = "model", ![r].specialist = Route(weight)]
     \/ agent' = [agent EXCEPT ![r].pc = "record", ![r].failed = TRUE]
  /\ UNCHANGED <<content, audit, recorded>>

(* RunToolLoop, one turn: the call fails; the model is done, whatever      *)
(* tools it names then; or it wants tools.                                 *)
Turn(r) ==
  /\ agent[r].pc = "model" /\ agent[r].turn < MaxTurns
  /\ \E batch \in Batches, pc \in {"record", "tools"} :
       /\ pc = "tools" => batch # <<>>
       /\ agent' = [agent EXCEPT ![r].pc = pc, ![r].uses = batch, ![r].results = <<>>]
  /\ UNCHANGED <<content, audit, recorded>>

ModelFails(r) ==
  /\ agent[r].pc = "model"
  /\ agent' = [agent EXCEPT ![r].pc = "record", ![r].failed = TRUE]   \* transport, hang-up, or no turn left
  /\ UNCHANGED <<content, audit, recorded>>

(* write_hcl replaces a file of the project by renaming a temporary one;   *)
(* a path outside the project or through a symbolic link is refused.       *)
WriteHCL(r) == \E f \in SourceFiles : content' = [content EXCEPT ![f] = r]

(* One call: a name the registry lacks and a handler's error are results   *)
(* like any other.                                                         *)
CallTool(r) ==
  LET tool == Calls(r)[Len(agent[r].results) + 1]
      Result(outcome) ==
        LET results == Append(agent[r].results, outcome) IN
        agent' = IF Len(results) = Len(Calls(r))
                 THEN [agent EXCEPT ![r].results = results, ![r].pc = "model", ![r].turn = @ + 1]
                 ELSE [agent EXCEPT ![r].results = results] IN
  /\ agent[r].pc = "tools"
  /\ \/ Result("error") /\ UNCHANGED content
     \/ /\ tool \in Executable(r) /\ Result("value")
        /\ IF tool = "write_hcl" THEN WriteHCL(r) ELSE UNCHANGED content
  /\ UNCHANGED <<audit, recorded>>

(* agentAudit.record: a failed run is recorded without its specialist. *)
RecordRequest(r) ==
  LET entry == [request |-> r, specialist |-> IF agent[r].failed THEN "none" ELSE agent[r].specialist, failed |-> agent[r].failed]
      entries == Append(audit, entry) IN
  /\ agent[r].pc = "record" /\ agent' = [agent EXCEPT ![r].pc = "done"]
  /\ audit' = IF Len(entries) > AuditSize THEN SubSeq(entries, Len(entries) - AuditSize + 1, Len(entries)) ELSE entries
  /\ recorded' = Append(recorded, r)
  /\ UNCHANGED content

(* The log is in memory; the files are not. *)
RestartServer ==
  /\ \E r \in Requests : agent[r].pc \notin {"idle", "done"}
  /\ agent' = [r \in Requests |-> IF agent[r].pc = "idle" THEN agent[r] ELSE [agent[r] EXCEPT !.pc = "done"]]
  /\ audit' = <<>> /\ recorded' = <<>>
  /\ UNCHANGED content

LoopInit ==
  /\ agent = [r \in Requests |-> Idle] /\ content = [f \in SourceFiles |-> Nobody]
  /\ audit = <<>> /\ recorded = <<>>

LoopNext == \/ \E r \in Requests : Ask(r) \/ Turn(r) \/ ModelFails(r) \/ CallTool(r) \/ RecordRequest(r)
            \/ RestartServer

-----------------------------------------------------------------------------
(* A request writes only if its specialist may: the reviewer, which "does  *)
(* not modify files", never does, whatever tools the model makes up.  What *)
(* the model is told next is one result for each call of its batch, in     *)
(* order, the calls beyond the cap excepted; a tool it may not use is an    *)
(* error.  A file keeps its content if nobody wrote.  The log holds the    *)
(* last requests recorded, in the order they ended.                        *)
AgentInLane ==
  /\ \A f \in SourceFiles : content[f] # Nobody => "write_hcl" \in ToolAllowList[agent[content[f]].specialist]
  /\ \A r \in Requests : agent[r].pc = "model" /\ agent[r].turn > 0 =>
       /\ Len(agent[r].results) = (IF Len(agent[r].uses) > BatchCap THEN BatchCap ELSE Len(agent[r].uses))
       /\ \A i \in DOMAIN agent[r].results :
            agent[r].results[i] = "value" => agent[r].uses[i] \in ToolAllowList[agent[r].specialist]
  /\ [i \in DOMAIN audit |-> audit[i].request] =
       SubSeq(recorded, Len(recorded) - Len(audit) + 1, Len(recorded))
  /\ Len(audit) = AuditSize \/ Len(audit) = Len(recorded)
=============================================================================
