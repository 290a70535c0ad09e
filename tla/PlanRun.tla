------------------------------- MODULE PlanRun -------------------------------
(***************************************************************************)
(* One working directory of a Terraform/OpenTofu project: the run handler, *)
(* the plan gate that decides whether a mutating command may start, the    *)
(* SafeRunner that executes commands, and what changes the directory from  *)
(* outside.                                                                *)
(*                                                                         *)
(* A plan command writes tfplan; the goroutine that ran it exports it to   *)
(* the plan JSON, hashes both files together with the command's output and *)
(* records the hash in the gate.  A mutating request carries a hash; it is *)
(* checked twice, spent, and "apply" executes whatever tfplan then holds.  *)
(* Steps are split where another goroutine can get in between.             *)
(*                                                                         *)
(* A command produces at most one plan, which carries the command's name.  *)
(* The other fields of the gate's context (tool, environment) select the   *)
(* directory or are compared like the connection.                          *)
(***************************************************************************)
EXTENDS Integers, FiniteSets

CONSTANTS
  Commands,     \* the run requests of a behaviour
  Connections,  \* cloud connections a request can name
  Nothing,      \* no file, no gate record, no active execution
  MaxEdits      \* bound: changes of the source files

ASSUME PlanRunAssumption ==
  /\ Nothing \notin Commands \union Connections
  /\ MaxEdits \in Nat

Producing == {"plan"}
Mutating  == {"apply", "destroy"}     \* SafeRunner.RequiresApproval
Kinds     == Producing \union Mutating \union {"init"}

VARIABLES
  source,    \* version of the source files
  synced,    \* the version the last finished sync wrote
  sync,      \* the sync handler: "idle" or between its two steps
  noticed,   \* the last version the file watcher reported
  tfplan,    \* the saved plan file: the command that wrote it
  planJSON,  \* the exported plan: the command whose plan it shows
  gate,      \* planGate.plans[runPath]: the hash of the recorded plan
  active,    \* SafeRunner.active[runPath]
  cmd,       \* of each run request: where it is and what it holds
  overlap    \* history: two requests were ever in progress at once

vars == <<source, synced, sync, noticed, tfplan, planJSON, gate, active, cmd, overlap>>
files == <<tfplan, planJSON>>
edits == <<source, synced, sync, noticed>>

Steps == {"idle", "consume", "check", "register", "launch", "running",
          "export", "write", "hash", "record", "done"}
Plan  == Commands \union {Nothing}
Hash  == [output : Commands, tfplan : Plan, planJSON : Plan]

Unhashed(c) == [output |-> c, tfplan |-> Nothing, planJSON |-> Nothing]

Command == [pc : Steps, kind : Kinds, connection : Connections \union {Nothing},
            hash : Hash,                \* the request's plan_hash, or the plan's own
            passed : BOOLEAN,           \* the gate let the mutation through,
            syncedThen : 0 .. MaxEdits, \*   after this sync
            read : 0 .. MaxEdits,       \* the sources a plan was made from
            used : Plan,                \* the plan an apply executed, an export showed
            failed : BOOLEAN]

TypeOK ==
  /\ source \in 0 .. MaxEdits /\ synced \in 0 .. source /\ noticed \in 0 .. source
  /\ sync \in {"idle", "writing"}
  /\ tfplan \in Plan /\ planJSON \in Plan
  /\ gate \in Hash \union {Nothing}
  /\ active \in Plan
  /\ cmd \in [Commands -> Command]
  /\ overlap \in BOOLEAN

Busy(c)  == cmd[c].pc \notin {"idle", "done"}
At(c, pc) == cmd[c].pc = pc
Goto(c, pc) == cmd' = [cmd EXCEPT ![c].pc = pc]

-----------------------------------------------------------------------------
(* The run handler.                                                        *)

Overlaps == overlap' = (overlap \/ sync # "idle" \/ \E d \in Commands : Busy(d))

(* validatePlanForCommandLocked: the record is the one named by the hash   *)
(* and was made for the same context.                                      *)
GateAccepts(hash, connection) ==
  /\ gate # Nothing
  /\ gate = hash
  /\ cmd[gate.output].connection = connection

(* Faulty variant: the previous plan stays recorded. *)
RequestPlanKeepsGate(c, connection) ==
  /\ At(c, "idle")
  /\ planJSON' = Nothing
  /\ cmd' = [cmd EXCEPT ![c].pc = "check", ![c].kind = "plan", ![c].connection = connection]
  /\ Overlaps
  /\ UNCHANGED <<edits, tfplan, gate, active>>

RequestPlan(c, connection) ==
  /\ At(c, "idle")
  /\ gate' = Nothing
  /\ planJSON' = Nothing
  /\ cmd' = [cmd EXCEPT ![c].pc = "check", ![c].kind = "plan", ![c].connection = connection]
  /\ Overlaps
  /\ UNCHANGED <<edits, tfplan, active>>

(* A mutating request that was approved and acknowledged; one the gate     *)
(* refuses changes nothing.                                                *)
RequestMutation(c, kind, connection) ==
  /\ At(c, "idle")
  /\ GateAccepts(gate, connection)
  /\ cmd' = [cmd EXCEPT ![c].pc = "consume", ![c].kind = kind,
                        ![c].connection = connection, ![c].hash = gate]
  /\ Overlaps
  /\ UNCHANGED <<edits, files, gate, active>>

RequestInit(c, connection) ==
  /\ At(c, "idle")
  /\ cmd' = [cmd EXCEPT ![c].pc = "check", ![c].kind = "init", ![c].connection = connection]
  /\ Overlaps
  /\ UNCHANGED <<edits, files, gate, active>>

(* Faulty variant: the plan can be used again. *)
ConsumeKeepsGate(c) ==
  /\ At(c, "consume")
  /\ IF GateAccepts(cmd[c].hash, cmd[c].connection)
     THEN cmd' = [cmd EXCEPT ![c].pc = "check", ![c].passed = TRUE, ![c].syncedThen = synced]
     ELSE Goto(c, "done")
  /\ UNCHANGED <<edits, files, gate, active, overlap>>

(* consumePlanForCommand, first thing in the goroutine. *)
Consume(c) ==
  /\ At(c, "consume")
  /\ IF GateAccepts(cmd[c].hash, cmd[c].connection)
     THEN /\ gate' = Nothing
          /\ cmd' = [cmd EXCEPT ![c].pc = "check", ![c].passed = TRUE, ![c].syncedThen = synced]
     ELSE Goto(c, "done") /\ UNCHANGED gate
  /\ UNCHANGED <<edits, files, active, overlap>>

-----------------------------------------------------------------------------
(* SafeRunner.executeWithEnv.                                              *)

CheckActive(c) ==
  /\ At(c, "check")
  /\ Goto(c, IF active = Nothing THEN "register" ELSE "done")
  /\ UNCHANGED <<edits, files, gate, active, overlap>>

Register(c) ==
  /\ At(c, "register")
  /\ active' = c
  /\ Goto(c, "launch")
  /\ UNCHANGED <<edits, files, gate, overlap>>

(* The process starts: it reads the sources, or the saved plan. *)
Launch(c) ==
  /\ At(c, "launch") /\ ~cmd[c].failed
  /\ cmd' = [cmd EXCEPT ![c].pc = "running", ![c].read = source,
                        ![c].used = IF cmd[c].kind = "apply" THEN tfplan ELSE Nothing]
  /\ UNCHANGED <<edits, files, gate, active, overlap>>

(* It was killed before it started, or cannot be started. *)
LaunchFails(c) ==
  /\ At(c, "launch")
  /\ active' = Nothing
  /\ Goto(c, "done")
  /\ UNCHANGED <<edits, files, gate, overlap>>

(* Faulty variant: only a success removes the entry. *)
FinishKeepsFailed(c) ==
  /\ At(c, "running")
  /\ \/ /\ ~cmd[c].failed /\ active' = Nothing
        /\ tfplan' = IF cmd[c].kind = "plan" THEN c ELSE tfplan
        /\ Goto(c, IF cmd[c].kind = "plan" THEN "export" ELSE "done")
     \/ Goto(c, "done") /\ UNCHANGED <<tfplan, active>>
  /\ UNCHANGED <<edits, planJSON, gate, overlap>>

(* Faulty variant: a killed command does not return. *)
FinishUnlessKilled(c) ==
  /\ At(c, "running") /\ ~cmd[c].failed
  /\ active' = Nothing
  /\ tfplan' = IF cmd[c].kind = "plan" THEN c ELSE tfplan
  /\ Goto(c, IF cmd[c].kind = "plan" THEN "export" ELSE "done")
  /\ UNCHANGED <<edits, planJSON, gate, overlap>>

(* The deferred delete removes whatever entry the directory has. *)
Finish(c) ==
  /\ At(c, "running")
  /\ active' = Nothing
  /\ \/ /\ ~cmd[c].failed
        /\ tfplan' = IF cmd[c].kind = "plan" THEN c ELSE tfplan
        /\ Goto(c, IF cmd[c].kind = "plan" THEN "export" ELSE "done")
     \/ /\ tfplan' \in IF cmd[c].kind = "plan" THEN {tfplan, c} ELSE {tfplan}
        /\ Goto(c, "done")
  /\ UNCHANGED <<edits, planJSON, gate, overlap>>

Kill ==
  /\ active # Nothing
  /\ cmd' = [cmd EXCEPT ![active].failed = TRUE]
  /\ UNCHANGED <<edits, files, gate, active, overlap>>

-----------------------------------------------------------------------------
(* The rest of the goroutine of a successful plan.                         *)

(* exportSavedPlanJSON reads tfplan, unless it fails. *)
Export(c) ==
  /\ At(c, "export")
  /\ \E shown \in {tfplan, Nothing} :
       cmd' = [cmd EXCEPT ![c].pc = "write", ![c].used = shown]
  /\ UNCHANGED <<edits, files, gate, active, overlap>>

WritePlanJSON(c) ==
  /\ At(c, "write")
  /\ planJSON' = cmd[c].used
  /\ Goto(c, "hash")
  /\ UNCHANGED <<edits, tfplan, gate, active, overlap>>

(* planHash, which is computed before the gate is locked. *)
HashPlan(c) ==
  /\ At(c, "hash")
  /\ cmd' = [cmd EXCEPT ![c].pc = "record",
               ![c].hash = [output |-> c, tfplan |-> tfplan, planJSON |-> planJSON]]
  /\ UNCHANGED <<edits, files, gate, active, overlap>>

RecordPlan(c) ==
  /\ At(c, "record")
  /\ gate' = cmd[c].hash
  /\ Goto(c, "done")
  /\ UNCHANGED <<edits, files, active, overlap>>

-----------------------------------------------------------------------------
(* The sync handler invalidates the gate, then replaces the files.         *)
SyncInvalidate ==
  /\ sync = "idle" /\ source < MaxEdits
  /\ sync' = "writing"
  /\ gate' = Nothing
  /\ Overlaps
  /\ UNCHANGED <<source, synced, noticed, files, active, cmd>>

(* Faulty variant: the sync ends without having written. *)
SyncWriteNothing ==
  /\ sync = "writing"
  /\ sync' = "idle"
  /\ synced' = source + 1
  /\ UNCHANGED <<source, noticed, files, gate, active, cmd, overlap>>

SyncWrite ==
  /\ sync = "writing"
  /\ sync' = "idle"
  /\ source' = source + 1 /\ synced' = source + 1
  /\ UNCHANGED <<noticed, files, gate, active, cmd, overlap>>

(* A sync that fails may have replaced some of the files. *)
SyncFails ==
  /\ sync = "writing"
  /\ sync' = "idle"
  /\ source' \in {source, source + 1}
  /\ UNCHANGED <<synced, noticed, files, gate, active, cmd, overlap>>

(* An editor writes a file; the watcher may report it later, or drop it    *)
(* while a sync has it paused.                                             *)
Edit ==
  /\ source + (IF sync = "idle" THEN 0 ELSE 1) < MaxEdits
  /\ source' = source + 1
  /\ UNCHANGED <<synced, sync, noticed, files, gate, active, cmd, overlap>>

WatcherNotify ==
  /\ noticed < source
  /\ noticed' = source
  /\ gate' = Nothing
  /\ UNCHANGED <<source, synced, sync, files, active, cmd, overlap>>

(* planGateTTL passes: an expired record is as good as none. *)
Expire ==
  /\ gate # Nothing /\ gate' = Nothing
  /\ UNCHANGED <<edits, files, active, cmd, overlap>>

-----------------------------------------------------------------------------
Init ==
  /\ source = 0 /\ synced = 0 /\ sync = "idle" /\ noticed = 0
  /\ tfplan = Nothing /\ planJSON = Nothing
  /\ gate = Nothing
  /\ active = Nothing
  /\ cmd = [c \in Commands |->
              [pc |-> "idle", kind |-> "init", connection |-> Nothing,
               hash |-> Unhashed(c), passed |-> FALSE, syncedThen |-> 0, read |-> 0,
               used |-> Nothing, failed |-> FALSE]]
  /\ overlap = FALSE

Progress(c) ==
  \/ Consume(c) \/ CheckActive(c) \/ Register(c) \/ Launch(c) \/ LaunchFails(c) \/ Finish(c)
  \/ Export(c) \/ WritePlanJSON(c) \/ HashPlan(c) \/ RecordPlan(c)

Outside == SyncInvalidate \/ SyncWrite \/ SyncFails \/ Edit \/ WatcherNotify \/ Expire \/ Kill

Next ==
  \/ \E c \in Commands :
       \/ \E connection \in Connections :
            \/ RequestPlan(c, connection)
            \/ RequestInit(c, connection)
            \/ \E kind \in Mutating : RequestMutation(c, kind, connection)
       \/ Progress(c)
  \/ Outside

Safety == Init /\ [][Next]_vars

(* Goroutines are scheduled, and every command runs under a timeout. *)
Spec == Safety /\ \A c \in Commands : WF_vars(Progress(c))

-----------------------------------------------------------------------------
(***************************************************************************)
(* Properties.                                                             *)
(***************************************************************************)

Passed(c)  == cmd[c].passed
PlanOf(c)  == cmd[c].hash.output
Running    == {c \in Commands : cmd[c].pc = "running"}
Applied(c) == cmd[c].kind = "apply" /\ cmd[c].used # Nothing

(* A mutation passes the gate only with a plan that finished successfully  *)
(* for the same connection, and no two mutations pass with the same plan.  *)
MutationsReviewed ==
  \A c \in Commands : Passed(c) =>
    /\ cmd[PlanOf(c)].kind = "plan" /\ At(PlanOf(c), "done") /\ ~cmd[PlanOf(c)].failed
    /\ cmd[PlanOf(c)].connection = cmd[c].connection
    /\ \A d \in Commands \ {c} : Passed(d) => PlanOf(d) # PlanOf(c)

(* The directory is never blocked, nor killed in the name of, a command    *)
(* that has ended.                                                         *)
NoStaleEntry == active # Nothing => cmd[active].pc \in {"launch", "running"}

(* safe_runner.go: "prevent concurrent executions on the same project".    *)
OneExecutionPerProject == Cardinality(Running) <= 1

(* router.go: "PlanHash binds approval to the exact latest successful      *)
(* plan/preview/check artifact": what is applied is what was hashed.       *)
AppliesHashedPlan ==
  \A c \in Commands : Applied(c) => cmd[c].used = cmd[c].hash.tfplan

(* router.go: "Invalidate plan gate - code changed, previous plan is       *)
(* stale": no plan made before a finished sync passes after it.            *)
StalePlansRefused ==
  \A c \in Commands : Passed(c) => cmd[PlanOf(c)].read >= cmd[c].syncedThen

(* As long as no two requests are ever in progress at once, all three hold *)
(* and the plan JSON that was classified is that of the applied plan.      *)
SerialUseIsSafe ==
  ~overlap => /\ OneExecutionPerProject /\ AppliesHashedPlan /\ StalePlansRefused
              /\ \A c \in Commands : Applied(c) =>
                   cmd[c].used = PlanOf(c) /\ cmd[c].hash.planJSON \in {PlanOf(c), Nothing}

(* Every accepted command comes to an end. *)
Completes == \A c \in Commands : Busy(c) ~> At(c, "done")
=============================================================================
