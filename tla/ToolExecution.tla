---------------------------- MODULE ToolExecution ----------------------------
(***************************************************************************)
(* POST .../agent-runs/{id}/tool-routes/execute.  Many requests run at     *)
(* once; each passes through                                               *)
(*   - the handler, which reads the run and the tool's current risk,       *)
(*   - the attempt store, which lets one request per (run, key) execute,   *)
(*     makes identical retries wait for it and replays its outcome,        *)
(*   - the executor, which authorizes the call, writes the decision to the *)
(*     Agent Run store, checks the run once more and calls the tool,       *)
(* while users create, cancel and decide runs, clients disconnect and      *)
(* Airlock's inventory changes.  A step is what happens between two points *)
(* at which another goroutine can take a lock.                             *)
(*                                                                         *)
(* All requests are for one tool and differ in their arguments (Calls).    *)
(* A request leads at most one attempt, so the attempt carries its name.   *)
(***************************************************************************)
EXTENDS Integers, Sequences, FiniteSets, Functions

CONSTANTS
  Clients,      \* the HTTP requests of a behaviour
  Keys,         \* idempotency keys
  Calls,        \* the arguments a tool can be called with
  UserModes,    \* the modes users create runs in
  Policy,       \* the project's route policy
  Inventories,  \* what Airlock's inventory may say of the tool
  MaxEntries,   \* attemptStore.maxEntries
  NoBinding, MaxRuns, MaxCreates, MaxGates, MaxLogs

VARIABLES
  next, order, runs,  \* the Agent Run store
  airlock,            \* Airlock's inventory row of the tool
  entries,            \* attemptStore.entries: (run, key) -> the leading request
  completed,          \* attemptStore.completed: keys of finished attempts, oldest first
  attempt,            \* of each request: the state of the attempt it leads
  req,                \* of each request: where it is and what it holds
  gone                \* the requests whose context has ended

vars == <<next, order, runs, airlock, entries, completed, attempt, req, gone>>

D == INSTANCE ToolDecision WITH Scopes <- {"route"}

(* The approval binding is an HMAC of the arguments, the risk and the run. *)
Operations == Calls \X D!Risks

Store == INSTANCE AgentRuns WITH MaxPatches <- 0

ASSUME ExecutionAssumption ==
  /\ MaxEntries \in Nat \ {0} /\ MaxRuns \in Nat \ {0} /\ MaxCreates \in Nat
  /\ NoBinding \notin Operations
  /\ IsFiniteSet(Clients) /\ Keys # {} /\ Calls # {}
  /\ UserModes \subseteq Store!Mode
  /\ \A row \in Inventories : row.risk \in D!Risks

storeVars == <<next, order, runs>>
tableVars == <<entries, completed>>

Steps == {"start", "claim", "wait", "check", "authorize", "record", "consume",
          "gate", "recheck", "invoke", "calling", "publish", "done"}

Undecided == [status |-> "none", reason |-> "none"]

Request == [pc : Steps, run : Nat, mode : Store!Mode, key : Keys,
            call : Calls, risk : D!Risks, leader : Clients, decision : D!Decision \union {Undecided},
            gate : Nat, sent : BOOLEAN, err : BOOLEAN]

Key(c) == <<req[c].run, req[c].key>>
Operation(c) == <<req[c].call, req[c].risk>>

TypeOK ==
  /\ Store!TypeOK
  /\ airlock \in Inventories
  /\ DOMAIN entries \subseteq (1 .. MaxCreates) \X Keys /\ Range(entries) \subseteq Clients
  /\ completed \in Seq((1 .. MaxCreates) \X Keys)
  /\ attempt \in [Clients -> {"none", "open", "ok", "failed"}]
  /\ req \in [Clients -> Request]
  /\ gone \subseteq Clients

-----------------------------------------------------------------------------
(* agentToolExecutionRunIsActive, which validateExecutionRoute repeats.    *)
Active(id) ==
  /\ id \in Store!Live
  /\ ~runs[id].canceled /\ runs[id].status \in {"queued", "running"}
  /\ ~Store!HasPending(runs[id])

(* What EvaluateTool answers. *)
InventoryEntry ==
  [scope   |-> "route", risk |-> airlock.risk,
   verdict |-> D!DecideTool(airlock.risk, airlock.schema, airlock.allowlisted)]

ToolRequest(c) == [scope |-> "route", mode |-> req[c].mode, risk |-> req[c].risk]

Goto(c, pc)  == req' = [req EXCEPT ![c].pc = pc]
Succeed(c)   == req' = [req EXCEPT ![c].pc = "publish"]
GiveUp(c)    == req' = [req EXCEPT ![c].pc = "publish", ![c].err = TRUE]
Answer(c, err) == req' = [req EXCEPT ![c].pc = "done", ![c].err = err]

(* An approval gate of the run approved for exactly this operation. *)
MatchingGates(c) ==
  LET gates == runs[req[c].run].gates
  IN  {g \in DOMAIN gates : gates[g].status = "approved" /\ gates[g].binding = Operation(c)}

-----------------------------------------------------------------------------
(* The handler. *)

Begin(c) ==
  /\ req[c].pc = "start"
  /\ \E id \in Store!Live, key \in Keys, call \in Calls :
       req' = [req EXCEPT ![c] = [@ EXCEPT !.pc = "claim", !.run = id,
                                           !.mode = runs[id].mode, !.key = key,
                                           !.call = call, !.risk = airlock.risk]]
  /\ UNCHANGED <<storeVars, airlock, tableVars, attempt, gone>>

-----------------------------------------------------------------------------
(* attemptStore.execute, up to the callback: one locked section. *)

Released(l) == attempt[l] = "ok" /\ req[l].decision = D!ApprovalRequired

(* removeCompletedKeyLocked: the listed keys but this one. *)
Unlisted(keys, key) ==
  LET filtered[n \in 0 .. Len(keys)] ==
        IF n = 0 THEN <<>>
        ELSE IF keys[n] = key THEN filtered[n - 1]
        ELSE Append(filtered[n - 1], keys[n])
  IN  filtered[Len(keys)]

(* makeRoomLocked: drop finished attempts, oldest first, as few as needed. *)
Without(n) == DOMAIN entries \ {completed[i] : i \in 1 .. n}
Fits(n)    == Cardinality(Without(n)) < MaxEntries
Evictions  == CHOOSE n \in 0 .. Len(completed) :
                /\ Fits(n) \/ n = Len(completed)
                /\ \A m \in 0 .. (n - 1) : ~Fits(m)

Lead(c) ==
  /\ attempt' = [attempt EXCEPT ![c] = "open"]
  /\ req' = [req EXCEPT ![c].pc = "check", ![c].leader = c]

ClaimGone(c) == c \in gone /\ Answer(c, TRUE) /\ UNCHANGED <<tableVars, attempt>>

Conflict(c) ==
  /\ c \notin gone /\ Key(c) \in DOMAIN entries
  /\ req[entries[Key(c)]].call # req[c].call
  /\ Answer(c, TRUE) /\ UNCHANGED <<tableVars, attempt>>

(* Faulty variant: the calls are not compared. *)
JoinAny(c) ==
  /\ c \notin gone /\ Key(c) \in DOMAIN entries /\ ~Released(entries[Key(c)])
  /\ req' = [req EXCEPT ![c].pc = "wait", ![c].leader = entries[Key(c)]]
  /\ UNCHANGED <<tableVars, attempt>>

Join(c) ==
  /\ c \notin gone /\ Key(c) \in DOMAIN entries
  /\ req[entries[Key(c)]].call = req[c].call /\ ~Released(entries[Key(c)])
  /\ req' = [req EXCEPT ![c].pc = "wait", ![c].leader = entries[Key(c)]]
  /\ UNCHANGED <<tableVars, attempt>>

(* Faulty variant: the key stays listed as finished. *)
TakeOverListed(c) ==
  /\ c \notin gone /\ Key(c) \in DOMAIN entries
  /\ req[entries[Key(c)]].call = req[c].call /\ Released(entries[Key(c)])
  /\ entries' = [entries EXCEPT ![Key(c)] = c]
  /\ Lead(c) /\ UNCHANGED completed

TakeOver(c) ==
  /\ c \notin gone /\ Key(c) \in DOMAIN entries
  /\ req[entries[Key(c)]].call = req[c].call /\ Released(entries[Key(c)])
  /\ completed' = Unlisted(completed, Key(c))
  /\ entries' = [entries EXCEPT ![Key(c)] = c]
  /\ Lead(c)

NewAttempt(c) ==
  /\ c \notin gone /\ Key(c) \notin DOMAIN entries
  /\ completed' = SubSeq(completed, Evictions + 1, Len(completed))
  /\ LET kept == [k \in Without(Evictions) |-> entries[k]]
     IN  IF Fits(Evictions)
         THEN entries' = [k \in DOMAIN kept \union {Key(c)} |-> IF k = Key(c) THEN c ELSE kept[k]]
              /\ Lead(c)
         ELSE entries' = kept /\ Answer(c, TRUE) /\ UNCHANGED attempt

Claim(c) ==
  /\ req[c].pc = "claim"
  /\ ClaimGone(c) \/ Conflict(c) \/ Join(c) \/ TakeOver(c) \/ NewAttempt(c)
  /\ UNCHANGED <<storeVars, airlock, gone>>

(* A joined retry: the leader's outcome, or the end of its own context; a  *)
(* replay is answered with the run as it is then.                          *)
Replay(c) ==
  LET l == req[c].leader IN
  /\ req[c].pc = "wait"
  /\ \/ attempt[l] = "failed" /\ Answer(c, TRUE)
     \/ attempt[l] = "ok" /\ Answer(c, req[c].run \notin Store!Live)
     \/ c \in gone /\ Answer(c, TRUE)
  /\ UNCHANGED <<storeVars, airlock, tableVars, attempt, gone>>

-----------------------------------------------------------------------------
(* The callback: requireActiveAgentToolExecutionRun, then Executor.Execute. *)

Check(c) ==
  /\ req[c].pc = "check"
  /\ IF Active(req[c].run) THEN Goto(c, "authorize") ELSE GiveUp(c)
  /\ UNCHANGED <<storeVars, airlock, tableVars, attempt, gone>>

(* Authorizer.Authorize; the policy store or Airlock may fail to answer. *)
Authorize(c) ==
  /\ req[c].pc = "authorize"
  /\ IF c \in gone THEN GiveUp(c)
     ELSE \E policies \in SUBSET {Policy}, found \in SUBSET {InventoryEntry} :
            req' = [req EXCEPT ![c].pc = "record",
                      ![c].decision = D!Authorize(ToolRequest(c), policies, found)]
  /\ UNCHANGED <<storeVars, airlock, tableVars, attempt, gone>>

(* RunRecorder.record of a denial: the run fails. *)
RecordDenied(c) ==
  /\ req[c].decision.status = "denied"
  /\ IF Store!Open(req[c].run) /\ D!RecorderAccepts(ToolRequest(c), req[c].decision)
     THEN Store!Fail(req[c].run) /\ Succeed(c)
     ELSE GiveUp(c) /\ UNCHANGED storeVars

(* Faulty variant: a read is not written down. *)
RecordAllowedSilently(c) ==
  /\ req[c].decision.status = "allowed"
  /\ IF Store!Open(req[c].run) /\ ~Store!Waits(runs[req[c].run])
     THEN Goto(c, "recheck") ELSE GiveUp(c)
  /\ UNCHANGED storeVars

(* RunRecorder.record of an authorization that needs no approval. *)
RecordAllowed(c) ==
  /\ req[c].decision.status = "allowed"
  /\ IF /\ Store!Open(req[c].run) /\ ~Store!Waits(runs[req[c].run])
        /\ D!RecorderAccepts(ToolRequest(c), req[c].decision)
     THEN Store!AddLogIfNoPendingApprovals(req[c].run) /\ Goto(c, "recheck")
     ELSE GiveUp(c) /\ UNCHANGED storeVars

(* RecordApprovedToolCall reads the run and looks for an approved gate. *)
FindApproval(c) ==
  /\ req[c].decision.status = "approval_required"
  /\ IF req[c].run \notin Store!Live THEN GiveUp(c)
     ELSE IF MatchingGates(c) = {} THEN Goto(c, "gate")
     ELSE req' = [req EXCEPT ![c].pc = "consume",
                    ![c].gate = CHOOSE g \in MatchingGates(c) :
                                  \A h \in MatchingGates(c) : g <= h]
  /\ UNCHANGED storeVars

Record(c) ==
  /\ req[c].pc = "record"
  /\ RecordDenied(c) \/ RecordAllowed(c) \/ FindApproval(c)
  /\ UNCHANGED <<airlock, tableVars, attempt, gone>>

(* RecordApprovedToolCall spends the gate it found. *)
Consume(c) ==
  LET id == req[c].run IN
  /\ req[c].pc = "consume"
  /\ IF Store!Open(id) /\ ~Store!Waits(runs[id]) /\ Store!Spendable(runs[id], req[c].gate)
     THEN /\ Store!ConsumeApprovalBinding(id, req[c].gate)
          /\ req' = [req EXCEPT ![c].pc = "recheck", ![c].decision = D!Allowed]
     ELSE GiveUp(c) /\ UNCHANGED storeVars
  /\ UNCHANGED <<airlock, tableVars, attempt, gone>>

(* RecordBoundApproval asks for an approval of this operation. *)
OpenGate(c) ==
  LET id == req[c].run IN
  /\ req[c].pc = "gate"
  /\ IF Store!Open(id)
     THEN /\ Store!AddApproval(id, Operation(c))
          /\ req' = [req EXCEPT ![c].pc = "publish", ![c].gate = Len(runs[id].gates) + 1]
     ELSE GiveUp(c) /\ UNCHANGED storeVars
  /\ UNCHANGED <<airlock, tableVars, attempt, gone>>

Recheck(c) ==
  /\ req[c].pc = "recheck"
  /\ IF c \notin gone /\ Active(req[c].run) THEN Goto(c, "invoke") ELSE GiveUp(c)
  /\ UNCHANGED <<storeVars, airlock, tableVars, attempt, gone>>

(* The tool process gets the call, or could not be launched. *)
Invoke(c) ==
  /\ req[c].pc = "invoke"
  /\ \/ req' = [req EXCEPT ![c].pc = "calling", ![c].sent = TRUE]
     \/ GiveUp(c)
  /\ UNCHANGED <<storeVars, airlock, tableVars, attempt, gone>>

(* The call returns, fails, panics or outlives its context. *)
Return(c) ==
  /\ req[c].pc = "calling"
  /\ GiveUp(c) \/ (c \notin gone /\ Succeed(c))
  /\ UNCHANGED <<storeVars, airlock, tableVars, attempt, gone>>

(* Faulty variant: a failed attempt is never closed. *)
PublishUnlessFailed(c) ==
  /\ req[c].pc = "publish"
  /\ attempt' = [attempt EXCEPT ![c] = IF req[c].err THEN @ ELSE "ok"]
  /\ IF req[c].err
     THEN entries' = [k \in DOMAIN entries \ {Key(c)} |-> entries[k]] /\ UNCHANGED completed
     ELSE completed' = Append(completed, Key(c)) /\ UNCHANGED entries
  /\ Goto(c, "done")
  /\ UNCHANGED <<storeVars, airlock, gone>>

(* attemptStore.execute, after the callback: one locked section. *)
Publish(c) ==
  /\ req[c].pc = "publish"
  /\ attempt' = [attempt EXCEPT ![c] = IF req[c].err THEN "failed" ELSE "ok"]
  /\ IF req[c].err
     THEN entries' = [k \in DOMAIN entries \ {Key(c)} |-> entries[k]] /\ UNCHANGED completed
     ELSE completed' = Append(completed, Key(c)) /\ UNCHANGED entries
  /\ Goto(c, "done")
  /\ UNCHANGED <<storeVars, airlock, gone>>

Step(c) ==
  \/ Claim(c) \/ Replay(c) \/ Check(c) \/ Authorize(c) \/ Record(c) \/ Consume(c)
  \/ OpenGate(c) \/ Recheck(c) \/ Invoke(c) \/ Return(c) \/ Publish(c)

-----------------------------------------------------------------------------
(* What the rest of the program and its users do meanwhile. *)

UserStep ==
  /\ \/ \E mode \in UserModes : Store!Create(mode)
     \/ \E id \in Store!Live : Store!Cancel(id) \/ Store!Decide(id)
  /\ UNCHANGED <<airlock, tableVars, attempt, req, gone>>

Disconnect(c) ==
  /\ c \notin gone /\ req[c].pc \notin {"start", "done"}
  /\ gone' = gone \union {c}
  /\ UNCHANGED <<storeVars, airlock, tableVars, attempt, req>>

ChangeInventory ==
  /\ airlock' \in Inventories
  /\ UNCHANGED <<storeVars, tableVars, attempt, req, gone>>

Blank(c) == [pc |-> "start", run |-> 0, mode |-> "read_only", key |-> CHOOSE k \in Keys : TRUE,
          call |-> CHOOSE a \in Calls : TRUE, risk |-> "unknown",
          leader |-> c, decision |-> Undecided, gate |-> 0, sent |-> FALSE, err |-> FALSE]

Init ==
  /\ Store!Init
  /\ airlock \in Inventories
  /\ entries = <<>> /\ completed = <<>>
  /\ attempt = [c \in Clients |-> "none"]
  /\ req = [c \in Clients |-> Blank(c)]
  /\ gone = {}

Next ==
  \/ \E c \in Clients : Begin(c) \/ Step(c) \/ Disconnect(c)
  \/ UserStep
  \/ ChangeInventory

Safety == Init /\ [][Next]_vars

(* A handler that has started runs on: its goroutine is scheduled, and     *)
(* every call of a tool is bounded by the invoker's timeout.               *)
Spec == Safety /\ \A c \in Clients : WF_vars(Step(c))

-----------------------------------------------------------------------------
(***************************************************************************)
(* Properties.                                                             *)
(***************************************************************************)

InFlight(c) == attempt[c] = "open"
Finished(l) == attempt[l] = "ok"

(* Every attempt that is running holds its key, every other entry is a     *)
(* finished one listed for eviction exactly once, and the table keeps its  *)
(* limit: eviction, takeover and failure never lose or leak an entry.      *)
EntriesAccounted ==
  /\ \A c \in Clients : InFlight(c) => Key(c) \in DOMAIN entries /\ entries[Key(c)] = c
  /\ \A k \in DOMAIN entries : Finished(entries[k]) \/ InFlight(entries[k])
  /\ {k \in DOMAIN entries : Finished(entries[k])} = Range(completed)
  /\ IsInjective(completed)
  /\ Cardinality(DOMAIN entries) <= MaxEntries

(* A request that joined another one's attempt asked for the very same     *)
(* call of the same run.                                                   *)
RetriesMatch ==
  \A c \in Clients :
    LET l == req[c].leader
    IN  l # c => Key(l) = Key(c) /\ req[l].call = req[c].call /\ attempt[l] # "none"

(* Whoever called the tool for anything but a reviewed read spent a gate   *)
(* that was opened for exactly that call at that risk, that a user         *)
(* approved, and that nobody else spent.                                   *)
Asked(o, c) ==
  /\ req[o].run = req[c].run /\ req[o].gate = req[c].gate /\ Operation(o) = Operation(c)
  /\ req[o].decision = D!ApprovalRequired /\ ~req[o].err /\ req[o].pc \in {"publish", "done"}

CallsApproved ==
  \A c \in Clients : req[c].sent /\ (req[c].risk # "read_only" \/ req[c].gate # 0) =>
    /\ \E o \in Clients : Asked(o, c)
    /\ req[c].run \in Store!Live => runs[req[c].run].gates[req[c].gate].status = "approved"
    /\ \A d \in Clients \ {c} :
         req[d].sent => <<req[d].run, req[d].gate>> # <<req[c].run, req[c].gate>>

(* Every call of the tool has an audit entry of its own, and a mode that   *)
(* forbids the risk never reaches the tool.                                *)
CallsFor(id, g) == {c \in Clients : req[c].sent /\ req[c].run = id /\ req[c].gate = g}

CallsAudited ==
  /\ \A id \in Store!Live : \A g \in 0 .. Len(runs[id].gates) :
       Cardinality(CallsFor(id, g)) <= Cardinality(Store!LogsOf(runs[id], "allowed", g))
  /\ \A c \in Clients : req[c].sent => D!ModeAllowsRisk(req[c].mode, req[c].risk)

(* Under the operations that are served, an open run says it waits exactly *)
(* when one of its gates is undecided: it is never stuck waiting.          *)
WaitingIffPending ==
  \A id \in Store!Live : Store!Open(id) =>
    (runs[id].status = "waiting_approval" <=> Store!HasPending(runs[id]))

(* Every request is answered, whoever else fails, hangs up or panics. *)
Answered == \A c \in Clients : req[c].pc = "claim" ~> req[c].pc = "done"
=============================================================================
