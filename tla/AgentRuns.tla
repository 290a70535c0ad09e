------------------------------ MODULE AgentRuns ------------------------------
(***************************************************************************)
(* agentruns.Store: the in-memory store of Agent Runs.  Every exported     *)
(* method holds the store's mutex from its first read to its last write,   *)
(* so a method is one action; a call that returns an error changes nothing *)
(* and is a stuttering step.                                               *)
(*                                                                         *)
(* Prompts, summaries, diffs, paths, times and redaction are left out.  A  *)
(* log entry keeps what it records and, for gate decisions and spent       *)
(* approvals, the gate it is about.                                        *)
(***************************************************************************)
EXTENDS Integers, Sequences

CONSTANTS
  Operations,   \* the exact tool operations an approval can be bound to
  NoBinding,    \* the empty OperationBinding
  MaxRuns,      \* Store.maxRuns: how many runs are remembered
  MaxCreates,   \* bound: runs ever created
  MaxGates,     \* bound: approval gates of one run
  MaxLogs,      \* bound: log entries at which the free-text logs stop
  MaxPatches    \* bound: patches of one run

ASSUME StoreAssumption ==
  /\ MaxRuns \in Nat \ {0}
  /\ NoBinding \notin Operations

Mode         == {"read_only", "propose_only", "approved_execute"}
Status       == {"queued", "running", "waiting_approval",
                 "completed", "failed", "canceled"}
Terminal     == {"completed", "failed", "canceled"}
GateStatus   == {"pending", "approved", "rejected"}
Binding      == Operations \union {NoBinding}
Gate         == [status : GateStatus, binding : Binding]

(* "allowed" with gate 0 is the audit record of a route that needed no     *)
(* approval; with gate g, of the execution that spent gate g.              *)
LogEntry     == [what : {"message", "allowed", "approved", "rejected",
                         "canceled", "failed"},
                 gate : Nat]

Run == [mode : Mode, status : Status, canceled : BOOLEAN,
        error : {"none", "failed", "gate_rejected"},
        started : BOOLEAN, completed : BOOLEAN,
        logs : Seq(LogEntry), patches : Nat, gates : Seq(Gate)]

VARIABLES
  next,    \* Store.next, the last identifier handed out
  order,   \* Store.order, the remembered runs, oldest first
  runs     \* Store.runs

storeVars == <<next, order, runs>>

Live == {order[i] : i \in DOMAIN order}

TypeOK ==
  /\ next \in Nat
  /\ order \in Seq(Nat)
  /\ runs \in [Live -> Run]

-----------------------------------------------------------------------------
(* What each method does to the run it finds.                              *)

NewRun(mode) ==
  [mode |-> mode, status |-> "queued", canceled |-> FALSE, error |-> "none",
   started |-> FALSE, completed |-> FALSE,
   logs |-> <<>>, patches |-> 0, gates |-> <<>>]

IsTerminal(run) == run.status \in Terminal

HasPending(run) == \E g \in DOMAIN run.gates : run.gates[g].status = "pending"

(* The two ways the store sees that a run waits for a decision. *)
Waits(run) == run.status = "waiting_approval" \/ HasPending(run)

Logged(run, what, gate) ==
  [run EXCEPT !.logs = Append(@, [what |-> what, gate |-> gate])]

WithStatus(run, status) ==
  [run EXCEPT !.status    = status,
              !.started   = @ \/ status = "running",
              !.canceled  = @ \/ status = "canceled",
              !.completed = @ \/ status \in Terminal]

Canceled(run) ==
  Logged([run EXCEPT !.canceled = TRUE, !.status = "canceled", !.completed = TRUE],
         "canceled", 0)

Failed(run) ==
  Logged([run EXCEPT !.status = "failed", !.error = "failed", !.completed = TRUE],
         "failed", 0)

(* Faulty variant: the new gate has no status. *)
WithGateNoStatus(run, binding) ==
  [run EXCEPT !.gates  = Append(@, [status |-> "", binding |-> binding]),
              !.status = "waiting_approval"]

WithGate(run, binding) ==
  [run EXCEPT !.gates  = Append(@, [status |-> "pending", binding |-> binding]),
              !.status = "waiting_approval"]

WithDecision(run, g, decision) == [run EXCEPT !.gates[g].status = decision]

Decided(run, g, decision) == Logged(WithDecision(run, g, decision), decision, g)

(* Faulty variant: any approval lets the run go on. *)
ApprovedEarly(run, g) ==
  [Decided(run, g, "approved") EXCEPT !.status = "running", !.started = TRUE]

(* The last approval lets a waiting run go on. *)
Approved(run, g) ==
  LET decided == Decided(run, g, "approved")
  IN  IF decided.status = "waiting_approval" /\ ~HasPending(decided)
      THEN [decided EXCEPT !.status = "running", !.started = TRUE]
      ELSE decided

Rejected(run, g) ==
  [Decided(run, g, "rejected")
     EXCEPT !.status = "failed", !.error = "gate_rejected", !.completed = TRUE]

Unbound(run, g) == [run EXCEPT !.gates[g].binding = NoBinding]

(* Faulty variant: the gate keeps its binding. *)
SpentStillBound(run, g) == Logged(run, "allowed", g)

Spent(run, g) == Logged(Unbound(run, g), "allowed", g)

(* A gate whose approval can still authorize an execution. *)
Spendable(run, g) ==
  /\ run.gates[g].status = "approved"
  /\ run.gates[g].binding # NoBinding

-----------------------------------------------------------------------------
(* Store.update: the run exists and the mutation returned no error. *)
Update(id, run) ==
  /\ runs' = [runs EXCEPT ![id] = run]
  /\ UNCHANGED <<next, order>>

Open(id) == id \in Live /\ ~IsTerminal(runs[id])

(* Faulty variant: the newest run is dropped. *)
EvictedNewest(ids) == IF Len(ids) > MaxRuns THEN SubSeq(ids, 1, MaxRuns) ELSE ids

(* evictLocked: drop the oldest runs beyond the limit. *)
Evicted(ids) ==
  IF Len(ids) > MaxRuns THEN SubSeq(ids, Len(ids) - MaxRuns + 1, Len(ids)) ELSE ids

Create(mode) ==
  /\ next < MaxCreates
  /\ next' = next + 1
  /\ order' = Evicted(Append(order, next + 1))
  /\ runs' = [id \in Live' |-> IF id = next + 1 THEN NewRun(mode) ELSE runs[id]]

(* Faulty variant: a closed run can be reopened. *)
SetStatusAnytime(id, status) ==
  /\ id \in Live
  /\ Update(id, WithStatus(runs[id], status))

SetStatus(id, status) ==
  /\ Open(id)
  /\ Update(id, WithStatus(runs[id], status))

Cancel(id) ==
  /\ Open(id)
  /\ Update(id, Canceled(runs[id]))

Fail(id) ==
  /\ Open(id)
  /\ Update(id, Failed(runs[id]))

AddLog(id) ==
  /\ Open(id) /\ Len(runs[id].logs) < MaxLogs
  /\ Update(id, Logged(runs[id], "message", 0))

AddLogIfNoPendingApprovals(id) ==
  /\ Open(id) /\ Len(runs[id].logs) < MaxLogs
  /\ ~Waits(runs[id])
  /\ Update(id, Logged(runs[id], "allowed", 0))

AddPatch(id) ==
  /\ Open(id) /\ runs[id].patches < MaxPatches
  /\ Update(id, [runs[id] EXCEPT !.patches = @ + 1])

AddApproval(id, binding) ==
  /\ Open(id) /\ Len(runs[id].gates) < MaxGates
  /\ Update(id, WithGate(runs[id], binding))

DecideApproval(id, g, decision) ==
  /\ Open(id)
  /\ g \in DOMAIN runs[id].gates /\ runs[id].gates[g].status = "pending"
  /\ Update(id, IF decision = "approved" THEN Approved(runs[id], g)
                                         ELSE Rejected(runs[id], g))

(* Faulty variant: spends while another gate is undecided. *)
ConsumeWhileWaiting(id, g) ==
  /\ Open(id)
  /\ g \in DOMAIN runs[id].gates /\ Spendable(runs[id], g)
  /\ Update(id, Spent(runs[id], g))

ConsumeApprovalBinding(id, g) ==
  /\ Open(id) /\ ~Waits(runs[id])
  /\ g \in DOMAIN runs[id].gates /\ Spendable(runs[id], g)
  /\ Update(id, Spent(runs[id], g))

-----------------------------------------------------------------------------
Init ==
  /\ next = 0
  /\ order = <<>>
  /\ runs = <<>>

Decide(id) ==
  \E g \in DOMAIN runs[id].gates, d \in {"approved", "rejected"} : DecideApproval(id, g, d)

Consume(id) == \E g \in DOMAIN runs[id].gates : ConsumeApprovalBinding(id, g)

Next ==
  \/ \E mode \in Mode : Create(mode)
  \/ \E id \in Live :
       \/ \E status \in Status : SetStatus(id, status)
       \/ Cancel(id)
       \/ Fail(id)
       \/ AddLog(id)
       \/ AddLogIfNoPendingApprovals(id)
       \/ AddPatch(id)
       \/ \E binding \in Binding : AddApproval(id, binding)
       \/ Decide(id)
       \/ Consume(id)

Spec == Init /\ [][Next]_storeVars

-----------------------------------------------------------------------------
(***************************************************************************)
(* Properties.                                                             *)
(***************************************************************************)

LogsOf(run, what, g) == {i \in DOMAIN run.logs : run.logs[i] = [what |-> what, gate |-> g]}

(* A gate's decision is logged exactly once and as it was taken, and no    *)
(* entry speaks of a decision that was not taken.                          *)
DecisionsLogged(run) ==
  /\ \A g \in DOMAIN run.gates :
       run.gates[g].status # "pending" => LogsOf(run, run.gates[g].status, g) # {}
  /\ \A i \in DOMAIN run.logs :
       run.logs[i].what \in {"approved", "rejected"} =>
         /\ run.logs[i].gate \in DOMAIN run.gates
         /\ run.gates[run.logs[i].gate].status = run.logs[i].what
  /\ \A i, j \in DOMAIN run.logs :
       (run.logs[i].what \in {"approved", "rejected"} /\ run.logs[i] = run.logs[j]) => i = j

(* An execution that spent gate g is logged once, after g's approval, and  *)
(* g can authorize nothing more.                                           *)
SpendsLogged(run) ==
  \A i \in DOMAIN run.logs :
    (run.logs[i].what = "allowed" /\ run.logs[i].gate # 0) =>
      LET g == run.logs[i].gate
      IN  /\ g \in DOMAIN run.gates /\ ~Spendable(run, g)
          /\ \E j \in LogsOf(run, "approved", g) : j < i
          /\ \A j \in DOMAIN run.logs : run.logs[j] = run.logs[i] => i = j

(* The audit trail of every remembered run accounts for each decision and  *)
(* each spent approval exactly once and in the order they happened.        *)
AuditTrail == \A id \in Live : DecisionsLogged(runs[id]) /\ SpendsLogged(runs[id])

(* A rejected gate fails the run for good, whatever calls come before or   *)
(* after, and the derived fields agree with the status.                    *)
ClosesConsistently(run) ==
  /\ (\E g \in DOMAIN run.gates : run.gates[g].status = "rejected") =>
       run.status = "failed" /\ run.error = "gate_rejected"
  /\ run.completed <=> IsTerminal(run)
  /\ run.canceled <=> run.status = "canceled"

RejectionFailsRun == \A id \in Live : ClosesConsistently(runs[id])

(* The store remembers exactly the most recent runs, in creation order: an *)
(* evicted identifier never comes back.                                    *)
KeepsMostRecentRuns ==
  /\ Len(order) = IF next < MaxRuns THEN next ELSE MaxRuns
  /\ \A i \in DOMAIN order : order[i] = next - Len(order) + i

(* The store implements the approval ledger: a gate counts as spent once   *)
(* the execution that spent it is on record.                               *)
GateInLedger(run, g) ==
  IF LogsOf(run, "allowed", g) # {} THEN "spent" ELSE run.gates[g].status

Ledger == INSTANCE ApprovalLedger WITH
  last   <- next,
  ledger <- [id \in Live |-> [g \in DOMAIN runs[id].gates |-> GateInLedger(runs[id], g)]],
  closed <- {id \in Live : IsTerminal(runs[id])}

(* Each approval is decided once and spent at most once, only while its    *)
(* run is open with no gate undecided, and closed runs are frozen.         *)
ImplementsLedger == Ledger!Spec
=============================================================================
