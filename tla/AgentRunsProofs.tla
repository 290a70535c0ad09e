--------------------------- MODULE AgentRunsProofs ---------------------------
(* Proofs about the Agent Run store. *)
EXTENDS AgentRuns, SequenceTheorems, TLAPS

(* Logging keeps a run well-typed. *)
LEMMA LoggedType ==
  ASSUME NEW run \in Run, NEW gate \in Nat,
         NEW what \in {"message", "allowed", "approved", "rejected", "canceled", "failed"}
  PROVE  Logged(run, what, gate) \in Run
<1>1. Append(run.logs, [what |-> what, gate |-> gate]) \in Seq(LogEntry)
  BY DEF Run, LogEntry
<1> QED BY <1>1 DEF Logged, Run

(* So do a status change, a cancellation and a failure. *)
LEMMA StatusTypes ==
  ASSUME NEW run \in Run, NEW status \in Status
  PROVE  /\ WithStatus(run, status) \in Run
         /\ Canceled(run) \in Run
         /\ Failed(run) \in Run
<1>1. WithStatus(run, status) \in Run
  BY DEF WithStatus, Run, Status, Terminal
<1>2. [run EXCEPT !.canceled = TRUE, !.status = "canceled", !.completed = TRUE] \in Run
  BY DEF Run, Status
<1>3. [run EXCEPT !.status = "failed", !.error = "failed", !.completed = TRUE] \in Run
  BY DEF Run, Status
<1> QED BY <1>1, <1>2, <1>3, LoggedType DEF Canceled, Failed

(* So does a new approval gate. *)
LEMMA GateTypes ==
  ASSUME NEW run \in Run, NEW binding \in Binding
  PROVE  WithGate(run, binding) \in Run
<1>1. Append(run.gates, [status |-> "pending", binding |-> binding]) \in Seq(Gate)
  BY DEF Run, Gate, GateStatus
<1> QED BY <1>1 DEF WithGate, Run, Status

(* So do the two changes of one gate: its decision and its binding. *)
LEMMA GateUpdate ==
  ASSUME NEW run \in Run, NEW g \in DOMAIN run.gates
  PROVE  /\ g \in Nat
         /\ \A decision \in GateStatus : WithDecision(run, g, decision) \in Run
         /\ Unbound(run, g) \in Run
<1>1. run.gates \in Seq(Gate) /\ DOMAIN run.gates = 1 .. Len(run.gates)
  BY DEF Run
<1>2. g \in Nat /\ run.gates[g] \in Gate
  BY <1>1, ElementOfSeq
<1>3. ASSUME NEW gate \in Gate
      PROVE  [run.gates EXCEPT ![g] = gate] \in Seq(Gate)
  BY <1>1, ExceptSeq
<1>4. ASSUME NEW gates \in Seq(Gate)
      PROVE  [run EXCEPT !.gates = gates] \in Run
  BY DEF Run
<1>5. ASSUME NEW decision \in GateStatus
      PROVE  WithDecision(run, g, decision) \in Run
  <2>1. [run.gates[g] EXCEPT !.status = decision] \in Gate
    BY <1>2 DEF Gate
  <2> QED BY <2>1, <1>3, <1>4, Zenon DEF WithDecision
<1>6. Unbound(run, g) \in Run
  <2>1. [run.gates[g] EXCEPT !.binding = NoBinding] \in Gate
    BY <1>2 DEF Gate, Binding
  <2> QED BY <2>1, <1>3, <1>4, Zenon DEF Unbound
<1> QED BY <1>2, <1>5, <1>6

(* So do the decisions of a gate and the spending of its approval. *)
LEMMA DecisionTypes ==
  ASSUME NEW run \in Run, NEW g \in DOMAIN run.gates
  PROVE  /\ \A decision \in {"approved", "rejected"} : Decided(run, g, decision) \in Run
         /\ Approved(run, g) \in Run
         /\ Rejected(run, g) \in Run
         /\ Spent(run, g) \in Run
<1>1. ASSUME NEW decision \in {"approved", "rejected"}
      PROVE  Decided(run, g, decision) \in Run
  BY GateUpdate, LoggedType DEF Decided, GateStatus
<1>2. Approved(run, g) \in Run
  <2>1. Decided(run, g, "approved") \in Run
    BY <1>1
  <2>2. ASSUME NEW decided \in Run
        PROVE  [decided EXCEPT !.status = "running", !.started = TRUE] \in Run
    BY DEF Run, Status
  <2> QED BY <2>1, <2>2 DEF Approved
<1>3. Rejected(run, g) \in Run
  <2>1. Decided(run, g, "rejected") \in Run
    BY <1>1
  <2>2. ASSUME NEW decided \in Run
        PROVE  [decided EXCEPT !.status = "failed", !.error = "gate_rejected",
                               !.completed = TRUE] \in Run
    BY DEF Run, Status
  <2> QED BY <2>1, <2>2 DEF Rejected
<1>4. Spent(run, g) \in Run
  BY GateUpdate, LoggedType DEF Spent
<1> QED BY <1>1, <1>2, <1>3, <1>4

-----------------------------------------------------------------------------
(* The audit trail of one run: what each kind of change does to it.        *)

Trail(run) == DecisionsLogged(run) /\ SpendsLogged(run)

(* The audit trail depends on the gates and the log alone. *)
LEMMA TrailSame ==
  ASSUME NEW r, NEW s, s.gates = r.gates, s.logs = r.logs, Trail(r)
  PROVE  Trail(s)
BY DEF Trail, DecisionsLogged, SpendsLogged, LogsOf, Spendable

(* One more log entry. *)
LEMMA Appended ==
  ASSUME NEW logs \in Seq(LogEntry), NEW e \in LogEntry, NEW n, n = Len(logs)
  PROVE  /\ n \in Nat
         /\ DOMAIN logs = 1 .. n /\ DOMAIN Append(logs, e) = 1 .. (n + 1)
         /\ \A i \in 1 .. n : Append(logs, e)[i] = logs[i] /\ logs[i] \in LogEntry
         /\ Append(logs, e)[n + 1] = e
<1>1. /\ Append(logs, e) \in Seq(LogEntry)
      /\ Len(Append(logs, e)) = n + 1
  BY AppendProperties
<1> QED BY <1>1, AppendProperties, LenProperties, ElementOfSeq

(* An entry that is about no gate. *)
LEMMA TrailLogged ==
  ASSUME NEW r \in Run, NEW s, NEW what \in {"message", "allowed", "canceled", "failed"},
         s.gates = r.gates, s.logs = Append(r.logs, [what |-> what, gate |-> 0]), Trail(r)
  PROVE  Trail(s)
<1> DEFINE e == [what |-> what, gate |-> 0]
           n == Len(r.logs)
<1>1. r.logs \in Seq(LogEntry) /\ e \in LogEntry
  BY DEF Run, LogEntry
<1>2. /\ n \in Nat
      /\ DOMAIN r.logs = 1 .. n /\ DOMAIN s.logs = 1 .. (n + 1)
      /\ \A i \in 1 .. n : s.logs[i] = r.logs[i]
      /\ s.logs[n + 1] = e
  BY <1>1, Appended
<1>3. e.what \notin {"approved", "rejected"} /\ e.gate = 0
  OBVIOUS
<1> HIDE DEF e, n
<1>4. DecisionsLogged(s)
  BY <1>2, <1>3 DEF Trail, DecisionsLogged, LogsOf
<1>5. SpendsLogged(s)
  BY <1>2, <1>3 DEF Trail, SpendsLogged, LogsOf, Spendable
<1> QED BY <1>4, <1>5 DEF Trail

(* A new, undecided gate. *)
LEMMA TrailGate ==
  ASSUME NEW r \in Run, NEW s, NEW gate \in Gate, gate.status = "pending",
         s.gates = Append(r.gates, gate), s.logs = r.logs, Trail(r)
  PROVE  Trail(s)
<1> DEFINE n == Len(r.gates)
<1>1. r.gates \in Seq(Gate)
  BY DEF Run
<1>2. /\ n \in Nat
      /\ DOMAIN r.gates = 1 .. n /\ DOMAIN s.gates = 1 .. (n + 1)
      /\ \A g \in 1 .. n : s.gates[g] = r.gates[g]
      /\ s.gates[n + 1] = gate
  BY <1>1, AppendProperties, LenProperties
<1> HIDE DEF n
<1>3. DecisionsLogged(s)
  BY <1>2, SMTT(30) DEF Trail, DecisionsLogged, LogsOf
<1>4. SpendsLogged(s)
  BY <1>2, SMTT(30) DEF Trail, SpendsLogged, LogsOf, Spendable
<1> QED BY <1>3, <1>4 DEF Trail

(* The decision of a pending gate, with its entry. *)
LEMMA TrailDecided ==
  ASSUME NEW r \in Run, NEW s, NEW g \in DOMAIN r.gates, NEW decision \in {"approved", "rejected"},
         r.gates[g].status = "pending",
         DOMAIN s.gates = DOMAIN r.gates,
         s.gates[g].status = decision,
         \A h \in DOMAIN r.gates \ {g} : s.gates[h] = r.gates[h],
         s.logs = Append(r.logs, [what |-> decision, gate |-> g]),
         Trail(r)
  PROVE  Trail(s)
<1> DEFINE e == [what |-> decision, gate |-> g]
           n == Len(r.logs)
<1>1. r.logs \in Seq(LogEntry) /\ e \in LogEntry
  BY GateUpdate DEF Run, LogEntry
<1>2. /\ n \in Nat
      /\ DOMAIN r.logs = 1 .. n /\ DOMAIN s.logs = 1 .. (n + 1)
      /\ \A i \in 1 .. n : s.logs[i] = r.logs[i] /\ r.logs[i] \in LogEntry
      /\ s.logs[n + 1] = e
  BY <1>1, Appended
<1>3. e.what = decision /\ e.gate = g /\ e = [what |-> decision, gate |-> g]
  OBVIOUS
<1> HIDE DEF e, n
<1>4. \A i \in 1 .. n : r.logs[i].what \in {"approved", "rejected"} => r.logs[i].gate # g
  BY <1>2 DEF Trail, DecisionsLogged
<1>5. \A i \in 1 .. n : r.logs[i].what = "allowed" /\ r.logs[i].gate # 0 => r.logs[i].gate # g
  <2> SUFFICES ASSUME NEW i \in 1 .. n, r.logs[i].what = "allowed", r.logs[i].gate # 0
               PROVE  r.logs[i].gate # g
    OBVIOUS
  <2>1. PICK j \in LogsOf(r, "approved", r.logs[i].gate) : j < i
    BY <1>2 DEF Trail, SpendsLogged
  <2>2. j \in 1 .. n /\ r.logs[j].what = "approved" /\ r.logs[j].gate = r.logs[i].gate
    BY <1>2, <2>1 DEF LogsOf
  <2> QED BY <1>4, <2>2
<1>6. DecisionsLogged(s)
  <2>1. ASSUME NEW h \in DOMAIN s.gates, s.gates[h].status # "pending"
        PROVE  LogsOf(s, s.gates[h].status, h) # {}
    <3>1. CASE h = g
      BY <1>2, <1>3, <3>1 DEF LogsOf
    <3>2. CASE h # g
      BY <1>2, <2>1, <3>2 DEF Trail, DecisionsLogged, LogsOf
    <3> QED BY <3>1, <3>2
  <2>2. ASSUME NEW i \in DOMAIN s.logs, s.logs[i].what \in {"approved", "rejected"}
        PROVE  s.logs[i].gate \in DOMAIN s.gates /\ s.gates[s.logs[i].gate].status = s.logs[i].what
    BY <1>2, <1>3, <1>4, <2>2 DEF Trail, DecisionsLogged
  <2>3. ASSUME NEW i \in DOMAIN s.logs, NEW j \in DOMAIN s.logs,
               s.logs[i].what \in {"approved", "rejected"}, s.logs[i] = s.logs[j]
        PROVE  i = j
    BY <1>2, <1>3, <1>4, <2>3 DEF Trail, DecisionsLogged
  <2> QED BY <2>1, <2>2, <2>3 DEF DecisionsLogged
<1>7. SpendsLogged(s)
  <2> SUFFICES ASSUME NEW i \in DOMAIN s.logs, s.logs[i].what = "allowed", s.logs[i].gate # 0
               PROVE  /\ s.logs[i].gate \in DOMAIN s.gates /\ ~Spendable(s, s.logs[i].gate)
                      /\ \E j \in LogsOf(s, "approved", s.logs[i].gate) : j < i
                      /\ \A j \in DOMAIN s.logs : s.logs[j] = s.logs[i] => i = j
    BY DEF SpendsLogged
  <2>1. i \in 1 .. n /\ s.logs[i] = r.logs[i] /\ r.logs[i].gate # g
    BY <1>2, <1>3, <1>5
  <2>2. /\ r.logs[i].gate \in DOMAIN r.gates /\ ~Spendable(r, r.logs[i].gate)
        /\ \E j \in LogsOf(r, "approved", r.logs[i].gate) : j < i
        /\ \A j \in DOMAIN r.logs : r.logs[j] = r.logs[i] => i = j
    BY <1>2, <2>1 DEF Trail, SpendsLogged
  <2>3. ~Spendable(s, s.logs[i].gate)
    BY <2>1, <2>2 DEF Spendable
  <2>4. \E j \in LogsOf(s, "approved", s.logs[i].gate) : j < i
    BY <1>2, <2>1, <2>2 DEF LogsOf
  <2>5. \A j \in DOMAIN s.logs : s.logs[j] = s.logs[i] => i = j
    BY <1>2, <1>3, <2>1, <2>2
  <2> QED BY <2>1, <2>2, <2>3, <2>4, <2>5
<1> QED BY <1>6, <1>7 DEF Trail

(* The spending of an approved gate, with its entry. *)
LEMMA TrailSpent ==
  ASSUME NEW r \in Run, NEW s, NEW g \in DOMAIN r.gates, Spendable(r, g),
         DOMAIN s.gates = DOMAIN r.gates,
         s.gates[g].status = "approved", s.gates[g].binding = NoBinding,
         \A h \in DOMAIN r.gates \ {g} : s.gates[h] = r.gates[h],
         s.logs = Append(r.logs, [what |-> "allowed", gate |-> g]),
         Trail(r)
  PROVE  Trail(s)
<1> DEFINE e == [what |-> "allowed", gate |-> g]
           n == Len(r.logs)
<1>1. r.logs \in Seq(LogEntry) /\ e \in LogEntry
  BY GateUpdate DEF Run, LogEntry
<1>2. /\ n \in Nat
      /\ DOMAIN r.logs = 1 .. n /\ DOMAIN s.logs = 1 .. (n + 1)
      /\ \A i \in 1 .. n : s.logs[i] = r.logs[i] /\ r.logs[i] \in LogEntry
      /\ s.logs[n + 1] = e
  BY <1>1, Appended
<1>3. e.what = "allowed" /\ e.gate = g /\ e \in LogEntry
  BY <1>1
<1> HIDE DEF e, n
<1>4. r.gates[g].status = "approved"
  BY DEF Spendable
<1>5. DecisionsLogged(s)
  BY <1>2, <1>3, <1>4 DEF Trail, DecisionsLogged, LogsOf
<1>6. \A i \in 1 .. n : r.logs[i].what = "allowed" /\ r.logs[i].gate # 0 => r.logs[i].gate # g
  BY <1>2 DEF Trail, SpendsLogged
<1>7. SpendsLogged(s)
  <2> SUFFICES ASSUME NEW i \in DOMAIN s.logs, s.logs[i].what = "allowed", s.logs[i].gate # 0
               PROVE  /\ s.logs[i].gate \in DOMAIN s.gates /\ ~Spendable(s, s.logs[i].gate)
                      /\ \E j \in LogsOf(s, "approved", s.logs[i].gate) : j < i
                      /\ \A j \in DOMAIN s.logs : s.logs[j] = s.logs[i] => i = j
    BY DEF SpendsLogged
  <2>1. CASE i = n + 1
    <3>1. LogsOf(r, "approved", g) # {}
      BY <1>4 DEF Trail, DecisionsLogged
    <3>2. \E j \in LogsOf(s, "approved", g) : j < i
      BY <1>2, <2>1, <3>1 DEF LogsOf
    <3>3. \A j \in DOMAIN s.logs : s.logs[j] = s.logs[i] => i = j
      BY <1>2, <1>3, <1>6, <2>1
    <3>4. ~Spendable(s, g)
      BY DEF Spendable
    <3> QED BY <1>2, <1>3, <2>1, <3>2, <3>3, <3>4
  <2>2. CASE i \in 1 .. n
    <3>1. /\ r.logs[i].gate \in DOMAIN r.gates /\ ~Spendable(r, r.logs[i].gate)
          /\ \E j \in LogsOf(r, "approved", r.logs[i].gate) : j < i
          /\ \A j \in DOMAIN r.logs : r.logs[j] = r.logs[i] => i = j
      BY <1>2, <2>2 DEF Trail, SpendsLogged
    <3>2. s.logs[i] = r.logs[i] /\ r.logs[i].gate # g
      BY <1>2, <1>6, <2>2
    <3>3. ~Spendable(s, s.logs[i].gate)
      BY <3>1, <3>2 DEF Spendable
    <3>4. \E j \in LogsOf(s, "approved", s.logs[i].gate) : j < i
      BY <1>2, <2>2, <3>1, <3>2 DEF LogsOf
    <3>5. \A j \in DOMAIN s.logs : s.logs[j] = s.logs[i] => i = j
      BY <1>2, <1>3, <2>2, <3>1, <3>2
    <3> QED BY <3>1, <3>2, <3>3, <3>4, <3>5
  <2> QED BY <1>2, <2>1, <2>2
<1> QED BY <1>5, <1>7 DEF Trail

-----------------------------------------------------------------------------
(* What an operation on an open run keeps true of it.                      *)

SafeRun(run) == ClosesConsistently(run) /\ Trail(run)

(* An open run has no rejected gate. *)
LEMMA OpenRun ==
  ASSUME NEW run \in Run, SafeRun(run), ~IsTerminal(run)
  PROVE  /\ \A g \in DOMAIN run.gates : run.gates[g].status # "rejected"
         /\ run.completed = FALSE /\ run.canceled = FALSE
BY DEF SafeRun, ClosesConsistently, IsTerminal, Terminal, Run

(* A new run is well-typed and safe. *)
LEMMA NewRunSafe ==
  ASSUME NEW mode \in Mode
  PROVE  NewRun(mode) \in Run /\ SafeRun(NewRun(mode))
<1>1. NewRun(mode) \in Run
  BY DEF NewRun, Run, Status
<1>2. /\ NewRun(mode).gates = <<>> /\ NewRun(mode).logs = <<>>
      /\ NewRun(mode).completed = FALSE /\ NewRun(mode).canceled = FALSE
      /\ NewRun(mode).status = "queued"
  BY DEF NewRun
<1>3. DOMAIN <<>> = {}
  OBVIOUS
<1>4. ClosesConsistently(NewRun(mode))
  BY <1>2, <1>3 DEF ClosesConsistently, IsTerminal, Terminal
<1>5. Trail(NewRun(mode))
  BY <1>2, <1>3 DEF Trail, DecisionsLogged, SpendsLogged
<1> QED BY <1>1, <1>4, <1>5 DEF SafeRun

(* Status changes, cancellation and failure keep an open run safe. *)
LEMMA StatusSafe ==
  ASSUME NEW run \in Run, SafeRun(run), ~IsTerminal(run), NEW status \in Status
  PROVE  SafeRun(WithStatus(run, status)) /\ SafeRun(Canceled(run)) /\ SafeRun(Failed(run))
<1>1. SafeRun(WithStatus(run, status))
  <2> DEFINE s == WithStatus(run, status)
  <2>1. /\ s.gates = run.gates /\ s.logs = run.logs /\ s.status = status
        /\ s.canceled = (run.canceled \/ status = "canceled")
        /\ s.completed = (run.completed \/ status \in Terminal)
    BY DEF WithStatus, Run
  <2> HIDE DEF s
  <2>2. Trail(s)
    BY <2>1, TrailSame DEF SafeRun
  <2>3. ClosesConsistently(s)
    BY <2>1, OpenRun DEF ClosesConsistently, IsTerminal
  <2>4. SafeRun(s)
    BY <2>2, <2>3 DEF SafeRun
  <2> QED BY <2>4 DEF s
<1>2. SafeRun(Canceled(run))
  <2> DEFINE s == Canceled(run)
  <2>1. /\ s.gates = run.gates /\ s.status = "canceled"
        /\ s.logs = Append(run.logs, [what |-> "canceled", gate |-> 0])
        /\ s.canceled = TRUE /\ s.completed = TRUE
    BY DEF Canceled, Logged, Run
  <2> HIDE DEF s
  <2>2. Trail(s)
    BY <2>1, TrailLogged DEF SafeRun
  <2>3. ClosesConsistently(s)
    BY <2>1, OpenRun DEF ClosesConsistently, IsTerminal, Terminal
  <2>4. SafeRun(s)
    BY <2>2, <2>3 DEF SafeRun
  <2> QED BY <2>4 DEF s
<1>3. SafeRun(Failed(run))
  <2> DEFINE s == Failed(run)
  <2>1. /\ s.gates = run.gates /\ s.status = "failed"
        /\ s.logs = Append(run.logs, [what |-> "failed", gate |-> 0])
        /\ s.canceled = run.canceled /\ s.completed = TRUE
    BY DEF Failed, Logged, Run
  <2> HIDE DEF s
  <2>2. Trail(s)
    BY <2>1, TrailLogged DEF SafeRun
  <2>3. ClosesConsistently(s)
    BY <2>1, OpenRun DEF ClosesConsistently, IsTerminal, Terminal
  <2>4. SafeRun(s)
    BY <2>2, <2>3 DEF SafeRun
  <2> QED BY <2>4 DEF s
<1> QED BY <1>1, <1>2, <1>3

(* So does a log entry that is about no gate. *)
LEMMA LogSafe ==
  ASSUME NEW run \in Run, SafeRun(run), NEW what \in {"message", "allowed"}
  PROVE  SafeRun(Logged(run, what, 0))
<1> DEFINE s == Logged(run, what, 0)
<1>1. /\ s.gates = run.gates /\ s.status = run.status /\ s.error = run.error
      /\ s.logs = Append(run.logs, [what |-> what, gate |-> 0])
      /\ s.canceled = run.canceled /\ s.completed = run.completed
  BY DEF Logged, Run
<1> HIDE DEF s
<1>2. Trail(s)
  BY <1>1, TrailLogged DEF SafeRun
<1>3. ClosesConsistently(s)
  BY <1>1 DEF SafeRun, ClosesConsistently, IsTerminal
<1>4. SafeRun(s)
  BY <1>2, <1>3 DEF SafeRun
<1> QED BY <1>4 DEF s

(* So does a patch. *)
LEMMA PatchSafe ==
  ASSUME NEW run \in Run, SafeRun(run)
  PROVE  /\ [run EXCEPT !.patches = @ + 1] \in Run
         /\ SafeRun([run EXCEPT !.patches = @ + 1])
<1> DEFINE s == [run EXCEPT !.patches = @ + 1]
<1>1. s \in Run
  BY DEF Run
<1>2. /\ s.gates = run.gates /\ s.logs = run.logs /\ s.status = run.status
      /\ s.error = run.error /\ s.canceled = run.canceled /\ s.completed = run.completed
  BY DEF Run
<1> HIDE DEF s
<1>3. Trail(s)
  BY <1>2, TrailSame DEF SafeRun
<1>4. ClosesConsistently(s)
  BY <1>2 DEF SafeRun, ClosesConsistently, IsTerminal
<1>5. s \in Run /\ SafeRun(s)
  BY <1>1, <1>3, <1>4 DEF SafeRun
<1> QED BY <1>5 DEF s

(* So does a new gate, which sends the run back to waiting. *)
LEMMA GateSafe ==
  ASSUME NEW run \in Run, SafeRun(run), ~IsTerminal(run), NEW binding \in Binding
  PROVE  SafeRun(WithGate(run, binding))
<1> DEFINE s == WithGate(run, binding)
           gate == [status |-> "pending", binding |-> binding]
<1>1. /\ s.gates = Append(run.gates, gate) /\ s.status = "waiting_approval"
      /\ s.logs = run.logs /\ s.canceled = run.canceled /\ s.completed = run.completed
  BY DEF WithGate, Run
<1>2. gate \in Gate /\ gate.status = "pending"
  BY DEF Gate, GateStatus
<1> HIDE DEF s, gate
<1>3. Trail(s)
  BY <1>1, <1>2, TrailGate DEF SafeRun
<1>4. \A g \in DOMAIN s.gates : s.gates[g].status # "rejected"
  <2> DEFINE n == Len(run.gates)
  <2>1. run.gates \in Seq(Gate)
    BY DEF Run
  <2>2. /\ n \in Nat
        /\ DOMAIN run.gates = 1 .. n /\ DOMAIN s.gates = 1 .. (n + 1)
        /\ \A g \in 1 .. n : s.gates[g] = run.gates[g]
        /\ s.gates[n + 1] = gate
    BY <1>1, <1>2, <2>1, AppendProperties, LenProperties
  <2> HIDE DEF n
  <2>3. \A g \in 1 .. n : run.gates[g].status # "rejected"
    BY <2>2, OpenRun
  <2>4. s.gates[n + 1].status = "pending"
    BY <1>2, <2>2
  <2>5. ASSUME NEW g \in 1 .. (n + 1)
        PROVE  s.gates[g].status # "rejected"
    <3>1. CASE g = n + 1
      BY <2>4, <3>1
    <3>2. CASE g # n + 1
      <4>1. g \in 1 .. n
        BY <2>2, <3>2
      <4> QED BY <2>2, <2>3, <4>1
    <3> QED BY <3>1, <3>2
  <2> QED BY <2>2, <2>5
<1>5. ClosesConsistently(s)
  BY <1>1, <1>4, OpenRun DEF ClosesConsistently, IsTerminal, Terminal
<1>6. SafeRun(s)
  BY <1>3, <1>5 DEF SafeRun
<1> QED BY <1>6 DEF s

(* A decision and a spending change nothing but their gate. *)
OnlyGate(s, run, g) ==
  /\ s.logs = run.logs /\ s.status = run.status /\ s.error = run.error
  /\ s.canceled = run.canceled /\ s.completed = run.completed
  /\ DOMAIN s.gates = DOMAIN run.gates
  /\ \A h \in DOMAIN run.gates \ {g} : s.gates[h] = run.gates[h]

(* Replacing one gate of a run changes nothing else of it. *)
LEMMA GateReplaced ==
  ASSUME NEW run \in Run, NEW g \in DOMAIN run.gates, NEW gate,
         NEW s, s = [run EXCEPT !.gates = [run.gates EXCEPT ![g] = gate]]
  PROVE  OnlyGate(s, run, g) /\ s.gates[g] = gate
BY DEF Run, OnlyGate

(* A decision changes one gate's status and nothing else. *)
LEMMA DecisionFields ==
  ASSUME NEW run \in Run, NEW g \in DOMAIN run.gates, NEW decision
  PROVE  /\ OnlyGate(WithDecision(run, g, decision), run, g)
         /\ WithDecision(run, g, decision).gates[g].status = decision
<1> DEFINE gate == [run.gates[g] EXCEPT !.status = decision]
<1>1. WithDecision(run, g, decision) = [run EXCEPT !.gates = [run.gates EXCEPT ![g] = gate]]
  BY Zenon DEF WithDecision
<1>2. run.gates[g] \in Gate
  BY ElementOfSeq DEF Run
<1>3. gate.status = decision
  BY <1>2 DEF Gate
<1> HIDE DEF gate
<1> QED BY <1>1, <1>3, GateReplaced

(* Removing a binding changes one gate's binding and nothing else. *)
LEMMA UnboundFields ==
  ASSUME NEW run \in Run, NEW g \in DOMAIN run.gates
  PROVE  /\ OnlyGate(Unbound(run, g), run, g)
         /\ Unbound(run, g).gates[g].status = run.gates[g].status
         /\ Unbound(run, g).gates[g].binding = NoBinding
<1> DEFINE gate == [run.gates[g] EXCEPT !.binding = NoBinding]
<1>1. Unbound(run, g) = [run EXCEPT !.gates = [run.gates EXCEPT ![g] = gate]]
  BY Zenon DEF Unbound
<1>2. run.gates[g] \in Gate
  BY ElementOfSeq DEF Run
<1>3. gate.status = run.gates[g].status /\ gate.binding = NoBinding
  BY <1>2 DEF Gate
<1> HIDE DEF gate
<1> QED BY <1>1, <1>3, GateReplaced

(* Deciding a pending gate of an open run keeps the run safe. *)
LEMMA DecidedSafe ==
  ASSUME NEW run \in Run, SafeRun(run), ~IsTerminal(run),
         NEW g \in DOMAIN run.gates, run.gates[g].status = "pending"
  PROVE  SafeRun(Approved(run, g)) /\ SafeRun(Rejected(run, g))
<1>1. ASSUME NEW decision \in {"approved", "rejected"}, NEW d, d = Decided(run, g, decision)
      PROVE  /\ d \in Run /\ Trail(d)
             /\ d.status = run.status /\ d.canceled = FALSE /\ d.completed = FALSE
             /\ DOMAIN d.gates = DOMAIN run.gates
             /\ d.gates[g].status = decision
             /\ \A h \in DOMAIN run.gates \ {g} : d.gates[h].status # "rejected"
  <2> DEFINE w == WithDecision(run, g, decision)
  <2>1. w \in Run /\ OnlyGate(w, run, g) /\ w.gates[g].status = decision
    BY GateUpdate, DecisionFields DEF GateStatus
  <2>2. d \in Run
    BY <1>1, DecisionTypes
  <2>3. /\ d.logs = Append(w.logs, [what |-> decision, gate |-> g])
        /\ d.gates = w.gates /\ d.status = w.status
        /\ d.canceled = w.canceled /\ d.completed = w.completed
    BY <1>1, <2>1 DEF Decided, Logged, Run
  <2> HIDE DEF w
  <2>6. /\ DOMAIN d.gates = DOMAIN run.gates
        /\ d.gates[g].status = decision
        /\ \A h \in DOMAIN run.gates \ {g} : d.gates[h] = run.gates[h]
        /\ d.logs = Append(run.logs, [what |-> decision, gate |-> g])
    BY <2>1, <2>3 DEF OnlyGate
  <2>4. Trail(d)
    BY <2>6, TrailDecided DEF SafeRun
  <2>5. \A h \in DOMAIN run.gates : run.gates[h].status # "rejected"
    BY OpenRun
  <2> QED BY <2>1, <2>2, <2>3, <2>4, <2>5, OpenRun DEF OnlyGate
<1>2. SafeRun(Approved(run, g))
  <2> DEFINE d == Decided(run, g, "approved")
             s == Approved(run, g)
  <2>1. /\ d \in Run /\ Trail(d)
        /\ d.status = run.status /\ d.canceled = FALSE /\ d.completed = FALSE
        /\ \A h \in DOMAIN d.gates : d.gates[h].status # "rejected"
    BY <1>1
  <2>2. s = IF d.status = "waiting_approval" /\ ~HasPending(d)
            THEN [d EXCEPT !.status = "running", !.started = TRUE] ELSE d
    BY DEF Approved
  <2> HIDE DEF d, s
  <2>3. /\ s.gates = d.gates /\ s.logs = d.logs
        /\ s.canceled = FALSE /\ s.completed = FALSE
        /\ s.status \in {d.status, "running"}
    BY <2>1, <2>2 DEF Run
  <2>4. Trail(s)
    BY <2>1, <2>3, TrailSame
  <2>5. ClosesConsistently(s)
    BY <2>1, <2>3 DEF ClosesConsistently, IsTerminal, Terminal
  <2>6. SafeRun(s)
    BY <2>4, <2>5 DEF SafeRun
  <2> QED BY <2>6 DEF s
<1>3. SafeRun(Rejected(run, g))
  <2> DEFINE d == Decided(run, g, "rejected")
             s == Rejected(run, g)
  <2>1. d \in Run /\ Trail(d) /\ d.canceled = FALSE
    BY <1>1
  <2>2. s = [d EXCEPT !.status = "failed", !.error = "gate_rejected", !.completed = TRUE]
    BY DEF Rejected
  <2> HIDE DEF d, s
  <2>3. /\ s.gates = d.gates /\ s.logs = d.logs /\ s.canceled = FALSE
        /\ s.status = "failed" /\ s.error = "gate_rejected" /\ s.completed = TRUE
    BY <2>1, <2>2 DEF Run
  <2>4. Trail(s)
    BY <2>1, <2>3, TrailSame
  <2>5. ClosesConsistently(s)
    BY <2>3 DEF ClosesConsistently, IsTerminal, Terminal
  <2>6. SafeRun(s)
    BY <2>4, <2>5 DEF SafeRun
  <2> QED BY <2>6 DEF s
<1> QED BY <1>2, <1>3

(* Spending an approved gate of an open run keeps the run safe. *)
LEMMA SpentSafe ==
  ASSUME NEW run \in Run, SafeRun(run), ~IsTerminal(run),
         NEW g \in DOMAIN run.gates, Spendable(run, g)
  PROVE  SafeRun(Spent(run, g))
<1> DEFINE u == Unbound(run, g)
           s == Spent(run, g)
<1>1. u \in Run /\ OnlyGate(u, run, g) /\ u.gates[g].status = run.gates[g].status
      /\ u.gates[g].binding = NoBinding
  BY GateUpdate, UnboundFields
<1>2. /\ s.logs = Append(u.logs, [what |-> "allowed", gate |-> g])
      /\ s.gates = u.gates /\ s.status = u.status
      /\ s.canceled = u.canceled /\ s.completed = u.completed
  BY <1>1 DEF Spent, Logged, Run
<1>3. run.gates[g].status = "approved"
  BY DEF Spendable
<1> HIDE DEF u, s
<1>4. Trail(s)
  BY <1>1, <1>2, <1>3, TrailSpent DEF OnlyGate, SafeRun
<1>5. \A h \in DOMAIN s.gates : s.gates[h].status # "rejected"
  BY ZenonT(60), <1>1, <1>2, <1>3, OpenRun DEF OnlyGate
<1>6. s.status = run.status /\ s.canceled = FALSE /\ s.completed = FALSE
  BY <1>1, <1>2, OpenRun DEF OnlyGate
<1>7. ClosesConsistently(s)
  BY <1>5, <1>6 DEF ClosesConsistently, IsTerminal, Terminal, SafeRun
<1>8. SafeRun(s)
  BY <1>4, <1>7 DEF SafeRun
<1> QED BY <1>8 DEF s

-----------------------------------------------------------------------------
(* The store.  Its inductive invariant: the types, the window of remembered *)
(* runs, and for every remembered run what the operations keep true of it. *)

StoreInv == TypeOK /\ KeepsMostRecentRuns /\ \A id \in Live : SafeRun(runs[id])

(* The invariant holds of the empty store. *)
LEMMA InitInv == Init => StoreInv
<1> SUFFICES ASSUME Init PROVE StoreInv
  OBVIOUS
<1>1. Live = {}
  BY DEF Init, Live
<1>2. TypeOK
  BY <1>1 DEF Init, TypeOK
<1>3. KeepsMostRecentRuns
  BY StoreAssumption DEF Init, KeepsMostRecentRuns
<1> QED BY <1>1, <1>2, <1>3 DEF StoreInv

(* What dropping the first element of a sequence leaves. *)
LEMMA DropFirst ==
  ASSUME NEW s \in Seq(Nat), NEW m \in Nat, NEW t,
         Len(s) = m + 1, t = SubSeq(s, 2, m + 1)
  PROVE  t \in Seq(Nat) /\ Len(t) = m /\ \A i \in 1 .. m : t[i] = s[i + 1]
<1>1. 2 \in 1 .. Len(s) + 1 /\ m + 1 \in 0 .. Len(s)
  OBVIOUS
<1>2. t \in Seq(Nat)
  BY <1>1, SubSeqProperties
<1>3. Len(t) = IF 2 <= m + 1 THEN m + 1 - 2 + 1 ELSE 0
  BY <1>1, SubSeqProperties
<1>4. \A i \in 1 .. m + 1 - 2 + 1 : t[i] = s[2 + i - 1]
  BY <1>1, SubSeqProperties
<1>5. Len(t) = m
  BY <1>3
<1>6. \A i \in 1 .. m : t[i] = s[i + 1]
  <2> TAKE i \in 1 .. m
  <2>1. i \in 1 .. m + 1 - 2 + 1 /\ 2 + i - 1 = i + 1
    OBVIOUS
  <2> QED BY <1>4, <2>1
<1> QED BY <1>2, <1>5, <1>6

(* Eviction, case by case. *)
LEMMA EvictionDrops ==
  ASSUME NEW s, NEW m, m = Len(s), m > MaxRuns
  PROVE  Evicted(s) = SubSeq(s, m - MaxRuns + 1, m)
BY Zenon DEF Evicted

LEMMA EvictionKeeps ==
  ASSUME NEW s, NEW m, m = Len(s), ~(m > MaxRuns)
  PROVE  Evicted(s) = s
BY DEF Evicted

(* The identifiers of the most recent of n created runs. *)
Window(ids, n) ==
  /\ Len(ids) = IF n < MaxRuns THEN n ELSE MaxRuns
  /\ \A i \in DOMAIN ids : ids[i] = n - Len(ids) + i

(* Every identifier of new is id or one of old. *)
Extends(new, old, id) == \A i \in DOMAIN new : new[i] = id \/ \E j \in DOMAIN old : new[i] = old[j]

(* Creating a run leaves a window of the identifiers, each the new one or  *)
(* an old one.                                                             *)
LEMMA EvictedWindow ==
  ASSUME NEW n \in Nat, NEW ids \in Seq(Nat), Window(ids, n)
  PROVE  /\ Evicted(Append(ids, n + 1)) \in Seq(Nat)
         /\ Window(Evicted(Append(ids, n + 1)), n + 1)
         /\ Extends(Evicted(Append(ids, n + 1)), ids, n + 1)
<1>0. PICK len \in Nat : /\ Len(ids) = len /\ DOMAIN ids = 1 .. len
                         /\ len = IF n < MaxRuns THEN n ELSE MaxRuns
                         /\ \A i \in 1 .. len : ids[i] = n - len + i
  BY DEF Window
<1>1. PICK longer, new : longer = Append(ids, n + 1) /\ new = Evicted(longer)
  OBVIOUS
<1>2. /\ longer \in Seq(Nat) /\ Len(longer) = len + 1
      /\ DOMAIN ids = 1 .. len /\ DOMAIN longer = 1 .. (len + 1)
      /\ \A i \in 1 .. len : longer[i] = ids[i]
      /\ longer[len + 1] = n + 1
  BY <1>0, <1>1, AppendProperties, LenProperties
<1>3. \A i \in 1 .. (len + 1) : longer[i] = n - len + i
  <2> TAKE i \in 1 .. (len + 1)
  <2>1. CASE i \in 1 .. len
    BY <1>0, <1>2, <2>1
  <2>2. CASE i = len + 1
    BY <1>2, <2>2
  <2> QED BY <2>1, <2>2
<1>4. MaxRuns \in Nat /\ MaxRuns >= 1
  BY StoreAssumption
<1>5. ASSUME len + 1 > MaxRuns
      PROVE  /\ new \in Seq(Nat)
             /\ Len(new) = IF n + 1 < MaxRuns THEN n + 1 ELSE MaxRuns
             /\ \A i \in DOMAIN new : new[i] = n + 1 - Len(new) + i
             /\ \A i \in DOMAIN new : new[i] = n + 1 \/ \E j \in DOMAIN ids : new[i] = ids[j]
  <2>1. len = MaxRuns /\ n >= MaxRuns
    BY <1>0, <1>4, <1>5
  <2>2. new = SubSeq(longer, len + 1 - MaxRuns + 1, len + 1)
    <3>1. PICK m : m = len + 1 /\ m = Len(longer) /\ m > MaxRuns
      BY <1>2, <1>5
    <3>2. Evicted(longer) = SubSeq(longer, m - MaxRuns + 1, m)
      BY <3>1, EvictionDrops
    <3>3. new = Evicted(longer)
      BY <1>1
    <3>4. new = SubSeq(longer, m - MaxRuns + 1, m)
      BY <3>2, <3>3
    <3>5. m = len + 1
      BY <3>1
    <3> QED BY <1>4, <3>4, <3>5
  <2>3. new = SubSeq(longer, 2, MaxRuns + 1)
    BY <1>4, <2>1, <2>2
  <2>4. /\ new \in Seq(Nat) /\ Len(new) = MaxRuns
        /\ \A i \in 1 .. MaxRuns : new[i] = longer[i + 1]
    <3>1. longer \in Seq(Nat) /\ MaxRuns \in Nat /\ Len(longer) = MaxRuns + 1
      BY <1>2, <1>4, <2>1
    <3> QED BY <2>3, <3>1, DropFirst
  <2>5. DOMAIN new = 1 .. MaxRuns
    BY <2>4, LenProperties
  <2>6. \A i \in 1 .. MaxRuns : new[i] = n + 1 - MaxRuns + i
    <3> TAKE i \in 1 .. MaxRuns
    <3>1. i + 1 \in 1 .. (len + 1)
      BY <1>4, <2>1
    <3>2. new[i] = n - len + (i + 1)
      BY <1>3, <2>4, <3>1
    <3> QED BY <1>4, <2>1, <3>2
  <2>7. \A i \in 1 .. MaxRuns : new[i] = n + 1 \/ \E j \in 1 .. len : new[i] = ids[j]
    <3> TAKE i \in 1 .. MaxRuns
    <3>1. CASE i = MaxRuns
      BY <1>2, <2>1, <2>4, <3>1
    <3>2. CASE i # MaxRuns
      <4>1. i + 1 \in 1 .. len
        BY <1>4, <2>1, <3>2
      <4>2. new[i] = ids[i + 1]
        BY <1>2, <2>4, <4>1
      <4> QED BY <4>1, <4>2
    <3> QED BY <3>1, <3>2
  <2>8. Len(new) = IF n + 1 < MaxRuns THEN n + 1 ELSE MaxRuns
    BY <1>4, <2>1, <2>4
  <2> QED BY <1>2, <2>4, <2>5, <2>6, <2>7, <2>8
<1>6. ASSUME ~(len + 1 > MaxRuns)
      PROVE  /\ new \in Seq(Nat)
             /\ Len(new) = IF n + 1 < MaxRuns THEN n + 1 ELSE MaxRuns
             /\ \A i \in DOMAIN new : new[i] = n + 1 - Len(new) + i
             /\ \A i \in DOMAIN new : new[i] = n + 1 \/ \E j \in DOMAIN ids : new[i] = ids[j]
  <2>1. new = longer
    BY <1>1, <1>2, <1>6, EvictionKeeps
  <2>2. len = n /\ n + 1 <= MaxRuns
    BY <1>0, <1>4, <1>6
  <2>3. \A i \in 1 .. (len + 1) : longer[i] = n + 1 \/ \E j \in 1 .. len : longer[i] = ids[j]
    <3> TAKE i \in 1 .. (len + 1)
    <3>1. CASE i = len + 1
      BY <1>2, <3>1
    <3>2. CASE i \in 1 .. len
      BY <1>2, <3>2
    <3> QED BY <3>1, <3>2
  <2>4. Len(new) = n + 1
    BY <1>2, <2>1, <2>2
  <2>5. Len(new) = IF n + 1 < MaxRuns THEN n + 1 ELSE MaxRuns
    BY <1>4, <2>2, <2>4
  <2>6. \A i \in DOMAIN new : new[i] = n + 1 - Len(new) + i
    BY <1>2, <1>3, <2>1, <2>2, <2>4
  <2>7. new \in Seq(Nat) /\ DOMAIN new = 1 .. (len + 1)
    BY <1>2, <2>1
  <2>8. \A i \in DOMAIN new : new[i] = n + 1 \/ \E j \in DOMAIN ids : new[i] = ids[j]
    BY <1>2, <2>1, <2>3
  <2> QED BY <2>5, <2>6, <2>7, <2>8
<1>7. /\ new \in Seq(Nat)
      /\ Len(new) = IF n + 1 < MaxRuns THEN n + 1 ELSE MaxRuns
      /\ \A i \in DOMAIN new : new[i] = n + 1 - Len(new) + i
      /\ \A i \in DOMAIN new : new[i] = n + 1 \/ \E j \in DOMAIN ids : new[i] = ids[j]
  BY <1>5, <1>6
<1>8. new \in Seq(Nat) /\ Window(new, n + 1) /\ Extends(new, ids, n + 1)
  <2>1. Window(new, n + 1)
    BY SMTT(30), <1>7 DEF Window
  <2>2. Extends(new, ids, n + 1)
    BY <1>7, Zenon DEF Extends
  <2> QED BY <1>7, <2>1, <2>2
<1> QED BY <1>1, <1>8

(* Creating a run keeps the store's invariant. *)
LEMMA CreateInv ==
  ASSUME StoreInv, NEW mode \in Mode, Create(mode)
  PROVE  StoreInv'
<1> USE DEF StoreInv
<1>1. next \in Nat /\ order \in Seq(Nat) /\ runs \in [Live -> Run]
  BY DEF TypeOK
<1>2. next' = next + 1 /\ order' = Evicted(Append(order, next + 1))
  BY DEF Create
<1>3. order' \in Seq(Nat) /\ Window(order', next + 1) /\ Extends(order', order, next + 1)
  <2>1. Window(order, next)
    BY Zenon DEF Window, KeepsMostRecentRuns
  <2> QED BY <1>1, <1>2, <2>1, EvictedWindow
<1>4. KeepsMostRecentRuns'
  BY <1>2, <1>3, Zenon DEF KeepsMostRecentRuns, Window
<1>5. \A id \in Live' : id = next + 1 \/ id \in Live
  BY <1>3 DEF Live, Extends
<1>6. runs' = [id \in Live' |-> IF id = next + 1 THEN NewRun(mode) ELSE runs[id]]
  BY DEF Create
<1>7. \A id \in Live' : runs'[id] \in Run /\ SafeRun(runs'[id])
  <2> TAKE id \in Live'
  <2>1. CASE id = next + 1
    BY <1>6, <2>1, NewRunSafe
  <2>2. CASE id # next + 1
    BY <1>1, <1>5, <1>6, <2>2
  <2> QED BY <2>1, <2>2
<1>8. TypeOK'
  BY <1>1, <1>2, <1>3, <1>6, <1>7 DEF TypeOK
<1>9. \A id \in Live' : SafeRun(runs[id])'
  BY <1>7
<1> QED BY <1>4, <1>8, <1>9

(* Replacing a remembered run by a safe one keeps the invariant. *)
LEMMA UpdateInv ==
  ASSUME StoreInv, NEW id \in Live, NEW run \in Run, SafeRun(run), Update(id, run)
  PROVE  StoreInv'
<1>1. /\ next' = next /\ order' = order /\ Live' = Live
      /\ runs' = [runs EXCEPT ![id] = run]
  BY DEF Update, Live
<1>2. runs \in [Live -> Run]
  BY DEF StoreInv, TypeOK
<1>3. TypeOK'
  BY <1>1, <1>2 DEF StoreInv, TypeOK
<1>4. KeepsMostRecentRuns'
  BY <1>1 DEF StoreInv, KeepsMostRecentRuns
<1>5. \A other \in Live : SafeRun(runs'[other])
  BY <1>1, <1>2 DEF StoreInv
<1> QED BY <1>1, <1>3, <1>4, <1>5 DEF StoreInv

(* Every operation keeps the invariant: one step per method. *)
LEMMA NextInv ==
  ASSUME StoreInv, Next
  PROVE  StoreInv'
<1> DEFINE r(id) == runs[id]
<1>1. \A id \in Live : runs[id] \in Run /\ SafeRun(runs[id])
  BY DEF StoreInv, TypeOK
<1>2. ASSUME NEW mode \in Mode, Create(mode) PROVE StoreInv'
  BY <1>2, CreateInv
<1>3. ASSUME NEW id \in Live, NEW status \in Status, SetStatus(id, status) PROVE StoreInv'
  BY <1>1, <1>3, StatusTypes, StatusSafe, UpdateInv DEF SetStatus, Open
<1>4. ASSUME NEW id \in Live, Cancel(id) \/ Fail(id) PROVE StoreInv'
  <2>1. "queued" \in Status
    BY DEF Status
  <2> QED BY <1>1, <1>4, <2>1, StatusTypes, StatusSafe, UpdateInv DEF Cancel, Fail, Open
<1>5. ASSUME NEW id \in Live, AddLog(id) \/ AddLogIfNoPendingApprovals(id) PROVE StoreInv'
  <2>1. \A what \in {"message", "allowed"} :
          Logged(runs[id], what, 0) \in Run /\ SafeRun(Logged(runs[id], what, 0))
    BY <1>1, LoggedType, LogSafe
  <2> QED BY <1>5, <2>1, UpdateInv DEF AddLog, AddLogIfNoPendingApprovals
<1>6. ASSUME NEW id \in Live, AddPatch(id) PROVE StoreInv'
  <2>1. Update(id, [runs[id] EXCEPT !.patches = @ + 1])
    BY <1>6 DEF AddPatch
  <2> QED BY <1>1, <2>1, PatchSafe, UpdateInv
<1>7. ASSUME NEW id \in Live, NEW binding \in Binding, AddApproval(id, binding) PROVE StoreInv'
  BY <1>1, <1>7, GateTypes, GateSafe, UpdateInv DEF AddApproval, Open
<1>8. ASSUME NEW id \in Live, Decide(id) PROVE StoreInv'
  <2>1. PICK g \in DOMAIN runs[id].gates, d \in {"approved", "rejected"} : DecideApproval(id, g, d)
    BY <1>8 DEF Decide
  <2>2. ~IsTerminal(runs[id]) /\ runs[id].gates[g].status = "pending"
    BY <2>1 DEF DecideApproval, Open
  <2>3. /\ Approved(runs[id], g) \in Run /\ SafeRun(Approved(runs[id], g))
        /\ Rejected(runs[id], g) \in Run /\ SafeRun(Rejected(runs[id], g))
    BY <1>1, <2>2, DecisionTypes, DecidedSafe
  <2>4. Update(id, Approved(runs[id], g)) \/ Update(id, Rejected(runs[id], g))
    BY <2>1 DEF DecideApproval
  <2> QED BY <2>3, <2>4, UpdateInv
<1>9. ASSUME NEW id \in Live, Consume(id) PROVE StoreInv'
  <2>1. PICK g \in DOMAIN runs[id].gates : ConsumeApprovalBinding(id, g)
    BY <1>9 DEF Consume
  <2>2. ~IsTerminal(runs[id]) /\ Spendable(runs[id], g) /\ Update(id, Spent(runs[id], g))
    BY <2>1 DEF ConsumeApprovalBinding, Open
  <2>3. Spent(runs[id], g) \in Run /\ SafeRun(Spent(runs[id], g))
    BY <1>1, <2>2, DecisionTypes, SpentSafe
  <2> QED BY <2>2, <2>3, UpdateInv
<1> QED BY <1>2, <1>3, <1>4, <1>5, <1>6, <1>7, <1>8, <1>9 DEF Next

(* The store's invariant holds in every state the store can reach. *)
THEOREM StoreInvariant == Spec => []StoreInv
<1>1. StoreInv /\ UNCHANGED storeVars => StoreInv'
  BY DEF StoreInv, TypeOK, KeepsMostRecentRuns, storeVars, Live
<1> QED BY <1>1, InitInv, NextInv, PTL DEF Spec

(* The store keeps its types: every remembered run has a valid mode,       *)
(* status, gates and log.                                                  *)
THEOREM TypeCorrect == Spec => []TypeOK
<1>1. StoreInv => TypeOK
  BY DEF StoreInv
<1> QED BY <1>1, StoreInvariant, PTL

(* The store remembers exactly the most recent runs in creation order,     *)
(* whatever the limit and however many runs are created.                   *)
THEOREM MostRecent == Spec => []KeepsMostRecentRuns
<1>1. StoreInv => KeepsMostRecentRuns
  BY DEF StoreInv
<1> QED BY <1>1, StoreInvariant, PTL

(* Every remembered run's log accounts for each decision and each spent    *)
(* approval exactly once and in the order they happened.                   *)
THEOREM Audit == Spec => []AuditTrail
<1>1. StoreInv => AuditTrail
  BY DEF StoreInv, SafeRun, Trail, AuditTrail
<1> QED BY <1>1, StoreInvariant, PTL

(* A rejected gate fails the run for good, and the derived fields of every *)
(* remembered run agree with its status.                                   *)
THEOREM Rejection == Spec => []RejectionFailsRun
<1>1. StoreInv => RejectionFailsRun
  BY DEF StoreInv, SafeRun, RejectionFailsRun
<1> QED BY <1>1, StoreInvariant, PTL

-----------------------------------------------------------------------------
(* The approval ledger.  What one run contributes to it, and the six kinds *)
(* of change the ledger knows of one run.                                  *)

LedgerOf(run) == [g \in DOMAIN run.gates |-> GateInLedger(run, g)]
ledgerVar == [id \in Live |-> LedgerOf(runs[id])]
closedVar == {id \in Live : IsTerminal(runs[id])}

Stays(old, new)  == LedgerOf(new) = LedgerOf(old) /\ IsTerminal(new) = IsTerminal(old)
Closes(old, new) == LedgerOf(new) = LedgerOf(old) /\ ~IsTerminal(old) /\ IsTerminal(new)
Opens(old, new)  == LedgerOf(new) = Append(LedgerOf(old), "pending") /\ ~IsTerminal(old) /\ ~IsTerminal(new)

Settles(old, new, g, from, to) ==
  /\ g \in DOMAIN LedgerOf(old) /\ LedgerOf(old)[g] = from /\ ~IsTerminal(old)
  /\ LedgerOf(new) = [LedgerOf(old) EXCEPT ![g] = to]

Approves(old, new, g) == Settles(old, new, g, "pending", "approved") /\ ~IsTerminal(new)
Rejects(old, new, g)  == Settles(old, new, g, "pending", "rejected") /\ IsTerminal(new)
Spends(old, new, g)   ==
  /\ Settles(old, new, g, "approved", "spent") /\ ~IsTerminal(new)
  /\ \A h \in DOMAIN LedgerOf(old) : LedgerOf(old)[h] # "pending"

(* Where a run is replaced, the ledger changes at that run only. *)
LEMMA LedgerUpdate ==
  ASSUME StoreInv, NEW id \in Live, NEW run, Update(id, run)
  PROVE  /\ next' = next
         /\ ledgerVar' = [ledgerVar EXCEPT ![id] = LedgerOf(run)]
         /\ closedVar' = IF IsTerminal(run) THEN closedVar \union {id} ELSE closedVar \ {id}
<1>1. next' = next /\ Live' = Live /\ runs' = [runs EXCEPT ![id] = run] /\ DOMAIN runs = Live
  BY DEF Update, Live, StoreInv, TypeOK
<1>2. \A other \in Live : runs'[other] = IF other = id THEN run ELSE runs[other]
  BY <1>1
<1>3. ledgerVar' = [other \in Live |-> LedgerOf(runs'[other])]
  BY <1>1 DEF ledgerVar
<1>4. closedVar' = {other \in Live : IsTerminal(runs'[other])}
  BY <1>1 DEF closedVar
<1>5. ledgerVar' = [ledgerVar EXCEPT ![id] = LedgerOf(run)]
  BY <1>2, <1>3 DEF ledgerVar
<1>6. closedVar' = IF IsTerminal(run) THEN closedVar \union {id} ELSE closedVar \ {id}
  BY <1>2, <1>4 DEF closedVar
<1> QED BY <1>1, <1>5, <1>6

(* Each of the six is a step of the ledger, or none. *)
LEMMA LedgerStep ==
  ASSUME StoreInv, NEW id \in Live, NEW run, Update(id, run),
         \/ Stays(runs[id], run) \/ Closes(runs[id], run) \/ Opens(runs[id], run)
         \/ \E g : Approves(runs[id], run, g) \/ Rejects(runs[id], run, g) \/ Spends(runs[id], run, g)
  PROVE  [Ledger!Next]_(Ledger!vars)
<1>1. /\ next' = next
      /\ ledgerVar' = [ledgerVar EXCEPT ![id] = LedgerOf(run)]
      /\ closedVar' = IF IsTerminal(run) THEN closedVar \union {id} ELSE closedVar \ {id}
  BY LedgerUpdate
<1>2. /\ DOMAIN ledgerVar = Live /\ ledgerVar[id] = LedgerOf(runs[id])
      /\ id \in closedVar <=> IsTerminal(runs[id])
  BY DEF ledgerVar, closedVar
<1>3. Ledger!vars = <<next, ledgerVar, closedVar>> /\ (Ledger!vars)' = <<next', ledgerVar', closedVar'>>
  BY DEF Ledger!vars, ledgerVar, closedVar, LedgerOf
<1>4. CASE Stays(runs[id], run)
  <2>2. ledgerVar = [o \in Live |-> LedgerOf(runs[o])]
    BY DEF ledgerVar
  <2>3. [ledgerVar EXCEPT ![id] = ledgerVar[id]] = ledgerVar
    BY <2>2
  <2>4. ledgerVar' = ledgerVar
    BY <1>1, <1>2, <1>4, <2>3 DEF Stays
  <2>5. closedVar' = closedVar
    BY <1>1, <1>2, <1>4 DEF Stays
  <2> QED BY <1>1, <1>3, <2>4, <2>5
<1>5. CASE Closes(runs[id], run)
  <2>1. ledgerVar' = ledgerVar /\ closedVar' = closedVar \union {id}
    BY <1>1, <1>2, <1>5 DEF Closes, ledgerVar
  <2>2. Ledger!CloseRun(id)
    BY <1>1, <1>2, <1>5, <2>1 DEF Closes, Ledger!CloseRun, Ledger!IsOpen, ledgerVar, closedVar, LedgerOf
  <2> QED BY <1>2, <2>2 DEF Ledger!Next, ledgerVar
<1>6. CASE Opens(runs[id], run)
  <2>1. closedVar' = closedVar /\ ledgerVar' = [ledgerVar EXCEPT ![id] = Append(@, "pending")]
    BY <1>1, <1>2, <1>6 DEF Opens
  <2>2. Ledger!OpenGate(id)
    BY <1>1, <1>2, <1>6, <2>1 DEF Opens, Ledger!OpenGate, Ledger!IsOpen, ledgerVar, closedVar, LedgerOf
  <2> QED BY <1>2, <2>2 DEF Ledger!Next, ledgerVar
<1>7. ASSUME NEW g, Approves(runs[id], run, g) \/ Rejects(runs[id], run, g) \/ Spends(runs[id], run, g)
      PROVE  Ledger!Next
  <2>1. Ledger!Approve(id, g) \/ Ledger!Reject(id, g) \/ Ledger!Spend(id, g)
    BY <1>1, <1>2, <1>7 DEF Approves, Rejects, Spends, Settles, Ledger!Approve, Ledger!Reject, Ledger!Spend,
       Ledger!IsOpen, Ledger!Settled, ledgerVar, closedVar, LedgerOf
  <2> QED BY <1>2, <1>7, <2>1 DEF Ledger!Next, Approves, Rejects, Spends, Settles, ledgerVar, LedgerOf
<1> QED BY <1>4, <1>5, <1>6, <1>7

(* Which log entries count as spending a gate. *)
LEMMA SpentEntries ==
  ASSUME NEW r \in Run, NEW what, NEW gate, NEW s, s.logs = Append(r.logs, [what |-> what, gate |-> gate])
  PROVE  \A g : LogsOf(s, "allowed", g) # {} <=>
                   (LogsOf(r, "allowed", g) # {} \/ (what = "allowed" /\ gate = g))
<1>0. r.logs \in Seq(LogEntry)
  BY DEF Run
<1>1. PICK n \in Nat : n = Len(r.logs) /\ DOMAIN r.logs = 1 .. n
  BY <1>0, LenProperties
<1>2. /\ DOMAIN s.logs = 1 .. (n + 1) /\ s.logs[n + 1] = [what |-> what, gate |-> gate]
      /\ \A i \in 1 .. n : s.logs[i] = r.logs[i]
  BY <1>0, <1>1
<1>3. ASSUME NEW g
      PROVE  LogsOf(s, "allowed", g) # {} <=> (LogsOf(r, "allowed", g) # {} \/ (what = "allowed" /\ gate = g))
  <2>1. \A i \in 1 .. (n + 1) : i \in 1 .. n \/ i = n + 1
    BY <1>1
  <2>2. n + 1 \in 1 .. (n + 1) /\ 1 .. n \subseteq 1 .. (n + 1)
    BY <1>1
  <2>3. LogsOf(s, "allowed", g) # {} <=> \E i \in 1 .. (n + 1) : s.logs[i] = [what |-> "allowed", gate |-> g]
    BY <1>2 DEF LogsOf
  <2>4. LogsOf(r, "allowed", g) # {} <=> \E i \in 1 .. n : r.logs[i] = [what |-> "allowed", gate |-> g]
    BY <1>1 DEF LogsOf
  <2>5. s.logs[n + 1] = [what |-> "allowed", gate |-> g] <=> (what = "allowed" /\ gate = g)
    BY <1>2
  <2> QED BY <1>2, <2>1, <2>2, <2>3, <2>4, <2>5
<1> QED BY <1>3

(* Only approved gates that exist have been spent. *)
LEMMA SpentGates ==
  ASSUME NEW r \in Run, SafeRun(r), NEW g, g # 0, LogsOf(r, "allowed", g) # {}
  PROVE  g \in DOMAIN r.gates /\ r.gates[g].status = "approved" /\ ~Spendable(r, g)
<1>1. PICK i \in DOMAIN r.logs : r.logs[i] = [what |-> "allowed", gate |-> g]
  BY DEF LogsOf
<1>2. r.logs[i].what = "allowed" /\ r.logs[i].gate = g
  BY <1>1
<1>3. g \in DOMAIN r.gates /\ ~Spendable(r, g) /\ LogsOf(r, "approved", g) # {}
  BY <1>2 DEF SafeRun, Trail, SpendsLogged
<1>4. PICK j \in DOMAIN r.logs : r.logs[j] = [what |-> "approved", gate |-> g]
  BY <1>3 DEF LogsOf
<1>5. r.logs[j].what = "approved" /\ r.logs[j].gate = g
  BY <1>4
<1>6. r.gates[g].status = "approved"
  BY <1>5 DEF SafeRun, Trail, DecisionsLogged
<1> QED BY <1>3, <1>6

(* What leaves the gates alone and logs none of their spendings leaves the *)
(* ledger alone.                                                           *)
LEMMA LedgerSame ==
  ASSUME NEW r \in Run, NEW s, s.gates = r.gates,
         \/ s.logs = r.logs
         \/ \E what : s.logs = Append(r.logs, [what |-> what, gate |-> 0])
  PROVE  LedgerOf(s) = LedgerOf(r)
<1>1. \A g \in DOMAIN r.gates : g # 0
  BY LenProperties DEF Run
<1>2. ASSUME NEW g \in DOMAIN r.gates
      PROVE  GateInLedger(s, g) = GateInLedger(r, g)
  <2>1. LogsOf(s, "allowed", g) # {} <=> LogsOf(r, "allowed", g) # {}
    <3>1. CASE s.logs = r.logs
      BY <3>1 DEF LogsOf
    <3>2. ASSUME NEW what, s.logs = Append(r.logs, [what |-> what, gate |-> 0])
          PROVE  LogsOf(s, "allowed", g) # {} <=> LogsOf(r, "allowed", g) # {}
      BY <1>1, <3>2, SpentEntries
    <3> QED BY <3>1, <3>2
  <2> QED BY <2>1 DEF GateInLedger
<1> QED BY <1>2 DEF LedgerOf

(* Status changes, messages and patches: the ledger of the run stays. *)
LEMMA StatusInLedger ==
  ASSUME NEW r \in Run, ~IsTerminal(r), NEW status \in Status
  PROVE  /\ Stays(r, WithStatus(r, status)) \/ Closes(r, WithStatus(r, status))
         /\ Closes(r, Canceled(r)) /\ Closes(r, Failed(r))
         /\ \A what \in {"message", "allowed"} : Stays(r, Logged(r, what, 0))
         /\ Stays(r, [r EXCEPT !.patches = @ + 1])
<1>1. Stays(r, WithStatus(r, status)) \/ Closes(r, WithStatus(r, status))
  <2>1. WithStatus(r, status).gates = r.gates /\ WithStatus(r, status).logs = r.logs
    BY DEF WithStatus, Run
  <2>2. LedgerOf(WithStatus(r, status)) = LedgerOf(r)
    BY <2>1, LedgerSame
  <2> QED BY <2>2 DEF Stays, Closes, IsTerminal
<1>2. Closes(r, Canceled(r))
  <2>1. /\ Canceled(r).gates = r.gates /\ Canceled(r).status = "canceled"
        /\ Canceled(r).logs = Append(r.logs, [what |-> "canceled", gate |-> 0])
    BY DEF Canceled, Logged, Run
  <2>2. LedgerOf(Canceled(r)) = LedgerOf(r)
    BY <2>1, LedgerSame
  <2> QED BY <2>1, <2>2 DEF Closes, IsTerminal, Terminal
<1>3. Closes(r, Failed(r))
  <2>1. /\ Failed(r).gates = r.gates /\ Failed(r).status = "failed"
        /\ Failed(r).logs = Append(r.logs, [what |-> "failed", gate |-> 0])
    BY DEF Failed, Logged, Run
  <2>2. LedgerOf(Failed(r)) = LedgerOf(r)
    BY <2>1, LedgerSame
  <2> QED BY <2>1, <2>2 DEF Closes, IsTerminal, Terminal
<1>4. ASSUME NEW what \in {"message", "allowed"} PROVE Stays(r, Logged(r, what, 0))
  <2>1. /\ Logged(r, what, 0).gates = r.gates /\ Logged(r, what, 0).status = r.status
        /\ Logged(r, what, 0).logs = Append(r.logs, [what |-> what, gate |-> 0])
    BY DEF Logged, Run
  <2>2. LedgerOf(Logged(r, what, 0)) = LedgerOf(r)
    BY <2>1, LedgerSame
  <2> QED BY <2>1, <2>2 DEF Stays, IsTerminal
<1>5. Stays(r, [r EXCEPT !.patches = @ + 1])
  <2> DEFINE s == [r EXCEPT !.patches = @ + 1]
  <2>1. s.gates = r.gates /\ s.logs = r.logs /\ s.status = r.status
    BY DEF Run
  <2> HIDE DEF s
  <2>2. LedgerOf(s) = LedgerOf(r)
    BY <2>1, LedgerSame
  <2>3. Stays(r, s)
    BY <2>1, <2>2 DEF Stays, IsTerminal
  <2> QED BY <2>3 DEF s
<1> QED BY <1>1, <1>2, <1>3, <1>4, <1>5

(* A new gate is pending in the ledger. *)
LEMMA GateInLedgers ==
  ASSUME NEW r \in Run, SafeRun(r), ~IsTerminal(r), NEW binding
  PROVE  Opens(r, WithGate(r, binding))
<1> DEFINE s == WithGate(r, binding)
           gate == [status |-> "pending", binding |-> binding]
<1>0. r.gates \in Seq(Gate)
  BY DEF Run
<1>1. s.gates = Append(r.gates, gate) /\ s.logs = r.logs /\ s.status = "waiting_approval"
  BY DEF WithGate, Run
<1>2. gate.status = "pending"
  OBVIOUS
<1> HIDE DEF s, gate
<1>3. PICK n \in Nat : n = Len(r.gates) /\ DOMAIN r.gates = 1 .. n
  BY <1>0, LenProperties
<1>4. /\ DOMAIN s.gates = 1 .. (n + 1) /\ s.gates[n + 1] = gate
      /\ \A g \in 1 .. n : s.gates[g] = r.gates[g]
  BY <1>0, <1>1, <1>3
<1>5. \A g : LogsOf(s, "allowed", g) = LogsOf(r, "allowed", g)
  BY <1>1 DEF LogsOf
<1>6. LogsOf(r, "allowed", n + 1) = {}
  BY <1>3, SpentGates
<1>7. /\ DOMAIN LedgerOf(s) = 1 .. (n + 1) /\ LedgerOf(s)[n + 1] = "pending"
      /\ \A g \in 1 .. n : LedgerOf(s)[g] = LedgerOf(r)[g]
      /\ DOMAIN LedgerOf(r) = 1 .. n
  <2>1. n + 1 \in 1 .. (n + 1) /\ 1 .. n \subseteq 1 .. (n + 1)
    BY <1>3
  <2> QED BY <1>2, <1>3, <1>4, <1>5, <1>6, <2>1 DEF LedgerOf, GateInLedger
<1>8. LedgerOf(s) = Append(LedgerOf(r), "pending")
  <2> DEFINE T == {"pending", "approved", "rejected", "spent"}
  <2>1. \A g \in 1 .. n : LedgerOf(r)[g] \in T
    <3>1. \A g \in 1 .. n : r.gates[g] \in Gate
      BY <1>0, <1>3
    <3> QED BY <1>3, <3>1 DEF LedgerOf, GateInLedger, Gate, GateStatus
  <2> HIDE DEF T
  <2>2. LedgerOf(r) \in [1 .. n -> T]
    BY <1>3, <2>1 DEF LedgerOf
  <2>3. LedgerOf(r) \in Seq(T) /\ Len(LedgerOf(r)) = n
    BY <2>2
  <2>4. "pending" \in T
    BY DEF T
  <2>5. /\ Append(LedgerOf(r), "pending") \in [1 .. (n + 1) -> T]
        /\ \A g \in 1 .. n : Append(LedgerOf(r), "pending")[g] = LedgerOf(r)[g]
        /\ Append(LedgerOf(r), "pending")[n + 1] = "pending"
    <3> DEFINE old == LedgerOf(r)
    <3> HIDE DEF old
    <3>1. old \in Seq(T) /\ Len(old) = n
      BY <2>3 DEF old
    <3>2. /\ Append(old, "pending") \in Seq(T) /\ Len(Append(old, "pending")) = n + 1
          /\ \A g \in 1 .. n : Append(old, "pending")[g] = old[g]
          /\ Append(old, "pending")[n + 1] = "pending"
      BY <2>4, <3>1, AppendProperties
    <3>3. Append(old, "pending") \in [1 .. (n + 1) -> T]
      BY <3>2, LenProperties
    <3> QED BY <3>2, <3>3 DEF old
  <2>6. \A g \in 1 .. (n + 1) : LedgerOf(s)[g] = Append(LedgerOf(r), "pending")[g]
    <3>1. \A g \in 1 .. (n + 1) : g \in 1 .. n \/ g = n + 1
      BY <1>3
    <3> QED BY <1>7, <2>5, <3>1
  <2>7. LedgerOf(s) = [g \in 1 .. (n + 1) |-> GateInLedger(s, g)]
    BY <1>4 DEF LedgerOf
  <2> QED BY <2>5, <2>6, <2>7
<1>9. Opens(r, s)
  BY <1>1, <1>8 DEF Opens, IsTerminal, Terminal
<1> QED BY <1>9 DEF s

(* A decision of a pending gate is one in the ledger. *)
LEMMA DecisionInLedger ==
  ASSUME NEW r \in Run, SafeRun(r), ~IsTerminal(r), NEW g \in DOMAIN r.gates, r.gates[g].status = "pending"
  PROVE  Approves(r, Approved(r, g), g) /\ Rejects(r, Rejected(r, g), g)
<1>1. ASSUME NEW decision \in {"approved", "rejected"}, NEW d, d = Decided(r, g, decision)
      PROVE  d \in Run /\ d.status = r.status /\ Settles(r, d, g, "pending", decision)
  <2> DEFINE w == WithDecision(r, g, decision)
  <2>1. w \in Run /\ OnlyGate(w, r, g) /\ w.gates[g].status = decision
    BY GateUpdate, DecisionFields DEF GateStatus
  <2>2. d \in Run
    BY <1>1, DecisionTypes
  <2>3. d.logs = Append(w.logs, [what |-> decision, gate |-> g]) /\ d.gates = w.gates /\ d.status = w.status
    BY <1>1, <2>1 DEF Decided, Logged, Run
  <2> HIDE DEF w
  <2>4. \A h : LogsOf(d, "allowed", h) # {} <=> LogsOf(r, "allowed", h) # {}
    BY <2>1, <2>3, SpentEntries DEF OnlyGate
  <2>5. g # 0 /\ LogsOf(r, "allowed", g) = {}
    <3>1. g # 0
      BY LenProperties DEF Run
    <3> QED BY <3>1, SpentGates
  <2>6. \A h \in DOMAIN r.gates : GateInLedger(d, h) = IF h = g THEN decision ELSE GateInLedger(r, h)
    BY <2>1, <2>3, <2>4, <2>5 DEF GateInLedger, OnlyGate
  <2>7. GateInLedger(r, g) = "pending"
    BY <2>5 DEF GateInLedger
  <2>8. LedgerOf(d) = [LedgerOf(r) EXCEPT ![g] = decision]
    BY <2>1, <2>3, <2>6 DEF LedgerOf, OnlyGate
  <2> QED BY <2>1, <2>2, <2>3, <2>7, <2>8 DEF Settles, LedgerOf, OnlyGate
<1>2. Approves(r, Approved(r, g), g)
  <2> DEFINE d == Decided(r, g, "approved")
             s == Approved(r, g)
  <2>1. d \in Run /\ d.status = r.status /\ Settles(r, d, g, "pending", "approved")
    BY <1>1
  <2>2. s = IF d.status = "waiting_approval" /\ ~HasPending(d)
            THEN [d EXCEPT !.status = "running", !.started = TRUE] ELSE d
    BY DEF Approved
  <2> HIDE DEF d, s
  <2>3. s.gates = d.gates /\ s.logs = d.logs /\ s.status \in {d.status, "running"}
    BY <2>1, <2>2 DEF Run
  <2>4. LedgerOf(s) = LedgerOf(d)
    BY <2>1, <2>3, LedgerSame
  <2>5. Approves(r, s, g)
    BY <2>1, <2>3, <2>4 DEF Approves, Settles, IsTerminal, Terminal
  <2> QED BY <2>5 DEF s
<1>3. Rejects(r, Rejected(r, g), g)
  <2> DEFINE d == Decided(r, g, "rejected")
             s == Rejected(r, g)
  <2>1. d \in Run /\ Settles(r, d, g, "pending", "rejected")
    BY <1>1
  <2>2. s = [d EXCEPT !.status = "failed", !.error = "gate_rejected", !.completed = TRUE]
    BY DEF Rejected
  <2> HIDE DEF d, s
  <2>3. s.gates = d.gates /\ s.logs = d.logs /\ s.status = "failed"
    BY <2>1, <2>2 DEF Run
  <2>4. LedgerOf(s) = LedgerOf(d)
    BY <2>1, <2>3, LedgerSame
  <2>5. Rejects(r, s, g)
    BY <2>1, <2>3, <2>4 DEF Rejects, Settles, IsTerminal, Terminal
  <2> QED BY <2>5 DEF s
<1> QED BY <1>2, <1>3

(* Spending an approval spends it in the ledger, with nothing undecided. *)
LEMMA SpendInLedger ==
  ASSUME NEW r \in Run, SafeRun(r), ~IsTerminal(r), ~Waits(r), NEW g \in DOMAIN r.gates, Spendable(r, g)
  PROVE  Spends(r, Spent(r, g), g)
<1> DEFINE u == Unbound(r, g)
           s == Spent(r, g)
<1>1. u \in Run /\ OnlyGate(u, r, g) /\ u.gates[g].status = r.gates[g].status
  BY GateUpdate, UnboundFields
<1>2. /\ s.logs = Append(u.logs, [what |-> "allowed", gate |-> g])
      /\ s.gates = u.gates /\ s.status = u.status
  BY <1>1 DEF Spent, Logged, Run
<1> HIDE DEF u, s
<1>3. \A h : LogsOf(s, "allowed", h) # {} <=> (LogsOf(r, "allowed", h) # {} \/ h = g)
  BY SMTT(30), <1>1, <1>2, SpentEntries DEF OnlyGate
<1>4. g # 0 /\ LogsOf(r, "allowed", g) = {}
  <2>1. g # 0
    BY LenProperties DEF Run
  <2> QED BY <2>1, SpentGates
<1>5. \A h \in DOMAIN r.gates : GateInLedger(s, h) = IF h = g THEN "spent" ELSE GateInLedger(r, h)
  BY <1>1, <1>2, <1>3 DEF GateInLedger, OnlyGate
<1>6. GateInLedger(r, g) = "approved"
  BY <1>4 DEF GateInLedger, Spendable
<1>7. \A h \in DOMAIN r.gates : GateInLedger(r, h) # "pending"
  BY DEF Waits, HasPending, GateInLedger
<1>8. LedgerOf(s) = [LedgerOf(r) EXCEPT ![g] = "spent"]
  BY <1>1, <1>2, <1>5 DEF LedgerOf, OnlyGate
<1>9. Spends(r, s, g)
  BY <1>1, <1>2, <1>6, <1>7, <1>8 DEF Spends, Settles, LedgerOf, OnlyGate, IsTerminal
<1> QED BY <1>9 DEF s

(* A new run is admitted to the ledger, and those that are evicted go.     *)
LEMMA CreateInLedger ==
  ASSUME StoreInv, NEW mode \in Mode, Create(mode)
  PROVE  Ledger!Admit
<1>1. next \in Nat /\ order \in Seq(Nat) /\ Window(order, next)
  BY Zenon DEF StoreInv, TypeOK, KeepsMostRecentRuns, Window
<1>2. next' = next + 1 /\ order' = Evicted(Append(order, next + 1))
  BY DEF Create
<1>3. order' \in Seq(Nat) /\ Window(order', next + 1) /\ Extends(order', order, next + 1)
  BY <1>1, <1>2, EvictedWindow
<1>4. next + 1 \notin Live
  <2>1. PICK n \in Nat : n = Len(order) /\ DOMAIN order = 1 .. n
    BY <1>1, LenProperties
  <2>2. \A i \in 1 .. n : order[i] = next - n + i
    BY <1>1, <2>1 DEF Window
  <2> QED BY <1>1, <2>1, <2>2 DEF Live
<1>5. next + 1 \in Live'
  <2>1. PICK n \in Nat : n = Len(order') /\ DOMAIN order' = 1 .. n
    BY <1>3, LenProperties
  <2>2. n > 0 /\ order'[n] = next + 1
    BY <1>1, <1>3, <2>1, StoreAssumption DEF Window
  <2> QED BY <2>1, <2>2 DEF Live
<1>6. \A id \in Live' : id = next + 1 \/ id \in Live
  BY <1>3 DEF Live, Extends
<1>7. runs' = [id \in Live' |-> IF id = next + 1 THEN NewRun(mode) ELSE runs[id]]
  BY DEF Create
<1>8. LedgerOf(NewRun(mode)) = <<>> /\ ~IsTerminal(NewRun(mode))
  <2>1. NewRun(mode).gates = <<>> /\ NewRun(mode).status = "queued"
    BY DEF NewRun
  <2>2. LedgerOf(NewRun(mode)) = [g \in {} |-> GateInLedger(NewRun(mode), g)]
    BY <2>1 DEF LedgerOf
  <2> QED BY <2>1, <2>2 DEF IsTerminal, Terminal
<1> DEFINE kept == Live' \ {next + 1}
<1>9. kept \in SUBSET DOMAIN ledgerVar /\ kept \union {next + 1} = Live'
  BY <1>5, <1>6 DEF ledgerVar
<1>10. ledgerVar' = [id \in kept \union {next + 1} |-> IF id = next + 1 THEN <<>> ELSE ledgerVar[id]]
  BY <1>6, <1>7, <1>8, <1>9 DEF ledgerVar
<1>11. closedVar' = closedVar \intersect kept
  BY <1>4, <1>6, <1>7, <1>8, <1>9 DEF closedVar
<1> QED BY <1>2, <1>9, <1>10, <1>11 DEF Ledger!Admit, ledgerVar, closedVar, LedgerOf

(* Each method is a step of the ledger, or invisible there. *)
LEMMA NextInLedger ==
  ASSUME StoreInv, Next
  PROVE  [Ledger!Next]_(Ledger!vars)
<1>1. \A id \in Live : runs[id] \in Run /\ SafeRun(runs[id])
  BY DEF StoreInv, TypeOK
<1>2. ASSUME NEW mode \in Mode, Create(mode) PROVE Ledger!Next
  BY <1>2, CreateInLedger DEF Ledger!Next
<1>3. ASSUME NEW id \in Live, NEW status \in Status, SetStatus(id, status) PROVE [Ledger!Next]_(Ledger!vars)
  BY <1>1, <1>3, StatusInLedger, LedgerStep DEF SetStatus, Open
<1>4. ASSUME NEW id \in Live, Cancel(id) \/ Fail(id) PROVE [Ledger!Next]_(Ledger!vars)
  <2>1. "queued" \in Status
    BY DEF Status
  <2> QED BY <1>1, <1>4, <2>1, StatusInLedger, LedgerStep DEF Cancel, Fail, Open
<1>5. ASSUME NEW id \in Live, AddLog(id) \/ AddLogIfNoPendingApprovals(id) \/ AddPatch(id)
      PROVE  [Ledger!Next]_(Ledger!vars)
  <2>1. "queued" \in Status
    BY DEF Status
  <2>2. ~IsTerminal(runs[id])
    BY <1>5 DEF AddLog, AddLogIfNoPendingApprovals, AddPatch, Open
  <2>3. \/ \E what \in {"message", "allowed"} : Update(id, Logged(runs[id], what, 0))
        \/ Update(id, [runs[id] EXCEPT !.patches = @ + 1])
    BY <1>5 DEF AddLog, AddLogIfNoPendingApprovals, AddPatch
  <2> QED BY <1>1, <2>1, <2>2, <2>3, StatusInLedger, LedgerStep
<1>6. ASSUME NEW id \in Live, NEW binding \in Binding, AddApproval(id, binding) PROVE [Ledger!Next]_(Ledger!vars)
  BY <1>1, <1>6, GateInLedgers, LedgerStep DEF AddApproval, Open
<1>7. ASSUME NEW id \in Live, Decide(id) PROVE [Ledger!Next]_(Ledger!vars)
  <2>1. PICK g \in DOMAIN runs[id].gates, d \in {"approved", "rejected"} : DecideApproval(id, g, d)
    BY <1>7 DEF Decide
  <2>2. ~IsTerminal(runs[id]) /\ runs[id].gates[g].status = "pending"
    BY <2>1 DEF DecideApproval, Open
  <2>3. Approves(runs[id], Approved(runs[id], g), g) /\ Rejects(runs[id], Rejected(runs[id], g), g)
    BY <1>1, <2>2, DecisionInLedger
  <2>4. Update(id, Approved(runs[id], g)) \/ Update(id, Rejected(runs[id], g))
    BY <2>1 DEF DecideApproval
  <2> QED BY <2>3, <2>4, LedgerStep
<1>8. ASSUME NEW id \in Live, Consume(id) PROVE [Ledger!Next]_(Ledger!vars)
  <2>1. PICK g \in DOMAIN runs[id].gates : ConsumeApprovalBinding(id, g)
    BY <1>8 DEF Consume
  <2>2. ~IsTerminal(runs[id]) /\ ~Waits(runs[id]) /\ Spendable(runs[id], g) /\ Update(id, Spent(runs[id], g))
    BY <2>1 DEF ConsumeApprovalBinding, Open
  <2> QED BY <1>1, <2>2, SpendInLedger, LedgerStep
<1> QED BY <1>2, <1>3, <1>4, <1>5, <1>6, <1>7, <1>8 DEF Next

(* The store implements the ledger: each approval is decided once and      *)
(* spent at most once, only while its run is open with no gate undecided,  *)
(* closed runs are frozen, and a forgotten run never comes back.           *)
THEOREM LedgerRefined == Spec => ImplementsLedger
<1>1. Init => Ledger!Init
  <2> SUFFICES ASSUME Init PROVE Ledger!Init
    OBVIOUS
  <2>1. Live = {}
    BY DEF Init, Live
  <2>2. ledgerVar = [id \in {} |-> LedgerOf(runs[id])] /\ closedVar = {}
    BY <2>1 DEF ledgerVar, closedVar
  <2>3. ledgerVar = <<>>
    BY <2>2
  <2> QED BY <2>2, <2>3 DEF Init, Ledger!Init, ledgerVar, closedVar, LedgerOf
<1>2. StoreInv /\ [Next]_storeVars => [Ledger!Next]_(Ledger!vars)
  <2>1. UNCHANGED storeVars => UNCHANGED Ledger!vars
    BY DEF storeVars, Ledger!vars, Live, GateInLedger, IsTerminal
  <2> QED BY <2>1, NextInLedger
<1> QED BY <1>1, <1>2, StoreInvariant, PTL DEF Spec, ImplementsLedger, Ledger!Spec
=============================================================================
