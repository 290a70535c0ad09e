---------------------------- MODULE PlanRunProofs ----------------------------
(* Proofs about the plan gate and the command runner of one directory. *)
EXTENDS PlanRun, FiniteSetTheorems, TLAPS

(***************************************************************************)
(* The gate.  A recorded plan belongs to a plan command that ended without *)
(* failing, and no mutation has passed with it; a mutation that passed     *)
(* keeps its plan's command and connection.                                *)
(***************************************************************************)
Saving  == {"export", "write", "hash", "record"}
Made(c) == cmd[c].kind = "plan" /\ At(c, "done") /\ ~cmd[c].failed

SavingInv ==
  \A c \in Commands :
    /\ cmd[c].pc \in Saving => cmd[c].kind = "plan" /\ ~cmd[c].failed
    /\ At(c, "record") => PlanOf(c) = c

PassedInv ==
  \A c \in Commands :
    /\ Passed(c) => /\ cmd[c].kind \in Mutating /\ cmd[c].pc \notin {"idle", "consume"}
                    /\ Made(PlanOf(c)) /\ cmd[PlanOf(c)].connection = cmd[c].connection
    /\ At(c, "consume") => cmd[c].kind \in Mutating
    /\ \A d \in Commands \ {c} : Passed(c) /\ Passed(d) => PlanOf(d) # PlanOf(c)

GateInv ==
  gate # Nothing => /\ gate \in Hash /\ Made(gate.output)
                    /\ \A d \in Commands : Passed(d) => PlanOf(d) # gate.output

SyncInv == sync = "writing" => source < MaxEdits

RunInv == TypeOK /\ SyncInv /\ NoStaleEntry /\ SavingInv /\ PassedInv /\ GateInv

(* Use without overlap.  While no two requests have ever been in progress  *)
(* at once, a recorded hash is of one plan, which tfplan still holds, made *)
(* from sources no older than the last sync; a plan command keeps to its   *)
(* own files, and a mutation that passed still finds the plan it named.    *)
OnePlan(hash) == hash.tfplan = hash.output /\ hash.planJSON \in {hash.output, Nothing}

PlanningAlone(c) ==
  Busy(c) /\ cmd[c].kind = "plan" =>
    /\ gate = Nothing
    /\ cmd[c].pc \in Saving \union {"running"} => cmd[c].read >= synced
    /\ cmd[c].pc \in Saving => tfplan = c
    /\ At(c, "write") => cmd[c].used \in {c, Nothing}
    /\ At(c, "hash") => planJSON \in {c, Nothing}
    /\ At(c, "record") => OnePlan(cmd[c].hash)

MutatingAlone(c) ==
  /\ cmd[c].kind \in Mutating => Passed(c) \/ cmd[c].pc \in {"consume", "done"}
  /\ cmd[c].pc \in {"idle", "consume", "check", "register", "launch"} => cmd[c].used = Nothing
  /\ Passed(c) => /\ OnePlan(cmd[c].hash) /\ cmd[PlanOf(c)].read >= cmd[c].syncedThen
                  /\ Busy(c) => tfplan = PlanOf(c)
  /\ Applied(c) => Passed(c) /\ cmd[c].used = PlanOf(c)

GateAlone == gate # Nothing => OnePlan(gate) /\ tfplan = gate.output /\ cmd[gate.output].read >= synced

SerialInv ==
  ~overlap =>
    /\ \A c, d \in Commands : Busy(c) /\ Busy(d) => c = d
    /\ sync = "writing" => gate = Nothing /\ \A c \in Commands : ~Busy(c)
    /\ GateAlone
    /\ \A c \in Commands : PlanningAlone(c) /\ MutatingAlone(c)

(* What a step does to the commands: it changes one, or marks one failed. *)
Changes(c, new) == c \in Commands /\ cmd' = [cmd EXCEPT ![c] = new]

(* Only the record of c is replaced. *)
LEMMA ChangedCommand ==
  ASSUME cmd \in [Commands -> Command], NEW c, NEW new \in Command, Changes(c, new)
  PROVE  /\ cmd' \in [Commands -> Command] /\ cmd'[c] = new
         /\ \A d \in Commands \ {c} : cmd'[d] = cmd[d]
  BY DEF Changes

(* A step that only advances: it changes the request of an idle command    *)
(* only, the hash of a command that has not passed, and saves and records  *)
(* what a plan command made.                                               *)
Advance(c, new) ==
  /\ ~At(c, "done") /\ new.pc # "idle" /\ new.passed = Passed(c)
  /\ At(c, "idle") \/ (new.kind = cmd[c].kind /\ new.connection = cmd[c].connection)
  /\ new.hash = cmd[c].hash \/ ~Passed(c)
  /\ new.pc \in Saving => new.kind = "plan" /\ ~new.failed
  /\ new.pc = "record" => new.hash.output = c
  /\ new.pc = "consume" => new.kind \in Mutating /\ ~Passed(c)

EntryKept(c, new) ==
  \/ active' = active /\ (cmd[c].pc \in {"launch", "running"} => new.pc \in {"launch", "running"})
  \/ active' = Nothing
  \/ active' = c /\ new.pc = "launch"

(* A step that no more than advances one command keeps the commands' part, *)
(* and the gate's too if it leaves the gate or clears it.                  *)
LEMMA StepKeepsGate ==
  ASSUME TypeOK, SavingInv, PassedInv, GateInv, NEW c \in Commands,
         NEW new \in Command, Changes(c, new), Advance(c, new)
  PROVE  /\ SavingInv' /\ PassedInv'
         /\ gate' \in {gate, Nothing} => GateInv'
         /\ \A d \in Commands : Passed(d)' => Passed(d) /\ PlanOf(d)' = PlanOf(d) /\ PlanOf(d) # c
<1>t. cmd \in [Commands -> Command] /\ (Passed(c) => ~At(c, "idle"))
  BY DEF TypeOK, PassedInv, Passed, At
<1>n. cmd' \in [Commands -> Command] /\ cmd'[c] = new /\ \A d \in Commands \ {c} : cmd'[d] = cmd[d]
  BY <1>t, ChangedCommand
<1>p. \A d \in Commands : PlanOf(d) \in Commands
  BY <1>t DEF Command, Hash, PlanOf
<1>m. \A d \in Commands : Made(d) => d # c /\ Made(d)' /\ cmd'[d] = cmd[d]
  BY <1>n DEF Made, At, Advance
<1>1. SavingInv'
  BY <1>n DEF SavingInv, At, PlanOf, Advance
<1>2. ASSUME NEW d \in Commands
      PROVE  Passed(d)' = Passed(d) /\ (Passed(d) => PlanOf(d)' = PlanOf(d))
  BY <1>n DEF Passed, PlanOf, Advance
<1>3. PassedInv'
  <2>1. ASSUME NEW d \in Commands, Passed(d)'
        PROVE  /\ cmd'[d].kind \in Mutating /\ cmd'[d].pc \notin {"idle", "consume"}
               /\ Made(PlanOf(d))' /\ cmd'[cmd'[d].hash.output].connection = cmd'[d].connection
    <3>1. Passed(d) /\ PlanOf(d)' = PlanOf(d) /\ Made(PlanOf(d)) /\ PlanOf(d) # c
      BY <2>1, <1>2, <1>p, <1>m DEF PassedInv
    <3>2. cmd[PlanOf(d)].connection = cmd[d].connection /\ cmd[d].kind \in Mutating
          /\ cmd[d].pc \notin {"idle", "consume"}
      BY <3>1 DEF PassedInv
    <3>3. cmd'[PlanOf(d)] = cmd[PlanOf(d)]
      BY <3>1, <1>p, <1>n
    <3>4. cmd'[d].kind = cmd[d].kind /\ cmd'[d].connection = cmd[d].connection
      BY <3>2, <1>n DEF At, Advance
    <3>5. cmd'[d].pc \notin {"idle", "consume"}
      BY <3>1, <3>2, <1>n DEF Advance
    <3> QED BY <3>1, <3>2, <3>3, <3>4, <3>5 DEF Made, PlanOf, At
  <2>2. ASSUME NEW d \in Commands, At(d, "consume")' PROVE cmd'[d].kind \in Mutating
    BY <2>2, <1>n DEF At, PassedInv, Advance
  <2>3. ASSUME NEW d \in Commands, NEW e \in Commands \ {d}, Passed(d)', Passed(e)'
        PROVE  PlanOf(e)' # PlanOf(d)'
    BY <2>3, <1>2 DEF PassedInv
  <2> QED BY <2>1, <2>2, <2>3 DEF PassedInv, Passed, At, PlanOf
<1>4. ASSUME gate' \in {gate, Nothing} PROVE GateInv'
  <2> SUFFICES ASSUME gate' # Nothing PROVE GateInv'
    BY DEF GateInv
  <2>1. gate' = gate /\ gate \in Hash /\ Made(gate.output)
        /\ \A d \in Commands : Passed(d) => PlanOf(d) # gate.output
    BY <1>4 DEF GateInv
  <2>2. gate.output \in Commands
    BY <2>1 DEF Hash
  <2>3. Made(gate.output)'
    BY <2>1, <2>2, <1>m DEF Made, At
  <2> QED BY <2>1, <2>3, <1>2 DEF GateInv
<1>5. ASSUME NEW d \in Commands, Passed(d)'
      PROVE  Passed(d) /\ PlanOf(d)' = PlanOf(d) /\ PlanOf(d) # c
  BY <1>2, <1>5, <1>p, <1>m DEF PassedInv
<1> QED BY <1>1, <1>3, <1>4, <1>5

(* The rest of the gate's invariant under a command's step. *)
Others == source' = source /\ synced' = synced /\ sync' = sync /\ noticed' = noticed

(* Types and the SafeRunner's entry stand when one command's record changes. *)
LEMMA StepKeepsTypes ==
  ASSUME RunInv, NEW c \in Commands, NEW new \in Command, Changes(c, new), Others,
         tfplan' \in Plan, planJSON' \in Plan, gate' \in Hash \union {Nothing}, overlap' \in BOOLEAN,
         EntryKept(c, new)
  PROVE  TypeOK' /\ SyncInv' /\ NoStaleEntry'
<1>1. cmd' \in [Commands -> Command] /\ cmd'[c] = new /\ \A d \in Commands \ {c} : cmd'[d] = cmd[d]
  BY ChangedCommand DEF RunInv, TypeOK
<1>2. active' \in Plan
  BY DEF EntryKept, RunInv, TypeOK, Plan
<1>3. TypeOK'
  BY <1>1, <1>2 DEF RunInv, TypeOK, Others
<1>4. SyncInv'
  BY DEF RunInv, SyncInv, Others
<1>5. NoStaleEntry'
  BY <1>1, <1>2 DEF RunInv, NoStaleEntry, TypeOK, Plan, EntryKept
<1> QED BY <1>3, <1>4, <1>5

(* All of RunInv stands when a command only advances. *)
LEMMA StepInv ==
  ASSUME RunInv, NEW c \in Commands, NEW new \in Command, Changes(c, new), Others, Advance(c, new),
         tfplan' \in Plan, planJSON' \in Plan, gate' \in {gate, Nothing}, overlap' \in BOOLEAN,
         EntryKept(c, new)
  PROVE  RunInv'
<1>1. TypeOK' /\ SyncInv' /\ NoStaleEntry'
  BY StepKeepsTypes DEF RunInv, TypeOK
<1>2. SavingInv' /\ PassedInv' /\ GateInv'
  BY StepKeepsGate DEF RunInv
<1> QED BY <1>1, <1>2 DEF RunInv

-----------------------------------------------------------------------------
(* A command in progress without overlap is alone. *)
LEMMA BusyAlone ==
  ASSUME SerialInv, ~overlap, NEW c \in Commands, Busy(c)
  PROVE  /\ sync # "writing" /\ GateAlone /\ PlanningAlone(c) /\ MutatingAlone(c)
         /\ \A d \in Commands \ {c} : ~Busy(d)
  BY DEF SerialInv

(* So whatever it does, only what concerns it and the gate is to be shown. *)
LEMMA SerialStep ==
  ASSUME RunInv, SerialInv, ~overlap, NEW c \in Commands, NEW new \in Command, Changes(c, new), Others,
         ~At(c, "done"), sync # "writing", \A d \in Commands \ {c} : ~Busy(d),
         GateAlone', PlanningAlone(c)', MutatingAlone(c)'
  PROVE  SerialInv'
<1>1. cmd' \in [Commands -> Command] /\ cmd'[c] = new /\ \A d \in Commands \ {c} : cmd'[d] = cmd[d]
  BY ChangedCommand DEF RunInv, TypeOK
<1>2. \A d \in Commands \ {c} : ~Busy(d)'
  BY <1>1 DEF Busy
<1>3. ASSUME NEW d \in Commands \ {c} PROVE PlanningAlone(d)' /\ MutatingAlone(d)'
  <2>1. MutatingAlone(d) /\ cmd'[d] = cmd[d] /\ ~Busy(d)'
    BY <1>1, <1>2 DEF SerialInv
  <2>2. ASSUME Passed(d) PROVE cmd'[PlanOf(d)] = cmd[PlanOf(d)]
    <3>1. PlanOf(d) \in Commands /\ Made(PlanOf(d))
      BY <2>2 DEF RunInv, TypeOK, PassedInv, Command, Hash, PlanOf
    <3> QED BY <3>1, <1>1 DEF Made, At
  <2>3. PlanningAlone(d)'
    BY <2>1 DEF PlanningAlone
  <2>4. MutatingAlone(d)'
    BY <2>1, <2>2 DEF MutatingAlone, Passed, PlanOf, Applied, OnePlan
  <2> QED BY <2>3, <2>4
<1> QED BY <1>2, <1>3 DEF SerialInv, Others
(* The gate's record and what a mutation was let through with stand.       *)
LEMMA GateAloneKept ==
  ASSUME RunInv, GateAlone, NEW c \in Commands, NEW new \in Command, Changes(c, new), Others,
         ~At(c, "done"), gate' \in {gate, Nothing}, gate = Nothing \/ tfplan' = tfplan
  PROVE  GateAlone'
<1>1. cmd' \in [Commands -> Command] /\ \A d \in Commands \ {c} : cmd'[d] = cmd[d]
  BY ChangedCommand DEF RunInv, TypeOK
<1>2. gate # Nothing => gate.output \in Commands \ {c}
  BY DEF RunInv, GateInv, Made, At, Hash
<1> QED BY <1>1, <1>2 DEF GateAlone, OnePlan, Others

(* So does what a command in progress was let through with. *)
LEMMA MutatingKept ==
  ASSUME RunInv, NEW c \in Commands, MutatingAlone(c), NEW new \in Command, Changes(c, new),
         Busy(c), new.passed = Passed(c), new.kind = cmd[c].kind,
         Passed(c) => new.hash = cmd[c].hash /\ new.syncedThen = cmd[c].syncedThen /\ tfplan' = tfplan,
         new.kind \in Mutating => Passed(c) \/ new.pc = "done",
         new.pc \in {"idle", "consume", "check", "register", "launch"} => new.used = Nothing,
         new.kind = "apply" /\ new.used # Nothing => Passed(c) /\ new.used = PlanOf(c)
  PROVE  MutatingAlone(c)'
<1>1. cmd' \in [Commands -> Command] /\ cmd'[c] = new /\ \A d \in Commands \ {c} : cmd'[d] = cmd[d]
  BY ChangedCommand DEF RunInv, TypeOK
<1>2. ASSUME Passed(c)
      PROVE  PlanOf(c)' = PlanOf(c) /\ cmd'[PlanOf(c)] = cmd[PlanOf(c)]
  <2>1. PlanOf(c) \in Commands /\ Made(PlanOf(c))
    BY <1>2 DEF RunInv, TypeOK, PassedInv, Command, Hash, PlanOf
  <2> QED BY <1>1, <1>2, <2>1 DEF Made, At, Busy, PlanOf
<1>3. ASSUME Passed(c)'
      PROVE  OnePlan(cmd[c].hash)' /\ cmd'[PlanOf(c)'].read >= cmd'[c].syncedThen
             /\ (Busy(c)' => tfplan' = PlanOf(c)')
  BY <1>1, <1>2, <1>3 DEF MutatingAlone, Passed, OnePlan, Busy, PlanOf
<1>4. Applied(c)' => Passed(c)' /\ cmd'[c].used = PlanOf(c)'
  BY <1>1, <1>2 DEF Applied, Passed
<1>5. cmd'[c].kind \in Mutating => Passed(c)' \/ cmd'[c].pc \in {"consume", "done"}
  BY <1>1 DEF Passed
<1> QED BY <1>1, <1>3, <1>4, <1>5 DEF MutatingAlone, OnePlan, PlanOf

-----------------------------------------------------------------------------
(* The commands' steps.  Each says what it makes of the command's record,  *)
(* then that it only advances, then what it means without overlap.         *)
LEMMA RequestPlanStep ==
  ASSUME RunInv, SerialInv, NEW c \in Commands, NEW connection \in Connections, RequestPlan(c, connection)
  PROVE  RunInv' /\ SerialInv'
<1> DEFINE new == [cmd[c] EXCEPT !.pc = "check", !.kind = "plan", !.connection = connection]
<1>t. cmd \in [Commands -> Command] /\ cmd[c] \in Command
  BY DEF RunInv, TypeOK
<1>1. new \in Command /\ new.pc = "check" /\ new.kind = "plan" /\ new.passed = Passed(c)
      /\ new.hash = cmd[c].hash /\ new.used = cmd[c].used
  BY <1>t DEF Command, Steps, Kinds, Producing, Passed
<1>2. Changes(c, new)
  BY Zenon DEF Changes, RequestPlan
<1>3. At(c, "idle") /\ Others /\ gate' = Nothing /\ tfplan' = tfplan /\ planJSON' = Nothing /\ active' = active
  BY DEF RequestPlan, edits, Others
<1>4. overlap' = (overlap \/ sync # "idle" \/ \E d \in Commands : Busy(d))
  BY DEF RequestPlan, Overlaps
<1> HIDE DEF new
<1>5. ~Passed(c)
  BY <1>3 DEF RunInv, PassedInv, At
<1>6. Advance(c, new) /\ EntryKept(c, new)
  BY <1>1, <1>3, <1>5 DEF Advance, EntryKept, At, Saving
<1>7. RunInv'
  <2>1. tfplan' \in Plan /\ planJSON' \in Plan /\ overlap' \in BOOLEAN
    BY <1>3, <1>4 DEF RunInv, TypeOK, Plan
  <2> QED BY <1>1, <1>2, <1>3, <1>6, <2>1, StepInv
<1>8. ASSUME ~overlap' PROVE SerialInv'
  <2>1. ~overlap /\ sync # "writing" /\ \A d \in Commands : ~Busy(d)
    BY <1>4, <1>8
  <2>2. cmd' \in [Commands -> Command] /\ cmd'[c] = new
    BY <1>t, <1>1, <1>2, ChangedCommand
  <2>3. cmd[c].used = Nothing
    BY <2>1, <1>3 DEF SerialInv, MutatingAlone, At
  <2>4. GateAlone' /\ PlanningAlone(c)' /\ MutatingAlone(c)'
    BY <2>2, <2>3, <1>1, <1>3, <1>5
    DEF GateAlone, PlanningAlone, MutatingAlone, Passed, Applied, Mutating, At, Saving
  <2> QED BY <2>1, <2>4, <1>1, <1>2, <1>3, SerialStep DEF At
<1> QED BY <1>7, <1>8 DEF SerialInv

(* A request to initialise leaves the gate alone. *)
LEMMA RequestInitStep ==
  ASSUME RunInv, SerialInv, NEW c \in Commands, NEW connection \in Connections, RequestInit(c, connection)
  PROVE  RunInv' /\ SerialInv'
<1> DEFINE new == [cmd[c] EXCEPT !.pc = "check", !.kind = "init", !.connection = connection]
<1>t. cmd \in [Commands -> Command] /\ cmd[c] \in Command
  BY DEF RunInv, TypeOK
<1>1. new \in Command /\ new.pc = "check" /\ new.kind = "init" /\ new.passed = Passed(c)
      /\ new.hash = cmd[c].hash /\ new.used = cmd[c].used
  BY <1>t DEF Command, Steps, Kinds, Passed
<1>2. Changes(c, new)
  BY Zenon DEF Changes, RequestInit
<1>3. At(c, "idle") /\ Others /\ gate' = gate /\ tfplan' = tfplan /\ planJSON' = planJSON /\ active' = active
  BY DEF RequestInit, edits, files, Others
<1>4. overlap' = (overlap \/ sync # "idle" \/ \E d \in Commands : Busy(d))
  BY DEF RequestInit, Overlaps
<1> HIDE DEF new
<1>5. ~Passed(c)
  BY <1>3 DEF RunInv, PassedInv, At
<1>6. Advance(c, new) /\ EntryKept(c, new)
  BY <1>1, <1>3, <1>5 DEF Advance, EntryKept, At, Saving
<1>7. RunInv'
  <2>1. tfplan' \in Plan /\ planJSON' \in Plan /\ overlap' \in BOOLEAN
    BY <1>3, <1>4 DEF RunInv, TypeOK
  <2> QED BY <1>1, <1>2, <1>3, <1>6, <2>1, StepInv
<1>8. ASSUME ~overlap' PROVE SerialInv'
  <2>1. ~overlap /\ sync # "writing" /\ \A d \in Commands : ~Busy(d)
    BY <1>4, <1>8
  <2>2. cmd' \in [Commands -> Command] /\ cmd'[c] = new
    BY <1>t, <1>1, <1>2, ChangedCommand
  <2>3. cmd[c].used = Nothing /\ GateAlone
    BY <2>1, <1>3 DEF SerialInv, MutatingAlone, At
  <2>4. GateAlone'
    BY <2>3, <1>1, <1>2, <1>3, GateAloneKept DEF At
  <2>5. PlanningAlone(c)' /\ MutatingAlone(c)'
    BY <2>2, <2>3, <1>1, <1>3, <1>5 DEF PlanningAlone, MutatingAlone, Passed, Applied, Mutating
  <2> QED BY <2>1, <2>4, <2>5, <1>1, <1>2, <1>3, SerialStep DEF At
<1> QED BY <1>7, <1>8 DEF SerialInv

(* A mutating request takes the recorded hash with it. *)
LEMMA RequestMutationStep ==
  ASSUME RunInv, SerialInv, NEW c \in Commands, NEW kind \in Mutating, NEW connection \in Connections,
         RequestMutation(c, kind, connection)
  PROVE  RunInv' /\ SerialInv'
<1> DEFINE new == [cmd[c] EXCEPT !.pc = "consume", !.kind = kind, !.connection = connection, !.hash = gate]
<1>g. gate \in Hash
  BY DEF RequestMutation, GateAccepts, RunInv, GateInv
<1>t. cmd \in [Commands -> Command] /\ cmd[c] \in Command
  BY DEF RunInv, TypeOK
<1>1. new \in Command /\ new.pc = "consume" /\ new.kind = kind /\ new.passed = Passed(c)
      /\ new.hash = gate /\ new.used = cmd[c].used
  BY <1>t, <1>g DEF Command, Steps, Kinds, Mutating, Passed
<1>2. Changes(c, new)
  BY Zenon DEF Changes, RequestMutation
<1>3. At(c, "idle") /\ Others /\ gate' = gate /\ tfplan' = tfplan /\ planJSON' = planJSON /\ active' = active
  BY DEF RequestMutation, edits, files, Others
<1>4. overlap' = (overlap \/ sync # "idle" \/ \E d \in Commands : Busy(d))
  BY DEF RequestMutation, Overlaps
<1> HIDE DEF new
<1>5. ~Passed(c)
  BY <1>3 DEF RunInv, PassedInv, At
<1>6. Advance(c, new) /\ EntryKept(c, new)
  BY <1>1, <1>3, <1>5 DEF Advance, EntryKept, At, Saving
<1>7. RunInv'
  <2>1. tfplan' \in Plan /\ planJSON' \in Plan /\ overlap' \in BOOLEAN
    BY <1>3, <1>4 DEF RunInv, TypeOK
  <2> QED BY <1>1, <1>2, <1>3, <1>6, <2>1, StepInv
<1>8. ASSUME ~overlap' PROVE SerialInv'
  <2>1. ~overlap /\ sync # "writing" /\ \A d \in Commands : ~Busy(d)
    BY <1>4, <1>8
  <2>2. cmd' \in [Commands -> Command] /\ cmd'[c] = new
    BY <1>t, <1>1, <1>2, ChangedCommand
  <2>3. cmd[c].used = Nothing /\ GateAlone
    BY <2>1, <1>3 DEF SerialInv, MutatingAlone, At
  <2>4. GateAlone'
    BY <2>3, <1>1, <1>2, <1>3, GateAloneKept DEF At
  <2>5. PlanningAlone(c)' /\ MutatingAlone(c)'
    BY <2>2, <2>3, <1>1, <1>3, <1>5 DEF PlanningAlone, MutatingAlone, Passed, Applied, Mutating
  <2> QED BY <2>1, <2>4, <2>5, <1>1, <1>2, <1>3, SerialStep DEF At
<1> QED BY <1>7, <1>8 DEF SerialInv

(* The first look at the SafeRunner's entry. *)
LEMMA CheckActiveStep ==
  ASSUME RunInv, SerialInv, NEW c \in Commands, CheckActive(c)
  PROVE  RunInv' /\ SerialInv'
<1> DEFINE next == IF active = Nothing THEN "register" ELSE "done"
           new == [cmd[c] EXCEPT !.pc = next]
<1>t. cmd \in [Commands -> Command] /\ cmd[c] \in Command
  BY DEF RunInv, TypeOK
<1>1. /\ new \in Command /\ new.pc \in {"register", "done"} /\ new.kind = cmd[c].kind
      /\ new.connection = cmd[c].connection /\ new.passed = Passed(c) /\ new.hash = cmd[c].hash
      /\ new.used = cmd[c].used /\ new.syncedThen = cmd[c].syncedThen
  BY <1>t DEF Command, Steps, Passed
<1>2. Changes(c, new)
  BY Zenon DEF Changes, CheckActive, Goto
<1>3. /\ At(c, "check") /\ Others /\ gate' = gate /\ tfplan' = tfplan /\ planJSON' = planJSON
      /\ active' = active /\ overlap' = overlap
  BY DEF CheckActive, edits, files, Others
<1> HIDE DEF new
<1>6. Advance(c, new) /\ EntryKept(c, new)
  BY <1>1, <1>3 DEF Advance, EntryKept, At, Saving
<1>7. RunInv'
  BY <1>1, <1>2, <1>3, <1>6, StepInv DEF RunInv, TypeOK
<1>8. ASSUME ~overlap PROVE SerialInv'
  <2>b. Busy(c) /\ ~At(c, "done")
    BY <1>3 DEF Busy, At
  <2>1. sync # "writing" /\ GateAlone /\ PlanningAlone(c) /\ MutatingAlone(c)
        /\ \A d \in Commands \ {c} : ~Busy(d)
    BY <1>8, <2>b, BusyAlone
  <2>2. cmd' \in [Commands -> Command] /\ cmd'[c] = new
    BY <1>t, <1>1, <1>2, ChangedCommand
  <2>3. GateAlone'
    BY <2>1, <2>b, <1>1, <1>2, <1>3, GateAloneKept
  <2>4. PlanningAlone(c)'
    BY <2>1, <2>2, <2>b, <1>1, <1>3 DEF PlanningAlone, Busy, Saving, At
  <2>5. cmd[c].used = Nothing /\ (cmd[c].kind \in Mutating => Passed(c))
    BY <2>1, <1>3 DEF MutatingAlone, At
  <2>6. MutatingAlone(c)'
    BY <2>1, <2>5, <2>b, <1>1, <1>2, <1>3, MutatingKept
  <2> QED BY <1>8, <2>1, <2>3, <2>4, <2>6, <2>b, <1>1, <1>2, <1>3, SerialStep
<1> QED BY <1>3, <1>7, <1>8 DEF SerialInv

(* The command makes the entry its own. *)
LEMMA RegisterStep ==
  ASSUME RunInv, SerialInv, NEW c \in Commands, Register(c)
  PROVE  RunInv' /\ SerialInv'
<1> DEFINE new == [cmd[c] EXCEPT !.pc = "launch"]
<1>t. cmd \in [Commands -> Command] /\ cmd[c] \in Command
  BY DEF RunInv, TypeOK
<1>1. /\ new \in Command /\ new.pc = "launch" /\ new.kind = cmd[c].kind
      /\ new.connection = cmd[c].connection /\ new.passed = Passed(c) /\ new.hash = cmd[c].hash
      /\ new.used = cmd[c].used /\ new.syncedThen = cmd[c].syncedThen
  BY <1>t DEF Command, Steps, Passed
<1>2. Changes(c, new)
  BY Zenon DEF Changes, Register, Goto
<1>3. /\ At(c, "register") /\ Others /\ gate' = gate /\ tfplan' = tfplan /\ planJSON' = planJSON
      /\ active' = c /\ overlap' = overlap
  BY DEF Register, edits, files, Others
<1> HIDE DEF new
<1>6. Advance(c, new) /\ EntryKept(c, new)
  BY <1>1, <1>3 DEF Advance, EntryKept, At, Saving
<1>7. RunInv'
  BY <1>1, <1>2, <1>3, <1>6, StepInv DEF RunInv, TypeOK
<1>8. ASSUME ~overlap PROVE SerialInv'
  <2>b. Busy(c) /\ ~At(c, "done")
    BY <1>3 DEF Busy, At
  <2>1. sync # "writing" /\ GateAlone /\ PlanningAlone(c) /\ MutatingAlone(c)
        /\ \A d \in Commands \ {c} : ~Busy(d)
    BY <1>8, <2>b, BusyAlone
  <2>2. cmd' \in [Commands -> Command] /\ cmd'[c] = new
    BY <1>t, <1>1, <1>2, ChangedCommand
  <2>3. GateAlone'
    BY <2>1, <2>b, <1>1, <1>2, <1>3, GateAloneKept
  <2>4. PlanningAlone(c)'
    BY <2>1, <2>2, <2>b, <1>1, <1>3 DEF PlanningAlone, Busy, Saving, At
  <2>5. cmd[c].used = Nothing /\ (cmd[c].kind \in Mutating => Passed(c))
    BY <2>1, <1>3 DEF MutatingAlone, At
  <2>6. MutatingAlone(c)'
    BY <2>1, <2>5, <2>b, <1>1, <1>2, <1>3, MutatingKept
  <2> QED BY <1>8, <2>1, <2>3, <2>4, <2>6, <2>b, <1>1, <1>2, <1>3, SerialStep
<1> QED BY <1>3, <1>7, <1>8 DEF SerialInv

(* The process starts: a plan reads the sources, an apply the saved plan. *)
LEMMA LaunchStep ==
  ASSUME RunInv, SerialInv, NEW c \in Commands, Launch(c)
  PROVE  RunInv' /\ SerialInv'
<1> DEFINE plan == IF cmd[c].kind = "apply" THEN tfplan ELSE Nothing
           new == [cmd[c] EXCEPT !.pc = "running", !.read = source, !.used = plan]
<1>t. cmd \in [Commands -> Command] /\ cmd[c] \in Command /\ tfplan \in Plan /\ source \in 0 .. MaxEdits
      /\ synced \in 0 .. source
  BY DEF RunInv, TypeOK
<1>p. plan \in Plan
  BY <1>t DEF Plan
<1> HIDE DEF plan
<1>1. /\ new \in Command /\ new.pc = "running" /\ new.kind = cmd[c].kind /\ new.read = source
      /\ new.connection = cmd[c].connection /\ new.passed = Passed(c) /\ new.hash = cmd[c].hash
      /\ new.used = plan /\ new.syncedThen = cmd[c].syncedThen
  BY <1>t, <1>p DEF Command, Steps, Passed
<1>2. Changes(c, new)
  BY Zenon DEF Changes, Launch, plan
<1>3. /\ At(c, "launch") /\ Others /\ gate' = gate /\ tfplan' = tfplan /\ planJSON' = planJSON
      /\ active' = active /\ overlap' = overlap
  BY DEF Launch, edits, files, Others
<1> HIDE DEF new
<1>6. Advance(c, new) /\ EntryKept(c, new)
  BY <1>1, <1>3 DEF Advance, EntryKept, At, Saving
<1>7. RunInv'
  BY <1>1, <1>2, <1>3, <1>6, StepInv DEF RunInv, TypeOK
<1>8. ASSUME ~overlap PROVE SerialInv'
  <2>b. Busy(c) /\ ~At(c, "done")
    BY <1>3 DEF Busy, At
  <2>1. sync # "writing" /\ GateAlone /\ PlanningAlone(c) /\ MutatingAlone(c)
        /\ \A d \in Commands \ {c} : ~Busy(d)
    BY <1>8, <2>b, BusyAlone
  <2>2. cmd' \in [Commands -> Command] /\ cmd'[c] = new
    BY <1>t, <1>1, <1>2, ChangedCommand
  <2>3. GateAlone'
    BY <2>1, <2>b, <1>1, <1>2, <1>3, GateAloneKept
  <2>r. source >= synced
    BY <1>t
  <2>4. PlanningAlone(c)'
    BY <2>1, <2>2, <2>b, <2>r, <1>1, <1>3 DEF PlanningAlone, Busy, Saving, At, Others
  <2>5. cmd[c].kind \in Mutating => Passed(c)
    BY <2>1, <1>3 DEF MutatingAlone, At
  <2>7. new.kind = "apply" => Passed(c) /\ new.used = PlanOf(c)
    BY <2>1, <2>5, <2>b, <1>1 DEF MutatingAlone, Mutating, plan
  <2>6. MutatingAlone(c)'
    BY <2>1, <2>5, <2>7, <2>b, <1>1, <1>2, <1>3, MutatingKept
  <2> QED BY <1>8, <2>1, <2>3, <2>4, <2>6, <2>b, <1>1, <1>2, <1>3, SerialStep
<1> QED BY <1>3, <1>7, <1>8 DEF SerialInv

(* The process does not start. *)
LEMMA LaunchFailsStep ==
  ASSUME RunInv, SerialInv, NEW c \in Commands, LaunchFails(c)
  PROVE  RunInv' /\ SerialInv'
<1> DEFINE new == [cmd[c] EXCEPT !.pc = "done"]
<1>t. cmd \in [Commands -> Command] /\ cmd[c] \in Command
  BY DEF RunInv, TypeOK
<1>1. /\ new \in Command /\ new.pc = "done" /\ new.kind = cmd[c].kind
      /\ new.connection = cmd[c].connection /\ new.passed = Passed(c) /\ new.hash = cmd[c].hash
      /\ new.used = cmd[c].used /\ new.syncedThen = cmd[c].syncedThen
  BY <1>t DEF Command, Steps, Passed
<1>2. Changes(c, new)
  BY Zenon DEF Changes, LaunchFails, Goto
<1>3. /\ At(c, "launch") /\ Others /\ gate' = gate /\ tfplan' = tfplan /\ planJSON' = planJSON
      /\ active' = Nothing /\ overlap' = overlap
  BY DEF LaunchFails, edits, files, Others
<1> HIDE DEF new
<1>6. Advance(c, new) /\ EntryKept(c, new)
  BY <1>1, <1>3 DEF Advance, EntryKept, At, Saving
<1>7. RunInv'
  BY <1>1, <1>2, <1>3, <1>6, StepInv DEF RunInv, TypeOK
<1>8. ASSUME ~overlap PROVE SerialInv'
  <2>b. Busy(c) /\ ~At(c, "done")
    BY <1>3 DEF Busy, At
  <2>1. sync # "writing" /\ GateAlone /\ PlanningAlone(c) /\ MutatingAlone(c)
        /\ \A d \in Commands \ {c} : ~Busy(d)
    BY <1>8, <2>b, BusyAlone
  <2>2. cmd' \in [Commands -> Command] /\ cmd'[c] = new
    BY <1>t, <1>1, <1>2, ChangedCommand
  <2>3. GateAlone'
    BY <2>1, <2>b, <1>1, <1>2, <1>3, GateAloneKept
  <2>4. PlanningAlone(c)'
    BY <2>2, <1>1 DEF PlanningAlone, Busy
  <2>5. cmd[c].used = Nothing
    BY <2>1, <1>3 DEF MutatingAlone, At
  <2>6. MutatingAlone(c)'
    BY <2>1, <2>5, <2>b, <1>1, <1>2, <1>3, MutatingKept
  <2> QED BY <1>8, <2>1, <2>3, <2>4, <2>6, <2>b, <1>1, <1>2, <1>3, SerialStep
<1> QED BY <1>3, <1>7, <1>8 DEF SerialInv

(* The process ends; of a plan it may leave a new tfplan. *)
LEMMA FinishStep ==
  ASSUME RunInv, SerialInv, NEW c \in Commands, Finish(c)
  PROVE  RunInv' /\ SerialInv'
<1>t. cmd \in [Commands -> Command] /\ cmd[c] \in Command /\ tfplan \in Plan
  BY DEF RunInv, TypeOK
<1>0. PICK next \in {"export", "done"} :
        /\ cmd' = [cmd EXCEPT ![c].pc = next]
        /\ next = "export" => cmd[c].kind = "plan" /\ ~cmd[c].failed /\ tfplan' = c
        /\ tfplan' = tfplan \/ (cmd[c].kind = "plan" /\ tfplan' = c)
  BY Zenon DEF Finish, Goto
<1> DEFINE new == [cmd[c] EXCEPT !.pc = next]
<1>1. /\ new \in Command /\ new.pc = next /\ new.kind = cmd[c].kind /\ new.read = cmd[c].read
      /\ new.connection = cmd[c].connection /\ new.passed = Passed(c) /\ new.hash = cmd[c].hash
      /\ new.used = cmd[c].used /\ new.syncedThen = cmd[c].syncedThen /\ new.failed = cmd[c].failed
  BY <1>t DEF Command, Steps, Passed
<1>2. Changes(c, new)
  BY <1>0, Zenon DEF Changes
<1>3. /\ At(c, "running") /\ Others /\ gate' = gate /\ planJSON' = planJSON
      /\ active' = Nothing /\ overlap' = overlap
  BY DEF Finish, edits, Others
<1> HIDE DEF new
<1>6. Advance(c, new) /\ EntryKept(c, new)
  BY <1>0, <1>1, <1>3 DEF Advance, EntryKept, At, Saving
<1>7. RunInv'
  <2>1. tfplan' \in Plan
    BY <1>0, <1>t DEF Plan
  <2> QED BY <1>1, <1>2, <1>3, <1>6, <2>1, StepInv DEF RunInv, TypeOK
<1>8. ASSUME ~overlap PROVE SerialInv'
  <2>b. Busy(c) /\ ~At(c, "done")
    BY <1>3 DEF Busy, At
  <2>1. sync # "writing" /\ GateAlone /\ PlanningAlone(c) /\ MutatingAlone(c)
        /\ \A d \in Commands \ {c} : ~Busy(d)
    BY <1>8, <2>b, BusyAlone
  <2>2. cmd' \in [Commands -> Command] /\ cmd'[c] = new
    BY <1>t, <1>1, <1>2, ChangedCommand
  <2>3. GateAlone'
    <3>1. gate = Nothing \/ tfplan' = tfplan
      BY <1>0, <2>1, <2>b DEF PlanningAlone
    <3> QED BY <3>1, <2>1, <2>b, <1>1, <1>2, <1>3, GateAloneKept
  <2>4. PlanningAlone(c)'
    BY <1>0, <2>1, <2>2, <2>b, <1>1, <1>3 DEF PlanningAlone, Busy, Saving, At, Others
  <2>5. (cmd[c].kind \in Mutating => Passed(c)) /\ (Passed(c) => cmd[c].kind \in Mutating)
    BY <2>1, <1>3 DEF MutatingAlone, At, RunInv, PassedInv
  <2>7. new.kind = "apply" /\ new.used # Nothing => Passed(c) /\ new.used = PlanOf(c)
    BY <2>1, <1>1 DEF MutatingAlone, Applied
  <2>8. Passed(c) => tfplan' = tfplan
    BY <2>5, <1>0 DEF Mutating
  <2>6. MutatingAlone(c)'
    BY <2>1, <2>5, <2>7, <2>8, <2>b, <1>1, <1>2, MutatingKept
  <2> QED BY <1>8, <2>1, <2>3, <2>4, <2>6, <2>b, <1>1, <1>2, <1>3, SerialStep
<1> QED BY <1>3, <1>7, <1>8 DEF SerialInv

(* The saved plan is read for the export. *)
LEMMA ExportStep ==
  ASSUME RunInv, SerialInv, NEW c \in Commands, Export(c)
  PROVE  RunInv' /\ SerialInv'
<1>t. cmd \in [Commands -> Command] /\ cmd[c] \in Command /\ tfplan \in Plan
  BY DEF RunInv, TypeOK
<1>0. PICK shown \in {tfplan, Nothing} : cmd' = [cmd EXCEPT ![c].pc = "write", ![c].used = shown]
  BY DEF Export
<1> DEFINE new == [cmd[c] EXCEPT !.pc = "write", !.used = shown]
<1>1. /\ new \in Command /\ new.pc = "write" /\ new.kind = cmd[c].kind /\ new.read = cmd[c].read
      /\ new.connection = cmd[c].connection /\ new.passed = Passed(c) /\ new.hash = cmd[c].hash
      /\ new.used = shown /\ new.syncedThen = cmd[c].syncedThen /\ new.failed = cmd[c].failed
  BY <1>t DEF Command, Steps, Passed, Plan
<1>2. Changes(c, new)
  BY <1>0, Zenon DEF Changes
<1>3. /\ At(c, "export") /\ Others /\ gate' = gate /\ tfplan' = tfplan /\ planJSON' = planJSON
      /\ active' = active /\ overlap' = overlap
  BY DEF Export, edits, files, Others
<1>4. cmd[c].kind = "plan" /\ ~cmd[c].failed
  BY <1>3 DEF RunInv, SavingInv, Saving, At
<1> HIDE DEF new
<1>6. Advance(c, new) /\ EntryKept(c, new)
  BY <1>1, <1>3, <1>4 DEF Advance, EntryKept, At, Saving
<1>7. RunInv'
  BY <1>1, <1>2, <1>3, <1>6, StepInv DEF RunInv, TypeOK
<1>8. ASSUME ~overlap PROVE SerialInv'
  <2>b. Busy(c) /\ ~At(c, "done")
    BY <1>3 DEF Busy, At
  <2>1. sync # "writing" /\ GateAlone /\ PlanningAlone(c) /\ MutatingAlone(c)
        /\ \A d \in Commands \ {c} : ~Busy(d)
    BY <1>8, <2>b, BusyAlone
  <2>2. cmd' \in [Commands -> Command] /\ cmd'[c] = new
    BY <1>t, <1>1, <1>2, ChangedCommand
  <2>3. GateAlone'
    BY <2>1, <2>b, <1>1, <1>2, <1>3, GateAloneKept
  <2>4. PlanningAlone(c)'
    BY <2>1, <2>2, <2>b, <1>1, <1>3, <1>4 DEF PlanningAlone, Busy, Saving, At, Others
  <2>5. MutatingAlone(c)'
    BY <2>1, <2>b, <1>1, <1>2, <1>3, <1>4, MutatingKept DEF Mutating
  <2> QED BY <1>8, <2>1, <2>3, <2>4, <2>5, <2>b, <1>1, <1>2, <1>3, SerialStep
<1> QED BY <1>3, <1>7, <1>8 DEF SerialInv

(* The exported plan is written. *)
LEMMA WritePlanJSONStep ==
  ASSUME RunInv, SerialInv, NEW c \in Commands, WritePlanJSON(c)
  PROVE  RunInv' /\ SerialInv'
<1> DEFINE new == [cmd[c] EXCEPT !.pc = "hash"]
<1>t. cmd \in [Commands -> Command] /\ cmd[c] \in Command
  BY DEF RunInv, TypeOK
<1>1. /\ new \in Command /\ new.pc = "hash" /\ new.kind = cmd[c].kind /\ new.read = cmd[c].read
      /\ new.connection = cmd[c].connection /\ new.passed = Passed(c) /\ new.hash = cmd[c].hash
      /\ new.used = cmd[c].used /\ new.syncedThen = cmd[c].syncedThen /\ new.failed = cmd[c].failed
  BY <1>t DEF Command, Steps, Passed
<1>2. Changes(c, new)
  BY Zenon DEF Changes, WritePlanJSON, Goto
<1>3. /\ At(c, "write") /\ Others /\ gate' = gate /\ tfplan' = tfplan /\ planJSON' = cmd[c].used
      /\ active' = active /\ overlap' = overlap
  BY DEF WritePlanJSON, edits, Others
<1>4. cmd[c].kind = "plan" /\ ~cmd[c].failed /\ cmd[c].used \in Plan
  BY <1>3, <1>t DEF RunInv, SavingInv, Saving, At, Command
<1> HIDE DEF new
<1>6. Advance(c, new) /\ EntryKept(c, new)
  BY <1>1, <1>3, <1>4 DEF Advance, EntryKept, At, Saving
<1>7. RunInv'
  BY <1>1, <1>2, <1>3, <1>4, <1>6, StepInv DEF RunInv, TypeOK
<1>8. ASSUME ~overlap PROVE SerialInv'
  <2>b. Busy(c) /\ ~At(c, "done")
    BY <1>3 DEF Busy, At
  <2>1. sync # "writing" /\ GateAlone /\ PlanningAlone(c) /\ MutatingAlone(c)
        /\ \A d \in Commands \ {c} : ~Busy(d)
    BY <1>8, <2>b, BusyAlone
  <2>2. cmd' \in [Commands -> Command] /\ cmd'[c] = new
    BY <1>t, <1>1, <1>2, ChangedCommand
  <2>3. GateAlone'
    BY <2>1, <2>b, <1>1, <1>2, <1>3, GateAloneKept
  <2>4. PlanningAlone(c)'
    BY <2>1, <2>2, <2>b, <1>1, <1>3, <1>4 DEF PlanningAlone, Busy, Saving, At, Others
  <2>5. MutatingAlone(c)'
    BY <2>1, <2>b, <1>1, <1>2, <1>3, <1>4, MutatingKept DEF Mutating
  <2> QED BY <1>8, <2>1, <2>3, <2>4, <2>5, <2>b, <1>1, <1>2, <1>3, SerialStep
<1> QED BY <1>3, <1>7, <1>8 DEF SerialInv

(* Both files are hashed with the command's output. *)
LEMMA HashPlanStep ==
  ASSUME RunInv, SerialInv, NEW c \in Commands, HashPlan(c)
  PROVE  RunInv' /\ SerialInv'
<1> DEFINE hash == [output |-> c, tfplan |-> tfplan, planJSON |-> planJSON]
           new == [cmd[c] EXCEPT !.pc = "record", !.hash = hash]
<1>t. cmd \in [Commands -> Command] /\ cmd[c] \in Command /\ tfplan \in Plan /\ planJSON \in Plan
  BY DEF RunInv, TypeOK
<1>h. hash \in Hash /\ hash.output = c /\ hash.tfplan = tfplan /\ hash.planJSON = planJSON
  BY <1>t DEF Hash
<1>2. Changes(c, new)
  BY Zenon DEF Changes, HashPlan
<1> HIDE DEF hash
<1>1. /\ new \in Command /\ new.pc = "record" /\ new.kind = cmd[c].kind /\ new.read = cmd[c].read
      /\ new.connection = cmd[c].connection /\ new.passed = Passed(c) /\ new.hash = hash
      /\ new.used = cmd[c].used /\ new.syncedThen = cmd[c].syncedThen /\ new.failed = cmd[c].failed
  BY <1>t, <1>h DEF Command, Steps, Passed
<1>3. /\ At(c, "hash") /\ Others /\ gate' = gate /\ tfplan' = tfplan /\ planJSON' = planJSON
      /\ active' = active /\ overlap' = overlap
  BY DEF HashPlan, edits, files, Others
<1>4. cmd[c].kind = "plan" /\ ~cmd[c].failed
  BY <1>3 DEF RunInv, SavingInv, Saving, At
<1>5. ~Passed(c)
  BY <1>4 DEF RunInv, PassedInv, Mutating
<1> HIDE DEF new
<1>6. Advance(c, new) /\ EntryKept(c, new)
  BY <1>1, <1>3, <1>4, <1>5, <1>h DEF Advance, EntryKept, At, Saving
<1>7. RunInv'
  BY <1>1, <1>2, <1>3, <1>6, StepInv DEF RunInv, TypeOK
<1>8. ASSUME ~overlap PROVE SerialInv'
  <2>b. Busy(c) /\ ~At(c, "done")
    BY <1>3 DEF Busy, At
  <2>1. sync # "writing" /\ GateAlone /\ PlanningAlone(c) /\ MutatingAlone(c)
        /\ \A d \in Commands \ {c} : ~Busy(d)
    BY <1>8, <2>b, BusyAlone
  <2>2. cmd' \in [Commands -> Command] /\ cmd'[c] = new
    BY <1>t, <1>1, <1>2, ChangedCommand
  <2>3. GateAlone'
    BY <2>1, <2>b, <1>1, <1>2, <1>3, GateAloneKept
  <2>4. PlanningAlone(c)'
    BY <2>1, <2>2, <2>b, <1>1, <1>3, <1>4, <1>h DEF PlanningAlone, Busy, Saving, At, Others, OnePlan
  <2>5. MutatingAlone(c)'
    BY <2>1, <2>b, <1>1, <1>2, <1>3, <1>4, <1>5, MutatingKept DEF Mutating
  <2> QED BY <1>8, <2>1, <2>3, <2>4, <2>5, <2>b, <1>1, <1>2, <1>3, SerialStep
<1> QED BY <1>3, <1>7, <1>8 DEF SerialInv

(* The hash is recorded: the only step that fills the gate. *)
LEMMA RecordPlanStep ==
  ASSUME RunInv, SerialInv, NEW c \in Commands, RecordPlan(c)
  PROVE  RunInv' /\ SerialInv'
<1> DEFINE new == [cmd[c] EXCEPT !.pc = "done"]
<1>t. cmd \in [Commands -> Command] /\ cmd[c] \in Command
  BY DEF RunInv, TypeOK
<1>1. /\ new \in Command /\ new.pc = "done" /\ new.kind = cmd[c].kind /\ new.read = cmd[c].read
      /\ new.connection = cmd[c].connection /\ new.passed = Passed(c) /\ new.hash = cmd[c].hash
      /\ new.used = cmd[c].used /\ new.syncedThen = cmd[c].syncedThen /\ new.failed = cmd[c].failed
  BY <1>t DEF Command, Steps, Passed
<1>2. Changes(c, new)
  BY Zenon DEF Changes, RecordPlan, Goto
<1>3. /\ At(c, "record") /\ Others /\ gate' = cmd[c].hash /\ tfplan' = tfplan /\ planJSON' = planJSON
      /\ active' = active /\ overlap' = overlap
  BY DEF RecordPlan, edits, files, Others
<1>4. cmd[c].kind = "plan" /\ ~cmd[c].failed /\ cmd[c].hash \in Hash /\ cmd[c].hash.output = c
  BY <1>3, <1>t DEF RunInv, SavingInv, Saving, At, Command, PlanOf
<1> HIDE DEF new
<1>6. Advance(c, new) /\ EntryKept(c, new)
  BY <1>1, <1>3, <1>4 DEF Advance, EntryKept, At, Saving
<1>n. cmd' \in [Commands -> Command] /\ cmd'[c] = new /\ \A d \in Commands \ {c} : cmd'[d] = cmd[d]
  BY <1>t, <1>1, <1>2, ChangedCommand
<1>7. RunInv'
  <2>1. TypeOK' /\ SyncInv' /\ NoStaleEntry'
    BY <1>1, <1>2, <1>3, <1>4, <1>6, StepKeepsTypes DEF RunInv, TypeOK
  <2>2. /\ SavingInv' /\ PassedInv'
        /\ \A d \in Commands : Passed(d)' => Passed(d) /\ PlanOf(d)' = PlanOf(d) /\ PlanOf(d) # c
    BY <1>1, <1>2, <1>6, StepKeepsGate DEF RunInv
  <2>3. Made(c)'
    BY <1>n, <1>1, <1>4 DEF Made, At
  <2>4. GateInv'
    BY <2>2, <2>3, <1>3, <1>4 DEF GateInv, Made, At
  <2> QED BY <2>1, <2>2, <2>4 DEF RunInv
<1>8. ASSUME ~overlap PROVE SerialInv'
  <2>b. Busy(c) /\ ~At(c, "done")
    BY <1>3 DEF Busy, At
  <2>1. sync # "writing" /\ GateAlone /\ PlanningAlone(c) /\ MutatingAlone(c)
        /\ \A d \in Commands \ {c} : ~Busy(d)
    BY <1>8, <2>b, BusyAlone
  <2>2. OnePlan(cmd[c].hash) /\ tfplan = c /\ cmd[c].read >= synced
    BY <2>1, <2>b, <1>3, <1>4 DEF PlanningAlone, Saving, At
  <2>3. GateAlone'
    BY <2>2, <1>n, <1>1, <1>3, <1>4 DEF GateAlone, OnePlan, Others
  <2>4. PlanningAlone(c)'
    BY <1>n, <1>1 DEF PlanningAlone, Busy
  <2>5. MutatingAlone(c)'
    BY <2>1, <2>b, <1>1, <1>2, <1>3, <1>4, MutatingKept DEF Mutating
  <2> QED BY <1>8, <2>1, <2>3, <2>4, <2>5, <2>b, <1>1, <1>2, <1>3, SerialStep
<1> QED BY <1>3, <1>7, <1>8 DEF SerialInv

(* The gate accepts: the mutation passes, and the plan is spent.           *)
LEMMA AcceptStep ==
  ASSUME RunInv, SerialInv, NEW c \in Commands, At(c, "consume"),
         GateAccepts(cmd[c].hash, cmd[c].connection), gate' = Nothing,
         cmd' = [cmd EXCEPT ![c].pc = "check", ![c].passed = TRUE, ![c].syncedThen = synced],
         UNCHANGED <<edits, files, active, overlap>>
  PROVE  RunInv' /\ SerialInv'
<1> DEFINE new == [cmd[c] EXCEPT !.pc = "check", !.passed = TRUE, !.syncedThen = synced]
<1>t. cmd \in [Commands -> Command] /\ cmd[c] \in Command /\ synced \in 0 .. MaxEdits
  BY PlanRunAssumption DEF RunInv, TypeOK
<1>1. /\ new \in Command /\ new.pc = "check" /\ new.kind = cmd[c].kind /\ new.read = cmd[c].read
      /\ new.connection = cmd[c].connection /\ new.passed = TRUE /\ new.hash = cmd[c].hash
      /\ new.used = cmd[c].used /\ new.syncedThen = synced /\ new.failed = cmd[c].failed
  BY <1>t DEF Command, Steps
<1>2. Changes(c, new)
  BY Zenon DEF Changes
<1>3. Others /\ tfplan' = tfplan /\ planJSON' = planJSON /\ active' = active /\ overlap' = overlap
  BY DEF edits, files, Others
<1> HIDE DEF new
<1>n. cmd' \in [Commands -> Command] /\ cmd'[c] = new /\ \A d \in Commands \ {c} : cmd'[d] = cmd[d]
  BY <1>t, <1>1, <1>2, ChangedCommand
<1>g. /\ gate # Nothing /\ cmd[c].hash = gate /\ gate \in Hash /\ Made(gate.output)
      /\ cmd[gate.output].connection = cmd[c].connection
      /\ gate.output \in Commands \ {c} /\ PlanOf(c) = gate.output
      /\ \A d \in Commands : Passed(d) => PlanOf(d) # gate.output
  BY DEF GateAccepts, RunInv, GateInv, Made, At, Hash, PlanOf
<1>k. cmd[c].kind \in Mutating /\ ~Passed(c)
  BY DEF RunInv, PassedInv, At
<1>7. RunInv'
  <2>1. TypeOK' /\ SyncInv' /\ NoStaleEntry'
    <3>1. EntryKept(c, new)
      BY <1>3 DEF EntryKept, At
    <3> QED BY <3>1, <1>1, <1>2, <1>3, StepKeepsTypes DEF RunInv, TypeOK
  <2>2. SavingInv'
    BY <1>n, <1>1 DEF RunInv, SavingInv, Saving, At, PlanOf
  <2>m. ASSUME NEW d \in Commands, Made(d) PROVE d # c /\ cmd'[d] = cmd[d] /\ Made(d)'
    BY <2>m, <1>n DEF Made, At
  <2>3. ASSUME NEW d \in Commands, Passed(d)'
        PROVE  /\ cmd'[d].kind \in Mutating /\ cmd'[d].pc \notin {"idle", "consume"}
               /\ Made(PlanOf(d))' /\ cmd'[cmd'[d].hash.output].connection = cmd'[d].connection
    <3>1. CASE d = c
      <4>1. PICK p \in Commands : p = gate.output
        BY <1>g
      <4>2. Made(p)' /\ cmd'[p] = cmd[p] /\ PlanOf(c)' = p
        BY <4>1, <2>m, <1>g, <1>n, <1>1 DEF PlanOf
      <4> QED BY <3>1, <4>1, <4>2, <1>g, <1>k, <1>n, <1>1 DEF Made, PlanOf, At
    <3>2. CASE d # c
      <4>1. Passed(d) /\ PlanOf(d)' = PlanOf(d) /\ PlanOf(d) \in Commands
        BY <2>3, <3>2, <1>n, <1>t DEF Passed, PlanOf, Command, Hash
      <4>2. Made(PlanOf(d)) /\ cmd[PlanOf(d)].connection = cmd[d].connection
            /\ cmd[d].kind \in Mutating /\ cmd[d].pc \notin {"idle", "consume"}
        BY <4>1 DEF RunInv, PassedInv
      <4>3. Made(PlanOf(d))' /\ cmd'[PlanOf(d)] = cmd[PlanOf(d)]
        BY ZenonT(60), <4>1, <4>2, <2>m DEF Made, At, PlanOf
      <4> QED BY <3>2, <4>1, <4>2, <4>3, <1>n DEF PlanOf
    <3> QED BY <3>1, <3>2
  <2>4. ASSUME NEW d \in Commands, At(d, "consume")' PROVE cmd'[d].kind \in Mutating
    BY <2>4, <1>n, <1>1 DEF At, RunInv, PassedInv
  <2>5. ASSUME NEW d \in Commands, NEW e \in Commands \ {d}, Passed(d)', Passed(e)'
        PROVE  PlanOf(e)' # PlanOf(d)'
    <3>1. PlanOf(d)' = PlanOf(d) /\ PlanOf(e)' = PlanOf(e)
      BY <1>n, <1>1 DEF PlanOf
    <3>2. (d # c => Passed(d)) /\ (e # c => Passed(e))
      BY <2>5, <1>n DEF Passed
    <3> QED BY <3>1, <3>2, <1>g DEF RunInv, PassedInv
  <2>6. PassedInv'
    BY <2>3, <2>4, <2>5 DEF PassedInv, PlanOf
  <2>7. GateInv'
    BY DEF GateInv
  <2> QED BY <2>1, <2>2, <2>6, <2>7 DEF RunInv
<1>8. ASSUME ~overlap PROVE SerialInv'
  <2>b. Busy(c) /\ ~At(c, "done")
    BY DEF Busy, At
  <2>1. sync # "writing" /\ GateAlone /\ MutatingAlone(c) /\ \A d \in Commands \ {c} : ~Busy(d)
    BY <1>8, <2>b, BusyAlone
  <2>2. OnePlan(gate) /\ tfplan = gate.output /\ cmd[gate.output].read >= synced
    BY <2>1, <1>g DEF GateAlone
  <2>3. GateAlone' /\ PlanningAlone(c)'
    BY <1>n, <1>1, <1>k DEF GateAlone, PlanningAlone, Mutating
  <2>4. cmd[c].used = Nothing
    BY <2>1 DEF MutatingAlone, At
  <2>5. Passed(c)' /\ PlanOf(c)' = gate.output /\ cmd'[gate.output] = cmd[gate.output]
        /\ cmd'[c].used = Nothing /\ cmd'[c].hash = gate /\ cmd'[c].syncedThen = synced
    BY <2>4, <1>n, <1>1, <1>g DEF Passed, PlanOf
  <2>6. MutatingAlone(c)'
    BY <2>2, <2>5, <1>3 DEF MutatingAlone, OnePlan, Applied
  <2> QED BY <1>8, <2>1, <2>3, <2>6, <2>b, <1>1, <1>2, <1>3, SerialStep
<1> QED BY <1>3, <1>7, <1>8 DEF SerialInv

(* The gate refuses.                                                       *)
LEMMA RefuseStep ==
  ASSUME RunInv, SerialInv, NEW c \in Commands, At(c, "consume"), Goto(c, "done"),
         UNCHANGED <<edits, files, gate, active, overlap>>
  PROVE  RunInv' /\ SerialInv'
<1> DEFINE new == [cmd[c] EXCEPT !.pc = "done"]
<1>t. cmd \in [Commands -> Command] /\ cmd[c] \in Command
  BY DEF RunInv, TypeOK
<1>1. /\ new \in Command /\ new.pc = "done" /\ new.kind = cmd[c].kind
      /\ new.connection = cmd[c].connection /\ new.passed = Passed(c) /\ new.hash = cmd[c].hash
      /\ new.used = cmd[c].used /\ new.syncedThen = cmd[c].syncedThen
  BY <1>t DEF Command, Steps, Passed
<1>2. Changes(c, new)
  BY Zenon DEF Changes, Goto
<1>3. /\ Others /\ gate' = gate /\ tfplan' = tfplan /\ planJSON' = planJSON
      /\ active' = active /\ overlap' = overlap
  BY DEF edits, files, Others
<1> HIDE DEF new
<1>6. Advance(c, new) /\ EntryKept(c, new)
  BY <1>1, <1>3 DEF Advance, EntryKept, At, Saving
<1>7. RunInv'
  BY <1>1, <1>2, <1>3, <1>6, StepInv DEF RunInv, TypeOK
<1>8. ASSUME ~overlap PROVE SerialInv'
  <2>b. Busy(c) /\ ~At(c, "done")
    BY DEF Busy, At
  <2>1. sync # "writing" /\ GateAlone /\ MutatingAlone(c) /\ \A d \in Commands \ {c} : ~Busy(d)
    BY <1>8, <2>b, BusyAlone
  <2>2. cmd' \in [Commands -> Command] /\ cmd'[c] = new
    BY <1>t, <1>1, <1>2, ChangedCommand
  <2>3. GateAlone'
    BY <2>1, <2>b, <1>1, <1>2, <1>3, GateAloneKept
  <2>4. PlanningAlone(c)'
    BY <2>2, <1>1 DEF PlanningAlone, Busy
  <2>5. cmd[c].used = Nothing
    BY <2>1 DEF MutatingAlone, At
  <2>6. MutatingAlone(c)'
    BY <2>1, <2>5, <2>b, <1>1, <1>2, <1>3, MutatingKept
  <2> QED BY <1>8, <2>1, <2>3, <2>4, <2>6, <2>b, <1>1, <1>2, <1>3, SerialStep
<1> QED BY <1>3, <1>7, <1>8 DEF SerialInv

(* The second check of a mutation. *)
LEMMA ConsumeStep ==
  ASSUME RunInv, SerialInv, NEW c \in Commands, Consume(c)
  PROVE  RunInv' /\ SerialInv'
<1>1. CASE GateAccepts(cmd[c].hash, cmd[c].connection)
  BY <1>1, AcceptStep, Zenon DEF Consume
<1>2. CASE ~GateAccepts(cmd[c].hash, cmd[c].connection)
  <2>1. At(c, "consume") /\ Goto(c, "done") /\ UNCHANGED <<edits, files, gate, active, overlap>>
    BY <1>2 DEF Consume
  <2> QED BY <2>1, RefuseStep
<1> QED BY <1>1, <1>2

-----------------------------------------------------------------------------
(* Steps from outside leave the commands alone, but for one they kill.     *)
LEMMA OutsideKeepsGate ==
  ASSUME RunInv, cmd' = cmd, active' = active, gate' \in {gate, Nothing}
  PROVE  NoStaleEntry' /\ SavingInv' /\ PassedInv' /\ GateInv'
<1>1. NoStaleEntry'
  BY DEF RunInv, NoStaleEntry
<1>2. SavingInv' /\ PassedInv'
  BY DEF RunInv, SavingInv, PassedInv, At, Made, Passed, PlanOf
<1>3. GateInv'
  BY DEF RunInv, GateInv, At, Made, Passed, PlanOf
<1> QED BY <1>1, <1>2, <1>3

(* What a mutation was let through with stands while tfplan does. *)
LEMMA OutsideKeepsAlone ==
  ASSUME NEW c \in Commands, MutatingAlone(c), cmd' = cmd, tfplan' = tfplan
  PROVE  MutatingAlone(c)'
  BY DEF MutatingAlone, OnePlan, Passed, PlanOf, Applied, Busy

(* A sync begins by clearing the gate. *)
LEMMA SyncInvalidateStep ==
  ASSUME RunInv, SerialInv, SyncInvalidate
  PROVE  RunInv' /\ SerialInv'
<1>1. /\ source < MaxEdits /\ sync' = "writing" /\ gate' = Nothing /\ source' = source /\ synced' = synced
      /\ noticed' = noticed /\ tfplan' = tfplan /\ planJSON' = planJSON /\ active' = active /\ cmd' = cmd
      /\ overlap' = (overlap \/ sync # "idle" \/ \E d \in Commands : Busy(d))
  BY DEF SyncInvalidate, files, Overlaps
<1>2. TypeOK' /\ SyncInv'
  BY <1>1 DEF RunInv, TypeOK, SyncInv
<1>3. ASSUME ~overlap' PROVE SerialInv'
  <2>1. ~overlap /\ \A d \in Commands : ~Busy(d) /\ ~Busy(d)'
    BY <1>1, <1>3 DEF Busy
  <2>2. GateAlone' /\ \A c \in Commands : PlanningAlone(c)'
    BY <1>1, <2>1 DEF GateAlone, PlanningAlone
  <2>3. \A c \in Commands : MutatingAlone(c)'
    BY <1>1, <2>1, OutsideKeepsAlone DEF SerialInv
  <2> QED BY <1>1, <2>1, <2>2, <2>3 DEF SerialInv
<1> QED BY <1>1, <1>2, <1>3, OutsideKeepsGate DEF RunInv, SerialInv

(* The end of a sync, whether it wrote everything or not.                  *)
LEMMA SyncEnds ==
  ASSUME RunInv, SerialInv, SyncWrite \/ SyncFails
  PROVE  RunInv' /\ SerialInv'
<1>1. /\ sync = "writing" /\ sync' = "idle" /\ noticed' = noticed /\ tfplan' = tfplan
      /\ planJSON' = planJSON /\ gate' = gate /\ active' = active /\ cmd' = cmd /\ overlap' = overlap
  BY DEF SyncWrite, SyncFails, files
<1>2. source' \in {source, source + 1} /\ synced' \in {synced, source + 1} /\ synced' <= source'
  BY DEF SyncWrite, SyncFails, RunInv, TypeOK
<1>3. TypeOK' /\ SyncInv'
  BY <1>1, <1>2, PlanRunAssumption DEF RunInv, TypeOK, SyncInv
<1>4. ASSUME ~overlap PROVE SerialInv'
  <2>1. gate = Nothing /\ \A d \in Commands : ~Busy(d) /\ ~Busy(d)'
    BY <1>1, <1>4 DEF SerialInv, Busy
  <2>2. GateAlone' /\ \A c \in Commands : PlanningAlone(c)'
    BY <1>1, <2>1 DEF GateAlone, PlanningAlone
  <2>3. \A c \in Commands : MutatingAlone(c)'
    BY <1>1, <1>4, OutsideKeepsAlone DEF SerialInv
  <2> QED BY <1>1, <2>1, <2>2, <2>3 DEF SerialInv
<1> QED BY <1>1, <1>3, <1>4, OutsideKeepsGate DEF RunInv, SerialInv

(* An edit, the watcher's notice and the record's expiry.                  *)
LEMMA EditStep ==
  ASSUME RunInv, SerialInv, Edit \/ WatcherNotify \/ Expire
  PROVE  RunInv' /\ SerialInv'
<1>1. /\ synced' = synced /\ sync' = sync /\ gate' \in {gate, Nothing} /\ tfplan' = tfplan
      /\ planJSON' = planJSON /\ active' = active /\ cmd' = cmd /\ overlap' = overlap
  BY DEF Edit, WatcherNotify, Expire, files, edits
<1>2. /\ (source' = source \/ source' = source + 1)
      /\ source' + (IF sync = "idle" THEN 0 ELSE 1) <= MaxEdits
      /\ noticed' \in {noticed, source} /\ noticed' <= source'
  BY PlanRunAssumption DEF Edit, WatcherNotify, Expire, edits, RunInv, TypeOK, SyncInv
<1>3. TypeOK' /\ SyncInv'
  BY <1>1, <1>2, PlanRunAssumption DEF RunInv, TypeOK, SyncInv
<1>4. ASSUME ~overlap PROVE SerialInv'
  <2>1. GateAlone'
    BY <1>1, <1>4 DEF SerialInv, GateAlone, OnePlan
  <2>2. ASSUME NEW c \in Commands PROVE PlanningAlone(c)'
    BY <1>1, <1>4 DEF SerialInv, PlanningAlone, Busy, At, OnePlan
  <2>3. \A c \in Commands : MutatingAlone(c)'
    BY <1>1, <1>4, OutsideKeepsAlone DEF SerialInv
  <2> QED BY <1>1, <1>4, <2>1, <2>2, <2>3 DEF SerialInv, Busy
<1> QED BY <1>1, <1>3, <1>4, OutsideKeepsGate DEF RunInv, SerialInv

(* A kill marks the command of the entry as failed. *)
LEMMA KillStep ==
  ASSUME RunInv, SerialInv, Kill
  PROVE  RunInv' /\ SerialInv'
<1>0. PICK c \in Commands : active = c /\ cmd[c].pc \in {"launch", "running"}
  BY DEF Kill, RunInv, TypeOK, NoStaleEntry, Plan
<1> DEFINE new == [cmd[c] EXCEPT !.failed = TRUE]
<1>t. cmd \in [Commands -> Command] /\ cmd[c] \in Command
  BY DEF RunInv, TypeOK
<1>1. /\ new \in Command /\ new.pc = cmd[c].pc /\ new.kind = cmd[c].kind /\ new.read = cmd[c].read
      /\ new.connection = cmd[c].connection /\ new.passed = Passed(c) /\ new.hash = cmd[c].hash
      /\ new.used = cmd[c].used /\ new.syncedThen = cmd[c].syncedThen
  BY <1>t DEF Command, Passed
<1>2. Changes(c, new)
  BY <1>0, Zenon DEF Changes, Kill
<1>3. /\ Others /\ gate' = gate /\ tfplan' = tfplan /\ planJSON' = planJSON
      /\ active' = active /\ overlap' = overlap
  BY DEF Kill, edits, files, Others
<1> HIDE DEF new
<1>6. Advance(c, new) /\ EntryKept(c, new)
  BY <1>0, <1>1, <1>3 DEF Advance, EntryKept, At, Saving
<1>7. RunInv'
  BY <1>1, <1>2, <1>3, <1>6, StepInv DEF RunInv, TypeOK
<1>8. ASSUME ~overlap PROVE SerialInv'
  <2>b. Busy(c) /\ ~At(c, "done")
    BY <1>0 DEF Busy, At
  <2>1. sync # "writing" /\ GateAlone /\ PlanningAlone(c) /\ MutatingAlone(c)
        /\ \A d \in Commands \ {c} : ~Busy(d)
    BY <1>8, <2>b, BusyAlone
  <2>2. cmd' \in [Commands -> Command] /\ cmd'[c] = new
    BY <1>t, <1>1, <1>2, ChangedCommand
  <2>3. GateAlone'
    BY <2>1, <2>b, <1>1, <1>2, <1>3, GateAloneKept
  <2>4. PlanningAlone(c)'
    BY <2>1, <2>2, <2>b, <1>0, <1>1, <1>3 DEF PlanningAlone, Busy, Saving, At, Others
  <2>5. /\ cmd[c].kind \in Mutating => Passed(c)
        /\ cmd[c].pc = "launch" => cmd[c].used = Nothing
        /\ cmd[c].kind = "apply" /\ cmd[c].used # Nothing => Passed(c) /\ cmd[c].used = PlanOf(c)
    BY <2>1, <1>0 DEF MutatingAlone, Applied
  <2>6. MutatingAlone(c)'
    BY <2>1, <2>5, <2>b, <1>0, <1>1, <1>2, <1>3, MutatingKept
  <2> QED BY <1>8, <2>1, <2>3, <2>4, <2>6, <2>b, <1>1, <1>2, <1>3, SerialStep
<1> QED BY <1>3, <1>7, <1>8 DEF SerialInv

-----------------------------------------------------------------------------
(* The invariant holds at first, *)
LEMMA InitRunInv == Init => RunInv /\ SerialInv
<1> SUFFICES ASSUME Init PROVE RunInv /\ SerialInv
  OBVIOUS
<1>1. \A c \in Commands : Unhashed(c) \in Hash /\ Unhashed(c).output = c
  BY DEF Unhashed, Hash, Plan
<1>2. cmd \in [Commands -> Command]
  BY <1>1, PlanRunAssumption DEF Init, Command, Steps, Kinds, Plan
<1>3. \A c \in Commands : /\ cmd[c].pc = "idle" /\ cmd[c].kind = "init" /\ cmd[c].passed = FALSE
                          /\ cmd[c].used = Nothing
  BY DEF Init
<1>4. TypeOK /\ SyncInv /\ NoStaleEntry
  <2>1. /\ source = 0 /\ synced = 0 /\ sync = "idle" /\ noticed = 0 /\ tfplan = Nothing
        /\ planJSON = Nothing /\ gate = Nothing /\ active = Nothing /\ overlap = FALSE
    BY DEF Init
  <2>2. source \in 0 .. MaxEdits /\ synced \in 0 .. source /\ noticed \in 0 .. source
    BY <2>1, PlanRunAssumption
  <2>3. TypeOK
    BY <1>2, <2>1, <2>2 DEF TypeOK, Plan
  <2>4. SyncInv /\ NoStaleEntry
    BY <2>1 DEF SyncInv, NoStaleEntry
  <2> QED BY <2>3, <2>4
<1>5. SavingInv /\ PassedInv /\ GateInv
  BY <1>3 DEF Init, SavingInv, Saving, PassedInv, GateInv, At, Passed
<1>6. SerialInv
  <2>1. GateAlone /\ sync # "writing"
    BY DEF Init, GateAlone
  <2>2. ASSUME NEW c \in Commands PROVE ~Busy(c) /\ PlanningAlone(c) /\ MutatingAlone(c)
    BY <1>3 DEF Busy, PlanningAlone, MutatingAlone, Passed, Applied, Mutating
  <2> QED BY <2>1, <2>2 DEF SerialInv
<1> QED BY <1>4, <1>5, <1>6 DEF RunInv

(* and every step keeps it. *)
LEMMA NextKeepsRunInv ==
  ASSUME RunInv, SerialInv, [Next]_vars
  PROVE  RunInv' /\ SerialInv'
<1>1. ASSUME NEW c \in Commands, NEW connection \in Connections,
             \/ RequestPlan(c, connection)
             \/ RequestInit(c, connection)
             \/ \E kind \in Mutating : RequestMutation(c, kind, connection)
      PROVE  RunInv' /\ SerialInv'
  BY <1>1, RequestPlanStep, RequestInitStep, RequestMutationStep
<1>2. ASSUME NEW c \in Commands, Progress(c) PROVE RunInv' /\ SerialInv'
  BY <1>2, ConsumeStep, CheckActiveStep, RegisterStep, LaunchStep, LaunchFailsStep, FinishStep,
     ExportStep, WritePlanJSONStep, HashPlanStep, RecordPlanStep DEF Progress
<1>3. CASE Outside
  BY <1>3, SyncInvalidateStep, SyncEnds, EditStep, KillStep DEF Outside
<1>4. CASE UNCHANGED vars
  <2>1. /\ source' = source /\ synced' = synced /\ sync' = sync /\ noticed' = noticed /\ tfplan' = tfplan
        /\ planJSON' = planJSON /\ gate' = gate /\ active' = active /\ cmd' = cmd /\ overlap' = overlap
    BY <1>4 DEF vars
  <2>2. TypeOK' /\ SyncInv'
    BY <2>1 DEF RunInv, TypeOK, SyncInv
  <2>3. RunInv'
    BY <2>1, <2>2, OutsideKeepsGate DEF RunInv
  <2>4. GateAlone = GateAlone' /\ \A c \in Commands : PlanningAlone(c) = PlanningAlone(c)'
    BY <2>1 DEF GateAlone, PlanningAlone, OnePlan, Busy, At
  <2>5. SerialInv'
    BY <2>1, <2>4, OutsideKeepsAlone DEF SerialInv, Busy
  <2> QED BY <2>3, <2>5
<1> QED BY <1>1, <1>2, <1>3, <1>4, Zenon DEF Next

(* In every reachable state of every instance the gate's record is of a    *)
(* plan that ended without failing and has not been spent, and, as long as *)
(* requests do not overlap, the files are still those of that plan.        *)
THEOREM RunInvariant == Safety => [](RunInv /\ SerialInv)
<1>1. Init => RunInv /\ SerialInv
  BY InitRunInv
<1>2. RunInv /\ SerialInv /\ [Next]_vars => (RunInv /\ SerialInv)'
  BY NextKeepsRunInv
<1> QED BY <1>1, <1>2, PTL DEF Safety

(* The variables of the plan gate, the SafeRunner and the directory keep   *)
(* their types.                                                            *)
THEOREM TypeCorrect == Safety => []TypeOK
<1>1. RunInv => TypeOK
  BY DEF RunInv
<1> QED BY <1>1, RunInvariant, PTL

(* However requests interleave, a mutation passes the gate only with a     *)
(* plan that ended without failing, made for the same connection, and no   *)
(* plan lets two mutations pass.                                           *)
THEOREM GateIsSound == Safety => []MutationsReviewed
<1>1. RunInv => MutationsReviewed
  BY DEF RunInv, PassedInv, MutationsReviewed, Made, At, PlanOf
<1> QED BY <1>1, RunInvariant, PTL

(* The SafeRunner's entry of the directory is of a command that is being   *)
(* launched or runs: none outlives its command.                            *)
THEOREM EntryIsCurrent == Safety => []NoStaleEntry
<1>1. RunInv => NoStaleEntry
  BY DEF RunInv
<1> QED BY <1>1, RunInvariant, PTL

(* A set whose elements are all equal has at most one. *)
LEMMA AtMostOne ==
  ASSUME NEW S, \A c, d \in S : c = d
  PROVE  Cardinality(S) <= 1
<1>1. CASE S = {}
  BY <1>1, FS_EmptySet
<1>2. CASE S # {}
  <2>1. PICK c : S = {c}
    BY <1>2
  <2>2. Cardinality({c}) = 1
    BY FS_Singleton
  <2> QED BY <2>1, <2>2
<1> QED BY <1>1, <1>2

(* As long as no two requests are in progress at once, one command runs in *)
(* the directory, apply executes the very plan that was hashed and         *)
(* classified, and no plan passes that a finished sync has made stale.     *)
THEOREM SerialUse == Safety => []SerialUseIsSafe
<1>1. ASSUME RunInv, SerialInv, ~overlap
      PROVE  /\ OneExecutionPerProject /\ AppliesHashedPlan /\ StalePlansRefused
             /\ \A c \in Commands : Applied(c) =>
                  cmd[c].used = PlanOf(c) /\ cmd[c].hash.planJSON \in {PlanOf(c), Nothing}
  <2>1. \A c \in Commands : MutatingAlone(c)
    BY <1>1 DEF SerialInv
  <2>2. OneExecutionPerProject
    <3>1. \A c, d \in Running : c = d
      BY <1>1 DEF SerialInv, Running, Busy
    <3> QED BY <3>1, AtMostOne DEF OneExecutionPerProject
  <2>3. AppliesHashedPlan
    BY <2>1 DEF AppliesHashedPlan, MutatingAlone, OnePlan, PlanOf
  <2>4. StalePlansRefused
    BY <2>1 DEF StalePlansRefused, MutatingAlone
  <2>5. \A c \in Commands : Applied(c) =>
          cmd[c].used = PlanOf(c) /\ cmd[c].hash.planJSON \in {PlanOf(c), Nothing}
    BY <2>1 DEF MutatingAlone, OnePlan, PlanOf
  <2> QED BY <2>2, <2>3, <2>4, <2>5
<1>2. RunInv /\ SerialInv => SerialUseIsSafe
  BY <1>1 DEF SerialUseIsSafe
<1> QED BY <1>2, RunInvariant, PTL
==============================================================================
