------------------------ MODULE ToolExecutionProofs ------------------------
(* Proofs about concurrent tool executions. *)
EXTENDS ToolExecution, FiniteSetTheorems, SequenceTheorems, TLAPS

(* What is proved of the Agent Run store, for the store used here. *)
Runs == INSTANCE AgentRunsProofs WITH MaxPatches <- 0

-----------------------------------------------------------------------------
(* The attempt table's operations.                                         *)

(* A non-empty set of naturals has a least element. *)
LEMMA LeastNatural ==
  ASSUME NEW T \in SUBSET Nat, T # {}
  PROVE  \E n \in T : \A m \in T : n <= m
<1>1. PICK n \in T : \A m \in T : ~(<<m, n>> \in OpToRel(<, Nat))
  BY NatLessThanWellFounded, WFMin
<1>2. \A m \in T : m < n => <<m, n>> \in OpToRel(<, Nat)
  BY DEF OpToRel
<1>3. \A m \in T : ~(m < n)
  BY <1>1, <1>2, Zenon
<1> QED BY <1>3

(* makeRoomLocked stops at some prefix of the list. *)
LEMMA EvictionsExist ==
  ASSUME NEW len \in Nat, len = Len(completed)
  PROVE  Evictions \in 0 .. len /\ (Fits(Evictions) \/ Evictions = len)
<1> DEFINE T == {n \in 0 .. len : Fits(n) \/ n = len}
<1>1. T \in SUBSET Nat /\ len \in T
  OBVIOUS
<1>2. PICK n \in T : \A m \in T : n <= m
  <2> HIDE DEF T
  <2> QED BY <1>1, LeastNatural
<1>3. \A m \in 0 .. (n - 1) : ~Fits(m)
  BY <1>2
<1>4. \E e \in 0 .. Len(completed) : /\ Fits(e) \/ e = Len(completed)
                                     /\ \A m \in 0 .. (e - 1) : ~Fits(m)
  BY <1>2, <1>3
<1> QED BY <1>4 DEF Evictions

(* The filter's loop: what it has kept after n keys. *)
Filters(keys, key, f, n) ==
  f = [i \in 0 .. n |-> IF i = 0 THEN <<>>
                        ELSE IF keys[i] = key THEN f[i - 1]
                        ELSE Append(f[i - 1], keys[i])]

LEMMA FilterExists ==
  ASSUME NEW keys, NEW key, NEW n \in Nat
  PROVE  \E f : Filters(keys, key, f, n)
<1> DEFINE T == {m \in Nat : ~\E f : Filters(keys, key, f, m)}
<1>1. SUFFICES ASSUME T # {} PROVE FALSE
  OBVIOUS
<1>2. PICK m \in T : \A l \in T : m <= l
  <2>1. T \in SUBSET Nat
    OBVIOUS
  <2> HIDE DEF T
  <2> QED BY <1>1, <2>1, LeastNatural
<1>3. CASE m = 0
  <2> DEFINE f == [i \in 0 .. 0 |-> <<>>]
  <2>1. Filters(keys, key, f, 0)
    BY DEF Filters
  <2> QED BY <1>2, <1>3, <2>1
<1>4. CASE m # 0
  <2>1. m - 1 \in Nat /\ m - 1 \notin T
    BY <1>2, <1>4
  <2>2. PICK f : Filters(keys, key, f, m - 1)
    BY <2>1
  <2> DEFINE g == [i \in 0 .. m |-> IF i # m THEN f[i]
                                    ELSE IF keys[m] = key THEN f[m - 1]
                                    ELSE Append(f[m - 1], keys[m])]
  <2>3. \A i \in 0 .. (m - 1) :
          f[i] = IF i = 0 THEN <<>> ELSE IF keys[i] = key THEN f[i - 1]
                 ELSE Append(f[i - 1], keys[i])
    BY <2>2 DEF Filters
  <2>4. \A i \in 0 .. m :
          g[i] = IF i = 0 THEN <<>> ELSE IF keys[i] = key THEN g[i - 1]
                 ELSE Append(g[i - 1], keys[i])
    <3> TAKE i \in 0 .. m
    <3>1. CASE i = m
      <4>1. i # 0 /\ m - 1 \in 0 .. m /\ m - 1 # m
        BY <1>4, <3>1
      <4>2. g[m - 1] = f[m - 1]
        BY <4>1
      <4> QED BY <3>1, <4>1, <4>2
    <3>2. CASE i # m
      <4>1. i \in 0 .. (m - 1) /\ g[i] = f[i]
        BY <3>2
      <4>2. i # 0 => g[i - 1] = f[i - 1]
        BY <3>2
      <4> QED BY <2>3, <4>1, <4>2
    <3> QED BY <3>1, <3>2
  <2>5. Filters(keys, key, g, m)
    <3>1. DOMAIN g = 0 .. m /\ g = [i \in 0 .. m |-> g[i]]
      OBVIOUS
    <3> HIDE DEF g
    <3> QED BY <2>4, <3>1, Zenon DEF Filters
  <2> QED BY <1>2, <2>5
<1> QED BY <1>3, <1>4

(* What removing a key from the list leaves. *)
LEMMA UnlistedLeaves ==
  ASSUME NEW S, NEW keys \in Seq(S), NEW key
  PROVE  /\ Unlisted(keys, key) \in Seq(S)
         /\ Range(Unlisted(keys, key)) = Range(keys) \ {key}
         /\ IsInjective(keys) => IsInjective(Unlisted(keys, key))
<1>1. PICK n \in Nat : n = Len(keys) /\ DOMAIN keys = 1 .. n /\ \A i \in 1 .. n : keys[i] \in S
  OBVIOUS
<1>2. PICK f : Filters(keys, key, f, n) /\ Unlisted(keys, key) = f[n]
  <2> DEFINE filtered == CHOOSE f : Filters(keys, key, f, n)
  <2>1. Filters(keys, key, filtered, n)
    BY FilterExists
  <2>2. Unlisted(keys, key) = filtered[n]
    BY <1>1, Zenon DEF Unlisted, Filters
  <2> QED BY <2>1, <2>2
<1>3. \A i \in 0 .. n : f[i] = IF i = 0 THEN <<>> ELSE IF keys[i] = key THEN f[i - 1]
                               ELSE Append(f[i - 1], keys[i])
  BY <1>2 DEF Filters
<1> DEFINE Good(i) ==
      /\ f[i] \in Seq(S)
      /\ \A j \in DOMAIN f[i] : f[i][j] # key /\ \E l \in 1 .. i : keys[l] = f[i][j]
      /\ \A l \in 1 .. i : keys[l] # key => \E j \in DOMAIN f[i] : keys[l] = f[i][j]
      /\ IsInjective(keys) => IsInjective(f[i])
    T == {i \in 0 .. n : ~Good(i)}
<1>4. T = {}
  <2>1. SUFFICES ASSUME T # {} PROVE FALSE
    OBVIOUS
  <2>2. PICK m \in T : \A l \in T : m <= l
    <3>1. T \in SUBSET Nat
      OBVIOUS
    <3> HIDE DEF T
    <3> QED BY <2>1, <3>1, LeastNatural
  <2>3. CASE m = 0
    <3>1. f[0] = <<>>
      BY <1>3
    <3>2. Good(0)
      BY <3>1 DEF IsInjective
    <3> QED BY <2>2, <2>3, <3>2
  <2>4. CASE m # 0
    <3>1. m - 1 \in 0 .. n /\ m \in 1 .. n /\ Good(m - 1)
      BY <2>2, <2>4
    <3>2. CASE keys[m] = key
      <4>1. f[m] = f[m - 1]
        BY <1>3, <3>1, <3>2
      <4>2. Good(m)
        BY <3>1, <3>2, <4>1
      <4> QED BY <2>2, <4>2
    <3>3. CASE keys[m] # key
      <4>1. PICK s \in Seq(S), k \in Nat :
              /\ s = f[m - 1] /\ k = Len(s) /\ DOMAIN s = 1 .. k
        BY <3>1
      <4>2. PICK t : t = f[m] /\ t = Append(s, keys[m])
        <5>1. m \in 0 .. n /\ m # 0
          BY <2>2, <2>4
        <5>2. f[m] = Append(f[m - 1], keys[m])
          BY <1>3, <3>3, <5>1
        <5> QED BY <4>1, <5>2
      <4>3. /\ t \in Seq(S) /\ DOMAIN t = 1 .. (k + 1) /\ t[k + 1] = keys[m]
            /\ \A j \in 1 .. k : t[j] = s[j]
        BY <1>1, <3>1, <4>1, <4>2
      <4>4. \A j \in DOMAIN t : t[j] # key /\ \E l \in 1 .. m : keys[l] = t[j]
        <5> TAKE j \in DOMAIN t
        <5>1. CASE j = k + 1
          BY <3>1, <3>3, <4>3, <5>1
        <5>2. CASE j # k + 1
          <6>1. j \in 1 .. k /\ t[j] = s[j]
            BY <4>3, <5>2
          <6>2. s[j] # key /\ \E l \in 1 .. (m - 1) : keys[l] = s[j]
            BY <3>1, <4>1, <6>1
          <6> QED BY <3>1, <6>1, <6>2
        <5> QED BY <5>1, <5>2
      <4>5. \A l \in 1 .. m : keys[l] # key => \E j \in DOMAIN t : keys[l] = t[j]
        <5> SUFFICES ASSUME NEW l \in 1 .. m, keys[l] # key
                     PROVE  \E j \in 1 .. (k + 1) : keys[l] = t[j]
          BY <4>3
        <5>1. CASE l = m
          BY <4>3, <5>1
        <5>2. CASE l # m
          <6>1. l \in 1 .. (m - 1)
            BY <3>1, <5>2
          <6>2. PICK j \in 1 .. k : keys[l] = s[j]
            BY <3>1, <4>1, <6>1
          <6> QED BY <4>3, <6>2
        <5> QED BY <5>1, <5>2
      <4>6. ASSUME IsInjective(keys) PROVE IsInjective(t)
        <5>1. \A j \in 1 .. k : s[j] # keys[m]
          <6> TAKE j \in 1 .. k
          <6>1. PICK l \in 1 .. (m - 1) : keys[l] = s[j]
            BY <3>1, <4>1
          <6>2. l \in 1 .. n /\ m \in 1 .. n /\ l # m
            BY <3>1, <6>1
          <6>3. keys[l] # keys[m]
            BY <1>1, <4>6, <6>2 DEF IsInjective
          <6> QED BY <6>1, <6>3
        <5>2. IsInjective(s)
          BY <3>1, <4>1, <4>6
        <5>3. ASSUME NEW a \in 1 .. (k + 1), NEW b \in 1 .. (k + 1), t[a] = t[b]
              PROVE  a = b
          <6>1. CASE a \in 1 .. k /\ b \in 1 .. k
            <7>1. s[a] = s[b]
              BY <4>3, <5>3, <6>1
            <7> QED BY <4>1, <5>2, <6>1, <7>1 DEF IsInjective
          <6>2. CASE a = k + 1 \/ b = k + 1
            BY <4>1, <4>3, <5>1, <5>3, <6>2
          <6> QED BY <6>1, <6>2
        <5> QED BY <4>3, <5>3 DEF IsInjective
      <4>7. Good(m)
        BY <4>2, <4>3, <4>4, <4>5, <4>6
      <4> QED BY <2>2, <4>7
    <3> QED BY <3>2, <3>3
  <2> QED BY <2>3, <2>4
<1>5. Good(n)
  <2> HIDE DEF Good
  <2>1. n \in 0 .. n
    OBVIOUS
  <2> QED BY <1>4, <2>1
<1>6. PICK t \in Seq(S) : t = Unlisted(keys, key) /\ t = f[n]
  BY <1>2, <1>5
<1>7. Range(t) = Range(keys) \ {key}
  <2>1. /\ \A j \in DOMAIN t : t[j] # key /\ \E l \in 1 .. n : keys[l] = t[j]
        /\ \A l \in 1 .. n : keys[l] # key => \E j \in DOMAIN t : keys[l] = t[j]
    BY <1>5, <1>6
  <2> HIDE DEF Good, T
  <2>2. ASSUME NEW x \in Range(t) PROVE x \in Range(keys) \ {key}
    <3>1. PICK j \in DOMAIN t : x = t[j]
      BY <2>2 DEF Range
    <3>2. t[j] # key /\ \E l \in DOMAIN keys : keys[l] = t[j]
      BY <1>1, <2>1
    <3> QED BY <3>1, <3>2 DEF Range
  <2>3. ASSUME NEW x \in Range(keys) \ {key} PROVE x \in Range(t)
    BY <1>1, <2>1, <2>3 DEF Range
  <2> QED BY <2>2, <2>3
<1> QED BY <1>5, <1>6, <1>7
-----------------------------------------------------------------------------
(* The store's operations that are served are operations of the store.     *)

LEMMA SameStore ==
  /\ Store!Live = Runs!Live /\ Store!Init = Runs!Init /\ Store!TypeOK = Runs!TypeOK
  /\ Store!Mode = Runs!Mode /\ Store!Run = Runs!Run
<1> USE DEF Store!Live, Runs!Live, Store!Run, Runs!Run, Store!Mode, Runs!Mode,
            Store!Status, Runs!Status, Store!LogEntry, Runs!LogEntry,
            Store!Gate, Runs!Gate, Store!GateStatus, Runs!GateStatus,
            Store!Binding, Runs!Binding
<1>1. Store!Live = Runs!Live /\ Store!Mode = Runs!Mode /\ Store!Run = Runs!Run
  OBVIOUS
<1>2. Store!Init = Runs!Init
  BY DEF Store!Init, Runs!Init
<1>3. Store!TypeOK = Runs!TypeOK
  BY DEF Store!TypeOK, Runs!TypeOK
<1> QED BY <1>1, <1>2, <1>3

LEMMA SameTypes == Runs!TypeOK => Store!TypeOK
BY SameStore

LEMMA SameOperations ==
  /\ \A mode : Store!Create(mode) => Runs!Create(mode)
  /\ \A id : Store!Cancel(id) => Runs!Cancel(id)
  /\ \A id : Store!Fail(id) => Runs!Fail(id)
  /\ \A id : Store!AddLogIfNoPendingApprovals(id) => Runs!AddLogIfNoPendingApprovals(id)
  /\ \A id, binding : Store!AddApproval(id, binding) => Runs!AddApproval(id, binding)
  /\ \A id : Store!Decide(id) => Runs!Decide(id)
  /\ \A id, g : Store!ConsumeApprovalBinding(id, g) => Runs!ConsumeApprovalBinding(id, g)
<1> USE DEF Store!Live, Runs!Live, Store!Update, Runs!Update, Store!Open, Runs!Open,
            Store!IsTerminal, Runs!IsTerminal, Store!Terminal, Runs!Terminal,
            Store!Logged, Runs!Logged, Store!Waits, Runs!Waits,
            Store!HasPending, Runs!HasPending
<1>1. \A mode : Store!Create(mode) => Runs!Create(mode)
  BY Zenon DEF Store!Create, Runs!Create, Store!Evicted, Runs!Evicted, Store!NewRun, Runs!NewRun
<1>2. \A id : Store!Cancel(id) => Runs!Cancel(id)
  BY Zenon DEF Store!Cancel, Runs!Cancel, Store!Canceled, Runs!Canceled
<1>3. \A id : Store!Fail(id) => Runs!Fail(id)
  BY Zenon DEF Store!Fail, Runs!Fail, Store!Failed, Runs!Failed
<1>4. \A id : Store!AddLogIfNoPendingApprovals(id) => Runs!AddLogIfNoPendingApprovals(id)
  BY Zenon DEF Store!AddLogIfNoPendingApprovals, Runs!AddLogIfNoPendingApprovals
<1>5. \A id, binding : Store!AddApproval(id, binding) => Runs!AddApproval(id, binding)
  BY Zenon DEF Store!AddApproval, Runs!AddApproval, Store!WithGate, Runs!WithGate
<1>6. \A id : Store!Decide(id) => Runs!Decide(id)
  BY Zenon DEF Store!Decide, Runs!Decide, Store!DecideApproval, Runs!DecideApproval,
       Store!Approved, Runs!Approved, Store!Rejected, Runs!Rejected,
       Store!Decided, Runs!Decided, Store!WithDecision, Runs!WithDecision
<1>7. \A id, g : Store!ConsumeApprovalBinding(id, g) => Runs!ConsumeApprovalBinding(id, g)
  BY Zenon DEF Store!ConsumeApprovalBinding, Runs!ConsumeApprovalBinding,
       Store!Spendable, Runs!Spendable, Store!Spent, Runs!Spent, Store!Unbound, Runs!Unbound
<1> QED BY <1>1, <1>2, <1>3, <1>4, <1>5, <1>6, <1>7

(* What a step can do to the store: ask for an approval, or something that *)
(* opens no gate.                                                          *)
Asks == \E id \in Store!Live, op \in Operations : Store!AddApproval(id, op)

OpensNone ==
  \/ \E mode \in UserModes : Store!Create(mode)
  \/ \E id \in Store!Live : Store!Cancel(id) \/ Store!Decide(id)
  \/ \E id \in Store!Live : Store!Fail(id) \/ Store!AddLogIfNoPendingApprovals(id)
  \/ \E id \in Store!Live : \E g \in DOMAIN runs[id].gates : Store!ConsumeApprovalBinding(id, g)
  \/ UNCHANGED storeVars

StoreMoves == OpensNone \/ Asks

(* Each of these is a step of the store, or none. *)
LEMMA StoreSteps == StoreMoves => [Runs!Next]_storeVars
<1>1. UserModes \subseteq Store!Mode /\ Operations \subseteq Runs!Binding
  BY ExecutionAssumption DEF Runs!Binding
<1> QED BY <1>1, SameStore, SameOperations DEF StoreMoves, OpensNone, Asks, Runs!Next, Runs!Consume

(* So a step keeps the store's own invariant. *)
LEMMA StoreKept ==
  ASSUME Runs!StoreInv, StoreMoves
  PROVE  Runs!StoreInv'
<1>1. MaxRuns \in Nat \ {0} /\ NoBinding \notin Operations
  BY ExecutionAssumption
<1>2. CASE UNCHANGED storeVars
  BY <1>2 DEF storeVars, Runs!StoreInv, Runs!TypeOK, Runs!KeepsMostRecentRuns, Runs!Live
<1>3. CASE Runs!Next
  BY <1>1, <1>3, Runs!NextInv
<1> QED BY <1>2, <1>3, StoreSteps

-----------------------------------------------------------------------------
(* Types.                                                                  *)

(* The identifier of a run in use has been handed out. *)
RunsKnown == next <= MaxCreates /\ \A c \in Clients : req[c].pc # "start" => req[c].run \in 1 .. next

Typed == TypeOK /\ Runs!StoreInv /\ RunsKnown

(* The remembered identifiers have been handed out; their runs are runs.   *)
LEMMA LiveRuns ==
  ASSUME Runs!StoreInv
  PROVE  /\ next \in Nat
         /\ \A id \in Store!Live : id \in 1 .. next /\ runs[id] \in Store!Run
<1>1. /\ next \in Nat /\ runs \in [Store!Live -> Store!Run] /\ order \in Seq(Nat)
      /\ Len(order) = IF next < MaxRuns THEN next ELSE MaxRuns
      /\ \A i \in DOMAIN order : order[i] = next - Len(order) + i
  BY SameStore DEF Runs!StoreInv, Runs!TypeOK, Runs!KeepsMostRecentRuns
<1>2. MaxRuns \in Nat
  BY ExecutionAssumption
<1>3. ASSUME NEW id \in Store!Live PROVE id \in 1 .. next
  <2>1. PICK i \in DOMAIN order : id = order[i]
    BY DEF Store!Live
  <2>2. i \in 1 .. Len(order) /\ Len(order) \in Nat /\ Len(order) <= next
    BY <1>1, <1>2
  <2> QED BY <1>1, <2>1, <2>2
<1> QED BY <1>1, <1>3

(* What Authorize can answer: anything but a denial is within the mode. *)
LEMMA Authorized ==
  ASSUME NEW request, NEW policies, NEW found
  PROVE  LET d == D!Authorize(request, policies, found)
         IN  /\ d \in D!Decision
             /\ d.status # "denied" => D!ModeAllowsRisk(request.mode, request.risk)
<1> DEFINE d == D!Authorize(request, policies, found)
           Good(e) == \/ e \in {D!Denied(reason) : reason \in D!DeniedReasons}
                      \/ e = D!ApprovalRequired \/ e = D!Allowed
<1>1. ASSUME NEW rule, NEW verdict
      PROVE  Good(D!EvaluateMatched(rule, request, verdict))
  BY DEF D!EvaluateMatched, D!DeniedReasons
<1>2. Good(d)
  BY <1>1, Zenon DEF D!Authorize, D!DeniedReasons
<1>3. ~D!ModeAllowsRisk(request.mode, request.risk) => d = D!Denied("mode_risk_mismatch")
  BY Zenon DEF D!Authorize
<1>4. D!Denied("mode_risk_mismatch").status = "denied"
  BY DEF D!Denied
<1>5. d \in D!Decision
  BY <1>2 DEF D!Decision, D!Denied, D!ApprovalRequired, D!Allowed
<1> QED BY <1>3, <1>4, <1>5

(* Every step does one of those things to the store. *)
LEMMA StepStore ==
  ASSUME Typed, [Next]_vars
  PROVE  StoreMoves
<1>1. CASE UNCHANGED vars
  BY <1>1 DEF vars, StoreMoves, OpensNone, Asks, storeVars
<1>2. ASSUME NEW c \in Clients, Begin(c) \/ Disconnect(c) PROVE StoreMoves
  BY <1>2, Zenon DEF Begin, Disconnect, StoreMoves, OpensNone, Asks
<1>3. ASSUME NEW c \in Clients,
             \/ Claim(c) \/ Replay(c) \/ Check(c) \/ Authorize(c)
             \/ Recheck(c) \/ Invoke(c) \/ Return(c) \/ Publish(c)
      PROVE  StoreMoves
  BY <1>3, Zenon DEF Claim, Replay, Check, Authorize, Recheck, Invoke, Return, Publish, StoreMoves, OpensNone, Asks
<1>4. ASSUME NEW c \in Clients, Record(c) PROVE StoreMoves
  BY <1>4, Zenon DEF Record, RecordDenied, RecordAllowed, FindApproval, StoreMoves, OpensNone, Asks, Store!Open
<1>5. ASSUME NEW c \in Clients, Consume(c) PROVE StoreMoves
  BY <1>5, Zenon DEF Consume, StoreMoves, OpensNone, Asks, Store!Open, Store!ConsumeApprovalBinding
<1>6. ASSUME NEW c \in Clients, OpenGate(c) PROVE StoreMoves
  <2>1. Operation(c) \in Operations
    BY DEF Typed, TypeOK, Request, Operation, Operations
  <2> QED BY <1>6, <2>1, Zenon DEF OpenGate, StoreMoves, OpensNone, Asks, Store!Open
<1>7. CASE UserStep
  BY <1>7, Zenon DEF UserStep, StoreMoves, OpensNone, Asks
<1>8. CASE ChangeInventory
  BY <1>8, Zenon DEF ChangeInventory, StoreMoves, OpensNone, Asks
<1> QED BY <1>1, <1>2, <1>3, <1>4, <1>5, <1>6, <1>7, <1>8 DEF Next, Step

(* Identifiers are only handed out by Create, up to its bound. *)
LEMMA NextGrows ==
  ASSUME Typed, StoreMoves
  PROVE  next' \in Nat /\ next <= next' /\ next' <= MaxCreates
<1>1. next \in Nat /\ next <= MaxCreates /\ MaxCreates \in Nat
  BY LiveRuns, ExecutionAssumption DEF Typed, RunsKnown
<1>2. next' = next \/ (next < MaxCreates /\ next' = next + 1)
  BY Zenon DEF StoreMoves, OpensNone, Asks, storeVars, Store!Create, Store!Cancel, Store!Decide, Store!DecideApproval,
     Store!Fail, Store!AddLogIfNoPendingApprovals, Store!AddApproval,
     Store!ConsumeApprovalBinding, Store!Update
<1> QED BY <1>1, <1>2

-----------------------------------------------------------------------------
(* What a step does to the requests.                                       *)

(* The other requests stay as they are. *)
OthersStay(c) ==
  req' \in [Clients -> Request] /\ \A d \in Clients \ {c} : req'[d] = req[d]

(* The request goes on with what it asked for. *)
SameCall(c) ==
  /\ req'[c].run = req[c].run /\ req'[c].key = req[c].key /\ req'[c].mode = req[c].mode
  /\ req'[c].call = req[c].call /\ req'[c].risk = req[c].risk

SameDecision(c) == req'[c].decision = req[c].decision /\ req'[c].gate = req[c].gate

(* Request c goes to pc and changes nothing else but its leader and err. *)
MovesTo(c, pc) ==
  /\ OthersStay(c) /\ SameCall(c) /\ SameDecision(c)
  /\ req'[c].pc = pc /\ req'[c].sent = req[c].sent

SameLeader(c) == req'[c].leader = req[c].leader
SameErr(c) == req'[c].err = req[c].err

(* The change of one request. *)
LEMMA OneChanges ==
  ASSUME Typed, NEW c \in Clients, NEW r \in Request, req' = [req EXCEPT ![c] = r]
  PROVE  OthersStay(c) /\ req'[c] = r
BY DEF Typed, TypeOK, OthersStay

(* A request with other values in its fields is a request. *)
LEMMA RequestUpdates ==
  ASSUME NEW r \in Request, NEW pc \in Steps
  PROVE  /\ [r EXCEPT !.pc = pc] \in Request
         /\ \A err \in BOOLEAN : [r EXCEPT !.pc = pc, !.err = err] \in Request
         /\ \A l \in Clients : [r EXCEPT !.pc = pc, !.leader = l] \in Request
         /\ \A sent \in BOOLEAN : [r EXCEPT !.pc = pc, !.sent = sent] \in Request
         /\ \A gate \in Nat : [r EXCEPT !.pc = pc, !.gate = gate] \in Request
         /\ \A d \in D!Decision : [r EXCEPT !.pc = pc, !.decision = d] \in Request
BY DEF Request

LEMMA StepNames ==
  /\ "claim" \in Steps /\ "wait" \in Steps /\ "check" \in Steps /\ "authorize" \in Steps
  /\ "record" \in Steps /\ "consume" \in Steps /\ "gate" \in Steps /\ "recheck" \in Steps
  /\ "invoke" \in Steps /\ "calling" \in Steps /\ "publish" \in Steps /\ "done" \in Steps
BY DEF Steps

(* Two fields of one request change. *)
LEMMA TwoFields ==
  ASSUME NEW f \in [Clients -> Request], NEW c \in Clients, NEW pc, NEW v
  PROVE  /\ [f EXCEPT ![c].pc = pc, ![c].err = v]
              = [f EXCEPT ![c] = [f[c] EXCEPT !.pc = pc, !.err = v]]
         /\ [f EXCEPT ![c].pc = pc, ![c].leader = v]
              = [f EXCEPT ![c] = [f[c] EXCEPT !.pc = pc, !.leader = v]]
         /\ [f EXCEPT ![c].pc = pc, ![c].sent = v]
              = [f EXCEPT ![c] = [f[c] EXCEPT !.pc = pc, !.sent = v]]
         /\ [f EXCEPT ![c].pc = pc, ![c].gate = v]
              = [f EXCEPT ![c] = [f[c] EXCEPT !.pc = pc, !.gate = v]]
         /\ [f EXCEPT ![c].pc = pc, ![c].decision = v]
              = [f EXCEPT ![c] = [f[c] EXCEPT !.pc = pc, !.decision = v]]
OBVIOUS

LEMMA GotoMoves ==
  ASSUME Typed, NEW c \in Clients, NEW pc \in Steps
  PROVE  /\ Goto(c, pc) => MovesTo(c, pc) /\ SameLeader(c) /\ SameErr(c)
         /\ Succeed(c) => MovesTo(c, "publish") /\ SameLeader(c) /\ SameErr(c)
         /\ GiveUp(c) => MovesTo(c, "publish") /\ SameLeader(c) /\ req'[c].err = TRUE
         /\ \A err \in BOOLEAN :
              Answer(c, err) => MovesTo(c, "done") /\ SameLeader(c) /\ req'[c].err = err
<1> USE DEF MovesTo, OthersStay, SameCall, SameDecision, SameLeader, SameErr
<1>1. req \in [Clients -> Request]
  BY DEF Typed, TypeOK
<1>2. Goto(c, pc) => MovesTo(c, pc) /\ SameLeader(c) /\ SameErr(c)
  BY <1>1 DEF Goto, Request
<1>3. Succeed(c) => MovesTo(c, "publish") /\ SameLeader(c) /\ SameErr(c)
  BY <1>1 DEF Succeed, Request, Steps
<1>4. GiveUp(c) => MovesTo(c, "publish") /\ SameLeader(c) /\ req'[c].err = TRUE
  <2> DEFINE r == [req[c] EXCEPT !.pc = "publish", !.err = TRUE]
  <2>1. GiveUp(c) => req' = [req EXCEPT ![c] = r]
    BY <1>1, TwoFields, Zenon DEF GiveUp
  <2>2. r \in Request
    BY <1>1, RequestUpdates, StepNames
  <2>3. /\ r.pc = "publish" /\ r.err = TRUE
        /\ r.run = req[c].run /\ r.key = req[c].key /\ r.mode = req[c].mode
        /\ r.call = req[c].call /\ r.risk = req[c].risk
        /\ r.decision = req[c].decision /\ r.gate = req[c].gate
        /\ r.sent = req[c].sent /\ r.leader = req[c].leader
    BY <1>1 DEF Request
  <2> HIDE DEF r
  <2> QED BY <2>1, <2>2, <2>3, OneChanges
<1>5. ASSUME NEW err \in BOOLEAN, Answer(c, err)
      PROVE  MovesTo(c, "done") /\ SameLeader(c) /\ req'[c].err = err
  <2> DEFINE r == [req[c] EXCEPT !.pc = "done", !.err = err]
  <2>1. req' = [req EXCEPT ![c] = r]
    BY <1>1, <1>5, TwoFields, Zenon DEF Answer
  <2>2. r \in Request
    BY <1>1, RequestUpdates, StepNames
  <2> QED BY <1>1, <2>1, <2>2, OneChanges DEF Request
<1> QED BY <1>2, <1>3, <1>4, <1>5

(* Begin gives an untouched request its run and what it asks for. *)
LEMMA BeginMoves ==
  ASSUME Typed, NEW c \in Clients, Begin(c)
  PROVE  /\ OthersStay(c) /\ SameDecision(c) /\ SameLeader(c) /\ SameErr(c)
         /\ req[c].pc = "start" /\ req'[c].pc = "claim" /\ req'[c].sent = req[c].sent
         /\ req'[c].run \in Store!Live
<1> USE DEF OthersStay, SameDecision, SameLeader, SameErr
<1>1. PICK id \in Store!Live, key \in Keys, call \in Calls :
        req' = [req EXCEPT ![c] = [@ EXCEPT !.pc = "claim", !.run = id,
                                            !.mode = runs[id].mode, !.key = key,
                                            !.call = call, !.risk = airlock.risk]]
  BY DEF Begin
<1>2. req \in [Clients -> Request] /\ airlock.risk \in D!Risks
  BY ExecutionAssumption DEF Typed, TypeOK
<1>3. id \in Nat /\ runs[id].mode \in Store!Mode
  BY LiveRuns DEF Typed, Store!Run
<1>4. req[c].pc = "start"
  BY DEF Begin
<1> DEFINE r == [req[c] EXCEPT !.pc = "claim", !.run = id, !.mode = runs[id].mode,
                               !.key = key, !.call = call, !.risk = airlock.risk]
<1>5. req' = [req EXCEPT ![c] = r]
  BY <1>1, <1>2
<1>6. r \in Request
  <2>1. PICK mode \in Store!Mode, risk \in D!Risks : mode = runs[id].mode /\ risk = airlock.risk
    BY <1>2, <1>3
  <2>2. PICK q \in Request : q = req[c]
    BY <1>2
  <2>3. [q EXCEPT !.pc = "claim", !.run = id, !.mode = mode,
                  !.key = key, !.call = call, !.risk = risk] \in Request
    BY <1>3, StepNames DEF Request
  <2> QED BY <2>1, <2>2, <2>3
<1>7. /\ r.pc = "claim" /\ r.run = id /\ r.decision = req[c].decision /\ r.gate = req[c].gate
      /\ r.sent = req[c].sent /\ r.leader = req[c].leader /\ r.err = req[c].err
  BY <1>2 DEF Request
<1> HIDE DEF r
<1> QED BY <1>4, <1>5, <1>6, <1>7, OneChanges

(* Claim refuses the request, lets it wait for the leader of its key, or   *)
(* lets it lead.                                                           *)
LEMMA ClaimMoves ==
  ASSUME Typed, NEW c \in Clients, Claim(c)
  PROVE  /\ req[c].pc = "claim"
         /\ \/ /\ MovesTo(c, "done") /\ SameLeader(c) /\ req'[c].err = TRUE
               /\ \/ UNCHANGED <<tableVars, attempt>>
                  \/ NewAttempt(c) /\ ~Fits(Evictions) /\ UNCHANGED attempt
            \/ /\ MovesTo(c, "wait") /\ SameErr(c) /\ Join(c)
               /\ req'[c].leader = entries[Key(c)]
            \/ /\ MovesTo(c, "check") /\ SameErr(c) /\ req'[c].leader = c
               /\ TakeOver(c) \/ (NewAttempt(c) /\ Fits(Evictions))
<1>1. req \in [Clients -> Request] /\ Range(entries) \subseteq Clients
  BY DEF Typed, TypeOK
<1>2. CASE ClaimGone(c) \/ Conflict(c)
  BY <1>2, GotoMoves DEF ClaimGone, Conflict, Claim, Steps
<1>3. CASE Join(c)
  <2>1. entries[Key(c)] \in Clients
    BY <1>1, <1>3 DEF Join, Range
  <2>2. req' = [req EXCEPT ![c].pc = "wait", ![c].leader = entries[Key(c)]]
    BY <1>3 DEF Join
  <2>3. MovesTo(c, "wait") /\ SameErr(c) /\ req'[c].leader = entries[Key(c)]
    <3> DEFINE r == [req[c] EXCEPT !.pc = "wait", !.leader = entries[Key(c)]]
    <3>1. req' = [req EXCEPT ![c] = r]
      BY <1>1, <2>2, TwoFields, Zenon
    <3>2. r \in Request
      BY <1>1, <2>1, RequestUpdates, StepNames
    <3> QED BY <1>1, <3>1, <3>2, OneChanges DEF Request, MovesTo, SameCall, SameDecision, SameErr
  <2> QED BY <1>3, <2>3 DEF Claim
<1>4. ASSUME Lead(c) PROVE MovesTo(c, "check") /\ SameErr(c) /\ req'[c].leader = c
  <2> DEFINE r == [req[c] EXCEPT !.pc = "check", !.leader = c]
  <2>1. req' = [req EXCEPT ![c] = r]
    BY <1>1, <1>4, TwoFields, Zenon DEF Lead
  <2>2. r \in Request
    BY <1>1, RequestUpdates, StepNames
  <2> QED BY <1>1, <2>1, <2>2, OneChanges DEF Request, MovesTo, SameCall, SameDecision, SameErr
<1>5. CASE TakeOver(c)
  <2>1. Lead(c)
    BY <1>5, Zenon DEF TakeOver
  <2>2. req[c].pc = "claim"
    BY DEF Claim
  <2>3. MovesTo(c, "check") /\ SameErr(c) /\ req'[c].leader = c
    BY <1>4, <2>1
  <2> QED BY <1>5, <2>2, <2>3, Zenon
<1>6. CASE NewAttempt(c)
  <2>1. CASE Fits(Evictions)
    BY <1>4, <1>6, <2>1 DEF NewAttempt, Claim
  <2>2. CASE ~Fits(Evictions)
    <3>1. Answer(c, TRUE) /\ UNCHANGED attempt
      BY <1>6, <2>2 DEF NewAttempt
    <3>2. MovesTo(c, "done") /\ SameLeader(c) /\ req'[c].err = TRUE
      BY <3>1, GotoMoves, StepNames
    <3>3. req[c].pc = "claim"
      BY DEF Claim
    <3> QED BY <1>6, <2>2, <3>1, <3>2, <3>3, Zenon
  <2> QED BY <2>1, <2>2
<1> QED BY <1>2, <1>3, <1>5, <1>6 DEF Claim

(* Replay, Check, Recheck, Invoke, Return and Publish. *)
LEMMA PlainMoves ==
  ASSUME Typed, NEW c \in Clients
  PROVE  /\ Replay(c) => /\ req[c].pc = "wait" /\ MovesTo(c, "done") /\ SameLeader(c)
         /\ Check(c) => /\ req[c].pc = "check" /\ SameLeader(c)
                        /\ \/ MovesTo(c, "authorize") /\ SameErr(c)
                           \/ MovesTo(c, "publish") /\ req'[c].err = TRUE
         /\ Recheck(c) => /\ req[c].pc = "recheck" /\ SameLeader(c)
                          /\ \/ MovesTo(c, "invoke") /\ SameErr(c)
                             \/ MovesTo(c, "publish") /\ req'[c].err = TRUE
         /\ Return(c) => /\ req[c].pc = "calling" /\ SameLeader(c) /\ MovesTo(c, "publish")
         /\ Publish(c) => /\ req[c].pc = "publish" /\ SameLeader(c)
                          /\ MovesTo(c, "done") /\ SameErr(c)
<1> USE GotoMoves DEF Steps
<1>1. Replay(c) => req[c].pc = "wait" /\ MovesTo(c, "done") /\ SameLeader(c)
  <2>1. (req[c].run \notin Store!Live) \in BOOLEAN
    OBVIOUS
  <2> QED BY <2>1 DEF Replay
<1>2. Check(c) => /\ req[c].pc = "check" /\ SameLeader(c)
                  /\ \/ MovesTo(c, "authorize") /\ SameErr(c)
                     \/ MovesTo(c, "publish") /\ req'[c].err = TRUE
  BY DEF Check
<1>3. Recheck(c) => /\ req[c].pc = "recheck" /\ SameLeader(c)
                    /\ \/ MovesTo(c, "invoke") /\ SameErr(c)
                       \/ MovesTo(c, "publish") /\ req'[c].err = TRUE
  BY DEF Recheck
<1>4. Return(c) => req[c].pc = "calling" /\ SameLeader(c) /\ MovesTo(c, "publish")
  BY DEF Return
<1>5. Publish(c) => /\ req[c].pc = "publish" /\ SameLeader(c)
                    /\ MovesTo(c, "done") /\ SameErr(c)
  BY DEF Publish
<1> QED BY <1>1, <1>2, <1>3, <1>4, <1>5

(* Invoke may send the call. *)
LEMMA InvokeMoves ==
  ASSUME Typed, NEW c \in Clients, Invoke(c)
  PROVE  /\ req[c].pc = "invoke" /\ SameLeader(c)
         /\ \/ MovesTo(c, "publish") /\ req'[c].err = TRUE
            \/ /\ OthersStay(c) /\ SameCall(c) /\ SameDecision(c) /\ SameErr(c)
               /\ req'[c].pc = "calling" /\ req'[c].sent = TRUE
<1>1. req \in [Clients -> Request] /\ req[c].pc = "invoke"
  BY DEF Typed, TypeOK, Invoke
<1>2. CASE GiveUp(c)
  BY <1>1, <1>2, GotoMoves DEF Steps
<1>3. CASE req' = [req EXCEPT ![c].pc = "calling", ![c].sent = TRUE]
  <2> DEFINE r == [req[c] EXCEPT !.pc = "calling", !.sent = TRUE]
  <2>1. req' = [req EXCEPT ![c] = r]
    BY <1>1, <1>3, TwoFields, Zenon
  <2>2. r \in Request
    BY <1>1, RequestUpdates, StepNames
  <2> QED BY <1>1, <2>1, <2>2, OneChanges DEF Request, SameCall, SameDecision, SameErr, SameLeader
<1> QED BY <1>2, <1>3 DEF Invoke

(* Authorize takes a decision, within the mode unless it denies. *)
LEMMA AuthorizeMoves ==
  ASSUME Typed, NEW c \in Clients, Authorize(c)
  PROVE  /\ req[c].pc = "authorize" /\ SameLeader(c)
         /\ \/ MovesTo(c, "publish") /\ req'[c].err = TRUE
            \/ /\ OthersStay(c) /\ SameCall(c) /\ SameErr(c)
               /\ req'[c].pc = "record" /\ req'[c].sent = req[c].sent
               /\ req'[c].gate = req[c].gate
               /\ req'[c].decision \in D!Decision
               /\ req'[c].decision.status # "denied" => D!ModeAllowsRisk(req[c].mode, req[c].risk)
<1>1. req \in [Clients -> Request] /\ req[c].pc = "authorize"
  BY DEF Typed, TypeOK, Authorize
<1>2. CASE GiveUp(c)
  BY <1>1, <1>2, GotoMoves DEF Steps
<1>3. CASE \E policies \in SUBSET {Policy}, found \in SUBSET {InventoryEntry} :
             req' = [req EXCEPT ![c].pc = "record",
                       ![c].decision = D!Authorize(ToolRequest(c), policies, found)]
  <2>1. PICK d \in D!Decision :
          /\ d.status # "denied" => D!ModeAllowsRisk(req[c].mode, req[c].risk)
          /\ req' = [req EXCEPT ![c].pc = "record", ![c].decision = d]
    <3>1. PICK policies \in SUBSET {Policy}, found \in SUBSET {InventoryEntry} :
             req' = [req EXCEPT ![c].pc = "record",
                       ![c].decision = D!Authorize(ToolRequest(c), policies, found)]
      BY <1>3
    <3>2. ToolRequest(c).mode = req[c].mode /\ ToolRequest(c).risk = req[c].risk
      BY DEF ToolRequest
    <3> QED BY <3>1, <3>2, Authorized
  <2> DEFINE r == [req[c] EXCEPT !.pc = "record", !.decision = d]
  <2>2. req' = [req EXCEPT ![c] = r]
    BY <1>1, <2>1, TwoFields, Zenon
  <2>3. r \in Request
    BY <1>1, RequestUpdates, StepNames
  <2>4. /\ r.pc = "record" /\ r.gate = req[c].gate /\ r.decision = d
        /\ r.run = req[c].run /\ r.key = req[c].key /\ r.mode = req[c].mode
        /\ r.call = req[c].call /\ r.risk = req[c].risk
        /\ r.sent = req[c].sent /\ r.leader = req[c].leader /\ r.err = req[c].err
    BY <1>1 DEF Request
  <2> HIDE DEF r
  <2> QED BY <1>1, <2>1, <2>2, <2>3, <2>4, OneChanges DEF SameCall, SameErr, SameLeader
<1> QED BY <1>2, <1>3 DEF Authorize

(* Record fails the run, audits a call that needs no approval, or looks    *)
(* for an approval.                                                        *)
LEMMA RecordMoves ==
  ASSUME Typed, NEW c \in Clients, Record(c)
  PROVE  /\ req[c].pc = "record" /\ SameLeader(c)
         /\ \/ /\ MovesTo(c, "publish")
               /\ UNCHANGED storeVars \/ Store!Fail(req[c].run)
            \/ /\ MovesTo(c, "recheck") /\ SameErr(c)
               /\ req[c].decision.status = "allowed" /\ req[c].risk = "read_only"
               /\ Store!AddLogIfNoPendingApprovals(req[c].run)
            \/ /\ MovesTo(c, "gate") /\ SameErr(c) /\ UNCHANGED storeVars
               /\ req[c].decision.status = "approval_required"
            \/ /\ OthersStay(c) /\ SameCall(c) /\ SameErr(c) /\ UNCHANGED storeVars
               /\ req'[c].pc = "consume" /\ req'[c].sent = req[c].sent
               /\ req'[c].decision = req[c].decision
               /\ req[c].decision.status = "approval_required"
               /\ req[c].run \in Store!Live /\ req'[c].gate \in MatchingGates(c)
<1>1. req \in [Clients -> Request] /\ req[c].pc = "record"
  BY DEF Typed, TypeOK, Record
<1>2. CASE RecordDenied(c)
  BY <1>1, <1>2, GotoMoves, StepNames DEF RecordDenied
<1>3. CASE RecordAllowed(c)
  <2>1. CASE GiveUp(c) /\ UNCHANGED storeVars
    BY <1>1, <2>1, GotoMoves, StepNames
  <2>2. CASE /\ Store!AddLogIfNoPendingApprovals(req[c].run) /\ Goto(c, "recheck")
             /\ D!RecorderAccepts(ToolRequest(c), req[c].decision)
    <3>1. req[c].decision.status = "allowed"
      BY <1>3 DEF RecordAllowed
    <3>2. ToolRequest(c).risk = req[c].risk
      BY DEF ToolRequest
    <3>3. req[c].decision # D!Denied("mode_risk_mismatch")
      BY <3>1 DEF D!Denied
    <3>4. req[c].risk = "read_only"
      BY <2>2, <3>1, <3>2, <3>3, Zenon DEF D!RecorderAccepts
    <3> QED BY <1>1, <2>2, <3>1, <3>4, GotoMoves, StepNames
  <2> QED BY <1>3, <2>1, <2>2, Zenon DEF RecordAllowed
<1>4. CASE FindApproval(c)
  <2>1. req[c].decision.status = "approval_required" /\ UNCHANGED storeVars
    BY <1>4 DEF FindApproval
  <2>2. CASE GiveUp(c) \/ Goto(c, "gate")
    BY <1>1, <2>1, <2>2, GotoMoves, StepNames
  <2>3. CASE ~(GiveUp(c) \/ Goto(c, "gate"))
    <3> DEFINE gate == CHOOSE g \in MatchingGates(c) : \A h \in MatchingGates(c) : g <= h
               r == [req[c] EXCEPT !.pc = "consume", !.gate = gate]
    <3>1. /\ req[c].run \in Store!Live /\ MatchingGates(c) # {}
          /\ req' = [req EXCEPT ![c].pc = "consume", ![c].gate = gate]
      BY <1>4, <2>3, Zenon DEF FindApproval
    <3>2. MatchingGates(c) \in SUBSET Nat
      BY <3>1, LiveRuns DEF MatchingGates, Typed, Store!Run
    <3>3. gate \in MatchingGates(c)
      <4>1. \E g \in MatchingGates(c) : \A h \in MatchingGates(c) : g <= h
        BY <3>1, <3>2, LeastNatural
      <4> QED BY <4>1
    <3> HIDE DEF gate
    <3>4. r \in Request
      BY <1>1, <3>2, <3>3, RequestUpdates, StepNames
    <3>5. req' = [req EXCEPT ![c] = r]
      BY <1>1, <3>1, TwoFields, Zenon
    <3>6. /\ r.pc = "consume" /\ r.gate = gate
          /\ r.run = req[c].run /\ r.key = req[c].key /\ r.mode = req[c].mode
          /\ r.call = req[c].call /\ r.risk = req[c].risk /\ r.decision = req[c].decision
          /\ r.sent = req[c].sent /\ r.leader = req[c].leader /\ r.err = req[c].err
      BY <1>1 DEF Request
    <3> HIDE DEF r
    <3>7. OthersStay(c) /\ req'[c] = r
      BY <3>4, <3>5, OneChanges
    <3> QED BY <1>1, <2>1, <3>1, <3>3, <3>6, <3>7 DEF SameCall, SameErr, SameLeader
  <2> QED BY <2>2, <2>3
<1> QED BY <1>2, <1>3, <1>4, Zenon DEF Record

(* Consume spends the gate it found, or gives up. *)
LEMMA ConsumeMoves ==
  ASSUME Typed, NEW c \in Clients, Consume(c)
  PROVE  /\ req[c].pc = "consume" /\ SameLeader(c)
         /\ \/ MovesTo(c, "publish") /\ req'[c].err = TRUE /\ UNCHANGED storeVars
            \/ /\ OthersStay(c) /\ SameCall(c) /\ SameErr(c)
               /\ req'[c].pc = "recheck" /\ req'[c].sent = req[c].sent
               /\ req'[c].gate = req[c].gate
               /\ Store!ConsumeApprovalBinding(req[c].run, req[c].gate)
<1>1. req \in [Clients -> Request] /\ req[c].pc = "consume"
  BY DEF Typed, TypeOK, Consume
<1>2. CASE GiveUp(c) /\ UNCHANGED storeVars
  BY <1>1, <1>2, GotoMoves, StepNames
<1>3. CASE /\ Store!ConsumeApprovalBinding(req[c].run, req[c].gate)
           /\ req' = [req EXCEPT ![c].pc = "recheck", ![c].decision = D!Allowed]
  <2> DEFINE r == [req[c] EXCEPT !.pc = "recheck", !.decision = D!Allowed]
  <2>1. req' = [req EXCEPT ![c] = r]
    BY <1>1, <1>3, TwoFields, Zenon
  <2>2. D!Allowed \in D!Decision
    BY DEF D!Decision, D!Allowed
  <2>3. r \in Request
    BY <1>1, <2>2, RequestUpdates, StepNames
  <2>4. /\ r.pc = "recheck" /\ r.gate = req[c].gate
        /\ r.run = req[c].run /\ r.key = req[c].key /\ r.mode = req[c].mode
        /\ r.call = req[c].call /\ r.risk = req[c].risk
        /\ r.sent = req[c].sent /\ r.leader = req[c].leader /\ r.err = req[c].err
    BY <1>1 DEF Request
  <2> HIDE DEF r
  <2> QED BY <1>1, <1>3, <2>1, <2>3, <2>4, OneChanges DEF SameCall, SameErr, SameLeader
<1> QED BY <1>2, <1>3, Zenon DEF Consume

(* OpenGate asks for the approval of the call, or gives up. *)
LEMMA OpenGateMoves ==
  ASSUME Typed, NEW c \in Clients, OpenGate(c)
  PROVE  /\ req[c].pc = "gate" /\ SameLeader(c)
         /\ \/ MovesTo(c, "publish") /\ req'[c].err = TRUE /\ UNCHANGED storeVars
            \/ /\ OthersStay(c) /\ SameCall(c) /\ SameErr(c)
               /\ req'[c].pc = "publish" /\ req'[c].sent = req[c].sent
               /\ req'[c].decision = req[c].decision
               /\ req'[c].gate = Len(runs[req[c].run].gates) + 1
               /\ Store!AddApproval(req[c].run, Operation(c))
<1>1. req \in [Clients -> Request] /\ req[c].pc = "gate"
  BY DEF Typed, TypeOK, OpenGate
<1>2. CASE GiveUp(c) /\ UNCHANGED storeVars
  BY <1>1, <1>2, GotoMoves, StepNames
<1>3. CASE /\ Store!AddApproval(req[c].run, Operation(c))
           /\ req' = [req EXCEPT ![c].pc = "publish",
                                 ![c].gate = Len(runs[req[c].run].gates) + 1]
  <2> DEFINE gate == Len(runs[req[c].run].gates) + 1
             r == [req[c] EXCEPT !.pc = "publish", !.gate = gate]
  <2>1. req' = [req EXCEPT ![c] = r]
    BY <1>1, <1>3, TwoFields, Zenon
  <2>2. gate \in Nat
    BY <1>3, LiveRuns DEF Store!AddApproval, Store!Open, Store!Run, Typed
  <2>3. r \in Request
    BY <1>1, <2>2, RequestUpdates, StepNames
  <2>4. /\ r.pc = "publish" /\ r.gate = gate /\ r.decision = req[c].decision
        /\ r.run = req[c].run /\ r.key = req[c].key /\ r.mode = req[c].mode
        /\ r.call = req[c].call /\ r.risk = req[c].risk
        /\ r.sent = req[c].sent /\ r.leader = req[c].leader /\ r.err = req[c].err
    BY <1>1 DEF Request
  <2> HIDE DEF r
  <2> QED BY <1>1, <1>3, <2>1, <2>3, <2>4, OneChanges DEF SameCall, SameErr, SameLeader
<1> QED BY <1>2, <1>3, Zenon DEF OpenGate

-----------------------------------------------------------------------------
(* Types are kept.                                                         *)

(* The typing of the attempt table. *)
TableTyped ==
  /\ DOMAIN entries \subseteq (1 .. MaxCreates) \X Keys /\ Range(entries) \subseteq Clients
  /\ completed \in Seq((1 .. MaxCreates) \X Keys)
  /\ attempt \in [Clients -> {"none", "open", "ok", "failed"}]

LEMMA KeyTyped ==
  ASSUME Typed, NEW c \in Clients, req[c].pc # "start"
  PROVE  Key(c) \in (1 .. MaxCreates) \X Keys
<1>1. req[c] \in Request /\ req[c].run \in 1 .. next /\ next <= MaxCreates
  BY DEF Typed, TypeOK, RunsKnown
<1>2. next \in Nat /\ MaxCreates \in Nat
  BY LiveRuns, ExecutionAssumption DEF Typed
<1>3. req[c].run \in 1 .. MaxCreates /\ req[c].key \in Keys
  BY <1>1, <1>2 DEF Request
<1> QED BY <1>3 DEF Key

LEMMA ClaimTable ==
  ASSUME Typed, NEW c \in Clients, Claim(c)
  PROVE  TableTyped'
<1> USE DEF TableTyped
<1>1. /\ TableTyped /\ req[c].pc # "start" /\ Key(c) \in (1 .. MaxCreates) \X Keys
  BY KeyTyped DEF Typed, TypeOK, Claim
<1>2. CASE UNCHANGED <<tableVars, attempt>>
  BY <1>1, <1>2 DEF tableVars
<1>3. CASE TakeOver(c)
  <2>1. completed' \in Seq((1 .. MaxCreates) \X Keys)
    BY <1>1, <1>3, UnlistedLeaves DEF TakeOver
  <2>2. entries' = [entries EXCEPT ![Key(c)] = c] /\ attempt' = [attempt EXCEPT ![c] = "open"]
    BY <1>3 DEF TakeOver, Lead
  <2> QED BY <1>1, <2>1, <2>2 DEF Range
<1>4. CASE NewAttempt(c)
  <2>1. PICK len \in Nat : len = Len(completed)
    BY <1>1
  <2>2. Evictions \in 0 .. len
    BY <2>1, EvictionsExist
  <2>3. completed' = SubSeq(completed, Evictions + 1, Len(completed))
    BY <1>4 DEF NewAttempt
  <2>4. completed' \in Seq((1 .. MaxCreates) \X Keys)
    BY <1>1, <2>1, <2>2, <2>3, SubSeqProperties
  <2> DEFINE kept == [k \in Without(Evictions) |-> entries[k]]
  <2>5. DOMAIN kept \subseteq DOMAIN entries /\ \A k \in DOMAIN kept : kept[k] = entries[k]
    BY DEF Without
  <2>6. CASE Fits(Evictions)
    <3>1. /\ entries' = [k \in DOMAIN kept \union {Key(c)} |-> IF k = Key(c) THEN c ELSE kept[k]]
          /\ attempt' = [attempt EXCEPT ![c] = "open"]
      BY <1>4, <2>6, Zenon DEF NewAttempt, Lead
    <3> HIDE DEF kept
    <3> QED BY <1>1, <2>4, <2>5, <3>1 DEF Range
  <2>7. CASE ~Fits(Evictions)
    <3>1. entries' = kept /\ attempt' = attempt
      BY <1>4, <2>7, Zenon DEF NewAttempt
    <3> HIDE DEF kept
    <3> QED BY <1>1, <2>4, <2>5, <3>1 DEF Range
  <2> QED BY <2>6, <2>7
<1> QED BY <1>2, <1>3, <1>4, Zenon DEF Claim, ClaimGone, Conflict, Join

LEMMA PublishTable ==
  ASSUME Typed, NEW c \in Clients, Publish(c)
  PROVE  TableTyped'
<1> USE DEF TableTyped
<1>1. /\ TableTyped /\ req[c].pc # "start" /\ Key(c) \in (1 .. MaxCreates) \X Keys
  BY KeyTyped DEF Typed, TypeOK, Publish
<1>2. attempt' = [attempt EXCEPT ![c] = IF req[c].err THEN "failed" ELSE "ok"]
  BY DEF Publish
<1>3. attempt' \in [Clients -> {"none", "open", "ok", "failed"}]
  BY <1>1, <1>2
<1>4. CASE req[c].err
  <2>1. /\ entries' = [k \in DOMAIN entries \ {Key(c)} |-> entries[k]]
        /\ completed' = completed
    BY <1>4 DEF Publish
  <2> QED BY <1>1, <1>3, <2>1 DEF Range
<1>5. CASE ~req[c].err
  <2>1. entries' = entries /\ completed' = Append(completed, Key(c))
    BY <1>5 DEF Publish
  <2> QED BY <1>1, <1>3, <2>1 DEF Range
<1> QED BY <1>4, <1>5

(* A request that stays with its run is known to do so; a new one takes a  *)
(* remembered run.                                                         *)
LEMMA RequestsTyped ==
  ASSUME Typed, StoreMoves, NEW c \in Clients, OthersStay(c),
         \/ SameCall(c) /\ req[c].pc # "start"
         \/ req'[c].run \in Store!Live
  PROVE  RunsKnown' /\ req' \in [Clients -> Request]
<1>1. next' \in Nat /\ next \in Nat /\ next <= next' /\ next' <= MaxCreates
  BY NextGrows, LiveRuns DEF Typed
<1>2. req'[c].run \in 1 .. next
  BY LiveRuns DEF Typed, RunsKnown, SameCall
<1> QED BY <1>1, <1>2 DEF OthersStay, Typed, RunsKnown

LEMMA InitTyped == Init => Typed
<1> SUFFICES ASSUME Init PROVE Typed
  OBVIOUS
<1>1. Runs!StoreInv
  <2>1. MaxRuns \in Nat \ {0} /\ NoBinding \notin Operations
    BY ExecutionAssumption
  <2> QED BY <2>1, SameStore, Runs!InitInv DEF Init
<1>2. \A c \in Clients : Blank(c) \in Request
  <2>1. Keys # {} /\ Calls # {}
    BY ExecutionAssumption
  <2>2. "read_only" \in Store!Mode /\ "unknown" \in D!Risks /\ "start" \in Steps
    BY DEF Store!Mode, D!Risks, Steps
  <2> QED BY <2>1, <2>2 DEF Blank, Request
<1>3. req = [c \in Clients |-> Blank(c)] /\ next = 0
  BY DEF Init, Store!Init
<1>4. RunsKnown
  BY <1>3, ExecutionAssumption DEF RunsKnown, Blank
<1>5. TypeOK
  BY <1>1, <1>2, <1>3, SameStore DEF Init, TypeOK, Runs!StoreInv, Range
<1> QED BY <1>1, <1>4, <1>5 DEF Typed

LEMMA StepTyped ==
  ASSUME Typed, [Next]_vars
  PROVE  Typed'
<1>1. StoreMoves /\ Runs!StoreInv'
  BY StepStore, StoreKept DEF Typed
<1>2. Store!TypeOK'
  <2>1. (Runs!TypeOK => Store!TypeOK)'
    BY SameTypes, PTL
  <2> QED BY <1>1, <2>1 DEF Runs!StoreInv
<1>3. ASSUME req' = req PROVE RunsKnown' /\ req' \in [Clients -> Request]
  <2>1. next' \in Nat /\ next \in Nat /\ next <= next' /\ next' <= MaxCreates
    BY <1>1, NextGrows, LiveRuns DEF Typed
  <2> QED BY <1>3, <2>1 DEF Typed, TypeOK, RunsKnown
<1>4. ASSUME TableTyped', RunsKnown', req' \in [Clients -> Request],
             airlock' \in Inventories, gone' \subseteq Clients
      PROVE  Typed'
  BY <1>1, <1>2, <1>4 DEF Typed, TypeOK, TableTyped
<1>5. ASSUME UNCHANGED <<tableVars, attempt>> PROVE TableTyped'
  BY <1>5 DEF Typed, TypeOK, TableTyped, tableVars
<1>6. airlock \in Inventories /\ gone \subseteq Clients
  BY DEF Typed, TypeOK
<1>7. CASE UNCHANGED vars
  BY <1>3, <1>4, <1>5, <1>6, <1>7, Zenon DEF vars, tableVars
<1>8. ASSUME NEW c \in Clients, Begin(c) PROVE Typed'
  <2>1. OthersStay(c) /\ req'[c].run \in Store!Live
    BY <1>8, BeginMoves
  <2> QED BY <1>1, <1>4, <1>5, <1>6, <1>8, <2>1, RequestsTyped, Zenon DEF Begin
<1>9. ASSUME NEW c \in Clients, Disconnect(c) PROVE Typed'
  BY <1>3, <1>4, <1>5, <1>6, <1>9 DEF Disconnect
<1>10. ASSUME NEW c \in Clients, Claim(c) PROVE Typed'
  <2>1. OthersStay(c) /\ SameCall(c) /\ req[c].pc # "start"
    BY <1>10, ClaimMoves DEF MovesTo
  <2> QED BY <1>1, <1>4, <1>6, <1>10, <2>1, ClaimTable, RequestsTyped, Zenon DEF Claim
<1>11. ASSUME NEW c \in Clients, Publish(c) PROVE Typed'
  <2>1. OthersStay(c) /\ SameCall(c) /\ req[c].pc # "start"
    BY <1>11, PlainMoves DEF MovesTo
  <2> QED BY <1>1, <1>4, <1>6, <1>11, <2>1, PublishTable, RequestsTyped, Zenon DEF Publish
<1>12. ASSUME NEW c \in Clients, Replay(c) \/ Check(c) \/ Recheck(c) \/ Return(c) PROVE Typed'
  <2>1. OthersStay(c) /\ SameCall(c) /\ req[c].pc # "start"
    BY <1>12, PlainMoves DEF MovesTo
  <2> QED BY <1>1, <1>4, <1>5, <1>6, <1>12, <2>1, RequestsTyped, Zenon
       DEF Replay, Check, Recheck, Return, tableVars
<1>13. ASSUME NEW c \in Clients, Invoke(c) \/ Authorize(c) PROVE Typed'
  <2>1. OthersStay(c) /\ SameCall(c) /\ req[c].pc # "start"
    BY <1>13, InvokeMoves, AuthorizeMoves DEF MovesTo
  <2> QED BY <1>1, <1>4, <1>5, <1>6, <1>13, <2>1, RequestsTyped, Zenon
       DEF Invoke, Authorize, tableVars
<1>14. ASSUME NEW c \in Clients, Record(c) \/ Consume(c) \/ OpenGate(c) PROVE Typed'
  <2>1. OthersStay(c) /\ SameCall(c) /\ req[c].pc # "start"
    BY <1>14, RecordMoves, ConsumeMoves, OpenGateMoves DEF MovesTo
  <2> QED BY <1>1, <1>4, <1>5, <1>6, <1>14, <2>1, RequestsTyped, Zenon
       DEF Record, Consume, OpenGate, tableVars
<1>15. CASE UserStep
  BY <1>3, <1>4, <1>5, <1>6, <1>15 DEF UserStep
<1>16. CASE ChangeInventory
  BY <1>3, <1>4, <1>5, <1>6, <1>16 DEF ChangeInventory
<1> QED BY <1>7, <1>8, <1>9, <1>10, <1>11, <1>12, <1>13, <1>14, <1>15, <1>16, Zenon DEF Next, Step

(* The table, the requests and the store are well-typed in every state. *)
THEOREM TypeCorrect == Safety => []TypeOK
<1>1. Typed => TypeOK
  BY DEF Typed
<1> QED BY <1>1, InitTyped, StepTyped, PTL DEF Safety

-----------------------------------------------------------------------------
(* The attempt table.  An attempt is open while its request works on it;   *)
(* every entry is under the key of the request that leads it, and is open, *)
(* or finished and listed once.                                            *)

Work == {"check", "authorize", "record", "consume", "gate", "recheck",
         "invoke", "calling", "publish"}

Phases ==
  \A c \in Clients :
    /\ attempt[c] = "open" <=> req[c].pc \in Work
    /\ attempt[c] \in {"ok", "failed"} => req[c].pc = "done"

OpenHeld == \A c \in Clients : InFlight(c) => Key(c) \in DOMAIN entries /\ entries[Key(c)] = c

EntriesLed ==
  \A k \in DOMAIN entries :
    Key(entries[k]) = k /\ (InFlight(entries[k]) \/ Finished(entries[k]))

Listed ==
  {k \in DOMAIN entries : Finished(entries[k])} = Range(completed) /\ IsInjective(completed)

Bounded == IsFiniteSet(DOMAIN entries) /\ Cardinality(DOMAIN entries) <= MaxEntries

TableInv == Phases /\ OpenHeld /\ EntriesLed /\ Listed /\ Bounded

(* A joined request asked for what its leader did. *)
Joined == RetriesMatch /\ \A c \in Clients : req[c].pc = "start" => req[c].leader = c

AttemptsInv == TableInv /\ Joined

LEMMA InitAttempts == Init => AttemptsInv
<1> SUFFICES ASSUME Init PROVE AttemptsInv
  OBVIOUS
<1>1. /\ entries = <<>> /\ completed = <<>>
      /\ \A c \in Clients : attempt[c] = "none" /\ req[c] = Blank(c)
  BY DEF Init
<1>2. DOMAIN entries = {} /\ DOMAIN completed = {}
  BY <1>1
<1>3. \A c \in Clients : req[c].pc = "start" /\ req[c].leader = c
  <2>1. \A c \in Clients : Blank(c).pc = "start" /\ Blank(c).leader = c
    BY DEF Blank
  <2> QED BY <1>1, <2>1
<1>4. Phases /\ OpenHeld /\ EntriesLed
  BY <1>1, <1>2, <1>3 DEF Phases, OpenHeld, EntriesLed, InFlight, Work
<1>5. Listed
  BY <1>2 DEF Listed, Range, IsInjective
<1>6. Bounded
  BY <1>2, FS_EmptySet, ExecutionAssumption DEF Bounded
<1>7. Joined
  BY <1>3 DEF Joined, RetriesMatch
<1> QED BY <1>4, <1>5, <1>6, <1>7 DEF AttemptsInv, TableInv

(* A step of a request that leaves the table alone. *)
LEMMA QuietTable ==
  ASSUME Typed, AttemptsInv, NEW c \in Clients, OthersStay(c),
         UNCHANGED <<tableVars, attempt>>,
         SameCall(c) \/ req[c].pc = "start",
         req[c].pc \in Work <=> req'[c].pc \in Work,
         req[c].pc # "done"
  PROVE  TableInv'
<1>1. entries' = entries /\ completed' = completed /\ attempt' = attempt
  BY DEF tableVars
<1>2. attempt[c] \notin {"ok", "failed"}
  BY DEF AttemptsInv, TableInv, Phases
<1>3. \A d \in Clients : attempt[d] # "none" =>
        req'[d].run = req[d].run /\ req'[d].key = req[d].key
  <2>1. \A d \in Clients \ {c} : req'[d] = req[d]
    BY DEF OthersStay
  <2>2. attempt[c] # "none" => SameCall(c)
    BY <1>2 DEF AttemptsInv, TableInv, Phases, Typed, TypeOK, Work
  <2> QED BY <2>1, <2>2 DEF SameCall
<1>4. Phases'
  BY <1>1, <1>2 DEF AttemptsInv, TableInv, Phases, OthersStay
<1>5. OpenHeld'
  BY <1>1, <1>3 DEF AttemptsInv, TableInv, OpenHeld, InFlight, Key
<1>6. EntriesLed'
  <2>1. \A k \in DOMAIN entries : entries[k] \in Clients
    BY DEF Typed, TypeOK, Range
  <2>2. \A k \in DOMAIN entries : attempt[entries[k]] # "none" /\ Key(entries[k]) = k
    BY <2>1 DEF AttemptsInv, TableInv, EntriesLed, InFlight, Finished
  <2>3. \A k \in DOMAIN entries : <<req'[entries[k]].run, req'[entries[k]].key>> = k
    BY <1>3, <2>1, <2>2 DEF Key
  <2> QED BY <1>1, <2>3 DEF AttemptsInv, TableInv, EntriesLed, InFlight, Finished, Key
<1>7. Listed' /\ Bounded'
  BY <1>1 DEF AttemptsInv, TableInv, Listed, Bounded, Finished
<1> QED BY <1>4, <1>5, <1>6, <1>7 DEF TableInv

(* A step of a request that keeps what it asked for: it stays with its     *)
(* leader, leads itself or joins the leader of its key.                    *)
LEMMA JoinedKept ==
  ASSUME Typed, AttemptsInv, NEW c \in Clients, OthersStay(c),
         SameCall(c) \/ req[c].pc = "start", req'[c].pc # "start",
         \A d \in Clients : attempt[d] # "none" => attempt'[d] # "none",
         \/ SameLeader(c) \/ req'[c].leader = c
         \/ Join(c) /\ SameCall(c) /\ req'[c].leader = entries[Key(c)]
  PROVE  Joined'
<1>1. ASSUME NEW l \in Clients, attempt[l] # "none"
      PROVE  /\ attempt'[l] # "none"
             /\ req'[l].run = req[l].run /\ req'[l].key = req[l].key /\ req'[l].call = req[l].call
  <2>1. req[l].pc # "start"
    BY <1>1 DEF AttemptsInv, TableInv, Phases, Typed, TypeOK, Work
  <2> QED BY <1>1, <2>1 DEF OthersStay, SameCall
<1>2. ASSUME NEW d \in Clients, NEW l, l = req'[d].leader, l # d
      PROVE  /\ req'[l].run = req'[d].run /\ req'[l].key = req'[d].key
             /\ req'[l].call = req'[d].call /\ attempt'[l] # "none"
  <2>1. l \in Clients
    BY <1>2 DEF OthersStay, Request
  <2>2. CASE l = req[d].leader
    <3>1. /\ req[l].run = req[d].run /\ req[l].key = req[d].key
          /\ req[l].call = req[d].call /\ attempt[l] # "none" /\ req[d].pc # "start"
      BY <1>2, <2>2 DEF AttemptsInv, Joined, RetriesMatch, Key
    <3>2. req'[d].run = req[d].run /\ req'[d].key = req[d].key /\ req'[d].call = req[d].call
      BY <3>1 DEF OthersStay, SameCall
    <3> QED BY <1>1, <2>1, <3>1, <3>2
  <2>3. CASE l # req[d].leader
    <3>1. d = c /\ Join(c) /\ SameCall(c) /\ l = entries[Key(c)]
      BY <1>2, <2>3 DEF OthersStay, SameLeader
    <3>2. /\ req[l].run = req[c].run /\ req[l].key = req[c].key
          /\ req[l].call = req[c].call /\ attempt[l] # "none"
      BY <3>1 DEF Join, AttemptsInv, TableInv, EntriesLed, InFlight, Finished, Key
    <3> QED BY <1>1, <2>1, <3>1, <3>2 DEF SameCall
  <2> QED BY <2>2, <2>3
<1>3. \A d \in Clients : req'[d].pc = "start" => req'[d].leader = d
  BY DEF OthersStay, AttemptsInv, Joined
<1>4. RetriesMatch'
  BY <1>2 DEF RetriesMatch, Key
<1> QED BY <1>3, <1>4 DEF Joined

(* A request takes over the entry of an attempt that asked for an approval. *)
LEMMA TakeOverTable ==
  ASSUME Typed, AttemptsInv, NEW c \in Clients, req[c].pc = "claim",
         TakeOver(c), MovesTo(c, "check")
  PROVE  TableInv'
<1> DEFINE key == Key(c)
           l == entries[key]
<1>1. /\ attempt \in [Clients -> {"none", "open", "ok", "failed"}]
      /\ \A k \in DOMAIN entries : entries[k] \in Clients
  BY DEF Typed, TypeOK, Range
<1>2. /\ key \in DOMAIN entries /\ attempt[l] = "ok" /\ attempt[c] = "none"
      /\ Key(l) = key
  <2>1. key \in DOMAIN entries /\ attempt[l] = "ok"
    BY DEF TakeOver, Released
  <2>2. attempt[c] = "none"
    BY <1>1 DEF AttemptsInv, TableInv, Phases, Work
  <2> QED BY <2>1, <2>2 DEF AttemptsInv, TableInv, EntriesLed
<1>3. /\ entries' = [entries EXCEPT ![key] = c]
      /\ attempt' = [attempt EXCEPT ![c] = "open"]
      /\ completed' = Unlisted(completed, key)
  BY DEF TakeOver, Lead
<1>4. \A d \in Clients : req'[d].run = req[d].run /\ req'[d].key = req[d].key
  BY DEF MovesTo, OthersStay, SameCall
<1>5. \A d \in Clients : <<req'[d].run, req'[d].key>> = Key(d)
  BY <1>4 DEF Key
<1>6. Phases'
  BY <1>1, <1>2, <1>3 DEF AttemptsInv, TableInv, Phases, Work, MovesTo, OthersStay
<1>7. \A d \in Clients : attempt[d] = "open" => Key(d) # key
  BY <1>2 DEF AttemptsInv, TableInv, OpenHeld, InFlight
<1> HIDE DEF key, l
<1>8. key = Key(c) /\ l = entries[key]
  BY DEF key, l
<1>9. OpenHeld'
  <2> SUFFICES ASSUME NEW d \in Clients, attempt'[d] = "open"
               PROVE  /\ <<req'[d].run, req'[d].key>> \in DOMAIN entries'
                      /\ entries'[<<req'[d].run, req'[d].key>>] = d
    BY DEF OpenHeld, InFlight, Key
  <2>1. CASE d = c
    BY <1>2, <1>3, <1>5, <1>8, <2>1
  <2>2. CASE d # c
    <3>1. attempt[d] = "open"
      BY <1>1, <1>3, <2>2
    <3> QED BY <1>3, <1>5, <1>7, <3>1 DEF AttemptsInv, TableInv, OpenHeld, InFlight
  <2> QED BY <2>1, <2>2
<1>10. EntriesLed'
  <2> SUFFICES ASSUME NEW k \in DOMAIN entries
               PROVE  /\ <<req'[entries'[k]].run, req'[entries'[k]].key>> = k
                      /\ attempt'[entries'[k]] \in {"open", "ok"}
    BY <1>3 DEF EntriesLed, InFlight, Finished, Key
  <2>1. CASE k = key
    BY <1>1, <1>2, <1>3, <1>5, <1>8, <2>1
  <2>2. CASE k # key
    <3>1. /\ entries'[k] = entries[k] /\ Key(entries[k]) = k
          /\ attempt[entries[k]] \in {"open", "ok"}
      BY <1>3, <2>2 DEF AttemptsInv, TableInv, EntriesLed, InFlight, Finished
    <3> QED BY <1>1, <1>3, <1>5, <3>1
  <2> QED BY <2>1, <2>2
<1>11. Listed'
  <2>1. completed \in Seq((1 .. MaxCreates) \X Keys)
    BY DEF Typed, TypeOK
  <2>2. /\ Range(completed') = Range(completed) \ {key}
        /\ IsInjective(completed')
    BY <1>3, <2>1, UnlistedLeaves DEF AttemptsInv, TableInv, Listed
  <2>3. \A k \in DOMAIN entries : k # key => entries'[k] = entries[k] /\ entries[k] # c
    BY <1>3, <1>8 DEF AttemptsInv, TableInv, EntriesLed
  <2>4. \A k \in DOMAIN entries : attempt'[entries'[k]] = "ok" <=> k # key /\ attempt[entries[k]] = "ok"
    BY <1>1, <1>2, <1>3, <2>3
  <2>5. {k \in DOMAIN entries' : attempt'[entries'[k]] = "ok"} = Range(completed')
    BY <1>3, <2>2, <2>4 DEF AttemptsInv, TableInv, Listed, Finished
  <2> QED BY <2>2, <2>5 DEF Listed, Finished
<1>12. Bounded'
  BY <1>3 DEF AttemptsInv, TableInv, Bounded
<1> QED BY <1>6, <1>9, <1>10, <1>11, <1>12 DEF TableInv

(* Dropping the n oldest finished attempts leaves a table whose finished   *)
(* entries are the rest of the list.                                       *)
LEMMA EvictedTable ==
  ASSUME Typed, AttemptsInv, NEW n \in 0 .. Len(completed), NEW rest,
         rest = SubSeq(completed, n + 1, Len(completed))
  PROVE  /\ Without(n) \subseteq DOMAIN entries
         /\ \A k \in DOMAIN entries : InFlight(entries[k]) => k \in Without(n)
         /\ {k \in Without(n) : Finished(entries[k])} = Range(rest)
         /\ IsInjective(rest)
         /\ IsFiniteSet(Without(n)) /\ Cardinality(Without(n)) <= MaxEntries
<1>1. PICK len \in Nat :
        len = Len(completed) /\ DOMAIN completed = 1 .. len /\ n \in 0 .. len
        /\ completed \in Seq((1 .. MaxCreates) \X Keys)
  BY DEF Typed, TypeOK
<1>2. /\ DOMAIN rest = 1 .. (len - n)
      /\ \A i \in 1 .. (len - n) : rest[i] = completed[n + i]
  <2>1. n + 1 \in 1 .. len + 1 /\ len \in 0 .. len /\ rest = SubSeq(completed, n + 1, len)
    BY <1>1
  <2>2. /\ rest \in Seq((1 .. MaxCreates) \X Keys)
        /\ Len(rest) = IF n + 1 <= len THEN len - (n + 1) + 1 ELSE 0
        /\ \A i \in 1 .. len - (n + 1) + 1 : rest[i] = completed[n + 1 + i - 1]
    <3>1. PICK a \in Nat : a = n + 1 /\ a \in 1 .. len + 1
      BY <1>1
    <3> QED BY <1>1, <2>1, <3>1, SubSeqProperties
  <2>3. n \in Nat /\ len - n \in Nat /\ Len(rest) = len - n
    BY <1>1, <2>2
  <2>4. DOMAIN rest = 1 .. (len - n)
    BY <2>2, <2>3
  <2>5. \A i \in 1 .. (len - n) : i \in 1 .. len - (n + 1) + 1 /\ n + 1 + i - 1 = n + i
    BY <1>1
  <2> QED BY <2>2, <2>4, <2>5
<1>3. \A i, j \in 1 .. len : completed[i] = completed[j] => i = j
  BY <1>1 DEF AttemptsInv, TableInv, Listed, IsInjective
<1>4. \A k \in DOMAIN entries :
        attempt[entries[k]] = "ok" <=> \E i \in 1 .. len : k = completed[i]
  BY ZenonT(60), <1>1 DEF AttemptsInv, TableInv, Listed, Finished, Range
<1>5. \A i \in 1 .. len : completed[i] \in DOMAIN entries /\ attempt[entries[completed[i]]] = "ok"
  BY <1>1 DEF AttemptsInv, TableInv, Listed, Finished, Range
<1>6. Without(n) = {k \in DOMAIN entries : \A i \in 1 .. n : k # completed[i]}
  BY DEF Without
<1>7. ASSUME NEW k \in DOMAIN entries, InFlight(entries[k]) PROVE k \in Without(n)
  <2>1. \A i \in 1 .. n : i \in 1 .. len
    BY <1>1
  <2>2. \A i \in 1 .. n : k # completed[i]
    BY <1>5, <1>7, <2>1 DEF InFlight
  <2> QED BY <1>6, <2>2
<1>8. ASSUME NEW k \in Without(n), Finished(entries[k]) PROVE k \in Range(rest)
  <2>1. PICK i \in 1 .. len : k = completed[i]
    BY <1>4, <1>6, <1>8 DEF Finished
  <2>2. i - n \in 1 .. (len - n) /\ n + (i - n) = i
    BY <1>1, <1>6, <2>1
  <2>3. rest[i - n] = k
    BY <1>2, <2>1, <2>2
  <2> QED BY <1>2, <2>2, <2>3 DEF Range
<1>9. ASSUME NEW k \in Range(rest) PROVE k \in Without(n) /\ Finished(entries[k])
  <2>1. PICK i \in 1 .. (len - n) : k = completed[n + i]
    BY <1>2, <1>9 DEF Range
  <2>2. n + i \in 1 .. len /\ \A j \in 1 .. n : j # n + i /\ j \in 1 .. len
    BY <1>1, <2>1
  <2> QED BY <1>3, <1>5, <1>6, <2>1, <2>2 DEF Finished
<1>10. IsInjective(rest)
  <2> SUFFICES ASSUME NEW i \in 1 .. (len - n), NEW j \in 1 .. (len - n), rest[i] = rest[j]
               PROVE  i = j
    BY <1>2 DEF IsInjective
  <2>1. n + i \in 1 .. len /\ n + j \in 1 .. len
    BY <1>1
  <2>2. completed[n + i] = completed[n + j]
    BY <1>2
  <2>3. n + i = n + j
    BY <1>3, <2>1, <2>2
  <2> QED BY <1>1, <2>3
<1>11. IsFiniteSet(Without(n)) /\ Cardinality(Without(n)) <= MaxEntries
  <2>1. Without(n) \subseteq DOMAIN entries
    BY <1>6
  <2>2. IsFiniteSet(DOMAIN entries) /\ Cardinality(DOMAIN entries) <= MaxEntries
    BY DEF AttemptsInv, TableInv, Bounded
  <2>3. /\ IsFiniteSet(Without(n)) /\ Cardinality(Without(n)) <= Cardinality(DOMAIN entries)
        /\ Cardinality(Without(n)) \in Nat /\ Cardinality(DOMAIN entries) \in Nat
    BY <2>1, <2>2, FS_Subset, FS_CardinalityType
  <2> QED BY <2>2, <2>3, ExecutionAssumption
<1>12. {k \in Without(n) : Finished(entries[k])} = Range(rest)
  BY <1>8, <1>9
<1> QED BY <1>6, <1>7, <1>10, <1>11, <1>12

(* A new key gets an entry of its own, if finished attempts make room. *)
LEMMA NewAttemptTable ==
  ASSUME Typed, AttemptsInv, NEW c \in Clients, req[c].pc = "claim", NewAttempt(c),
         \/ MovesTo(c, "check") /\ Fits(Evictions)
         \/ MovesTo(c, "done") /\ ~Fits(Evictions)
  PROVE  TableInv'
<1>1. /\ attempt \in [Clients -> {"none", "open", "ok", "failed"}]
      /\ \A k \in DOMAIN entries : entries[k] \in Clients
      /\ attempt[c] = "none"
  BY DEF Typed, TypeOK, Range, AttemptsInv, TableInv, Phases, Work
<1>2. PICK n, key, kept, rest :
        /\ n \in 0 .. Len(completed) /\ n = Evictions /\ key = Key(c)
        /\ kept = [k \in Without(n) |-> entries[k]]
        /\ rest = SubSeq(completed, n + 1, Len(completed))
  <2>1. PICK len \in Nat : len = Len(completed)
    BY DEF Typed, TypeOK
  <2> QED BY <2>1, EvictionsExist
<1>3. /\ Without(n) \subseteq DOMAIN entries
      /\ \A k \in DOMAIN entries : InFlight(entries[k]) => k \in Without(n)
      /\ {k \in Without(n) : Finished(entries[k])} = Range(rest)
      /\ IsInjective(rest)
      /\ IsFiniteSet(Without(n)) /\ Cardinality(Without(n)) <= MaxEntries
  BY <1>2, EvictedTable
<1>4. /\ DOMAIN kept = Without(n) /\ \A k \in Without(n) : kept[k] = entries[k]
      /\ \A k \in Without(n) : kept[k] \in Clients /\ Key(kept[k]) = k
                               /\ attempt[kept[k]] \in {"open", "ok"}
  BY <1>1, <1>2, <1>3 DEF AttemptsInv, TableInv, EntriesLed, InFlight, Finished
<1>5. key \notin DOMAIN entries /\ completed' = rest
  BY <1>2 DEF NewAttempt
<1>6. \A d \in Clients : <<req'[d].run, req'[d].key>> = Key(d)
  BY DEF MovesTo, OthersStay, SameCall, Key
<1>7. \A d \in Clients : attempt[d] = "open" => Key(d) \in Without(n) /\ kept[Key(d)] = d
  BY <1>3, <1>4 DEF AttemptsInv, TableInv, OpenHeld, InFlight
<1>8. CASE ~Fits(n)
  <2>1. entries' = kept /\ attempt' = attempt
    BY <1>2, <1>8, Zenon DEF NewAttempt
  <2>2. req'[c].pc = "done" /\ OthersStay(c)
    BY <1>2, <1>8 DEF MovesTo
  <2>3. Phases'
    BY <1>1, <2>1, <2>2 DEF AttemptsInv, TableInv, Phases, Work, OthersStay
  <2>4. OpenHeld'
    BY <1>4, <1>6, <1>7, <2>1 DEF OpenHeld, InFlight, Key
  <2>5. EntriesLed'
    BY <1>4, <1>6, <2>1 DEF EntriesLed, InFlight, Finished, Key
  <2>6. Listed'
    BY <1>3, <1>4, <1>5, <2>1 DEF Listed, Finished
  <2>7. Bounded'
    BY <1>3, <1>4, <2>1 DEF Bounded
  <2> QED BY <2>3, <2>4, <2>5, <2>6, <2>7 DEF TableInv
<1>9. CASE Fits(n)
  <2>1. /\ entries' = [k \in DOMAIN kept \union {key} |-> IF k = key THEN c ELSE kept[k]]
        /\ attempt' = [attempt EXCEPT ![c] = "open"]
    BY <1>2, <1>9, Zenon DEF NewAttempt, Lead
  <2>2. req'[c].pc = "check" /\ OthersStay(c)
    BY <1>2, <1>9 DEF MovesTo
  <2>3. Phases'
    BY <1>1, <2>1, <2>2 DEF AttemptsInv, TableInv, Phases, Work, OthersStay
  <2>4. /\ DOMAIN entries' = Without(n) \union {key} /\ entries'[key] = c
        /\ \A k \in Without(n) : k # key /\ entries'[k] = kept[k] /\ kept[k] # c
    BY <1>1, <1>3, <1>4, <1>5, <2>1
  <2>5. OpenHeld'
    <3> SUFFICES ASSUME NEW d \in Clients, attempt'[d] = "open"
                 PROVE  Key(d) \in DOMAIN entries' /\ entries'[Key(d)] = d
      BY <1>6 DEF OpenHeld, InFlight, Key
    <3>1. CASE d = c
      BY <1>2, <2>4, <3>1
    <3>2. CASE d # c
      <4>1. attempt[d] = "open"
        BY <1>1, <2>1, <3>2
      <4> QED BY <1>7, <2>4, <4>1
    <3> QED BY <3>1, <3>2
  <2>6. EntriesLed'
    <3> SUFFICES ASSUME NEW k \in DOMAIN entries'
                 PROVE  Key(entries'[k]) = k /\ attempt'[entries'[k]] \in {"open", "ok"}
                        /\ entries'[k] \in Clients
      BY <1>6 DEF EntriesLed, InFlight, Finished, Key
    <3>1. CASE k = key
      BY <1>1, <1>2, <2>1, <2>4, <3>1
    <3>2. CASE k # key
      BY <1>1, <1>4, <2>1, <2>4, <3>2
    <3> QED BY <3>1, <3>2
  <2>7. Listed'
    <3>1. \A k \in Without(n) : attempt'[entries'[k]] = "ok" <=> attempt[entries[k]] = "ok"
      BY <1>1, <1>4, <2>1, <2>4
    <3>2. attempt'[entries'[key]] = "open"
      BY <1>1, <2>1, <2>4
    <3>3. {k \in DOMAIN entries' : attempt'[entries'[k]] = "ok"} = Range(rest)
      BY <1>3, <2>4, <3>1, <3>2 DEF Finished
    <3> QED BY <1>3, <1>5, <3>3 DEF Listed, Finished
  <2>8. Bounded'
    <3>1. key \notin Without(n)
      BY <1>3, <1>5
    <3>2. /\ IsFiniteSet(Without(n) \union {key})
          /\ Cardinality(Without(n) \union {key}) = Cardinality(Without(n)) + 1
      BY <1>3, <3>1, FS_AddElement
    <3>3. Cardinality(Without(n)) < MaxEntries /\ Cardinality(Without(n)) \in Nat
      BY <1>3, <1>9, FS_CardinalityType DEF Fits
    <3>4. Cardinality(Without(n)) + 1 <= MaxEntries
      BY <3>3, ExecutionAssumption
    <3> QED BY <2>4, <3>2, <3>4 DEF Bounded
  <2> QED BY <2>3, <2>5, <2>6, <2>7, <2>8 DEF TableInv
<1> QED BY <1>8, <1>9

(* An attempt that ends is listed, or its entry goes. *)
LEMMA PublishTableKept ==
  ASSUME Typed, AttemptsInv, NEW c \in Clients, Publish(c), MovesTo(c, "done")
  PROVE  TableInv'
<1>1. /\ attempt \in [Clients -> {"none", "open", "ok", "failed"}]
      /\ \A k \in DOMAIN entries : entries[k] \in Clients
      /\ completed \in Seq((1 .. MaxCreates) \X Keys)
  BY DEF Typed, TypeOK, Range
<1>2. PICK key : key = Key(c) /\ key \in DOMAIN entries /\ entries[key] = c /\ attempt[c] = "open"
  <2>1. req[c].pc \in Work
    BY DEF Publish, Work
  <2> QED BY <2>1 DEF AttemptsInv, TableInv, Phases, OpenHeld, InFlight
<1>3. \A d \in Clients : <<req'[d].run, req'[d].key>> = Key(d)
  BY DEF MovesTo, OthersStay, SameCall, Key
<1>4. attempt' = [attempt EXCEPT ![c] = IF req[c].err THEN "failed" ELSE "ok"]
  BY DEF Publish
<1>5. Phases'
  BY <1>1, <1>4 DEF AttemptsInv, TableInv, Phases, Work, MovesTo, OthersStay
<1>6. \A d \in Clients : attempt'[d] = "open" => d # c /\ attempt[d] = "open" /\ Key(d) # key
  BY <1>1, <1>2, <1>4 DEF AttemptsInv, TableInv, OpenHeld, InFlight
<1>7. \A k \in DOMAIN entries : k # key => entries[k] # c
  BY <1>2 DEF AttemptsInv, TableInv, EntriesLed
<1>8. \A k \in DOMAIN entries : Key(entries[k]) = k /\ attempt[entries[k]] \in {"open", "ok"}
  BY DEF AttemptsInv, TableInv, EntriesLed, InFlight, Finished
<1>9. {k \in DOMAIN entries : attempt[entries[k]] = "ok"} = Range(completed) /\ IsInjective(completed)
  BY DEF AttemptsInv, TableInv, Listed, Finished
<1>10. IsFiniteSet(DOMAIN entries) /\ Cardinality(DOMAIN entries) <= MaxEntries
  BY DEF AttemptsInv, TableInv, Bounded
<1>11. \A d \in Clients : attempt[d] = "open" => Key(d) \in DOMAIN entries /\ entries[Key(d)] = d
  BY DEF AttemptsInv, TableInv, OpenHeld, InFlight
<1>12. CASE req[c].err
  <2>1. /\ entries' = [k \in DOMAIN entries \ {key} |-> entries[k]] /\ completed' = completed
        /\ attempt' = [attempt EXCEPT ![c] = "failed"]
    BY <1>2, <1>4, <1>12 DEF Publish
  <2>2. OpenHeld'
    BY <1>3, <1>6, <1>11, <2>1 DEF OpenHeld, InFlight, Key
  <2>3. EntriesLed'
    BY <1>1, <1>3, <1>7, <1>8, <2>1 DEF EntriesLed, InFlight, Finished, Key
  <2>4. Listed'
    <3>1. \A k \in DOMAIN entries \ {key} : attempt'[entries'[k]] = attempt[entries[k]]
      BY <1>1, <1>7, <2>1
    <3>2. {k \in DOMAIN entries' : attempt'[entries'[k]] = "ok"} = Range(completed)
      BY <1>2, <1>9, <2>1, <3>1
    <3> QED BY <1>9, <2>1, <3>2 DEF Listed, Finished
  <2>5. Bounded'
    <3>1. DOMAIN entries' \subseteq DOMAIN entries
      BY <2>1
    <3>2. /\ IsFiniteSet(DOMAIN entries') /\ Cardinality(DOMAIN entries') <= Cardinality(DOMAIN entries)
          /\ Cardinality(DOMAIN entries') \in Nat /\ Cardinality(DOMAIN entries) \in Nat
      BY <1>10, <3>1, FS_Subset, FS_CardinalityType
    <3>3. Cardinality(DOMAIN entries') <= MaxEntries
      BY <1>10, <3>2, ExecutionAssumption
    <3> QED BY <3>2, <3>3 DEF Bounded
  <2> QED BY <1>5, <2>2, <2>3, <2>4, <2>5 DEF TableInv
<1>13. CASE ~req[c].err
  <2>1. /\ entries' = entries /\ completed' = Append(completed, key)
        /\ attempt' = [attempt EXCEPT ![c] = "ok"]
    BY <1>2, <1>4, <1>13 DEF Publish
  <2>2. OpenHeld'
    BY <1>3, <1>6, <1>11, <2>1 DEF OpenHeld, InFlight, Key
  <2>3. EntriesLed'
    BY <1>1, <1>3, <1>8, <2>1 DEF EntriesLed, InFlight, Finished, Key
  <2>4. Listed'
    <3>1. PICK len \in Nat : len = Len(completed) /\ DOMAIN completed = 1 .. len
      BY <1>1
    <3>2. key \in (1 .. MaxCreates) \X Keys
      BY <1>2 DEF Typed, TypeOK
    <3>3. /\ DOMAIN completed' = 1 .. (len + 1) /\ completed'[len + 1] = key
          /\ \A i \in 1 .. len : completed'[i] = completed[i]
      BY <1>1, <2>1, <3>1, <3>2, AppendProperties
    <3>4. key \notin Range(completed)
      BY <1>2, <1>9
    <3>5. Range(completed') = Range(completed) \union {key}
      BY <3>1, <3>3 DEF Range
    <3>6. IsInjective(completed')
      BY <1>9, <3>1, <3>3, <3>4 DEF IsInjective, Range
    <3>7. \A k \in DOMAIN entries : attempt'[entries[k]] = "ok" <=> k = key \/ attempt[entries[k]] = "ok"
      BY <1>1, <1>2, <1>7, <2>1
    <3>8. {k \in DOMAIN entries' : attempt'[entries'[k]] = "ok"} = Range(completed')
      BY <1>2, <1>9, <2>1, <3>5, <3>7
    <3> QED BY <3>6, <3>8 DEF Listed, Finished
  <2>5. Bounded'
    BY <1>10, <2>1 DEF Bounded
  <2> QED BY <1>5, <2>2, <2>3, <2>4, <2>5 DEF TableInv
<1> QED BY <1>12, <1>13

LEMMA StepAttempts ==
  ASSUME Typed, AttemptsInv, [Next]_vars
  PROVE  AttemptsInv'
<1>1. CASE UNCHANGED <<tableVars, attempt, req>>
  BY <1>1 DEF tableVars, AttemptsInv, TableInv, Phases, OpenHeld, EntriesLed, Listed, Bounded,
              Joined, RetriesMatch, InFlight, Finished, Key
<1>2. ASSUME NEW c \in Clients, OthersStay(c), UNCHANGED <<tableVars, attempt>>,
             SameCall(c) \/ req[c].pc = "start",
             \/ SameLeader(c) \/ req'[c].leader = c
             \/ Join(c) /\ SameCall(c) /\ req'[c].leader = entries[Key(c)],
             req[c].pc \in Work <=> req'[c].pc \in Work,
             req[c].pc # "done", req'[c].pc # "start"
      PROVE  AttemptsInv'
  <2>1. TableInv'
    BY <1>2, QuietTable
  <2>2. Joined'
    BY <1>2, JoinedKept
  <2> QED BY <2>1, <2>2 DEF AttemptsInv
<1>3. ASSUME NEW c \in Clients, Begin(c) PROVE AttemptsInv'
  BY <1>2, <1>3, BeginMoves DEF Begin, Work
<1>4. ASSUME NEW c \in Clients, Claim(c) PROVE AttemptsInv'
  <2>1. req[c].pc = "claim"
    BY <1>4 DEF Claim
  <2>2. CASE MovesTo(c, "done") /\ SameLeader(c) /\ UNCHANGED <<tableVars, attempt>>
    BY <1>2, <2>1, <2>2 DEF MovesTo, Work
  <2>3. CASE MovesTo(c, "wait") /\ Join(c) /\ req'[c].leader = entries[Key(c)]
    <3>1. UNCHANGED <<tableVars, attempt>>
      BY <2>3 DEF Join
    <3> QED BY <1>2, <2>1, <2>3, <3>1 DEF MovesTo, Work
  <2>4. CASE MovesTo(c, "done") /\ SameLeader(c) /\ NewAttempt(c) /\ ~Fits(Evictions) /\ UNCHANGED attempt
    <3>1. TableInv'
      BY <2>1, <2>4, NewAttemptTable
    <3>2. Joined'
      BY <2>1, <2>4, JoinedKept DEF MovesTo
    <3> QED BY <3>1, <3>2 DEF AttemptsInv
  <2>5. CASE /\ MovesTo(c, "check") /\ req'[c].leader = c
             /\ TakeOver(c) \/ (NewAttempt(c) /\ Fits(Evictions))
    <3>1. TableInv'
      BY <2>1, <2>5, NewAttemptTable, TakeOverTable
    <3>2. attempt' = [attempt EXCEPT ![c] = "open"]
      BY <2>5, Zenon DEF TakeOver, NewAttempt, Lead
    <3>3. \A d \in Clients : attempt[d] # "none" => attempt'[d] # "none"
      BY <3>2 DEF Typed, TypeOK
    <3>4. Joined'
      BY <2>1, <2>5, <3>3, JoinedKept DEF MovesTo
    <3> QED BY <3>1, <3>4 DEF AttemptsInv
  <2> QED BY <1>4, <2>2, <2>3, <2>4, <2>5, ClaimMoves, Zenon
<1>5. ASSUME NEW c \in Clients, Publish(c) PROVE AttemptsInv'
  <2>1. MovesTo(c, "done") /\ SameLeader(c) /\ req[c].pc = "publish"
    BY <1>5, PlainMoves
  <2>2. TableInv'
    BY <1>5, <2>1, PublishTableKept
  <2>3. attempt' = [attempt EXCEPT ![c] = IF req[c].err THEN "failed" ELSE "ok"]
    BY <1>5 DEF Publish
  <2>4. \A d \in Clients : attempt[d] # "none" => attempt'[d] # "none"
    BY <2>3 DEF Typed, TypeOK
  <2>5. Joined'
    BY <2>1, <2>4, JoinedKept DEF MovesTo
  <2> QED BY <2>2, <2>5 DEF AttemptsInv
<1>6. ASSUME NEW c \in Clients,
             Replay(c) \/ Check(c) \/ Recheck(c) \/ Return(c)
      PROVE  AttemptsInv'
  <2>1. UNCHANGED <<tableVars, attempt>>
    BY <1>6 DEF Replay, Check, Recheck, Return
  <2> QED BY <1>2, <1>6, <2>1, PlainMoves DEF MovesTo, Work
<1>7. ASSUME NEW c \in Clients, Invoke(c) \/ Authorize(c) PROVE AttemptsInv'
  <2>1. UNCHANGED <<tableVars, attempt>>
    BY <1>7 DEF Invoke, Authorize
  <2> QED BY <1>2, <1>7, <2>1, InvokeMoves, AuthorizeMoves DEF MovesTo, Work
<1>8. ASSUME NEW c \in Clients, Record(c) \/ Consume(c) \/ OpenGate(c) PROVE AttemptsInv'
  <2>1. UNCHANGED <<tableVars, attempt>>
    BY <1>8 DEF Record, Consume, OpenGate
  <2> QED BY <1>2, <1>8, <2>1, RecordMoves, ConsumeMoves, OpenGateMoves DEF MovesTo, Work
<1>9. CASE UNCHANGED vars \/ UserStep \/ ChangeInventory \/ \E c \in Clients : Disconnect(c)
  BY <1>1, <1>9, Zenon DEF vars, tableVars, UserStep, ChangeInventory, Disconnect
<1> QED BY <1>3, <1>4, <1>5, <1>6, <1>7, <1>8, <1>9, Zenon DEF Next, Step

(* The attempt table and the retries, in every state. *)
THEOREM AttemptsInvariant == Safety => [](Typed /\ AttemptsInv)
<1>1. Typed /\ AttemptsInv /\ [Next]_vars => (Typed /\ AttemptsInv)'
  BY StepTyped, StepAttempts
<1> QED BY <1>1, InitTyped, InitAttempts, PTL DEF Safety

(* Every running attempt holds its key, every other entry is a finished    *)
(* one listed once, and the table keeps its limit.                         *)
THEOREM EntriesKept == Safety => []EntriesAccounted
<1>1. AttemptsInv => EntriesAccounted
  BY DEF AttemptsInv, TableInv, OpenHeld, EntriesLed, Listed, Bounded, EntriesAccounted
<1> QED BY <1>1, AttemptsInvariant, PTL

(* A joined retry asked for the very call its leader made, of the same run. *)
THEOREM RetriesJoin == Safety => []RetriesMatch
<1>1. AttemptsInv => RetriesMatch
  BY DEF AttemptsInv, Joined
<1> QED BY <1>1, AttemptsInvariant, PTL

-----------------------------------------------------------------------------
(* Waiting.  A joined retry waits for another request, whose attempt has   *)
(* its outcome or is at work: nobody waits for itself, for an attempt that *)
(* was given up unanswered, or for a request that waits in turn.           *)
Waiting(c) == req[c].pc = "wait"

HasLeader(c) == Waiting(c) => attempt[req[c].leader] # "none"

NobodyWaitsInVain ==
  \A c \in Clients : Waiting(c) =>
    LET l == req[c].leader
    IN  l # c /\ (attempt[l] \in {"ok", "failed"} \/ req[l].pc \in Work)

(* An attempt once begun is never undone. *)
LEMMA AttemptsGrow ==
  ASSUME Typed, [Next]_vars, NEW l \in Clients, attempt[l] # "none"
  PROVE  attempt'[l] # "none"
<1>1. ASSUME NEW c \in Clients, Claim(c) PROVE attempt'[l] # "none"
  <2>1. UNCHANGED attempt \/ attempt' = [attempt EXCEPT ![c] = "open"]
    BY <1>1, Zenon DEF Claim, ClaimGone, Conflict, Join, TakeOver, NewAttempt, Lead
  <2> QED BY <2>1 DEF Typed, TypeOK
<1>2. ASSUME NEW c \in Clients, Publish(c) PROVE attempt'[l] # "none"
  BY <1>2 DEF Publish, Typed, TypeOK
<1>3. ASSUME NEW c \in Clients,
             \/ Begin(c) \/ Disconnect(c) \/ Replay(c) \/ Check(c) \/ Authorize(c) \/ Record(c)
             \/ Consume(c) \/ OpenGate(c) \/ Recheck(c) \/ Invoke(c) \/ Return(c)
      PROVE  attempt'[l] # "none"
  BY <1>3, Zenon DEF Begin, Disconnect, Replay, Check, Authorize, Record, Consume, OpenGate,
                     Recheck, Invoke, Return
<1>4. CASE UserStep \/ ChangeInventory \/ UNCHANGED vars
  BY <1>4, Zenon DEF UserStep, ChangeInventory, vars
<1> QED BY <1>1, <1>2, <1>3, <1>4, Zenon DEF Next, Step

(* A step of a request that comes to wait only by joining. *)
LEMMA LeadersKept ==
  ASSUME Typed, AttemptsInv, \A d \in Clients : HasLeader(d), NEW c \in Clients, OthersStay(c),
         \A l \in Clients : attempt[l] # "none" => attempt'[l] # "none",
         \/ req'[c].pc # "wait"
         \/ Join(c) /\ req'[c].leader = entries[Key(c)]
  PROVE  \A d \in Clients : HasLeader(d)'
<1>1. ASSUME NEW d \in Clients, d # c PROVE HasLeader(d)'
  <2>1. req'[d] = req[d] /\ req[d].leader \in Clients
    BY <1>1 DEF OthersStay, Typed, TypeOK, Request
  <2> QED BY <2>1 DEF HasLeader, Waiting
<1>2. ASSUME Join(c), req'[c].leader = entries[Key(c)] PROVE HasLeader(c)'
  <2>1. Key(c) \in DOMAIN entries /\ entries[Key(c)] \in Clients
    BY <1>2 DEF Join, Typed, TypeOK, Range
  <2>2. attempt[entries[Key(c)]] # "none"
    BY <2>1 DEF AttemptsInv, TableInv, EntriesLed, InFlight, Finished
  <2> QED BY <1>2, <2>1, <2>2 DEF HasLeader
<1>3. req'[c].pc # "wait" => HasLeader(c)'
  BY DEF HasLeader, Waiting
<1> QED BY <1>1, <1>2, <1>3

LEMMA StepLeaders ==
  ASSUME Typed, AttemptsInv, \A d \in Clients : HasLeader(d), [Next]_vars
  PROVE  \A d \in Clients : HasLeader(d)'
<1>1. \A l \in Clients : attempt[l] # "none" => attempt'[l] # "none"
  BY AttemptsGrow
<1>2. ASSUME req' = req PROVE \A d \in Clients : HasLeader(d)'
  <2>1. \A d \in Clients : req[d].leader \in Clients
    BY DEF Typed, TypeOK, Request
  <2> QED BY <1>1, <1>2, <2>1 DEF HasLeader, Waiting
<1>3. ASSUME NEW c \in Clients, Begin(c) PROVE \A d \in Clients : HasLeader(d)'
  BY <1>1, <1>3, BeginMoves, LeadersKept
<1>4. ASSUME NEW c \in Clients, Claim(c) PROVE \A d \in Clients : HasLeader(d)'
  <2>1. /\ OthersStay(c)
        /\ \/ req'[c].pc # "wait"
           \/ Join(c) /\ req'[c].leader = entries[Key(c)]
    BY <1>4, ClaimMoves DEF MovesTo
  <2> QED BY <1>1, <2>1, LeadersKept
<1>5. ASSUME NEW c \in Clients,
             \/ Replay(c) \/ Check(c) \/ Recheck(c) \/ Return(c) \/ Publish(c)
             \/ Invoke(c) \/ Authorize(c)
      PROVE  \A d \in Clients : HasLeader(d)'
  <2>1. OthersStay(c) /\ req'[c].pc # "wait"
    BY <1>5, PlainMoves, InvokeMoves, AuthorizeMoves DEF MovesTo
  <2> QED BY <1>1, <2>1, LeadersKept
<1>6. ASSUME NEW c \in Clients, Record(c) \/ Consume(c) \/ OpenGate(c)
      PROVE  \A d \in Clients : HasLeader(d)'
  <2>1. OthersStay(c) /\ req'[c].pc # "wait"
    BY <1>6, RecordMoves, ConsumeMoves, OpenGateMoves DEF MovesTo
  <2> QED BY <1>1, <2>1, LeadersKept
<1>7. CASE UNCHANGED vars \/ UserStep \/ ChangeInventory \/ \E c \in Clients : Disconnect(c)
  BY <1>2, <1>7, Zenon DEF vars, UserStep, ChangeInventory, Disconnect
<1> QED BY <1>3, <1>4, <1>5, <1>6, <1>7, Zenon DEF Next, Step

(* Whoever waits for another request's attempt waits for one that has its  *)
(* outcome or is at work, so no requests wait for each other.              *)
THEOREM WaitersAreServed == Safety => []NobodyWaitsInVain
<1> DEFINE Led == \A d \in Clients : HasLeader(d)
<1>1. Init => Led
  <2>1. Init => \A c \in Clients : req[c].pc = "start"
    BY DEF Init, Blank
  <2> QED BY <2>1 DEF HasLeader, Waiting
<1>2. Typed /\ AttemptsInv /\ Led /\ [Next]_vars => Led'
  BY StepLeaders
<1>3. Typed /\ AttemptsInv /\ Led => NobodyWaitsInVain
  <2> SUFFICES ASSUME Typed, AttemptsInv, Led, NEW c \in Clients, Waiting(c),
                      NEW l, l = req[c].leader
               PROVE  l # c /\ (attempt[l] \in {"ok", "failed"} \/ req[l].pc \in Work)
    BY DEF NobodyWaitsInVain
  <2>1. l \in Clients /\ attempt[l] \in {"open", "ok", "failed"}
    BY DEF Typed, TypeOK, Request, HasLeader
  <2>2. attempt[c] \notin {"open", "ok", "failed"}
    BY DEF AttemptsInv, TableInv, Phases, Waiting, Work
  <2> QED BY <2>1, <2>2 DEF AttemptsInv, TableInv, Phases
<1> HIDE DEF Led
<1> QED BY <1>1, <1>2, <1>3, AttemptsInvariant, PTL DEF Safety

-----------------------------------------------------------------------------
(* What an operation of the store does to a run.                           *)

(* Approvals stand, a binding is at most cleared, audit entries stay.      *)
Grew(r, s) ==
  /\ DOMAIN r.gates \subseteq DOMAIN s.gates
  /\ \A g \in DOMAIN r.gates :
       /\ r.gates[g].status = "approved" => s.gates[g].status = "approved"
       /\ s.gates[g].binding \in {r.gates[g].binding, NoBinding}
  /\ \A g : Store!LogsOf(r, "allowed", g) \subseteq Store!LogsOf(s, "allowed", g)

(* An open run says it waits exactly when a gate is undecided. *)
Settled(run) ==
  ~Store!IsTerminal(run) => (run.status = "waiting_approval" <=> Store!HasPending(run))

SameGates(r, s) == DOMAIN s.gates = DOMAIN r.gates

(* What one more log entry adds. *)
LEMMA LogAppended ==
  ASSUME NEW r \in Store!Run, NEW s, NEW g \in Nat,
         NEW what \in {"message", "allowed", "approved", "rejected", "canceled", "failed"},
         s.logs = Append(r.logs, [what |-> what, gate |-> g])
  PROVE  /\ \A h : Store!LogsOf(r, "allowed", h) \subseteq Store!LogsOf(s, "allowed", h)
         /\ what = "allowed" =>
              Store!LogsOf(s, "allowed", g) \ Store!LogsOf(r, "allowed", g) # {}
<1> DEFINE e == [what |-> what, gate |-> g]
<1>1. r.logs \in Seq(Store!LogEntry) /\ e \in Store!LogEntry
  BY DEF Store!Run, Store!LogEntry
<1>2. PICK n \in Nat : n = Len(r.logs) /\ DOMAIN r.logs = 1 .. n
  BY <1>1
<1>3. /\ DOMAIN s.logs = 1 .. (n + 1) /\ s.logs[n + 1] = e
      /\ \A i \in 1 .. n : s.logs[i] = r.logs[i]
  BY <1>1, <1>2, AppendProperties
<1>4. \A h : Store!LogsOf(r, "allowed", h) \subseteq Store!LogsOf(s, "allowed", h)
  BY <1>2, <1>3 DEF Store!LogsOf
<1>5. ASSUME what = "allowed"
      PROVE  Store!LogsOf(s, "allowed", g) \ Store!LogsOf(r, "allowed", g) # {}
  <2>1. n + 1 \in Store!LogsOf(s, "allowed", g) /\ n + 1 \notin Store!LogsOf(r, "allowed", g)
    BY <1>2, <1>3, <1>5 DEF Store!LogsOf
  <2> QED BY <2>1
<1> QED BY <1>4, <1>5

(* A cancelled or failed run is closed. *)
LEMMA ClosedGrows ==
  ASSUME NEW r \in Store!Run, NEW s, s = Store!Canceled(r) \/ s = Store!Failed(r)
  PROVE  Grew(r, s) /\ SameGates(r, s) /\ Settled(s)
<1>1. /\ s.gates = r.gates /\ s.status \in {"canceled", "failed"}
      /\ \E what \in {"canceled", "failed"} : s.logs = Append(r.logs, [what |-> what, gate |-> 0])
  BY DEF Store!Canceled, Store!Failed, Store!Logged, Store!Run
<1>2. \A h : Store!LogsOf(r, "allowed", h) \subseteq Store!LogsOf(s, "allowed", h)
  BY <1>1, LogAppended
<1> QED BY <1>1, <1>2 DEF Grew, SameGates, Settled, Store!IsTerminal, Store!Terminal

(* A route that needs no approval is put on record. *)
LEMMA AllowedGrows ==
  ASSUME NEW r \in Store!Run, NEW s, s = Store!Logged(r, "allowed", 0)
  PROVE  /\ Grew(r, s) /\ SameGates(r, s) /\ (Settled(r) => Settled(s))
         /\ Store!LogsOf(s, "allowed", 0) \ Store!LogsOf(r, "allowed", 0) # {}
<1>1. /\ s.gates = r.gates /\ s.status = r.status
      /\ s.logs = Append(r.logs, [what |-> "allowed", gate |-> 0])
  BY DEF Store!Logged, Store!Run
<1>2. /\ \A h : Store!LogsOf(r, "allowed", h) \subseteq Store!LogsOf(s, "allowed", h)
      /\ Store!LogsOf(s, "allowed", 0) \ Store!LogsOf(r, "allowed", 0) # {}
  BY <1>1, LogAppended
<1> QED BY <1>1, <1>2 DEF Grew, SameGates, Settled, Store!IsTerminal, Store!HasPending

(* A new gate is undecided and makes the run wait. *)
LEMMA GateGrows ==
  ASSUME NEW r \in Store!Run, NEW binding \in Operations, NEW s, s = Store!WithGate(r, binding)
  PROVE  /\ Grew(r, s) /\ Settled(s)
         /\ DOMAIN s.gates = DOMAIN r.gates \union {Len(r.gates) + 1}
         /\ Len(r.gates) + 1 \notin DOMAIN r.gates
         /\ s.gates[Len(r.gates) + 1].binding = binding
<1> DEFINE gate == [status |-> "pending", binding |-> binding]
<1>1. /\ s.gates = Append(r.gates, gate) /\ s.status = "waiting_approval" /\ s.logs = r.logs
      /\ r.gates \in Seq(Store!Gate) /\ gate \in Store!Gate
      /\ gate.status = "pending" /\ gate.binding = binding
  BY DEF Store!WithGate, Store!Run, Store!Gate, Store!GateStatus, Store!Binding
<1> HIDE DEF gate
<1>2. PICK n \in Nat : n = Len(r.gates) /\ DOMAIN r.gates = 1 .. n
  BY <1>1
<1>3. /\ DOMAIN s.gates = 1 .. (n + 1) /\ s.gates[n + 1] = gate
      /\ \A g \in 1 .. n : s.gates[g] = r.gates[g]
  BY <1>1, <1>2, AppendProperties
<1>4. Store!HasPending(s)
  BY <1>1, <1>3 DEF Store!HasPending
<1>5. Grew(r, s)
  BY <1>1, <1>2, <1>3 DEF Grew, Store!LogsOf
<1> QED BY <1>1, <1>2, <1>3, <1>4, <1>5 DEF Settled

(* The change of one gate of a run. *)
LEMMA GateChanged ==
  ASSUME NEW r \in Store!Run, NEW g \in DOMAIN r.gates, NEW gates,
         \/ \E status : gates = [r.gates EXCEPT ![g].status = status]
         \/ \E binding : gates = [r.gates EXCEPT ![g].binding = binding]
  PROVE  /\ g \in Nat /\ DOMAIN gates = DOMAIN r.gates
         /\ \A h \in DOMAIN r.gates \ {g} : gates[h] = r.gates[h]
BY DEF Store!Run

(* A decided gate leaves the run waiting while another one is undecided,   *)
(* and closes it when it was rejected.                                     *)
LEMMA DecidedGrows ==
  ASSUME NEW r \in Store!Run, NEW g \in DOMAIN r.gates, r.gates[g].status = "pending",
         ~Store!IsTerminal(r), Settled(r),
         NEW s, s = Store!Approved(r, g) \/ s = Store!Rejected(r, g)
  PROVE  Grew(r, s) /\ SameGates(r, s) /\ Settled(s)
<1> DEFINE decision == IF s = Store!Approved(r, g) THEN "approved" ELSE "rejected"
           d == Store!Decided(r, g, decision)
<1>1. /\ decision \in {"approved", "rejected"} /\ d = Store!Decided(r, g, decision)
      /\ decision = "approved" =>
           s = IF d.status = "waiting_approval" /\ ~Store!HasPending(d)
               THEN [d EXCEPT !.status = "running", !.started = TRUE] ELSE d
      /\ decision = "rejected" =>
           s = [d EXCEPT !.status = "failed", !.error = "gate_rejected", !.completed = TRUE]
  <2>1. decision = "approved" =>
           s = IF d.status = "waiting_approval" /\ ~Store!HasPending(d)
               THEN [d EXCEPT !.status = "running", !.started = TRUE] ELSE d
    BY Zenon DEF Store!Approved
  <2>2. decision = "rejected" =>
           s = [d EXCEPT !.status = "failed", !.error = "gate_rejected", !.completed = TRUE]
    BY Zenon DEF Store!Rejected
  <2> QED BY <2>1, <2>2
<1> HIDE DEF decision, d
<1>2. /\ d = [r EXCEPT !.gates = d.gates, !.logs = d.logs]
      /\ d.gates = [r.gates EXCEPT ![g].status = decision]
      /\ d.logs = Append(r.logs, [what |-> decision, gate |-> g]) /\ d.status = r.status
  BY <1>1 DEF Store!Decided, Store!WithDecision, Store!Logged, Store!Run
<1>3. /\ s.gates = d.gates /\ s.logs = d.logs
      /\ decision = "rejected" => s.status = "failed"
      /\ decision = "approved" =>
           s.status = IF d.status = "waiting_approval" /\ ~Store!HasPending(d)
                      THEN "running" ELSE d.status
  BY ZenonT(60), <1>1, <1>2 DEF Store!Run
<1>4. /\ g \in Nat /\ DOMAIN d.gates = DOMAIN r.gates
      /\ \A h \in DOMAIN r.gates \ {g} : d.gates[h] = r.gates[h]
  BY <1>2, GateChanged
<1>5. d.gates[g].binding = r.gates[g].binding
  <2>1. r.gates[g] \in Store!Gate
    BY DEF Store!Run
  <2> QED BY <1>2, <2>1 DEF Store!Gate
<1>6. \A h : Store!LogsOf(r, "allowed", h) \subseteq Store!LogsOf(s, "allowed", h)
  <2>1. s.logs = Append(r.logs, [what |-> decision, gate |-> g])
    BY <1>2, <1>3
  <2>2. decision \in {"message", "allowed", "approved", "rejected", "canceled", "failed"}
    BY <1>1
  <2> QED BY <1>4, <2>1, <2>2, LogAppended
<1>7. Grew(r, s) /\ SameGates(r, s)
  BY <1>3, <1>4, <1>5, <1>6 DEF Grew, SameGates
<1>8. Settled(s)
  <2>1. CASE decision = "rejected"
    BY <1>3, <2>1 DEF Settled, Store!IsTerminal, Store!Terminal
  <2>2. CASE decision = "approved"
    <3>1. r.status = "waiting_approval"
      BY DEF Settled, Store!HasPending
    <3>2. Store!HasPending(s) <=> Store!HasPending(d)
      BY <1>3 DEF Store!HasPending
    <3> QED BY <1>2, <1>3, <2>2, <3>1, <3>2 DEF Settled
  <2> QED BY <1>1, <2>1, <2>2
<1> QED BY <1>7, <1>8

(* A spent gate keeps its approval, loses its binding and is on record. *)
LEMMA SpentGrows ==
  ASSUME NEW r \in Store!Run, NEW g \in DOMAIN r.gates, Store!Spendable(r, g),
         NEW s, s = Store!Spent(r, g)
  PROVE  /\ Grew(r, s) /\ SameGates(r, s) /\ (Settled(r) => Settled(s))
         /\ s.gates[g].status = "approved" /\ s.gates[g].binding = NoBinding
         /\ Store!LogsOf(s, "allowed", g) \ Store!LogsOf(r, "allowed", g) # {}
<1>1. /\ s.gates = [r.gates EXCEPT ![g].binding = NoBinding] /\ s.status = r.status
      /\ s.logs = Append(r.logs, [what |-> "allowed", gate |-> g])
  BY DEF Store!Spent, Store!Unbound, Store!Logged, Store!Run
<1>2. /\ g \in Nat /\ DOMAIN s.gates = DOMAIN r.gates
      /\ \A h \in DOMAIN r.gates \ {g} : s.gates[h] = r.gates[h]
  BY <1>1, GateChanged
<1>3. s.gates[g].binding = NoBinding /\ s.gates[g].status = r.gates[g].status
  <2>1. r.gates[g] \in Store!Gate
    BY DEF Store!Run
  <2> QED BY <1>1, <2>1 DEF Store!Gate
<1>4. r.gates[g].status = "approved"
  BY DEF Store!Spendable
<1>5. /\ \A h : Store!LogsOf(r, "allowed", h) \subseteq Store!LogsOf(s, "allowed", h)
      /\ Store!LogsOf(s, "allowed", g) \ Store!LogsOf(r, "allowed", g) # {}
  BY <1>1, <1>2, LogAppended
<1>6. Grew(r, s) /\ SameGates(r, s)
  BY <1>2, <1>3, <1>4, <1>5 DEF Grew, SameGates
<1>7. Settled(r) => Settled(s)
  <2>1. Store!HasPending(s) <=> Store!HasPending(r)
    BY <1>2, <1>3 DEF Store!HasPending
  <2> QED BY <1>1, <2>1 DEF Settled, Store!IsTerminal
<1> QED BY <1>3, <1>4, <1>5, <1>6, <1>7

(* A run that is replaced; the others stay. *)
LEMMA UpdatedRuns ==
  ASSUME Typed, NEW id \in Store!Live, NEW s, Store!Update(id, s)
  PROVE  /\ next' = next /\ Store!Live' = Store!Live /\ runs'[id] = s
         /\ \A other \in Store!Live \ {id} : runs'[other] = runs[other]
<1>1. runs \in [Store!Live -> Store!Run]
  BY DEF Typed, TypeOK, Store!TypeOK
<1> QED BY <1>1 DEF Store!Update, Store!Live

(* A run that is created; the remembered ones stay. *)
LEMMA CreatedRuns ==
  ASSUME Typed, NEW mode, Store!Create(mode)
  PROVE  /\ next' = next + 1
         /\ \A id \in Store!Live' :
              \/ id = next + 1 /\ runs'[id] = Store!NewRun(mode)
              \/ id \in Store!Live /\ id # next + 1 /\ runs'[id] = runs[id]
<1>1. /\ next' = next + 1 /\ order' = Store!Evicted(Append(order, next + 1))
      /\ runs' = [id \in Store!Live' |-> IF id = next + 1 THEN Store!NewRun(mode) ELSE runs[id]]
  BY DEF Store!Create
<1>2. \A ids : Store!Evicted(ids) = Runs!Evicted(ids)
  BY Zenon DEF Store!Evicted, Runs!Evicted
<1>3. next \in Nat /\ order \in Seq(Nat) /\ Runs!Window(order, next)
  BY DEF Typed, Runs!StoreInv, Runs!TypeOK, Runs!KeepsMostRecentRuns, Runs!Window
<1>4. MaxRuns \in Nat \ {0} /\ NoBinding \notin Operations
  BY ExecutionAssumption
<1>5. Runs!Extends(order', order, next + 1)
  BY <1>1, <1>2, <1>3, <1>4, Runs!EvictedWindow
<1>6. \A id \in Store!Live' : id = next + 1 \/ id \in Store!Live
  BY <1>5 DEF Store!Live, Runs!Extends
<1> QED BY <1>1, <1>6

(* What a step leaves of the remembered runs. *)
RunGrows(id) ==
  \/ /\ id \in Store!Live /\ Grew(runs[id], runs'[id]) /\ Settled(runs'[id])
     /\ OpensNone => SameGates(runs[id], runs'[id])
  \/ /\ id = next + 1 /\ Settled(runs'[id])
     /\ DOMAIN runs'[id].gates = {} /\ DOMAIN runs'[id].logs = {}

LEMMA RunsGrow ==
  ASSUME Typed, \A id \in Store!Live : Settled(runs[id]), StoreMoves
  PROVE  \A id \in Store!Live' : RunGrows(id)
<1>1. \A id \in Store!Live : runs[id] \in Store!Run
  BY LiveRuns DEF Typed
<1>2. \A id : Grew(runs[id], runs[id]) /\ SameGates(runs[id], runs[id])
  BY DEF Grew, SameGates
<1>3. ASSUME NEW id \in Store!Live, NEW s, Store!Update(id, s), Grew(runs[id], s), Settled(s),
             OpensNone => SameGates(runs[id], s)
      PROVE  \A other \in Store!Live' : RunGrows(other)
  BY <1>2, <1>3, UpdatedRuns DEF RunGrows
<1>4. CASE UNCHANGED storeVars
  <2>1. Store!Live' = Store!Live /\ runs' = runs
    BY <1>4 DEF storeVars, Store!Live
  <2> QED BY <1>2, <2>1 DEF RunGrows
<1>5. ASSUME NEW mode \in UserModes, Store!Create(mode)
      PROVE  \A id \in Store!Live' : RunGrows(id)
  <2>1. /\ DOMAIN Store!NewRun(mode).gates = {} /\ DOMAIN Store!NewRun(mode).logs = {}
        /\ Settled(Store!NewRun(mode))
    BY DEF Store!NewRun, Settled, Store!HasPending
  <2> QED BY <1>2, <1>5, <2>1, CreatedRuns DEF RunGrows
<1>6. ASSUME NEW id \in Store!Live, Store!Cancel(id) \/ Store!Fail(id)
      PROVE  \A other \in Store!Live' : RunGrows(other)
  <2>1. PICK s : Store!Update(id, s) /\ (s = Store!Canceled(runs[id]) \/ s = Store!Failed(runs[id]))
    BY <1>6 DEF Store!Cancel, Store!Fail
  <2> QED BY <1>1, <1>3, <2>1, ClosedGrows
<1>7. ASSUME NEW id \in Store!Live, Store!Decide(id)
      PROVE  \A other \in Store!Live' : RunGrows(other)
  <2>1. PICK g \in DOMAIN runs[id].gates, d \in {"approved", "rejected"} :
          Store!DecideApproval(id, g, d)
    BY <1>7 DEF Store!Decide
  <2>2. PICK s : Store!Update(id, s)
                 /\ (s = Store!Approved(runs[id], g) \/ s = Store!Rejected(runs[id], g))
    BY <2>1 DEF Store!DecideApproval
  <2>3. runs[id].gates[g].status = "pending" /\ ~Store!IsTerminal(runs[id])
    BY <2>1 DEF Store!DecideApproval, Store!Open
  <2> QED BY <1>1, <1>3, <2>2, <2>3, DecidedGrows
<1>8. ASSUME NEW id \in Store!Live, Store!AddLogIfNoPendingApprovals(id)
      PROVE  \A other \in Store!Live' : RunGrows(other)
  <2>1. PICK s : Store!Update(id, s) /\ s = Store!Logged(runs[id], "allowed", 0)
    BY <1>8 DEF Store!AddLogIfNoPendingApprovals
  <2>2. Grew(runs[id], s) /\ SameGates(runs[id], s) /\ Settled(s)
    BY <1>1, <2>1, AllowedGrows
  <2> QED BY <1>3, <2>1, <2>2
<1>9. ASSUME NEW id \in Store!Live, NEW g \in DOMAIN runs[id].gates,
             Store!ConsumeApprovalBinding(id, g)
      PROVE  \A other \in Store!Live' : RunGrows(other)
  <2>1. PICK s : Store!Update(id, s) /\ s = Store!Spent(runs[id], g) /\ Store!Spendable(runs[id], g)
    BY <1>9 DEF Store!ConsumeApprovalBinding
  <2>2. Grew(runs[id], s) /\ SameGates(runs[id], s) /\ Settled(s)
    BY <1>1, <2>1, SpentGrows
  <2> QED BY <1>3, <2>1, <2>2
<1>10. CASE Asks /\ ~OpensNone
  <2>1. PICK id \in Store!Live, op \in Operations : Store!AddApproval(id, op)
    BY <1>10 DEF Asks
  <2>2. PICK s : Store!Update(id, s) /\ s = Store!WithGate(runs[id], op)
    BY <2>1 DEF Store!AddApproval
  <2>3. Grew(runs[id], s) /\ Settled(s)
    BY <1>1, <2>2, GateGrows
  <2> QED BY <1>3, <1>10, <2>2, <2>3
<1>11. CASE OpensNone
  BY <1>4, <1>5, <1>6, <1>7, <1>8, <1>9, <1>11, Zenon DEF OpensNone
<1> QED BY <1>10, <1>11, Zenon DEF StoreMoves

-----------------------------------------------------------------------------
(* The calls.  A request holds a call once its authorization is on record  *)
(* and until it gives up; it has its gate from MatchingGates on.           *)

Holder(c) == req[c].sent \/ req[c].pc \in {"recheck", "invoke", "calling"}

Holders(id, g) == {c \in Clients : Holder(c) /\ req[c].run = id /\ req[c].gate = g}

Claims(c) == req[c].pc = "consume" \/ Holder(c)

(* What a request has and has not done where it is. *)
Phase(c) ==
  LET r == req[c] IN
  /\ r.pc \in {"start", "claim", "wait", "check", "authorize", "record", "gate"} => r.gate = 0
  /\ r.pc \notin {"calling", "publish", "done"} => ~r.sent
  /\ r.pc \notin {"publish", "done"} => ~r.err
  /\ r.pc \in {"consume", "gate"} =>
       r.decision = D!ApprovalRequired /\ D!ModeAllowsRisk(r.mode, r.risk)
  /\ r.pc = "record" /\ r.decision.status # "denied" => D!ModeAllowsRisk(r.mode, r.risk)
  /\ Holder(c) => D!ModeAllowsRisk(r.mode, r.risk) /\ (r.gate = 0 => r.risk = "read_only")
  /\ r.pc = "consume" => r.gate # 0

PhaseInv == \A c \in Clients : Phase(c)

(* Request o asked for gate g of the run, and the gate is for its call. *)
Opened(o, id, g) ==
  /\ req[o].run = id /\ req[o].gate = g /\ req[o].decision = D!ApprovalRequired
  /\ ~req[o].err /\ req[o].pc \in {"publish", "done"}
  /\ runs[id].gates[g].binding \in {Operation(o), NoBinding}

GatesOpened ==
  \A id \in Store!Live : \A g \in DOMAIN runs[id].gates : \E o \in Clients : Opened(o, id, g)

(* The gate of a call is approved for it, and spent by whoever holds it. *)
GateStands(c) ==
  LET gates == runs[req[c].run].gates
  IN  /\ req[c].gate \in DOMAIN gates /\ gates[req[c].gate].status = "approved"
      /\ Holder(c) => gates[req[c].gate].binding = NoBinding

Approved(c) ==
  Claims(c) /\ req[c].gate # 0 =>
    (\E o \in Clients : Asked(o, c)) /\ (req[c].run \in Store!Live => GateStands(c))

HoldersApproved == \A c \in Clients : Approved(c)

HoldersAlone ==
  \A c, d \in Clients : Holder(c) /\ Holder(d) /\ c # d /\ req[c].gate # 0 =>
    <<req[d].run, req[d].gate>> # <<req[c].run, req[c].gate>>

Counted(id, g) ==
  Cardinality(Holders(id, g)) <= Cardinality(Store!LogsOf(runs[id], "allowed", g))

HoldersCounted == \A id \in Store!Live : \A g \in Nat : Counted(id, g)

RunsSettled == \A id \in Store!Live : Settled(runs[id])

CallsInv ==
  /\ PhaseInv /\ RunsSettled
  /\ GatesOpened /\ HoldersApproved /\ HoldersAlone /\ HoldersCounted

(* What a step leaves of a request: it claims no call it did not claim.    *)
SameClaim(d) ==
  /\ req'[d].run = req[d].run /\ req'[d].gate = req[d].gate
  /\ req'[d].call = req[d].call /\ req'[d].risk = req[d].risk

ClaimsNoMore(d) ==
  /\ Claims(d)' => SameClaim(d)
  /\ Holder(d)' => Holder(d)
  /\ req'[d].pc = "consume" => req[d].pc = "consume"

(* Whoever asked for a gate has asked for it. *)
AskersStay ==
  \A o \in Clients : req[o].pc \in {"publish", "done"} /\ ~req[o].err =>
    /\ SameClaim(o) /\ req'[o].decision = req[o].decision
    /\ ~req'[o].err /\ req'[o].pc \in {"publish", "done"}

LEMMA OpenedStays ==
  ASSUME Typed, AskersStay, NEW id \in Store!Live, NEW g \in DOMAIN runs[id].gates,
         Grew(runs[id], runs'[id]), NEW o \in Clients, Opened(o, id, g)
  PROVE  Opened(o, id, g)'
<1>1. runs'[id].gates[g].binding \in {runs[id].gates[g].binding, NoBinding}
  BY DEF Grew
<1>2. SameClaim(o) /\ req'[o].decision = req[o].decision
      /\ ~req'[o].err /\ req'[o].pc \in {"publish", "done"}
  BY DEF AskersStay, Opened
<1> QED BY <1>1, <1>2 DEF Opened, SameClaim, Operation

(* Gates that are there were asked for. *)
LEMMA GatesOpenedStay ==
  ASSUME Typed, GatesOpened, AskersStay, OpensNone, \A id \in Store!Live' : RunGrows(id)
  PROVE  GatesOpened'
<1> SUFFICES ASSUME NEW id \in Store!Live', NEW g \in DOMAIN runs'[id].gates
             PROVE  \E o \in Clients : Opened(o, id, g)'
  BY DEF GatesOpened
<1>1. id \in Store!Live /\ Grew(runs[id], runs'[id]) /\ g \in DOMAIN runs[id].gates
  BY DEF RunGrows, SameGates
<1>2. PICK o \in Clients : Opened(o, id, g)
  BY <1>1 DEF GatesOpened
<1> QED BY <1>1, <1>2, OpenedStays

LEMMA AskedStays ==
  ASSUME AskersStay, NEW c \in Clients, SameClaim(c), NEW o \in Clients, Asked(o, c)
  PROVE  Asked(o, c)'
<1>1. SameClaim(o) /\ req'[o].decision = req[o].decision
      /\ ~req'[o].err /\ req'[o].pc \in {"publish", "done"}
  BY DEF AskersStay, Asked
<1> QED BY <1>1 DEF Asked, SameClaim, Operation

(* A run that is remembered after a step, and was known, was remembered.   *)
LEMMA KnownRunGrows ==
  ASSUME Typed, \A id \in Store!Live' : RunGrows(id),
         NEW c \in Clients, req[c].pc # "start", req[c].run \in Store!Live'
  PROVE  req[c].run \in Store!Live /\ Grew(runs[req[c].run], runs'[req[c].run])
<1>1. next \in Nat /\ req[c].run \in 1 .. next
  BY LiveRuns DEF Typed, RunsKnown
<1>2. req[c].run # next + 1
  BY <1>1
<1> QED BY <1>2 DEF RunGrows

(* An approved call stays approved. *)
LEMMA ApprovedStays ==
  ASSUME Typed, PhaseInv, AskersStay, \A id \in Store!Live' : RunGrows(id),
         NEW c \in Clients, Approved(c), ClaimsNoMore(c)
  PROVE  Approved(c)'
<1> SUFFICES ASSUME Claims(c)', req'[c].gate # 0
             PROVE  /\ \E o \in Clients : Asked(o, c)'
                    /\ req'[c].run \in Store!Live' => GateStands(c)'
  BY DEF Approved
<1>1. SameClaim(c) /\ Claims(c) /\ (Holder(c)' => Holder(c))
  BY DEF ClaimsNoMore, Claims
<1>2. (\E o \in Clients : Asked(o, c)) /\ (req[c].run \in Store!Live => GateStands(c))
  BY <1>1 DEF Approved, SameClaim
<1>3. \E o \in Clients : Asked(o, c)'
  BY <1>1, <1>2, AskedStays
<1>4. ASSUME req'[c].run \in Store!Live' PROVE GateStands(c)'
  <2>1. req[c].pc # "start"
    BY <1>1 DEF Claims, Holder, PhaseInv, Phase
  <2>2. req[c].run \in Store!Live /\ Grew(runs[req[c].run], runs'[req[c].run])
    BY <1>1, <1>4, <2>1, KnownRunGrows DEF SameClaim
  <2>3. GateStands(c)
    BY <1>2, <2>2
  <2> QED BY <1>1, <2>2, <2>3 DEF GateStands, Grew, SameClaim
<1> QED BY <1>3, <1>4

(* Audit entries and calls are finitely many. *)
LEMMA LogsFinite ==
  ASSUME NEW run \in Store!Run, NEW g \in Nat
  PROVE  IsFiniteSet(Store!LogsOf(run, "allowed", g))
<1>1. PICK n \in Nat : DOMAIN run.logs = 1 .. n
  BY DEF Store!Run
<1>2. IsFiniteSet(1 .. n)
  BY FS_Interval
<1> QED BY <1>1, <1>2, FS_Subset DEF Store!LogsOf

LEMMA HoldersFinite ==
  \A id, g : IsFiniteSet(Holders(id, g)) /\ Cardinality(Holders(id, g)) \in Nat
<1>1. IsFiniteSet(Clients)
  BY ExecutionAssumption
<1> QED BY <1>1, FS_Subset, FS_CardinalityType DEF Holders

(* Where nobody claims more, the calls of a gate stay accounted for. *)
LEMMA CountedStays ==
  ASSUME Typed, PhaseInv, HoldersCounted, Runs!StoreInv', \A id \in Store!Live' : RunGrows(id),
         NEW id \in Store!Live', NEW g \in Nat, Holders(id, g)' \subseteq Holders(id, g)
  PROVE  Counted(id, g)'
<1> DEFINE H == Holders(id, g)
           HH == Holders(id, g)'
           L == Store!LogsOf(runs[id], "allowed", g)
           LL == Store!LogsOf(runs'[id], "allowed", g)
<1>1. IsFiniteSet(H) /\ Cardinality(H) \in Nat
  BY HoldersFinite
<1>2. IsFiniteSet(HH) /\ Cardinality(HH) \in Nat /\ Cardinality(HH) <= Cardinality(H)
  BY <1>1, FS_Subset, FS_CardinalityType
<1>3. IsFiniteSet(LL)
  <2>1. runs' \in [Store!Live' -> Store!Run]
    BY SameStore DEF Runs!StoreInv, Runs!TypeOK, Store!Live, Runs!Live
  <2> QED BY <2>1, LogsFinite
<1>4. CASE id \in Store!Live /\ Grew(runs[id], runs'[id])
  <2>1. L \subseteq LL
    BY <1>4 DEF Grew
  <2>2. Cardinality(L) \in Nat /\ Cardinality(LL) \in Nat /\ Cardinality(L) <= Cardinality(LL)
    BY <1>3, <2>1, FS_Subset, FS_CardinalityType
  <2>3. Cardinality(H) <= Cardinality(L)
    BY <1>4 DEF HoldersCounted, Counted
  <2>4. Cardinality(HH) <= Cardinality(LL)
    BY <1>1, <1>2, <2>2, <2>3
  <2> QED BY <2>4 DEF Counted
<1>5. CASE id = next + 1
  <2>1. \A c \in Clients : ~(Holder(c) /\ req[c].run = next + 1)
    BY LiveRuns DEF Typed, RunsKnown, PhaseInv, Phase, Holder
  <2>2. HH = {}
    BY <1>5, <2>1 DEF Holders
  <2>3. Cardinality(HH) = 0 /\ Cardinality(LL) \in Nat
    BY <1>3, <2>2, FS_EmptySet, FS_CardinalityType
  <2>4. Cardinality(HH) <= Cardinality(LL)
    BY <2>3
  <2> QED BY <2>4 DEF Counted
<1> QED BY <1>4, <1>5 DEF RunGrows

(* A request that gets a call puts it on record. *)
LEMMA CountedGrows ==
  ASSUME Typed, HoldersCounted, Runs!StoreInv', NEW id \in Store!Live, id \in Store!Live',
         NEW g \in Nat, NEW c \in Clients, Holders(id, g)' \subseteq Holders(id, g) \union {c},
         Store!LogsOf(runs[id], "allowed", g) \subseteq Store!LogsOf(runs'[id], "allowed", g),
         Store!LogsOf(runs'[id], "allowed", g) \ Store!LogsOf(runs[id], "allowed", g) # {}
  PROVE  Counted(id, g)'
<1> DEFINE H == Holders(id, g)
           HH == Holders(id, g)'
           L == Store!LogsOf(runs[id], "allowed", g)
           LL == Store!LogsOf(runs'[id], "allowed", g)
<1>1. IsFiniteSet(H) /\ Cardinality(H) \in Nat
  BY HoldersFinite
<1>2. Cardinality(HH) \in Nat /\ Cardinality(HH) <= Cardinality(H) + 1
  <2>1. IsFiniteSet(H \union {c}) /\ Cardinality(H \union {c}) \in {Cardinality(H), Cardinality(H) + 1}
    BY <1>1, FS_AddElement
  <2>2. IsFiniteSet(HH) /\ Cardinality(HH) <= Cardinality(H \union {c}) /\ Cardinality(HH) \in Nat
    BY <2>1, FS_Subset, FS_CardinalityType
  <2> QED BY <1>1, <2>1, <2>2
<1>3. IsFiniteSet(LL)
  <2>1. runs' \in [Store!Live' -> Store!Run]
    BY SameStore DEF Runs!StoreInv, Runs!TypeOK, Store!Live, Runs!Live
  <2> QED BY <2>1, LogsFinite
<1>4. IsFiniteSet(L) /\ Cardinality(L) \in Nat
  BY <1>3, FS_Subset, FS_CardinalityType
<1>5. PICK i : i \in LL /\ i \notin L
  OBVIOUS
<1>6. IsFiniteSet(L \union {i}) /\ Cardinality(L \union {i}) = Cardinality(L) + 1
  BY <1>4, <1>5, FS_AddElement
<1>7. Cardinality(L \union {i}) <= Cardinality(LL) /\ Cardinality(LL) \in Nat
  BY <1>3, <1>5, <1>6, FS_Subset, FS_CardinalityType
<1>8. Cardinality(H) <= Cardinality(L)
  BY DEF HoldersCounted, Counted
<1>9. Cardinality(HH) <= Cardinality(LL)
  BY <1>1, <1>2, <1>4, <1>6, <1>7, <1>8
<1> QED BY <1>9 DEF Counted

(* Calls are what they were where no request claims more. *)
LEMMA ClaimsStay ==
  ASSUME Typed, CallsInv, Runs!StoreInv', StoreMoves, AskersStay,
         \A d \in Clients : ClaimsNoMore(d)
  PROVE  /\ RunsSettled' /\ HoldersApproved' /\ HoldersAlone' /\ HoldersCounted'
         /\ OpensNone => GatesOpened'
<1>1. \A id \in Store!Live' : RunGrows(id)
  BY RunsGrow DEF CallsInv, RunsSettled
<1>2. RunsSettled'
  BY <1>1 DEF RunsSettled, RunGrows
<1>3. HoldersApproved'
  BY <1>1, ApprovedStays DEF CallsInv, HoldersApproved
<1>4. \A d \in Clients : Holder(d)' =>
        Holder(d) /\ req'[d].run = req[d].run /\ req'[d].gate = req[d].gate
  BY DEF ClaimsNoMore, Claims, SameClaim
<1>5. HoldersAlone'
  BY <1>4 DEF CallsInv, HoldersAlone
<1>6. HoldersCounted'
  <2>1. \A id, g : Holders(id, g)' \subseteq Holders(id, g)
    BY <1>4 DEF Holders
  <2> QED BY <1>1, <2>1, CountedStays DEF CallsInv, HoldersCounted
<1>7. OpensNone => GatesOpened'
  BY <1>1, GatesOpenedStay DEF CallsInv
<1> QED BY <1>2, <1>3, <1>5, <1>6, <1>7

(* A request that moves, with its call or without. *)
LEMMA QuietMoves ==
  ASSUME Typed, NEW c \in Clients, NEW pc, MovesTo(c, pc),
         pc \notin {"consume", "recheck"}, pc \in {"invoke", "calling"} => Holder(c),
         \/ req[c].pc \notin {"publish", "done"}
         \/ req[c].pc = "publish" /\ pc = "done" /\ SameErr(c)
  PROVE  AskersStay /\ \A d \in Clients : ClaimsNoMore(d)
<1>1. \A d \in Clients \ {c} : req'[d] = req[d]
  BY DEF MovesTo, OthersStay
<1>2. SameClaim(c) /\ req'[c].decision = req[c].decision
      /\ req'[c].pc = pc /\ req'[c].sent = req[c].sent
  BY DEF MovesTo, SameCall, SameDecision, SameClaim
<1>3. AskersStay
  BY <1>1, <1>2 DEF AskersStay, SameClaim, SameErr
<1>4. ClaimsNoMore(c)
  BY <1>2 DEF ClaimsNoMore, Holder
<1>5. \A d \in Clients \ {c} : ClaimsNoMore(d)
  BY <1>1 DEF ClaimsNoMore, SameClaim, Holder
<1> QED BY <1>3, <1>4, <1>5

(* The others stay as they are while a request that asked for no gate yet  *)
(* takes a step.                                                           *)
LEMMA OthersQuiet ==
  ASSUME Typed, NEW c \in Clients, OthersStay(c), req[c].pc \notin {"publish", "done"}
  PROVE  AskersStay /\ \A d \in Clients \ {c} : ClaimsNoMore(d)
<1>1. \A d \in Clients \ {c} : req'[d] = req[d]
  BY DEF OthersStay
<1> QED BY <1>1 DEF AskersStay, ClaimsNoMore, SameClaim, Holder

LEMMA NothingMoves ==
  ASSUME Typed, req' = req
  PROVE  AskersStay /\ \A d \in Clients : ClaimsNoMore(d)
BY DEF AskersStay, ClaimsNoMore, SameClaim, Holder

(* A call that needs no approval is put on record. *)
LEMMA AllowedCalls ==
  ASSUME Typed, CallsInv, Runs!StoreInv', NEW c \in Clients, req[c].pc = "record",
         MovesTo(c, "recheck"), Store!AddLogIfNoPendingApprovals(req[c].run)
  PROVE  RunsSettled' /\ GatesOpened' /\ HoldersApproved' /\ HoldersAlone' /\ HoldersCounted'
<1> DEFINE id == req[c].run
<1>1. OpensNone /\ StoreMoves /\ id \in Store!Live
  BY DEF Store!AddLogIfNoPendingApprovals, Store!Open, OpensNone, StoreMoves
<1>2. AskersStay /\ \A d \in Clients \ {c} : ClaimsNoMore(d)
  BY OthersQuiet DEF MovesTo
<1>3. \A r \in Store!Live' : RunGrows(r)
  BY <1>1, RunsGrow DEF CallsInv, RunsSettled
<1>4. req'[c].gate = 0 /\ req'[c].run = id /\ req[c].gate = 0
  BY DEF MovesTo, SameDecision, SameCall, CallsInv, PhaseInv, Phase
<1>5. RunsSettled' /\ GatesOpened'
  BY <1>1, <1>2, <1>3, GatesOpenedStay DEF CallsInv, RunsSettled, RunGrows
<1>6. HoldersApproved'
  <2>1. Approved(c)'
    BY <1>4 DEF Approved
  <2>2. \A d \in Clients \ {c} : Approved(d)'
    BY <1>2, <1>3, ApprovedStays DEF CallsInv, HoldersApproved
  <2> QED BY <2>1, <2>2 DEF HoldersApproved
<1>7. \A d \in Clients \ {c} : Holder(d)' =>
        Holder(d) /\ req'[d].run = req[d].run /\ req'[d].gate = req[d].gate
  BY <1>2 DEF ClaimsNoMore, Claims, SameClaim
<1>8. HoldersAlone'
  BY <1>4, <1>7 DEF CallsInv, HoldersAlone
<1>9. HoldersCounted'
  <2> SUFFICES ASSUME NEW r \in Store!Live', NEW g \in Nat PROVE Counted(r, g)'
    BY DEF HoldersCounted
  <2>1. CASE r = id /\ g = 0
    <3>1. PICK s : Store!Update(id, s) /\ s = Store!Logged(runs[id], "allowed", 0)
      BY DEF Store!AddLogIfNoPendingApprovals
    <3>2. runs'[id] = s /\ runs[id] \in Store!Run
      BY <1>1, <3>1, UpdatedRuns, LiveRuns DEF Typed
    <3>3. /\ Grew(runs[id], s)
          /\ Store!LogsOf(s, "allowed", 0) \ Store!LogsOf(runs[id], "allowed", 0) # {}
      BY <3>1, <3>2, AllowedGrows
    <3>4. Holders(r, g)' \subseteq Holders(r, g) \union {c}
      BY <1>7 DEF Holders
    <3>5. Store!LogsOf(runs[id], "allowed", 0) \subseteq Store!LogsOf(s, "allowed", 0)
      BY <3>3 DEF Grew
    <3>6. HoldersCounted
      BY DEF CallsInv
    <3> QED BY <1>1, <2>1, <3>2, <3>3, <3>4, <3>5, <3>6, CountedGrows
  <2>2. CASE ~(r = id /\ g = 0)
    <3>1. Holders(r, g)' \subseteq Holders(r, g)
      BY <1>4, <1>7, <2>2 DEF Holders
    <3> QED BY <1>3, <3>1, CountedStays DEF CallsInv
  <2> QED BY <2>1, <2>2
<1> QED BY <1>5, <1>6, <1>8, <1>9

(* The approved gate a request finds was asked for its very call. *)
LEMMA FoundCalls ==
  ASSUME Typed, CallsInv, Runs!StoreInv', NEW c \in Clients, req[c].pc = "record",
         OthersStay(c), SameCall(c), UNCHANGED storeVars,
         req'[c].pc = "consume", req'[c].sent = req[c].sent,
         req[c].run \in Store!Live, req'[c].gate \in MatchingGates(c)
  PROVE  RunsSettled' /\ GatesOpened' /\ HoldersApproved' /\ HoldersAlone' /\ HoldersCounted'
<1> DEFINE id == req[c].run
           g == req'[c].gate
<1>1. OpensNone /\ StoreMoves
  BY DEF OpensNone, StoreMoves
<1>2. AskersStay /\ \A d \in Clients \ {c} : ClaimsNoMore(d)
  BY OthersQuiet
<1>3. \A r \in Store!Live' : RunGrows(r)
  BY <1>1, RunsGrow DEF CallsInv, RunsSettled
<1>4. RunsSettled' /\ GatesOpened'
  BY <1>1, <1>2, <1>3, GatesOpenedStay DEF CallsInv, RunsSettled, RunGrows
<1>5. ~Holder(c)' /\ req'[c].run = id
  BY DEF SameCall, Holder, CallsInv, PhaseInv, Phase
<1>6. Approved(c)'
  <2>1. /\ g \in DOMAIN runs[id].gates /\ runs[id].gates[g].status = "approved"
        /\ runs[id].gates[g].binding = Operation(c)
    BY DEF MatchingGates
  <2>2. PICK o \in Clients : Opened(o, id, g)
    BY <2>1 DEF CallsInv, GatesOpened
  <2>3. Operation(c) # NoBinding
    BY ExecutionAssumption DEF Typed, TypeOK, Request, Operation, Operations
  <2>4. Operation(o) = Operation(c) /\ req'[o] = req[o]
    BY <2>1, <2>2, <2>3 DEF Opened, OthersStay
  <2>5. Asked(o, c)'
    BY <1>5, <2>2, <2>4 DEF Opened, Asked, Operation, SameCall
  <2>6. runs' = runs
    BY DEF storeVars
  <2>7. GateStands(c)'
    BY <1>5, <2>1, <2>6 DEF GateStands
  <2> QED BY <2>5, <2>7 DEF Approved
<1>7. HoldersApproved'
  <2>1. \A d \in Clients \ {c} : Approved(d)'
    BY <1>2, <1>3, ApprovedStays DEF CallsInv, HoldersApproved
  <2> QED BY <1>6, <2>1 DEF HoldersApproved
<1>8. \A d \in Clients : Holder(d)' =>
        Holder(d) /\ req'[d].run = req[d].run /\ req'[d].gate = req[d].gate
  BY <1>2, <1>5 DEF ClaimsNoMore, Claims, SameClaim
<1>9. HoldersAlone'
  BY <1>8 DEF CallsInv, HoldersAlone
<1>10. HoldersCounted'
  <2>1. \A r, h : Holders(r, h)' \subseteq Holders(r, h)
    BY <1>8 DEF Holders
  <2> QED BY <1>3, <2>1, CountedStays DEF CallsInv, HoldersCounted
<1> QED BY <1>4, <1>7, <1>9, <1>10

(* A gate that is spent is spent for one call, and on record. *)
LEMMA SpentCalls ==
  ASSUME Typed, CallsInv, Runs!StoreInv', NEW c \in Clients, req[c].pc = "consume",
         OthersStay(c), SameCall(c), req'[c].pc = "recheck", req'[c].gate = req[c].gate,
         Store!ConsumeApprovalBinding(req[c].run, req[c].gate)
  PROVE  RunsSettled' /\ GatesOpened' /\ HoldersApproved' /\ HoldersAlone' /\ HoldersCounted'
<1> DEFINE id == req[c].run
           g == req[c].gate
<1>1. /\ OpensNone /\ StoreMoves /\ id \in Store!Live /\ g \in DOMAIN runs[id].gates
      /\ runs[id].gates[g].binding # NoBinding
  BY DEF Store!ConsumeApprovalBinding, Store!Open, Store!Spendable, OpensNone, StoreMoves
<1>2. AskersStay /\ \A d \in Clients \ {c} : ClaimsNoMore(d)
  BY OthersQuiet
<1>3. \A r \in Store!Live' : RunGrows(r)
  BY <1>1, RunsGrow DEF CallsInv, RunsSettled
<1>4. RunsSettled' /\ GatesOpened'
  BY <1>1, <1>2, <1>3, GatesOpenedStay DEF CallsInv, RunsSettled, RunGrows
<1>5. /\ runs[id] \in Store!Run /\ id \in Store!Live'
      /\ Grew(runs[id], runs'[id]) /\ DOMAIN runs'[id].gates = DOMAIN runs[id].gates
      /\ runs'[id].gates[g].status = "approved" /\ runs'[id].gates[g].binding = NoBinding
      /\ Store!LogsOf(runs'[id], "allowed", g) \ Store!LogsOf(runs[id], "allowed", g) # {}
  <2>1. PICK s : Store!Update(id, s) /\ s = Store!Spent(runs[id], g) /\ Store!Spendable(runs[id], g)
    BY DEF Store!ConsumeApprovalBinding
  <2>2. runs'[id] = s /\ runs[id] \in Store!Run /\ id \in Store!Live'
    BY <1>1, <2>1, UpdatedRuns, LiveRuns DEF Typed
  <2> QED BY <1>1, <2>1, <2>2, SpentGrows DEF SameGates
<1>6. req'[c].run = id /\ req'[c].gate = g /\ g # 0 /\ g \in Nat
  BY <1>1, <1>5 DEF SameCall, CallsInv, PhaseInv, Phase, Store!Run
<1>7. \A d \in Clients \ {c} : Holder(d)' =>
        Holder(d) /\ req'[d].run = req[d].run /\ req'[d].gate = req[d].gate
  BY <1>2 DEF ClaimsNoMore, Claims, SameClaim
<1>8. \A d \in Clients \ {c} : Holder(d)' => <<req'[d].run, req'[d].gate>> # <<id, g>>
  <2> SUFFICES ASSUME NEW d \in Clients \ {c}, Holder(d), req[d].run = id, req[d].gate = g
               PROVE  FALSE
    BY <1>7
  <2>1. Approved(d)
    BY DEF CallsInv, HoldersApproved
  <2>2. GateStands(d)
    BY <1>1, <1>6, <2>1 DEF Approved, Claims
  <2> QED BY <1>1, <2>2 DEF GateStands
<1>9. HoldersApproved'
  <2>1. Approved(c)'
    <3>1. PICK o \in Clients : Asked(o, c)
      BY <1>6 DEF CallsInv, HoldersApproved, Approved, Claims
    <3>2. SameClaim(c)
      BY DEF SameCall, SameClaim
    <3>3. Asked(o, c)'
      BY <1>2, <3>1, <3>2, AskedStays
    <3>4. GateStands(c)'
      BY <1>1, <1>5, <1>6 DEF GateStands
    <3> QED BY <3>3, <3>4 DEF Approved
  <2>2. \A d \in Clients \ {c} : Approved(d)'
    BY <1>2, <1>3, ApprovedStays DEF CallsInv, HoldersApproved
  <2> QED BY <2>1, <2>2 DEF HoldersApproved
<1>10. HoldersAlone'
  <2>1. HoldersAlone
    BY DEF CallsInv
  <2> QED BY <1>6, <1>7, <1>8, <2>1 DEF HoldersAlone
<1>11. HoldersCounted'
  <2> SUFFICES ASSUME NEW r \in Store!Live', NEW h \in Nat PROVE Counted(r, h)'
    BY DEF HoldersCounted
  <2>1. CASE r = id /\ h = g
    <3>1. Holders(r, h)' \subseteq Holders(r, h) \union {c}
      BY <1>7 DEF Holders
    <3>2. Store!LogsOf(runs[id], "allowed", g) \subseteq Store!LogsOf(runs'[id], "allowed", g)
      BY <1>5 DEF Grew
    <3>3. HoldersCounted
      BY DEF CallsInv
    <3> QED BY <1>1, <1>5, <1>6, <2>1, <3>1, <3>2, <3>3, CountedGrows
  <2>2. CASE ~(r = id /\ h = g)
    <3>1. Holders(r, h)' \subseteq Holders(r, h)
      BY <1>6, <1>7, <2>2 DEF Holders
    <3> QED BY <1>3, <3>1, CountedStays DEF CallsInv
  <2> QED BY <2>1, <2>2
<1> QED BY <1>4, <1>9, <1>10, <1>11

(* A new gate is asked for by the request whose call it is for. *)
LEMMA AskedCalls ==
  ASSUME Typed, CallsInv, Runs!StoreInv', NEW c \in Clients, req[c].pc = "gate",
         OthersStay(c), SameCall(c), SameErr(c), req'[c].pc = "publish",
         req'[c].sent = req[c].sent, req'[c].decision = req[c].decision,
         req'[c].gate = Len(runs[req[c].run].gates) + 1,
         Store!AddApproval(req[c].run, Operation(c))
  PROVE  RunsSettled' /\ GatesOpened' /\ HoldersApproved' /\ HoldersAlone' /\ HoldersCounted'
<1> DEFINE id == req[c].run
           g == req'[c].gate
<1>1. id \in Store!Live /\ Operation(c) \in Operations
  BY DEF Store!AddApproval, Store!Open, Typed, TypeOK, Request, Operation, Operations
<1>2. StoreMoves
  BY <1>1 DEF StoreMoves, Asks
<1>3. AskersStay /\ \A d \in Clients \ {c} : ClaimsNoMore(d)
  BY OthersQuiet
<1>4. ClaimsNoMore(c)
  BY DEF CallsInv, PhaseInv, Phase, ClaimsNoMore, Claims, Holder
<1>5. RunsSettled' /\ HoldersApproved' /\ HoldersAlone' /\ HoldersCounted'
  BY <1>2, <1>3, <1>4, ClaimsStay
<1>6. GatesOpened'
  <2> SUFFICES ASSUME NEW r \in Store!Live', NEW h \in DOMAIN runs'[r].gates
               PROVE  \E o \in Clients : Opened(o, r, h)'
    BY DEF GatesOpened
  <2>1. PICK s : Store!Update(id, s) /\ s = Store!WithGate(runs[id], Operation(c))
    BY DEF Store!AddApproval
  <2>2. /\ Store!Live' = Store!Live /\ runs'[id] = s /\ runs[id] \in Store!Run
        /\ \A other \in Store!Live \ {id} : runs'[other] = runs[other]
    BY <1>1, <2>1, UpdatedRuns, LiveRuns DEF Typed
  <2>3. /\ Grew(runs[id], s) /\ DOMAIN s.gates = DOMAIN runs[id].gates \union {g}
        /\ s.gates[g].binding = Operation(c)
    BY <1>1, <2>1, <2>2, GateGrows
  <2>4. CASE r = id /\ h = g
    <3>1. req[c].decision = D!ApprovalRequired /\ ~req[c].err
      BY DEF CallsInv, PhaseInv, Phase
    <3>2. runs'[r].gates[h].binding = <<req'[c].call, req'[c].risk>>
      BY <2>2, <2>3, <2>4 DEF SameCall, Operation
    <3>3. Opened(c, r, h)'
      BY <2>4, <3>1, <3>2 DEF Opened, SameCall, SameErr, Operation
    <3> QED BY <3>3
  <2>5. CASE ~(r = id /\ h = g)
    <3>1. r \in Store!Live /\ h \in DOMAIN runs[r].gates /\ Grew(runs[r], runs'[r])
      BY <2>2, <2>3, <2>5 DEF Grew
    <3>2. PICK o \in Clients : Opened(o, r, h)
      BY <3>1 DEF CallsInv, GatesOpened
    <3> QED BY <1>3, <3>1, <3>2, OpenedStays
  <2> QED BY <2>4, <2>5
<1> QED BY <1>5, <1>6

LEMMA InitCalls == Init => CallsInv
<1> SUFFICES ASSUME Init PROVE CallsInv
  OBVIOUS
<1>1. Store!Live = {}
  BY DEF Init, Store!Init, Store!Live
<1>2. \A c \in Clients : /\ req[c].pc = "start" /\ req[c].gate = 0
                         /\ req[c].sent = FALSE /\ req[c].err = FALSE
  BY DEF Init, Blank
<1>3. PhaseInv
  BY <1>2 DEF PhaseInv, Phase, Holder
<1> QED BY <1>1, <1>2, <1>3 DEF CallsInv, RunsSettled, GatesOpened, HoldersApproved, Approved,
        Claims, Holder, HoldersAlone, HoldersCounted

(* What a request has and has not done follows its steps. *)
LEMMA StepPhases ==
  ASSUME Typed, PhaseInv, [Next]_vars
  PROVE  PhaseInv'
<1> USE DEF MovesTo, SameCall, SameDecision, SameErr
<1>1. ASSUME NEW c \in Clients, OthersStay(c), Phase(c)' PROVE PhaseInv'
  <2>1. \A d \in Clients \ {c} : Phase(d)'
    BY <1>1 DEF OthersStay, PhaseInv, Phase, Holder
  <2> QED BY <1>1, <2>1 DEF PhaseInv
<1>2. \A c \in Clients : req[c] \in Request /\ Phase(c)
  BY DEF Typed, TypeOK, PhaseInv
<1>3. ASSUME req' = req PROVE PhaseInv'
  BY <1>3 DEF PhaseInv, Phase, Holder
<1>4. ASSUME NEW c \in Clients, Begin(c) PROVE PhaseInv'
  <2>1. Phase(c)'
    BY <1>2, <1>4, BeginMoves DEF Phase, Holder
  <2> QED BY <1>1, <1>4, <2>1, BeginMoves
<1>5. ASSUME NEW c \in Clients, Claim(c) PROVE PhaseInv'
  <2>1. PICK pc \in {"done", "wait", "check"} :
          /\ req[c].pc = "claim" /\ MovesTo(c, pc)
          /\ pc # "done" => SameErr(c)
    BY <1>5, ClaimMoves
  <2>2. Phase(c)'
    BY <1>2, <2>1 DEF Phase, Holder
  <2> QED BY <1>1, <2>1, <2>2
<1>6. ASSUME NEW c \in Clients, Replay(c) \/ Check(c) PROVE PhaseInv'
  <2>1. Phase(c)' /\ OthersStay(c)
    BY <1>2, <1>6, PlainMoves DEF Phase, Holder
  <2> QED BY <1>1, <2>1
<1>7. ASSUME NEW c \in Clients, Recheck(c) \/ Return(c) \/ Publish(c) PROVE PhaseInv'
  <2>1. \/ /\ req[c].pc = "recheck" /\ MovesTo(c, "invoke") /\ SameErr(c)
        \/ req[c].pc \in {"recheck", "calling"} /\ MovesTo(c, "publish")
        \/ req[c].pc = "publish" /\ MovesTo(c, "done")
    BY <1>7, PlainMoves
  <2>2. Phase(c)' /\ OthersStay(c)
    BY <1>2, <2>1 DEF Phase, Holder
  <2> QED BY <1>1, <2>2
<1>8. ASSUME NEW c \in Clients, Authorize(c) PROVE PhaseInv'
  <2>1. Phase(c)' /\ OthersStay(c)
    BY <1>2, <1>8, AuthorizeMoves DEF Phase, Holder
  <2> QED BY <1>1, <2>1
<1>9. ASSUME NEW c \in Clients, Invoke(c) PROVE PhaseInv'
  <2>1. req[c].pc = "invoke"
    BY <1>9, InvokeMoves
  <2>2. CASE MovesTo(c, "publish")
    BY <1>1, <1>2, <2>1, <2>2 DEF Phase, Holder
  <2>3. CASE ~MovesTo(c, "publish")
    <3>1. /\ OthersStay(c) /\ SameCall(c) /\ SameDecision(c) /\ SameErr(c)
          /\ req'[c].pc = "calling"
      BY <1>9, <2>3, InvokeMoves
    <3>2. Phase(c)'
      BY <1>2, <2>1, <3>1 DEF Phase, Holder
    <3> QED BY <1>1, <3>1, <3>2
  <2> QED BY <2>2, <2>3
<1>10. ASSUME NEW c \in Clients, Record(c) PROVE PhaseInv'
  <2>1. req[c].decision.status = "approval_required" => req[c].decision = D!ApprovalRequired
    BY <1>2 DEF Request, D!Decision, D!ApprovalRequired, D!DeniedReasons, Undecided
  <2>2. \A g \in MatchingGates(c) : req[c].run \in Store!Live => g # 0
    BY LiveRuns DEF MatchingGates, Typed, Store!Run
  <2>3. Phase(c)' /\ OthersStay(c)
    BY <1>2, <1>10, <2>1, <2>2, RecordMoves DEF Phase, Holder
  <2> QED BY <1>1, <2>3
<1>11. ASSUME NEW c \in Clients, Consume(c) PROVE PhaseInv'
  <2>1. Phase(c)' /\ OthersStay(c)
    BY <1>2, <1>11, ConsumeMoves DEF Phase, Holder
  <2> QED BY <1>1, <2>1
<1>12. ASSUME NEW c \in Clients, OpenGate(c) PROVE PhaseInv'
  <2>1. Phase(c)' /\ OthersStay(c)
    BY <1>2, <1>12, OpenGateMoves DEF Phase, Holder
  <2> QED BY <1>1, <2>1
<1>13. CASE UNCHANGED vars \/ UserStep \/ ChangeInventory \/ \E c \in Clients : Disconnect(c)
  BY <1>3, <1>13, Zenon DEF vars, UserStep, ChangeInventory, Disconnect
<1> QED BY <1>4, <1>5, <1>6, <1>7, <1>8, <1>9, <1>10, <1>11, <1>12, <1>13, Zenon DEF Next, Step

(* Every call stays approved, counted and somebody's own. *)
LEMMA StepCalls ==
  ASSUME Typed, CallsInv, [Next]_vars
  PROVE  CallsInv'
<1> DEFINE Rest == RunsSettled /\ GatesOpened /\ HoldersApproved /\ HoldersAlone /\ HoldersCounted
<1>1. StoreMoves /\ Runs!StoreInv' /\ PhaseInv /\ PhaseInv'
  BY StepStore, StoreKept, StepPhases DEF Typed, CallsInv
<1>2. ASSUME OpensNone, AskersStay, \A d \in Clients : ClaimsNoMore(d) PROVE Rest'
  BY <1>1, <1>2, ClaimsStay
<1>3. UNCHANGED storeVars => OpensNone
  BY DEF OpensNone
<1>4. \A c \in Clients : Phase(c)
  BY <1>1 DEF PhaseInv
<1>5. ASSUME NEW c \in Clients, Begin(c) PROVE Rest'
  <2>1. ClaimsNoMore(c)
    BY <1>4, <1>5, BeginMoves DEF Phase, ClaimsNoMore, Claims, Holder
  <2>2. AskersStay /\ \A d \in Clients \ {c} : ClaimsNoMore(d)
    BY <1>5, BeginMoves, OthersQuiet
  <2>3. OpensNone
    BY <1>3, <1>5 DEF Begin
  <2> QED BY <1>2, <2>1, <2>2, <2>3
<1>6. ASSUME NEW c \in Clients, Claim(c) PROVE Rest'
  <2>1. PICK pc \in {"done", "wait", "check"} : MovesTo(c, pc)
    BY <1>6, ClaimMoves
  <2>2. AskersStay /\ \A d \in Clients : ClaimsNoMore(d)
    BY <1>6, <2>1, ClaimMoves, QuietMoves
  <2>3. OpensNone
    BY <1>3, <1>6 DEF Claim
  <2> QED BY <1>2, <2>2, <2>3
<1>7. ASSUME NEW c \in Clients,
             Replay(c) \/ Check(c) \/ Recheck(c) \/ Return(c) \/ Publish(c)
      PROVE  Rest'
  <2>1. PICK pc \in {"done", "authorize", "invoke", "publish"} :
          /\ MovesTo(c, pc) /\ (pc = "invoke" => req[c].pc = "recheck")
          /\ \/ req[c].pc \notin {"publish", "done"}
             \/ req[c].pc = "publish" /\ pc = "done" /\ SameErr(c)
    BY <1>7, PlainMoves
  <2>2. AskersStay /\ \A d \in Clients : ClaimsNoMore(d)
    BY <2>1, QuietMoves DEF Holder
  <2>3. OpensNone
    BY <1>3, <1>7 DEF Replay, Check, Recheck, Return, Publish
  <2> QED BY <1>2, <2>2, <2>3
<1>8. ASSUME NEW c \in Clients, Authorize(c) PROVE Rest'
  <2>1. ClaimsNoMore(c) /\ OthersStay(c)
    BY <1>4, <1>8, AuthorizeMoves DEF Phase, ClaimsNoMore, Claims, Holder, MovesTo
  <2>2. AskersStay /\ \A d \in Clients \ {c} : ClaimsNoMore(d)
    BY <1>8, <2>1, AuthorizeMoves, OthersQuiet
  <2>3. OpensNone
    BY <1>3, <1>8 DEF Authorize
  <2> QED BY <1>2, <2>1, <2>2, <2>3
<1>9. ASSUME NEW c \in Clients, Invoke(c) PROVE Rest'
  <2>1. ClaimsNoMore(c) /\ OthersStay(c)
    BY <1>9, InvokeMoves
       DEF ClaimsNoMore, Claims, Holder, MovesTo, SameCall, SameDecision, SameClaim
  <2>2. AskersStay /\ \A d \in Clients \ {c} : ClaimsNoMore(d)
    BY <1>9, <2>1, InvokeMoves, OthersQuiet
  <2>3. OpensNone
    BY <1>3, <1>9 DEF Invoke
  <2> QED BY <1>2, <2>1, <2>2, <2>3
<1>10. ASSUME NEW c \in Clients, Record(c) PROVE Rest'
  <2>1. req[c].pc = "record"
    BY <1>10, RecordMoves
  <2>2. CASE MovesTo(c, "publish") /\ (UNCHANGED storeVars \/ Store!Fail(req[c].run))
    <3>1. OpensNone
      BY <1>3, <2>2 DEF OpensNone, Store!Fail, Store!Open
    <3> QED BY <1>2, <2>1, <2>2, <3>1, QuietMoves
  <2>3. CASE MovesTo(c, "recheck") /\ Store!AddLogIfNoPendingApprovals(req[c].run)
    BY <1>1, <2>1, <2>3, AllowedCalls
  <2>4. CASE MovesTo(c, "gate") /\ UNCHANGED storeVars
    BY <1>2, <1>3, <2>1, <2>4, QuietMoves
  <2>5. CASE /\ OthersStay(c) /\ SameCall(c) /\ UNCHANGED storeVars
             /\ req'[c].pc = "consume" /\ req'[c].sent = req[c].sent
             /\ req[c].run \in Store!Live /\ req'[c].gate \in MatchingGates(c)
    BY <1>1, <2>1, <2>5, FoundCalls
  <2> QED BY <1>10, <2>2, <2>3, <2>4, <2>5, RecordMoves, Zenon
<1>11. ASSUME NEW c \in Clients, Consume(c) PROVE Rest'
  <2>1. req[c].pc = "consume"
    BY <1>11, ConsumeMoves
  <2>2. CASE MovesTo(c, "publish") /\ UNCHANGED storeVars
    BY <1>2, <1>3, <2>1, <2>2, QuietMoves
  <2>3. CASE ~(MovesTo(c, "publish") /\ UNCHANGED storeVars)
    BY <1>1, <1>11, <2>1, <2>3, ConsumeMoves, SpentCalls
  <2> QED BY <2>2, <2>3
<1>12. ASSUME NEW c \in Clients, OpenGate(c) PROVE Rest'
  <2>1. req[c].pc = "gate"
    BY <1>12, OpenGateMoves
  <2>2. CASE MovesTo(c, "publish") /\ UNCHANGED storeVars
    BY <1>2, <1>3, <2>1, <2>2, QuietMoves
  <2>3. CASE ~(MovesTo(c, "publish") /\ UNCHANGED storeVars)
    BY <1>1, <1>12, <2>1, <2>3, OpenGateMoves, AskedCalls
  <2> QED BY <2>2, <2>3
<1>13. ASSUME UNCHANGED vars \/ UserStep \/ ChangeInventory \/ \E c \in Clients : Disconnect(c)
       PROVE  Rest'
  <2>1. OpensNone /\ req' = req
    BY <1>3, <1>13, Zenon DEF vars, storeVars, UserStep, ChangeInventory, Disconnect, OpensNone
  <2>2. AskersStay /\ \A d \in Clients : ClaimsNoMore(d)
    BY <2>1, NothingMoves
  <2> QED BY <1>2, <2>1, <2>2
<1> HIDE DEF Rest
<1>14. Rest'
  BY <1>5, <1>6, <1>7, <1>8, <1>9, <1>10, <1>11, <1>12, <1>13, Zenon DEF Next, Step
<1> QED BY <1>1, <1>14 DEF CallsInv, Rest

(* What every call rests on, in every state. *)
THEOREM CallsInvariant == Safety => [](Typed /\ CallsInv)
<1>1. Typed /\ CallsInv /\ [Next]_vars => (Typed /\ CallsInv)'
  BY StepTyped, StepCalls
<1> QED BY <1>1, InitTyped, InitCalls, PTL DEF Safety

(* Whoever called the tool for anything but a reviewed read spent a gate   *)
(* that was opened for exactly that call at that risk, that a user         *)
(* approved, and that nobody else spent.                                   *)
THEOREM CallsAreApproved == Safety => []CallsApproved
<1>1. Typed /\ CallsInv => CallsApproved
  <2> SUFFICES ASSUME Typed, CallsInv, NEW c \in Clients, req[c].sent,
                      req[c].risk # "read_only" \/ req[c].gate # 0
               PROVE  /\ \E o \in Clients : Asked(o, c)
                      /\ req[c].run \in Store!Live =>
                           runs[req[c].run].gates[req[c].gate].status = "approved"
                      /\ \A d \in Clients \ {c} :
                           req[d].sent => <<req[d].run, req[d].gate>> # <<req[c].run, req[c].gate>>
    BY DEF CallsApproved
  <2>1. Holder(c) /\ \A d \in Clients : req[d].sent => Holder(d)
    BY DEF Holder
  <2>2. req[c].gate # 0
    BY <2>1 DEF CallsInv, PhaseInv, Phase
  <2>3. Approved(c)
    BY DEF CallsInv, HoldersApproved
  <2>4. (\E o \in Clients : Asked(o, c)) /\ (req[c].run \in Store!Live => GateStands(c))
    BY <2>1, <2>2, <2>3 DEF Approved, Claims
  <2>5. HoldersAlone
    BY DEF CallsInv
  <2> QED BY <2>1, <2>2, <2>4, <2>5 DEF GateStands, HoldersAlone
<1> QED BY <1>1, CallsInvariant, PTL

(* Every call of the tool has an audit entry of its own, and a mode that   *)
(* forbids the risk never reaches the tool.                                *)
THEOREM CallsAreAudited == Safety => []CallsAudited
<1>1. Typed /\ CallsInv => CallsAudited
  <2> SUFFICES ASSUME Typed, CallsInv PROVE CallsAudited
    OBVIOUS
  <2>1. ASSUME NEW id \in Store!Live, NEW g \in 0 .. Len(runs[id].gates)
        PROVE  Cardinality(CallsFor(id, g)) <= Cardinality(Store!LogsOf(runs[id], "allowed", g))
    <3>1. g \in Nat /\ runs[id] \in Store!Run
      BY LiveRuns DEF Typed, Store!Run
    <3>2. CallsFor(id, g) \subseteq Holders(id, g)
      BY DEF CallsFor, Holders, Holder
    <3>3. IsFiniteSet(Holders(id, g)) /\ Cardinality(Holders(id, g)) \in Nat
      BY HoldersFinite
    <3>4. Cardinality(CallsFor(id, g)) <= Cardinality(Holders(id, g))
          /\ Cardinality(CallsFor(id, g)) \in Nat
      BY <3>2, <3>3, FS_Subset, FS_CardinalityType
    <3>5. Counted(id, g)
      BY <3>1 DEF CallsInv, HoldersCounted
    <3>6. Cardinality(Store!LogsOf(runs[id], "allowed", g)) \in Nat
      BY <3>1, LogsFinite, FS_CardinalityType
    <3> QED BY <3>3, <3>4, <3>5, <3>6 DEF Counted
  <2>2. \A c \in Clients : req[c].sent => D!ModeAllowsRisk(req[c].mode, req[c].risk)
    BY DEF CallsInv, PhaseInv, Phase, Holder
  <2> QED BY <2>1, <2>2 DEF CallsAudited
<1> QED BY <1>1, CallsInvariant, PTL

(* An open run says it waits exactly when one of its gates is undecided:   *)
(* the store, as the endpoint and the users drive it, never leaves a run   *)
(* stuck waiting.                                                          *)
THEOREM RunsWaitForGates == Safety => []WaitingIffPending
<1>1. CallsInv => WaitingIffPending
  BY DEF CallsInv, RunsSettled, Settled, WaitingIffPending, Store!Open
<1> QED BY <1>1, CallsInvariant, PTL

-----------------------------------------------------------------------------
(* The store under concurrent executions.  Whatever the requests and the   *)
(* users do to it is what the Agent Run store allows, so all that is       *)
(* proved of the store by itself holds here too.                           *)
THEOREM StoreImplemented == Safety => Runs!Spec
<1>1. Init => Runs!Init
  BY SameStore DEF Init
<1>2. Typed /\ [Next]_vars => [Runs!Next]_(Runs!storeVars)
  BY StepStore, StoreSteps DEF storeVars, Runs!storeVars
<1>3. Safety => []Typed
  BY CallsInvariant, PTL
<1> QED BY <1>1, <1>2, <1>3, PTL DEF Safety, Runs!Spec

(* The executions implement the approval ledger: each approval a user      *)
(* gives is decided once and spent at most once, only while its run is     *)
(* open with no gate undecided, and nothing about a closed run changes.    *)
THEOREM LedgerImplemented == Safety => Runs!ImplementsLedger
<1>1. MaxRuns \in Nat \ {0} /\ NoBinding \notin Operations
  BY ExecutionAssumption
<1>2. Runs!Spec => Runs!ImplementsLedger
  BY <1>1, Runs!LedgerRefined
<1> QED BY <1>2, StoreImplemented, PTL
(* A tool that was called for an approval finds it spent in that ledger as *)
(* long as the run is remembered: the ledger lets no gate be spent twice,  *)
(* so no approval serves for two calls.                                    *)
CallsSpent ==
  \A c \in Clients : req[c].sent /\ req[c].gate # 0 /\ req[c].run \in Store!Live =>
    Runs!GateInLedger(runs[req[c].run], req[c].gate) = "spent"

THEOREM CallsAreSpent == Safety => []CallsSpent
<1>1. Typed /\ CallsInv => CallsSpent
  <2> SUFFICES ASSUME Typed, CallsInv, NEW c \in Clients, req[c].sent, NEW id \in Store!Live,
                      id = req[c].run, NEW g, g = req[c].gate
               PROVE  Runs!GateInLedger(runs[id], g) = "spent"
    BY DEF CallsSpent
  <2>1. g \in Nat /\ runs[id] \in Store!Run
    BY LiveRuns DEF Typed, TypeOK, Request
  <2>2. c \in Holders(id, g)
    BY DEF Holders, Holder
  <2>3. IsFiniteSet(Holders(id, g)) /\ Cardinality(Holders(id, g)) \in Nat \ {0}
    BY <2>2, HoldersFinite, FS_EmptySet
  <2>4. Counted(id, g)
    BY <2>1 DEF CallsInv, HoldersCounted
  <2>5. Store!LogsOf(runs[id], "allowed", g) # {}
    BY <2>3, <2>4, FS_EmptySet DEF Counted
  <2> QED BY <2>5 DEF Runs!GateInLedger, Runs!LogsOf, Store!LogsOf
<1> QED BY <1>1, CallsInvariant, PTL
=============================================================================
