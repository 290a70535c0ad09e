---------------------------- MODULE RouteAttempts ----------------------------
(***************************************************************************)
(* POST .../tool-routes/authorize: decides one tool route and records the  *)
(* decision in the Agent Run, without calling the tool                     *)
(* (api/agent_tool_routes.go, agent_tool_route_idempotency.go).  Identical *)
(* retries join the first request with their key or get its decision       *)
(* replayed; a decision is kept until the table needs its place.           *)
(*                                                                         *)
(* All callers are for one run.  An attempt is named by its first caller.  *)
(***************************************************************************)
EXTENDS Integers, Sequences, FiniteSets, Functions

CONSTANTS
  Callers, RouteKeys,
  Routes,       \* what can be asked: connection, server, tool and risk
  MaxAttempts   \* maxAgentToolRouteAttempts

ASSUME RouteAssumption ==
  /\ MaxAttempts \in Nat \ {0}
  /\ RouteKeys # {} /\ Routes # {}

VARIABLES
  run,        \* the Agent Run: open, waiting for an approval, closed, or evicted
  table,      \* entries: key -> first caller
  listed,     \* completed: keys of recorded attempts, oldest first
  caller,     \* of each caller: where it is and what it holds
  hungUp,     \* the callers whose context has ended
  recorded,   \* history: the callers that wrote a decision into the run
  dropped     \* history: the recorded attempts that were evicted

routeVars == <<run, table, listed, caller, hungUp, recorded, dropped>>

Decisions == {"allowed", "denied", "approval_required"}

RouteTypeOK ==
  /\ run \in {"open", "waiting", "closed", "evicted"}
  /\ DOMAIN table \subseteq RouteKeys /\ Range(table) \subseteq Callers
  /\ listed \in Seq(RouteKeys)
  /\ caller \in [Callers -> [pc : {"start", "claim", "wait", "route", "publish", "done"},
                             key : RouteKeys, route : Routes, first : Callers,
                             outcome : Decisions \union {"none", "error"}]]
  /\ hungUp \union recorded \union dropped \subseteq Callers

KeyOf(c) == caller[c].key
Reply(c, outcome) == caller' = [caller EXCEPT ![c].pc = "done", ![c].outcome = outcome]

-----------------------------------------------------------------------------
(* readAgentToolRouteRequest: the key's header, the run and the body. *)
ReadRequest(c) ==
  /\ caller[c].pc = "start"
  /\ \E key \in RouteKeys, route \in Routes :
       caller' = [caller EXCEPT ![c].pc = "claim", ![c].key = key, ![c].route = route]
  /\ run # "evicted"
  /\ UNCHANGED <<run, table, listed, hungUp, recorded, dropped>>

(* Faulty variant: a retry is joined whatever it asks for. *)
JoinAnyRoute(c) ==
  /\ KeyOf(c) \in DOMAIN table
  /\ caller' = [caller EXCEPT ![c].pc = "wait", ![c].first = table[KeyOf(c)]]
  /\ UNCHANGED <<table, listed, dropped>>

(* authorize: the key is in use, for this route or another one. *)
JoinRoute(c) ==
  /\ KeyOf(c) \in DOMAIN table
  /\ IF caller[table[KeyOf(c)]].route # caller[c].route THEN Reply(c, "error")
     ELSE caller' = [caller EXCEPT ![c].pc = "wait", ![c].first = table[KeyOf(c)]]
  /\ UNCHANGED <<table, listed, dropped>>

(* makeRoomLocked: recorded attempts go, oldest first, as few as needed. *)
Kept(n)   == DOMAIN table \ {listed[i] : i \in 1 .. n}
Room(n)   == Cardinality(Kept(n)) < MaxAttempts
Leaving   == CHOOSE n \in 0 .. Len(listed) :
               (Room(n) \/ n = Len(listed)) /\ \A m \in 0 .. (n - 1) : ~Room(m)

(* authorize: a new key becomes an attempt if there is room. *)
LeadRoute(c) ==
  /\ KeyOf(c) \notin DOMAIN table
  /\ listed' = SubSeq(listed, Leaving + 1, Len(listed))
  /\ dropped' = dropped \union {table[listed[i]] : i \in 1 .. Leaving}
  /\ LET kept == [k \in Kept(Leaving) |-> table[k]] IN
     IF Room(Leaving)
     THEN /\ table' = [k \in DOMAIN kept \union {KeyOf(c)} |-> IF k = KeyOf(c) THEN c ELSE kept[k]]
          /\ caller' = [caller EXCEPT ![c].pc = "route", ![c].first = c]
     ELSE table' = kept /\ Reply(c, "error")

ClaimKey(c) ==
  /\ caller[c].pc = "claim"
  /\ JoinRoute(c) \/ LeadRoute(c)
  /\ UNCHANGED <<run, hungUp, recorded>>

(* Router.Route: the decision, and its record in the run in one locked     *)
(* section.  A denial fails the run, a gate makes it wait, and an allowance *)
(* is refused while it waits.                                              *)
Recordable(decision) == run = "open" \/ (run = "waiting" /\ decision # "allowed")

RouteCall(c) ==
  /\ caller[c].pc = "route"
  /\ \E decision \in Decisions :
       IF Recordable(decision)
       THEN /\ run' = CASE decision = "denied" -> "closed"
                        [] decision = "approval_required" -> "waiting"
                        [] decision = "allowed" -> "open"
            /\ recorded' = recorded \union {c}
            /\ caller' = [caller EXCEPT ![c].pc = "publish", ![c].outcome = decision]
       ELSE /\ caller' = [caller EXCEPT ![c].pc = "publish", ![c].outcome = "error"]
            /\ UNCHANGED <<run, recorded>>
  /\ UNCHANGED <<table, listed, hungUp, dropped>>

(* Faulty variant: a failed attempt stays in the table, unlisted. *)
PublishRouteKeeping(c) ==
  /\ caller[c].pc = "publish"
  /\ listed' = IF caller[c].outcome = "error" THEN listed ELSE Append(listed, KeyOf(c))
  /\ Reply(c, caller[c].outcome)
  /\ UNCHANGED <<run, table, hungUp, recorded, dropped>>

(* authorize after the callback: a recorded decision is kept for retries,  *)
(* an error is not; whoever waits is released.                             *)
PublishRoute(c) ==
  /\ caller[c].pc = "publish"
  /\ IF caller[c].outcome = "error"
     THEN table' = [k \in DOMAIN table \ {KeyOf(c)} |-> table[k]] /\ UNCHANGED listed
     ELSE listed' = Append(listed, KeyOf(c)) /\ UNCHANGED table
  /\ Reply(c, caller[c].outcome)
  /\ UNCHANGED <<run, hungUp, recorded, dropped>>

(* A joined retry: the first caller's decision with the run as it is now,  *)
(* its error, or the end of the retry's own context.                       *)
ReplayRoute(c) ==
  LET first == caller[c].first IN
  /\ caller[c].pc = "wait"
  /\ \/ caller[first].pc = "done" /\ Reply(c, IF run = "evicted" THEN "error" ELSE caller[first].outcome)
     \/ c \in hungUp /\ Reply(c, "error")
  /\ UNCHANGED <<run, table, listed, hungUp, recorded, dropped>>

HangUp(c) ==
  /\ c \notin hungUp /\ caller[c].pc = "wait" /\ hungUp' = hungUp \union {c}
  /\ UNCHANGED <<run, table, listed, caller, recorded, dropped>>

(* Users decide the gates or cancel; new runs push the run out. *)
RunChanges ==
  /\ run # "evicted"
  /\ run' \in {"closed", "evicted"} \union IF run = "waiting" THEN {"open"} ELSE {}
  /\ run' # run
  /\ UNCHANGED <<table, listed, caller, hungUp, recorded, dropped>>

RouteInit ==
  /\ run = "open" /\ table = <<>> /\ listed = <<>>
  /\ caller = [c \in Callers |-> [pc |-> "start", key |-> CHOOSE k \in RouteKeys : TRUE,
                                  route |-> CHOOSE r \in Routes : TRUE, first |-> c, outcome |-> "none"]]
  /\ hungUp = {} /\ recorded = {} /\ dropped = {}

RouteNext ==
  \/ \E c \in Callers : \/ ReadRequest(c) \/ ClaimKey(c) \/ RouteCall(c) \/ PublishRoute(c)
                        \/ ReplayRoute(c) \/ HangUp(c)
  \/ RunChanges

-----------------------------------------------------------------------------
(* "coalesces concurrent retries and retains a bounded replay window for    *)
(* successful, already-audited decisions": a key is recorded again only     *)
(* after its attempt was evicted; whoever is answered by another's attempt  *)
(* asked for the same route with the same key and gets a decision that is   *)
(* in the run's log; an attempt in flight is never evicted, and the table   *)
(* neither leaks nor outgrows its limit.                                    *)
RecordedOncePerKey ==
  /\ \A c, d \in recorded \ dropped : KeyOf(c) = KeyOf(d) => c = d
  /\ \A c \in Callers : LET first == caller[c].first IN
       first # c =>
         /\ KeyOf(first) = KeyOf(c) /\ caller[first].route = caller[c].route
         /\ caller[c].outcome \in Decisions => first \in recorded /\ caller[first].outcome = caller[c].outcome
  /\ \A c \in Callers : caller[c].pc \in {"route", "publish"} => KeyOf(c) \in DOMAIN table /\ table[KeyOf(c)] = c
  /\ {k \in DOMAIN table : caller[table[k]].pc = "done"} = Range(listed)
  /\ Cardinality(DOMAIN table) <= MaxAttempts
=============================================================================
