----------------------------- MODULE ServerCycle -----------------------------
(***************************************************************************)
(* What Airlock promises about each MCP server: it is down, starting, up   *)
(* or stopping, and moves between these only along this cycle.  A start    *)
(* that does not succeed leaves the server down, a stop that does not      *)
(* succeed leaves it up unless it ended meanwhile, and a server that is up *)
(* may end by itself.                                                      *)
(***************************************************************************)
CONSTANT Servers

VARIABLE state

State == {"down", "starting", "up", "stopping"}

Init == state = [s \in Servers |-> "down"]

Move(s, from, to) ==
  /\ state[s] = from
  /\ state' = [state EXCEPT ![s] = to]

BeginStart(s) == Move(s, "down", "starting")
Started(s)    == Move(s, "starting", "up")
NotStarted(s) == Move(s, "starting", "down")
Ended(s)      == Move(s, "up", "down")
BeginStop(s)  == Move(s, "up", "stopping")
Stopped(s)    == Move(s, "stopping", "down")
NotStopped(s) == Move(s, "stopping", "up")

Next == \E s \in Servers :
  \/ BeginStart(s) \/ Started(s) \/ NotStarted(s) \/ Ended(s)
  \/ BeginStop(s) \/ Stopped(s) \/ NotStopped(s)

Spec == Init /\ [][Next]_state
=============================================================================
