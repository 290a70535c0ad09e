---------------------------- MODULE McpLifecycle ----------------------------
(***************************************************************************)
(* Airlock's MCP server processes (lifecycle.go): start and stop requests, *)
(* the sweep at shutdown, and processes that end by themselves.  Every     *)
(* section under lifecycle.mu is one action; the checks, the launch and    *)
(* the wait for a process to end happen between sections.  Whether an      *)
(* executable may start is decided from Attestations, twice.               *)
(*                                                                         *)
(* A process is named by the start request that launched it and lives      *)
(* until cmd.Wait returns, which is when Done reports.                     *)
(***************************************************************************)
EXTENDS Attestations

CONSTANTS Starts, Stops    \* the start, and stop or sweep, requests

ASSUME LifecycleAssumption == None \notin Starts

VARIABLES
  starting,  \* lifecycle.starting
  running,   \* lifecycle.running
  stopping,  \* lifecycle.stopping
  exits,     \* lifecycle.exits: why the server last ended
  alive,     \* the processes that live
  start,     \* of each start request: where it is and what it holds
  stop,      \* of each stop request
  claimed,   \* history: processes that some stop took charge of
  left,      \* history: processes a cancelled start could not end
  executed,  \* history: the executable each start request executed
  swapped    \* history: start requests whose server's executable was
             \*   replaced between their last look at it and their launch

records == <<starting, running, stopping, exits>>
launches == <<executed, swapped>>
lifecycleVars == <<records, alive, start, stop, claimed, left, launches>>

Process == Starts \union {None}

Start == [pc : {"idle", "fingerprint", "attest", "claim", "verify", "reattest",
                "launch", "grace", "cancel", "record", "done"},
          server : Servers, shown : Fingerprints, now : Fingerprints,
          ok : BOOLEAN]

Stop == [pc : {"idle", "claim", "signal", "forget", "restore", "done"},
         server : Servers,
         todo : SUBSET Servers,      \* the servers it has not looked at yet
         found : SUBSET Starts]      \* history: what it was to stop

TypeOK ==
  /\ AttestationsTypeOK
  /\ starting \subseteq Servers
  /\ running \in [Servers -> Process] /\ stopping \in [Servers -> Process]
  /\ exits \in [Servers -> {"none", "exited", "stopped"}]
  /\ alive \subseteq Starts
  /\ start \in [Starts -> Start] /\ stop \in [Stops -> Stop]
  /\ claimed \subseteq Starts /\ left \subseteq Starts
  /\ executed \in [Starts -> Fingerprints] /\ swapped \subseteq Starts

-----------------------------------------------------------------------------
(* reapLocked forgets a running process that has ended.  Every section     *)
(* begins with it, so the sections are written about what remains.         *)
Ended(s)   == running[s] # None /\ running[s] \notin alive
Running(s) == IF Ended(s) THEN None ELSE running[s]
Exits(s)   == IF Ended(s) THEN "exited" ELSE exits[s]

Reap(s) ==
  /\ running' = [running EXCEPT ![s] = Running(s)]
  /\ exits'   = [exits EXCEPT ![s] = Exits(s)]

(* activeStartStatusLocked *)
Active(s) == s \in starting \/ Running(s) # None \/ stopping[s] # None

At(c, pc)   == start[c].pc = pc
Goto(c, pc) == start' = [start EXCEPT ![c].pc = pc]
Server(c)   == start[c].server

(* Any status request reaps. *)
List(s) ==
  /\ Ended(s) /\ Reap(s)
  /\ UNCHANGED <<starting, stopping, alive, start, stop, claimed, left, launches>>

ProcessEnds(p) ==
  /\ p \in alive
  /\ alive' = alive \ {p}
  /\ UNCHANGED <<records, start, stop, claimed, left, launches>>

-----------------------------------------------------------------------------
(* Manager.Start.                                                          *)

RequestStart(c, s) ==
  /\ At(c, "idle")
  /\ Reap(s)
  /\ start' = [start EXCEPT ![c].server = s,
                            ![c].pc = IF Active(s) THEN "done" ELSE "fingerprint"]
  /\ UNCHANGED <<starting, stopping, alive, stop, claimed, left, launches>>

(* Check: fingerprint, then attestation, health probe and version.         *)
Fingerprint(c) ==
  /\ At(c, "fingerprint")
  /\ start' = [start EXCEPT ![c].pc = "attest", ![c].shown = binary[Server(c)]]
  /\ UNCHANGED <<records, alive, stop, claimed, left, launches>>

Attest(c) ==
  /\ At(c, "attest")
  /\ Reap(Server(c))
  /\ \E ready \in BOOLEAN :
       start' = [start EXCEPT ![c].pc = "claim",
                   ![c].ok = ready /\ Verdict(Server(c), start[c].shown) = "approved"]
  /\ UNCHANGED <<starting, stopping, alive, stop, claimed, left, launches>>

(* Faulty variant: no second look. *)
ClaimStartUnseen(c) ==
  /\ At(c, "claim")
  /\ Reap(Server(c))
  /\ IF ~start[c].ok
     THEN Goto(c, "done") /\ UNCHANGED starting
     ELSE Goto(c, "verify") /\ starting' = starting \union {Server(c)}
  /\ UNCHANGED <<stopping, alive, stop, claimed, left, launches>>

(* The second look, which claims the server. *)
ClaimStart(c) ==
  /\ At(c, "claim")
  /\ Reap(Server(c))
  /\ IF Active(Server(c)) \/ ~start[c].ok
     THEN Goto(c, "done") /\ UNCHANGED starting
     ELSE Goto(c, "verify") /\ starting' = starting \union {Server(c)}
  /\ UNCHANGED <<stopping, alive, stop, claimed, left, launches>>

(* verifyLaunchExecutable: both again. *)
Verify(c) ==
  /\ At(c, "verify")
  /\ start' = [start EXCEPT ![c].pc = "reattest", ![c].now = binary[Server(c)]]
  /\ UNCHANGED <<records, alive, stop, claimed, left, launches>>

(* Faulty variant: the preflight is trusted. *)
ReattestNothing(c) ==
  /\ At(c, "reattest")
  /\ Goto(c, "launch")
  /\ UNCHANGED <<records, alive, stop, claimed, left, launches>>

(* Faulty variant: a refused start stays claimed. *)
ReattestKeepsClaim(c) ==
  /\ At(c, "reattest")
  /\ Goto(c, IF start[c].now = start[c].shown /\ Verdict(Server(c), start[c].now) = "approved"
             THEN "launch" ELSE "done")
  /\ UNCHANGED <<records, alive, stop, claimed, left, launches>>

(* The start is refused on a difference, or if something is unreadable.    *)
Reattest(c) ==
  /\ At(c, "reattest")
  /\ \/ /\ start[c].now = start[c].shown /\ Verdict(Server(c), start[c].now) = "approved"
        /\ Goto(c, "launch") /\ UNCHANGED starting
     \/ Goto(c, "done") /\ starting' = starting \ {Server(c)}
  /\ UNCHANGED <<running, stopping, exits, alive, stop, claimed, left, launches>>

(* defaultLauncher: what is now installed at the path that was looked at   *)
(* is started, if it can be.                                               *)
Launch(c) ==
  /\ At(c, "launch")
  /\ \/ /\ Goto(c, "grace") /\ alive' = alive \union {c}
        /\ executed' = [executed EXCEPT ![c] = binary[Server(c)]]
     \/ /\ start' = [start EXCEPT ![c].pc = "record", ![c].ok = FALSE]
        /\ UNCHANGED <<alive, executed>>
  /\ UNCHANGED <<records, stop, claimed, left, swapped>>

(* It survives the startup grace, ends in it, or its request is cancelled. *)
Grace(c) ==
  /\ At(c, "grace")
  /\ \/ Goto(c, "record")
     \/ c \notin alive /\ start' = [start EXCEPT ![c].pc = "record", ![c].ok = FALSE]
     \/ Goto(c, "cancel")
  /\ UNCHANGED <<records, alive, stop, claimed, left, launches>>

(* The launcher stops the process, and gives up on one that will not end. *)
CancelLaunch(c) ==
  /\ At(c, "cancel")
  /\ start' = [start EXCEPT ![c].pc = "record", ![c].ok = FALSE]
  /\ left' = IF c \in alive THEN left \union {c} ELSE left
  /\ UNCHANGED <<records, alive, stop, claimed, launches>>

RecordStart(c) ==
  /\ At(c, "record")
  /\ starting' = starting \ {Server(c)}
  /\ IF start[c].ok
     THEN /\ running' = [running EXCEPT ![Server(c)] = c]
          /\ exits' = [exits EXCEPT ![Server(c)] = "none"]
     ELSE UNCHANGED <<running, exits>>
  /\ Goto(c, "done")
  /\ UNCHANGED <<stopping, alive, stop, claimed, left, launches>>

-----------------------------------------------------------------------------
(* Manager.Stop and Manager.StopAll, which calls it for every server that  *)
(* was running when it looked.                                             *)

StopAt(k, pc) == stop[k].pc = pc
Target(k)     == stop[k].server

RequestStop(k, todo) ==
  /\ StopAt(k, "idle")
  /\ stop' = [stop EXCEPT ![k].pc = "claim", ![k].todo = todo,
                ![k].found = {running[s] : s \in todo} \ {None}]
  /\ UNCHANGED <<records, alive, start, claimed, left, launches>>

RequestStopAll(k) == RequestStop(k, {s \in Servers : running[s] # None})

(* The locked section that takes charge of the process, or finds none.     *)
ClaimStop(k) ==
  /\ StopAt(k, "claim")
  /\ \E s \in stop[k].todo :
       /\ exits' = [exits EXCEPT ![s] = Exits(s)]
       /\ IF stopping[s] = None /\ s \notin starting /\ Running(s) # None
          THEN /\ running' = [running EXCEPT ![s] = None]
               /\ stopping' = [stopping EXCEPT ![s] = running[s]]
               /\ claimed' = claimed \union {running[s]}
               /\ stop' = [stop EXCEPT ![k].pc = "signal", ![k].server = s, ![k].todo = @ \ {s}]
          ELSE /\ running' = [running EXCEPT ![s] = Running(s)]
               /\ stop' = [stop EXCEPT ![k].todo = @ \ {s}]
               /\ UNCHANGED <<stopping, claimed>>
  /\ UNCHANGED <<starting, alive, start, left, launches>>

(* Faulty variant: a sweep ends before it has looked at every server. *)
EndStopEarly(k) ==
  /\ StopAt(k, "claim")
  /\ stop' = [stop EXCEPT ![k].pc = "done"]
  /\ UNCHANGED <<records, alive, start, claimed, left, launches>>

EndStop(k) ==
  /\ StopAt(k, "claim") /\ stop[k].todo = {}
  /\ stop' = [stop EXCEPT ![k].pc = "done"]
  /\ UNCHANGED <<records, alive, start, claimed, left, launches>>

(* handle.Stop waits for the process to end, up to a limit. *)
Signal(k) ==
  /\ StopAt(k, "signal")
  /\ stop' = [stop EXCEPT ![k].pc =
                IF stopping[Target(k)] \in alive THEN "restore" ELSE "forget"]
  /\ UNCHANGED <<records, alive, start, claimed, left, launches>>

(* Faulty variant: the exit has no reason. *)
ForgetNoReason(k) ==
  /\ StopAt(k, "forget")
  /\ stopping' = [stopping EXCEPT ![Target(k)] = None]
  /\ exits' = [exits EXCEPT ![Target(k)] = ""]
  /\ stop' = [stop EXCEPT ![k].pc = "claim"]
  /\ UNCHANGED <<starting, running, alive, start, claimed, left, launches>>

Forget(k) ==
  /\ StopAt(k, "forget")
  /\ stopping' = [stopping EXCEPT ![Target(k)] = None]
  /\ exits' = [exits EXCEPT ![Target(k)] = "stopped"]
  /\ stop' = [stop EXCEPT ![k].pc = "claim"]
  /\ UNCHANGED <<starting, running, alive, start, claimed, left, launches>>

(* Faulty variant: the record of a process that did not stop is dropped. *)
RestoreNothing(k) ==
  /\ StopAt(k, "restore")
  /\ stopping' = [stopping EXCEPT ![Target(k)] = None]
  /\ exits' = [exits EXCEPT ![Target(k)] = "exited"]
  /\ stop' = [stop EXCEPT ![k].pc = "claim"]
  /\ UNCHANGED <<starting, running, alive, start, claimed, left, launches>>

(* restoreAfterStopFailureLocked, unless the process has ended since. *)
Restore(k) ==
  LET s == Target(k) IN
  /\ StopAt(k, "restore")
  /\ stopping' = [stopping EXCEPT ![s] = None]
  /\ IF stopping[s] \in alive
     THEN running' = [running EXCEPT ![s] = stopping[s]] /\ UNCHANGED exits
     ELSE exits' = [exits EXCEPT ![s] = "exited"] /\ UNCHANGED running
  /\ stop' = [stop EXCEPT ![k].pc = "claim"]
  /\ UNCHANGED <<starting, alive, start, claimed, left, launches>>

-----------------------------------------------------------------------------
Init ==
  /\ AttestationsInit
  /\ starting = {}
  /\ running = [s \in Servers |-> None] /\ stopping = running
  /\ exits = [s \in Servers |-> "none"]
  /\ alive = {}
  /\ start = [c \in Starts |->
       [pc |-> "idle", server |-> CHOOSE s \in Servers : TRUE,
        shown |-> CHOOSE f \in Fingerprints : TRUE,
        now |-> CHOOSE f \in Fingerprints : TRUE, ok |-> FALSE]]
  /\ stop = [k \in Stops |->
       [pc |-> "idle", server |-> CHOOSE s \in Servers : TRUE, todo |-> {}, found |-> {}]]
  /\ claimed = {} /\ left = {}
  /\ executed = [c \in Starts |-> CHOOSE f \in Fingerprints : TRUE] /\ swapped = {}

StartStep(c) ==
  \/ Fingerprint(c) \/ Attest(c) \/ ClaimStart(c) \/ Verify(c) \/ Reattest(c)
  \/ Launch(c) \/ Grace(c) \/ CancelLaunch(c) \/ RecordStart(c)

StopStep(k) == ClaimStop(k) \/ EndStop(k) \/ Signal(k) \/ Forget(k) \/ Restore(k)

LifecycleNext ==
  \/ \E c \in Starts : StartStep(c) \/ ProcessEnds(c) \/ \E s \in Servers : RequestStart(c, s)
  \/ \E k \in Stops : StopStep(k) \/ RequestStopAll(k) \/ \E s \in Servers : RequestStop(k, {s})
  \/ \E s \in Servers : List(s)

vars == <<attestationVars, lifecycleVars>>

(* Approvals and installations go on between any two steps of a start. *)
Meanwhile ==
  /\ AttestationsNext
  /\ swapped' = swapped \union {c \in Starts : /\ start[c].pc \in {"reattest", "launch"}
                                              /\ binary'[Server(c)] # binary[Server(c)]}
  /\ UNCHANGED <<records, alive, start, stop, claimed, left, executed>>

Next ==
  \/ LifecycleNext /\ UNCHANGED attestationVars
  \/ Meanwhile

Safety == Init /\ [][Next]_vars

(* Requests that have started run on: probes, launches and the wait for a  *)
(* process to end are all under a timeout.                                 *)
Spec ==
  /\ Safety
  /\ \A c \in Starts : WF_vars(StartStep(c) /\ UNCHANGED attestationVars)
  /\ \A k \in Stops : WF_vars(StopStep(k) /\ UNCHANGED attestationVars)

-----------------------------------------------------------------------------
(***************************************************************************)
(* Properties.                                                             *)
(***************************************************************************)

(* Whatever starts, stops and ends at the same time, each server has at    *)
(* most one process, and Airlock can find it: the only processes it does   *)
(* not know are those a cancelled start gave up on.                        *)
Launching(p) == start[p].pc \in {"grace", "cancel", "record"}

ProcessesKnown ==
  /\ \A p \in alive \ left :
       running[Server(p)] = p \/ stopping[Server(p)] = p
         \/ (Launching(p) /\ Server(p) \in starting)
  /\ \A p, q \in alive \ left : Server(p) = Server(q) => p = q

(* Every process was launched after an executable had looked the same at   *)
(* the preflight and at the second look, and a user had approved it; and   *)
(* that executable is what runs, unless another was installed between the  *)
(* second look and the launch.  Start hands the launcher a path, and what  *)
(* is at the path by then is not looked at again.                          *)
LaunchesApproved ==
  \A c \in alive :
    /\ start[c].now = start[c].shown
    /\ executed[c] = start[c].shown \/ c \in swapped
    /\ \E a \in Approvals : /\ approval[a].pc = "saved" /\ approval[a].server = Server(c)
                            /\ approval[a].expected = start[c].shown

(* Once a stop or a sweep has answered, each process it was asked to end   *)
(* has ended or was at least taken charge of by some stop.                 *)
StopsReach ==
  \A k \in Stops : StopAt(k, "done") => stop[k].found \intersect alive \subseteq claimed

(* Where a server is in its cycle, as its status tells. *)
Phase(s) == IF s \in starting THEN "starting"
            ELSE IF stopping[s] # None THEN "stopping"
            ELSE IF Running(s) # None THEN "up" ELSE "down"

Cycle == INSTANCE ServerCycle WITH state <- [s \in Servers |-> Phase(s)]

(* Each server goes through the abstract cycle: a stop that fails late     *)
(* resurrects no ended process and loses no living one, and no two starts  *)
(* or stops of a server overlap.                                           *)
ImplementsCycle == Cycle!Spec

(* No server stays "starting" or "stopping": every request that claimed it *)
(* lets it go.                                                             *)
Unclaimed(s) == s \notin starting /\ stopping[s] = None

ReleasesServer == \A s \in Servers : ~Unclaimed(s) ~> Unclaimed(s)
=============================================================================
