------------------------------- MODULE MCLive -------------------------------
(***************************************************************************)
(* Model-checking instance for what must eventually happen: the commands   *)
(* of a working directory end, the WebSocket hub lets everyone go, and the *)
(* watcher reports the edits of a project's files.  No two of the three    *)
(* share state here, so a behaviour is one of one component, named by      *)
(* "subject", under that component's fairness.                             *)
(***************************************************************************)
EXTENDS Hub, ProjectSync

CONSTANTS Commands, Connections, Nothing, MaxEdits

VARIABLES
  subject,
  source, synced, syncing, noticed, tfplan, planJSON, gate, active, cmd, overlap

Planning == INSTANCE PlanRun WITH sync <- syncing

planState == <<source, synced, syncing, noticed, tfplan, planJSON, gate, active, cmd, overlap>>

(* The files of the plan's and of the hub's behaviours rest as they are. *)
Init ==
  /\ subject \in {"plan", "hub", "files"}
  /\ Planning!Init /\ HubInit /\ SyncInit
  /\ subject # "files" => \A f \in Files : file[f].blocks = {}
  /\ subject = "files" => \A f \in Files : file[f].blocks = Blocks

PlanStep == subject = "plan"  /\ Planning!Next    /\ UNCHANGED <<subject, hubVars, syncVars>>
HubStep  == subject = "hub"   /\ HubNext        /\ UNCHANGED <<subject, planState, syncVars>>
FileStep == subject = "files" /\ SyncNext       /\ UNCHANGED <<subject, planState, hubVars>>

Next == PlanStep \/ HubStep \/ FileStep

(* The fairness each module states, in the behaviours of its component. *)
Fairness ==
  /\ \A c \in Commands : WF_planState(subject = "plan" /\ Planning!Progress(c))
  /\ WF_hubVars(subject = "hub" /\ Shutdown) /\ WF_hubVars(subject = "hub" /\ HandOut)
  /\ \A c \in Sockets :
       /\ WF_hubVars(subject = "hub" /\ RegisterClient(c))
       /\ WF_hubVars(subject = "hub" /\ UnregisterClient(c))
       /\ WF_hubVars(subject = "hub" /\ Pump(c))
       /\ WF_hubVars(subject = "hub" /\ Deliver(c) /\ ~conn[c])
  /\ \A b \in Posters : WF_hubVars(subject = "hub" /\ Broadcast(b))
  /\ \A f \in Files :
       /\ WF_syncVars(subject = "files" /\ HandleEvent(f))
       /\ WF_syncVars(subject = "files" /\ Notify(f))
  /\ \A s \in Syncs : WF_syncVars(subject = "files" /\ EndSync(s))

Spec == Init /\ [][Next]_<<subject, planState, hubVars, syncVars>> /\ Fairness

-----------------------------------------------------------------------------
(* The hub and the project's files are checked as their modules state it:  *)
(* a client gets every message in order until it is dropped; closing the   *)
(* hub releases everyone; syncs lose no block; edits are reported.  And    *)
(* every accepted command ends.                                            *)
Completes == Planning!Completes
=============================================================================
