----------------------------- MODULE ProjectSync -----------------------------
(***************************************************************************)
(* A project's source files under concurrent syncs of the canvas           *)
(* (api/router.go), editors, and the file watcher (watcher/watcher.go).    *)
(* A sync regenerates the files its resources belong to, keeping the       *)
(* blocks it does not manage (variables, outputs, providers), and pauses   *)
(* the watcher meanwhile so that its own writes are not reported.          *)
(*                                                                         *)
(* A sync may also bring the code of one file, which replaces the file.    *)
(*                                                                         *)
(* One directory, the project's: its path is the key of the pause.  A      *)
(* file's content is its resources, its other blocks, and whether it       *)
(* parses.                                                                 *)
(***************************************************************************)
EXTENDS Integers, FiniteSets

CONSTANTS
  Files, Resources, Blocks,
  Syncs,        \* the sync requests of a behaviour
  MainFile,     \* where resources without a file go
  MaxFileEdits  \* a bound of the model

ASSUME SyncAssumption == MainFile \in Files /\ MaxFileEdits \in Nat

VARIABLES
  file,      \* of each file: its content
  paused,    \* FileWatcher.paused[dir]: a flag, whoever set it
  events,    \* files with an event the watcher has not handled yet
  timers,    \* files whose debounce timer runs
  sync,      \* of each sync: where it is and what it holds
  edited,    \* history: files an editor changed that nobody was told of
  edits,     \* how often editors have changed files
  overtaken  \* history: files changed since a sync has read them

syncVars == <<file, paused, events, timers, sync, edited, edits, overtaken>>

(* Nothing can be told of a file that does not parse. *)
Content == {c \in [resources : SUBSET Resources, blocks : SUBSET Blocks, parses : BOOLEAN] :
              ~c.parses => c.resources = {} /\ c.blocks = {}}

(* A request that holds nothing yet, or no more. *)
Resting(pc) == [pc |-> pc, target |-> [r \in Resources |-> MainFile], todo |-> {},
                kept |-> [f \in Files |-> {}]]

SyncTypeOK ==
  /\ file \in [Files -> Content] /\ paused \in BOOLEAN /\ edits \in 0 .. MaxFileEdits
  /\ events \union timers \union edited \subseteq Files /\ overtaken \in [Syncs -> SUBSET Files]
  /\ sync \in [Syncs -> [pc : {"idle", "read", "write", "code", "done"}, target : [Resources -> Files],
                         todo : SUBSET Files, kept : [Files -> SUBSET Blocks]]]

Running(s) == sync[s].pc \in {"read", "write", "code"}

-----------------------------------------------------------------------------
(* The request is refused before the watcher is paused: a body that does   *)
(* not parse, an unsafe code file, resources nothing can be generated of.  *)
RefuseSync(s) ==
  /\ sync[s].pc = "idle"
  /\ sync' = [sync EXCEPT ![s] = Resting("done")]
  /\ UNCHANGED <<file, paused, events, timers, edited, edits, overtaken>>

(* Pause.  From here on an edit not yet on a timer goes unreported.        *)
PauseWatcher == paused' = TRUE /\ edited' = edited \intersect timers

(* The handler groups the resources by file; without any it writes main.   *)
(* It pauses first and validates the names afterwards, so that a sync may  *)
(* be refused, or fail, from "read" on: EndSync.                           *)
Targets(target, chosen) == IF chosen = {} THEN {MainFile} ELSE {target[r] : r \in chosen}

BeginSync(s) ==
  /\ sync[s].pc = "idle"
  /\ \E target \in [Resources -> Files] :
       sync' = [sync EXCEPT ![s] = [@ EXCEPT !.pc = "read", !.target = target,
                                             !.todo = Targets(target, Resources)]]
  /\ PauseWatcher
  /\ UNCHANGED <<file, events, timers, edits, overtaken>>

BeginCodeSync(s) ==
  /\ sync[s].pc = "idle"
  /\ \E f \in Files : sync' = [sync EXCEPT ![s] = [@ EXCEPT !.pc = "code", !.todo = {f}]]
  /\ PauseWatcher
  /\ UNCHANGED <<file, events, timers, edits, overtaken>>

(* Faulty variant: blocks are taken from the main file only. *)
ReadMainBlocks(s) ==
  /\ sync[s].pc = "read"
  /\ sync' = [sync EXCEPT ![s] = [@ EXCEPT !.pc = "write",
       !.kept = [f \in Files |-> IF f = MainFile THEN file[f].blocks ELSE {}]]]
  /\ UNCHANGED <<file, paused, events, timers, edited, edits, overtaken>>

(* ParseFileFull of every file; one that does not parse keeps nothing. *)
ReadBlocks(s) ==
  /\ sync[s].pc = "read"
  /\ sync' = [sync EXCEPT ![s] = [@ EXCEPT !.pc = "write",
       !.kept = [f \in Files |-> IF file[f].parses THEN file[f].blocks ELSE {}]]]
  /\ UNCHANGED <<file, paused, events, timers, edited, edits, overtaken>>

(* A temporary file is renamed, which the watcher sees as an event; or it  *)
(* fails, which ends the sync with the files written so far.               *)
Put(s, f, content) ==
  /\ file' = [file EXCEPT ![f] = content]
  /\ events' = events \union {f}
  /\ sync' = [sync EXCEPT ![s].todo = @ \ {f}]
  /\ overtaken' = [q \in Syncs |-> IF q # s /\ sync[q].pc = "write"
                                   THEN overtaken[q] \union {f} ELSE overtaken[q]]
  /\ UNCHANGED <<paused, timers, edited, edits>>

WriteFile(s, f) ==
  /\ sync[s].pc = "write" /\ f \in sync[s].todo
  /\ Put(s, f, [resources |-> {r \in Resources : sync[s].target[r] = f},
                blocks |-> sync[s].kept[f], parses |-> TRUE])

(* The code is whatever the user typed. *)
WriteCode(s, f) ==
  /\ sync[s].pc = "code" /\ f \in sync[s].todo
  /\ \E content \in Content : Put(s, f, content)

(* Faulty variant: the pause of a failed sync stays. *)
EndSyncPaused(s) ==
  /\ Running(s) /\ sync' = [sync EXCEPT ![s] = Resting("done")]
  /\ paused' = (paused /\ sync[s].todo # {})
  /\ overtaken' = [overtaken EXCEPT ![s] = {}]
  /\ UNCHANGED <<file, events, timers, edited, edits>>

(* The deferred Resume, after the last file, a refusal or an error.  It    *)
(* takes away whatever pause there is.                                     *)
EndSync(s) ==
  /\ Running(s) /\ sync' = [sync EXCEPT ![s] = Resting("done")]
  /\ paused' = FALSE
  /\ overtaken' = [overtaken EXCEPT ![s] = {}]
  /\ UNCHANGED <<file, events, timers, edited, edits>>

-----------------------------------------------------------------------------
(* An editor writes a file. *)
EditFile(f) ==
  /\ edits < MaxFileEdits /\ edits' = edits + 1
  /\ \E c \in Content : c # file[f] /\ file' = [file EXCEPT ![f] = c]
  /\ events' = events \union {f}
  /\ edited' = IF \E s \in Syncs : Running(s) THEN edited ELSE edited \union {f}
  /\ overtaken' = [q \in Syncs |-> IF sync[q].pc = "write" THEN overtaken[q] \union {f} ELSE overtaken[q]]
  /\ UNCHANGED <<paused, timers, sync>>

(* handleEvent: dropped while paused; else the file's timer starts anew. *)
HandleEvent(f) ==
  /\ f \in events /\ events' = events \ {f}
  /\ timers' = IF paused THEN timers ELSE timers \union {f}
  /\ UNCHANGED <<file, paused, sync, edited, edits, overtaken>>

(* notify: clients are told, and the hook invalidates the plan. *)
Notify(f) ==
  /\ f \in timers /\ timers' = timers \ {f} /\ edited' = edited \ {f}
  /\ UNCHANGED <<file, paused, events, sync, edits, overtaken>>

SyncInit ==
  /\ file \in [Files -> {[resources |-> {}, blocks |-> b, parses |-> TRUE] : b \in {{}, Blocks}}]
  /\ paused = FALSE /\ events = {} /\ timers = {} /\ edited = {} /\ edits = 0
  /\ sync = [s \in Syncs |-> Resting("idle")]
  /\ overtaken = [s \in Syncs |-> {}]

SyncNext ==
  \/ \E s \in Syncs :
       \/ RefuseSync(s) \/ BeginSync(s) \/ BeginCodeSync(s) \/ ReadBlocks(s) \/ EndSync(s)
       \/ \E f \in Files : WriteFile(s, f) \/ WriteCode(s, f)
  \/ \E f \in Files : EditFile(f) \/ HandleEvent(f) \/ Notify(f)

(* The watcher's loop and its timers run on, and a handler ends. *)
SyncFairness ==
  /\ \A f \in Files : WF_syncVars(HandleEvent(f)) /\ WF_syncVars(Notify(f))
  /\ \A s \in Syncs : WF_syncVars(EndSync(s))

-----------------------------------------------------------------------------
(* A sync loses no block of a file: the block disappears in a write only   *)
(* if the file did not parse when it was read, or was changed by somebody  *)
(* else after that; and a file no resource belongs to is left alone.       *)
SyncsKeepBlocks ==
  [][\A s \in Syncs : sync[s].pc = "write" /\ sync'[s].todo # sync[s].todo =>
       \A f \in Files :
         /\ f \notin overtaken[s] /\ file[f].parses => file[f].blocks \subseteq file'[f].blocks
         /\ (\A r \in Resources : sync[s].target[r] # f) /\ f # MainFile => file'[f] = file[f]]_syncVars

(* An edit outside any sync is reported sooner or later, unless a sync,    *)
(* though it be refused, pauses the watcher before it has seen the edit.   *)
EditsReported == \A f \in Files : f \in edited ~> f \notin edited
=============================================================================
