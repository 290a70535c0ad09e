----------------------------- MODULE PolicyStore -----------------------------
(***************************************************************************)
(* Route policies, one per scope, in a file that several processes share   *)
(* (agentrouting/policy_store.go, policy_store_persistence.go).  A save    *)
(* takes the process's persistMu, then the lock file, loads the file again, *)
(* replaces it atomically, releases the lock file and only then swaps the  *)
(* map that readers use.  A process may die at any point; the operating    *)
(* system then releases its lock.                                          *)
(*                                                                         *)
(* A policy is named by the request that saves it.                         *)
(***************************************************************************)
EXTENDS Integers, Sequences, FiniteSets

CONSTANTS
  StudioProcesses,  \* processes over one projects directory
  Saves,            \* the save requests of a behaviour
  PolicyScopes,     \* (project, provider) pairs
  NoPolicy          \* a scope without policy, a lock without holder

ASSUME PolicyStoreAssumption ==
  /\ NoPolicy \notin Saves
  /\ StudioProcesses # {} /\ PolicyScopes # {}

VARIABLES
  policyFile,   \* agent-routing-policies.json
  broken,       \* the file cannot be decoded any more
  policies,     \* of each process: PolicyStore.policies
  up,           \* the processes that run
  persistMu,    \* of each process: the request that holds persistMu
  flock,        \* the request whose process holds the lock file
  save,         \* of each request: where it is and what it holds
  replaced      \* history: the requests that replaced the file, in order

policyVars == <<policyFile, broken, policies, up, persistMu, flock, save, replaced>>

Policies == [PolicyScopes -> Saves \union {NoPolicy}]
Empty    == [s \in PolicyScopes |-> NoPolicy]

SaveRequest == [pc : {"idle", "wait", "open", "load", "replace", "unlock", "publish",
                      "saved", "refused", "lost"},
                process : StudioProcesses, scope : PolicyScopes, snapshot : Policies]

PolicyTypeOK ==
  /\ policyFile \in Policies /\ broken \in BOOLEAN
  /\ policies \in [StudioProcesses -> Policies] /\ up \subseteq StudioProcesses
  /\ persistMu \in [StudioProcesses -> Saves \union {NoPolicy}]
  /\ flock \in Saves \union {NoPolicy}
  /\ save \in [Saves -> SaveRequest] /\ replaced \in Seq(Saves)

Home(r)      == save[r].process
SaveAt(r, pc) == save' = [save EXCEPT ![r].pc = pc]

(* PolicyStore.Get, which authorizations and the policy endpoints use. *)
Get(p, s) == policies[p][s]

-----------------------------------------------------------------------------
(* PUT .../agent-routing/policies/{provider}: the handler and Save validate *)
(* the scope and every rule of the policy first.                           *)
RequestSave(r) ==
  /\ save[r].pc = "idle"
  /\ \E p \in up, s \in PolicyScopes, valid \in BOOLEAN :
       save' = [save EXCEPT ![r] = [@ EXCEPT !.pc = IF valid THEN "wait" ELSE "refused",
                                             !.process = p, !.scope = s]]
  /\ UNCHANGED <<policyFile, broken, policies, up, persistMu, flock, replaced>>

TakeMutex(r) ==
  /\ save[r].pc = "wait" /\ persistMu[Home(r)] = NoPolicy
  /\ persistMu' = [persistMu EXCEPT ![Home(r)] = r]
  /\ SaveAt(r, "open")
  /\ UNCHANGED <<policyFile, broken, policies, up, flock, replaced>>

(* The deferred releases of an error return. *)
RefuseSave(r) ==
  /\ SaveAt(r, "refused")
  /\ persistMu' = [persistMu EXCEPT ![Home(r)] = NoPolicy]
  /\ flock' = IF flock = r THEN NoPolicy ELSE flock
  /\ UNCHANGED <<policyFile, broken, policies, up, replaced>>

(* Faulty variant: the lock file is not waited for. *)
LockFileAnyway(r) ==
  /\ save[r].pc = "open"
  /\ flock' = r /\ SaveAt(r, "load")
  /\ UNCHANGED <<policyFile, broken, policies, up, persistMu, replaced>>

(* ensurePolicyStoreDir, openPolicyStoreLock and lockPolicyStoreFile. *)
LockFile(r) ==
  /\ save[r].pc = "open"
  /\ \/ /\ flock = NoPolicy /\ flock' = r /\ SaveAt(r, "load")
        /\ UNCHANGED <<policyFile, broken, policies, up, persistMu, replaced>>
     \/ RefuseSave(r)

(* loadPolicyStore under the lock; what cannot be decoded is not discarded. *)
Reload(r) ==
  /\ save[r].pc = "load"
  /\ IF broken THEN RefuseSave(r)
     ELSE /\ save' = [save EXCEPT ![r].pc = "replace",
                        ![r].snapshot = [policyFile EXCEPT ![save[r].scope] = r]]
          /\ UNCHANGED <<policyFile, broken, policies, up, persistMu, flock, replaced>>

(* persistPolicyStore: a temporary file takes the file's name, or nothing  *)
(* happens: too large, no space, no permission.                            *)
Replace(r) ==
  /\ save[r].pc = "replace"
  /\ \/ /\ policyFile' = save[r].snapshot /\ broken' = FALSE
        /\ replaced' = Append(replaced, r) /\ SaveAt(r, "unlock")
        /\ UNCHANGED <<policies, up, persistMu, flock>>
     \/ RefuseSave(r)

Unlock(r) ==
  /\ save[r].pc = "unlock"
  /\ flock' = NoPolicy /\ SaveAt(r, "publish")
  /\ UNCHANGED <<policyFile, broken, policies, up, persistMu, replaced>>

(* Readers see the map that was written, and persistMu is released. *)
PublishPolicies(r) ==
  /\ save[r].pc = "publish"
  /\ policies' = [policies EXCEPT ![Home(r)] = save[r].snapshot]
  /\ persistMu' = [persistMu EXCEPT ![Home(r)] = NoPolicy]
  /\ SaveAt(r, "saved")
  /\ UNCHANGED <<policyFile, broken, up, flock, replaced>>

-----------------------------------------------------------------------------
Crash(p) ==
  /\ p \in up /\ up' = up \ {p}
  /\ save' = [r \in Saves |-> IF Home(r) = p /\ save[r].pc \notin {"idle", "saved", "refused"}
                              THEN [save[r] EXCEPT !.pc = "lost"] ELSE save[r]]
  /\ persistMu' = [persistMu EXCEPT ![p] = NoPolicy]
  /\ flock' = IF flock # NoPolicy /\ Home(flock) = p THEN NoPolicy ELSE flock
  /\ policies' = [policies EXCEPT ![p] = Empty]
  /\ UNCHANGED <<policyFile, broken, replaced>>

(* Faulty variant: a file that cannot be decoded counts as empty. *)
StartEmpty(p) ==
  /\ p \notin up /\ up' = up \union {p}
  /\ policies' = [policies EXCEPT ![p] = IF broken THEN Empty ELSE policyFile]
  /\ UNCHANGED <<policyFile, broken, persistMu, flock, save, replaced>>

(* NewPersistentPolicyStore: malformed storage fails the start. *)
StartStore(p) ==
  /\ p \notin up /\ ~broken /\ up' = up \union {p}
  /\ policies' = [policies EXCEPT ![p] = policyFile]
  /\ UNCHANGED <<policyFile, broken, persistMu, flock, save, replaced>>

(* Something outside the program damages the file. *)
Damage ==
  /\ ~broken /\ broken' = TRUE
  /\ UNCHANGED <<policyFile, policies, up, persistMu, flock, save, replaced>>

PolicyInit ==
  /\ policyFile = Empty /\ broken = FALSE
  /\ policies = [p \in StudioProcesses |-> Empty] /\ up = StudioProcesses
  /\ persistMu = [p \in StudioProcesses |-> NoPolicy] /\ flock = NoPolicy
  /\ save = [r \in Saves |-> [pc |-> "idle", process |-> CHOOSE p \in StudioProcesses : TRUE,
                              scope |-> CHOOSE s \in PolicyScopes : TRUE, snapshot |-> Empty]]
  /\ replaced = <<>>

PolicyNext ==
  \/ \E r \in Saves : \/ RequestSave(r) \/ TakeMutex(r) \/ LockFile(r) \/ Reload(r)
                      \/ Replace(r) \/ Unlock(r) \/ PublishPolicies(r)
  \/ \E p \in StudioProcesses : Crash(p) \/ StartStore(p)
  \/ Damage

-----------------------------------------------------------------------------
(* The file after the first n replacements, if each had changed its scope only. *)
View(n) ==
  [s \in PolicyScopes |->
     LET writers == {i \in 1 .. n : save[replaced[i]].scope = s}
     IN  IF writers = {} THEN NoPolicy
         ELSE replaced[CHOOSE i \in writers : \A j \in writers : j <= i]]

(* agent-routing-policies.json: whatever processes save at once or die,    *)
(* the file is what the replacements, one after the other, make of it: no  *)
(* acknowledged policy is lost or reappears.  A process that runs decides  *)
(* by some such file, never older than its own acknowledged saves.         *)
PoliciesKept ==
  /\ policyFile = View(Len(replaced))
  /\ \A p \in up : \E n \in 0 .. Len(replaced) :
       /\ \A s \in PolicyScopes : Get(p, s) = View(n)[s]
       /\ \A i \in 1 .. Len(replaced) :
            save[replaced[i]].pc = "saved" /\ Home(replaced[i]) = p => i <= n
=============================================================================
