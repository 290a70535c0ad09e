------------------------- MODULE McpLifecycleProofs -------------------------
(***************************************************************************)
(* Theorems about McpLifecycle and Attestations, for any servers, requests *)
(* and fingerprints.                                                       *)
(***************************************************************************)
EXTENDS McpLifecycle, FiniteSetTheorems, TLAPS

(* The initial state is well-typed. *)
LEMMA InitTyped == Init => TypeOK
<1> SUFFICES ASSUME Init PROVE TypeOK
  OBVIOUS
<1> DEFINE s0 == CHOOSE s \in Servers : TRUE
           f0 == CHOOSE f \in Fingerprints : TRUE
<1>1. s0 \in Servers /\ f0 \in Fingerprints
  BY AttestationAssumption
<1>2. None \notin Approvals /\ None \notin Starts
  BY AttestationAssumption, LifecycleAssumption
<1> HIDE DEF s0, f0
<1>3. AttestationsTypeOK
  BY <1>1 DEF Init, AttestationsInit, AttestationsTypeOK, File, Approval, s0, f0
<1>4. start \in [Starts -> Start] /\ stop \in [Stops -> Stop]
  BY <1>1 DEF Init, Start, Stop, s0, f0
<1>5. executed \in [Starts -> Fingerprints] /\ swapped \subseteq Starts
  BY <1>1 DEF Init, f0
<1> QED BY <1>3, <1>4, <1>5 DEF Init, TypeOK, Process

(* Every step of an approval or an installation keeps the types. *)
LEMMA AttestationsTyped ==
  ASSUME AttestationsTypeOK, AttestationsNext
  PROVE  AttestationsTypeOK'
<1> USE DEF AttestationsTypeOK, Approval
<1>f. ASSUME NEW f \in File, NEW s \in Servers, NEW a \in Approvals
      PROVE  [f EXCEPT ![s] = a] \in File
  BY DEF File
<1>1. ASSUME NEW a \in Approvals, NEW s \in Servers, Show(a, s) PROVE AttestationsTypeOK'
  BY ZenonT(40), <1>1 DEF Show
<1>r. ASSUME NEW a \in Approvals, Refuse(a), UNCHANGED binary PROVE AttestationsTypeOK'
  BY <1>r DEF Refuse
<1>2. ASSUME NEW a \in Approvals, Load(a) PROVE AttestationsTypeOK'
  <2>1. CASE Refuse(a)
    BY <1>2, <1>r, <2>1 DEF Load
  <2>2. CASE ~Refuse(a)
    BY <1>2, <2>2 DEF Load
  <2> QED BY <2>1, <2>2
<1>3. ASSUME NEW a \in Approvals, Compare(a) PROVE AttestationsTypeOK'
  <2>1. CASE Refuse(a)
    BY <1>3, <1>r, <2>1 DEF Compare
  <2>2. CASE ~Refuse(a)
    <3> DEFINE f == [approval[a].file EXCEPT ![approval[a].server] = a]
    <3>1. f \in File
      BY <1>f
    <3>2. approval' = [approval EXCEPT ![a] = [@ EXCEPT !.pc = "checked", !.file = f]]
      BY <1>3, <2>2 DEF Compare
    <3>3. contended' \in BOOLEAN /\ UNCHANGED <<binary, attested, saved>>
      BY <1>3, <2>2 DEF Compare
    <3> HIDE DEF f
    <3> QED BY <3>1, <3>2, <3>3
  <2> QED BY <2>1, <2>2
<1>4. ASSUME NEW a \in Approvals, Persist(a) PROVE AttestationsTypeOK'
  <2>1. CASE Refuse(a)
    BY <1>4, <1>r, <2>1 DEF Persist
  <2>2. CASE ~Refuse(a)
    <3> DEFINE f == [saved EXCEPT ![approval[a].server] = a]
    <3>1. f \in File /\ approval[a].file \in File
      BY <1>f
    <3>2. attested' = approval[a].file /\ saved' = f /\ UNCHANGED <<binary, contended>>
      BY <1>4, <2>2 DEF Persist
    <3>3. approval' = [approval EXCEPT ![a].pc = "saved"]
      BY <1>4, <2>2 DEF Persist
    <3> HIDE DEF f
    <3>4. approval' \in [Approvals -> Approval]
      BY <3>3
    <3> QED BY <3>1, <3>2, <3>4
  <2> QED BY <2>1, <2>2
<1>5. ASSUME NEW s \in Servers, Install(s) PROVE AttestationsTypeOK'
  BY <1>5 DEF Install
<1> QED BY <1>1, <1>2, <1>3, <1>4, <1>5 DEF AttestationsNext

(* A stop request's record stays one when it is given its work. *)
LEMMA RequestTyped ==
  ASSUME NEW f \in [Stops -> Stop], NEW k \in Stops,
         NEW todo \in SUBSET Servers, NEW found \in SUBSET Starts
  PROVE  [f EXCEPT ![k].pc = "claim", ![k].todo = todo, ![k].found = found] \in [Stops -> Stop]
BY ZenonT(60) DEF Stop

(* Every step of the lifecycle keeps the types. *)
LEMMA LifecycleTyped ==
  ASSUME TypeOK, LifecycleNext, UNCHANGED attestationVars
  PROVE  TypeOK'
<1> USE DEF TypeOK, records, launches, Process
<1>a. AttestationsTypeOK'
  BY DEF AttestationsTypeOK, attestationVars, File, Approval
<1>1. ASSUME NEW c \in Starts, NEW s \in Servers, RequestStart(c, s) PROVE TypeOK'
  <2>1. /\ running' \in [Servers -> Process] /\ exits' \in [Servers -> {"none", "exited", "stopped"}]
        /\ UNCHANGED <<starting, stopping, alive, stop, claimed, left, launches>>
    BY <1>1 DEF RequestStart, Reap, Running, Exits, Ended
  <2>2. PICK pc \in {"done", "fingerprint"} : start' = [start EXCEPT ![c].server = s, ![c].pc = pc]
    BY <1>1 DEF RequestStart
  <2>3. start' \in [Starts -> Start]
    BY ZenonT(40), <2>2 DEF Start
  <2> QED BY <1>a, <2>1, <2>3
<1>2. ASSUME NEW c \in Starts, Fingerprint(c) PROVE TypeOK'
  <2>1. binary[Server(c)] \in Fingerprints
    BY DEF AttestationsTypeOK, Server, Start
  <2>2. PICK f \in Fingerprints : start' = [start EXCEPT ![c].pc = "attest", ![c].shown = f]
    BY <1>2, <2>1 DEF Fingerprint
  <2>3. start' \in [Starts -> Start]
    BY ZenonT(40), <2>2 DEF Start
  <2>4. UNCHANGED <<records, alive, stop, claimed, left, launches>>
    BY <1>2 DEF Fingerprint
  <2> QED BY <1>a, <2>3, <2>4
<1>3. ASSUME NEW c \in Starts, Attest(c) PROVE TypeOK'
  <2>1. /\ running' \in [Servers -> Process] /\ exits' \in [Servers -> {"none", "exited", "stopped"}]
        /\ UNCHANGED <<starting, stopping, alive, stop, claimed, left, launches>>
    BY <1>3 DEF Attest, Reap, Running, Exits, Ended, Server, Start
  <2>2. PICK ok \in BOOLEAN : start' = [start EXCEPT ![c].pc = "claim", ![c].ok = ok]
    <3>1. PICK ready \in BOOLEAN :
            start' = [start EXCEPT ![c].pc = "claim",
                        ![c].ok = ready /\ Verdict(Server(c), start[c].shown) = "approved"]
      BY <1>3 DEF Attest
    <3> DEFINE ok == ready /\ Verdict(Server(c), start[c].shown) = "approved"
    <3>2. ok \in BOOLEAN
      OBVIOUS
    <3> QED BY <3>1, <3>2
  <2>3. start' \in [Starts -> Start]
    BY ZenonT(40), <2>2 DEF Start
  <2> QED BY <1>a, <2>1, <2>3
<1>4. ASSUME NEW c \in Starts, ClaimStart(c) PROVE TypeOK'
  BY <1>4, <1>a DEF ClaimStart, Reap, Running, Exits, Ended, Server, Goto, Start
<1>5. ASSUME NEW c \in Starts, Verify(c) PROVE TypeOK'
  <2>1. binary[Server(c)] \in Fingerprints
    BY DEF AttestationsTypeOK, Server, Start
  <2>2. PICK f \in Fingerprints : start' = [start EXCEPT ![c].pc = "reattest", ![c].now = f]
    BY <1>5, <2>1 DEF Verify
  <2>3. start' \in [Starts -> Start]
    BY ZenonT(40), <2>2 DEF Start
  <2>4. UNCHANGED <<records, alive, stop, claimed, left, launches>>
    BY <1>5 DEF Verify
  <2> QED BY <1>a, <2>3, <2>4
<1>6. ASSUME NEW c \in Starts, Reattest(c) PROVE TypeOK'
  BY <1>6, <1>a DEF Reattest, Server, Goto, Start
<1>7. ASSUME NEW c \in Starts, Launch(c) PROVE TypeOK'
  <2>1. binary[Server(c)] \in Fingerprints
    BY DEF AttestationsTypeOK, Server, Start
  <2>2. executed' \in [Starts -> Fingerprints]
    BY <1>7, <2>1 DEF Launch
  <2> QED BY <1>7, <1>a, <2>2 DEF Launch, Goto, Start
<1>8. ASSUME NEW c \in Starts, Grace(c) PROVE TypeOK'
  <2>1. UNCHANGED <<records, alive, stop, claimed, left, launches>>
    BY <1>8 DEF Grace
  <2>2. start' \in [Starts -> Start]
    BY <1>8 DEF Grace, Goto, Start
  <2> QED BY <1>a, <2>1, <2>2
<1>9. ASSUME NEW c \in Starts, CancelLaunch(c) PROVE TypeOK'
  BY ZenonT(60), <1>9, <1>a DEF CancelLaunch, Start
<1>10. ASSUME NEW c \in Starts, RecordStart(c) PROVE TypeOK'
  <2>1. start' \in [Starts -> Start]
    BY <1>10 DEF RecordStart, Goto, Start
  <2>2. /\ running' \in [Servers -> Process] /\ exits' \in [Servers -> {"none", "exited", "stopped"}]
        /\ starting' \subseteq Servers
    BY <1>10 DEF RecordStart
  <2> QED BY <1>10, <1>a, <2>1, <2>2 DEF RecordStart
<1>11. ASSUME NEW p \in Starts, ProcessEnds(p) PROVE TypeOK'
  BY <1>11, <1>a DEF ProcessEnds
<1>12. ASSUME NEW k \in Stops, NEW todo \in SUBSET Servers, RequestStop(k, todo) PROVE TypeOK'
  <2>1. PICK found \in SUBSET Starts :
          stop' = [stop EXCEPT ![k].pc = "claim", ![k].todo = todo, ![k].found = found]
    <3>1. {running[s] : s \in todo} \ {None} \in SUBSET Starts
      OBVIOUS
    <3> QED BY <1>12, <3>1 DEF RequestStop
  <2>2. stop' \in [Stops -> Stop]
    BY <2>1, RequestTyped
  <2>3. UNCHANGED <<records, alive, start, claimed, left, launches>>
    BY <1>12 DEF RequestStop
  <2> QED BY <1>a, <2>2, <2>3
<1>13. ASSUME NEW k \in Stops, ClaimStop(k) PROVE TypeOK'
  BY <1>13, <1>a DEF ClaimStop, Running, Exits, Ended, Stop
<1>14. ASSUME NEW k \in Stops, EndStop(k) PROVE TypeOK'
  BY <1>14, <1>a DEF EndStop, Stop
<1>15. ASSUME NEW k \in Stops, Signal(k) PROVE TypeOK'
  BY <1>15, <1>a DEF Signal, Stop
<1>16. ASSUME NEW k \in Stops, Forget(k) PROVE TypeOK'
  BY <1>16, <1>a DEF Forget, Target, Stop
<1>17. ASSUME NEW k \in Stops, Restore(k) PROVE TypeOK'
  BY <1>17, <1>a DEF Restore, Target, Stop
<1>18. ASSUME NEW s \in Servers, List(s) PROVE TypeOK'
  BY <1>18, <1>a DEF List, Reap, Running, Exits, Ended
<1> QED
  BY <1>1, <1>2, <1>3, <1>4, <1>5, <1>6, <1>7, <1>8, <1>9, <1>10, <1>11, <1>12, <1>13,
     <1>14, <1>15, <1>16, <1>17, <1>18
  DEF LifecycleNext, StartStep, StopStep, RequestStopAll

(* Every step keeps the types. *)
LEMMA StepTyped == TypeOK /\ [Next]_vars => TypeOK'
<1> SUFFICES ASSUME TypeOK, [Next]_vars PROVE TypeOK'
  OBVIOUS
<1>1. CASE LifecycleNext /\ UNCHANGED attestationVars
  BY <1>1, LifecycleTyped
<1>2. CASE Meanwhile
  BY <1>2, AttestationsTyped DEF Meanwhile, TypeOK, records
<1>3. CASE UNCHANGED vars
  BY <1>3 DEF TypeOK, AttestationsTypeOK, vars, lifecycleVars, attestationVars, records, launches
<1> QED BY <1>1, <1>2, <1>3 DEF Next

-----------------------------------------------------------------------------
(***************************************************************************)
(* The inductive invariant.                                                *)
(***************************************************************************)

(* Start requests: one at a time has a server claimed, which then has no   *)
(* process on record; a process has passed the launch of its request.      *)
Claims(c) == start[c].pc \in {"verify", "reattest", "launch", "grace", "cancel", "record"}

StartsInv ==
  /\ \A c \in Starts : Claims(c) => Server(c) \in starting
  /\ \A c, d \in Starts : Claims(c) /\ Claims(d) /\ Server(c) = Server(d) => c = d
  /\ \A c \in Starts : start[c].pc \in {"verify", "reattest", "launch", "grace"} => start[c].ok
  /\ \A s \in starting : running[s] = None /\ stopping[s] = None
  /\ \A p \in alive : start[p].pc \in {"grace", "cancel", "record", "done"}

(* Processes on record: each under the server of a start that is done,     *)
(* running or stopping but not both, and one stop request for each that    *)
(* stops.                                                                  *)
Handles(k) == stop[k].pc \in {"signal", "forget", "restore"}

RecordsInv ==
  /\ \A s \in Servers : running[s] # None =>
       stopping[s] = None /\ Server(running[s]) = s /\ At(running[s], "done")
  /\ \A s \in Servers : stopping[s] # None =>
       Server(stopping[s]) = s /\ At(stopping[s], "done")
  /\ \A k \in Stops : Handles(k) => stopping[Target(k)] # None
  /\ \A k, l \in Stops : Handles(k) /\ Handles(l) /\ Target(k) = Target(l) => k = l
  /\ \A k \in Stops : StopAt(k, "forget") => stopping[Target(k)] \notin alive

(* A living process is on record, will be, or was given up on.             *)
KnownInv ==
  \A p \in alive \ left :
    \/ running[Server(p)] = p \/ stopping[Server(p)] = p
    \/ At(p, "grace") \/ At(p, "cancel") \/ (At(p, "record") /\ start[p].ok)

(* What a stop request was to end is taken charge of, has ended, or is     *)
(* still where the request will look.                                      *)
ReachInv ==
  \A k \in Stops :
    /\ StopAt(k, "done") => stop[k].todo = {}
    /\ \A p \in stop[k].found :
         /\ At(p, "done")
         /\ p \in claimed \/ p \notin alive
              \/ (Server(p) \in stop[k].todo /\ running[Server(p)] = p)

(* Attestations in the file, and in the copies requests hold, were         *)
(* acknowledged, but for the one a request is about to write.              *)
Vouches(a, s) == approval[a].pc = "saved" /\ approval[a].server = s

AttestInv ==
  /\ \A s \in Servers : attested[s] # None => Vouches(attested[s], s)
  /\ \A a \in Approvals, s \in Servers :
       approval[a].pc \in {"loaded", "checked"} /\ approval[a].file[s] # None =>
         \/ Vouches(approval[a].file[s], s)
         \/ approval[a].pc = "checked" /\ approval[a].server = s /\ approval[a].file[s] = a

(* From the launch on, the executable was seen twice and approved.         *)
Approved(c) ==
  /\ start[c].now = start[c].shown
  /\ \E a \in Approvals : Vouches(a, Server(c)) /\ approval[a].expected = start[c].shown

LaunchInv == \A c \in Starts :
  c \in alive \/ start[c].pc \in {"launch", "grace", "cancel", "record"} => Approved(c)

(* What was last looked at is what is launched and runs, unless another    *)
(* executable was installed in between.                                    *)
Seen(c) == start[c].pc \in {"reattest", "launch"} => start[c].now = binary[Server(c)] \/ c \in swapped
Runs(c) == c \in alive => executed[c] = start[c].now \/ c \in swapped

SeenInv == \A c \in Starts : Seen(c) /\ Runs(c)

Inv == TypeOK /\ StartsInv /\ RecordsInv /\ KnownInv /\ ReachInv /\ AttestInv /\ LaunchInv /\ SeenInv

(* Every step of the lifecycle keeps what is said of start requests. *)
LEMMA StartsKept ==
  ASSUME Inv, LifecycleNext, UNCHANGED attestationVars
  PROVE  StartsInv'
<1> USE DEF Inv, TypeOK, StartsInv, Claims, At, Server, Start, Process
<1>1. ASSUME NEW c \in Starts, NEW s \in Servers, RequestStart(c, s) PROVE StartsInv'
  BY <1>1, LifecycleAssumption DEF RequestStart, Reap, Running, Ended
<1>2. ASSUME NEW c \in Starts, Fingerprint(c) PROVE StartsInv'
  BY <1>2, LifecycleAssumption DEF Fingerprint, records
<1>3. ASSUME NEW c \in Starts, Attest(c) PROVE StartsInv'
  BY <1>3, LifecycleAssumption DEF Attest, Reap, Running, Ended
<1>4. ASSUME NEW c \in Starts, ClaimStart(c) PROVE StartsInv'
  <2>1. CASE Active(Server(c)) \/ ~start[c].ok
    BY SMTT(30), <1>4, <2>1, LifecycleAssumption DEF ClaimStart, Goto, Reap, Running, Ended
  <2>2. CASE ~Active(Server(c)) /\ start[c].ok
    <3>1. /\ At(c, "claim") /\ Server(c) \notin starting /\ stopping[Server(c)] = None
          /\ Running(Server(c)) = None
      BY <1>4, <2>2 DEF ClaimStart, Active
    <3>2. /\ start' = [start EXCEPT ![c].pc = "verify"]
          /\ starting' = starting \union {Server(c)}
          /\ running' = [running EXCEPT ![Server(c)] = None]
          /\ stopping' = stopping /\ alive' = alive
      BY <1>4, <2>2, <3>1 DEF ClaimStart, Goto, Reap
    <3>3. \A d \in Starts : Claims(d)' => Server(d)' \in starting'
      BY <3>1, <3>2
    <3>4. \A d, e \in Starts : (Claims(d) /\ Claims(e) /\ Server(d) = Server(e))' => d = e
      BY <3>1, <3>2
    <3> QED BY <2>2, <3>1, <3>2, <3>3, <3>4
  <2> QED BY <2>1, <2>2
<1>5. ASSUME NEW c \in Starts, Verify(c) PROVE StartsInv'
  BY <1>5, LifecycleAssumption DEF Verify, records
<1>6. ASSUME NEW c \in Starts, Reattest(c) PROVE StartsInv'
  <2>1. At(c, "reattest") /\ start[c].ok
    BY <1>6 DEF Reattest
  <2>2. CASE start' = [start EXCEPT ![c].pc = "launch"] /\ starting' = starting
    BY <1>6, <2>1, <2>2 DEF Reattest
  <2>3. CASE start' = [start EXCEPT ![c].pc = "done"] /\ starting' = starting \ {Server(c)}
    BY <1>6, <2>1, <2>3 DEF Reattest
  <2> QED BY <1>6, <2>2, <2>3 DEF Reattest, Goto
<1>7. ASSUME NEW c \in Starts, Launch(c) PROVE StartsInv'
  <2>1. At(c, "launch") /\ UNCHANGED <<records, stop, claimed, left>>
    BY <1>7 DEF Launch
  <2>2. CASE start' = [start EXCEPT ![c].pc = "grace"] /\ alive' = alive \union {c}
    BY <2>1, <2>2, LifecycleAssumption DEF records
  <2>3. CASE start' = [start EXCEPT ![c].pc = "record", ![c].ok = FALSE] /\ alive' = alive
    BY <2>1, <2>3, LifecycleAssumption DEF records
  <2> QED BY <1>7, <2>2, <2>3 DEF Launch, Goto
<1>8. ASSUME NEW c \in Starts, Grace(c) PROVE StartsInv'
  <2>1. At(c, "grace") /\ UNCHANGED <<records, alive, stop, claimed, left>>
    BY <1>8 DEF Grace
  <2>2. CASE Goto(c, "record")
    BY <2>1, <2>2 DEF Goto, records
  <2>3. CASE c \notin alive /\ start' = [start EXCEPT ![c].pc = "record", ![c].ok = FALSE]
    BY <2>1, <2>3 DEF records
  <2>4. CASE Goto(c, "cancel")
    BY <2>1, <2>4 DEF Goto, records
  <2> QED BY <1>8, <2>2, <2>3, <2>4 DEF Grace
<1>9. ASSUME NEW c \in Starts, CancelLaunch(c) PROVE StartsInv'
  BY <1>9, LifecycleAssumption DEF CancelLaunch, records
<1>10. ASSUME NEW c \in Starts, RecordStart(c) PROVE StartsInv'
  BY <1>10, LifecycleAssumption DEF RecordStart, Goto
<1>11. ASSUME NEW p \in Starts, ProcessEnds(p) PROVE StartsInv'
  BY <1>11, LifecycleAssumption DEF ProcessEnds, records
<1>12. ASSUME NEW k \in Stops, NEW todo \in SUBSET Servers, RequestStop(k, todo) PROVE StartsInv'
  BY <1>12, LifecycleAssumption DEF RequestStop, records
<1>13. ASSUME NEW k \in Stops, ClaimStop(k) PROVE StartsInv'
  BY <1>13, LifecycleAssumption DEF ClaimStop, Running, Ended
<1>14. ASSUME NEW k \in Stops, EndStop(k) PROVE StartsInv'
  BY <1>14, LifecycleAssumption DEF EndStop, records
<1>15. ASSUME NEW k \in Stops, Signal(k) PROVE StartsInv'
  BY <1>15, LifecycleAssumption DEF Signal, records
<1>16. ASSUME NEW k \in Stops, Forget(k) PROVE StartsInv'
  BY <1>16, LifecycleAssumption DEF Forget, Target
<1>17. ASSUME NEW k \in Stops, Restore(k) PROVE StartsInv'
  BY <1>17, LifecycleAssumption DEF Restore, Target
<1>18. ASSUME NEW s \in Servers, List(s) PROVE StartsInv'
  BY <1>18, LifecycleAssumption DEF List, Reap, Running, Ended
<1> HIDE DEF Inv, TypeOK, StartsInv, Claims, At, Server, Start, Process
<1> QED
  BY <1>1, <1>2, <1>3, <1>4, <1>5, <1>6, <1>7, <1>8, <1>9,
     <1>10, <1>11, <1>12, <1>13, <1>14, <1>15, <1>16, <1>17, <1>18
  DEF LifecycleNext, StartStep, StopStep, RequestStopAll

(* And what is said of the processes on record. *)
LEMMA RecordsKept ==
  ASSUME Inv, LifecycleNext, UNCHANGED attestationVars
  PROVE  RecordsInv'
<1> USE DEF Inv, TypeOK, RecordsInv, StartsInv, Claims, Handles, StopAt, Target, At, Server, Start, Stop, Process
<1>1. ASSUME NEW c \in Starts, NEW s \in Servers, RequestStart(c, s) PROVE RecordsInv'
  BY <1>1, LifecycleAssumption DEF RequestStart, Reap, Running, Ended
<1>2. ASSUME NEW c \in Starts, Fingerprint(c) PROVE RecordsInv'
  BY <1>2, LifecycleAssumption DEF Fingerprint, records
<1>3. ASSUME NEW c \in Starts, Attest(c) PROVE RecordsInv'
  BY <1>3, LifecycleAssumption DEF Attest, Reap, Running, Ended
<1>4. ASSUME NEW c \in Starts, ClaimStart(c) PROVE RecordsInv'
  <2>1. /\ At(c, "claim") /\ UNCHANGED <<stopping, alive, stop>>
        /\ running' = [running EXCEPT ![Server(c)] = Running(Server(c))]
    BY <1>4 DEF ClaimStart, Reap
  <2>2. PICK pc \in {"done", "verify"} : start' = [start EXCEPT ![c].pc = pc]
    BY <1>4 DEF ClaimStart, Goto
  <2> QED BY <2>1, <2>2, LifecycleAssumption DEF Running, Ended
<1>5. ASSUME NEW c \in Starts, Verify(c) PROVE RecordsInv'
  BY <1>5, LifecycleAssumption DEF Verify, records
<1>6. ASSUME NEW c \in Starts, Reattest(c) PROVE RecordsInv'
  <2>1. At(c, "reattest") /\ UNCHANGED <<running, stopping, alive, stop, left>>
    BY <1>6 DEF Reattest
  <2>2. PICK pc \in {"launch", "done"} : start' = [start EXCEPT ![c].pc = pc]
    BY <1>6 DEF Reattest, Goto
  <2> QED BY <2>1, <2>2, LifecycleAssumption
<1>7. ASSUME NEW c \in Starts, Launch(c) PROVE RecordsInv'
  <2>1. At(c, "launch") /\ UNCHANGED <<records, stop, claimed, left>>
    BY <1>7 DEF Launch
  <2>2. CASE start' = [start EXCEPT ![c].pc = "grace"] /\ alive' = alive \union {c}
    BY <2>1, <2>2, LifecycleAssumption DEF records
  <2>3. CASE start' = [start EXCEPT ![c].pc = "record", ![c].ok = FALSE] /\ alive' = alive
    BY <2>1, <2>3, LifecycleAssumption DEF records
  <2> QED BY <1>7, <2>2, <2>3 DEF Launch, Goto
<1>8. ASSUME NEW c \in Starts, Grace(c) PROVE RecordsInv'
  <2>1. At(c, "grace") /\ UNCHANGED <<records, alive, stop, claimed, left>>
    BY <1>8 DEF Grace
  <2>2. CASE Goto(c, "record")
    BY <2>1, <2>2 DEF Goto, records
  <2>3. CASE c \notin alive /\ start' = [start EXCEPT ![c].pc = "record", ![c].ok = FALSE]
    BY <2>1, <2>3 DEF records
  <2>4. CASE Goto(c, "cancel")
    BY <2>1, <2>4 DEF Goto, records
  <2> QED BY <1>8, <2>2, <2>3, <2>4 DEF Grace
<1>9. ASSUME NEW c \in Starts, CancelLaunch(c) PROVE RecordsInv'
  BY <1>9, LifecycleAssumption DEF CancelLaunch, records
<1>10. ASSUME NEW c \in Starts, RecordStart(c) PROVE RecordsInv'
  BY <1>10, LifecycleAssumption DEF RecordStart, Goto
<1>11. ASSUME NEW p \in Starts, ProcessEnds(p) PROVE RecordsInv'
  BY <1>11, LifecycleAssumption DEF ProcessEnds, records
<1>12. ASSUME NEW k \in Stops, NEW todo \in SUBSET Servers, RequestStop(k, todo) PROVE RecordsInv'
  BY <1>12, LifecycleAssumption DEF RequestStop, records
<1>13. ASSUME NEW k \in Stops, ClaimStop(k) PROVE RecordsInv'
  <2>1. PICK s \in stop[k].todo :
          \/ /\ stopping[s] = None /\ s \notin starting /\ Running(s) # None
             /\ running' = [running EXCEPT ![s] = None]
             /\ stopping' = [stopping EXCEPT ![s] = running[s]]
             /\ stop' = [stop EXCEPT ![k].pc = "signal", ![k].server = s, ![k].todo = @ \ {s}]
          \/ /\ running' = [running EXCEPT ![s] = Running(s)]
             /\ stop' = [stop EXCEPT ![k].todo = @ \ {s}]
             /\ UNCHANGED stopping
    BY <1>13 DEF ClaimStop
  <2>2. s \in Servers /\ StopAt(k, "claim") /\ UNCHANGED <<alive, start>>
    BY <1>13 DEF ClaimStop
  <2>3. CASE /\ stopping[s] = None /\ Running(s) # None
             /\ running' = [running EXCEPT ![s] = None]
             /\ stopping' = [stopping EXCEPT ![s] = running[s]]
             /\ stop' = [stop EXCEPT ![k].pc = "signal", ![k].server = s, ![k].todo = @ \ {s}]
    <3>1. running[s] # None
      BY <2>2, <2>3 DEF Running
    <3>2. \A l \in Stops : Handles(l)' =>
            \/ l = k /\ Target(l)' = s
            \/ Handles(l) /\ stop'[l] = stop[l] /\ Target(l) # s
      BY <2>2, <2>3
    <3>3. \A l \in Stops : StopAt(l, "forget")' => StopAt(l, "forget") /\ Target(l) # s /\ stop'[l] = stop[l]
      BY <2>2, <2>3
    <3> QED BY <2>2, <2>3, <3>1, <3>2, <3>3
  <2>4. CASE /\ running' = [running EXCEPT ![s] = Running(s)]
             /\ stop' = [stop EXCEPT ![k].todo = @ \ {s}]
             /\ UNCHANGED stopping
    BY <2>2, <2>4 DEF Running, Ended
  <2> QED BY <2>1, <2>3, <2>4
<1>14. ASSUME NEW k \in Stops, EndStop(k) PROVE RecordsInv'
  BY <1>14, LifecycleAssumption DEF EndStop, records
<1>15. ASSUME NEW k \in Stops, Signal(k) PROVE RecordsInv'
  BY <1>15, LifecycleAssumption DEF Signal, records
<1>16. ASSUME NEW k \in Stops, Forget(k) PROVE RecordsInv'
  BY <1>16, LifecycleAssumption DEF Forget, Target
<1>17. ASSUME NEW k \in Stops, Restore(k) PROVE RecordsInv'
  BY <1>17, LifecycleAssumption DEF Restore, Target
<1>18. ASSUME NEW s \in Servers, List(s) PROVE RecordsInv'
  BY <1>18, LifecycleAssumption DEF List, Reap, Running, Ended
<1> HIDE DEF Inv, TypeOK, RecordsInv, StartsInv, Claims, Handles, StopAt, Target, At, Server, Start, Stop, Process
<1> QED
  BY <1>1, <1>2, <1>3, <1>4, <1>5, <1>6, <1>7, <1>8, <1>9,
     <1>10, <1>11, <1>12, <1>13, <1>14, <1>15, <1>16, <1>17, <1>18
  DEF LifecycleNext, StartStep, StopStep, RequestStopAll

(* And what is said of living processes. *)
LEMMA KnownKept ==
  ASSUME Inv, LifecycleNext, UNCHANGED attestationVars
  PROVE  KnownInv'
<1> USE DEF Inv, TypeOK, KnownInv, RecordsInv, StartsInv, Claims, Handles, StopAt, Target, At, Server, Start, Stop, Process
<1>1. ASSUME NEW c \in Starts, NEW s \in Servers, RequestStart(c, s) PROVE KnownInv'
  BY <1>1, LifecycleAssumption DEF RequestStart, Reap, Running, Ended
<1>2. ASSUME NEW c \in Starts, Fingerprint(c) PROVE KnownInv'
  BY <1>2, LifecycleAssumption DEF Fingerprint, records
<1>3. ASSUME NEW c \in Starts, Attest(c) PROVE KnownInv'
  BY <1>3, LifecycleAssumption DEF Attest, Reap, Running, Ended
<1>4. ASSUME NEW c \in Starts, ClaimStart(c) PROVE KnownInv'
  BY <1>4, LifecycleAssumption DEF ClaimStart, Goto, Reap, Active, Running, Ended
<1>5. ASSUME NEW c \in Starts, Verify(c) PROVE KnownInv'
  BY <1>5, LifecycleAssumption DEF Verify, records
<1>6. ASSUME NEW c \in Starts, Reattest(c) PROVE KnownInv'
  <2>1. At(c, "reattest") /\ UNCHANGED <<running, stopping, alive, stop, left>>
    BY <1>6 DEF Reattest
  <2>2. PICK pc \in {"launch", "done"} : start' = [start EXCEPT ![c].pc = pc]
    BY <1>6 DEF Reattest, Goto
  <2> QED BY <2>1, <2>2, LifecycleAssumption
<1>7. ASSUME NEW c \in Starts, Launch(c) PROVE KnownInv'
  <2>1. At(c, "launch") /\ UNCHANGED <<records, stop, claimed, left>>
    BY <1>7 DEF Launch
  <2>2. CASE start' = [start EXCEPT ![c].pc = "grace"] /\ alive' = alive \union {c}
    BY <2>1, <2>2, LifecycleAssumption DEF records
  <2>3. CASE start' = [start EXCEPT ![c].pc = "record", ![c].ok = FALSE] /\ alive' = alive
    BY <2>1, <2>3, LifecycleAssumption DEF records
  <2> QED BY <1>7, <2>2, <2>3 DEF Launch, Goto
<1>8. ASSUME NEW c \in Starts, Grace(c) PROVE KnownInv'
  <2>1. At(c, "grace") /\ UNCHANGED <<records, alive, stop, claimed, left>>
    BY <1>8 DEF Grace
  <2>2. CASE Goto(c, "record")
    BY <2>1, <2>2 DEF Goto, records
  <2>3. CASE c \notin alive /\ start' = [start EXCEPT ![c].pc = "record", ![c].ok = FALSE]
    BY <2>1, <2>3 DEF records
  <2>4. CASE Goto(c, "cancel")
    BY <2>1, <2>4 DEF Goto, records
  <2> QED BY <1>8, <2>2, <2>3, <2>4 DEF Grace
<1>9. ASSUME NEW c \in Starts, CancelLaunch(c) PROVE KnownInv'
  BY <1>9, LifecycleAssumption DEF CancelLaunch, records
<1>10. ASSUME NEW c \in Starts, RecordStart(c) PROVE KnownInv'
  BY <1>10, LifecycleAssumption DEF RecordStart, Goto
<1>11. ASSUME NEW p \in Starts, ProcessEnds(p) PROVE KnownInv'
  BY <1>11, LifecycleAssumption DEF ProcessEnds, records
<1>12. ASSUME NEW k \in Stops, NEW todo \in SUBSET Servers, RequestStop(k, todo) PROVE KnownInv'
  BY <1>12, LifecycleAssumption DEF RequestStop, records
<1>13. ASSUME NEW k \in Stops, ClaimStop(k) PROVE KnownInv'
  BY <1>13, LifecycleAssumption DEF ClaimStop, Running, Ended
<1>14. ASSUME NEW k \in Stops, EndStop(k) PROVE KnownInv'
  BY <1>14, LifecycleAssumption DEF EndStop, records
<1>15. ASSUME NEW k \in Stops, Signal(k) PROVE KnownInv'
  BY <1>15, LifecycleAssumption DEF Signal, records
<1>16. ASSUME NEW k \in Stops, Forget(k) PROVE KnownInv'
  BY <1>16, LifecycleAssumption DEF Forget, Target
<1>17. ASSUME NEW k \in Stops, Restore(k) PROVE KnownInv'
  BY <1>17, LifecycleAssumption DEF Restore, Target
<1>18. ASSUME NEW s \in Servers, List(s) PROVE KnownInv'
  BY <1>18, LifecycleAssumption DEF List, Reap, Running, Ended
<1> HIDE DEF Inv, TypeOK, KnownInv, RecordsInv, StartsInv, Claims, Handles, StopAt, Target, At, Server, Start, Stop, Process
<1> QED
  BY <1>1, <1>2, <1>3, <1>4, <1>5, <1>6, <1>7, <1>8, <1>9,
     <1>10, <1>11, <1>12, <1>13, <1>14, <1>15, <1>16, <1>17, <1>18
  DEF LifecycleNext, StartStep, StopStep, RequestStopAll

(* And what is said of the reach of stop requests. *)
LEMMA ReachKept ==
  ASSUME Inv, LifecycleNext, UNCHANGED attestationVars
  PROVE  ReachInv'
<1> USE DEF Inv, TypeOK, ReachInv, RecordsInv, StartsInv, Claims, StopAt, Target, At, Server, Start, Stop, Process
<1>1. ASSUME NEW c \in Starts, NEW s \in Servers, RequestStart(c, s) PROVE ReachInv'
  BY <1>1, LifecycleAssumption DEF RequestStart, Reap, Running, Ended
<1>2. ASSUME NEW c \in Starts, Fingerprint(c) PROVE ReachInv'
  BY <1>2, LifecycleAssumption DEF Fingerprint, records
<1>3. ASSUME NEW c \in Starts, Attest(c) PROVE ReachInv'
  BY <1>3, LifecycleAssumption DEF Attest, Reap, Running, Ended
<1>4. ASSUME NEW c \in Starts, ClaimStart(c) PROVE ReachInv'
  BY <1>4, LifecycleAssumption DEF ClaimStart, Goto, Reap, Active, Running, Ended
<1>5. ASSUME NEW c \in Starts, Verify(c) PROVE ReachInv'
  BY <1>5, LifecycleAssumption DEF Verify, records
<1>6. ASSUME NEW c \in Starts, Reattest(c) PROVE ReachInv'
  <2>1. At(c, "reattest") /\ UNCHANGED <<running, alive, stop, claimed>>
    BY <1>6 DEF Reattest
  <2>2. PICK pc \in {"launch", "done"} : start' = [start EXCEPT ![c].pc = pc]
    BY <1>6 DEF Reattest, Goto
  <2> QED BY <2>1, <2>2
<1>7. ASSUME NEW c \in Starts, Launch(c) PROVE ReachInv'
  <2>1. At(c, "launch") /\ UNCHANGED <<records, stop, claimed, left>>
    BY <1>7 DEF Launch
  <2>2. CASE start' = [start EXCEPT ![c].pc = "grace"] /\ alive' = alive \union {c}
    BY <2>1, <2>2, LifecycleAssumption DEF records
  <2>3. CASE start' = [start EXCEPT ![c].pc = "record", ![c].ok = FALSE] /\ alive' = alive
    BY <2>1, <2>3, LifecycleAssumption DEF records
  <2> QED BY <1>7, <2>2, <2>3 DEF Launch, Goto
<1>8. ASSUME NEW c \in Starts, Grace(c) PROVE ReachInv'
  <2>1. At(c, "grace") /\ UNCHANGED <<records, alive, stop, claimed, left>>
    BY <1>8 DEF Grace
  <2>2. CASE Goto(c, "record")
    BY <2>1, <2>2 DEF Goto, records
  <2>3. CASE c \notin alive /\ start' = [start EXCEPT ![c].pc = "record", ![c].ok = FALSE]
    BY <2>1, <2>3 DEF records
  <2>4. CASE Goto(c, "cancel")
    BY <2>1, <2>4 DEF Goto, records
  <2> QED BY <1>8, <2>2, <2>3, <2>4 DEF Grace
<1>9. ASSUME NEW c \in Starts, CancelLaunch(c) PROVE ReachInv'
  BY <1>9, LifecycleAssumption DEF CancelLaunch, records
<1>10. ASSUME NEW c \in Starts, RecordStart(c) PROVE ReachInv'
  BY <1>10, LifecycleAssumption DEF RecordStart, Goto
<1>11. ASSUME NEW p \in Starts, ProcessEnds(p) PROVE ReachInv'
  BY <1>11, LifecycleAssumption DEF ProcessEnds, records
<1>12. ASSUME NEW k \in Stops, NEW todo \in SUBSET Servers, RequestStop(k, todo) PROVE ReachInv'
  BY <1>12, LifecycleAssumption DEF RequestStop, records
<1>13. ASSUME NEW k \in Stops, ClaimStop(k) PROVE ReachInv'
  BY SMTT(30), <1>13, LifecycleAssumption DEF ClaimStop, Running, Ended
<1>14. ASSUME NEW k \in Stops, EndStop(k) PROVE ReachInv'
  BY <1>14, LifecycleAssumption DEF EndStop, records
<1>15. ASSUME NEW k \in Stops, Signal(k) PROVE ReachInv'
  BY <1>15, LifecycleAssumption DEF Signal, records
<1>16. ASSUME NEW k \in Stops, Forget(k) PROVE ReachInv'
  BY <1>16, LifecycleAssumption DEF Forget, Target
<1>17. ASSUME NEW k \in Stops, Restore(k) PROVE ReachInv'
  BY <1>17, LifecycleAssumption DEF Restore, Target
<1>18. ASSUME NEW s \in Servers, List(s) PROVE ReachInv'
  BY <1>18, LifecycleAssumption DEF List, Reap, Running, Ended
<1> HIDE DEF Inv, TypeOK, ReachInv, RecordsInv, StartsInv, Claims, StopAt, Target, At, Server, Start, Stop, Process
<1> QED
  BY <1>1, <1>2, <1>3, <1>4, <1>5, <1>6, <1>7, <1>8, <1>9,
     <1>10, <1>11, <1>12, <1>13, <1>14, <1>15, <1>16, <1>17, <1>18
  DEF LifecycleNext, StartStep, StopStep, RequestStopAll

(* And what is said of launches. *)
LEMMA LaunchKept ==
  ASSUME Inv, LifecycleNext, UNCHANGED attestationVars
  PROVE  LaunchInv'
<1> USE DEF Inv, TypeOK, LaunchInv, StartsInv, Claims, At, Server, Start, Process
<1>0. ASSUME NEW c \in Starts, start'[c].shown = start[c].shown,
             start'[c].now = start[c].now, start'[c].server = start[c].server
      PROVE  Approved(c) => Approved(c)'
  BY <1>0 DEF Approved, Vouches, attestationVars
<1>1. ASSUME NEW c \in Starts, NEW s \in Servers, RequestStart(c, s) PROVE LaunchInv'
  BY <1>1, <1>0, LifecycleAssumption DEF RequestStart, Reap, Running, Ended
<1>2. ASSUME NEW c \in Starts, Fingerprint(c) PROVE LaunchInv'
  BY <1>2, <1>0, LifecycleAssumption DEF Fingerprint, records
<1>3. ASSUME NEW c \in Starts, Attest(c) PROVE LaunchInv'
  BY <1>3, <1>0, LifecycleAssumption DEF Attest, Reap, Running, Ended
<1>4. ASSUME NEW c \in Starts, ClaimStart(c) PROVE LaunchInv'
  BY <1>4, <1>0, LifecycleAssumption DEF ClaimStart, Goto, Reap, Active, Running, Ended
<1>5. ASSUME NEW c \in Starts, Verify(c) PROVE LaunchInv'
  BY <1>5, <1>0, LifecycleAssumption DEF Verify, records
<1>6. ASSUME NEW c \in Starts, Reattest(c) PROVE LaunchInv'
  <2>1. At(c, "reattest") /\ alive' = alive
    BY <1>6 DEF Reattest
  <2>2. CASE start' = [start EXCEPT ![c].pc = "done"]
    BY <1>0, <2>1, <2>2
  <2>3. CASE /\ start' = [start EXCEPT ![c].pc = "launch"]
             /\ start[c].now = start[c].shown /\ Verdict(Server(c), start[c].now) = "approved"
    <3>1. Approved(c)
      BY <2>3 DEF Approved, Verdict, AttestInv, Vouches, AttestationsTypeOK, File, Approval
    <3> QED BY <1>0, <2>1, <2>3, <3>1
  <2> QED BY <1>6, <2>2, <2>3 DEF Reattest, Goto
<1>7. ASSUME NEW c \in Starts, Launch(c) PROVE LaunchInv'
  BY <1>7, <1>0, LifecycleAssumption DEF Launch, Goto, records
<1>8. ASSUME NEW c \in Starts, Grace(c) PROVE LaunchInv'
  BY <1>8, <1>0, LifecycleAssumption DEF Grace, Goto, records
<1>9. ASSUME NEW c \in Starts, CancelLaunch(c) PROVE LaunchInv'
  BY <1>9, <1>0, LifecycleAssumption DEF CancelLaunch, records
<1>10. ASSUME NEW c \in Starts, RecordStart(c) PROVE LaunchInv'
  BY <1>10, <1>0, LifecycleAssumption DEF RecordStart, Goto
<1>11. ASSUME NEW p \in Starts, ProcessEnds(p) PROVE LaunchInv'
  BY <1>11, <1>0, LifecycleAssumption DEF ProcessEnds, records
<1>12. ASSUME NEW k \in Stops, NEW todo \in SUBSET Servers, RequestStop(k, todo) PROVE LaunchInv'
  BY <1>12, <1>0, LifecycleAssumption DEF RequestStop, records
<1>13. ASSUME NEW k \in Stops, ClaimStop(k) PROVE LaunchInv'
  BY <1>13, <1>0, LifecycleAssumption DEF ClaimStop, Running, Ended
<1>14. ASSUME NEW k \in Stops, EndStop(k) PROVE LaunchInv'
  BY <1>14, <1>0, LifecycleAssumption DEF EndStop, records
<1>15. ASSUME NEW k \in Stops, Signal(k) PROVE LaunchInv'
  BY <1>15, <1>0, LifecycleAssumption DEF Signal, records
<1>16. ASSUME NEW k \in Stops, Forget(k) PROVE LaunchInv'
  BY <1>16, <1>0, LifecycleAssumption DEF Forget, Target
<1>17. ASSUME NEW k \in Stops, Restore(k) PROVE LaunchInv'
  BY <1>17, <1>0, LifecycleAssumption DEF Restore, Target
<1>18. ASSUME NEW s \in Servers, List(s) PROVE LaunchInv'
  BY <1>18, <1>0, LifecycleAssumption DEF List, Reap, Running, Ended
<1> HIDE DEF Inv, TypeOK, LaunchInv, StartsInv, Claims, At, Server, Start, Process
<1> QED
  BY <1>1, <1>2, <1>3, <1>4, <1>5, <1>6, <1>7, <1>8, <1>9,
     <1>10, <1>11, <1>12, <1>13, <1>14, <1>15, <1>16, <1>17, <1>18
  DEF LifecycleNext, StartStep, StopStep, RequestStopAll

(* A step in which nothing is launched, looked at or installed.            *)
LEMMA SeenStays ==
  ASSUME SeenInv, alive' \subseteq alive, UNCHANGED <<executed, swapped, binary>>,
         \A c \in Starts :
           /\ c \in alive => start'[c].now = start[c].now
           /\ start'[c].pc \in {"reattest", "launch"} =>
                /\ start[c].pc \in {"reattest", "launch"}
                /\ start'[c].now = start[c].now /\ start'[c].server = start[c].server
  PROVE  SeenInv'
BY DEF SeenInv, Seen, Runs, Server

(* And what is said of the executables that are launched. *)
LEMMA SeenKept ==
  ASSUME Inv, LifecycleNext, UNCHANGED attestationVars
  PROVE  SeenInv'
<1> USE DEF At, Goto
<1>t. /\ start \in [Starts -> Start] /\ SeenInv /\ UNCHANGED binary
      /\ \A p \in alive : start[p].pc \in {"grace", "cancel", "record", "done"}
      /\ alive \subseteq Starts /\ executed \in [Starts -> Fingerprints]
  BY DEF Inv, TypeOK, StartsInv, attestationVars
<1>u. ASSUME UNCHANGED <<start, launches>>, alive' \subseteq alive PROVE SeenInv'
  BY <1>t, <1>u, SeenStays DEF launches
<1>1. ASSUME NEW c \in Starts, NEW s \in Servers, RequestStart(c, s) PROVE SeenInv'
  <2>1. PICK pc \in {"done", "fingerprint"} : start' = [start EXCEPT ![c].server = s, ![c].pc = pc]
    BY <1>1 DEF RequestStart
  <2>2. UNCHANGED <<alive, executed, swapped>> /\ At(c, "idle")
    BY <1>1 DEF RequestStart, launches
  <2>3. start'[c].pc = pc /\ \A d \in Starts \ {c} : start'[d] = start[d]
    BY <1>t, <2>1 DEF Start
  <2> QED BY <1>t, <2>2, <2>3, SeenStays
<1>2. ASSUME NEW c \in Starts, Fingerprint(c) \/ Attest(c) PROVE SeenInv'
  <2>1. UNCHANGED <<alive, executed, swapped>> /\ start[c].pc \in {"fingerprint", "attest"}
    BY <1>2 DEF Fingerprint, Attest, launches
  <2>2. start'[c].pc \in {"attest", "claim"} /\ \A d \in Starts \ {c} : start'[d] = start[d]
    BY <1>t, <1>2 DEF Fingerprint, Attest, Start
  <2> QED BY <1>t, <2>1, <2>2, SeenStays
<1>3. ASSUME NEW c \in Starts,
             ClaimStart(c) \/ Reattest(c) \/ Grace(c) \/ CancelLaunch(c) \/ RecordStart(c)
      PROVE  SeenInv'
  <2>1. UNCHANGED <<alive, executed, swapped>>
    BY <1>3 DEF ClaimStart, Reattest, Grace, CancelLaunch, RecordStart, launches
  <2>2. /\ \A d \in Starts \ {c} : start'[d] = start[d]
        /\ start'[c].now = start[c].now /\ start'[c].server = start[c].server
        /\ start'[c].pc \in {"reattest", "launch"} => start[c].pc = "reattest"
    BY <1>t, <1>3 DEF ClaimStart, Reattest, Grace, CancelLaunch, RecordStart, Start
  <2> QED BY <1>t, <2>1, <2>2, SeenStays
<1>4. ASSUME NEW c \in Starts, Verify(c) PROVE SeenInv'
  <2>1. UNCHANGED <<alive, executed, swapped>> /\ At(c, "verify")
    BY <1>4 DEF Verify, launches
  <2>2. /\ start'[c].now = binary[Server(c)] /\ Server(c)' = Server(c)
        /\ \A d \in Starts \ {c} : start'[d] = start[d]
    BY <1>t, <1>4 DEF Verify, Server, Start
  <2>3. Seen(c)' /\ Runs(c)'
    BY <1>t, <2>1, <2>2 DEF Seen, Runs
  <2>4. ASSUME NEW d \in Starts \ {c} PROVE Seen(d)' /\ Runs(d)'
    BY <1>t, <2>1, <2>2, <2>4 DEF SeenInv, Seen, Runs, Server
  <2> QED BY <2>3, <2>4 DEF SeenInv
<1>5. ASSUME NEW c \in Starts, Launch(c) PROVE SeenInv'
  <2>1. UNCHANGED swapped /\ At(c, "launch") /\ Seen(c)
    BY <1>t, <1>5 DEF Launch, SeenInv
  <2>2. /\ start'[c].pc \in {"grace", "record"} /\ start'[c].now = start[c].now
        /\ \A d \in Starts \ {c} : start'[d] = start[d]
    BY <1>t, <1>5 DEF Launch, Start
  <2>3. /\ \A d \in Starts \ {c} : executed'[d] = executed[d] /\ (d \in alive' <=> d \in alive)
        /\ c \in alive' => c \in alive \/ executed'[c] = binary[Server(c)]
    BY <1>t, <1>5 DEF Launch
  <2>4. Seen(c)' /\ Runs(c)'
    BY <1>t, <2>1, <2>2, <2>3 DEF Seen, Runs
  <2>5. ASSUME NEW d \in Starts \ {c} PROVE Seen(d)' /\ Runs(d)'
    BY <1>t, <2>1, <2>2, <2>3, <2>5 DEF SeenInv, Seen, Runs, Server
  <2> QED BY <2>4, <2>5 DEF SeenInv
<1>6. ASSUME NEW p \in Starts, ProcessEnds(p) PROVE SeenInv'
  BY <1>6, <1>u DEF ProcessEnds
<1>7. ASSUME NEW k \in Stops, StopStep(k) PROVE SeenInv'
  BY <1>7, <1>u DEF StopStep, ClaimStop, EndStop, Signal, Forget, Restore
<1>8. ASSUME NEW k \in Stops, NEW todo, RequestStop(k, todo) PROVE SeenInv'
  BY <1>8, <1>u DEF RequestStop
<1>9. ASSUME NEW s \in Servers, List(s) PROVE SeenInv'
  BY <1>9, <1>u DEF List
<1> QED
  BY <1>1, <1>2, <1>3, <1>4, <1>5, <1>6, <1>7, <1>8, <1>9
  DEF LifecycleNext, StartStep, RequestStopAll

(* An installation between the look and the launch of a start, which       *)
(* notices nothing, is remembered in swapped.                              *)
LEMMA SeenMeanwhile ==
  ASSUME Inv, Meanwhile
  PROVE  SeenInv'
<1> SUFFICES ASSUME NEW c \in Starts PROVE Seen(c)' /\ Runs(c)'
  BY DEF SeenInv
<1>1. /\ start' = start /\ alive' = alive /\ executed' = executed /\ swapped \subseteq swapped'
      /\ start[c].pc \in {"reattest", "launch"} /\ binary'[Server(c)] # binary[Server(c)] =>
           c \in swapped'
  BY DEF Meanwhile
<1>2. Seen(c) /\ Runs(c)
  BY DEF Inv, SeenInv
<1> QED BY <1>1, <1>2 DEF Seen, Runs, Server

(* An approval or an installation keeps what the file is said to hold.     *)
LEMMA AttestKept ==
  ASSUME AttestationsTypeOK, AttestInv, AttestationsNext
  PROVE  /\ AttestInv'
         /\ \A a \in Approvals, s \in Servers :
              Vouches(a, s) => Vouches(a, s)' /\ approval'[a].expected = approval[a].expected
<1> DEFINE Lasting == \A a \in Approvals, s \in Servers :
              Vouches(a, s) => Vouches(a, s)' /\ approval'[a].expected = approval[a].expected
<1> USE AttestationAssumption DEF AttestationsTypeOK, AttestInv, Vouches, Approval, File
<1>t. /\ \A s \in Servers : attested[s] \in Approvals \union {None}
      /\ \A b \in Approvals, s \in Servers : approval[b].file[s] \in Approvals \union {None}
  OBVIOUS
<1>1. ASSUME NEW a \in Approvals, NEW s \in Servers, Show(a, s) PROVE AttestInv' /\ Lasting
  BY SMTT(30), <1>1 DEF Show
<1>r. ASSUME NEW a \in Approvals, Refuse(a), approval[a].pc # "saved" PROVE AttestInv' /\ Lasting
  BY <1>r DEF Refuse
<1>2. ASSUME NEW a \in Approvals, Load(a) PROVE AttestInv' /\ Lasting
  <2>1. CASE Refuse(a)
    BY <1>2, <1>r, <2>1 DEF Load
  <2>2. CASE ~Refuse(a)
    <3>1. approval[a].pc = "shown" /\ attested' = attested
      BY <1>2, <2>2 DEF Load
    <3>2. approval' = [approval EXCEPT ![a].pc = "loaded", ![a].file = attested]
      BY <1>2, <2>2 DEF Load
    <3>3. Lasting
      BY <3>1, <3>2
    <3>5. ASSUME NEW b \in Approvals, b # a PROVE approval'[b] = approval[b]
      BY <3>2, <3>5
    <3>6. approval'[a].file = attested /\ approval'[a].pc = "loaded"
      BY <3>2
    <3>7. ASSUME NEW b \in Approvals, NEW s \in Servers, NEW e \in Approvals,
                 approval'[b].pc \in {"loaded", "checked"}, approval'[b].file[s] = e
          PROVE  \/ Vouches(e, s)'
                 \/ approval'[b].pc = "checked" /\ approval'[b].server = s /\ e = b
      <4>1. CASE b = a
        <5>1. Vouches(e, s)
          BY <3>6, <3>7, <4>1
        <5> QED BY <3>3, <5>1
      <4>2. CASE b # a
        <5>1. Vouches(e, s) \/ (approval[b].pc = "checked" /\ approval[b].server = s /\ e = b)
          <6>1. e # None /\ approval[b].pc \in {"loaded", "checked"} /\ approval[b].file[s] = e
            BY <3>5, <3>7, <4>2
          <6> HIDE DEF File, Approval
          <6> QED BY <6>1
        <5> QED BY <3>3, <3>5, <4>2, <5>1
      <4> QED BY <4>1, <4>2
    <3>8. \A b \in Approvals, s \in Servers : approval'[b].file[s] \in Approvals \union {None}
      BY <1>t, <3>5, <3>6
    <3>9. AttestInv'
      <4> HIDE DEF File, Approval
      <4> QED BY <3>1, <3>3, <3>7, <3>8, <1>t
    <3> QED BY <3>3, <3>9
  <2> QED BY <2>1, <2>2
<1>3. ASSUME NEW a \in Approvals, Compare(a) PROVE AttestInv' /\ Lasting
  <2>1. CASE Refuse(a)
    BY <1>3, <1>r, <2>1 DEF Compare
  <2>2. CASE ~Refuse(a)
    BY <1>3, <2>2 DEF Compare
  <2> QED BY <2>1, <2>2
<1>4. ASSUME NEW a \in Approvals, Persist(a) PROVE AttestInv' /\ Lasting
  <2>1. CASE Refuse(a)
    BY <1>4, <1>r, <2>1 DEF Persist
  <2>2. CASE ~Refuse(a)
    <3>1. approval[a].pc = "checked" /\ attested' = approval[a].file
      BY <1>4, <2>2 DEF Persist
    <3>2. approval' = [approval EXCEPT ![a].pc = "saved"]
      BY <1>4, <2>2 DEF Persist
    <3>3. Lasting
      BY <3>1, <3>2
    <3>4. ASSUME NEW s \in Servers, NEW e \in Approvals, approval[a].file[s] = e
          PROVE  Vouches(e, s)'
      <4>1. CASE approval[a].server = s /\ e = a
        BY <3>2, <4>1
      <4>2. CASE Vouches(e, s)
        BY <3>3, <4>2
      <4> QED BY <3>1, <3>4, <4>1, <4>2
    <3>5. ASSUME NEW b \in Approvals
          PROVE  /\ approval'[b].file = approval[b].file /\ approval'[b].server = approval[b].server
                 /\ approval'[b].pc \in {"loaded", "checked"} => b # a /\ approval'[b].pc = approval[b].pc
      BY <3>2
    <3>6. ASSUME NEW b \in Approvals, NEW s \in Servers, NEW e \in Approvals,
                 approval'[b].pc \in {"loaded", "checked"}, approval'[b].file[s] = e
          PROVE  \/ Vouches(e, s)'
                 \/ approval'[b].pc = "checked" /\ approval'[b].server = s /\ e = b
      <4>1. Vouches(e, s) \/ (approval[b].pc = "checked" /\ approval[b].server = s /\ e = b)
        <5>1. e # None /\ approval[b].pc \in {"loaded", "checked"} /\ approval[b].file[s] = e
          BY <3>5, <3>6
        <5> HIDE DEF File, Approval
        <5> QED BY <5>1
      <4> QED BY <3>3, <3>5, <3>6, <4>1
    <3>7. AttestInv'
      <4> HIDE DEF File, Approval
      <4> QED BY <1>t, <3>1, <3>4, <3>5, <3>6
    <3> QED BY <3>3, <3>7
  <2> QED BY <2>1, <2>2
<1>5. ASSUME NEW s \in Servers, Install(s) PROVE AttestInv' /\ Lasting
  BY <1>5 DEF Install
<1> HIDE DEF Lasting
<1>6. AttestInv' /\ Lasting
  BY <1>1, <1>2, <1>3, <1>4, <1>5 DEF AttestationsNext
<1> QED BY <1>6 DEF Lasting

-----------------------------------------------------------------------------
LEMMA InitInv == Init => Inv
<1> SUFFICES ASSUME Init PROVE Inv
  OBVIOUS
<1>1. TypeOK
  BY InitTyped
<1>2. StartsInv /\ RecordsInv /\ KnownInv /\ ReachInv /\ LaunchInv /\ SeenInv
  BY DEF Init, StartsInv, RecordsInv, KnownInv, ReachInv, LaunchInv, SeenInv, Seen, Runs,
         Claims, Handles, At, StopAt, Target, Server
<1>3. AttestInv
  BY DEF Init, AttestationsInit, AttestInv
<1> QED BY <1>1, <1>2, <1>3 DEF Inv

(* Every step keeps the invariant. *)
LEMMA NextInv == Inv /\ [Next]_vars => Inv'
<1> SUFFICES ASSUME Inv, [Next]_vars PROVE Inv'
  OBVIOUS
<1>1. TypeOK'
  BY StepTyped DEF Inv
<1>2. CASE LifecycleNext /\ UNCHANGED attestationVars
  <2>1. AttestInv'
    BY <1>2 DEF Inv, AttestInv, Vouches, attestationVars
  <2> QED BY <1>1, <1>2, <2>1, StartsKept, RecordsKept, KnownKept, ReachKept,
            LaunchKept, SeenKept DEF Inv
<1>3. CASE Meanwhile
  <2>1. StartsInv' /\ RecordsInv' /\ KnownInv' /\ ReachInv'
    BY <1>3 DEF Meanwhile, Inv, StartsInv, RecordsInv, KnownInv, ReachInv, Claims, Handles, At,
                StopAt, Target, Server, records
  <2>2. AttestInv'
    BY <1>3, AttestKept DEF Meanwhile, Inv, TypeOK
  <2>3. \A a \in Approvals, s \in Servers :
          Vouches(a, s) => Vouches(a, s)' /\ approval'[a].expected = approval[a].expected
    BY <1>3, AttestKept DEF Meanwhile, Inv, TypeOK
  <2>4. ASSUME NEW c \in Starts, Approved(c) PROVE Approved(c)'
    BY <1>3, <2>3, <2>4 DEF Meanwhile, Approved, Server, Inv, TypeOK, Start
  <2>5. LaunchInv'
    BY <1>3, <2>4 DEF Meanwhile, Inv, LaunchInv
  <2> QED BY <1>1, <1>3, <2>1, <2>2, <2>5, SeenMeanwhile DEF Inv
<1>4. CASE UNCHANGED vars
  BY <1>1, <1>4 DEF Inv, StartsInv, RecordsInv, KnownInv, ReachInv, AttestInv, LaunchInv, SeenInv,
     Seen, Runs, Approved, Vouches, Claims, Handles, At, StopAt, Target, Server, vars, lifecycleVars,
     attestationVars, records, launches
<1> QED BY <1>2, <1>3, <1>4 DEF Next

(* The invariant holds in every state the manager can reach. *)
THEOREM LifecycleInvariant == Safety => []Inv
BY InitInv, NextInv, PTL DEF Safety

(* The manager and the attestation store keep their types. *)
THEOREM TypeCorrect == Safety => []TypeOK
<1>1. Inv => TypeOK
  BY DEF Inv
<1> QED BY <1>1, LifecycleInvariant, PTL

(* No server has two processes, and Airlock knows each of them but those a *)
(* cancelled start gave up on.                                             *)
THEOREM NoOrphans == Safety => []ProcessesKnown
<1>1. Inv => ProcessesKnown
  <2> SUFFICES ASSUME Inv PROVE ProcessesKnown
    OBVIOUS
  <2> USE DEF Inv, TypeOK, StartsInv, RecordsInv, KnownInv, Claims, At
  <2>1. ASSUME NEW p \in alive \ left
        PROVE  running[Server(p)] = p \/ stopping[Server(p)] = p
                 \/ (Launching(p) /\ Server(p) \in starting)
    BY DEF Launching
  <2>2. ASSUME NEW p \in alive \ left, NEW q \in alive \ left, Server(p) = Server(q)
        PROVE  p = q
    <3>1. p \in Starts /\ q \in Starts /\ Server(p) \in Servers /\ p # None /\ q # None
      BY LifecycleAssumption DEF Server, Start
    <3> QED BY <2>1, <2>2, <3>1 DEF Launching
  <2> QED BY <2>1, <2>2 DEF ProcessesKnown
<1> QED BY <1>1, LifecycleInvariant, PTL

(* Every process was launched after two looks at the same executable, that *)
(* a user had approved; and it is that executable that runs, unless        *)
(* another was installed between the second look and the launch.           *)
THEOREM OnlyApproved == Safety => []LaunchesApproved
<1>1. Inv => LaunchesApproved
  BY DEF Inv, TypeOK, LaunchInv, SeenInv, Runs, LaunchesApproved, Approved, Vouches
<1> QED BY <1>1, LifecycleInvariant, PTL

(* A stop or sweep that has answered left no process it was to end         *)
(* untouched.                                                              *)
THEOREM StopsComplete == Safety => []StopsReach
<1>1. Inv => StopsReach
  BY DEF Inv, ReachInv, StopsReach, TypeOK, Stop
<1> QED BY <1>1, LifecycleInvariant, PTL

-----------------------------------------------------------------------------
(* A server that is starting is claimed by a start request that runs on,   *)
(* and one that is stopping by a stop request that does: no refusal,       *)
(* cancellation or failure leaves it claimed by nobody.  Together with the *)
(* fairness of requests this is why every server is released.              *)
Owned(s)    == s \in starting => \E c \in Starts : Claims(c) /\ Server(c) = s
Attended(s) == stopping[s] # None => \E k \in Stops : Handles(k) /\ Target(k) = s

ClaimsOwned == \A s \in Servers : Owned(s) /\ Attended(s)

(* One start request changes, and what stays claimed is claimed by it or   *)
(* by another one.                                                         *)
LEMMA OwnedStays ==
  ASSUME \A s \in Servers : Owned(s), NEW c \in Starts,
         \A d \in Starts \ {c} : start'[d] = start[d],
         \A s \in starting' : \/ Claims(c)' /\ Server(c)' = s
                              \/ s \in starting /\ ~(Claims(c) /\ Server(c) = s)
  PROVE  \A s \in Servers : Owned(s)'
<1> SUFFICES ASSUME NEW s \in Servers, s \in starting'
             PROVE  (\E d \in Starts : Claims(d) /\ Server(d) = s)'
  BY DEF Owned
<1>1. CASE Claims(c)' /\ Server(c)' = s
  BY <1>1
<1>2. CASE s \in starting /\ ~(Claims(c) /\ Server(c) = s)
  <2>1. PICK d \in Starts : Claims(d) /\ Server(d) = s
    BY <1>2 DEF Owned
  <2>2. start'[d] = start[d]
    BY <1>2, <2>1
  <2> QED BY <2>1, <2>2 DEF Claims, Server
<1> QED BY <1>1, <1>2

LEMMA AttendedStays ==
  ASSUME \A s \in Servers : Attended(s), NEW k \in Stops,
         \A l \in Stops \ {k} : stop'[l] = stop[l],
         \A s \in Servers : stopping'[s] # None =>
           \/ Handles(k)' /\ Target(k)' = s
           \/ stopping[s] # None /\ ~(Handles(k) /\ Target(k) = s)
  PROVE  \A s \in Servers : Attended(s)'
<1> SUFFICES ASSUME NEW s \in Servers, stopping'[s] # None
             PROVE  (\E l \in Stops : Handles(l) /\ Target(l) = s)'
  BY DEF Attended
<1>1. CASE Handles(k)' /\ Target(k)' = s
  BY <1>1
<1>2. CASE stopping[s] # None /\ ~(Handles(k) /\ Target(k) = s)
  <2>1. PICK l \in Stops : Handles(l) /\ Target(l) = s
    BY <1>2 DEF Attended
  <2>2. stop'[l] = stop[l]
    BY <1>2, <2>1
  <2> QED BY <2>1, <2>2 DEF Handles, Target
<1> QED BY <1>1, <1>2

(* Every step of a start request. *)
LEMMA StartOwned ==
  ASSUME TypeOK, \A s \in Servers : Owned(s), NEW c \in Starts,
         StartStep(c) \/ \E s \in Servers : RequestStart(c, s)
  PROVE  \A s \in Servers : Owned(s)'
<1> USE DEF Claims, Server, At, Goto
<1>1. start \in [Starts -> Start]
  BY DEF TypeOK
<1>2. \A d \in Starts \ {c} : start'[d] = start[d]
  BY <1>1 DEF StartStep, RequestStart, Fingerprint, Attest, ClaimStart, Verify, Reattest,
              Launch, Grace, CancelLaunch, RecordStart
<1>3. ASSUME NEW s \in Servers, RequestStart(c, s) PROVE starting' = starting /\ ~Claims(c)
  BY <1>3 DEF RequestStart
<1>4. ASSUME Fingerprint(c) \/ Attest(c) PROVE starting' = starting /\ ~Claims(c)
  BY <1>4 DEF Fingerprint, Attest, records
<1>5. ASSUME ClaimStart(c)
      PROVE  \/ starting' = starting /\ ~Claims(c)
             \/ starting' = starting \union {Server(c)} /\ Claims(c)' /\ Server(c)' = Server(c)
  BY <1>1, <1>5 DEF ClaimStart, Start
<1>6. ASSUME Verify(c) \/ Launch(c) \/ Grace(c) \/ CancelLaunch(c)
      PROVE  starting' = starting /\ Claims(c)' /\ Server(c)' = Server(c)
  BY <1>1, <1>6 DEF Verify, Launch, Grace, CancelLaunch, records, Start
<1>7. ASSUME Reattest(c)
      PROVE  \/ starting' = starting /\ Claims(c)' /\ Server(c)' = Server(c)
             \/ starting' = starting \ {Server(c)}
  BY <1>1, <1>7 DEF Reattest, Start
<1>8. ASSUME RecordStart(c) PROVE starting' = starting \ {Server(c)}
  BY <1>8 DEF RecordStart
<1>9. \/ starting' = starting /\ ~Claims(c)
      \/ starting' = starting \union {Server(c)} /\ Claims(c)' /\ Server(c)' = Server(c)
      \/ starting' = starting /\ Claims(c)' /\ Server(c)' = Server(c)
      \/ starting' = starting \ {Server(c)}
  BY <1>3, <1>4, <1>5, <1>6, <1>7, <1>8, Zenon DEF StartStep
<1> HIDE DEF Claims, Server
<1> QED BY <1>2, <1>9, OwnedStays

(* Every step of a stop request. *)
LEMMA StopAttended ==
  ASSUME TypeOK, \A s \in Servers : Attended(s), NEW k \in Stops,
         StopStep(k) \/ \E todo \in SUBSET Servers : RequestStop(k, todo)
  PROVE  \A s \in Servers : Attended(s)'
<1> USE DEF Handles, Target, StopAt
<1>1. stop \in [Stops -> Stop] /\ stopping \in [Servers -> Process]
  BY DEF TypeOK
<1>2. \A l \in Stops \ {k} : stop'[l] = stop[l]
  BY <1>1 DEF StopStep, RequestStop, ClaimStop, EndStop, Signal, Forget, Restore
<1>3. ASSUME NEW todo \in SUBSET Servers, RequestStop(k, todo) PROVE stopping' = stopping /\ ~Handles(k)
  BY <1>3 DEF RequestStop, records
<1>4. ASSUME ClaimStop(k)
      PROVE  \/ stopping' = stopping /\ ~Handles(k)
             \/ /\ stopping' = [stopping EXCEPT ![Target(k)'] = running[Target(k)']]
                /\ Handles(k)' /\ ~Handles(k)
  <2>1. PICK s \in stop[k].todo :
          \/ UNCHANGED stopping
          \/ /\ stopping' = [stopping EXCEPT ![s] = running[s]]
             /\ stop' = [stop EXCEPT ![k].pc = "signal", ![k].server = s, ![k].todo = @ \ {s}]
    BY <1>4, Zenon DEF ClaimStop
  <2> QED BY <1>1, <1>4, <2>1 DEF ClaimStop, Stop
<1>5. ASSUME EndStop(k) PROVE stopping' = stopping /\ ~Handles(k)
  BY <1>5 DEF EndStop, records
<1>6. ASSUME Signal(k) PROVE stopping' = stopping /\ Handles(k)' /\ Target(k)' = Target(k)
  BY <1>1, <1>6 DEF Signal, records, Stop
<1>7. ASSUME Forget(k) \/ Restore(k) PROVE stopping' = [stopping EXCEPT ![Target(k)] = None]
  BY <1>7 DEF Forget, Restore
<1>8. \/ stopping' = stopping /\ ~Handles(k)
      \/ /\ stopping' = [stopping EXCEPT ![Target(k)'] = running[Target(k)']]
         /\ Handles(k)' /\ ~Handles(k)
      \/ stopping' = stopping /\ Handles(k)' /\ Target(k)' = Target(k)
      \/ stopping' = [stopping EXCEPT ![Target(k)] = None]
  BY <1>3, <1>4, <1>5, <1>6, <1>7, Zenon DEF StopStep
<1>9. \A s \in Servers : stopping'[s] # None =>
        \/ Handles(k)' /\ Target(k)' = s
        \/ stopping[s] # None /\ ~(Handles(k) /\ Target(k) = s)
  <2> HIDE DEF Handles, Target
  <2> QED BY <1>1, <1>8
<1> HIDE DEF Handles, Target
<1> QED BY <1>2, <1>9, AttendedStays

(* Every server that is starting or stopping is so for a request.          *)
THEOREM NoneClaimedByNobody == Safety => []ClaimsOwned
<1>1. Init => ClaimsOwned
  BY DEF Init, ClaimsOwned, Owned, Attended
<1>2. Inv /\ ClaimsOwned /\ [Next]_vars => ClaimsOwned'
  <2> SUFFICES ASSUME Inv, ClaimsOwned, [Next]_vars PROVE ClaimsOwned'
    OBVIOUS
  <2> USE DEF ClaimsOwned
  <2>1. TypeOK
    BY DEF Inv
  <2>2. ASSUME UNCHANGED <<starting, start>> PROVE \A s \in Servers : Owned(s)'
    BY <2>2 DEF Owned, Claims, Server
  <2>3. ASSUME UNCHANGED <<stopping, stop>> PROVE \A s \in Servers : Attended(s)'
    BY <2>3 DEF Attended, Handles, Target
  <2>4. ASSUME NEW c \in Starts, StartStep(c) \/ \E s \in Servers : RequestStart(c, s)
        PROVE  ClaimsOwned'
    <3>1. UNCHANGED <<stopping, stop>>
      BY <2>4 DEF StartStep, RequestStart, Fingerprint, Attest, ClaimStart, Verify, Reattest,
                  Launch, Grace, CancelLaunch, RecordStart, records
    <3> QED BY <2>1, <2>3, <2>4, <3>1, StartOwned
  <2>5. ASSUME NEW k \in Stops, StopStep(k) \/ \E todo \in SUBSET Servers : RequestStop(k, todo)
        PROVE  ClaimsOwned'
    <3>1. UNCHANGED <<starting, start>>
      BY <2>5 DEF StopStep, RequestStop, ClaimStop, EndStop, Signal, Forget, Restore, records
    <3> QED BY <2>1, <2>2, <2>5, <3>1, StopAttended
  <2>6. ASSUME NEW k \in Stops, RequestStopAll(k) \/ \E s \in Servers : RequestStop(k, {s})
        PROVE  \E todo \in SUBSET Servers : RequestStop(k, todo)
    BY <2>6 DEF RequestStopAll
  <2>7. ASSUME NEW c \in Starts, ProcessEnds(c) PROVE ClaimsOwned'
    BY <2>2, <2>3, <2>7 DEF ProcessEnds, records
  <2>8. ASSUME NEW s \in Servers, List(s) PROVE ClaimsOwned'
    BY <2>2, <2>3, <2>8 DEF List
  <2>9. CASE LifecycleNext
    BY <2>4, <2>5, <2>6, <2>7, <2>8, <2>9, Zenon DEF LifecycleNext
  <2>10. CASE Meanwhile \/ UNCHANGED lifecycleVars
    BY <2>2, <2>3, <2>10 DEF Meanwhile, lifecycleVars, records
  <2> QED BY <2>9, <2>10 DEF Next, vars
<1> QED BY <1>1, <1>2, LifecycleInvariant, PTL DEF Safety

-----------------------------------------------------------------------------
(***************************************************************************)
(* Every step moves at most one server along its cycle.                    *)
(***************************************************************************)

Stay == \A s \in Servers : Phase(s)' = Phase(s)

Moves(s, from, to) ==
  /\ Phase(s) = from /\ Phase(s)' = to
  /\ \A t \in Servers \ {s} : Phase(t)' = Phase(t)

CycleStep == \E s \in Servers :
  \/ Moves(s, "down", "starting") \/ Moves(s, "starting", "up") \/ Moves(s, "starting", "down")
  \/ Moves(s, "up", "down") \/ Moves(s, "up", "stopping")
  \/ Moves(s, "stopping", "down") \/ Moves(s, "stopping", "up")

(* Such a step is one of the abstract specification. *)
LEMMA CycleSimulates == Stay \/ CycleStep => [Cycle!Next]_([s \in Servers |-> Phase(s)])
<1> DEFINE state == [s \in Servers |-> Phase(s)]
<1>1. ASSUME Stay PROVE UNCHANGED state
  BY <1>1 DEF Stay
<1>2. ASSUME NEW s \in Servers, NEW from, NEW to, Moves(s, from, to) PROVE Cycle!Move(s, from, to)
  BY <1>2 DEF Moves, Cycle!Move
<1>3. ASSUME CycleStep PROVE Cycle!Next
  <2> HIDE DEF state
  <2> QED BY <1>2, <1>3 DEF CycleStep, Cycle!Next, Cycle!BeginStart, Cycle!Started, Cycle!NotStarted,
         Cycle!Ended, Cycle!BeginStop, Cycle!Stopped, Cycle!NotStopped
<1> QED BY <1>1, <1>3

(* Every step of the manager is such a step. *)
LEMMA LifecycleCycles ==
  ASSUME Inv, Inv', LifecycleNext
  PROVE  Stay \/ CycleStep
<1> USE LifecycleAssumption DEF Phase, Running, Ended
<1>t. /\ running \in [Servers -> Process] /\ stopping \in [Servers -> Process]
      /\ starting \subseteq Servers /\ \A c \in Starts : Server(c) \in Servers
      /\ \A k \in Stops : Target(k) \in Servers /\ stop[k].todo \subseteq Servers
      /\ StartsInv /\ RecordsInv /\ start \in [Starts -> Start]
  BY DEF Inv, TypeOK, Server, Target, Start, Stop
<1>r. ASSUME NEW s \in Servers, Reap(s), UNCHANGED <<starting, stopping, alive>> PROVE Stay
  BY <1>t, <1>r DEF Reap, Stay
<1>u. ASSUME UNCHANGED <<starting, running, stopping, alive>> PROVE Stay
  BY <1>u DEF Stay
<1>1. ASSUME NEW c \in Starts, NEW s \in Servers, RequestStart(c, s) PROVE Stay
  BY <1>1, <1>r DEF RequestStart
<1>2. ASSUME NEW c \in Starts, Fingerprint(c) \/ Verify(c) \/ Grace(c) \/ CancelLaunch(c) PROVE Stay
  BY <1>2, <1>u DEF Fingerprint, Verify, Grace, CancelLaunch, records
<1>3. ASSUME NEW c \in Starts, Attest(c) PROVE Stay
  BY <1>3, <1>r, <1>t DEF Attest
<1>4. ASSUME NEW c \in Starts, ClaimStart(c) PROVE Stay \/ CycleStep
  <2>0. PICK s \in Servers : s = Server(c)
    BY <1>t
  <2>1. CASE starting' = starting
    BY <1>4, <1>r, <1>t, <2>1 DEF ClaimStart
  <2>2. CASE ~Active(Server(c)) /\ starting' = starting \union {Server(c)}
    <3>1. Moves(s, "down", "starting")
      BY <1>4, <1>t, <2>0, <2>2 DEF ClaimStart, Active, Reap, Moves
    <3> QED BY <3>1 DEF CycleStep
  <2> QED BY <1>4, <2>1, <2>2 DEF ClaimStart
<1>5. ASSUME NEW c \in Starts, Reattest(c) PROVE Stay \/ CycleStep
  <2>0. PICK s \in Servers : s = Server(c)
    BY <1>t
  <2>1. CASE starting' = starting
    BY <1>5, <1>u, <2>1 DEF Reattest
  <2>2. CASE starting' = starting \ {Server(c)}
    <3>1. Server(c) \in starting
      BY <1>5, <1>t DEF Reattest, StartsInv, Claims, At
    <3>2. Moves(s, "starting", "down")
      BY <1>5, <1>t, <2>0, <2>2, <3>1 DEF Reattest, StartsInv, Moves
    <3> QED BY <3>2 DEF CycleStep
  <2> QED BY <1>5, <2>1, <2>2 DEF Reattest
<1>6. ASSUME NEW c \in Starts, Launch(c) PROVE Stay
  <2>1. \A s \in Servers : running[s] # c
    BY <1>6, <1>t DEF Launch, RecordsInv, At
  <2> QED BY <1>6, <1>t, <2>1 DEF Launch, records, Stay
<1>7. ASSUME NEW c \in Starts, RecordStart(c) PROVE CycleStep
  <2>0. PICK s \in Servers : s = Server(c)
    BY <1>t
  <2>1. s \in starting
    BY <1>7, <1>t, <2>0 DEF RecordStart, StartsInv, Claims, At
  <2>2. running[s] = None /\ stopping[s] = None
    BY <1>t, <2>1 DEF StartsInv
  <2>3. \A t \in Servers \ {s} : Phase(t)' = Phase(t)
    BY <1>7, <1>t, <2>0 DEF RecordStart
  <2>4. Phase(s) = "starting" /\ Phase(s)' \in {"up", "down"}
    BY <1>7, <1>t, <2>0, <2>1, <2>2 DEF RecordStart
  <2> QED BY <2>3, <2>4 DEF CycleStep, Moves
<1>8. ASSUME NEW p \in Starts, ProcessEnds(p) PROVE Stay \/ CycleStep
  <2>1. CASE \A s \in Servers : running[s] # p
    BY <1>8, <1>t, <2>1 DEF ProcessEnds, records, Stay
  <2>2. ASSUME NEW s \in Servers, running[s] = p PROVE CycleStep
    <3>1. \A t \in Servers \ {s} : running[t] # p
      BY <1>t, <2>2 DEF RecordsInv
    <3>2. s \notin starting /\ stopping[s] = None
      BY <1>t, <2>2 DEF StartsInv, RecordsInv
    <3>3. Moves(s, "up", "down")
      BY <1>8, <1>t, <2>2, <3>1, <3>2 DEF ProcessEnds, records, Moves
    <3> QED BY <3>3 DEF CycleStep
  <2> QED BY <2>1, <2>2
<1>9. ASSUME NEW k \in Stops, NEW todo, RequestStop(k, todo) PROVE Stay
  BY <1>9, <1>u DEF RequestStop, records
<1>10. ASSUME NEW k \in Stops, ClaimStop(k) PROVE Stay \/ CycleStep
  <2>1. PICK s \in stop[k].todo :
          \/ /\ stopping[s] = None /\ s \notin starting /\ Running(s) # None
             /\ running' = [running EXCEPT ![s] = None]
             /\ stopping' = [stopping EXCEPT ![s] = running[s]]
          \/ /\ running' = [running EXCEPT ![s] = Running(s)]
             /\ UNCHANGED stopping
    BY <1>10 DEF ClaimStop
  <2>2. s \in Servers /\ UNCHANGED <<starting, alive>>
    BY <1>10, <1>t DEF ClaimStop
  <2>3. CASE running' = [running EXCEPT ![s] = Running(s)] /\ UNCHANGED stopping
    BY <1>t, <2>2, <2>3 DEF Stay
  <2>4. CASE /\ stopping[s] = None /\ s \notin starting /\ Running(s) # None
             /\ running' = [running EXCEPT ![s] = None]
             /\ stopping' = [stopping EXCEPT ![s] = running[s]]
    <3>1. Moves(s, "up", "stopping")
      BY <1>t, <2>2, <2>4 DEF Moves
    <3> QED BY <2>2, <3>1 DEF CycleStep
  <2> QED BY <2>1, <2>3, <2>4
<1>11. ASSUME NEW k \in Stops, EndStop(k) \/ Signal(k) PROVE Stay
  BY <1>11, <1>u DEF EndStop, Signal, records
<1>12. ASSUME NEW k \in Stops, Forget(k) \/ Restore(k) PROVE CycleStep
  <2>0. PICK s \in Servers : s = Target(k)
    BY <1>t
  <2>1. stopping[s] # None /\ s \notin starting /\ running[s] = None
    BY <1>12, <1>t, <2>0 DEF Forget, Restore, StopAt, Handles, RecordsInv, StartsInv
  <2>2. /\ stopping' = [stopping EXCEPT ![s] = None] /\ UNCHANGED <<starting, alive>>
        /\ running' = running \/ (running' = [running EXCEPT ![s] = stopping[s]]
                                   /\ stopping[s] \in alive)
    BY <1>12, <2>0 DEF Forget, Restore
  <2>3. \A t \in Servers \ {s} : Phase(t)' = Phase(t)
    BY <1>t, <2>1, <2>2
  <2>4. Phase(s) = "stopping" /\ Phase(s)' \in {"up", "down"}
    BY <1>t, <2>1, <2>2
  <2> QED BY <2>3, <2>4 DEF CycleStep, Moves
<1>13. ASSUME NEW s \in Servers, List(s) PROVE Stay
  BY <1>13, <1>r DEF List
<1> HIDE DEF Phase, Running, Ended
<1> QED
  BY <1>1, <1>2, <1>3, <1>4, <1>5, <1>6, <1>7, <1>8, <1>9, <1>10, <1>11, <1>12, <1>13
  DEF LifecycleNext, StartStep, StopStep, RequestStopAll

(* The manager implements the abstract cycle: a stop that fails late       *)
(* resurrects no ended process and loses no living one, and no two starts  *)
(* or stops of a server overlap.                                           *)
THEOREM CycleRefined == Safety => ImplementsCycle
<1>1. Init => Cycle!Init
  BY DEF Init, Cycle!Init, Phase, Running, Ended
<1>2. Inv /\ Inv' /\ [Next]_vars => [Cycle!Next]_([s \in Servers |-> Phase(s)])
  <2> SUFFICES ASSUME Inv, Inv', [Next]_vars PROVE Stay \/ CycleStep
    BY CycleSimulates
  <2>1. CASE LifecycleNext
    BY <2>1, LifecycleCycles
  <2>2. CASE Meanwhile \/ UNCHANGED lifecycleVars
    BY <2>2 DEF Meanwhile, Stay, Phase, Running, Ended, lifecycleVars, records
  <2> QED BY <2>1, <2>2 DEF Next, vars
<1> QED BY <1>1, <1>2, LifecycleInvariant, PTL DEF ImplementsCycle, Cycle!Spec, Safety

-----------------------------------------------------------------------------
(* The attestation file.  While no two approvals were ever between         *)
(* comparing and replacing it, the one that is replaces only its own       *)
(* server's attestation; every copy that may become the file is within the *)
(* limit.                                                                  *)
InTurn ==
  /\ attested = saved
  /\ \A a, b \in Approvals : approval[a].pc = "checked" /\ approval[b].pc = "checked" => a = b
  /\ \A a \in Approvals : approval[a].pc = "checked" =>
       approval[a].file = [attested EXCEPT ![approval[a].server] = a]

Within(file) ==
  IsFiniteSet(Entries(file)) /\ Cardinality(Entries(file)) <= MaxAttestations

FileInv ==
  /\ AttestInv
  /\ ~contended => InTurn
  /\ Within(attested)
  /\ \A a \in Approvals : approval[a].pc = "checked" => Within(approval[a].file)

(* One more attestation is within the limit where there is room. *)
LEMMA RoomForOne ==
  ASSUME AttestationsTypeOK, Within(attested), NEW a \in Approvals, HasRoom(a)
  PROVE  Within([attested EXCEPT ![approval[a].server] = a])
<1> DEFINE s == approval[a].server
           file == [attested EXCEPT ![s] = a]
<1>1. attested \in [Servers -> Approvals \union {None}] /\ s \in Servers /\ a # None
  BY AttestationAssumption DEF AttestationsTypeOK, File, Approval
<1>2. Entries(file) = Entries(attested) \union {s}
  BY <1>1 DEF Entries
<1>3. CASE s \in Entries(attested)
  <2>1. Entries(file) = Entries(attested)
    BY <1>2, <1>3
  <2> QED BY <2>1 DEF Within
<1>4. CASE s \notin Entries(attested) /\ Cardinality(Entries(attested)) < MaxAttestations
  <2>1. IsFiniteSet(Entries(attested)) /\ Cardinality(Entries(attested)) \in Nat
    BY FS_CardinalityType DEF Within
  <2>2. /\ IsFiniteSet(Entries(attested) \union {s})
        /\ Cardinality(Entries(attested) \union {s}) = Cardinality(Entries(attested)) + 1
    BY <1>4, <2>1, FS_AddElement
  <2>3. Cardinality(Entries(file)) <= MaxAttestations
    <3>1. PICK k \in Nat : k = Cardinality(Entries(attested))
      BY <2>1
    <3>2. Cardinality(Entries(file)) = k + 1
      BY <1>2, <2>2, <3>1
    <3>3. k < MaxAttestations
      BY <1>4, <3>1
    <3> HIDE DEF file
    <3> QED BY <3>2, <3>3, AttestationAssumption
  <2> QED BY <1>2, <2>2, <2>3 DEF Within
<1> QED BY <1>3, <1>4 DEF HasRoom

LEMMA FileKept ==
  ASSUME AttestationsTypeOK, FileInv, AttestationsNext
  PROVE  FileInv'
<1>1. AttestInv'
  BY AttestKept DEF FileInv
<1>2. ASSUME attested' = attested, saved' = saved, contended' = contended,
             \A b \in Approvals : approval'[b].pc = "checked" =>
               /\ approval[b].pc = "checked" /\ approval'[b].file = approval[b].file
               /\ approval'[b].server = approval[b].server
      PROVE  FileInv'
  BY <1>1, <1>2 DEF FileInv, InTurn, Within, Entries
<1>3. approval \in [Approvals -> Approval] /\ attested \in File
  BY DEF AttestationsTypeOK
<1>4. ASSUME NEW a \in Approvals, Refuse(a) PROVE FileInv'
  BY <1>2, <1>3, <1>4 DEF Refuse
<1>5. ASSUME NEW a \in Approvals, NEW s \in Servers, Show(a, s) PROVE FileInv'
  BY <1>2, <1>3, <1>5 DEF Show
<1>6. ASSUME NEW a \in Approvals, Load(a) PROVE FileInv'
  <2>1. CASE ~Refuse(a)
    <3>1. /\ approval' = [approval EXCEPT ![a].pc = "loaded", ![a].file = attested]
          /\ attested' = attested /\ saved' = saved /\ contended' = contended
      BY <1>6, <2>1 DEF Load
    <3>2. approval'[a].pc = "loaded" /\ \A b \in Approvals \ {a} : approval'[b] = approval[b]
      BY <1>3, <3>1 DEF Approval
    <3> QED BY <1>2, <3>1, <3>2
  <2> QED BY <1>4, <2>1
<1>7. ASSUME NEW a \in Approvals, Compare(a), ~Refuse(a) PROVE FileInv'
  <2> DEFINE file == [attested EXCEPT ![approval[a].server] = a]
  <2>1. /\ approval[a].pc = "loaded" /\ approval[a].file = attested /\ HasRoom(a)
        /\ approval' = [approval EXCEPT ![a].pc = "checked", ![a].file[approval[a].server] = a]
        /\ contended' = (contended \/ \E b \in Approvals : approval[b].pc = "checked")
        /\ attested' = attested /\ saved' = saved
    BY <1>7 DEF Compare, Unchanged
  <2>2. /\ approval'[a].pc = "checked" /\ approval'[a].server = approval[a].server
        /\ approval'[a].file = file
        /\ \A b \in Approvals \ {a} : approval'[b] = approval[b]
    BY <1>3, <2>1 DEF Approval
  <2>3. Within(file)
    BY <2>1, RoomForOne DEF FileInv
  <2>4. \A b \in Approvals : approval'[b].pc = "checked" => Within(approval'[b].file)
    BY <2>2, <2>3 DEF FileInv
  <2>5. ASSUME ~contended' PROVE InTurn'
    <3>1. InTurn /\ \A b \in Approvals : approval[b].pc # "checked"
      BY <2>1, <2>5 DEF FileInv
    <3>2. \A b \in Approvals : approval'[b].pc = "checked" => b = a
      BY <2>2, <3>1
    <3>3. attested' = saved'
      BY <2>1, <3>1 DEF InTurn
    <3>4. approval'[a].file = [attested' EXCEPT ![approval'[a].server] = a]
      BY <2>1, <2>2
    <3> QED BY <3>2, <3>3, <3>4 DEF InTurn
  <2> QED BY <1>1, <2>1, <2>4, <2>5 DEF FileInv, Within, Entries
<1>8. ASSUME NEW a \in Approvals, Persist(a), ~Refuse(a) PROVE FileInv'
  <2>1. /\ approval[a].pc = "checked" /\ attested' = approval[a].file
        /\ saved' = [saved EXCEPT ![approval[a].server] = a]
        /\ approval' = [approval EXCEPT ![a].pc = "saved"] /\ contended' = contended
    BY <1>8 DEF Persist
  <2>2. /\ approval'[a].pc = "saved"
        /\ \A b \in Approvals \ {a} : approval'[b] = approval[b]
    BY <1>3, <2>1 DEF Approval
  <2>3. Within(attested') /\ \A b \in Approvals : approval'[b].pc = "checked" => Within(approval'[b].file)
    BY <2>1, <2>2 DEF FileInv
  <2>4. ASSUME ~contended' PROVE InTurn'
    <3>1. InTurn
      BY <2>1, <2>4 DEF FileInv
    <3>2. attested' = saved'
      BY <2>1, <3>1 DEF InTurn
    <3>3. \A b \in Approvals : approval'[b].pc # "checked"
      BY <2>1, <2>2, <3>1 DEF InTurn
    <3> QED BY <3>2, <3>3 DEF InTurn
  <2> QED BY <1>1, <2>3, <2>4 DEF FileInv, Within, Entries
<1>9. ASSUME NEW s \in Servers, Install(s) PROVE FileInv'
  BY <1>2, <1>9 DEF Install
<1> QED BY <1>4, <1>5, <1>6, <1>7, <1>8, <1>9 DEF AttestationsNext

(* An acknowledged approval stays in the file until its server's next one, *)
(* as long as no two requests are between comparing and replacing the file *)
(* at once; and even then the file vouches only for what was acknowledged, *)
(* within its limit.                                                       *)
THEOREM ApprovalsStay == Safety => []ApprovalsKept
<1>1. Init => FileInv
  <2> SUFFICES ASSUME Init PROVE FileInv
    OBVIOUS
  <2>1. /\ attested = saved /\ Entries(attested) = {}
        /\ \A a \in Approvals : approval[a].pc = "idle"
    BY DEF Init, AttestationsInit, Entries
  <2>2. AttestInv
    BY InitInv DEF Inv
  <2>3. Within(attested)
    BY <2>1, FS_EmptySet, AttestationAssumption DEF Within
  <2> QED BY <2>1, <2>2, <2>3 DEF FileInv, InTurn
<1>2. Inv /\ FileInv /\ [Next]_vars => FileInv'
  <2> SUFFICES ASSUME Inv, FileInv, [Next]_vars PROVE FileInv'
    OBVIOUS
  <2>1. CASE UNCHANGED attestationVars
    BY <2>1 DEF attestationVars, FileInv, AttestInv, Vouches, InTurn, Within, Entries
  <2>2. CASE AttestationsNext
    BY <2>2, FileKept DEF Inv, TypeOK
  <2> QED BY <2>1, <2>2 DEF Next, Meanwhile, vars
<1>3. FileInv => ApprovalsKept
  BY DEF FileInv, InTurn, Within, AttestInv, Vouches, ApprovalsKept, SavesAreDurable
<1> QED BY <1>1, <1>2, <1>3, LifecycleInvariant, PTL DEF Safety
=============================================================================
