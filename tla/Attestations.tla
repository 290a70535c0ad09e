---------------------------- MODULE Attestations ----------------------------
(***************************************************************************)
(* Which executables of MCP servers users have approved (approval.go,      *)
(* attestations.go).  Approvals live in one JSON file.  Every request      *)
(* opens a store of its own: it loads the file, and before saving loads it *)
(* again, refuses if anything changed, and replaces the file atomically.   *)
(* No lock covers the file.                                                *)
(*                                                                         *)
(* An attestation is named by the request that made it, which stands for   *)
(* its time of approval.  A server has one launch source.                  *)
(***************************************************************************)
EXTENDS Integers, FiniteSets

CONSTANTS
  Servers,
  Fingerprints,     \* the executables that may be installed
  Approvals,        \* the approval requests of a behaviour
  MaxAttestations,  \* maxExecutableAttestations
  None              \* no attestation, no process

ASSUME AttestationAssumption ==
  /\ Servers # {} /\ Fingerprints # {}
  /\ None \notin Approvals
  /\ MaxAttestations \in Nat \ {0}

VARIABLES
  binary,     \* what is installed as the server's executable
  attested,   \* the file: the approval that vouches for the server
  approval,   \* of each request: where it is and what it holds
  saved,      \* history: the last acknowledged approval of each server
  contended   \* history: two requests were ever between comparing and replacing

attestationVars == <<binary, attested, approval, saved, contended>>

File == [Servers -> Approvals \union {None}]

Approval == [pc : {"idle", "shown", "loaded", "checked", "saved", "refused"},
             server : Servers, expected : Fingerprints, file : File]

AttestationsTypeOK ==
  /\ binary \in [Servers -> Fingerprints]
  /\ attested \in File
  /\ approval \in [Approvals -> Approval]
  /\ saved \in File
  /\ contended \in BOOLEAN

Entries(file) == {s \in Servers : file[s] # None}

(* ExecutableAttestationStore.Verdict on a store that was just loaded. *)
Verdict(s, fingerprint) ==
  IF attested[s] = None THEN "approval_required"
  ELSE IF approval[attested[s]].expected # fingerprint THEN "executable_changed"
  ELSE "approved"

-----------------------------------------------------------------------------
(* Check shows the fingerprint to a user, who later approves it. *)
Show(a, s) ==
  /\ approval[a].pc = "idle"
  /\ approval' = [approval EXCEPT ![a].pc = "shown", ![a].server = s,
                                  ![a].expected = binary[s]]
  /\ UNCHANGED <<binary, attested, saved, contended>>

Refuse(a) ==
  /\ approval' = [approval EXCEPT ![a].pc = "refused"]
  /\ UNCHANGED <<attested, saved, contended>>

(* ApproveExecutable up to NewExecutableAttestationStore; the executable   *)
(* or the file may be unreadable.                                          *)
Load(a) ==
  /\ approval[a].pc = "shown"
  /\ \/ /\ binary[approval[a].server] = approval[a].expected
        /\ approval' = [approval EXCEPT ![a].pc = "loaded", ![a].file = attested]
        /\ UNCHANGED <<attested, saved, contended>>
     \/ Refuse(a)
  /\ UNCHANGED binary

(* Faulty variant: the file is not compared. *)
UnchangedAssumed(a) == attested \in File /\ a \in Approvals

(* Save loads the file again and compares. *)
Unchanged(a) == attested = approval[a].file

HasRoom(a) ==
  approval[a].server \in Entries(attested) \/ Cardinality(Entries(attested)) < MaxAttestations

Compare(a) ==
  /\ approval[a].pc = "loaded"
  /\ IF Unchanged(a) /\ HasRoom(a)
     THEN /\ approval' = [approval EXCEPT ![a].pc = "checked",
                                          ![a].file[approval[a].server] = a]
          /\ contended' = (contended \/ \E b \in Approvals : approval[b].pc = "checked")
          /\ UNCHANGED <<attested, saved>>
     ELSE Refuse(a)
  /\ UNCHANGED binary

(* Faulty variant: the approval is not noted as saved. *)
PersistUnanswered(a) ==
  /\ approval[a].pc = "checked"
  /\ attested' = approval[a].file
  /\ saved' = [saved EXCEPT ![approval[a].server] = a]
  /\ approval' = [approval EXCEPT ![a].pc = ""]
  /\ UNCHANGED <<binary, contended>>

(* persistExecutableAttestations: the file is replaced, or it fails. *)
Persist(a) ==
  /\ approval[a].pc = "checked"
  /\ \/ /\ attested' = approval[a].file
        /\ saved' = [saved EXCEPT ![approval[a].server] = a]
        /\ approval' = [approval EXCEPT ![a].pc = "saved"]
        /\ UNCHANGED contended
     \/ Refuse(a)
  /\ UNCHANGED binary

(* A user installs another version. *)
Install(s) ==
  /\ \E f \in Fingerprints \ {binary[s]} : binary' = [binary EXCEPT ![s] = f]
  /\ UNCHANGED <<attested, approval, saved, contended>>

AttestationsInit ==
  /\ binary \in [Servers -> Fingerprints]
  /\ attested = [s \in Servers |-> None]
  /\ approval = [a \in Approvals |->
       [pc |-> "idle", server |-> CHOOSE s \in Servers : TRUE,
        expected |-> CHOOSE f \in Fingerprints : TRUE, file |-> attested]]
  /\ saved = attested
  /\ contended = FALSE

AttestationsNext ==
  \/ \E a \in Approvals : Load(a) \/ Compare(a) \/ Persist(a) \/ \E s \in Servers : Show(a, s)
  \/ \E s \in Servers : Install(s)

-----------------------------------------------------------------------------
(* attestations.go: "Save durably replaces one server and launch-source    *)
(* attestation": every acknowledged approval stays in the file until its   *)
(* server's next one.                                                      *)
SavesAreDurable == attested = saved

(* They are durable as long as no two requests are between comparing and   *)
(* replacing the file at once; and even then the file vouches only for     *)
(* what some user was shown and has been told is approved, within its      *)
(* limit.                                                                  *)
ApprovalsKept ==
  /\ ~contended => SavesAreDurable
  /\ Cardinality(Entries(attested)) <= MaxAttestations
  /\ \A s \in Servers : attested[s] # None =>
       approval[attested[s]].pc = "saved" /\ approval[attested[s]].server = s
=============================================================================
