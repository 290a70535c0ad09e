--------------------------- MODULE ApprovalLedger ---------------------------
(***************************************************************************)
(* What the Agent Run store promises about approvals, with everything else *)
(* about a run left out.  A run holds a list of approval gates.  Each gate *)
(* is decided once; an approved gate may be spent, once, and only while    *)
(* the run is open and no other gate of it is undecided; a rejection       *)
(* closes the run, and nothing about a closed run ever changes.  Old runs  *)
(* may be forgotten when a new one is admitted and never come back.        *)
(***************************************************************************)
EXTENDS Integers, Sequences

VARIABLES
  last,     \* the last run identifier handed out
  ledger,   \* remembered run -> the states of its gates, oldest first
  closed    \* the remembered runs that accept no more operations

vars == <<last, ledger, closed>>

GateState == {"pending", "approved", "spent", "rejected"}

LedgerTypeOK ==
  /\ last \in Nat
  /\ DOMAIN ledger \subseteq 1 .. last
  /\ \A r \in DOMAIN ledger : ledger[r] \in Seq(GateState)
  /\ closed \subseteq DOMAIN ledger

Init ==
  /\ last = 0
  /\ ledger = <<>>
  /\ closed = {}

IsOpen(r) == r \in DOMAIN ledger \ closed

Settled(r) == \A g \in DOMAIN ledger[r] : ledger[r][g] # "pending"

(* A new run is admitted; some of the remembered ones may be forgotten. *)
Admit ==
  /\ last' = last + 1
  /\ \E kept \in SUBSET DOMAIN ledger :
       /\ ledger' = [r \in kept \union {last + 1} |->
                       IF r = last + 1 THEN <<>> ELSE ledger[r]]
       /\ closed' = closed \intersect kept

OpenGate(r) ==
  /\ IsOpen(r)
  /\ ledger' = [ledger EXCEPT ![r] = Append(@, "pending")]
  /\ UNCHANGED <<last, closed>>

Approve(r, g) ==
  /\ IsOpen(r) /\ g \in DOMAIN ledger[r]
  /\ ledger[r][g] = "pending"
  /\ ledger' = [ledger EXCEPT ![r][g] = "approved"]
  /\ UNCHANGED <<last, closed>>

Reject(r, g) ==
  /\ IsOpen(r) /\ g \in DOMAIN ledger[r]
  /\ ledger[r][g] = "pending"
  /\ ledger' = [ledger EXCEPT ![r][g] = "rejected"]
  /\ closed' = closed \union {r}
  /\ UNCHANGED last

Spend(r, g) ==
  /\ IsOpen(r) /\ g \in DOMAIN ledger[r]
  /\ ledger[r][g] = "approved"
  /\ Settled(r)
  /\ ledger' = [ledger EXCEPT ![r][g] = "spent"]
  /\ UNCHANGED <<last, closed>>

CloseRun(r) ==
  /\ IsOpen(r)
  /\ closed' = closed \union {r}
  /\ UNCHANGED <<last, ledger>>

Next ==
  \/ Admit
  \/ \E r \in DOMAIN ledger :
       \/ OpenGate(r)
       \/ CloseRun(r)
       \/ \E g \in DOMAIN ledger[r] : Approve(r, g) \/ Reject(r, g) \/ Spend(r, g)

Spec == Init /\ [][Next]_vars
=============================================================================
