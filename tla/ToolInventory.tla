---------------------------- MODULE ToolInventory ----------------------------
(***************************************************************************)
(* Airlock's inventory of one MCP server's tools: what discovery saw, and  *)
(* which tools users allowlisted, in one file (mcpairlock/tools.go).  A    *)
(* Manager holds inventoryMu from loading the file to replacing it; the    *)
(* Managers of two processes do not know of each other.                    *)
(***************************************************************************)
EXTENDS Integers

CONSTANTS
  Managers,   \* processes over one projects directory
  Requests,   \* the discoveries and allowlist updates of a behaviour
  Tools,
  Hashes,     \* hashes of input schemas
  MutatingHashes,   \* those that mention a mutation
  Projects,   \* scopes an allowlist entry can have besides the server
  Nobody      \* an absent tool, a lock without holder

ASSUME InventoryAssumption ==
  /\ Nobody \notin Requests /\ Nobody \notin Hashes /\ "server" \notin Projects
  /\ Managers # {} /\ Tools # {}

VARIABLES
  offered,      \* what the server answers to tools/list
  inventory,    \* the file
  spoiled,      \* the file cannot be decoded
  inventoryMu,  \* of each Manager: the request that holds it
  update,       \* of each request: where it is and what it holds
  granted,      \* history: the allowlist the acknowledged updates make
  sightings,    \* history: which discovery wrote which schema of which tool
  raced         \* history: two Managers were ever between load and save

inventoryVars == <<offered, inventory, spoiled, inventoryMu, update, granted, sightings, raced>>

D == INSTANCE ToolDecision WITH Scopes <- {"route"}

Places == Projects \union {"server"}
Record == [hash : Hashes, state : {"new", "known", "changed"}, risk : {"read_only", "cloud_mutation"}]
Rows   == [Tools -> Record \union {Nobody}]
Listing == [Tools -> Hashes \union {Nobody}]
Snapshot == [allow : SUBSET (Places \X Tools), rows : Rows]

InventoryTypeOK ==
  /\ offered \in Listing /\ inventory \in Snapshot /\ spoiled \in BOOLEAN /\ raced \in BOOLEAN
  /\ inventoryMu \in [Managers -> Requests \union {Nobody}]
  /\ update \in [Requests ->
       [pc : {"idle", "wait", "loaded", "saved", "failed"}, kind : {"discover", "allow", "remove"}, manager : Managers,
        listing : Listing, entry : Places \X Tools, snapshot : Snapshot, afresh : BOOLEAN]]
  /\ granted \subseteq Places \X Tools

Fresh == [allow |-> {}, rows |-> [t \in Tools |-> Nobody]]

(* ClassifyTool reads names, descriptions and schemas: some schemas of a   *)
(* tool mention a mutation.                                                *)
Classify(hash) == IF hash \in MutatingHashes THEN "cloud_mutation" ELSE "read_only"

Manager(r)  == update[r].manager
MoveTo(r, pc) == update' = [update EXCEPT ![r].pc = pc]

-----------------------------------------------------------------------------
(* isToolAllowlisted: an entry for the server, or for the call's project. *)
Allowlisted(snapshot, project, t) ==
  <<"server", t>> \in snapshot.allow \/ <<project, t>> \in snapshot.allow

(* evaluateToolFromSnapshot: an undiscovered tool is of unknown schema and risk. *)
Evaluate(snapshot, project, t) ==
  LET row == snapshot.rows[t] IN
  IF row = Nobody THEN D!DecideTool("unknown", "unknown", Allowlisted(snapshot, project, t))
  ELSE D!DecideTool(row.risk, row.state, Allowlisted(snapshot, project, t))

(* Faulty variant: a tool that was seen before is known. *)
SeenIsKnown(prior, hash) ==
  [hash |-> hash, risk |-> Classify(hash), state |-> IF prior = Nobody THEN "new" ELSE "known"]

(* persistDiscoveredTools on one listed tool. *)
Observe(prior, hash) ==
  [hash |-> hash, risk |-> Classify(hash),
   state |-> IF prior = Nobody THEN "new" ELSE IF prior.hash = hash THEN "known" ELSE "changed"]

-----------------------------------------------------------------------------
(* DiscoverTools up to the answer of the probe, which no lock covers: a    *)
(* server that is not available, does not answer in time or fails changes  *)
(* nothing.                                                                *)
Probe(r) ==
  /\ update[r].pc = "idle"
  /\ \E m \in Managers, answer \in {"wait", "failed"} :
       update' = [update EXCEPT ![r].pc = answer, ![r].kind = "discover",
                                ![r].manager = m, ![r].listing = offered]
  /\ UNCHANGED <<offered, inventory, spoiled, inventoryMu, granted, sightings, raced>>

(* SetToolAllowlist is called. *)
AskAllowlist(r) ==
  /\ update[r].pc = "idle"
  /\ \E m \in Managers, place \in Places, t \in Tools, kind \in {"allow", "remove"} :
       update' = [update EXCEPT ![r].pc = "wait", ![r].kind = kind, ![r].manager = m,
                                ![r].entry = <<place, t>>]
  /\ UNCHANGED <<offered, inventory, spoiled, inventoryMu, granted, sightings, raced>>

Discovered(snapshot, listing) ==
  [snapshot EXCEPT !.rows =
     [t \in Tools |-> IF listing[t] = Nobody THEN Nobody ELSE Observe(snapshot.rows[t], listing[t])]]

(* The update function on the file's content. *)
Changed(r, snapshot) ==
  CASE update[r].kind = "discover" -> Discovered(snapshot, update[r].listing)
    [] update[r].kind = "allow"    -> [snapshot EXCEPT !.allow = @ \union {update[r].entry}]
    [] update[r].kind = "remove"   -> [snapshot EXCEPT !.allow = @ \ {update[r].entry}]

(* loadInventoryUnlocked and the update function.  Discovery starts over    *)
(* from an undecodable file, the allowlist included; an update refuses it. *)
Loaded(r) ==
  /\ update' = [update EXCEPT ![r].pc = "loaded", ![r].afresh = spoiled,
                   ![r].snapshot = Changed(r, IF spoiled THEN Fresh ELSE inventory)]
  /\ raced' = (raced \/ \E q \in Requests : update[q].pc = "loaded" /\ Manager(q) # Manager(r))

(* Faulty variant: load and save are locked one by one. *)
LoadUnlocked(r) ==
  /\ update[r].pc = "wait" /\ inventoryMu[Manager(r)] = Nobody
  /\ Loaded(r) /\ UNCHANGED <<offered, inventory, spoiled, inventoryMu, granted, sightings>>

(* updateInventoryAtomically: lock, load, change. *)
LoadInventory(r) ==
  /\ update[r].pc = "wait" /\ inventoryMu[Manager(r)] = Nobody
  /\ IF spoiled /\ update[r].kind # "discover"
     THEN MoveTo(r, "failed") /\ UNCHANGED <<inventoryMu, raced>>
     ELSE inventoryMu' = [inventoryMu EXCEPT ![Manager(r)] = r] /\ Loaded(r)
  /\ UNCHANGED <<offered, inventory, spoiled, granted, sightings>>

(* ... save and unlock; a failed save leaves the old file. *)
SaveInventory(r) ==
  /\ update[r].pc = "loaded"
  /\ inventoryMu' = [inventoryMu EXCEPT ![Manager(r)] = Nobody]
  /\ \/ /\ inventory' = update[r].snapshot /\ spoiled' = FALSE
        /\ granted' = Changed(r, [Fresh EXCEPT !.allow = IF update[r].afresh THEN {} ELSE granted]).allow
        /\ sightings' = sightings \union
             IF update[r].kind # "discover" THEN {}
             ELSE {<<r, t, update[r].listing[t]>> : t \in {u \in Tools : update[r].listing[u] # Nobody}}
        /\ MoveTo(r, "saved")
     \/ MoveTo(r, "failed") /\ UNCHANGED <<inventory, spoiled, granted, sightings>>
  /\ UNCHANGED <<offered, raced>>

(* Another version of the server offers other tools. *)
ChangeTools ==
  /\ \E t \in Tools, h \in Hashes \union {Nobody} : offered' = [offered EXCEPT ![t] = h]
  /\ UNCHANGED <<inventory, spoiled, inventoryMu, update, granted, sightings, raced>>

(* Something outside the program damages the file. *)
Spoil ==
  /\ ~spoiled /\ spoiled' = TRUE
  /\ UNCHANGED <<offered, inventory, inventoryMu, update, granted, sightings, raced>>

InventoryInit ==
  /\ offered \in Listing /\ inventory = Fresh /\ spoiled = FALSE
  /\ inventoryMu = [m \in Managers |-> Nobody]
  /\ update = [r \in Requests |->
       [pc |-> "idle", kind |-> "discover", manager |-> CHOOSE m \in Managers : TRUE,
        listing |-> [t \in Tools |-> Nobody], entry |-> <<"server", CHOOSE t \in Tools : TRUE>>,
        snapshot |-> Fresh, afresh |-> FALSE]]
  /\ granted = {} /\ sightings = {} /\ raced = FALSE

InventoryNext ==
  \/ \E r \in Requests : Probe(r) \/ AskAllowlist(r) \/ LoadInventory(r) \/ SaveInventory(r)
  \/ ChangeTools \/ Spoil

-----------------------------------------------------------------------------
(* tools.go: "overlapping discovery and allowlist updates cannot drop each  *)
(* other's persisted changes", unless two processes update at once.  Even   *)
(* then a schema passes as known only after two discoveries saw it, so a    *)
(* tool runs without approval only if it reads, by a schema seen twice, and *)
(* no call is open to a tool nobody ever allowlisted.                       *)
SeenTwice(t, h) ==
  \E q, r \in Requests : q # r /\ <<q, t, h>> \in sightings /\ <<r, t, h>> \in sightings

InventoryKept ==
  /\ ~raced /\ ~spoiled => inventory.allow = granted
  /\ \A t \in Tools : LET row == inventory.rows[t] IN
       row # Nobody /\ row.state = "known" => SeenTwice(t, row.hash)
  /\ \A t \in Tools, p \in Projects :
       LET verdict == Evaluate(inventory, p, t).status IN
       /\ verdict = "allowed" => SeenTwice(t, inventory.rows[t].hash) /\ inventory.rows[t].risk = "read_only"
       /\ verdict = "approval_required" =>
            \E r \in Requests : update[r].kind = "allow" /\ update[r].pc = "saved"
                                 /\ update[r].entry \in {<<"server", t>>, <<p, t>>}
=============================================================================
