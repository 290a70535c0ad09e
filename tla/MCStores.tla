------------------------------ MODULE MCStores ------------------------------
(***************************************************************************)
(* Model-checking instance of the stores beside the Agent Runs: Airlock's  *)
(* attestations and tool inventory, the agent policies, the route attempts *)
(* and what the MCP server keeps of a project.  No two of them share       *)
(* state, so a behaviour is one of one store: "subject" names it, and the  *)
(* others stay as they began.  The states of the stores add up, instead of *)
(* multiplying, and each store's properties are checked as its module      *)
(* states them.                                                            *)
(***************************************************************************)
EXTENDS Attestations, PolicyStore, ToolInventory, RouteAttempts, McpServer, TLC

VARIABLE subject

stores == <<subject, attestationVars, policyVars, inventoryVars, routeVars, mcpVars>>

Init ==
  /\ subject \in {"attestations", "policies", "inventory", "attempts", "mcp"}
  /\ AttestationsInit /\ PolicyInit /\ InventoryInit /\ RouteInit /\ McpInit
  /\ subject # "attestations" => binary = [s \in Servers |-> CHOOSE f \in Fingerprints : TRUE]
  /\ subject # "inventory" => \A t \in Tools : offered[t] = Nobody
  /\ subject # "mcp" => approvalToken = NoToken /\ descriptor = CHOOSE d \in [McpProjects -> Descriptors] : TRUE

AttestationsStep ==
  /\ subject = "attestations" /\ AttestationsNext
  /\ UNCHANGED <<subject, policyVars, inventoryVars, routeVars, mcpVars>>

PoliciesStep ==
  /\ subject = "policies" /\ PolicyNext
  /\ UNCHANGED <<subject, attestationVars, inventoryVars, routeVars, mcpVars>>

InventoryStep ==
  /\ subject = "inventory" /\ InventoryNext
  /\ UNCHANGED <<subject, attestationVars, policyVars, routeVars, mcpVars>>

AttemptsStep ==
  /\ subject = "attempts" /\ RouteNext
  /\ UNCHANGED <<subject, attestationVars, policyVars, inventoryVars, mcpVars>>

McpStep ==
  /\ subject = "mcp" /\ McpNext
  /\ UNCHANGED <<subject, attestationVars, policyVars, inventoryVars, routeVars>>

Next == AttestationsStep \/ PoliciesStep \/ InventoryStep \/ AttemptsStep \/ McpStep

Spec == Init /\ [][Next]_stores

(* The instance takes the requests of every store from one set. *)
Symmetry == Permutations(Approvals) \union Permutations(StudioProcesses)

(* What tells two states apart.  The variables of the other stores never   *)
(* change, and nothing reads what a request to the inventory held once it  *)
(* is over, except the entry it saved, nor a record of the MCP server      *)
(* after its answer.                                                       *)
InventoryView ==
  <<offered, inventory, spoiled, inventoryMu, granted, sightings, raced,
    [r \in Requests |->
       CASE update[r].pc = "saved"  -> <<update[r].pc, update[r].kind, update[r].entry>>
         [] update[r].pc = "failed" -> <<update[r].pc>>
         [] update[r].pc = "wait"   -> <<[update[r] EXCEPT !.snapshot = Fresh]>>
         [] OTHER                   -> <<update[r]>>]>>

McpView ==
  <<approvalToken, descriptor, serving, stage, lines, auditLog, answers, drafts, planFiles, branches, unlogged,
    IF stage \in {"audit", "answer"} THEN entry ELSE Fails>>

StateView ==
  <<subject,
    CASE subject = "attestations" -> attestationVars
      [] subject = "policies"     -> policyVars
      [] subject = "inventory"    -> InventoryView
      [] subject = "attempts"     -> routeVars
      [] subject = "mcp"          -> McpView>>
=============================================================================
