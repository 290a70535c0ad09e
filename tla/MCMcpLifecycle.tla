--------------------------- MODULE MCMcpLifecycle ---------------------------
(* Model-checking instance of McpLifecycle with Attestations. *)
EXTENDS McpLifecycle
=============================================================================
