----------------------------- MODULE MCAgentRuns -----------------------------
(* Model-checking instance of AgentRuns: every exported method, on runs    *)
(* that are evicted while their gates are undecided.                       *)
EXTENDS AgentRuns
=============================================================================
