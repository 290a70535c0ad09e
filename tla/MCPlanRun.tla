------------------------------ MODULE MCPlanRun ------------------------------
(* Model-checking instance of PlanRun. *)
EXTENDS PlanRun, TLC

Symmetry == Permutations(Commands) \union Permutations(Connections)

(* As a bound, at most two of the commands are under way at once. *)
TwoAtATime == Cardinality({c \in Commands : Busy(c)}) <= 2
=============================================================================
