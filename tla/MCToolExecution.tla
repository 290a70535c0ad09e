--------------------------- MODULE MCToolExecution ---------------------------
(* Model-checking instance of ToolExecution: one tool behind a policy that *)
(* allows reads freely and mutations after approval.                       *)
EXTENDS ToolExecution, TLC

MCPolicy ==
  <<[scope |-> "route", modes |-> {"read_only", "approved_execute"}, risk |-> "read_only",
     effect |-> "allow", approval |-> FALSE],
    [scope |-> "route", modes |-> {"approved_execute"}, risk |-> "cloud_mutation",
     effect |-> "allow", approval |-> TRUE]>>

Row(risk, schema, allowlisted) ==
  [risk |-> risk, schema |-> schema, allowlisted |-> allowlisted]

(* A mutating tool, and the same tool once rediscovered as a reader. *)
MutatingOnly  == {Row("cloud_mutation", "known", TRUE)}
Reclassified  == {Row("cloud_mutation", "known", TRUE), Row("read_only", "known", FALSE)}

ApprovedExecute == {"approved_execute"}
AnyReader       == {"read_only", "approved_execute"}

ClientSymmetry == Permutations(Clients)

(* As a bound, at most one of the requests is disconnected. *)
OneGone == Cardinality(gone) <= 1
=============================================================================
