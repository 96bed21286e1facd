----------------------------- MODULE MCApproval -----------------------------
(* Small instances of the approval gate for TLC.                           *)
EXTENDS Approval

CONSTANTS x1, r1

AllInputs == [request : {r1}, valid : BOOLEAN]
ValidInputs == [request : {r1}, valid : {TRUE}]

\* Fewer retries than faults; AslBudget is MaxAttempts of statemachine.asl.json.
SmallBudget == [service |-> 1, all |-> 1]
AslBudget == [service |-> 4, all |-> 3]
=============================================================================
