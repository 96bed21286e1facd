--------------------------- MODULE MCLongRunning ----------------------------
(* Small instances of the long-running job for TLC.                        *)
EXTENDS LongRunning

CONSTANTS x1, j1

\* Jobs that are done at once, on the way, with the last poll of the budget or
\* one too late; one that fails, and an input submit_job cannot read.
Job(n, fails) == [job |-> j1, valid |-> TRUE, succeed_after |-> n, fail_job |-> fails]
AllInputs == {Job(n, FALSE) : n \in {0, 3, MaxPolls, MaxPolls + 3}}
               \cup {Job(3, TRUE), [Job(3, FALSE) EXCEPT !.valid = FALSE]}

SmallBudget == [service |-> 1, all |-> 1]

\* The deployed waits leave room for the deadline, as the theorem about it asks.
ASSUME BudgetFits
=============================================================================
