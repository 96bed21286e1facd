-------------------------- MODULE MCScheduledBatch --------------------------
(* A small instance of the scheduled batch for TLC.                        *)
EXTENDS ScheduledBatch, TLC

CONSTANTS nightly, manual

Budget(throttle, lost, raise, stage) ==
  ("throttle" :> throttle) @@ ("lost" :> lost) @@ ("raise" :> raise) @@ ("stage" :> stage)

\* Faults of every kind together; and as many as use up the retries of a shard
\* and of a stage.
Budgets == {Budget(1, 2, 1, 1), Budget(5, 0, 0, 0), Budget(0, 1, 4, 0)}
=============================================================================
