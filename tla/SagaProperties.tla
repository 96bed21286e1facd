--------------------------- MODULE SagaProperties ---------------------------
(* What makes the saga of module Saga correct.                             *)
EXTENDS Saga

-----------------------------------------------------------------------------
\* Every variable has its type, and no Retry entry is used more often than
\* its MaxAttempts allows.
TypeOK ==
  /\ input \in [Execs -> Inputs]
  /\ pc \in [Execs -> TaskStates \cup Terminals \cup {"InitializeSaga"}]
  /\ tries \in [Execs -> [Retriers -> Nat]]
  /\ \A x \in Execs, r \in Retriers : tries[x][r] <= Budget[r]
  /\ results \in [Execs -> [ForwardStates -> Ids]]
  /\ invoked \in [Execs -> Nat]
  /\ awaiting \in [Execs -> Nat]
  /\ calls \subseteq Calls
  /\ store \in [Orders -> Items]
  /\ history \subseteq [of : Execs, no : Nat, step : Recorders, entry : Entries]
  /\ faults \in [FaultKinds -> Nat]

\* record_step and increment_attempt write below maps that only put_item
\* creates.  store.py says of record_step that "the path always resolves":
\* no invocation about to make such a write finds an item without the maps,
\* not even one that mark_failed's upsert created, nor one that outlived its
\* execution.
PathResolves ==
  \A c \in calls :
    c.at \in {"inject", "write"} /\ ~ Rejects(c) => store[OrderOf(c)].mapped

Recorded(x, s, e) == \E h \in history : h.of = x /\ h.step = s /\ h.entry = e

\* A refund names a payment this execution captured, and a release a
\* reservation it made, however often the charge or the refund was retried: the
\* Catch entries start the unwinding at the right compensation, so that none of
\* them ever finds nothing to compensate (the SKIPPED branches of
\* release_inventory and refund_payment).
CompensationHasItsTarget ==
  \A h \in history :
    h.step \in {"RefundPayment", "ReleaseInventory"} =>
      h.entry.status = "DONE" /\ Recorded(h.of, Compensates[h.step], h.entry)

\* The compensation of step s has taken effect, for the result received.
Compensated(x, s) ==
  \E c \in CompensationStates :
    /\ Compensates[c] = s
    /\ Recorded(x, c, Done(IF c = "CancelOrder" THEN NoId ELSE results[x][s]))

\* An execution that ends in SagaFailed has compensated every step whose
\* result it received, each with the identifier it received, and received
\* none from the shipment, which has no compensation.
ReceivedWorkIsCompensated ==
  \A x \in Execs : pc[x] = "SagaFailed" =>
    \A s \in ForwardStates : results[x][s] # NoId => Compensated(x, s)

-----------------------------------------------------------------------------
(* The contract.                                                           *)

PrecedingSteps == [
  CreateOrder      |-> {},
  ChargePayment    |-> {"CreateOrder"},
  ReserveInventory |-> {"CreateOrder", "ChargePayment"},
  ScheduleShipment |-> {"CreateOrder", "ChargePayment", "ReserveInventory"}]

PhaseOf(x) ==
  CASE pc[x] \in ForwardStates \cup {"InitializeSaga", "CompleteSaga"} -> "forward"
    [] pc[x] \in CompensationStates \cup {"MarkFailed"} -> "unwinding"
    [] pc[x] = "SagaSucceeded" -> "committed"
    [] pc[x] = "SagaFailed" -> "rolledBack"
    [] OTHER -> "stopped"

\* The steps whose result x has received, and whose compensation has not yet
\* taken effect.
Outstanding(x) == {s \in ForwardStates : results[x][s] # NoId /\ ~ Compensated(x, s)}

Contract == INSTANCE SagaContract WITH
  Sagas  <- Execs,
  Steps  <- ForwardStates,
  Before <- PrecedingSteps,
  phase  <- [x \in Execs |-> PhaseOf(x)],
  done   <- [x \in Execs |-> Outstanding(x)]

\* Seen from the results an execution has received and the compensations that
\* took effect, every execution keeps the saga contract: forward in order,
\* all or unwinding, latest step first, SagaFailed with nothing left to undo.
ImplementsContract == Contract!Spec

-----------------------------------------------------------------------------
(* The item in the table.                                                  *)

\* An invocation may have outlived the Task that waited for it.
Orphaned == faults["lost"] > 0 \/ faults["timeout"] > 0

SharesOrder(x) == \E y \in Execs \ {x} : input[y].order = input[x].order

\* The item follows the execution.  Its status at the end is COMPLETED exactly
\* when the execution succeeded, FAILED when it was rolled back, and neither of
\* the two when a compensation failed and someone has to look at it; and a step
\* whose result the execution has received stays recorded with that result, for
\* no crash, retry or compensation wipes it out.  Only an invocation that
\* outlives its Task, or another execution of the order, can break it.
FinalStatus(x) ==
  LET status == store[input[x].order].status
  IN  CASE pc[x] = "SagaSucceeded"      -> status = "COMPLETED"
        [] pc[x] = "SagaFailed"         -> status = "FAILED"
        [] pc[x] = "CompensationFailed" -> status \in {"STARTED", "COMPENSATING"}
        [] OTHER                        -> TRUE
RecordedStepsAreKept(x) ==
  \A s \in ForwardStates : results[x][s] # NoId =>
    store[input[x].order].steps[s] = Done(results[x][s])
ItemFollowsExecution ==
  \A x \in Execs : input[x].order \in Orders /\ ~ SharesOrder(x) /\ ~ Orphaned =>
    FinalStatus(x) /\ RecordedStepsAreKept(x)

\* "The saga failed and all previously completed steps were compensated": when an
\* execution reports so, every charge that was captured is refunded but for one
\* per attempt that died, timed out or lost its response after the capture.
Blame == faults["crash"] + faults["lost"] + faults["timeout"]
ChargesAreRefunded ==
  \A x \in Execs : pc[x] = "SagaFailed" =>
    Cardinality({h \in history : /\ h.of = x /\ h.step = "ChargePayment"
                                /\ ~ Recorded(x, "RefundPayment", h.entry)}) <= Blame

-----------------------------------------------------------------------------
(* Liveness.                                                               *)

\* Every execution ends, through retries, faults and compensations.
Termination == \A x \in Execs : <>(pc[x] \in Terminals)

\* A valid order that nothing declines, and whose flaky steps need no more
\* attempts than the Retry entries grant.  create_order resets the counter of
\* its own attempts, so it never gets past its first one.
Healthy(x) ==
  /\ input[x].order \in Orders /\ input[x].payable
  /\ input[x].fail_at = "none"
  /\ \A s \in ForwardStates :
       input[x].flaky_steps[s] <= IF s = "CreateOrder" THEN 1 ELSE Budget["transient"] + 1

\* No fault but refused invocations, and no more of them than any state retries.
OnlyThrottled ==
  /\ \A k \in FaultKinds \ {"throttle"} : faults[k] = 0
  /\ \A r \in Retriers \ {"transient"} : faults["throttle"] <= Budget[r]

\* The Retry entries absorb transient errors, at their limit and together with
\* refused invocations: a healthy order is completed.
HealthyOrdersComplete ==
  \A x \in Execs : Healthy(x) => <>(pc[x] = "SagaSucceeded" \/ ~ OnlyThrottled)
=============================================================================
