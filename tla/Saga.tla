-------------------------------- MODULE Saga --------------------------------
(***************************************************************************)
(* The order-fulfilment saga (patterns/saga): the Step Functions state     *)
(* machine of statemachine.asl.json, the Lambda handlers of handlers.py it *)
(* invokes and the DynamoDB items of store.py they write.                  *)
(*                                                                         *)
(* An execution is a client of three services that fail separately.  The   *)
(* state machine waits for at most one invocation, but an invocation whose *)
(* response was lost, or whose Task timed out, keeps running: it stays in  *)
(* calls, unawaited, and still writes.  Every store call of a handler is   *)
(* one atomic step; what a handler does in memory between two store calls  *)
(* belongs to the call before it.                                          *)
(***************************************************************************)
EXTENDS Naturals, FiniteSets

CONSTANTS
  Execs,        \* executions of the state machine
  Orders,       \* values of order_id
  NoOrder,      \* the input has no order block with an order_id
  NoId,         \* a result or a detail that carries no identifier
  Inputs,       \* execution inputs: order, payable, fail_at, flaky_steps
  Budget,       \* MaxAttempts of each kind of Retry entry
  FaultBudgets  \* fault kind -> how often: the combinations that may happen

ForwardStates == {"CreateOrder", "ChargePayment", "ReserveInventory", "ScheduleShipment"}
CompensationStates == {"ReleaseInventory", "RefundPayment", "CancelOrder"}
TaskStates == ForwardStates \cup CompensationStates \cup {"CompleteSaga", "MarkFailed"}
Terminals == {"SagaSucceeded", "SagaFailed", "CompensationFailed",
              "ExecutionFailed", "ExecutionTimedOut"}
Retriers == {"transient", "service", "completion", "compensation", "marking"}
FaultKinds == {"crash", "throttle", "lost", "timeout", "expire"}

ASSUME SagaAssumption ==
  /\ NoOrder \notin Orders
  /\ NoId \notin Orders \cup (Execs \X Nat)
  /\ Inputs \subseteq [order : Orders \cup {NoOrder}, payable : BOOLEAN,
                       fail_at : ForwardStates \cup {"none"},
                       flaky_steps : [ForwardStates -> Nat]]
  /\ Budget \in [Retriers -> Nat]
  /\ FaultBudgets \subseteq [FaultKinds -> Nat]

VARIABLES
  input,      \* execution -> its input, fixed when it is started
  pc,         \* execution -> the state it is in
  tries,      \* execution -> retries used in that state, per Retry entry
  results,    \* execution -> $.results: the identifiers it has received
  invoked,    \* execution -> how many invocations it has made
  awaiting,   \* execution -> the invocation it waits for, 0 if none
  calls,      \* the invocations running in Lambda, awaited or not
  store,      \* order_id -> its DynamoDB item
  history,    \* every record_step that took effect (ghost)
  faults      \* faults injected so far

vars == <<input, pc, tries, results, invoked, awaiting, calls, store, history, faults>>

-----------------------------------------------------------------------------
(* The state machine's tables.                                             *)

(* A definition named X_Y is X with the bug Y: the mutant that shows that  *)
(* a property depends on X.  The specification does not use it.            *)

NextState_SkipsRefund == [
  CreateOrder      |-> "ChargePayment",    ChargePayment |-> "ReserveInventory",
  ReserveInventory |-> "ScheduleShipment", ScheduleShipment |-> "CompleteSaga",
  CompleteSaga     |-> "SagaSucceeded",    ReleaseInventory |-> "CancelOrder",
  RefundPayment    |-> "CancelOrder",      CancelOrder |-> "MarkFailed",
  MarkFailed       |-> "SagaFailed"]
NextState == [
  CreateOrder      |-> "ChargePayment",    ChargePayment |-> "ReserveInventory",
  ReserveInventory |-> "ScheduleShipment", ScheduleShipment |-> "CompleteSaga",
  CompleteSaga     |-> "SagaSucceeded",    ReleaseInventory |-> "RefundPayment",
  RefundPayment    |-> "CancelOrder",      CancelOrder |-> "MarkFailed",
  MarkFailed       |-> "SagaFailed"]

CatchState_LateByOne == [
  CreateOrder      |-> "MarkFailed",         ChargePayment |-> "CancelOrder",
  ReserveInventory |-> "CancelOrder",        ScheduleShipment |-> "ReleaseInventory",
  CompleteSaga     |-> "ExecutionFailed",    ReleaseInventory |-> "CompensationFailed",
  RefundPayment    |-> "CompensationFailed", CancelOrder |-> "CompensationFailed",
  MarkFailed       |-> "ExecutionFailed"]
\* A Task without a Catch fails the whole execution.
CatchState == [
  CreateOrder      |-> "MarkFailed",         ChargePayment |-> "CancelOrder",
  ReserveInventory |-> "RefundPayment",      ScheduleShipment |-> "ReleaseInventory",
  CompleteSaga     |-> "ExecutionFailed",    ReleaseInventory |-> "CompensationFailed",
  RefundPayment    |-> "CompensationFailed", CancelOrder |-> "CompensationFailed",
  MarkFailed       |-> "ExecutionFailed"]

\* The Retry entries of state s that match error e: at most one does.
RetriersFor(s, e) ==
  CASE s \in ForwardStates      -> {e} \cap {"transient", "service"}
    [] s \in CompensationStates -> {"compensation"}
    [] s = "CompleteSaga"       -> {"completion"}
    [] s = "MarkFailed"         -> {"marking"}

\* The step whose effect a compensation undoes.
Compensates == [ReleaseInventory |-> "ReserveInventory",
                RefundPayment    |-> "ChargePayment",
                CancelOrder      |-> "CreateOrder"]

-----------------------------------------------------------------------------
(* DynamoDB items and invocations.                                         *)

Statuses == {"none", "STARTED", "COMPLETED", "COMPENSATING", "FAILED"}
Recorders == ForwardStates \cup CompensationStates
Ids == (Execs \X Nat) \cup Orders \cup {NoId}
Entries == [status : {"none", "DONE", "SKIPPED"}, id : Ids]
NoEntry == [status |-> "none", id |-> NoId]

\* mapped: the item has the step_status and attempts maps put_item creates.
Items == [status : Statuses, mapped : BOOLEAN,
          steps : [Recorders -> Entries], attempts : [ForwardStates -> Nat]]
NoItem == [status |-> "none", mapped |-> FALSE,
           steps |-> [s \in Recorders |-> NoEntry],
           attempts |-> [s \in ForwardStates |-> 0]]

\* at: the store call the invocation makes next; "reply" when it has made all.
Calls == [of : Execs, no : Nat, fn : TaskStates,
          at : {"start", "inject", "write", "status", "reply"}]

FirstOp(fn) == CASE fn = "CreateOrder" -> "start"
                 [] fn \in ForwardStates \ {"CreateOrder"} -> "inject"
                 [] OTHER -> "status"

OrderOf(c) == input[c.of].order
Awaited(c) == awaiting[c.of] = c.no

\* _order, and the validation create_order does before it touches the store.
Rejects(c) == \/ OrderOf(c) = NoOrder
              \/ c.fn = "CreateOrder" /\ ~ input[c.of].payable

\* The identifier an invocation of a forward step creates: uuid4, so one of
\* its own for every invocation; create_order's result has the order_id.
NewId(c) == IF c.fn = "CreateOrder" THEN OrderOf(c) ELSE <<c.of, c.no>>

Done(id) == [status |-> "DONE", id |-> id]

DetailOf_WrongKey(c) == results[c.of]["CreateOrder"]
\* _completed_detail: the result of the undone step in event.results.
DetailOf(c) == results[c.of][Compensates[c.fn]]

\* What the invocation passes to record_step.
EntryOf(c) ==
  IF c.fn \in ForwardStates THEN Done(NewId(c))
  ELSE IF c.fn = "CancelOrder" THEN Done(NoId)
  ELSE IF DetailOf(c) # NoId THEN Done(DetailOf(c))
  ELSE [status |-> "SKIPPED", id |-> NoId]

NewStatus(fn) == CASE fn = "CompleteSaga" -> "COMPLETED"
                   [] fn = "MarkFailed"   -> "FAILED"
                   [] OTHER               -> "COMPENSATING"

-----------------------------------------------------------------------------
(* Step Functions.                                                         *)

Init ==
  /\ input \in [Execs -> Inputs]
  /\ pc = [x \in Execs |-> "InitializeSaga"]
  /\ tries = [x \in Execs |-> [r \in Retriers |-> 0]]
  /\ results = [x \in Execs |-> [s \in ForwardStates |-> NoId]]
  /\ invoked = [x \in Execs |-> 0]
  /\ awaiting = [x \in Execs |-> 0]
  /\ calls = {}
  /\ store = [o \in Orders |-> NoItem]
  /\ history = {}
  /\ faults = [k \in FaultKinds |-> 0]

\* Leave the current state for s: the Retry counters start afresh.
Enter(x, s) ==
  /\ pc' = [pc EXCEPT ![x] = s]
  /\ tries' = [tries EXCEPT ![x] = [r \in Retriers |-> 0]]
  /\ awaiting' = [awaiting EXCEPT ![x] = 0]

RetryOrCatch(x, usable) ==
  \/ \E r \in usable :
       /\ tries' = [tries EXCEPT ![x][r] = @ + 1]
       /\ awaiting' = [awaiting EXCEPT ![x] = 0]
       /\ UNCHANGED pc
  \/ usable = {} /\ Enter(x, CatchState[pc[x]])

OnError_Unbounded(x, e) == RetryOrCatch(x, RetriersFor(pc[x], e))
OnError_OneTooFew(x, e) ==
  RetryOrCatch(x, {r \in RetriersFor(pc[x], e) : tries[x][r] + 1 < Budget[r]})
\* The Task of x fails with error e: retry it, or follow its Catch.
OnError(x, e) ==
  RetryOrCatch(x, {r \in RetriersFor(pc[x], e) : tries[x][r] < Budget[r]})

\* The Pass state that seeds $.results.
InitializeSaga(x) ==
  /\ pc[x] = "InitializeSaga"
  /\ Enter(x, "CreateOrder")
  /\ results' = [results EXCEPT ![x] = [s \in ForwardStates |-> NoId]]
  /\ UNCHANGED <<input, invoked, calls, store, history, faults>>

\* Invoke the Lambda of the current Task state, for the first time or again.
Invoke(x) ==
  /\ pc[x] \in TaskStates /\ awaiting[x] = 0
  /\ invoked' = [invoked EXCEPT ![x] = @ + 1]
  /\ awaiting' = [awaiting EXCEPT ![x] = invoked[x] + 1]
  /\ calls' = calls \cup
       {[of |-> x, no |-> invoked[x] + 1, fn |-> pc[x], at |-> FirstOp(pc[x])]}
  /\ UNCHANGED <<input, pc, tries, results, store, history, faults>>

-----------------------------------------------------------------------------
(* Lambda invocations.                                                     *)

\* The invocation c is at its store call op, its event accepted.
At(c, op) == c.at = op /\ ~ Rejects(c)

Continue(c, op) ==
  /\ calls' = (calls \ {c}) \cup {[c EXCEPT !.at = op]}
  /\ UNCHANGED <<pc, tries, awaiting>>

Raise_Unreported(c, e) == calls' = calls \ {c} /\ UNCHANGED <<pc, tries, awaiting>>
\* The handler raises e: the state machine learns of it if it still waits.
Raise(c, e) ==
  /\ calls' = calls \ {c}
  /\ IF Awaited(c) THEN OnError(c.of, e) ELSE UNCHANGED <<pc, tries, awaiting>>

Reject(c) ==
  /\ c.at = FirstOp(c.fn) /\ Rejects(c)
  /\ Raise(c, "business")
  /\ UNCHANGED <<input, results, invoked, store, history, faults>>

Start_WithoutMaps(c) ==
  /\ At(c, "start")
  /\ store' = [store EXCEPT ![OrderOf(c)].status = "STARTED"]
  /\ Continue(c, "inject")
  /\ UNCHANGED <<input, results, invoked, history, faults>>
\* SagaStore.start: put_item replaces whatever item the order has.
Start(c) ==
  /\ At(c, "start")
  /\ store' = [store EXCEPT ![OrderOf(c)] =
                 [NoItem EXCEPT !.status = "STARTED", !.mapped = TRUE]]
  /\ Continue(c, "inject")
  /\ UNCHANGED <<input, results, invoked, history, faults>>

\* _maybe_inject_transient, then _maybe_inject_business_failure.
Inject(c) ==
  LET o        == OrderOf(c)
      flaky    == input[c.of].flaky_steps[c.fn]
      attempt  == store[o].attempts[c.fn] + 1
      declined == input[c.of].fail_at = c.fn
  IN  /\ At(c, "inject")
      /\ IF flaky = 0 \/ ~ store[o].mapped
           THEN UNCHANGED store
           ELSE store' = [store EXCEPT ![o].attempts[c.fn] = attempt]
      /\ IF flaky # 0 /\ ~ store[o].mapped THEN Raise(c, "client")
         ELSE IF attempt < flaky THEN Raise(c, "transient")
         ELSE IF declined THEN Raise(c, "business")
         ELSE Continue(c, "write")
      /\ UNCHANGED <<input, results, invoked, history, faults>>

Write_ReplacesMap(c) ==
  /\ At(c, "write") /\ store[OrderOf(c)].mapped
  /\ store' = [store EXCEPT ![OrderOf(c)].steps = [NoItem.steps EXCEPT ![c.fn] = EntryOf(c)]]
  /\ history' = history \cup
       {[of |-> c.of, no |-> c.no, step |-> c.fn, entry |-> EntryOf(c)]}
  /\ Continue(c, "reply")
  /\ UNCHANGED <<input, results, invoked, faults>>
\* SagaStore.record_step: the nested path must resolve, or update_item fails.
Write(c) ==
  LET o == OrderOf(c)
  IN  /\ At(c, "write")
      /\ IF store[o].mapped
           THEN /\ store' = [store EXCEPT ![o].steps[c.fn] = EntryOf(c)]
                /\ history' = history \cup
                     {[of |-> c.of, no |-> c.no, step |-> c.fn, entry |-> EntryOf(c)]}
                /\ Continue(c, "reply")
           ELSE Raise(c, "client") /\ UNCHANGED <<store, history>>
      /\ UNCHANGED <<input, results, invoked, faults>>

\* SagaStore.set_status: an unconditional upsert.
SetStatus(c) ==
  /\ At(c, "status")
  /\ store' = [store EXCEPT ![OrderOf(c)].status = NewStatus(c.fn)]
  /\ Continue(c, IF c.fn \in CompensationStates THEN "write" ELSE "reply")
  /\ UNCHANGED <<input, results, invoked, history, faults>>

\* The handler returns: the result of a forward step goes to $.results.
Reply(c) ==
  /\ At(c, "reply")
  /\ calls' = calls \ {c}
  /\ IF Awaited(c)
       THEN /\ Enter(c.of, NextState[pc[c.of]])
            /\ results' = IF c.fn \in ForwardStates
                            THEN [results EXCEPT ![c.of][c.fn] = NewId(c)]
                            ELSE results
       ELSE UNCHANGED <<pc, tries, awaiting, results>>
  /\ UNCHANGED <<input, invoked, store, history, faults>>

Run(c) == Reject(c) \/ Start(c) \/ Inject(c) \/ Write(c) \/ SetStatus(c) \/ Reply(c)

-----------------------------------------------------------------------------
(* Faults.                                                                 *)

Fault(kind) ==
  /\ faults' = [faults EXCEPT ![kind] = @ + 1]
  /\ \E b \in FaultBudgets : \A k \in FaultKinds : faults'[k] <= b[k]

\* The sandbox dies between two store calls: out of memory, Lambda timeout, or
\* a DynamoDB error that outlives the client's retries.  In no forward Retry.
Crash(c) ==
  /\ Fault("crash")
  /\ Raise(c, "crash")
  /\ UNCHANGED <<input, results, invoked, store, history>>

\* Lambda refuses the invocation: TooManyRequests, ServiceException.
Throttle(x) ==
  /\ Fault("throttle")
  /\ pc[x] \in TaskStates /\ awaiting[x] = 0
  /\ OnError(x, "service")
  /\ UNCHANGED <<input, results, invoked, calls, store, history>>

\* The response is lost (SdkClientException): the invocation is not.
Lose(x) ==
  /\ Fault("lost")
  /\ awaiting[x] # 0
  /\ OnError(x, "service")
  /\ UNCHANGED <<input, results, invoked, calls, store, history>>

\* States.Timeout on a Task whose Lambda may run longer than the Task.
TaskTimeout(x) ==
  /\ Fault("timeout")
  /\ awaiting[x] # 0
  /\ OnError(x, "timeout")
  /\ UNCHANGED <<input, results, invoked, calls, store, history>>

\* The execution's own TimeoutSeconds: no Catch applies.
Expire(x) ==
  /\ Fault("expire")
  /\ pc[x] \notin Terminals
  /\ Enter(x, "ExecutionTimedOut")
  /\ UNCHANGED <<input, results, invoked, calls, store, history>>

-----------------------------------------------------------------------------
Advance(x) == InitializeSaga(x) \/ Invoke(x)
Disturb(x) == Throttle(x) \/ Lose(x) \/ TaskTimeout(x) \/ Expire(x)

Next == \/ \E x \in Execs : Advance(x) \/ Disturb(x)
        \/ \E c \in calls : Run(c) \/ Crash(c)

\* Step Functions schedules every execution; an awaited invocation runs on or
\* dies.  Nothing is assumed of an invocation nobody waits for.
Fairness == \A x \in Execs :
  /\ WF_vars(Advance(x))
  /\ WF_vars(\E c \in calls : c.of = x /\ Awaited(c) /\ Run(c))

Spec == Init /\ [][Next]_vars /\ Fairness
=============================================================================
