# A verification of aws-serverless-patterns

TLA+ models of the eight patterns in this repository, checked with TLC and
proved with TLAPS. The models are translated from the state machines (`statemachine.asl.json`,
`step_functions.tf`), the Lambda handlers and the store modules of each pattern,
and the Terraform settings that shape their behaviour; AWS itself (Step
Functions, Lambda, DynamoDB, SQS, SNS, SES, API Gateway) and Powertools are
modelled from how that code uses them.

`PROJECT.json` lists components, runs, mutants, findings, hazards and theorems,
and maps every definition to the lines it stands for. To repeat a run:
`tlc -config <run>.cfg <module>`; to repeat the proofs, `tlapm` on `Recursion`,
`SagaProofs`, `ApprovalProofs`, `LongRunningProofs`, `SqsProofs`,
`RetryBackoffProofs`, `ConsumerProofs` and `ScheduledBatchProofs`.

## 1. The system

Eight independent patterns; nothing is shared between them at run time. Each is
a Terraform module that deploys AWS resources and a handful of Python handlers.

| Pattern | State it keeps | Operations | What is hard |
|---|---|---|---|
| saga | the execution's position and `$.results`; per order an item with status, step_status, attempts | four forward steps, three compensations, complete, mark failed | a step that fails after its effect; retries; late invocations; where each Catch enters the compensation chain |
| approval-workflow | the execution's position and its task token; per request an item with the decision | prepare, send e-mail, decide (HTTP), on_approved, on_rejected | clicks racing each other and the timeout; resumed but not recorded |
| long-running | the execution's position and `$.job`; per job an item with status, counter, token | submit, wait, poll, evaluate, sign-off, finalize | polls lost or late; budget against deadline; token overwritten |
| retry-backoff | queue, dead-letter queue, visibility and receive count | handle a batch, change visibility | redelivery while the batch still runs; backoff arithmetic |
| fan-out | a queue and dead-letter queue per consumer | publish, handle a batch | partial failure per consumer; what is acknowledged |
| webhook-ingest | queue, dead-letter queue, a signing key cached per environment | buffer, verify, process | key rotation against the cache; dropped or retried |
| idempotent-processor | queue, dead-letter queue, an idempotency record per key | lock, run, save, replay | a crash between effect and save; expiry |
| scheduled-batch | the execution's position and the shard results | split, map over shards, reduce | overlapping runs; failed shards |

How the parts of a pattern interact: Step Functions invokes Lambdas and waits
for their response (or, at `.waitForTaskToken`, for the token); Lambdas share
one DynamoDB item per business key; `decision_handler` is invoked by API Gateway
and calls back into Step Functions; SQS consumers answer with a partial batch
response that decides what is deleted and what is redelivered.

What makes each correct:

- saga: each received result is either kept by a saga that succeeds or
  compensated, in reverse order, by one that reports `SagaFailed`; a
  compensation always names work the same execution did; every execution ends.
- approval: one click decides a request; the outcome of the execution, the item
  and what the clicker is told all agree; an undecided execution ends anyway.
- long-running: the poll budget, and nothing else, ends the polling of a job
  that is not done; the item's token resumes the execution that waits.
- SQS patterns: no record is lost, or acknowledged without effect unless it is
  meant to be dropped; a record that keeps failing reaches the dead-letter queue
  after exactly maxReceiveCount receives; every record settles.
- webhook-ingest, besides: what the provider is told was accepted is on the
  queue, and a genuine event is dropped only by an environment that has cached
  another key than the event was signed with.
- idempotent-processor, besides: within the window the side effect of a request
  runs once; it runs again only after a fault between effect and save.
- scheduled-batch: every run ends with a summary that is true, a failed shard
  does not fail the run, the concurrency cap holds for each run.

## 2. What is modelled

### Conventions shared by the modules

A Step Functions execution is `pc`, the retries used in its current state
(`tries`) and the number of the invocation it waits for (`awaiting`). `Invoke`
starts an invocation, which is a record in the set `calls` and lives its own
life: each store call its handler makes is one atomic action (DynamoDB item
operations are atomic; everything a handler computes between two calls is local
to it and belongs to the call before). `Reply` and `Raise` report back only if
the execution still waits for that invocation; otherwise the invocation was
abandoned, and it still writes. This is what makes late writes part of every
behaviour in which a response is lost.

The faults of the three workflow modules, each kind switched on and bounded in
number by constants (`FaultBudgets` gives a saga the combinations of faults that
may happen; elsewhere `Faults` and `MaxFaults` give kinds and total):

| Fault | In AWS | In the code |
|---|---|---|
| `crash` | the sandbox dies (memory, Lambda timeout), DynamoDB or SES fails for good | an error no forward Retry names |
| `throttle` | Lambda refuses the invocation | `Lambda.TooManyRequestsException` in the Retry lists |
| `lost` | the response is lost, the invocation runs on | `Lambda.SdkClientException` in the Retry lists |
| `timeout` | a Task's `TimeoutSeconds` passes while its Lambda runs on | saga: 30 s or 60 s; no forward Retry names it |
| `expire` | the execution's `TimeoutSeconds` passes | saga: 900 s; nothing catches it |
| `abort` | `decision_handler` dies | approval: the clicker sees a 500 |

Data is abstracted to what the properties tell apart: an order, request or job
is a model value; an identifier made by `uuid4` is the pair of execution and
invocation number; times, amounts, links, e-mail text and log lines are left
out (LongRunning keeps the seconds an execution waits). Variables marked (ghost)
record what happened for the properties and are read by no action. A definition
named `X_Y` is `X` with a plausible bug `Y`; no specification uses it: it is
there so that each property can be shown to fail when the code is wrong.

### Saga (`Saga`, `SagaProperties`, `SagaContract`, `MCSaga`, `SagaProofs`)

`Saga` is the state machine with its Retry and Catch tables (`NextState`,
`CatchState`, `RetriersFor`), and the handlers call by call: `Start` is
`SagaStore.start`; `Inject` is `_maybe_inject_transient` and
`_maybe_inject_business_failure`; `Write` is `record_step`, including the failure
of a nested update when the item lacks its maps; `SetStatus` is `set_status`;
`Reject` is the validation before any of them. A compensation sets the status
and then records (`SetStatus`, `Write`, `Reply`), as in `handlers.py`, and
decides between DONE and SKIPPED from the results in its event (`DetailOf`).

`SagaContract` is what a saga promises, without Lambdas, items, retries or
faults: steps are completed in order, undone latest first, and `rolledBack` is
reached only with nothing left to undo. `SagaProperties` states the properties
and maps `Saga` onto the contract: a step is done when the execution holds its
result and no compensation has recorded that result.

### Approval gate (`Approval`, `MCApproval`, `ApprovalProofs`)

`decision_handler` is three actions: `Look` reads the item once (404, 409 or go
on), `Send` is `SendTaskSuccess`/`SendTaskFailure` (410 when the execution no
longer waits), `Record` is the conditional `record_decision` (409 when the item
was decided meanwhile). `Create`, `AttachToken`, `SendEmail` are the store calls
and the e-mail of the Task handlers. `TimeOut` is the gate's 172800 s; it needs
no fault, and it does not fire while the e-mail Lambda runs, which takes two
minutes at most.

`RequestWrapped` is where `PrepareRequest`'s result lands. The deployed state
machine wraps it twice (`ResultSelector` makes `{"request": ...}`, `ResultPath`
puts that at `$.request`): that is `TRUE`, and the run `approval_mailed` shows
that then no e-mail is ever sent (finding). Everything behind the e-mail would be
unreachable, so the other runs take `FALSE`: the event shape the handlers read
and `tests/test_approval_workflow.py:78` passes. The theorems hold for both.

### Long-running job (`LongRunning`, `MCLongRunning`, `LongRunningProofs`)

`poll_job` is `Get`, `Increment`, `UpdateProgress`, `Reply`: it reads the job's
parameters, then counts atomically, then writes the status. `WaitForJob` adds
the backed-off wait to `elapsed` and is the only place where the execution's
`Deadline` can pass besides the sign-off gate (`TimeOut`). `SignOff` is the
operator of the README, who reads the token from the item. The wait is
`_backoff_seconds` with its real arithmetic.

### Queues (`Sqs`, `Delivery`, `SqsProofs`)

`Sqs` is the substrate the four SQS consumers extend: standard queues with a
dead-letter queue each, messages that become visible, are received with a lease,
redriven after `MaxReceiveCount` receives, and an event source mapping per queue
that hands batches to up to `|Workers|` environments. An environment's `job` is
its batch, the records it has still to handle and its `batchItemFailures`;
`Respond` deletes the others, `FailBatch` deletes none. What a handler does with a
record is the pattern's own module: `Handled(e, c, ok)` is the end of that.
Records of a batch are handled in any order: no handler relies on it. The lease
is six times the function's timeout in every pattern (`main.tf`), so it lapses
only when no invocation has the record any more.

`Delivery` is the abstract specification: a copy of a message is pending until it
is acknowledged, for which its effect must have taken place unless it may be
dropped, or dead, for which all its attempts must be used up.

### Retry with backoff (`RetryBackoff`, `MCRetryBackoff`, `RetryBackoffProofs`)

`BackOff` is `_backoff_record`: it replaces the lease by a delay, which may be over
while the rest of the batch is still being handled, so that a record may be in two
invocations. `Ceiling` is `compute_backoff_seconds` with its clamp, its cap and
the limit of SQS, in numbers; of the jitter the two extremes. `KeepLease` is the
swallowed failure of `change_message_visibility`, for any record that was not
processed: the record keeps its lease and is reported. `Die` is the crash of an
invocation; the ghost `crashed` counts for each copy the crashes that undid
finished work on it, which is what `EffectsAreOnce` forgives and nothing else.

### Fan-out (`FanOut`, `FanOutPromise`, `MCFanOut`, `ConsumerProofs`)

`Publish` owes a copy to every subscription whose filter policy lets it through;
`DeliveryFails` is the subscription's own redrive. Each consumer has a queue, a
function and a fairness of its own. `Skip` is the `continue` on an unparseable
body, which acknowledges it. `Misnamed` names the consumers whose configured
handler is none of the module's functions: with the defaults of `variables.tf`
all of them are (finding `fanout_handler`). `FanOutPromise`, which `FanOut` extends,
has the state of a consumer's copy and its mapping onto `Delivery`, apart from the
actions, so that `ConsumerProofs` can state it of an instance of `FanOut`.

### Webhook ingest (`WebhookIngest`, `WebhookPromise`, `MCWebhookIngest`, `ConsumerProofs`)

A message is an event and the number of the post, since a provider posts again
what was not accepted (`Posts`). `ReplyTo` is the choice among the integration
responses. A signature is abstracted to the version of the key that made it;
`cached` is the key an environment has in its `lru_cache`, fetched before the
first record of a batch (`FetchKey`, `NoKey`) and lost with the environment.
`Drop` is the branch for `_Unverified`, `SignatureError` and bad JSON. `WebhookPromise`
has the safety properties and the state they are about. `GenuineDropsNeedRotation`
is an action property: the step that deletes a genuine event without effect is the
response of an environment with that event in its batch and another key in its
cache. A batch that found no key deletes nothing, and another environment's key
is no excuse.

### Idempotent processor (`IdempotentProcessor`, `MCIdempotentProcessor`, `ConsumerProofs`)

`Lock`, `Run`, `Save`, `Replay`, `Busy` are the steps of `idempotent_function`
around `process_payload`; `KeyOf` is `_idempotency_key`. `record` is the item in
the table: `by` is the copy that put it in progress, until that copy has ended or
its invocation's deadline has passed (`Lapse`), a deadline the item carries because
the handler registers the Lambda context. `RunFails` is `process_payload` raising,
after which the item is deleted; in `TableFails` DynamoDB fails the put, the update
or the delete, and the item stays as it is. `cache` is the local cache, one per
environment. `now` is a clock as coarse as the expiry: a function's timeout is far
below `ExpiresAfter`, so no record expires under its holder (the guard of `Tick`).

The two short times are kept in order without a clock. An invocation's deadline
is at most one function timeout after it began, and a lease six: so the deadline
an item carries has passed before a message comes back that was received while,
or after, the item was put in progress. `rival[c]` are the copies whose deadlines
must so be over before copy `c` is visible again: those locked by its own batch,
and those in whose favour it was refused. A copy that was refused is redelivered
after that, finds the item lapsed and takes it, unless another copy has taken it
first. `refused` counts, for `NotWedged`, how often a copy was refused because
another one was really at work on its key: a refusal by what a dead invocation left
behind is not counted, so it must be paid for by the fault that left it.

### Scheduled batch (`ScheduledBatch`, `MCScheduledBatch`, `ScheduledBatchProofs`)

`Split`, `Reduce` and the iterations of the Map state (`Invoke`, `Process`,
`TaskError`) with their Retry entries and the Map's Catch. Runs may overlap. An
invocation whose response is lost is in `late`: it works on beside the retry.
`Summarise` is `reduce`, `Descriptor` is what `split` gives a shard.

The faults differ by state, as the Retry entries do. `ProcessShard` names
`States.TaskFailed` (step_functions.tf:56), so a raise, a refusal and a lost response
are all retried and then caught (`TaskError`). `Split` and `Reduce` name
`Lambda.ServiceException`, `Lambda.TooManyRequestsException` and `Lambda.Unknown`
(lines 31 and 93) and have no Catch: a refusal (`throttle`) is retried, while an
exception of the handler and a lost response, which is a
`Lambda.SdkClientException`, fail the execution at once (`stage`; `StageFails`).

## 3. What the runs check

Pass runs (deadlock is not checked: executions end, queues drain, and then the
system stops; the liveness properties rule out stopping earlier):

| Run | Instance | Shows |
|---|---|---|
| `saga_faults` | one execution; declined at each step, malformed, unpayable or flaky input; every pair of the five kinds of fault, and three crashes; one retry per entry | `PathResolves`, `CompensationHasItsTarget`, `ItemFollowsExecution`, `ChargesAreRefunded`; `Saga` implements `SagaContract`; every execution ends; `HealthyOrdersComplete` |
| `approval_clicks` | one execution, three clicks, two faults of four kinds | one winner, truthful answers, outcome = decision, decisions recorded and final, termination |
| `longrun_polls` | eight polls, six kinds of job, two faults of three kinds | budget, item and token, deadline, counting, termination |
| `backoff` | a good, a poisonous and an unparseable message, two environments, batches of two, two receives, two faults (crash, downstream, visibility call) | implements `Delivery`; an effect is repeated only for a crash that undid it, whatever else fails; delays within the schedule; every message settles |
| `fanout` | two consumers (a filter policy and a missing handler; a poisonous message), three messages, two faults (crash, downstream, SNS delivery) | implements `Delivery`; each consumer gets its messages whatever happens to the other |
| `webhook` | two events in up to three posts, one possibly unproven, two environments, one rotation, two faults of five kinds | `AcceptedIsQueued`, `GenuineDropsNeedRotation`, `AcceptedSettles` |
| `idempotent` | one request submitted twice, with and without `idempotency_key`, and junk; two environments; one fault of three kinds (crash, downstream, table); expiry within the run | `OncePerWindow`, `OneEffectPerSave`, `AcknowledgedTookEffect`, `NotWedged` |
| `batch` | two runs of two shards, one slot; three combinations of faults, up to the retries of a shard (3) and of a stage (4) | `SummaryIsTrue`, `ShardsDoNotFailRuns`, `CapHoldsPerRun`, `EveryRunEnds` |

Why the bounds are enough.

- Saga: an error has four kinds of consequence (retry, Catch, execution failed,
  none because nobody waits), and each needs one fault; two faults reach a failure
  during the unwinding of another one, a retry whose first attempt is still
  running, and exhaustion of the one-retry budget; flaky counts 2 and 3 are on and
  beyond what one retry allows. More executions of one order, other budgets and
  more faults are covered by the theorems for the contract, the maps and the
  targets.
- Approval: three clicks are the winner, its rival and a straggler.
- Long-running: eight polls, from an hour doubling up to four, cross the backoff
  cap; jobs done after 0, 3, 8 and 11 attempts are below, on and above the budget;
  one retry and two faults exhaust the retries of a poll and let two polls of one
  execution run at a time.
- Queues: a batch of two holds a record that fails beside one that does not; two
  receives are the fewest with a redelivery before the redrive, and two faults use
  them up; two environments have one record at the same time. The schedule of the
  backoff is checked beyond the clamp of the exponent by `CeilingIsSchedule` in
  `MCRetryBackoff`, for forty attempts and four caps, and in the run with
  `Base` 600 and `Cap` 900, where the second delay meets the cap.
- Webhook: one post of the good event may be refused, timed out or accepted
  before the second; one rotation gives environments with either key.
- Idempotent: three ticks let a record of one tick expire while a duplicate is
  still on the queue; a duplicate meets the record in progress, completed, lapsed
  and expired; with two receives and one fault a message that is refused for what
  a dead invocation left behind may not be refused again for the same reason.
- Batch: one slot for two shards makes one wait; two runs are the fewest to
  overlap; the budgets use up each Retry entry once.

Violation runs (findings; the source lines and quotes are in `PROJECT.json`):

| Run | What the code does |
|---|---|
| `approval_mailed` | the double wrapping above: `RequestApproval` always fails, and no approver is ever mailed |
| `fanout_handler` | every consumer's handler defaults to `worker.handle`, which `worker.py` does not define: all messages are redriven unprocessed |
| `webhook_accepted` | a SendMessage that SQS refuses with a 4xx is answered with 202 and `accepted`: the event is lost |
| `idempotent_window` | `idempotency_ttl_seconds` reaches no code: the window is Powertools' default, and a duplicate inside the configured one takes effect again |

### Fairness

Step Functions schedules every execution (`Advance`, `Invoke`, `WaitForJob`,
`EvaluateJob`, `Workflow`: it is a managed service that does not stop); the
invocation an execution waits for runs on or dies, since Lambda bounds its time;
time passes (`TimeOut`); API Gateway's Lambda serves a click to the end. SQS and
SNS deliver, redrive and let leases lapse, for each copy by itself (`Sqs`, `Aws`,
`Deliver`); an invocation of a consumer runs on (`Handle`) or dies, each by
itself; the deadline in an idempotency record passes (`Lapse`); an abandoned
`process` invocation ends (`EndLate`). Weak fairness is enough for each: none of
these actions is disabled again by others forever. In `Saga`, `Approval` and
`LongRunning` there is none for an invocation nobody waits for. None is assumed
of faults, and nobody has to click, sign off, send, publish, post, rotate a key
or start a run, and the clock of the idempotent processor may stand still.
Retries are bounded by the code; only the number of faults is a bound of the
model, and `Termination` would hold without it where Retry counters bound the
errors of each state. `Settles` and its like depend on it in what they say: faults
alone may use up a message's receives, which the properties state.

## 4. What is proved

For any set of executions, orders, requests, inputs, any MaxAttempts and any
mix and number of faults.

`SagaProofs` assumes `SagaAssumption` (the constants have their types; TLC
evaluates it in the saga run) and proves `Spec => []P` for `TypeOK`,
`PathResolves`, `CompensationHasItsTarget` and `ReceivedWorkIsCompensated`. None
is inductive alone. The invariant:

- `TypeInv`: types, and that invocation numbers are never reused and an awaited
  invocation belongs to its execution's current state. Without it a reply could
  advance the wrong state.
- `MapsExist`: past `CreateOrder` the item has its maps, for the execution and
  for every invocation that left `start`, whoever else writes to the item.
  `PathResolves` follows.
- `Progress`: in a forward state exactly the results of the preceding steps have
  been received; a compensation state is entered only with the result it undoes.
  This is where the Catch table matters.
- `RecordsExist`: each received result was recorded by the execution. With
  `Progress` it gives `CompensationHasItsTarget`.
- `Unwound`: at each link of the chain the later steps are compensated already.
  At `SagaFailed` it is `ReceivedWorkIsCompensated`.

Each action is reduced to one of a few step shapes (stays, retried or caught,
entered the next state), and the invariant is proved for the shapes.

`Refinement` is `Spec => ImplementsContract`: `Saga` implements
`SagaContract` under the mapping of `SagaProperties`. Beyond the invariant above it
needs `NoEarlyUndo` (no compensation is recorded or running while its execution
goes forward), `LatestFirst` (an invocation of a compensation finds the later
steps compensated, though its execution may have given up on it) and `AllReceived`
(at `CompleteSaga`). The lemma `OneAtATime` shows that a step either moves one
execution or adds one record to the history; `MoveIsContractStep` and
`RecordIsContractStep` map the two to a contract step or a stutter of that
execution, and `Lift` puts them back among the others.

`ItemFollows` and `ChargesRefunded` prove `ItemFollowsExecution` and
`ChargesAreRefunded`. Both rest on `OneExecution`: every step is a step of one
execution and leaves the states, results, invocations and records of all others,
and the items of all other orders, as they are (`Only`). Each action of that
execution then has a lemma of its own.

- `ItemInv`, as long as no response was lost and no Task timed out: `Quiet`, an
  execution has at most one invocation, the one it waits for or the one its own
  timeout left, and that one finds none of the result it is about to make; and, for
  an order of its own, `Tracked`, the item says what the execution has received and
  what the invocation about to reply will tell it. `Quiet` is what makes
  `put_item` of `create_order` harmless: it replaces the item, and nothing that
  was received is in it yet.
- `ChargeInv`, under any faults: `Charges` are the captured charges and those an
  invocation nobody waits for may still capture. All of them but the one the
  execution holds (received, or captured and about to be received) have a fault
  (`Accounted`). A fault is counted when the invocation is left, so a late
  capture finds it already paid for. At `SagaFailed` the held charge is refunded
  (`Unwound`), and what is left is at most `Blame`. An execution that ran into its own
  timeout is excepted: it never reports SagaFailed.

`ApprovalProofs` assumes `ApprovalAssumption` and proves `TypeOK`,
`RecordedDecisionWasTaken`, `OutcomeIsTheDecision` and, with `DistinctRequests`
as a hypothesis (every execution has its own request_id), `OneClickWins`,
`AnswersAreTrue` and `DecisionIsFinal`. The hypothesis is needed (section 5). The
invariant `IInv` adds `CallsOK` (as above), `DecisionFits` (which states imply
which decision) and `OneWinner`: of the clicks on one token, at most one is between
`Send` and `Record` or has been told 200. It is inductive because `Send` succeeds
only while the execution waits, and success ends the waiting. A second invariant,
`AInv`, is proved on top of it:

- `LinksOK`: a link is out only for an execution that has asked for approval and
  whose item exists. Without it `Look` could answer 404 to a click whose request
  was decided, and a late `attach_token` could overwrite a decision.
- `Numbered`: clicks and answers have numbers of their own, so that "another
  click" in `AnswersAreTrue` means another.
- `Known(x)`: behind a decision that Step Functions took there is a click that
  passed `Send` and was told 200 or 500, or is about to be; behind a recorded one,
  a click that was told 200. This is what a 409 or 410 stands on.

The `TypeOK` of the workflow modules bounds the retries of each state by what its own
Retry entries allow (`MostRetries`), also where that is none.

`LongRunningProofs` proves `TypeOK` for all executions and, with `DistinctJobs`
(each has a job of its own, section 5), `BudgetEndsPolling`,
`ItemFollowsExecution` and `PollsCountUp`; with `BudgetFits` as well (the waits of
the poll budget and the sign-off gate fit into `TimeoutSeconds`),
`BudgetBeforeDeadline`. The run's instance satisfies both (`MCLongRunning` has one
execution and assumes `BudgetFits`). The invariant says of each execution what its item, its `$.job`
and its running invocations have to do with each other: `Judged` and `Counts` (the
budget), `Tokened` and `Written` (the item), `Known` (the job's parameters) and
`Owned` (an invocation nobody waits for was abandoned). `InTime` bounds the time
that has passed by the waits since the item was last reset, plus one full round
for each submission that was lost: those are the only ones to reset a counter, and
each costs a fault. `ItemFollowsExecution` has exceptions of its own: its token half
does not hold once a submission was left running, its status half once any
invocation was (section 5).

`SqsProofs` proves of the substrate what every handler stands on, `SqsInv`: types,
and that an invocation alone holds the lease of each record it has not reported as
failed. It is kept by each action of `Sqs` and of a handler that ends in
`Handled`, `Respond` or `FailBatch`; the next two modules extend it.

`RetryBackoffProofs` proves `TypeOK`, `EffectsAreOnce`, `WaitsFollowSchedule` and
`Spec => ImplementsContract`: the processor implements `Delivery`. A record that is
visible again under a running invocation has been reported failed by it, and a
record's effects are the crashes that undid one, and one more while an invocation
that processed it holds its lease or has deleted it (`Worked`);
`OnTime` lets a record wait only as long as the schedule has for its receives.
That the clamped arithmetic of `compute_backoff_seconds` is the documented
schedule, doubling from `base` up to the least of the cap and twelve hours, is
`ScheduleIsCeiling`, for every base, cap and attempt.

`ConsumerProofs` proves three things. First the dedupe window. `Base` says that a record at work
holds its key in the table alone and in time; `WindowInv` that the result of a
request is in the table for `ExpiresAfter`, and that a second effect before a save has
a fault of its own; `AckInv` that only what took effect is
acknowledged. `OncePerWindow` and `OneEffectPerSave` need `RequestsKeepKeys`
(submissions of one request have one key), `AcknowledgedTookEffect` needs
`KeysTellRequests` (a key is of one request): section 5 says when the code's keys
do not. `WindowIsKept` has the hypothesis `Window <= ExpiresAfter`, and the finding
`idempotent_window` shows what happens above it.

The other two consumers add little to the queue. They are instances (`Fan`, `Hook`)
on the same queue variables, so that what `SqsProofs` shows applies to them: `FanNames`,
`FanSqs`, `HookNames` and `HookSqs` identify their operators with those of `Sqs`.

- `FanOutImplementation` is `Spec => ImplementsContract` of `FanOut`, with any number
  of consumers and also where a handler is misnamed. `FanInv` adds to `SqsInv`
  that a copy on its way was published, and that what an invocation has handled and
  will acknowledge was processed or could not be parsed. A redrive to the
  dead-letter queue uses up the receives; a copy that SNS fails to deliver may die
  without any, which the contract allows it.
- `AcceptedQueued` and `DropsNeedRotation` are `AcceptedIsQueued` and
  `GenuineDropsNeedRotation` of `WebhookIngest`, assuming `WebhookAssumption` (of
  which they use that there is one queue). `HookInv`: a record that an environment
  holds and has handled has taken effect, if genuine, or met another key in the
  environment's cache (`Settled`), and the cache does not change under a batch once it
  is filled; and an accepted post is not out. `DropsHaveCause` derives the step. The second part, and so `AcceptedQueued`, needs that SQS refuses no
  post with a client error: the finding `webhook_accepted` is what happens
  otherwise.

`ScheduledBatchProofs` proves `SummaryIsTrue`, `ShardsDoNotFailRuns` and
`CapHoldsPerRun` for any finite set of runs and any number of shards and records.
`ShardOK` and `PhaseOK` say which descriptors and results a run has at each state,
`FaultsOK` charges every retry of a stage to a refusal and every failed run to a
fault of split or reduce or to more refusals than these are retried for, `CapOK` bounds the running
iterations, and `LateOK` counts the invocations whose response was lost. The
records of a summary are counted by splitting them into the blocks of the shards,
which are disjoint and cover them.

`Powers` has the recursive power of two; `Recursion` the induction that these
proofs need. The library's induction theorems are not usable here, since they take
operators; those of `Recursion` take a set (a set with 0 that is closed under
successor has all of Nat), from the well-foundedness of the natural numbers, and
derive what recursive functions and sums over finite sets compute.

Only model-checked: liveness (`Termination`, `HealthyOrdersComplete`,
`DecisionsAreRecorded`, `ValidRequestsAreMailed`, `Settles`,
`EveryConsumerGetsIt`, `AcceptedSettles`, `NotWedged`, `EveryRunEnds`), since the
prover has no reasoning about fairness and ENABLED.

## 5. Known behaviour outside the properties

Met while modelling; true of the code, and the reason some properties have the
form they have.

Saga:

- One lost response of `charge_payment` (handlers.py:146) and the retry captures
  a second payment under a new identifier; only the second is refunded, and
  `SagaFailed` says "The saga failed and all previously completed steps were
  compensated." (statemachine.asl.json:150). The same goes for a charge that dies
  or times out after `record_step`. `ChargesAreRefunded` therefore allows one
  unrefunded charge per such fault, and none otherwise.
- `schedule_shipment` has no compensation: if it dies after recording, its Catch
  (statemachine.asl.json:72) rolls the order back with a shipment on record, while
  the root README (line 79) says that each forward Task has a paired compensation.
- `create_order` resets the attempt counter it then waits for (`store.start`
  before `increment_attempt`, handlers.py:121): `flaky_steps: {create_order: n}`
  with n > 1 never succeeds, although the header of handlers.py (line 14) presents
  the injection as a transient failure the Retry policy absorbs.
  `HealthyOrdersComplete` excepts it.
- An execution that passes its 900 s ends wherever it is, with completed steps
  uncompensated (the contract's phase `stopped`).
- A retried compensation records its effect again, with the same identifier.

Items of the workflow patterns:

- `set_status` and `create`/`start` are unconditional: an abandoned invocation, or
  another execution with the same key, may overwrite the final status of a saga,
  reset a decided approval item or reset a polled job's counter and token. Hence
  the saga's `ItemFollowsExecution` excepts lost responses and shared orders, that of
  the long-running job an abandoned `SubmitJob` (its token) and any abandoned
  invocation (its status, which a late poll sets back to RUNNING),
  `DecisionIsFinal` a pending `prepare_request`, `PollsCountUp` an abandoned
  `SubmitJob`.
- A second approval execution with the same `request_id` resets the decided item
  (store.py:73), and a second click is told that it decided, contrary to the
  approval README (lines 35 and 88). And a click whose decision Step Functions took
  is told 409, "Already decided", when another execution's click was recorded in
  their common item first. Hence `DistinctRequests` in the theorems `OneClick`,
  `AnswersTold` and `DecisionStays`.
- `decision_handler` resumes the execution before it records the decision, so
  `on_approved` may run before the item says APPROVED (its comment says
  otherwise), and if it dies in between the decision is never recorded.
- Two executions submitted with one `job_id` share its counter and its token: an
  execution hears of attempts it did not make, gives up early or late, and the
  token in the item is that of whoever asked last. Hence `DistinctJobs` in the
  theorems about the job's item; without a `job_id` in its input, submit_job makes
  one up.
- The long-running state machine's seven days (statemachine.asl.json:4) are fixed,
  while variables.tf (lines 96 and 107) allows waits of a day and any budget: then
  `States.Timeout` ends the execution, and not "Maximum number of status polls before the
  execution gives up with a JobPollBudgetExhausted failure". `BudgetBeforeDeadline` holds for the
  intervals of the run.
- `MarkFailed`, `CompleteSaga`, the approval's recording Tasks and `Finalize`
  have no Catch, and `RequestApproval`, `RequestSignoff` no Retry; the root README
  (line 275) says every Task has both.
- `JobTransientError` is documented as retryable; nothing raises it and no Retry
  entry names it.

SQS patterns and the batch:

- Fan-out acknowledges an unparseable record, which deletes it; the comment at
  worker.py:66 speaks of the dead-letter queue. `tests/test_fan_out.py:52` expects
  what the code does, and the contract makes these copies droppable.
- Webhook: unverified events are dropped as well, also genuine ones that meet an
  environment with an older or a newer key during a rotation, where the diagram in
  the root README (line 119) and a comment in verify_signature.py speak of the
  dead-letter queue.
- Idempotent processor: `idempotency_key`, `id` and the digest share one name space
  (handler.py:89), so that the `id` of one request may be the key of another.
- Scheduled batch: `Split` and `Reduce` do not retry `Lambda.SdkClientException`
  (step_functions.tf:31 and 93), which the saga, the approval gate and the
  long-running job do: one lost response of theirs fails the run, with all shards
  processed if it is Reduce's. `ShardsDoNotFailRuns` counts it as a failure of the
  stage.
- A lost response of `process` is retried beside the invocation: its records may be
  processed twice, or processed and their shard reported as failed. Then
  `SummaryIsTrue` only says that nothing is counted that was not processed.
- Scheduled batch: the cap protects a downstream system from one run only.
  Overlapping runs add up, and so do invocations whose response was lost;
  `CapHoldsPerRun` says by how much.

## 6. What is not modelled, and the plan

Not modelled, and why:

- Item expiry by TTL in the workflow patterns (30 and 90 days against executions of
  minutes to seven days) and message retention on queues (days against leases of
  minutes): both are orders of magnitude away from the behaviour they could meet.
- SQS delivering a visible message twice without its lease lapsing: duplicates are
  modelled where the code handles them, as second submissions in the idempotent
  processor and second posts in the webhook pattern; for the other consumers the
  crash of an invocation before its response repeats an effect in the same way.
- Malformed links and HTML of the approval page, the progress percentage, the HMAC
  itself (a signature is the key that made it), IAM and API routes: no state that a
  property tells apart.
- The deploy script, tests, CI and docs: sequential, or read as statements about
  the code.

What is left of the plan: two executions with one job_id as an instance of
`LongRunning`, and what they can still expect of their item (the theorems about the
item have `DistinctJobs` as a hypothesis).

The three workflow modules repeat some of Step Functions (`Enter`, `OnError`,
`Raise`); they differ in retry tables and in what waits for a token, and stay
separate so that each can be read against its own state machine.
