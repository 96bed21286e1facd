---------------------------- MODULE LongRunning -----------------------------
(* The long-running job (patterns/long-running): submit, wait and poll     *)
(* with exponential backoff until the job succeeds, fails or exhausts its  *)
(* poll budget, then pause on a task token for sign-off and finalize.      *)
(*                                                                         *)
(* Time passes in the Wait state and at the sign-off gate, in seconds, for *)
(* which an invocation's duration counts nothing.  RequestSignoff has no   *)
(* Retry, so an execution has one token: the token of x is x.              *)
(*                                                                         *)
(* A definition named X_Y is X with the bug Y: it is not part of the model *)
(* and no definition uses it.                                              *)
(***************************************************************************)
EXTENDS Powers

CONSTANTS
  Execs,          \* executions of the state machine
  Jobs,           \* values of job_id
  NoToken,        \* the token of an item that has none
  Inputs,         \* execution inputs: job, valid, succeed_after, fail_job
  MaxPolls,       \* MAX_POLL_ATTEMPTS
  BaseWait,       \* POLL_INTERVAL_BASE_SECONDS
  MaxWait,        \* POLL_INTERVAL_MAX_SECONDS
  SignoffTimeout, \* TimeoutSeconds of RequestSignoff
  Deadline,       \* TimeoutSeconds of the execution
  Budget,         \* MaxAttempts: service (SubmitJob, PollJob), all (Finalize)
  Faults,         \* the kinds of fault the environment may inject
  MaxFaults       \* how many faults it injects in one behaviour

ASSUME LongRunningAssumption ==
  /\ Inputs \subseteq [job : Jobs, valid : BOOLEAN, succeed_after : Int, fail_job : BOOLEAN]
  /\ NoToken \notin Execs
  /\ {MaxPolls, BaseWait, MaxWait} \subseteq Nat \ {0}
  /\ {SignoffTimeout, Deadline, MaxFaults} \subseteq Nat
  /\ Budget \in [{"service", "all"} -> Nat]
  /\ Faults \subseteq {"crash", "throttle", "lost"}

TaskStates == {"SubmitJob", "PollJob", "RequestSignoff", "Finalize"}
Terminals == {"Completed", "JobFailed", "JobTimedOut", "SignoffTimedOut",
              "ExecutionFailed", "ExecutionTimedOut"}
States == TaskStates \cup Terminals \cup {"WaitForJob", "EvaluateJob"}
Statuses == {"SUBMITTED", "RUNNING", "SUCCEEDED", "FAILED", "COMPLETED"}

\* What an item says of the simulated job, and all of an item.
Specs == [succeed_after : Nat, fail_job : BOOLEAN]
Items == [status : Statuses \cup {"none"}, attempts : Nat, spec : Specs, token : Execs \cup {NoToken}]
NoSpec == [succeed_after |-> 1, fail_job |-> FALSE]
NoItem == [status |-> "none", attempts |-> 0, spec |-> NoSpec, token |-> NoToken]

VARIABLES
  input,     \* execution -> its input
  pc,        \* execution -> the state it is in
  tries,     \* execution -> retries used in that state
  invoked,   \* execution -> how many invocations it has made
  awaiting,  \* execution -> the invocation it waits for, 0 if none
  job,       \* execution -> $.job: status, attempt, exhausted, wait
  elapsed,   \* execution -> seconds it has waited
  calls,     \* the invocations running, awaited or not
  store,     \* job_id -> its item
  abandoned, \* functions of which an execution left an invocation running (ghost)
  faults     \* faults injected so far

execVars == <<pc, tries, awaiting, job>>
vars == <<input, execVars, invoked, elapsed, calls, store, abandoned, faults>>

\* _backoff_seconds.
Backoff_Uncapped(attempt) == BaseWait * Power2[attempt]
Backoff(attempt) ==
  LET wait == BaseWait * Power2[attempt] IN IF wait < MaxWait THEN wait ELSE MaxWait

Submitted == [status |-> "RUNNING", attempt |-> 0, exhausted |-> FALSE, wait |-> Backoff(0)]

Init ==
  /\ input \in [Execs -> Inputs]
  /\ pc = [x \in Execs |-> "SubmitJob"]
  /\ tries = [x \in Execs |-> 0]
  /\ invoked = [x \in Execs |-> 0]
  /\ awaiting = [x \in Execs |-> 0]
  /\ job = [x \in Execs |-> Submitted]
  /\ elapsed = [x \in Execs |-> 0]
  /\ calls = {}
  /\ store = [j \in Jobs |-> NoItem]
  /\ abandoned = [x \in Execs |-> {}]
  /\ faults = 0

JobOf(x) == input[x].job
Awaited(c) == awaiting[c.of] = c.no
Waiting(x) == \E c \in calls : c.of = x /\ Awaited(c)

-----------------------------------------------------------------------------
(* Step Functions.                                                         *)

Enter(x, s) ==
  /\ pc' = [pc EXCEPT ![x] = s]
  /\ tries' = [tries EXCEPT ![x] = 0]
  /\ awaiting' = [awaiting EXCEPT ![x] = 0]

\* MaxAttempts of the Retry entry of state s that matches error e.
Retries_OneMore(s, e) == Budget["service"] + 1
Retries(s, e) ==
  CASE s \in {"SubmitJob", "PollJob"} -> IF e = "service" THEN Budget["service"] ELSE 0
    [] s = "RequestSignoff"           -> 0
    [] OTHER                          -> Budget["all"]

CatchState(s) == IF s = "Finalize" THEN "ExecutionFailed" ELSE "JobFailed"

OnError(x, e) ==
  /\ \/ /\ tries[x] < Retries(pc[x], e)
        /\ tries' = [tries EXCEPT ![x] = @ + 1]
        /\ awaiting' = [awaiting EXCEPT ![x] = 0]
        /\ UNCHANGED pc
     \/ tries[x] >= Retries(pc[x], e) /\ Enter(x, CatchState(pc[x]))
  /\ UNCHANGED job

FirstOp(s) == CASE s = "SubmitJob"      -> "create"
                [] s = "PollJob"        -> "get"
                [] s = "RequestSignoff" -> "attach"
                [] s = "Finalize"       -> "complete"

Invoke(x) ==
  /\ pc[x] \in TaskStates /\ awaiting[x] = 0
  /\ invoked' = [invoked EXCEPT ![x] = @ + 1]
  /\ awaiting' = [awaiting EXCEPT ![x] = invoked[x] + 1]
  /\ calls' = calls \cup {[of |-> x, no |-> invoked[x] + 1, fn |-> pc[x], at |-> FirstOp(pc[x]),
                           spec |-> NoSpec, attempt |-> 0]}
  /\ UNCHANGED <<input, pc, tries, job, elapsed, store, abandoned, faults>>

\* The Wait state, unless the execution's deadline comes first.
WaitForJob(x) ==
  /\ pc[x] = "WaitForJob"
  /\ LET end == elapsed[x] + job[x].wait
     IN  IF end <= Deadline
           THEN elapsed' = [elapsed EXCEPT ![x] = end] /\ Enter(x, "PollJob")
           ELSE elapsed' = [elapsed EXCEPT ![x] = Deadline] /\ Enter(x, "ExecutionTimedOut")
  /\ UNCHANGED <<input, job, invoked, calls, store, abandoned, faults>>

EvaluateJob(x) ==
  /\ pc[x] = "EvaluateJob"
  /\ Enter(x, IF job[x].status = "SUCCEEDED" THEN "RequestSignoff"
              ELSE IF job[x].status = "FAILED" THEN "JobFailed"
              ELSE IF job[x].exhausted THEN "JobTimedOut"
              ELSE "WaitForJob")
  /\ UNCHANGED <<input, job, invoked, elapsed, calls, store, abandoned, faults>>

\* No sign-off within RequestSignoff's TimeoutSeconds, or the execution's.
TimeOut(x) ==
  /\ pc[x] = "RequestSignoff" /\ awaiting[x] # 0 /\ ~ Waiting(x)
  /\ Enter(x, IF elapsed[x] + SignoffTimeout <= Deadline THEN "SignoffTimedOut"
                                                         ELSE "ExecutionTimedOut")
  /\ UNCHANGED <<input, job, invoked, elapsed, calls, store, abandoned, faults>>

\* Someone reads the token in the item and sends success or failure with it:
\* nothing happens unless its execution waits for it.
SignOff(j, approved) ==
  LET x == store[j].token
  IN  /\ x # NoToken
      /\ pc[x] = "RequestSignoff" /\ awaiting[x] # 0
      /\ Enter(x, IF approved THEN "Finalize" ELSE "JobFailed")
      /\ UNCHANGED <<input, job, invoked, elapsed, calls, store, abandoned, faults>>

-----------------------------------------------------------------------------
(* The Lambdas.                                                            *)

GoOn(c, d) ==
  /\ calls' = (calls \ {c}) \cup {d}
  /\ UNCHANGED execVars

Raise(c, e) ==
  /\ calls' = calls \ {c}
  /\ IF Awaited(c) THEN OnError(c.of, e) ELSE UNCHANGED execVars

Put(j, item) == store' = [store EXCEPT ![j] = item]

\* submit_job of a succeed_after_attempts that is no number.
Reject(c) ==
  /\ c.at = "create" /\ ~ input[c.of].valid
  /\ Raise(c, "input")
  /\ UNCHANGED <<input, invoked, elapsed, store, abandoned, faults>>

\* JobStore.create: a put_item, which resets whatever item the job has.
Create(c) ==
  LET i == input[c.of]
      spec == [succeed_after |-> IF i.succeed_after < 1 THEN 1 ELSE i.succeed_after,
               fail_job      |-> i.fail_job]
  IN  /\ c.at = "create" /\ i.valid
      /\ Put(i.job, [NoItem EXCEPT !.status = "SUBMITTED", !.spec = spec])
      /\ GoOn(c, [c EXCEPT !.at = "reply"])
      /\ UNCHANGED <<input, invoked, elapsed, abandoned, faults>>

\* poll_job: get, increment_attempt, update_progress.
Get(c) ==
  /\ c.at = "get"
  /\ GoOn(c, [c EXCEPT !.at = "increment", !.spec = store[JobOf(c.of)].spec,
                       !.attempt = store[JobOf(c.of)].attempts])
  /\ UNCHANGED <<input, invoked, elapsed, store, abandoned, faults>>

Increment_FromRecord(c) ==
  /\ c.at = "increment"
  /\ Put(JobOf(c.of), [store[JobOf(c.of)] EXCEPT !.attempts = c.attempt + 1])
  /\ GoOn(c, [c EXCEPT !.at = "progress", !.attempt = @ + 1])
  /\ UNCHANGED <<input, invoked, elapsed, abandoned, faults>>
Increment(c) ==
  LET item == store[JobOf(c.of)]
  IN  /\ c.at = "increment"
      /\ Put(JobOf(c.of), [item EXCEPT !.attempts = @ + 1])
      /\ GoOn(c, [c EXCEPT !.at = "progress", !.attempt = item.attempts + 1])
      /\ UNCHANGED <<input, invoked, elapsed, abandoned, faults>>

StatusAt(c) ==
  IF c.spec.fail_job THEN "FAILED"
  ELSE IF c.attempt >= c.spec.succeed_after THEN "SUCCEEDED" ELSE "RUNNING"

UpdateProgress_OnlyWhileRunning(c) ==
  /\ c.at = "progress"
  /\ IF StatusAt(c) = "RUNNING" THEN Put(JobOf(c.of), [store[JobOf(c.of)] EXCEPT !.status = "RUNNING"])
                                ELSE UNCHANGED store
  /\ GoOn(c, [c EXCEPT !.at = "reply"])
  /\ UNCHANGED <<input, invoked, elapsed, abandoned, faults>>
UpdateProgress(c) ==
  /\ c.at = "progress"
  /\ Put(JobOf(c.of), [store[JobOf(c.of)] EXCEPT !.status = StatusAt(c)])
  /\ GoOn(c, [c EXCEPT !.at = "reply"])
  /\ UNCHANGED <<input, invoked, elapsed, abandoned, faults>>

\* request_signoff: attach_token.
AttachToken(c) ==
  /\ c.at = "attach"
  /\ Put(JobOf(c.of), [store[JobOf(c.of)] EXCEPT !.token = c.of])
  /\ GoOn(c, [c EXCEPT !.at = "reply"])
  /\ UNCHANGED <<input, invoked, elapsed, abandoned, faults>>

\* finalize: set_status.
Complete(c) ==
  /\ c.at = "complete"
  /\ Put(JobOf(c.of), [store[JobOf(c.of)] EXCEPT !.status = "COMPLETED"])
  /\ GoOn(c, [c EXCEPT !.at = "reply"])
  /\ UNCHANGED <<input, invoked, elapsed, abandoned, faults>>

Exhausted_OnlyAtBudget(c) == StatusAt(c) = "RUNNING" /\ c.attempt = MaxPolls
Exhausted(c) == StatusAt(c) = "RUNNING" /\ c.attempt >= MaxPolls

\* What submit_job and poll_job return becomes $.job.
JobFrom(c) ==
  IF c.fn = "SubmitJob" THEN Submitted
  ELSE [status |-> StatusAt(c), attempt |-> c.attempt, exhausted |-> Exhausted(c),
        wait |-> Backoff(c.attempt)]

NextState(s) == CASE s = "SubmitJob" -> "WaitForJob"
                  [] s = "PollJob"   -> "EvaluateJob"
                  [] s = "Finalize"  -> "Completed"

\* The handler returns.  Step Functions ignores what request_signoff returns.
Reply_FinalizeWaits(c) ==
  /\ c.at = "reply"
  /\ calls' = calls \ {c}
  /\ IF Awaited(c) /\ c.fn \in {"SubmitJob", "PollJob"}
       THEN Enter(c.of, NextState(c.fn)) /\ job' = [job EXCEPT ![c.of] = JobFrom(c)]
       ELSE UNCHANGED execVars
  /\ UNCHANGED <<input, invoked, elapsed, store, abandoned, faults>>
Reply(c) ==
  /\ c.at = "reply"
  /\ calls' = calls \ {c}
  /\ IF Awaited(c) /\ c.fn # "RequestSignoff"
       THEN /\ Enter(c.of, NextState(c.fn))
            /\ job' = IF c.fn = "Finalize" THEN job ELSE [job EXCEPT ![c.of] = JobFrom(c)]
       ELSE UNCHANGED execVars
  /\ UNCHANGED <<input, invoked, elapsed, store, abandoned, faults>>

Run(c) == Reject(c) \/ Create(c) \/ Get(c) \/ Increment(c) \/ UpdateProgress(c)
            \/ AttachToken(c) \/ Complete(c) \/ Reply(c)

-----------------------------------------------------------------------------
(* Faults.                                                                 *)

Fault(kind) ==
  /\ kind \in Faults /\ faults < MaxFaults
  /\ faults' = faults + 1

\* An invocation dies between two calls.
Crash(c) ==
  /\ Fault("crash")
  /\ Raise(c, "crash")
  /\ UNCHANGED <<input, invoked, elapsed, store, abandoned>>

\* Lambda refuses the invocation.
Throttle(x) ==
  /\ Fault("throttle")
  /\ pc[x] \in TaskStates /\ awaiting[x] = 0
  /\ OnError(x, "service")
  /\ UNCHANGED <<input, invoked, elapsed, calls, store, abandoned>>

\* The response is lost: the invocation is not.
Lose(x) ==
  /\ Fault("lost")
  /\ Waiting(x)
  /\ OnError(x, "service")
  /\ abandoned' = [abandoned EXCEPT ![x] = @ \cup {pc[x]}]
  /\ UNCHANGED <<input, invoked, elapsed, calls, store>>

-----------------------------------------------------------------------------
Next == \/ \E x \in Execs : \/ Invoke(x) \/ WaitForJob(x) \/ EvaluateJob(x) \/ TimeOut(x)
                            \/ Throttle(x) \/ Lose(x)
        \/ \E j \in Jobs, approved \in BOOLEAN : SignOff(j, approved)
        \/ \E c \in calls : Run(c) \/ Crash(c)

\* Executions are scheduled, time passes and invocations an execution waits
\* for run on.  Nobody has to sign off, and nothing is assumed of an
\* invocation nobody waits for.
Fairness ==
  \A x \in Execs :
    /\ WF_vars(Invoke(x))
    /\ WF_vars(WaitForJob(x) \/ EvaluateJob(x) \/ TimeOut(x))
    /\ WF_vars(\E c \in calls : c.of = x /\ Awaited(c) /\ Run(c))

Spec == Init /\ [][Next]_vars /\ Fairness

-----------------------------------------------------------------------------
(* Properties.                                                             *)

\* The retries that the Retry entries of a state allow in all; RequestSignoff has
\* none, and only a Task makes an attempt.
MostRetries(s) ==
  CASE s \in {"SubmitJob", "PollJob"} -> Budget["service"]
    [] s = "Finalize"                 -> Budget["all"]
    [] OTHER                          -> 0

\* Every variable has its type, and no state is retried more often than its Retry
\* entries allow.
TypeOK ==
  /\ input \in [Execs -> Inputs]
  /\ pc \in [Execs -> States]
  /\ tries \in [Execs -> Nat]
  /\ \A x \in Execs : tries[x] <= MostRetries(pc[x])
  /\ invoked \in [Execs -> Nat] /\ awaiting \in [Execs -> Nat]
  /\ job \in [Execs -> [status : Statuses, attempt : Nat, exhausted : BOOLEAN, wait : 1 .. MaxWait]]
  /\ elapsed \in [Execs -> 0 .. Deadline]
  /\ calls \subseteq [of : Execs, no : Nat, fn : TaskStates,
                      at : {"create", "get", "increment", "progress", "attach", "complete", "reply"},
                      spec : Specs, attempt : Nat]
  /\ store \in [Jobs -> Items]
  /\ abandoned \in [Execs -> SUBSET TaskStates]
  /\ faults \in 0 .. MaxFaults

\* Each poll an execution hears of is a later attempt than the one before,
\* however many polls were lost or are still running: only a submission that
\* is still running can set the counter back.
PollsCountUp ==
  [][\A x \in Execs : job'[x] # job[x] /\ "SubmitJob" \notin abandoned[x]
       => job'[x].attempt > job[x].attempt \/ pc[x] = "SubmitJob"]_vars

\* The poll budget ends an execution exactly when it is used up by a job that
\* is not done: no execution polls beyond it, and none is given up on whose
\* job has come as far as it had to.
BudgetEndsPolling ==
  \A x \in Execs :
    /\ pc[x] \in {"WaitForJob", "PollJob"} => job[x].attempt < MaxPolls
    /\ pc[x] = "JobTimedOut" =>
         /\ job[x].attempt >= MaxPolls
         /\ job[x].attempt < input[x].succeed_after /\ ~ input[x].fail_job

\* The item follows the execution.  One that waits for sign-off can be resumed by
\* the token in the item, as the README tells operators to do, whatever polls were
\* left running; only a submission left running, which may reset the item, excepts
\* it.  And as long as no invocation of its was left running, the item's status is
\* that of a job that succeeded, and COMPLETED in the end: a poll left running may
\* set it back at any time.
TokenResumes(x) ==
  pc[x] = "RequestSignoff" /\ awaiting[x] # 0 /\ ~ Waiting(x)
    /\ "SubmitJob" \notin abandoned[x]
    => store[JobOf(x)].token = x
StatusFollows(x) ==
  abandoned[x] = {} =>
    /\ pc[x] = "Completed" => store[JobOf(x)].status = "COMPLETED"
    /\ pc[x] = "RequestSignoff" => store[JobOf(x)].status = "SUCCEEDED"
ItemFollowsExecution == \A x \in Execs : TokenResumes(x) /\ StatusFollows(x)

\* The poll budget, and not the execution's deadline, is what ends polling:
\* the waits it allows for and the sign-off gate fit into TimeoutSeconds.
BudgetBeforeDeadline == \A x \in Execs : pc[x] # "ExecutionTimedOut"

\* What it takes: each lost submission may start the polls of a job anew.
BudgetFits == (MaxFaults + 1) * (MaxPolls * MaxWait) + SignoffTimeout <= Deadline

\* Every execution ends, whether or not anyone signs off.
Termination == \A x \in Execs : <>(pc[x] \in Terminals)
=============================================================================
