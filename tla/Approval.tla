------------------------------ MODULE Approval ------------------------------
(***************************************************************************)
(* The approval gate (patterns/approval-workflow): an execution that       *)
(* pauses on a task token, the e-mailed links that carry it, the clicks    *)
(* the decision_handler Lambda serves and the request item they all share. *)
(*                                                                         *)
(* RequestApproval has no Retry, so an execution has one token: the token  *)
(* of x is x.  Step Functions honours it as long as x waits at             *)
(* RequestApproval, and a click races the timeout, the other links and     *)
(* the other executions of its request_id.                                 *)
(*                                                                         *)
(* A definition named X_Y is X with the bug Y: it is not part of the model *)
(* and no definition uses it.                                              *)
(***************************************************************************)
EXTENDS Naturals, FiniteSets

CONSTANTS
  Execs,          \* executions of the state machine
  Requests,       \* values of request_id
  Inputs,         \* execution inputs: request, valid
  RequestWrapped, \* PrepareRequest's result is at $.request.request
  Budget,         \* MaxAttempts: service (PrepareRequest), all (the others)
  Faults,         \* the kinds of fault the environment may inject
  MaxFaults,      \* how many faults it injects in one behaviour
  MaxClicks       \* how many links are clicked in one behaviour

ASSUME ApprovalAssumption ==
  /\ Inputs \subseteq [request : Requests, valid : BOOLEAN]
  /\ RequestWrapped \in BOOLEAN
  /\ Budget \in [{"service", "all"} -> Nat]
  /\ Faults \subseteq {"crash", "throttle", "lost", "abort"}
  /\ MaxFaults \in Nat /\ MaxClicks \in Nat

TaskStates == {"PrepareRequest", "RequestApproval", "RecordApproval", "HandleRejection"}
Terminals == {"Approved", "Rejected", "ApprovalTimedOut", "ApprovalError",
              "RequestInvalid", "ExecutionFailed"}
Statuses == {"none", "PENDING", "NOTIFIED", "APPROVED", "REJECTED"}
Decided == {"APPROVED", "REJECTED"}

VARIABLES
  input,      \* execution -> its input
  pc,         \* execution -> the state it is in
  tries,      \* execution -> retries used in that state
  invoked,    \* execution -> how many invocations it has made
  awaiting,   \* execution -> the invocation it waits for, 0 if none
  calls,      \* the invocations running for executions, awaited or not
  store,      \* request_id -> status of its item
  mailed,     \* executions whose links have been e-mailed
  clicked,    \* how many links were clicked
  clicks,     \* decision_handler invocations running
  answers,    \* the responses decision_handler gave (ghost)
  resumed,    \* execution -> the decision Step Functions took for its token (ghost)
  faults      \* faults injected so far

execVars == <<pc, tries, awaiting>>
vars == <<input, execVars, invoked, calls, store, mailed, clicked, clicks,
          answers, resumed, faults>>

Init ==
  /\ input \in [Execs -> Inputs]
  /\ pc = [x \in Execs |-> "PrepareRequest"]
  /\ tries = [x \in Execs |-> 0]
  /\ invoked = [x \in Execs |-> 0]
  /\ awaiting = [x \in Execs |-> 0]
  /\ calls = {}
  /\ store = [r \in Requests |-> "none"]
  /\ mailed = {}
  /\ clicked = 0
  /\ clicks = {}
  /\ answers = {}
  /\ resumed = [x \in Execs |-> "none"]
  /\ faults = 0

RequestOf(x) == input[x].request
Awaited(c) == awaiting[c.of] = c.no

-----------------------------------------------------------------------------
(* Step Functions.                                                         *)

Enter(x, s) ==
  /\ pc' = [pc EXCEPT ![x] = s]
  /\ tries' = [tries EXCEPT ![x] = 0]
  /\ awaiting' = [awaiting EXCEPT ![x] = 0]

\* MaxAttempts of the Retry entry of state s that matches error e.
Retries_OneMore(s, e) == Budget["service"] + 1
Retries(s, e) ==
  CASE s = "PrepareRequest"  -> IF e = "service" THEN Budget["service"] ELSE 0
    [] s = "RequestApproval" -> 0
    [] OTHER                 -> Budget["all"]

CatchState(s) ==
  CASE s = "PrepareRequest"  -> "RequestInvalid"
    [] s = "RequestApproval" -> "ApprovalError"
    [] OTHER                 -> "ExecutionFailed"

OnError(x, e) ==
  \/ /\ tries[x] < Retries(pc[x], e)
     /\ tries' = [tries EXCEPT ![x] = @ + 1]
     /\ awaiting' = [awaiting EXCEPT ![x] = 0]
     /\ UNCHANGED pc
  \/ tries[x] >= Retries(pc[x], e) /\ Enter(x, CatchState(pc[x]))

FirstOp(s) == CASE s = "PrepareRequest"  -> "create"
                [] s = "RequestApproval" -> "attach"
                [] OTHER                 -> "reply"

Invoke(x) ==
  /\ pc[x] \in TaskStates /\ awaiting[x] = 0
  /\ invoked' = [invoked EXCEPT ![x] = @ + 1]
  /\ awaiting' = [awaiting EXCEPT ![x] = invoked[x] + 1]
  /\ calls' = calls \cup
       {[of |-> x, no |-> invoked[x] + 1, fn |-> pc[x], at |-> FirstOp(pc[x])]}
  /\ UNCHANGED <<input, pc, tries, store, mailed, clicked, clicks, answers, resumed, faults>>

\* No decision within RequestApproval's TimeoutSeconds: two days, when a
\* Lambda runs for two minutes at most.  The TimeoutSeconds of the execution,
\* three days, cannot pass anywhere else.
TimeOut(x) ==
  /\ pc[x] = "RequestApproval" /\ awaiting[x] # 0
  /\ \A c \in calls : c.of = x => ~ Awaited(c)
  /\ Enter(x, "ApprovalTimedOut")
  /\ UNCHANGED <<input, invoked, calls, store, mailed, clicked, clicks, answers, resumed, faults>>

-----------------------------------------------------------------------------
(* The Lambdas the execution invokes.                                      *)

Continue(c, op) ==
  /\ calls' = (calls \ {c}) \cup {[c EXCEPT !.at = op]}
  /\ UNCHANGED execVars

Raise(c, e) ==
  /\ calls' = calls \ {c}
  /\ IF Awaited(c) THEN OnError(c.of, e) ELSE UNCHANGED execVars

\* ApprovalInputError: prepare_request of an invalid input, or
\* send_approval_email of an event without request_id.
Rejects(c) ==
  \/ c.fn = "PrepareRequest" /\ ~ input[c.of].valid
  \/ c.fn = "RequestApproval" /\ RequestWrapped

Reject(c) ==
  /\ c.at = FirstOp(c.fn) /\ Rejects(c)
  /\ Raise(c, "input")
  /\ UNCHANGED <<input, invoked, store, mailed, clicked, clicks, answers, resumed, faults>>

\* ApprovalStore.create: put_item replaces whatever item the request has.
Create(c) ==
  /\ c.at = "create" /\ ~ Rejects(c)
  /\ store' = [store EXCEPT ![RequestOf(c.of)] = "PENDING"]
  /\ Continue(c, "reply")
  /\ UNCHANGED <<input, invoked, mailed, clicked, clicks, answers, resumed, faults>>

\* ApprovalStore.attach_token: an unconditional update.
AttachToken(c) ==
  /\ c.at = "attach" /\ ~ Rejects(c)
  /\ store' = [store EXCEPT ![RequestOf(c.of)] = "NOTIFIED"]
  /\ Continue(c, "mail")
  /\ UNCHANGED <<input, invoked, mailed, clicked, clicks, answers, resumed, faults>>

\* _send_email: from now on both links may be clicked.
SendEmail_BeforeNotified(c) ==
  /\ c.at = "mail"
  /\ mailed' = mailed \cup {c.of}
  /\ IF c.of \in mailed
       THEN store' = [store EXCEPT ![RequestOf(c.of)] = "NOTIFIED"] /\ Continue(c, "reply")
       ELSE Continue(c, "mail") /\ UNCHANGED store
  /\ UNCHANGED <<input, invoked, clicked, clicks, answers, resumed, faults>>
SendEmail(c) ==
  /\ c.at = "mail"
  /\ mailed' = mailed \cup {c.of}
  /\ Continue(c, "reply")
  /\ UNCHANGED <<input, invoked, store, clicked, clicks, answers, resumed, faults>>

\* The handler returns.  Step Functions ignores what send_approval_email
\* returns and goes on waiting for the token.
NextState(s) == CASE s = "PrepareRequest"  -> "RequestApproval"
                  [] s = "RecordApproval"  -> "Approved"
                  [] s = "HandleRejection" -> "Rejected"

Reply_ApprovalWaits(c) ==
  /\ c.at = "reply"
  /\ calls' = calls \ {c}
  /\ IF Awaited(c) /\ c.fn \notin {"RequestApproval", "RecordApproval"}
       THEN Enter(c.of, NextState(c.fn))
       ELSE UNCHANGED execVars
  /\ UNCHANGED <<input, invoked, store, mailed, clicked, clicks, answers, resumed, faults>>
Reply(c) ==
  /\ c.at = "reply"
  /\ calls' = calls \ {c}
  /\ IF Awaited(c) /\ c.fn # "RequestApproval"
       THEN Enter(c.of, NextState(c.fn))
       ELSE UNCHANGED execVars
  /\ UNCHANGED <<input, invoked, store, mailed, clicked, clicks, answers, resumed, faults>>

Run(c) == Reject(c) \/ Create(c) \/ AttachToken(c) \/ SendEmail(c) \/ Reply(c)

-----------------------------------------------------------------------------
(* decision_handler.                                                       *)

\* Someone, or a scanner, follows a link of the e-mail about x.
Click(x, action) ==
  /\ x \in mailed /\ clicked < MaxClicks
  /\ clicked' = clicked + 1
  /\ clicks' = clicks \cup {[no |-> clicked + 1, token |-> x, action |-> action, at |-> "look"]}
  /\ UNCHANGED <<input, execVars, invoked, calls, store, mailed, answers, resumed, faults>>

Answer(k, code) ==
  /\ clicks' = clicks \ {k}
  /\ answers' = answers \cup
       {[no |-> k.no, token |-> k.token, action |-> k.action, code |-> code]}

NextOp(k, op) ==
  /\ clicks' = (clicks \ {k}) \cup {[k EXCEPT !.at = op]}
  /\ UNCHANGED answers

\* The record is read once; it may be decided by the time it is used.
Look(k) ==
  LET status == store[RequestOf(k.token)]
  IN  /\ k.at = "look"
      /\ IF status = "none" THEN Answer(k, 404)
         ELSE IF status \in Decided THEN Answer(k, 409)
         ELSE NextOp(k, "send")
      /\ UNCHANGED <<input, execVars, invoked, calls, store, mailed, clicked, resumed, faults>>

DecidedState_CatchAllFirst(action) ==
  IF action = "approve" THEN "RecordApproval" ELSE "ApprovalError"
DecidedState(action) == IF action = "approve" THEN "RecordApproval" ELSE "HandleRejection"

\* SendTaskSuccess or SendTaskFailure, or TaskTimedOut and TaskDoesNotExist
\* when the execution no longer waits for the token.
Accept(k) ==
  /\ pc[k.token] = "RequestApproval" /\ awaiting[k.token] # 0
  /\ Enter(k.token, DecidedState(k.action))
  /\ resumed' = [resumed EXCEPT ![k.token] = k.action]

Refuse(k) ==
  /\ ~ (pc[k.token] = "RequestApproval" /\ awaiting[k.token] # 0)
  /\ UNCHANGED <<execVars, resumed>>

Send_LateIsRecorded(k) ==
  /\ k.at = "send"
  /\ (Accept(k) \/ Refuse(k)) /\ NextOp(k, "record")
  /\ UNCHANGED <<input, invoked, calls, store, mailed, clicked, faults>>
Send_LateIsSuccess(k) ==
  /\ k.at = "send"
  /\ (Accept(k) /\ NextOp(k, "record")) \/ (Refuse(k) /\ Answer(k, 200))
  /\ UNCHANGED <<input, invoked, calls, store, mailed, clicked, faults>>
Send(k) ==
  /\ k.at = "send"
  /\ (Accept(k) /\ NextOp(k, "record")) \/ (Refuse(k) /\ Answer(k, 410))
  /\ UNCHANGED <<input, invoked, calls, store, mailed, clicked, faults>>

StatusOf(action) == IF action = "approve" THEN "APPROVED" ELSE "REJECTED"

\* ApprovalStore.record_decision: only if the item is still undecided.
RecordIf(k, undecided) ==
  /\ k.at = "record"
  /\ IF undecided
       THEN /\ store' = [store EXCEPT ![RequestOf(k.token)] = StatusOf(k.action)]
            /\ Answer(k, 200)
       ELSE Answer(k, 409) /\ UNCHANGED store
  /\ UNCHANGED <<input, execVars, invoked, calls, mailed, clicked, resumed, faults>>

Record_PendingOnly(k) == RecordIf(k, store[RequestOf(k.token)] = "PENDING")
Record(k) == RecordIf(k, store[RequestOf(k.token)] \in {"PENDING", "NOTIFIED"})

Serve(k) == Look(k) \/ Send(k) \/ Record(k)

-----------------------------------------------------------------------------
(* Faults.                                                                 *)

Fault(kind) ==
  /\ kind \in Faults /\ faults < MaxFaults
  /\ faults' = faults + 1

\* An invocation dies between two calls, or SES refuses the e-mail.
Crash(c) ==
  /\ Fault("crash")
  /\ Raise(c, "crash")
  /\ UNCHANGED <<input, invoked, store, mailed, clicked, clicks, answers, resumed>>

\* Lambda refuses the invocation.
Throttle(x) ==
  /\ Fault("throttle")
  /\ pc[x] \in TaskStates /\ awaiting[x] = 0
  /\ OnError(x, "service")
  /\ UNCHANGED <<input, invoked, calls, store, mailed, clicked, clicks, answers, resumed>>

\* The response is lost: the invocation is not.
Lose(x) ==
  /\ Fault("lost")
  /\ \E c \in calls : c.of = x /\ Awaited(c)
  /\ OnError(x, "service")
  /\ UNCHANGED <<input, invoked, calls, store, mailed, clicked, clicks, answers, resumed>>

\* decision_handler dies: whoever clicked sees a 500.
Abort(k) ==
  /\ Fault("abort")
  /\ Answer(k, 500)
  /\ UNCHANGED <<input, execVars, invoked, calls, store, mailed, clicked, resumed>>

-----------------------------------------------------------------------------
Next == \/ \E x \in Execs : Invoke(x) \/ TimeOut(x) \/ Throttle(x) \/ Lose(x)
        \/ \E x \in Execs, action \in {"approve", "reject"} : Click(x, action)
        \/ \E c \in calls : Run(c) \/ Crash(c)
        \/ \E k \in clicks : Serve(k) \/ Abort(k)

\* Executions are scheduled, invocations they wait for run on, time passes and
\* API Gateway serves every click.  Nobody has to click, and nothing is assumed
\* of an invocation nobody waits for.
Fairness ==
  /\ \A x \in Execs :
       /\ WF_vars(Invoke(x))
       /\ WF_vars(TimeOut(x))
       /\ WF_vars(\E c \in calls : c.of = x /\ Awaited(c) /\ Run(c))
  /\ WF_vars(\E k \in clicks : Serve(k))

Spec == Init /\ [][Next]_vars /\ Fairness

-----------------------------------------------------------------------------
(* Properties.                                                             *)

\* The retries that the Retry entries of a state allow in all; RequestApproval has
\* none, and a terminal state makes no attempt.
MostRetries(s) ==
  CASE s = "PrepareRequest"                        -> Budget["service"]
    [] s \in {"RecordApproval", "HandleRejection"} -> Budget["all"]
    [] OTHER                                       -> 0

\* Every variable has its type, and no state is retried more often than its Retry
\* entries allow.
TypeOK ==
  /\ input \in [Execs -> Inputs]
  /\ pc \in [Execs -> TaskStates \cup Terminals]
  /\ tries \in [Execs -> Nat]
  /\ \A x \in Execs : tries[x] <= MostRetries(pc[x])
  /\ invoked \in [Execs -> Nat] /\ awaiting \in [Execs -> Nat]
  /\ calls \subseteq [of : Execs, no : Nat, fn : TaskStates,
                      at : {"create", "attach", "mail", "reply"}]
  /\ store \in [Requests -> Statuses]
  /\ mailed \subseteq Execs
  /\ clicked \in 0 .. MaxClicks
  /\ clicks \subseteq [no : 1 .. MaxClicks, token : Execs, action : {"approve", "reject"},
                       at : {"look", "send", "record"}]
  /\ answers \subseteq [no : 1 .. MaxClicks, token : Execs, action : {"approve", "reject"},
                        code : {200, 404, 409, 410, 500}]
  /\ resumed \in [Execs -> {"none", "approve", "reject"}]
  /\ faults \in 0 .. MaxFaults

\* A decision in the item is one that Step Functions took for an execution of
\* that request: a click that came too late, or lost to another, records none.
RecordedDecisionWasTaken ==
  \A r \in Requests : store[r] \in Decided =>
    \E x \in Execs : RequestOf(x) = r /\ resumed[x] # "none"
                       /\ store[r] = StatusOf(resumed[x])

\* Whoever is told 200 has decided that execution; whoever is told anything
\* but 200 or 500 (Already decided, Link expired) has not.
AnswersAreTrue ==
  \A a \in answers :
    /\ a.code = 200 => resumed[a.token] = a.action
    /\ a.code \in {404, 409, 410} /\ resumed[a.token] # "none" =>
         \E b \in answers \cup clicks :
           b.no # a.no /\ b.token = a.token /\ b.action = resumed[a.token]

\* Of all the clicks on a request, at most one is told that it decided.
OneClickWins ==
  \A a, b \in answers :
    a.code = 200 /\ b.code = 200 /\ RequestOf(a.token) = RequestOf(b.token) => a = b

\* A recorded decision is final, as long as no prepare_request is about to
\* replace the item.
DecisionIsFinal ==
  [][\A r \in Requests :
       store[r] \in Decided /\ (\A c \in calls : c.at = "create" => RequestOf(c.of) # r)
         => store'[r] = store[r]]_vars

\* The outcome of an execution is the decision that resumed it, and there is
\* none after a timeout.
OutcomeIsTheDecision ==
  \A x \in Execs :
    /\ pc[x] \in {"RecordApproval", "Approved"} => resumed[x] = "approve"
    /\ pc[x] \in {"HandleRejection", "Rejected"} => resumed[x] = "reject"
    /\ pc[x] \in {"ApprovalTimedOut", "ApprovalError"} => resumed[x] = "none"

\* Every execution ends: decided, timed out or failed.
Termination == \A x \in Execs : <>(pc[x] \in Terminals)

\* A decision that Step Functions took gets recorded in the item, unless the
\* decision_handler that got it through dies.
DecisionsAreRecorded ==
  \A x \in Execs, action \in {"approve", "reject"} :
    (\E k \in clicks : k.at = "record" /\ k.token = x /\ k.action = action) ~>
      \/ store[RequestOf(x)] = StatusOf(action)
      \/ \E a \in answers : a.token = x /\ a.action = action /\ a.code = 500

\* The approver of a valid request receives an e-mail, faults aside.
ValidRequestsAreMailed ==
  \A x \in Execs : input[x].valid => <>(x \in mailed \/ faults > 0)
=============================================================================
