--------------------------- MODULE ApprovalProofs ---------------------------
(* Proofs of the safety properties of the approval gate, for every set of  *)
(* executions, requests and inputs, every budget and every mix of faults.  *)
EXTENDS Approval, TLAPS

States == TaskStates \cup Terminals

-----------------------------------------------------------------------------
(* The inductive invariant, by parts.                                      *)

\* Invocation numbers are never reused, and the invocation an execution waits
\* for is one of its current state.
CallsOK ==
  /\ \A c \in calls : /\ c.no # 0 /\ c.no <= invoked[c.of]
                      /\ Awaited(c) => c.fn = pc[c.of]
  /\ \A x \in Execs : /\ awaiting[x] <= invoked[x]
                      /\ awaiting[x] # 0 => pc[x] \in TaskStates

TypeInv == TypeOK /\ CallsOK

\* No decision is taken before RequestApproval ends, and none changes after.
Undecided == {"PrepareRequest", "RequestApproval", "RequestInvalid",
              "ApprovalTimedOut", "ApprovalError"}

DecisionFits ==
  \A x \in Execs :
    /\ pc[x] \in Undecided => resumed[x] = "none"
    /\ pc[x] \in {"RecordApproval", "Approved"} => resumed[x] = "approve"
    /\ pc[x] \in {"HandleRejection", "Rejected"} => resumed[x] = "reject"

\* A click that got its decision through and has yet to record it, and an
\* answer that says so, are the only ones of their token.
Through(k) == k.at = "record"
Won(a) == a.code = 200

OneWinner ==
  /\ \A k \in clicks : Through(k) => resumed[k.token] = k.action
  /\ \A a \in answers : Won(a) => resumed[a.token] = a.action
  /\ \A k, l \in clicks : Through(k) /\ Through(l) /\ k.token = l.token => k = l
  /\ \A k \in clicks, a \in answers : ~ (Through(k) /\ Won(a) /\ k.token = a.token)
  /\ \A a, b \in answers : Won(a) /\ Won(b) /\ a.token = b.token => a = b

IInv == TypeInv /\ DecisionFits /\ OneWinner /\ RecordedDecisionWasTaken

\* Every execution has a request_id of its own, as generated ones are.
DistinctRequests == \A x, y \in Execs : RequestOf(x) = RequestOf(y) => x = y

-----------------------------------------------------------------------------
(* Types.                                                                  *)

ControlOK ==
  /\ pc \in [Execs -> States]
  /\ tries \in [Execs -> Nat]
  /\ \A x \in Execs : tries[x] <= MostRetries(pc[x])
  /\ awaiting \in [Execs -> Nat]

\* An execution that still waits after the step waits where it waited before.
KeepsWaiting ==
  \A x \in Execs : awaiting'[x] # 0 => pc'[x] = pc[x] /\ awaiting'[x] = awaiting[x]

\* What a transition that takes no decision may do to an execution.
Follows(s, t) ==
  \/ t = s
  \/ s = "PrepareRequest" /\ t \in {"RequestApproval", "RequestInvalid"}
  \/ s = "RequestApproval" /\ t \in {"ApprovalError", "ApprovalTimedOut"}
  \/ s = "RecordApproval" /\ t \in {"Approved", "ExecutionFailed"}
  \/ s = "HandleRejection" /\ t \in {"Rejected", "ExecutionFailed"}

Moves == \A x \in Execs : Follows(pc[x], pc'[x])

Calls == [of : Execs, no : Nat, fn : TaskStates, at : {"create", "attach", "mail", "reply"}]
Clicks == [no : 1 .. MaxClicks, token : Execs, action : {"approve", "reject"},
           at : {"look", "send", "record"}]
Answers == [no : 1 .. MaxClicks, token : Execs, action : {"approve", "reject"},
            code : {200, 404, 409, 410, 500}]

\* What a state's error is retried for is within what its Retry entries allow.
LEMMA RetriesBounded ==
  /\ \A s : MostRetries(s) \in Nat
  /\ \A s \in TaskStates : \A e : Retries(s, e) \in Nat /\ Retries(s, e) <= MostRetries(s)
<1>1. Budget["service"] \in Nat /\ Budget["all"] \in Nat
  BY ApprovalAssumption
<1>2. \A s : MostRetries(s) \in Nat
  BY <1>1 DEF MostRetries
<1>3. ASSUME NEW s \in TaskStates, NEW e
      PROVE  Retries(s, e) \in Nat /\ Retries(s, e) <= MostRetries(s)
  <2>1. CASE s = "PrepareRequest"
    BY <1>1, <2>1 DEF Retries, MostRetries
  <2>2. CASE s = "RequestApproval"
    BY <2>2 DEF Retries, MostRetries
  <2>3. CASE s \in {"RecordApproval", "HandleRejection"}
    BY <1>1, <2>3 DEF Retries, MostRetries
  <2> QED
    BY <2>1, <2>2, <2>3 DEF TaskStates
<1> QED
  BY <1>2, <1>3

\* Changing state keeps an execution's control state well-typed.
LEMMA EnterOK ==
  ASSUME ControlOK, NEW x \in Execs, NEW s \in States, Enter(x, s)
  PROVE  ControlOK' /\ KeepsWaiting
<1>1. pc' \in [Execs -> States] /\ awaiting' \in [Execs -> Nat] /\ tries' \in [Execs -> Nat]
  BY DEF ControlOK, Enter
<1>2. \A y \in Execs : tries'[y] = 0 \/ (tries'[y] = tries[y] /\ pc'[y] = pc[y])
  BY DEF ControlOK, Enter
<1>3. \A y \in Execs : tries'[y] <= MostRetries(pc'[y])
  BY <1>2, RetriesBounded DEF ControlOK
<1>4. KeepsWaiting
  BY DEF ControlOK, Enter, KeepsWaiting
<1> QED
  BY <1>1, <1>3, <1>4 DEF ControlOK

\* So does an error, whether it is retried or caught, and it decides nothing.
LEMMA ErrorOK ==
  ASSUME ControlOK, NEW x \in Execs, NEW e, pc[x] \in TaskStates, OnError(x, e)
  PROVE  ControlOK' /\ KeepsWaiting /\ Moves
<1>1. CASE tries[x] < Retries(pc[x], e) /\ tries' = [tries EXCEPT ![x] = @ + 1]
             /\ awaiting' = [awaiting EXCEPT ![x] = 0] /\ UNCHANGED pc
  <2>1. /\ Retries(pc[x], e) \in Nat /\ Retries(pc[x], e) <= MostRetries(pc[x])
        /\ MostRetries(pc[x]) \in Nat
    BY RetriesBounded
  <2>2. pc' \in [Execs -> States] /\ awaiting' \in [Execs -> Nat] /\ tries' \in [Execs -> Nat]
    BY <1>1 DEF ControlOK
  <2>3. tries[x] + 1 <= MostRetries(pc[x])
    BY <1>1, <2>1 DEF ControlOK
  <2>4. \A y \in Execs : tries'[y] <= MostRetries(pc'[y])
    BY <1>1, <2>3 DEF ControlOK
  <2>5. KeepsWaiting /\ Moves
    BY <1>1 DEF ControlOK, KeepsWaiting, Moves, Follows
  <2> QED
    BY <2>2, <2>4, <2>5 DEF ControlOK
<1>2. CASE Enter(x, CatchState(pc[x]))
  <2>1. CatchState(pc[x]) \in States /\ Follows(pc[x], CatchState(pc[x]))
    BY DEF CatchState, States, TaskStates, Terminals, Follows
  <2>2. Moves
    BY <1>2, <2>1 DEF Enter, Moves, Follows, ControlOK
  <2> QED
    BY <1>2, <2>1, <2>2, EnterOK
<1> QED
  BY <1>1, <1>2 DEF OnError

LEMMA RaiseOK ==
  ASSUME TypeInv, NEW c \in calls, NEW e, Raise(c, e)
  PROVE  ControlOK' /\ KeepsWaiting /\ Moves /\ calls' \subseteq calls
<1>1. ControlOK /\ c.of \in Execs
  BY DEF TypeInv, TypeOK, ControlOK, States
<1>2. CASE Awaited(c)
  <2>1. pc[c.of] \in TaskStates
    BY <1>1, <1>2 DEF TypeInv, CallsOK, Awaited, TypeOK
  <2> QED
    BY <1>1, <1>2, <2>1, ErrorOK DEF Raise
<1>3. CASE ~ Awaited(c)
  <2>1. UNCHANGED <<pc, tries, awaiting>>
    BY <1>3 DEF Raise, execVars
  <2> QED
    BY <1>1, <2>1 DEF Raise, ControlOK, KeepsWaiting, Moves, Follows
<1> QED
  BY <1>2, <1>3

\* The bookkeeping survives every step that adds no invocation.
LEMMA CallsKept ==
  ASSUME TypeInv, ControlOK', KeepsWaiting, invoked' = invoked, calls' \subseteq calls
  PROVE  CallsOK' /\ calls' \subseteq Calls
<1>1. \A d \in calls : d \in Calls /\ d.of \in Execs /\ d.no \in Nat
  BY DEF TypeInv, TypeOK, Calls
<1>2. \A d \in calls' : /\ d.no # 0 /\ d.no <= invoked'[d.of]
                        /\ Awaited(d)' => d.fn = pc'[d.of]
  BY <1>1 DEF TypeInv, CallsOK, KeepsWaiting, Awaited
<1>3. \A x \in Execs : /\ awaiting'[x] <= invoked'[x]
                       /\ awaiting'[x] # 0 => pc'[x] \in TaskStates
  BY DEF TypeInv, TypeOK, CallsOK, KeepsWaiting
<1> QED
  BY <1>1, <1>2, <1>3 DEF CallsOK

\* And an invocation that goes on to its next call.
LEMMA ContinueOK ==
  ASSUME TypeInv, NEW c \in calls, NEW op \in {"create", "attach", "mail", "reply"},
         Continue(c, op), invoked' = invoked
  PROVE  ControlOK' /\ Moves /\ CallsOK' /\ calls' \subseteq Calls
<1> DEFINE d == [c EXCEPT !.at = op]
<1>1. \A b \in calls : b \in Calls /\ b.of \in Execs /\ b.no \in Nat
  BY DEF TypeInv, TypeOK, Calls
<1>2. d \in Calls /\ d.of = c.of /\ d.no = c.no /\ d.fn = c.fn
  BY <1>1 DEF Calls
<1>3. calls' = (calls \ {c}) \cup {d} /\ UNCHANGED <<pc, tries, awaiting>>
  BY DEF Continue, execVars
<1>4. ControlOK' /\ calls' \subseteq Calls /\ Moves
  BY <1>1, <1>2, <1>3 DEF TypeInv, TypeOK, ControlOK, States, Moves, Follows
<1>5. \A b \in calls' : /\ b.no # 0 /\ b.no <= invoked'[b.of]
                        /\ Awaited(b)' => b.fn = pc'[b.of]
  BY <1>2, <1>3 DEF TypeInv, CallsOK, Awaited
<1> HIDE DEF d
<1> QED
  BY <1>3, <1>4, <1>5 DEF TypeInv, TypeOK, CallsOK

LEMMA TypeUnfold ==
  ASSUME TypeInv
  PROVE  /\ input \in [Execs -> Inputs] /\ invoked \in [Execs -> Nat]
         /\ ControlOK /\ calls \subseteq Calls /\ CallsOK
         /\ store \in [Requests -> Statuses] /\ mailed \subseteq Execs
         /\ clicked \in 0 .. MaxClicks /\ clicks \subseteq Clicks
         /\ answers \subseteq Answers
         /\ resumed \in [Execs -> {"none", "approve", "reject"}]
         /\ faults \in 0 .. MaxFaults
         /\ MaxClicks \in Nat /\ MaxFaults \in Nat
         /\ \A x \in Execs : RequestOf(x) \in Requests
BY ApprovalAssumption
   DEF TypeInv, TypeOK, ControlOK, States, Calls, Clicks, Answers, RequestOf

LEMMA TypeFold ==
  ASSUME input' \in [Execs -> Inputs], invoked' \in [Execs -> Nat],
         ControlOK', calls' \subseteq Calls, CallsOK',
         store' \in [Requests -> Statuses], mailed' \subseteq Execs,
         clicked' \in 0 .. MaxClicks, clicks' \subseteq Clicks,
         answers' \subseteq Answers,
         resumed' \in [Execs -> {"none", "approve", "reject"}],
         faults' \in 0 .. MaxFaults
  PROVE  TypeInv'
BY DEF TypeInv, TypeOK, ControlOK, States, Calls, Clicks, Answers
-----------------------------------------------------------------------------
(* Steps of the executions and their invocations.                          *)

\* Such a step takes no decision and records none.
TaskStep ==
  \/ \E x \in Execs : Invoke(x) \/ TimeOut(x) \/ Throttle(x) \/ Lose(x)
  \/ \E c \in calls : Run(c) \/ Crash(c)

Undeciding ==
  /\ Moves
  /\ UNCHANGED <<input, resumed, clicks, answers>>
  /\ \A r \in Requests : store'[r] = store[r] \/ store'[r] \notin Decided

LEMMA FaultOK ==
  ASSUME TypeInv, NEW kind, Fault(kind)
  PROVE  faults' \in 0 .. MaxFaults
BY TypeUnfold DEF Fault

LEMMA TaskStepOK ==
  ASSUME TypeInv, TaskStep
  PROVE  TypeInv' /\ Undeciding
<1>0. /\ input \in [Execs -> Inputs] /\ invoked \in [Execs -> Nat]
      /\ ControlOK /\ calls \subseteq Calls /\ CallsOK
      /\ store \in [Requests -> Statuses] /\ mailed \subseteq Execs
      /\ clicked \in 0 .. MaxClicks /\ clicks \subseteq Clicks
      /\ answers \subseteq Answers
      /\ resumed \in [Execs -> {"none", "approve", "reject"}]
      /\ faults \in 0 .. MaxFaults
      /\ \A x \in Execs : RequestOf(x) \in Requests
  BY TypeUnfold
<1>00. \A c \in calls : c \in Calls /\ c.of \in Execs
  BY <1>0 DEF Calls
<1>1. ASSUME NEW x \in Execs, Invoke(x) PROVE TypeInv' /\ Undeciding
  <2> DEFINE c == [of |-> x, no |-> invoked[x] + 1, fn |-> pc[x], at |-> FirstOp(pc[x])]
  <2>1. c \in Calls
    BY <1>0, <1>1 DEF Invoke, Calls, FirstOp
  <2>2. /\ calls' = calls \cup {c} /\ UNCHANGED <<pc, tries>>
        /\ invoked' = [invoked EXCEPT ![x] = @ + 1]
        /\ awaiting' = [awaiting EXCEPT ![x] = invoked[x] + 1]
    BY <1>0, <1>1 DEF Invoke
  <2>3. invoked' \in [Execs -> Nat] /\ calls' \subseteq Calls /\ ControlOK'
    BY <1>0, <2>1, <2>2 DEF ControlOK
  <2>4. \A d \in calls : /\ d \in Calls /\ d.of \in Execs /\ d.no \in Nat
                         /\ d.no # 0 /\ d.no <= invoked'[d.of]
                         /\ Awaited(d)' => d.fn = pc'[d.of]
    BY <1>0, <2>2 DEF Calls, CallsOK, Awaited
  <2>5. c.no # 0 /\ c.no <= invoked'[c.of] /\ c.fn = pc'[c.of]
    BY <1>0, <2>2
  <2>6. \A y \in Execs : /\ awaiting'[y] <= invoked'[y]
                         /\ awaiting'[y] # 0 => pc'[y] \in TaskStates
    BY <1>0, <1>1, <2>2 DEF CallsOK, ControlOK, Invoke
  <2>7. CallsOK'
    BY <2>2, <2>4, <2>5, <2>6 DEF CallsOK
  <2>8. TypeInv'
    BY <1>0, <1>1, <2>3, <2>7, TypeFold DEF Invoke
  <2> QED
    BY <1>1, <2>8 DEF Invoke, Undeciding, Moves, Follows
<1>2. ASSUME NEW x \in Execs, TimeOut(x) PROVE TypeInv' /\ Undeciding
  <2>1. "ApprovalTimedOut" \in States /\ Enter(x, "ApprovalTimedOut") /\ pc[x] = "RequestApproval"
    BY <1>2 DEF TimeOut, States, Terminals
  <2>2. ControlOK' /\ KeepsWaiting
    BY <1>0, <2>1, EnterOK
  <2>3. CallsOK' /\ calls' \subseteq Calls
    BY <1>2, <2>2, CallsKept DEF TimeOut
  <2>4. Moves
    BY <1>0, <2>1 DEF Moves, Follows, Enter, ControlOK
  <2>5. TypeInv'
    BY <1>0, <1>2, <2>2, <2>3, TypeFold DEF TimeOut
  <2> QED
    BY <1>2, <2>4, <2>5 DEF TimeOut, Undeciding
<1>3. ASSUME NEW x \in Execs, Throttle(x) PROVE TypeInv' /\ Undeciding
  <2>1. ControlOK' /\ KeepsWaiting /\ Moves
    BY <1>0, <1>3, ErrorOK DEF Throttle
  <2>2. CallsOK' /\ calls' \subseteq Calls
    BY <1>3, <2>1, CallsKept DEF Throttle
  <2>3. TypeInv'
    BY <1>0, <1>3, <2>1, <2>2, TypeFold, FaultOK DEF Throttle
  <2> QED
    BY <1>3, <2>1, <2>3 DEF Throttle, Undeciding
<1>4. ASSUME NEW x \in Execs, Lose(x) PROVE TypeInv' /\ Undeciding
  <2>1. PICK c \in calls : c.of = x /\ Awaited(c)
    BY <1>4 DEF Lose
  <2>2. pc[x] \in TaskStates
    BY <1>0, <1>00, <2>1 DEF CallsOK, Awaited, Calls
  <2>3. ControlOK' /\ KeepsWaiting /\ Moves
    BY <1>0, <1>4, <2>2, ErrorOK DEF Lose
  <2>4. CallsOK' /\ calls' \subseteq Calls
    BY <1>4, <2>3, CallsKept DEF Lose
  <2>5. TypeInv'
    BY <1>0, <1>4, <2>3, <2>4, TypeFold, FaultOK DEF Lose
  <2> QED
    BY <1>4, <2>3, <2>5 DEF Lose, Undeciding
<1>5. ASSUME NEW c \in calls, Reject(c) PROVE TypeInv' /\ Undeciding
  <2>1. ControlOK' /\ KeepsWaiting /\ Moves /\ calls' \subseteq calls
    BY <1>5, RaiseOK DEF Reject
  <2>2. CallsOK' /\ calls' \subseteq Calls
    BY <1>5, <2>1, CallsKept DEF Reject
  <2>3. TypeInv'
    BY <1>0, <1>5, <2>1, <2>2, TypeFold DEF Reject
  <2> QED
    BY <1>5, <2>1, <2>3 DEF Reject, Undeciding
<1>6. ASSUME NEW c \in calls, Crash(c) PROVE TypeInv' /\ Undeciding
  <2>1. ControlOK' /\ KeepsWaiting /\ Moves /\ calls' \subseteq calls
    BY <1>6, RaiseOK DEF Crash
  <2>2. CallsOK' /\ calls' \subseteq Calls
    BY <1>6, <2>1, CallsKept DEF Crash
  <2>3. TypeInv'
    BY <1>0, <1>6, <2>1, <2>2, TypeFold, FaultOK DEF Crash
  <2> QED
    BY <1>6, <2>1, <2>3 DEF Crash, Undeciding
<1>7. ASSUME NEW c \in calls, Create(c) PROVE TypeInv' /\ Undeciding
  <2>1. Continue(c, "reply") /\ store' = [store EXCEPT ![RequestOf(c.of)] = "PENDING"]
    BY <1>7 DEF Create
  <2>2. ControlOK' /\ Moves /\ CallsOK' /\ calls' \subseteq Calls
    BY <1>7, <2>1, ContinueOK DEF Create
  <2>3. store' \in [Requests -> Statuses]
    BY <1>0, <2>1 DEF Statuses
  <2>4. TypeInv'
    BY <1>0, <1>7, <2>2, <2>3, TypeFold DEF Create
  <2> QED
    BY <1>0, <1>7, <2>1, <2>2, <2>4 DEF Create, Undeciding, Decided
<1>8. ASSUME NEW c \in calls, AttachToken(c) PROVE TypeInv' /\ Undeciding
  <2>1. Continue(c, "mail") /\ store' = [store EXCEPT ![RequestOf(c.of)] = "NOTIFIED"]
    BY <1>8 DEF AttachToken
  <2>2. ControlOK' /\ Moves /\ CallsOK' /\ calls' \subseteq Calls
    BY <1>8, <2>1, ContinueOK DEF AttachToken
  <2>3. store' \in [Requests -> Statuses]
    BY <1>0, <2>1 DEF Statuses
  <2>4. TypeInv'
    BY <1>0, <1>8, <2>2, <2>3, TypeFold DEF AttachToken
  <2> QED
    BY <1>0, <1>8, <2>1, <2>2, <2>4 DEF AttachToken, Undeciding, Decided
<1>9. ASSUME NEW c \in calls, SendEmail(c) PROVE TypeInv' /\ Undeciding
  <2>1. Continue(c, "reply") /\ mailed' = mailed \cup {c.of}
    BY <1>9 DEF SendEmail
  <2>2. ControlOK' /\ Moves /\ CallsOK' /\ calls' \subseteq Calls
    BY <1>9, <2>1, ContinueOK DEF SendEmail
  <2>3. TypeInv'
    BY <1>0, <1>00, <1>9, <2>1, <2>2, TypeFold DEF SendEmail
  <2> QED
    BY <1>9, <2>2, <2>3 DEF SendEmail, Undeciding
<1>10. ASSUME NEW c \in calls, Reply(c) PROVE TypeInv' /\ Undeciding
  <2>1. ControlOK' /\ KeepsWaiting /\ Moves
    <3>1. CASE Awaited(c) /\ c.fn # "RequestApproval"
      <4>1. c.fn = pc[c.of] /\ c.fn \in TaskStates /\ c.of \in Execs
        BY <1>0, <1>00, <3>1 DEF CallsOK, Calls
      <4>2. NextState(c.fn) \in States /\ Follows(pc[c.of], NextState(c.fn))
        BY <3>1, <4>1 DEF NextState, TaskStates, Terminals, States, Follows
      <4>3. Enter(c.of, NextState(c.fn))
        BY <1>10, <3>1 DEF Reply
      <4>4. Moves
        BY <1>0, <4>1, <4>2, <4>3 DEF Enter, Moves, Follows, ControlOK
      <4> QED
        BY <1>0, <4>1, <4>2, <4>3, <4>4, EnterOK
    <3>2. CASE ~ (Awaited(c) /\ c.fn # "RequestApproval")
      <4>1. UNCHANGED <<pc, tries, awaiting>>
        BY <1>10, <3>2 DEF Reply, execVars
      <4> QED
        BY <1>0, <4>1 DEF ControlOK, KeepsWaiting, Moves, Follows
    <3> QED
      BY <3>1, <3>2
  <2>2. CallsOK' /\ calls' \subseteq Calls
    BY <1>10, <2>1, CallsKept DEF Reply
  <2>3. TypeInv'
    BY <1>0, <1>10, <2>1, <2>2, TypeFold DEF Reply
  <2> QED
    BY <1>10, <2>1, <2>3 DEF Reply, Undeciding
<1> QED
  BY <1>1, <1>2, <1>3, <1>4, <1>5, <1>6, <1>7, <1>8, <1>9, <1>10 DEF TaskStep, Run

\* So it keeps the rest of the invariant.
LEMMA UndecidingKeeps ==
  ASSUME IInv, TypeInv', Undeciding
  PROVE  IInv'
<1>0. /\ \A x \in Execs : RequestOf(x) \in Requests
      /\ \A x \in Execs : RequestOf(x)' = RequestOf(x)
  BY TypeUnfold DEF IInv, Undeciding, RequestOf
<1>1. DecisionFits'
  BY DEF IInv, DecisionFits, Undeciding, Undecided, Moves, Follows
<1>2. OneWinner'
  BY DEF IInv, OneWinner, Undeciding
<1>3. RecordedDecisionWasTaken'
  BY <1>0 DEF IInv, RecordedDecisionWasTaken, Undeciding
<1> QED
  BY <1>1, <1>2, <1>3 DEF IInv

-----------------------------------------------------------------------------
(* Steps of decision_handler.                                              *)

\* What they leave alone.
LEMMA ControlKept ==
  ASSUME TypeInv, UNCHANGED <<execVars, invoked, calls>>
  PROVE  ControlOK' /\ CallsOK' /\ calls' \subseteq Calls
BY TypeUnfold DEF execVars, ControlOK, CallsOK, Awaited

\* An answer ends the invocation.
LEMMA AnswerOK ==
  ASSUME TypeInv, NEW k \in clicks, NEW code \in {200, 404, 409, 410, 500}, Answer(k, code)
  PROVE  clicks' \subseteq Clicks /\ answers' \subseteq Answers
<1>1. k \in Clicks /\ clicks \subseteq Clicks /\ answers \subseteq Answers
  BY TypeUnfold
<1>2. [no |-> k.no, token |-> k.token, action |-> k.action, code |-> code] \in Answers
  BY <1>1 DEF Clicks, Answers
<1> QED
  BY <1>1, <1>2 DEF Answer

LEMMA NextOpOK ==
  ASSUME TypeInv, NEW k \in clicks, NEW op \in {"send", "record"}, NextOp(k, op)
  PROVE  clicks' \subseteq Clicks /\ answers' \subseteq Answers
<1>1. k \in Clicks /\ clicks \subseteq Clicks /\ answers \subseteq Answers
  BY TypeUnfold
<1>2. [k EXCEPT !.at = op] \in Clicks
  BY <1>1 DEF Clicks
<1> QED
  BY <1>1, <1>2 DEF NextOp

\* A click that is not through, or an answer other than 200, changes nothing
\* about who won.
LEMMA NothingWon ==
  ASSUME IInv, resumed' = resumed, NEW k \in clicks, NEW code, code # 200, Answer(k, code)
  PROVE  OneWinner'
<1> DEFINE a == [no |-> k.no, token |-> k.token, action |-> k.action, code |-> code]
<1>1. ~ Won(a)
  BY DEF Won
<1>2. answers' = answers \cup {a} /\ clicks' \subseteq clicks
  BY DEF Answer
<1> HIDE DEF a
<1>3. \A b \in answers' : Won(b) => b \in answers
  BY <1>1, <1>2
<1> QED
  BY <1>2, <1>3 DEF IInv, OneWinner, Won, Through

\* A click begins.
LEMMA ClickOK ==
  ASSUME IInv, NEW x \in Execs, NEW action \in {"approve", "reject"}, Click(x, action)
  PROVE  IInv'
<1> DEFINE k == [no |-> clicked + 1, token |-> x, action |-> action, at |-> "look"]
<1>0. /\ input \in [Execs -> Inputs] /\ invoked \in [Execs -> Nat]
      /\ store \in [Requests -> Statuses] /\ mailed \subseteq Execs
      /\ clicked \in 0 .. MaxClicks /\ clicks \subseteq Clicks
      /\ answers \subseteq Answers
      /\ resumed \in [Execs -> {"none", "approve", "reject"}]
      /\ faults \in 0 .. MaxFaults /\ MaxClicks \in Nat
  BY TypeUnfold DEF IInv
<1>1. clicked < MaxClicks /\ clicked' = clicked + 1 /\ clicks' = clicks \cup {k}
  BY DEF Click
<1>2. clicked' \in 0 .. MaxClicks /\ clicked + 1 \in 1 .. MaxClicks
  BY <1>0, <1>1
<1>3. k \in Clicks
  BY <1>2 DEF Clicks
<1>4. ControlOK' /\ CallsOK' /\ calls' \subseteq Calls
  BY ControlKept DEF IInv, Click
<1>5. TypeInv'
  BY <1>0, <1>1, <1>2, <1>3, <1>4, TypeFold DEF Click
<1>6. DecisionFits'
  BY DEF IInv, DecisionFits, Click, execVars
<1>7. OneWinner'
  <2>1. ~ Through(k)
    BY DEF Through
  <2> HIDE DEF k
  <2>2. \A l \in clicks' : Through(l) => l \in clicks
    BY <1>1, <2>1
  <2> QED
    BY <2>2 DEF IInv, OneWinner, Click, Through
<1>8. RecordedDecisionWasTaken'
  BY DEF IInv, RecordedDecisionWasTaken, Click, RequestOf
<1> QED
  BY <1>5, <1>6, <1>7, <1>8 DEF IInv

\* The parts of TypeInv that decision_handler's steps need not look at.
LEMMA ServeType ==
  ASSUME TypeInv, ControlOK', CallsOK', calls' \subseteq Calls,
         UNCHANGED <<input, invoked, mailed, clicked>>,
         store' \in [Requests -> Statuses], clicks' \subseteq Clicks, answers' \subseteq Answers,
         resumed' \in [Execs -> {"none", "approve", "reject"}], faults' \in 0 .. MaxFaults
  PROVE  TypeInv'
<1>1. /\ input \in [Execs -> Inputs] /\ invoked \in [Execs -> Nat]
      /\ mailed \subseteq Execs /\ clicked \in 0 .. MaxClicks
  BY TypeUnfold
<1> QED
  BY <1>1, TypeFold

LEMMA LookOK ==
  ASSUME IInv, NEW k \in clicks, Look(k)
  PROVE  IInv'
<1>1. /\ store \in [Requests -> Statuses] /\ faults \in 0 .. MaxFaults
      /\ resumed \in [Execs -> {"none", "approve", "reject"}]
  BY TypeUnfold DEF IInv
<1>2. Answer(k, 404) \/ Answer(k, 409) \/ NextOp(k, "send")
  BY DEF Look
<1>3. clicks' \subseteq Clicks /\ answers' \subseteq Answers
  BY <1>2, AnswerOK, NextOpOK DEF IInv
<1>4. ControlOK' /\ CallsOK' /\ calls' \subseteq Calls
  BY ControlKept DEF IInv, Look
<1>5. TypeInv'
  BY <1>1, <1>3, <1>4, ServeType DEF IInv, Look
<1>6. DecisionFits'
  BY DEF IInv, DecisionFits, Look, execVars
<1>7. OneWinner'
  <2>1. CASE Answer(k, 404) \/ Answer(k, 409)
    BY <2>1, NothingWon DEF Look
  <2>2. CASE NextOp(k, "send")
    <3> DEFINE l == [k EXCEPT !.at = "send"]
    <3>1. k \in Clicks
      BY TypeUnfold DEF IInv
    <3>2. ~ Through(l)
      BY <3>1 DEF Through, Clicks
    <3>3. clicks' = (clicks \ {k}) \cup {l} /\ answers' = answers /\ resumed' = resumed
      BY <2>2 DEF NextOp, Look
    <3> HIDE DEF l
    <3>4. \A j \in clicks' : Through(j) => j \in clicks
      BY <3>2, <3>3
    <3> QED
      BY <3>3, <3>4 DEF IInv, OneWinner, Through
  <2> QED
    BY <1>2, <2>1, <2>2
<1>8. RecordedDecisionWasTaken'
  BY DEF IInv, RecordedDecisionWasTaken, Look, RequestOf
<1> QED
  BY <1>5, <1>6, <1>7, <1>8 DEF IInv

\* The decision is taken: the execution was undecided, so nobody had won it.
LEMMA SendOK ==
  ASSUME IInv, NEW k \in clicks, Send(k)
  PROVE  IInv'
<1>1. /\ store \in [Requests -> Statuses] /\ faults \in 0 .. MaxFaults
      /\ resumed \in [Execs -> {"none", "approve", "reject"}]
      /\ clicks \subseteq Clicks /\ answers \subseteq Answers /\ ControlOK
      /\ store' = store /\ faults' = faults /\ input' = input
  BY TypeUnfold DEF IInv, Send
<1>2. /\ k.token \in Execs /\ k.action \in {"approve", "reject"}
      /\ [k EXCEPT !.at = "record"].token = k.token
      /\ [k EXCEPT !.at = "record"].action = k.action
  BY <1>1 DEF Clicks
<1>3. CASE Accept(k) /\ NextOp(k, "record")
  <2> DEFINE l == [k EXCEPT !.at = "record"]
  <2>1. /\ clicks' = (clicks \ {k}) \cup {l} /\ answers' = answers
        /\ resumed' = [resumed EXCEPT ![k.token] = k.action]
        /\ Enter(k.token, DecidedState(k.action)) /\ pc[k.token] = "RequestApproval"
    BY <1>3 DEF NextOp, Accept
  <2>2. DecidedState(k.action) \in States
    BY DEF DecidedState, States, TaskStates
  <2>3. ControlOK' /\ KeepsWaiting
    BY <1>1, <1>2, <2>1, <2>2, EnterOK
  <2>4. CallsOK' /\ calls' \subseteq Calls
    BY <2>3, CallsKept DEF IInv, Send
  <2>5. clicks' \subseteq Clicks /\ answers' \subseteq Answers
    BY <1>3, NextOpOK DEF IInv
  <2>6. resumed' \in [Execs -> {"none", "approve", "reject"}]
    BY <1>1, <1>2, <2>1
  <2>7. TypeInv'
    BY <1>1, <2>3, <2>4, <2>5, <2>6, ServeType DEF IInv, Send
  <2>8. DecisionFits'
    <3>1. pc' = [pc EXCEPT ![k.token] = DecidedState(k.action)]
      BY <2>1 DEF Enter
    <3>2. \A x \in Execs \ {k.token} : pc'[x] = pc[x] /\ resumed'[x] = resumed[x]
      BY <1>1, <2>1, <3>1 DEF ControlOK
    <3>3. pc'[k.token] = DecidedState(k.action) /\ resumed'[k.token] = k.action
      BY <1>1, <1>2, <2>1, <3>1 DEF ControlOK
    <3> QED
      BY <1>2, <3>2, <3>3 DEF IInv, DecisionFits, Undecided, DecidedState
  <2>9. resumed[k.token] = "none"
    BY <1>2, <2>1 DEF IInv, DecisionFits, Undecided
  <2>10. OneWinner'
    <3>1. l.token = k.token /\ l.action = k.action
      BY <1>2
    <3> HIDE DEF l
    <3>2. \A j \in clicks : Through(j) => j.token # k.token /\ j.token \in Execs
      BY <1>1, <1>2, <2>9 DEF IInv, OneWinner, Clicks
    <3>3. \A a \in answers : Won(a) => a.token # k.token /\ a.token \in Execs
      BY <1>1, <1>2, <2>9 DEF IInv, OneWinner, Answers
    <3>4. resumed'[k.token] = k.action
      BY <1>1, <1>2, <2>1
    <3>5. \A x \in Execs : x # k.token => resumed'[x] = resumed[x]
      BY <1>1, <2>1
    <3>6. \A j \in clicks' : Through(j) => resumed'[j.token] = j.action
      BY <2>1, <3>1, <3>2, <3>4, <3>5 DEF IInv, OneWinner
    <3>7. \A a \in answers' : Won(a) => resumed'[a.token] = a.action
      BY <2>1, <3>3, <3>5 DEF IInv, OneWinner
    <3>8. \A i, j \in clicks' : Through(i) /\ Through(j) /\ i.token = j.token => i = j
      BY <2>1, <3>1, <3>2 DEF IInv, OneWinner
    <3>9. \A j \in clicks', a \in answers' : ~ (Through(j) /\ Won(a) /\ j.token = a.token)
      BY <2>1, <3>1, <3>3 DEF IInv, OneWinner
    <3> QED
      BY <2>1, <3>6, <3>7, <3>8, <3>9 DEF IInv, OneWinner, Through, Won
  <2>11. RecordedDecisionWasTaken'
    <3>1. \A x \in Execs : resumed[x] # "none" => resumed'[x] = resumed[x]
      BY <1>1, <1>2, <2>1, <2>9
    <3>2. \A x \in Execs : RequestOf(x)' = RequestOf(x)
      BY <1>1 DEF RequestOf
    <3> QED
      BY <1>1, <3>1, <3>2 DEF IInv, RecordedDecisionWasTaken
  <2> QED
    BY <2>7, <2>8, <2>10, <2>11 DEF IInv
<1>4. CASE Refuse(k) /\ Answer(k, 410)
  <2>1. UNCHANGED <<execVars, invoked, calls, resumed>>
    BY <1>4 DEF Refuse, Send
  <2>2. ControlOK' /\ CallsOK' /\ calls' \subseteq Calls
    BY <2>1, ControlKept DEF IInv
  <2>3. clicks' \subseteq Clicks /\ answers' \subseteq Answers
    BY <1>4, AnswerOK DEF IInv
  <2>4. TypeInv'
    BY <1>1, <2>1, <2>2, <2>3, ServeType DEF IInv, Send
  <2>5. DecisionFits'
    BY <2>1 DEF IInv, DecisionFits, execVars
  <2>6. OneWinner'
    BY <1>4, <2>1, NothingWon
  <2>7. RecordedDecisionWasTaken'
    BY <1>1, <2>1 DEF IInv, RecordedDecisionWasTaken, RequestOf
  <2> QED
    BY <2>4, <2>5, <2>6, <2>7 DEF IInv
<1> QED
  BY <1>3, <1>4 DEF Send

\* What Record writes is the decision its own click got through.
LEMMA RecordOK ==
  ASSUME IInv, NEW k \in clicks, Record(k)
  PROVE  IInv'
<1>1. /\ store \in [Requests -> Statuses] /\ faults \in 0 .. MaxFaults
      /\ resumed \in [Execs -> {"none", "approve", "reject"}]
      /\ k \in Clicks /\ resumed' = resumed /\ faults' = faults /\ input' = input
      /\ \A x \in Execs : RequestOf(x) \in Requests
  BY TypeUnfold DEF IInv, Record, RecordIf
<1>2. k.token \in Execs /\ k.action \in {"approve", "reject"} /\ Through(k)
  BY <1>1 DEF Clicks, Record, RecordIf, Through
<1>3. resumed[k.token] = k.action
  BY <1>2 DEF IInv, OneWinner
<1>4. ControlOK' /\ CallsOK' /\ calls' \subseteq Calls
  BY ControlKept DEF IInv, Record, RecordIf
<1>5. DecisionFits'
  BY DEF IInv, DecisionFits, Record, RecordIf, execVars
<1>6. CASE /\ store' = [store EXCEPT ![RequestOf(k.token)] = StatusOf(k.action)]
           /\ Answer(k, 200)
  <2> DEFINE w == [no |-> k.no, token |-> k.token, action |-> k.action, code |-> 200]
  <2>1. clicks' = clicks \ {k} /\ answers' = answers \cup {w}
    BY <1>6 DEF Answer
  <2>2. w.token = k.token /\ w.action = k.action
    OBVIOUS
  <2> HIDE DEF w
  <2>3. store' \in [Requests -> Statuses]
    BY <1>1, <1>2, <1>6 DEF StatusOf, Statuses
  <2>4. clicks' \subseteq Clicks /\ answers' \subseteq Answers
    BY <1>6, AnswerOK DEF IInv
  <2>5. TypeInv'
    BY <1>1, <1>4, <2>3, <2>4, ServeType DEF IInv, Record, RecordIf
  <2>6. OneWinner'
    <3>1. \A j \in clicks' : Through(j) => j.token # k.token
      BY <1>2, <2>1 DEF IInv, OneWinner
    <3>2. \A a \in answers : Won(a) => a.token # k.token
      BY <1>2 DEF IInv, OneWinner
    <3>3. \A a \in answers' : Won(a) => resumed'[a.token] = a.action
      BY <1>1, <1>3, <2>1, <2>2 DEF IInv, OneWinner
    <3>4. \A a, b \in answers' : Won(a) /\ Won(b) /\ a.token = b.token => a = b
      BY <2>1, <2>2, <3>2 DEF IInv, OneWinner
    <3>5. \A j \in clicks', a \in answers' : ~ (Through(j) /\ Won(a) /\ j.token = a.token)
      BY <2>1, <2>2, <3>1 DEF IInv, OneWinner
    <3> QED
      BY <1>1, <2>1, <3>3, <3>4, <3>5 DEF IInv, OneWinner, Through, Won
  <2>7. RecordedDecisionWasTaken'
    <3>1. \A r \in Requests : r # RequestOf(k.token) => store'[r] = store[r]
      BY <1>1, <1>6
    <3>2. store'[RequestOf(k.token)] = StatusOf(resumed'[k.token]) /\ resumed'[k.token] # "none"
      BY <1>1, <1>2, <1>3, <1>6
    <3>3. \A x \in Execs : RequestOf(x)' = RequestOf(x)
      BY <1>1 DEF RequestOf
    <3> QED
      BY <1>1, <1>2, <3>1, <3>2, <3>3 DEF IInv, RecordedDecisionWasTaken
  <2> QED
    BY <1>5, <2>5, <2>6, <2>7 DEF IInv
<1>7. CASE Answer(k, 409) /\ UNCHANGED store
  <2>1. clicks' \subseteq Clicks /\ answers' \subseteq Answers
    BY <1>7, AnswerOK DEF IInv
  <2>2. TypeInv'
    BY <1>1, <1>4, <1>7, <2>1, ServeType DEF IInv, Record, RecordIf
  <2>3. OneWinner'
    BY <1>1, <1>7, NothingWon
  <2>4. RecordedDecisionWasTaken'
    BY <1>1, <1>7 DEF IInv, RecordedDecisionWasTaken, RequestOf
  <2> QED
    BY <1>5, <2>2, <2>3, <2>4 DEF IInv
<1> QED
  BY <1>6, <1>7 DEF Record, RecordIf

LEMMA AbortOK ==
  ASSUME IInv, NEW k \in clicks, Abort(k)
  PROVE  IInv'
<1>1. /\ store \in [Requests -> Statuses] /\ faults' \in 0 .. MaxFaults
      /\ resumed \in [Execs -> {"none", "approve", "reject"}]
      /\ UNCHANGED <<input, execVars, store, resumed>>
  BY TypeUnfold, FaultOK DEF IInv, Abort
<1>2. clicks' \subseteq Clicks /\ answers' \subseteq Answers
  BY AnswerOK DEF IInv, Abort
<1>3. ControlOK' /\ CallsOK' /\ calls' \subseteq Calls
  BY ControlKept DEF IInv, Abort
<1>4. TypeInv'
  BY <1>1, <1>2, <1>3, ServeType DEF IInv, Abort
<1>5. DecisionFits' /\ RecordedDecisionWasTaken'
  BY <1>1 DEF IInv, DecisionFits, RecordedDecisionWasTaken, RequestOf, execVars
<1>6. OneWinner'
  BY <1>1, NothingWon DEF Abort
<1> QED
  BY <1>4, <1>5, <1>6 DEF IInv

-----------------------------------------------------------------------------
(* The invariant.                                                          *)

LEMMA InitOK == Init => IInv
<1> SUFFICES ASSUME Init PROVE IInv
  OBVIOUS
<1> USE ApprovalAssumption
<1>1. \A x \in Execs : tries[x] <= MostRetries(pc[x])
  BY RetriesBounded DEF Init
<1>2. TypeOK
  BY <1>1 DEF Init, TypeOK, TaskStates, Statuses
<1>3. CallsOK
  BY DEF Init, CallsOK
<1>4. DecisionFits /\ OneWinner
  BY DEF Init, DecisionFits, OneWinner
<1>5. RecordedDecisionWasTaken
  BY DEF Init, RecordedDecisionWasTaken, Decided
<1> QED
  BY <1>2, <1>3, <1>4, <1>5 DEF IInv, TypeInv

LEMMA StepOK == IInv /\ [Next]_vars => IInv'
<1> SUFFICES ASSUME IInv, [Next]_vars PROVE IInv'
  OBVIOUS
<1>1. CASE TaskStep
  BY <1>1, TaskStepOK, UndecidingKeeps DEF IInv
<1>2. ASSUME NEW x \in Execs, NEW action \in {"approve", "reject"}, Click(x, action) PROVE IInv'
  BY <1>2, ClickOK
<1>3. ASSUME NEW k \in clicks, Serve(k) PROVE IInv'
  BY <1>3, LookOK, SendOK, RecordOK DEF Serve
<1>4. ASSUME NEW k \in clicks, Abort(k) PROVE IInv'
  BY <1>4, AbortOK
<1>5. CASE UNCHANGED vars
  <2>1. TypeInv'
    BY <1>5, TypeUnfold, TypeFold, ControlKept DEF IInv, vars, execVars
  <2>2. Undeciding
    BY <1>5 DEF vars, execVars, Undeciding, Moves, Follows
  <2> QED
    BY <2>1, <2>2, UndecidingKeeps
<1> QED
  BY <1>1, <1>2, <1>3, <1>4, <1>5 DEF Next, TaskStep

\* The inductive invariant holds of every behaviour of the approval gate.
THEOREM Invariance == Spec => []IInv
BY InitOK, StepOK, PTL DEF Spec

-----------------------------------------------------------------------------
(* The theorems.                                                           *)

\* Every variable keeps its type, and no state is retried more often than its
\* Retry entries allow: RequestApproval, which has none, never.
THEOREM TypeCorrect == Spec => []TypeOK
<1>1. IInv => TypeOK
  BY DEF IInv, TypeInv
<1> QED
  BY <1>1, Invariance, PTL

\* However executions share requests, whatever invocation is late and whoever
\* clicks when: decision_handler records no decision that Step Functions did
\* not take.
THEOREM RecordsAreTrue == Spec => []RecordedDecisionWasTaken
<1>1. IInv => RecordedDecisionWasTaken
  BY DEF IInv
<1> QED
  BY <1>1, Invariance, PTL

\* An execution ends approved or rejected only by the decision that its token
\* was used for, and timed out or in error only undecided.
THEOREM OutcomesAreTrue == Spec => []OutcomeIsTheDecision
<1>1. IInv => OutcomeIsTheDecision
  BY DEF IInv, DecisionFits, Undecided, OutcomeIsTheDecision
<1> QED
  BY <1>1, Invariance, PTL

\* When executions do not share a request_id, at most one click on a request
\* is told that it decided it: the token is used once, however many clicks
\* found the item undecided.
THEOREM OneClick == Spec => [](DistinctRequests => OneClickWins)
<1>1. IInv => (DistinctRequests => OneClickWins)
  <2> SUFFICES ASSUME IInv, DistinctRequests,
                      NEW a \in answers, NEW b \in answers,
                      a.code = 200, b.code = 200, RequestOf(a.token) = RequestOf(b.token)
               PROVE  a = b
    BY DEF OneClickWins
  <2>1. a.token \in Execs /\ b.token \in Execs
    BY TypeUnfold DEF IInv, Answers
  <2>2. a.token = b.token
    BY <2>1 DEF DistinctRequests
  <2> QED
    BY <2>2 DEF IInv, OneWinner, Won
<1> QED
  BY <1>1, Invariance, PTL

-----------------------------------------------------------------------------
(* The e-mailed links, and what is said to those who follow them.          *)

\* The e-mail about x was sent, or is about to be, by the one invocation for it.
Asked(x) == /\ pc[x] # "PrepareRequest"
            /\ ~ (pc[x] = "RequestApproval" /\ awaiting[x] = 0)

\* The item of a mailed request was notified first, and by nobody later.
LinksOK ==
  /\ \A c \in calls : /\ c.at \in {"attach", "mail"} => c.fn = "RequestApproval"
                      /\ c.fn = "RequestApproval" => Asked(c.of)
                      /\ c.at = "attach" => c.of \notin mailed
                      /\ c.at = "mail" => store[RequestOf(c.of)] # "none"
  /\ \A c, d \in calls :
       c.fn = "RequestApproval" /\ d.fn = "RequestApproval" /\ c.of = d.of => c = d
  /\ \A x \in mailed : Asked(x) /\ store[RequestOf(x)] # "none"
  /\ \A k \in clicks : k.token \in mailed
  /\ \A a \in answers : a.token \in mailed

\* Clicks are told apart by their number, also when they have been answered.
Numbered ==
  /\ \A k \in clicks : k.no <= clicked
  /\ \A a \in answers : a.no <= clicked
  /\ \A k, l \in clicks : k.no = l.no => k = l
  /\ \A k \in clicks, a \in answers : k.no # a.no
  /\ \A a, b \in answers : a.no = b.no => a = b

\* Behind a decision there is a click that got it through and was not told
\* otherwise, and behind a recorded one a click that was told so.
Known(x) ==
  /\ resumed[x] # "none" =>
       \/ \E k \in clicks : Through(k) /\ k.token = x /\ k.action = resumed[x]
       \/ \E a \in answers : a.code \in {200, 500} /\ a.token = x /\ a.action = resumed[x]
  /\ store[RequestOf(x)] \in Decided => \E a \in answers : Won(a) /\ a.token = x

AInv == LinksOK /\ Numbered /\ (DistinctRequests => \A x \in Execs : Known(x))

LEMMA LinksTypes ==
  ASSUME TypeInv
  PROVE  /\ \A c \in calls : c \in Calls /\ c.of \in Execs
         /\ \A k \in clicks : k \in Clicks /\ k.token \in Execs /\ k.no \in Nat
         /\ \A a \in answers : a \in Answers /\ a.token \in Execs /\ a.no \in Nat
         /\ \A x \in Execs : RequestOf(x) \in Requests
         /\ mailed \subseteq Execs
BY TypeUnfold DEF Calls, Clicks, Answers

-----------------------------------------------------------------------------
(* An execution asks once.                                                 *)

AsksOnce == \A y \in Execs : Asked(y) => Asked(y)'

LEMMA EnterAsks ==
  ASSUME TypeInv, NEW x \in Execs, NEW s, Enter(x, s), s # "PrepareRequest",
         s # "RequestApproval" \/ ~ Asked(x)
  PROVE  AsksOnce
BY TypeUnfold DEF Enter, AsksOnce, Asked, ControlOK

\* RequestApproval has no Retry: an error ends the asking.
LEMMA ErrorAsks ==
  ASSUME TypeInv, NEW x \in Execs, NEW e, OnError(x, e)
  PROVE  AsksOnce
<1>1. CASE /\ tries[x] < Retries(pc[x], e) /\ awaiting' = [awaiting EXCEPT ![x] = 0]
           /\ UNCHANGED pc
  <2>1. tries[x] \in Nat
    BY TypeUnfold DEF ControlOK
  <2>2. pc[x] # "RequestApproval"
    BY <1>1, <2>1 DEF Retries
  <2> QED
    BY <1>1, <2>2, TypeUnfold DEF AsksOnce, Asked, ControlOK
<1>2. CASE Enter(x, CatchState(pc[x]))
  <2>1. CatchState(pc[x]) \in {"RequestInvalid", "ApprovalError", "ExecutionFailed"}
    BY DEF CatchState
  <2>2. PICK s : s = CatchState(pc[x])
    OBVIOUS
  <2>3. Enter(x, s) /\ s # "PrepareRequest" /\ s # "RequestApproval"
    BY <1>2, <2>1, <2>2
  <2> QED
    BY <2>3, EnterAsks
<1> QED
  BY <1>1, <1>2 DEF OnError

LEMMA RaiseAsks ==
  ASSUME TypeInv, NEW c \in calls, NEW e, Raise(c, e)
  PROVE  AsksOnce
<1>1. CASE Awaited(c)
  BY <1>1, ErrorAsks, LinksTypes DEF Raise
<1>2. CASE ~ Awaited(c)
  BY <1>2 DEF Raise, execVars, AsksOnce, Asked
<1> QED
  BY <1>1, <1>2

LEMMA IdleAsks ==
  ASSUME UNCHANGED execVars
  PROVE  AsksOnce
BY DEF execVars, AsksOnce, Asked

-----------------------------------------------------------------------------
(* Links.                                                                  *)

StoreGrows == \A r \in Requests : store[r] # "none" => store'[r] # "none"

\* No invocation goes on, and nothing is mailed.
LEMMA LinksKept ==
  ASSUME TypeInv, LinksOK, AsksOnce, calls' \subseteq calls, StoreGrows,
         UNCHANGED <<input, mailed>>, \A k \in clicks' : k.token \in mailed,
         \A a \in answers' : a.token \in mailed
  PROVE  LinksOK'
<1>1. \A x \in Execs : RequestOf(x)' = RequestOf(x) /\ RequestOf(x) \in Requests
  BY LinksTypes DEF RequestOf
<1>2. \A c \in calls' : c \in calls /\ c.of \in Execs
  BY LinksTypes
<1>3. \A c \in calls' : /\ c.at \in {"attach", "mail"} => c.fn = "RequestApproval"
                        /\ c.fn = "RequestApproval" => Asked(c.of)'
                        /\ c.at = "attach" => c.of \notin mailed'
                        /\ c.at = "mail" => store'[RequestOf(c.of)'] # "none"
  BY <1>1, <1>2 DEF LinksOK, AsksOnce, StoreGrows
<1>4. \A c, d \in calls' :
        c.fn = "RequestApproval" /\ d.fn = "RequestApproval" /\ c.of = d.of => c = d
  BY <1>2 DEF LinksOK
<1>5. \A x \in mailed' : Asked(x)' /\ store'[RequestOf(x)'] # "none"
  BY <1>1, LinksTypes DEF LinksOK, AsksOnce, StoreGrows
<1> QED
  BY <1>3, <1>4, <1>5 DEF LinksOK

\* An invocation makes a store call or sends the e-mail.
LEMMA LinksContinue ==
  ASSUME TypeInv, LinksOK, NEW c \in calls, NEW op, Continue(c, op), StoreGrows,
         UNCHANGED <<input, clicks, answers>>, op # "attach",
         op = "mail" => c.at = "attach" /\ store'[RequestOf(c.of)] # "none",
         mailed' = mailed \/ (c.at = "mail" /\ mailed' = mailed \cup {c.of})
  PROVE  LinksOK'
<1> DEFINE d == [c EXCEPT !.at = op]
<1>1. \A x \in Execs : /\ RequestOf(x)' = RequestOf(x) /\ RequestOf(x) \in Requests
                       /\ Asked(x)' <=> Asked(x)
  BY LinksTypes DEF RequestOf, Continue, execVars, Asked
<1>2. /\ d.of = c.of /\ d.fn = c.fn /\ d.at = op /\ c.of \in Execs
      /\ calls' = (calls \ {c}) \cup {d}
  BY LinksTypes DEF Continue, Calls
<1> HIDE DEF d
<1>3. \A b \in calls' : b = d \/ (b \in calls /\ b # c /\ b.of \in Execs)
  BY <1>2, LinksTypes
<1>4. \A b \in calls' :
        /\ b.at \in {"attach", "mail"} => b.fn = "RequestApproval"
        /\ b.fn = "RequestApproval" => Asked(b.of)'
        /\ b.at = "mail" => store'[RequestOf(b.of)'] # "none"
  BY <1>1, <1>2, <1>3 DEF LinksOK, StoreGrows
<1>5. \A a, b \in calls' :
        a.fn = "RequestApproval" /\ b.fn = "RequestApproval" /\ a.of = b.of => a = b
  BY <1>2, <1>3 DEF LinksOK
<1>6. \A b \in calls' : b.at = "attach" => b.of \notin mailed'
  <2> SUFFICES ASSUME NEW b \in calls', b.at = "attach" PROVE b.of \notin mailed'
    OBVIOUS
  <2>1. b \in calls /\ b # c /\ b.fn = "RequestApproval" /\ b.of \notin mailed
    BY <1>2, <1>3 DEF LinksOK
  <2>2. c.at = "mail" => b.of # c.of
    BY <2>1 DEF LinksOK
  <2> QED
    BY <2>1, <2>2
<1>7. \A x \in mailed' : Asked(x)' /\ store'[RequestOf(x)'] # "none"
  BY <1>1, <1>2, LinksTypes DEF LinksOK, StoreGrows
<1>8. mailed \subseteq mailed'
  OBVIOUS
<1> QED
  BY <1>4, <1>5, <1>6, <1>7, <1>8 DEF LinksOK

\* The one invocation of RequestApproval.
LEMMA LinksInvoke ==
  ASSUME TypeInv, LinksOK, NEW x \in Execs, Invoke(x)
  PROVE  LinksOK'
<1> DEFINE c == [of |-> x, no |-> invoked[x] + 1, fn |-> pc[x], at |-> FirstOp(pc[x])]
<1>1. /\ calls' = calls \cup {c} /\ pc' = pc /\ awaiting[x] = 0 /\ pc[x] \in TaskStates
      /\ awaiting' = [awaiting EXCEPT ![x] = invoked[x] + 1]
      /\ UNCHANGED <<input, store, mailed, clicks, answers>>
  BY DEF Invoke
<1>2. /\ c.of = x /\ c.fn = pc[x] /\ c.at # "mail"
      /\ c.at = "attach" => c.fn = "RequestApproval"
  BY <1>1 DEF FirstOp, TaskStates
<1> HIDE DEF c
<1>3. /\ \A y \in Execs : RequestOf(y)' = RequestOf(y)
      /\ \A y \in Execs : Asked(y) => Asked(y)'
      /\ c.fn = "RequestApproval" => ~ Asked(x) /\ Asked(x)'
  <2>1. invoked[x] + 1 \in Nat \ {0} /\ awaiting \in [Execs -> Nat]
    BY TypeUnfold DEF ControlOK
  <2>2. awaiting'[x] # 0 /\ \A y \in Execs \ {x} : awaiting'[y] = awaiting[y]
    BY <1>1, <2>1
  <2> QED
    BY <1>1, <1>2, <2>2 DEF RequestOf, Asked
<1>4. c.fn = "RequestApproval" =>
        x \notin mailed /\ \A d \in calls : d.fn = "RequestApproval" => d.of # x
  BY <1>3 DEF LinksOK
<1>5. \A b \in calls' : b = c \/ (b \in calls /\ b.of \in Execs)
  BY <1>1, LinksTypes
<1>6. \A b \in calls' : /\ b.at \in {"attach", "mail"} => b.fn = "RequestApproval"
                        /\ b.fn = "RequestApproval" => Asked(b.of)'
                        /\ b.at = "attach" => b.of \notin mailed'
                        /\ b.at = "mail" => store'[RequestOf(b.of)'] # "none"
  BY <1>1, <1>2, <1>3, <1>4, <1>5 DEF LinksOK
<1>7. \A a, b \in calls' :
        a.fn = "RequestApproval" /\ b.fn = "RequestApproval" /\ a.of = b.of => a = b
  BY <1>2, <1>4, <1>5 DEF LinksOK
<1>8. \A y \in mailed' : Asked(y)' /\ store'[RequestOf(y)'] # "none"
  BY <1>1, <1>3, LinksTypes DEF LinksOK
<1> QED
  BY <1>1, <1>6, <1>7, <1>8 DEF LinksOK

LEMMA LinksTask ==
  ASSUME TypeInv, LinksOK, TaskStep
  PROVE  LinksOK'
<1>1. ASSUME NEW x \in Execs, Invoke(x) PROVE LinksOK'
  BY <1>1, LinksInvoke
<1>2. ASSUME NEW x \in Execs, TimeOut(x) PROVE LinksOK'
  <2>1. AsksOnce
    BY <1>2, EnterAsks DEF TimeOut
  <2> QED
    BY <1>2, <2>1, LinksKept DEF TimeOut, StoreGrows, LinksOK
<1>3. ASSUME NEW x \in Execs, Throttle(x) \/ Lose(x) PROVE LinksOK'
  <2>1. AsksOnce
    BY <1>3, ErrorAsks DEF Throttle, Lose
  <2> QED
    BY <1>3, <2>1, LinksKept DEF Throttle, Lose, StoreGrows, LinksOK
<1>4. ASSUME NEW c \in calls, Reject(c) \/ Crash(c) PROVE LinksOK'
  <2>1. AsksOnce /\ calls' \subseteq calls
    BY <1>4, RaiseAsks DEF Reject, Crash, Raise
  <2> QED
    BY <1>4, <2>1, LinksKept DEF Reject, Crash, StoreGrows, LinksOK
<1>5. ASSUME NEW c \in calls, Create(c) PROVE LinksOK'
  <2>1. StoreGrows
    BY <1>5, TypeUnfold DEF Create, StoreGrows
  <2> QED
    BY <1>5, <2>1, LinksContinue DEF Create
<1>6. ASSUME NEW c \in calls, AttachToken(c) PROVE LinksOK'
  <2>1. StoreGrows /\ store'[RequestOf(c.of)] # "none"
    BY <1>6, TypeUnfold, LinksTypes DEF AttachToken, StoreGrows
  <2> QED
    BY <1>6, <2>1, LinksContinue DEF AttachToken
<1>7. ASSUME NEW c \in calls, SendEmail(c) PROVE LinksOK'
  BY <1>7, LinksContinue DEF SendEmail, StoreGrows
<1>8. ASSUME NEW c \in calls, Reply(c) PROVE LinksOK'
  <2>1. CASE Awaited(c) /\ c.fn # "RequestApproval"
    <3>1. PICK s : s = NextState(c.fn)
      OBVIOUS
    <3>2. c.of \in Execs /\ c.fn \in TaskStates /\ c.fn = pc[c.of] /\ Enter(c.of, s)
      BY <1>8, <2>1, <3>1, LinksTypes, TypeUnfold DEF Reply, CallsOK, Calls
    <3>3. s # "PrepareRequest" /\ (s # "RequestApproval" \/ ~ Asked(c.of))
      BY <2>1, <3>1, <3>2 DEF NextState, TaskStates, Asked
    <3> QED
      BY <1>8, <3>2, <3>3, EnterAsks, LinksKept DEF Reply, StoreGrows, LinksOK
  <2>2. CASE ~ (Awaited(c) /\ c.fn # "RequestApproval")
    BY <1>8, <2>2, IdleAsks, LinksKept DEF Reply, StoreGrows, LinksOK
  <2> QED
    BY <2>1, <2>2
<1> QED
  BY <1>1, <1>2, <1>3, <1>4, <1>5, <1>6, <1>7, <1>8 DEF TaskStep, Run

-----------------------------------------------------------------------------
(* Clicks and their answers.                                               *)

\* The answer to k takes its place, and the links remain.
LEMMA AnswerKeeps ==
  ASSUME IInv, LinksOK, Numbered, NEW k \in clicks, NEW code, Answer(k, code),
         StoreGrows, UNCHANGED <<input, execVars, calls, mailed, clicked>>
  PROVE  LinksOK' /\ Numbered'
<1> DEFINE a == [no |-> k.no, token |-> k.token, action |-> k.action, code |-> code]
<1>1. clicks' = clicks \ {k} /\ answers' = answers \cup {a}
  BY DEF Answer
<1>2. a.no = k.no /\ a.token = k.token
  OBVIOUS
<1> HIDE DEF a
<1>3. LinksOK'
  <2>1. (\A l \in clicks' : l.token \in mailed) /\ \A b \in answers' : b.token \in mailed
    BY <1>1, <1>2 DEF LinksOK
  <2> QED
    BY <2>1, IdleAsks, LinksKept DEF IInv
<1>4. Numbered'
  BY <1>1, <1>2 DEF Numbered
<1> QED
  BY <1>3, <1>4

\* So does k's next step.
LEMMA NextOpKeeps ==
  ASSUME IInv, LinksOK, Numbered, NEW k \in clicks, NEW op, NextOp(k, op), AsksOnce,
         UNCHANGED <<input, store, calls, mailed, clicked>>
  PROVE  LinksOK' /\ Numbered'
<1> DEFINE l == [k EXCEPT !.at = op]
<1>1. clicks' = (clicks \ {k}) \cup {l} /\ answers' = answers
  BY DEF NextOp
<1>2. k \in Clicks
  BY LinksTypes DEF IInv
<1>3. l.no = k.no /\ l.token = k.token
  BY <1>2 DEF Clicks
<1> HIDE DEF l
<1>4. LinksOK'
  <2>1. (\A j \in clicks' : j.token \in mailed) /\ \A b \in answers' : b.token \in mailed
    BY <1>1, <1>3 DEF LinksOK
  <2> QED
    BY <2>1, LinksKept DEF IInv, StoreGrows
<1>5. Numbered'
  BY <1>1, <1>3 DEF Numbered
<1> QED
  BY <1>4, <1>5

LEMMA ClickKeeps ==
  ASSUME IInv, LinksOK, Numbered, NEW x \in Execs, NEW action, Click(x, action)
  PROVE  LinksOK' /\ Numbered'
<1> DEFINE k == [no |-> clicked + 1, token |-> x, action |-> action, at |-> "look"]
<1>1. /\ clicks' = clicks \cup {k} /\ answers' = answers /\ clicked' = clicked + 1
      /\ x \in mailed
  BY DEF Click
<1>2. k.no = clicked + 1 /\ k.token = x
  OBVIOUS
<1> HIDE DEF k
<1>3. LinksOK'
  <2>1. (\A j \in clicks' : j.token \in mailed) /\ \A b \in answers' : b.token \in mailed
    BY <1>1, <1>2 DEF LinksOK
  <2> QED
    BY <2>1, IdleAsks, LinksKept DEF IInv, Click, StoreGrows
<1>4. clicked \in Nat /\ (\A j \in clicks : j.no \in Nat) /\ \A b \in answers : b.no \in Nat
  BY TypeUnfold, LinksTypes DEF IInv
<1>5. Numbered'
  BY <1>1, <1>2, <1>4 DEF Numbered
<1> QED
  BY <1>3, <1>5

\* Nothing is decided, and a click that is not through comes to its answer, or one
\* that was through, and nobody is misled.
LEMMA AnswerKnown ==
  ASSUME IInv, NEW x \in Execs, Known(x), NEW k \in clicks, NEW code, Answer(k, code),
         ~ Through(k) \/ code \in {200, 500}, UNCHANGED <<input, resumed>>,
         store'[RequestOf(x)] = store[RequestOf(x)] \/ (code = 200 /\ k.token = x)
  PROVE  Known(x)'
<1> DEFINE a == [no |-> k.no, token |-> k.token, action |-> k.action, code |-> code]
<1>1. clicks' = clicks \ {k} /\ answers' = answers \cup {a} /\ RequestOf(x)' = RequestOf(x)
  BY DEF Answer, RequestOf
<1>2. a.token = k.token /\ a.action = k.action /\ a.code = code
  OBVIOUS
<1> HIDE DEF a
<1>3. resumed'[x] # "none" =>
        \/ \E j \in clicks' : Through(j) /\ j.token = x /\ j.action = resumed'[x]
        \/ \E b \in answers' : b.code \in {200, 500} /\ b.token = x /\ b.action = resumed'[x]
  BY <1>1, <1>2 DEF Known
<1>4. store'[RequestOf(x)'] \in Decided => \E b \in answers' : Won(b) /\ b.token = x
  BY <1>1, <1>2 DEF Known, Won
<1> QED
  BY <1>3, <1>4 DEF Known, Through, Won

LEMMA NextOpKnown ==
  ASSUME IInv, NEW x \in Execs, Known(x), NEW k \in clicks, NEW op, NextOp(k, op),
         ~ Through(k), UNCHANGED <<input, store>>,
         \/ resumed'[x] = resumed[x]
         \/ op = "record" /\ k.token = x /\ resumed'[x] = k.action
  PROVE  Known(x)'
<1> DEFINE l == [k EXCEPT !.at = op]
<1>1. clicks' = (clicks \ {k}) \cup {l} /\ answers' = answers /\ RequestOf(x)' = RequestOf(x)
  BY DEF NextOp, RequestOf
<1>2. k \in Clicks
  BY LinksTypes DEF IInv
<1>3. l.token = k.token /\ l.action = k.action /\ l.at = op
  BY <1>2 DEF Clicks
<1> HIDE DEF l
<1>4. resumed'[x] # "none" =>
        \/ \E j \in clicks' : Through(j) /\ j.token = x /\ j.action = resumed'[x]
        \/ \E b \in answers' : b.code \in {200, 500} /\ b.token = x /\ b.action = resumed'[x]
  BY <1>1, <1>3 DEF Known, Through
<1>5. store'[RequestOf(x)'] \in Decided => \E b \in answers' : Won(b) /\ b.token = x
  BY <1>1 DEF Known
<1> QED
  BY <1>4, <1>5 DEF Known, Through, Won

\* No click gets a decision through that it cannot record: the item is there, and
\* nobody else has decided it.
LEMMA RecordsWhatItDecided ==
  ASSUME IInv, LinksOK, NEW k \in clicks, Known(k.token), Record(k)
  PROVE  /\ store[RequestOf(k.token)] \in {"PENDING", "NOTIFIED"}
         /\ store' = [store EXCEPT ![RequestOf(k.token)] = StatusOf(k.action)]
         /\ Answer(k, 200) /\ Through(k)
<1>1. store[RequestOf(k.token)] \in Statuses /\ k.token \in Execs
  BY TypeUnfold, LinksTypes DEF IInv
<1>2. store[RequestOf(k.token)] # "none"
  BY DEF LinksOK
<1>3. Through(k)
  BY DEF Record, RecordIf, Through
<1>4. store[RequestOf(k.token)] \notin Decided
  BY <1>1, <1>3 DEF Known, IInv, OneWinner
<1>5. store[RequestOf(k.token)] \in {"PENDING", "NOTIFIED"}
  BY <1>1, <1>2, <1>4 DEF Statuses, Decided
<1> QED
  BY <1>3, <1>5 DEF Record, RecordIf

LEMMA TaskKeepsAnswers ==
  ASSUME IInv, AInv, TaskStep
  PROVE  AInv'
<1>1. /\ UNCHANGED <<input, resumed, clicks, answers>>
      /\ \A r \in Requests : store'[r] = store[r] \/ store'[r] \notin Decided
  BY TaskStepOK DEF IInv, Undeciding
<1>2. clicked' = clicked
  BY DEF TaskStep, Invoke, TimeOut, Throttle, Lose, Run, Reject, Create, AttachToken,
         SendEmail, Reply, Crash
<1>3. LinksOK'
  BY LinksTask DEF IInv, AInv
<1>4. Numbered'
  BY <1>1, <1>2 DEF AInv, Numbered
<1>5. DistinctRequests' => DistinctRequests
  BY <1>1 DEF DistinctRequests, RequestOf
<1>6. ASSUME NEW x \in Execs, Known(x) PROVE Known(x)'
  <2>1. RequestOf(x)' = RequestOf(x) /\ RequestOf(x) \in Requests
    BY <1>1, LinksTypes DEF IInv, RequestOf
  <2> QED
    BY <1>1, <1>6, <2>1 DEF Known, Through, Won
<1> QED
  BY <1>3, <1>4, <1>5, <1>6 DEF AInv

LEMMA ClickKeepsAnswers ==
  ASSUME IInv, AInv, NEW x \in Execs, NEW action \in {"approve", "reject"}, Click(x, action)
  PROVE  AInv'
<1>1. /\ UNCHANGED <<input, store, resumed, answers>>
      /\ clicks \subseteq clicks'
  BY DEF Click
<1>2. LinksOK' /\ Numbered'
  BY ClickKeeps DEF AInv
<1>3. DistinctRequests' => DistinctRequests
  BY <1>1 DEF DistinctRequests, RequestOf
<1>4. ASSUME NEW y \in Execs, Known(y) PROVE Known(y)'
  <2>1. RequestOf(y)' = RequestOf(y)
    BY <1>1 DEF RequestOf
  <2> QED
    BY <1>1, <1>4, <2>1 DEF Known, Through, Won
<1> QED
  BY <1>2, <1>3, <1>4 DEF AInv

LEMMA LookKeepsAnswers ==
  ASSUME IInv, AInv, NEW k \in clicks, Look(k)
  PROVE  AInv'
<1>1. /\ UNCHANGED <<input, execVars, calls, store, mailed, clicked, resumed>>
      /\ k.at = "look"
      /\ Answer(k, 404) \/ Answer(k, 409) \/ NextOp(k, "send")
  BY DEF Look
<1>2. AsksOnce /\ StoreGrows
  BY <1>1, IdleAsks DEF StoreGrows
<1>3. LinksOK' /\ Numbered'
  BY <1>1, <1>2, AnswerKeeps, NextOpKeeps DEF AInv
<1>4. DistinctRequests' => DistinctRequests
  BY <1>1 DEF DistinctRequests, RequestOf
<1>5. ~ Through(k)
  BY <1>1 DEF Through
<1>6. ASSUME NEW x \in Execs, Known(x) PROVE Known(x)'
  <2>1. CASE Answer(k, 404)
    BY <1>1, <1>5, <1>6, <2>1, AnswerKnown
  <2>2. CASE Answer(k, 409)
    BY <1>1, <1>5, <1>6, <2>2, AnswerKnown
  <2>3. CASE NextOp(k, "send")
    BY <1>1, <1>5, <1>6, <2>3, NextOpKnown
  <2> QED
    BY <1>1, <2>1, <2>2, <2>3
<1> QED
  BY <1>3, <1>4, <1>6 DEF AInv

LEMMA SendKeepsAnswers ==
  ASSUME IInv, AInv, NEW k \in clicks, Send(k)
  PROVE  AInv'
<1>1. /\ UNCHANGED <<input, calls, store, mailed, clicked>> /\ k.at = "send"
      /\ \/ Accept(k) /\ NextOp(k, "record")
         \/ Refuse(k) /\ Answer(k, 410)
  BY DEF Send
<1>2. DistinctRequests' => DistinctRequests
  BY <1>1 DEF DistinctRequests, RequestOf
<1>3. ~ Through(k) /\ k.token \in Execs /\ StoreGrows
  BY <1>1, LinksTypes DEF IInv, Through, StoreGrows
<1>4. CASE Accept(k) /\ NextOp(k, "record")
  <2>1. PICK s : s = DecidedState(k.action)
    OBVIOUS
  <2>2. Enter(k.token, s) /\ s # "PrepareRequest" /\ s # "RequestApproval"
    BY <1>4, <2>1 DEF Accept, DecidedState
  <2>3. AsksOnce
    BY <1>3, <2>2, EnterAsks DEF IInv
  <2>4. LinksOK' /\ Numbered'
    BY <1>1, <1>4, <2>3, NextOpKeeps DEF AInv
  <2>5. ASSUME NEW x \in Execs, Known(x) PROVE Known(x)'
    <3>1. /\ x = k.token => resumed'[x] = k.action
          /\ x # k.token => resumed'[x] = resumed[x]
      BY <1>3, <1>4, TypeUnfold DEF IInv, Accept
    <3> QED
      BY <1>1, <1>3, <1>4, <2>5, <3>1, NextOpKnown
  <2> QED
    BY <1>2, <2>4, <2>5 DEF AInv
<1>5. CASE Refuse(k) /\ Answer(k, 410)
  <2>1. UNCHANGED <<execVars, resumed>>
    BY <1>5 DEF Refuse
  <2>2. LinksOK' /\ Numbered'
    BY <1>1, <1>3, <1>5, <2>1, AnswerKeeps DEF AInv
  <2>3. ASSUME NEW x \in Execs, Known(x) PROVE Known(x)'
    BY <1>1, <1>3, <1>5, <2>1, <2>3, AnswerKnown
  <2> QED
    BY <1>2, <2>2, <2>3 DEF AInv
<1> QED
  BY <1>1, <1>4, <1>5

LEMMA RecordKeepsAnswers ==
  ASSUME IInv, AInv, NEW k \in clicks, Record(k)
  PROVE  AInv'
<1>1. UNCHANGED <<input, execVars, calls, mailed, clicked, resumed>>
  BY DEF Record, RecordIf
<1>2. DistinctRequests' => DistinctRequests
  BY <1>1 DEF DistinctRequests, RequestOf
<1>3. StoreGrows
  BY TypeUnfold DEF IInv, Record, RecordIf, StatusOf, StoreGrows
<1>4. Answer(k, 200) \/ Answer(k, 409)
  BY DEF Record, RecordIf
<1>5. LinksOK' /\ Numbered'
  BY <1>1, <1>3, <1>4, AnswerKeeps DEF AInv
<1>6. ASSUME DistinctRequests, \A x \in Execs : Known(x), NEW x \in Execs PROVE Known(x)'
  <2>1. k.token \in Execs /\ store \in [Requests -> Statuses]
    BY LinksTypes, TypeUnfold DEF IInv
  <2>2. /\ store' = [store EXCEPT ![RequestOf(k.token)] = StatusOf(k.action)]
        /\ Answer(k, 200)
    BY <1>6, <2>1, RecordsWhatItDecided DEF AInv
  <2>3. x = k.token \/ store'[RequestOf(x)] = store[RequestOf(x)]
    BY <1>6, <2>1, <2>2 DEF DistinctRequests
  <2> QED
    BY <1>1, <1>6, <2>2, <2>3, AnswerKnown
<1> QED
  BY <1>2, <1>5, <1>6 DEF AInv

LEMMA AbortKeepsAnswers ==
  ASSUME IInv, AInv, NEW k \in clicks, Abort(k)
  PROVE  AInv'
<1>1. UNCHANGED <<input, execVars, calls, store, mailed, clicked, resumed>> /\ Answer(k, 500)
  BY DEF Abort
<1>2. DistinctRequests' => DistinctRequests
  BY <1>1 DEF DistinctRequests, RequestOf
<1>3. LinksOK' /\ Numbered'
  BY <1>1, AnswerKeeps DEF AInv, StoreGrows
<1>4. ASSUME NEW x \in Execs, Known(x) PROVE Known(x)'
  BY <1>1, <1>4, AnswerKnown
<1> QED
  BY <1>2, <1>3, <1>4 DEF AInv

LEMMA AnswersStep == IInv /\ AInv /\ [Next]_vars => AInv'
<1> SUFFICES ASSUME IInv, AInv, [Next]_vars PROVE AInv'
  OBVIOUS
<1>1. CASE TaskStep
  BY <1>1, TaskKeepsAnswers
<1>2. ASSUME NEW x \in Execs, NEW action \in {"approve", "reject"}, Click(x, action) PROVE AInv'
  BY <1>2, ClickKeepsAnswers
<1>3. ASSUME NEW k \in clicks, Serve(k) PROVE AInv'
  BY <1>3, LookKeepsAnswers, SendKeepsAnswers, RecordKeepsAnswers DEF Serve
<1>4. ASSUME NEW k \in clicks, Abort(k) PROVE AInv'
  BY <1>4, AbortKeepsAnswers
<1>5. CASE UNCHANGED vars
  <2>1. LinksOK' /\ Numbered'
    BY <1>5, IdleAsks, LinksKept DEF IInv, AInv, vars, StoreGrows, LinksOK, Numbered
  <2>2. DistinctRequests' => DistinctRequests
    BY <1>5 DEF DistinctRequests, RequestOf, vars
  <2>3. \A x \in Execs : Known(x) => Known(x)'
    BY <1>5 DEF vars, Known, RequestOf, Through, Won
  <2> QED
    BY <2>1, <2>2, <2>3 DEF AInv
<1> QED
  BY <1>1, <1>2, <1>3, <1>4, <1>5 DEF Next, TaskStep

\* Its part about the links and the answers, which needs the other one.
THEOREM LinksInvariance == Spec => []AInv
<1>1. ASSUME Init PROVE AInv
  <2>1. calls = {} /\ mailed = {} /\ clicks = {} /\ answers = {}
    BY <1>1 DEF Init
  <2>2. LinksOK /\ Numbered
    BY <2>1 DEF LinksOK, Numbered
  <2>3. ASSUME NEW x \in Execs PROVE Known(x)
    <3>1. input[x].request \in Requests
      BY <1>1, ApprovalAssumption DEF Init, ApprovalAssumption
    <3>2. resumed[x] = "none" /\ store[RequestOf(x)] = "none"
      BY <1>1, <3>1 DEF Init, RequestOf
    <3> QED
      BY <3>2 DEF Known, Decided
  <2> QED
    BY <2>2, <2>3 DEF AInv
<1>2. IInv /\ AInv /\ [Next]_vars => AInv'
  BY AnswersStep
<1> QED
  BY <1>1, <1>2, Invariance, PTL DEF Spec

\* When executions do not share a request_id, whoever is told 200 has decided, and
\* whoever is told that another click did, or that the link expired, has not.
THEOREM AnswersTold == Spec => [](DistinctRequests => AnswersAreTrue)
<1>1. IInv /\ AInv => (DistinctRequests => AnswersAreTrue)
  <2> SUFFICES ASSUME IInv, AInv, DistinctRequests, NEW a \in answers
               PROVE  /\ a.code = 200 => resumed[a.token] = a.action
                      /\ a.code \in {404, 409, 410} /\ resumed[a.token] # "none" =>
                           \E b \in answers \cup clicks :
                             b.no # a.no /\ b.token = a.token /\ b.action = resumed[a.token]
    BY DEF AnswersAreTrue
  <2>1. a.code = 200 => resumed[a.token] = a.action
    BY DEF IInv, OneWinner, Won
  <2>2. ASSUME a.code \in {404, 409, 410}, resumed[a.token] # "none"
        PROVE  \E b \in answers \cup clicks :
                 b.no # a.no /\ b.token = a.token /\ b.action = resumed[a.token]
    <3>1. Known(a.token)
      BY LinksTypes DEF IInv, AInv
    <3>2. CASE \E k \in clicks : Through(k) /\ k.token = a.token /\ k.action = resumed[a.token]
      BY <3>2 DEF AInv, Numbered
    <3>3. CASE \E b \in answers : /\ b.code \in {200, 500} /\ b.token = a.token
                                  /\ b.action = resumed[a.token]
      <4>1. PICK b \in answers : /\ b.code \in {200, 500} /\ b.token = a.token
                                 /\ b.action = resumed[a.token]
        BY <3>3
      <4>2. b # a
        BY <2>2, <4>1
      <4>3. b.no # a.no
        BY <4>2 DEF AInv, Numbered
      <4> QED
        BY <4>1, <4>3
    <3> QED
      BY <2>2, <3>1, <3>2, <3>3 DEF Known
  <2> QED
    BY <2>1, <2>2
<1> QED
  BY <1>1, Invariance, LinksInvariance, PTL

\* When executions do not share a request_id, a recorded decision stays until
\* prepare_request replaces the item: no click and no late attach_token undoes it.
THEOREM DecisionStays == Spec /\ []DistinctRequests => DecisionIsFinal
<1> DEFINE Final(r) ==
             store[r] \in Decided /\ (\A c \in calls : c.at = "create" => RequestOf(c.of) # r)
               => store'[r] = store[r]
<1>1. ASSUME IInv, AInv, DistinctRequests, [Next]_vars, NEW r \in Requests,
             store[r] \in Decided, \A c \in calls : c.at = "create" => RequestOf(c.of) # r
      PROVE  store'[r] = store[r]
  <2>0. store \in [Requests -> Statuses] /\ \A x \in Execs : Known(x)
    BY <1>1, TypeUnfold DEF IInv, AInv
  <2>1. ASSUME NEW c \in calls, Create(c) PROVE store'[r] = store[r]
    BY <1>1, <2>0, <2>1 DEF Create
  <2>2. ASSUME NEW c \in calls, AttachToken(c) PROVE store'[r] = store[r]
    <3>1. c.at = "attach" /\ c.of \in Execs
      BY <1>1, <2>2, LinksTypes DEF AttachToken, IInv
    <3>2. c.of \notin mailed
      BY <1>1, <3>1 DEF AInv, LinksOK
    <3>3. store[RequestOf(c.of)] \notin Decided
      BY <1>1, <2>0, <3>1, <3>2 DEF AInv, LinksOK, Known
    <3> QED
      BY <1>1, <2>0, <2>2, <3>3 DEF AttachToken
  <2>3. ASSUME NEW k \in clicks, Record(k) PROVE store'[r] = store[r]
    <3>1. store[RequestOf(k.token)] \in {"PENDING", "NOTIFIED"} \/ store' = store
      BY <2>3 DEF Record, RecordIf
    <3> QED
      BY <1>1, <2>0, <2>3, <3>1 DEF Record, RecordIf, Decided
  <2>4. CASE ~ \/ \E c \in calls : Create(c) \/ AttachToken(c)
               \/ \E k \in clicks : Record(k)
    <3>1. store' = store
      BY <1>1, <2>4 DEF Next, vars, Invoke, TimeOut, Throttle, Lose, Click, Run, Reject,
                        SendEmail, Reply, Crash, Serve, Look, Send, Abort
    <3> QED
      BY <3>1
  <2> QED
    BY <2>1, <2>2, <2>3, <2>4
<1>2. IInv /\ AInv /\ DistinctRequests /\ [Next]_vars => [\A r \in Requests : Final(r)]_vars
  BY <1>1
<1>3. DecisionIsFinal <=> [][\A r \in Requests : Final(r)]_vars
  BY DEF DecisionIsFinal
<1> HIDE DEF Final
<1> QED
  BY <1>2, <1>3, Invariance, LinksInvariance, PTL DEF Spec
=============================================================================
