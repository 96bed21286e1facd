-------------------------- MODULE LongRunningProofs ---------------------------
(* Proofs of the safety properties of the long-running job, for every set  *)
(* of executions, jobs and inputs, every budget and every mix of faults.   *)
EXTENDS LongRunning, Recursion, FiniteSetTheorems

\* Every execution has a job_id of its own, as submit_job generates them for
\* the executions that name none.
DistinctJobs == \A x, y \in Execs : JobOf(x) = JobOf(y) => x = y

-----------------------------------------------------------------------------
(* The inductive invariant, by parts.                                      *)

\* What an invocation of a function may be about to do.
Ops(fn) == CASE fn = "SubmitJob"      -> {"create", "reply"}
             [] fn = "PollJob"        -> {"get", "increment", "progress", "reply"}
             [] fn = "RequestSignoff" -> {"attach", "reply"}
             [] fn = "Finalize"       -> {"complete", "reply"}

\* Invocation numbers are never reused, and the invocation an execution waits
\* for is one of its current state.
CallsOK ==
  /\ IsFiniteSet(calls)
  /\ \A c \in calls : /\ c.no # 0 /\ c.no <= invoked[c.of]
                      /\ Awaited(c) => c.fn = pc[c.of]
                      /\ c.at \in Ops(c.fn)
  /\ \A c, d \in calls : c.of = d.of /\ c.no = d.no => c = d
  /\ \A x \in Execs : /\ awaiting[x] <= invoked[x]
                      /\ awaiting[x] # 0 => pc[x] \in TaskStates

TypeInv == TypeOK /\ CallsOK

\* The item of an execution.
Item(x) == store[JobOf(x)]
Asked(x) == [succeed_after |-> IF input[x].succeed_after < 1 THEN 1 ELSE input[x].succeed_after,
             fail_job      |-> input[x].fail_job]

\* An invocation of poll_job that has counted its attempt.
Counted(c) == c.fn = "PollJob" /\ c.at \in {"progress", "reply"}

\* An invocation nobody waits for was abandoned, or paused its execution.
Owned(x) ==
  \A c \in calls : c.of = x /\ ~ Awaited(c) /\ c.fn # "RequestSignoff" => c.fn \in abandoned[x]

\* Whoever reads the item reads the input, and counts from one.
Known(x) ==
  /\ Item(x).spec \in {NoSpec, Asked(x)}
  /\ \A c \in calls : c.of = x => /\ c.spec \in {NoSpec, Asked(x)}
                                  /\ Counted(c) => c.attempt >= 1

NotDone(x) == job[x].attempt < input[x].succeed_after /\ ~ input[x].fail_job

\* $.job says whether the budget is used up, and is not done without a reason.
Judged(x) ==
  /\ pc[x] = "SubmitJob" => job[x].attempt = 0
  /\ job[x].status \in {"RUNNING", "SUCCEEDED", "FAILED"}
  /\ job[x].exhausted <=> (job[x].status = "RUNNING" /\ job[x].attempt >= MaxPolls)
  /\ pc[x] \in {"WaitForJob", "PollJob"} => job[x].attempt < MaxPolls
  /\ pc[x] = "EvaluateJob" /\ job[x].status = "RUNNING" => NotDone(x)
  /\ pc[x] = "JobTimedOut" => job[x].attempt >= MaxPolls /\ NotDone(x)

\* The item has counted what the execution has heard of.
Counts(x) ==
  "SubmitJob" \notin abandoned[x] /\ pc[x] # "SubmitJob" =>
    /\ Item(x).attempts >= job[x].attempt
    /\ \A c \in calls : c.of = x /\ Awaited(c) /\ Counted(c) =>
         job[x].attempt < c.attempt /\ c.attempt <= Item(x).attempts

\* The token is in the item before request_signoff returns.
Tokened(x) ==
  pc[x] = "RequestSignoff" /\ awaiting[x] # 0 /\ "SubmitJob" \notin abandoned[x] =>
    \/ \E c \in calls : c.of = x /\ Awaited(c) /\ c.at = "attach"
    \/ Item(x).token = x

\* With no invocation left running, the item has the status just written.
Written(x) ==
  abandoned[x] = {} =>
    /\ pc[x] = "EvaluateJob" => Item(x).status = job[x].status
    /\ pc[x] = "RequestSignoff" => Item(x).status = "SUCCEEDED"
    /\ pc[x] = "Completed" => Item(x).status = "COMPLETED"
    /\ \A c \in calls : c.of = x /\ Awaited(c) /\ c.at = "reply" =>
         /\ c.fn = "PollJob" => Item(x).status = StatusAt(c)
         /\ c.fn = "Finalize" => Item(x).status = "COMPLETED"

Tracks(x) == Owned(x) /\ Known(x) /\ Judged(x) /\ Counts(x) /\ Tokened(x) /\ Written(x)

\* The submissions of x left running that have not yet reset the item: each of
\* them costs the fault that left it, and may cost a Round of waits.
Late(x) == {c \in calls : c.of = x /\ c.at = "create" /\ ~ Awaited(c)}
Round == MaxPolls * MaxWait

\* w waits since the item was last reset.
Waited(x, w) ==
  /\ elapsed[x] + Cardinality(Late(x)) * Round <= faults * Round + w * MaxWait
  /\ pc[x] \in {"WaitForJob", "EvaluateJob"} => w <= job[x].attempt /\ w <= Item(x).attempts
  /\ pc[x] = "PollJob" =>
       /\ w <= Item(x).attempts + 1
       /\ \A c \in calls : c.of = x /\ Awaited(c) /\ Counted(c) =>
            w <= c.attempt /\ w <= Item(x).attempts

InTime(x) ==
  /\ Cardinality(Late(x)) <= faults
  /\ pc[x] = "SubmitJob" => elapsed[x] = 0
  /\ pc[x] # "SubmitJob" => \E w \in 0 .. MaxPolls : Waited(x, w)
  /\ pc[x] # "ExecutionTimedOut"

Good(x) == Tracks(x) /\ (BudgetFits => InTime(x))
IInv == TypeInv /\ (DistinctJobs => \A x \in Execs : Good(x))

-----------------------------------------------------------------------------
(* Types.                                                                  *)

Reports == [status : Statuses, attempt : Nat, exhausted : BOOLEAN, wait : 1 .. MaxWait]
Fits(s, n) == n <= MostRetries(s)

ControlOK ==
  /\ pc \in [Execs -> States]
  /\ tries \in [Execs -> Nat]
  /\ \A x \in Execs : Fits(pc[x], tries[x])
  /\ awaiting \in [Execs -> Nat]
  /\ job \in [Execs -> [status : Statuses, attempt : Nat, exhausted : BOOLEAN, wait : 1 .. MaxWait]]

Steps == {"create", "get", "increment", "progress", "attach", "complete", "reply"}
Calls == [of : Execs, no : Nat, fn : TaskStates, at : Steps, spec : Specs, attempt : Nat]

\* An execution that still waits after the step waits where it waited before.
KeepsWaiting ==
  \A x \in Execs : awaiting'[x] # 0 => pc'[x] = pc[x] /\ awaiting'[x] = awaiting[x]

\* The delays are positive and within the cap.
LEMMA BackoffBounded ==
  ASSUME NEW n \in Nat
  PROVE  Backoff(n) \in 1 .. MaxWait
<1>1. Power2[n] \in Nat \ {0}
  BY Power2Recursive
<1>2. BaseWait \in Nat \ {0} /\ MaxWait \in Nat \ {0}
  BY LongRunningAssumption
<1>3. BaseWait * Power2[n] \in Nat \ {0}
  BY <1>1, <1>2
<1> QED
  BY <1>2, <1>3 DEF Backoff

\* What a state's error is retried for is within what its Retry entries allow.
LEMMA RetriesBounded ==
  /\ \A s : MostRetries(s) \in Nat
  /\ \A s \in TaskStates : \A e : Retries(s, e) \in Nat /\ Retries(s, e) <= MostRetries(s)
<1>1. Budget["service"] \in Nat /\ Budget["all"] \in Nat
  BY LongRunningAssumption
<1>2. \A s : MostRetries(s) \in Nat
  BY <1>1 DEF MostRetries
<1>3. ASSUME NEW s \in TaskStates, NEW e
      PROVE  Retries(s, e) \in Nat /\ Retries(s, e) <= MostRetries(s)
  <2>1. CASE s \in {"SubmitJob", "PollJob"}
    BY <1>1, <2>1 DEF Retries, MostRetries
  <2>2. CASE s = "RequestSignoff"
    BY <2>2 DEF Retries, MostRetries
  <2>3. CASE s = "Finalize"
    BY <1>1, <2>3 DEF Retries, MostRetries
  <2> QED
    BY <2>1, <2>2, <2>3 DEF TaskStates
<1> QED
  BY <1>2, <1>3

LEMMA EnterOK ==
  ASSUME ControlOK, NEW x \in Execs, NEW s \in States, Enter(x, s),
         job' = job \/ job' \in [Execs -> Reports]
  PROVE  ControlOK' /\ KeepsWaiting
<1>1. \A t \in States : Fits(t, 0)
  BY RetriesBounded DEF Fits
<1>2. \A y \in Execs : Fits(pc'[y], tries'[y])
  BY <1>1 DEF ControlOK, Enter
<1>3. KeepsWaiting
  BY DEF ControlOK, Enter, KeepsWaiting
<1> QED
  BY <1>2, <1>3 DEF ControlOK, Enter, Reports

\* What an error may do to its execution.
FailsTo(s, t) == t \in {s, "JobFailed", "ExecutionFailed"}

\* An error is retried within the budget, or caught.
LEMMA ErrorOK ==
  ASSUME ControlOK, NEW x \in Execs, NEW e, pc[x] \in TaskStates, OnError(x, e)
  PROVE  /\ ControlOK' /\ KeepsWaiting /\ job' = job
         /\ awaiting' = [awaiting EXCEPT ![x] = 0]
         /\ FailsTo(pc[x], pc'[x]) /\ \A y \in Execs \ {x} : pc'[y] = pc[y]
<1>0. job' = job
  BY DEF OnError
<1>1. CASE tries[x] < Retries(pc[x], e) /\ tries' = [tries EXCEPT ![x] = @ + 1]
             /\ awaiting' = [awaiting EXCEPT ![x] = 0] /\ UNCHANGED pc
  <2>1. /\ Retries(pc[x], e) \in Nat /\ Retries(pc[x], e) <= MostRetries(pc[x])
        /\ MostRetries(pc[x]) \in Nat
    BY RetriesBounded
  <2>2. Fits(pc[x], tries[x] + 1)
    BY <1>1, <2>1 DEF ControlOK, Fits
  <2>3. \A y \in Execs : Fits(pc'[y], tries'[y])
    BY <1>1, <2>2 DEF ControlOK
  <2>4. KeepsWaiting /\ FailsTo(pc[x], pc'[x])
    BY <1>1 DEF ControlOK, KeepsWaiting, FailsTo
  <2> QED
    BY <1>0, <1>1, <2>3, <2>4 DEF ControlOK
<1>2. CASE Enter(x, CatchState(pc[x]))
  <2>1. CatchState(pc[x]) \in States /\ FailsTo(pc[x], CatchState(pc[x]))
    BY DEF CatchState, States, Terminals, FailsTo
  <2>2. pc'[x] = CatchState(pc[x]) /\ \A y \in Execs \ {x} : pc'[y] = pc[y]
    BY <1>2 DEF Enter, ControlOK
  <2> QED
    BY <1>0, <1>2, <2>1, <2>2, EnterOK DEF Enter
<1> QED
  BY <1>1, <1>2 DEF OnError

LEMMA TypeUnfold ==
  ASSUME TypeInv
  PROVE  /\ input \in [Execs -> Inputs] /\ ControlOK /\ CallsOK
         /\ invoked \in [Execs -> Nat]
         /\ elapsed \in [Execs -> 0 .. Deadline]
         /\ calls \subseteq Calls /\ store \in [Jobs -> Items]
         /\ abandoned \in [Execs -> SUBSET TaskStates]
         /\ faults \in 0 .. MaxFaults /\ MaxFaults \in Nat /\ Deadline \in Nat
         /\ \A x \in Execs : JobOf(x) \in Jobs
BY LongRunningAssumption DEF TypeInv, TypeOK, ControlOK, Fits, Calls, Steps, JobOf

LEMMA TypeFold ==
  ASSUME input' \in [Execs -> Inputs], ControlOK', CallsOK',
         invoked' \in [Execs -> Nat], elapsed' \in [Execs -> 0 .. Deadline],
         calls' \subseteq Calls, store' \in [Jobs -> Items],
         abandoned' \in [Execs -> SUBSET TaskStates], faults' \in 0 .. MaxFaults
  PROVE  TypeInv'
BY DEF TypeInv, TypeOK, ControlOK, Fits, Calls, Steps

LEMMA FaultOK ==
  ASSUME TypeInv, NEW kind, Fault(kind)
  PROVE  faults' \in 0 .. MaxFaults /\ faults' = faults + 1
BY TypeUnfold DEF Fault

\* The bookkeeping survives every step that adds no invocation.
LEMMA CallsKept ==
  ASSUME TypeInv, ControlOK', KeepsWaiting, invoked' = invoked, calls' \subseteq calls
  PROVE  CallsOK' /\ calls' \subseteq Calls
<1>1. \A d \in calls : d \in Calls /\ d.of \in Execs /\ d.no \in Nat
  BY TypeUnfold DEF Calls
<1>2. \A d \in calls' : /\ d.no # 0 /\ d.no <= invoked'[d.of]
                        /\ Awaited(d)' => d.fn = pc'[d.of]
                        /\ d.at \in Ops(d.fn)
  BY <1>1, TypeUnfold DEF CallsOK, KeepsWaiting, Awaited
<1>3. \A x \in Execs : /\ awaiting'[x] <= invoked'[x]
                       /\ awaiting'[x] # 0 => pc'[x] \in TaskStates
  BY TypeUnfold DEF CallsOK, KeepsWaiting
<1>4. IsFiniteSet(calls')
  BY TypeUnfold, FS_Subset DEF CallsOK
<1>5. \A c, d \in calls' : c.of = d.of /\ c.no = d.no => c = d
  BY TypeUnfold DEF CallsOK
<1> QED
  BY <1>1, <1>2, <1>3, <1>4, <1>5 DEF CallsOK

\* And an invocation that goes on to its next call.
LEMMA GoOnOK ==
  ASSUME TypeInv, NEW c \in calls, NEW d \in Calls,
         d.of = c.of, d.no = c.no, d.fn = c.fn, d.at \in Ops(c.fn),
         GoOn(c, d), invoked' = invoked
  PROVE  ControlOK' /\ CallsOK' /\ calls' \subseteq Calls
<1>1. calls' = (calls \ {c}) \cup {d} /\ UNCHANGED <<pc, tries, awaiting, job>>
  BY DEF GoOn, execVars
<1>2. ControlOK'
  BY <1>1, TypeUnfold DEF ControlOK
<1>3. \A b \in calls' : /\ b.no # 0 /\ b.no <= invoked'[b.of]
                        /\ Awaited(b)' => b.fn = pc'[b.of]
                        /\ b.at \in Ops(b.fn)
  BY <1>1, TypeUnfold DEF CallsOK, Awaited
<1>4. IsFiniteSet(calls')
  BY <1>1, TypeUnfold, FS_Subset, FS_AddElement DEF CallsOK
<1>5. \A a, b \in calls' : a.of = b.of /\ a.no = b.no => a = b
  BY <1>1, TypeUnfold DEF CallsOK
<1>6. \A x \in Execs : /\ awaiting'[x] <= invoked'[x]
                       /\ awaiting'[x] # 0 => pc'[x] \in TaskStates
  BY <1>1, TypeUnfold DEF CallsOK
<1> QED
  BY <1>1, <1>2, <1>3, <1>4, <1>5, <1>6, TypeUnfold DEF CallsOK

-----------------------------------------------------------------------------
(* Steps after which an execution knows no more than before.               *)

\* x keeps its item, its job and its waits; if it moves, it is out of the
\* states that the invariant speaks of, and if it leaves an invocation running,
\* that is counted, and a fault paid for it.
Fades(x) ==
  /\ input' = input /\ job'[x] = job[x] /\ Item(x)' = Item(x) /\ elapsed'[x] = elapsed[x]
  /\ pc'[x] \in {pc[x], "JobFailed", "ExecutionFailed", "SignoffTimedOut", "Finalize"}
  /\ awaiting'[x] = 0 \/ (awaiting'[x] = awaiting[x] /\ pc'[x] = pc[x])
  /\ abandoned[x] \subseteq abandoned'[x]
  /\ \A c \in calls' : c.of = x => c \in calls
  /\ \A c \in calls \ calls' : c.of = x /\ Awaited(c) /\ awaiting'[x] # 0 => c.at # "attach"
  /\ \A c \in calls' : c.of = x /\ Awaited(c) /\ ~ Awaited(c)' =>
       c.fn = "RequestSignoff" \/ c.fn \in abandoned'[x]
  /\ faults' \in Nat
  /\ Cardinality(Late(x)') \in Nat
  /\ Cardinality(Late(x)') + faults <= Cardinality(Late(x)) + faults'

\* A number of waits and a number of rounds, compared.
LEMMA Rounds ==
  ASSUME NEW a \in Nat, NEW b \in Nat, NEW c \in Nat, NEW d \in Nat, NEW t \in Nat,
         NEW e \in Nat, c + b <= a + d, e + a * Round <= b * Round + t
  PROVE  e + c * Round <= d * Round + t
<1>1. Round \in Nat
  BY LongRunningAssumption DEF Round
<1> HIDE DEF Round
<1>2. (c + b) * Round <= (a + d) * Round
  BY <1>1
<1>3. c * Round + b * Round <= a * Round + d * Round
  BY <1>1, <1>2
<1>4. a * Round \in Nat /\ b * Round \in Nat /\ c * Round \in Nat /\ d * Round \in Nat
  BY <1>1
<1> QED
  BY <1>3, <1>4

LEMMA LateFinite ==
  ASSUME TypeInv, NEW x \in Execs
  PROVE  IsFiniteSet(Late(x)) /\ Cardinality(Late(x)) \in Nat
<1>1. Late(x) \subseteq calls
  BY DEF Late
<1> QED
  BY <1>1, FS_Subset, FS_CardinalityType DEF TypeInv, CallsOK

\* All the waits there can be.
LEMMA WaitsFit ==
  ASSUME TypeInv, NEW x \in Execs, NEW w \in 0 .. MaxPolls,
         elapsed[x] + Cardinality(Late(x)) * Round <= faults * Round + w * MaxWait
  PROVE  /\ elapsed[x] <= (MaxFaults + 1) * Round
         /\ w + 1 <= MaxPolls => elapsed[x] + MaxWait <= (MaxFaults + 1) * Round
<1>0. /\ MaxPolls \in Nat /\ MaxWait \in Nat /\ MaxFaults \in Nat /\ faults \in 0 .. MaxFaults
      /\ Cardinality(Late(x)) \in Nat /\ elapsed[x] \in Nat /\ w \in Nat
      /\ Round \in Nat
  BY TypeUnfold, LateFinite, LongRunningAssumption DEF Round
<1>1. w * MaxWait <= Round /\ (w + 1 <= MaxPolls => (w + 1) * MaxWait <= Round)
  BY <1>0 DEF Round
<1>2. (w + 1) * MaxWait = w * MaxWait + MaxWait
  BY <1>0
<1> DEFINE late == Cardinality(Late(x))
<1>3. late * Round \in Nat /\ faults * Round <= MaxFaults * Round
      /\ (MaxFaults + 1) * Round = MaxFaults * Round + Round
      /\ MaxFaults * Round \in Nat /\ faults * Round \in Nat /\ w * MaxWait \in Nat
  <2> HIDE DEF late, Round
  <2>1. late \in Nat
    BY <1>0 DEF late
  <2> QED
    BY <1>0, <2>1
<1>4. elapsed[x] + late * Round <= faults * Round + w * MaxWait
  OBVIOUS
<1> DEFINE lr == late * Round
           fr == faults * Round
           mr == MaxFaults * Round
           ww == w * MaxWait
           all == (MaxFaults + 1) * Round
<1>5. /\ lr \in Nat /\ fr <= mr /\ all = mr + Round /\ mr \in Nat /\ fr \in Nat /\ ww \in Nat
      /\ ww <= Round /\ (w + 1 <= MaxPolls => ww + MaxWait <= Round)
      /\ elapsed[x] + lr <= fr + ww
  BY <1>1, <1>2, <1>3, <1>4
<1> HIDE DEF Round, lr, fr, mr, ww, all
<1>6. elapsed[x] <= all /\ (w + 1 <= MaxPolls => elapsed[x] + MaxWait <= all)
  BY <1>0, <1>5
<1> QED
  BY <1>6 DEF all

LEMMA FadesOK ==
  ASSUME TypeInv, NEW x \in Execs, Good(x), Fades(x)
  PROVE  Good(x)'
<1>0. /\ \A c \in calls : c \in Calls /\ c.no # 0 /\ c.no \in Nat
      /\ Item(x).attempts \in Nat /\ job[x].attempt \in Nat
      /\ elapsed[x] \in Nat /\ faults \in Nat
  BY TypeUnfold DEF Calls, CallsOK, Item, Items, ControlOK
<1>1. Owned(x)'
  <2> SUFFICES ASSUME NEW c \in calls', c.of = x, ~ Awaited(c)', c.fn # "RequestSignoff"
               PROVE  c.fn \in abandoned'[x]
    BY DEF Owned
  <2> QED
    BY DEF Good, Tracks, Owned, Fades
<1>2. Known(x)'
  <2>1. Item(x)' = Item(x) /\ Asked(x)' = Asked(x) /\ \A c \in calls' : c.of = x => c \in calls
    BY DEF Fades, Asked
  <2> QED
    BY <2>1 DEF Good, Tracks, Known, Counted, Fades
<1>3. Judged(x)'
  BY DEF Good, Tracks, Judged, NotDone, Fades
<1>4. \A c \in calls' : c.of = x /\ Awaited(c)' => c \in calls /\ Awaited(c) /\ pc'[x] = pc[x]
  BY <1>0 DEF Awaited, Fades
<1>5. Counts(x)'
  <2>1. CASE pc[x] = "SubmitJob"
    <3>1. pc'[x] = "SubmitJob" \/ ~ \E c \in calls' : c.of = x /\ Awaited(c)'
      BY <1>4, <2>1
    <3>2. job'[x].attempt = 0 /\ Item(x)'.attempts >= 0
      BY <1>0, <2>1 DEF Good, Tracks, Judged, Fades
    <3> QED
      BY <3>1, <3>2 DEF Counts
  <2>2. CASE pc[x] # "SubmitJob"
    BY <1>4, <2>2 DEF Good, Tracks, Counts, Counted, Fades
  <2> QED
    BY <2>1, <2>2
<1>6. Tokened(x)'
  <2> SUFFICES ASSUME pc'[x] = "RequestSignoff", awaiting'[x] # 0, "SubmitJob" \notin abandoned'[x],
                      Item(x)'.token # x
               PROVE  \E c \in calls' : c.of = x /\ Awaited(c)' /\ c.at = "attach"
    BY DEF Tokened
  <2>1. PICK c \in calls : c.of = x /\ Awaited(c) /\ c.at = "attach"
    BY DEF Good, Tracks, Tokened, Fades
  <2>2. c \in calls' /\ Awaited(c)'
    BY <2>1 DEF Fades, Awaited
  <2> QED
    BY <2>1, <2>2
<1>7. Written(x)'
  <2> SUFFICES ASSUME abandoned'[x] = {} PROVE Written(x)'
    BY DEF Written
  <2>1. abandoned[x] = {}
    BY DEF Fades
  <2> QED
    BY <1>4, <2>1 DEF Good, Tracks, Written, StatusAt, Fades
<1>8. ASSUME BudgetFits PROVE InTime(x)'
  <2>1. InTime(x)
    BY <1>8 DEF Good
  <2>2. Cardinality(Late(x)) \in Nat /\ MaxPolls \in Nat /\ MaxWait \in Nat
    BY LateFinite, LongRunningAssumption
  <2>3. Cardinality(Late(x)') <= faults'
    BY <1>0, <2>1, <2>2 DEF InTime, Fades
  <2>4. CASE pc'[x] = "SubmitJob"
    BY <2>1, <2>3, <2>4 DEF InTime, Fades
  <2>5. CASE pc[x] = "SubmitJob" /\ pc'[x] # "SubmitJob"
    <3>1. elapsed'[x] + Cardinality(Late(x)) * Round <= faults * Round + 0
      <4>1. Round \in Nat
        BY <2>2 DEF Round
      <4> HIDE DEF Round
      <4>2. elapsed'[x] = 0 /\ Cardinality(Late(x)) <= faults
        BY <2>1, <2>5 DEF InTime, Fades
      <4> QED
        BY <1>0, <2>2, <4>1, <4>2
    <3>2. elapsed'[x] + Cardinality(Late(x)') * Round <= faults' * Round + 0
      BY <1>0, <2>2, <3>1, Rounds DEF Fades
    <3>3. Waited(x, 0)'
      BY <1>4, <2>2, <2>5, <3>2 DEF Waited, Fades
    <3> QED
      BY <2>1, <2>2, <2>3, <2>5, <3>3 DEF InTime, Fades
  <2>6. CASE pc[x] # "SubmitJob" /\ pc'[x] # "SubmitJob"
    <3>1. PICK w \in 0 .. MaxPolls : Waited(x, w)
      BY <2>1, <2>6 DEF InTime
    <3>2. w * MaxWait \in Nat
      BY <2>2
    <3>3. elapsed'[x] + Cardinality(Late(x)') * Round <= faults' * Round + w * MaxWait
      BY <1>0, <2>2, <3>1, <3>2, Rounds DEF Fades, Waited
    <3>4. Waited(x, w)'
      BY <1>4, <3>1, <3>3 DEF Waited, Counted, Fades
    <3> QED
      BY <2>1, <2>3, <2>6, <3>4 DEF InTime, Fades
  <2> QED
    BY <2>4, <2>5, <2>6
<1>9. BudgetFits' = BudgetFits
  BY DEF BudgetFits
<1> QED
  BY <1>1, <1>2, <1>3, <1>5, <1>6, <1>7, <1>8, <1>9 DEF Good, Tracks

\* A step of y: nothing of another execution changes, unless it shares y's job.
StepOf(y) ==
  /\ input' = input /\ faults' \in Nat /\ faults <= faults'
  /\ \A x \in Execs \ {y} :
       /\ job'[x] = job[x] /\ elapsed'[x] = elapsed[x] /\ pc'[x] = pc[x]
       /\ awaiting'[x] = awaiting[x] /\ abandoned'[x] = abandoned[x]
  /\ \A c \in calls \cup calls' : c.of # y => c \in calls /\ c \in calls'
  /\ \A j \in Jobs \ {JobOf(y)} : store'[j] = store[j]

LEMMA OthersFade ==
  ASSUME TypeInv, DistinctJobs, NEW y \in Execs, StepOf(y), NEW x \in Execs \ {y}
  PROVE  Fades(x)
<1>1. JobOf(x) \in Jobs /\ JobOf(x) # JobOf(y) /\ JobOf(x)' = JobOf(x)
  BY TypeUnfold DEF DistinctJobs, StepOf, JobOf
<1>2. Item(x)' = Item(x)
  BY <1>1 DEF Item, StepOf
<1>3. Late(x)' = Late(x)
  BY DEF Late, StepOf, Awaited
<1>4. Cardinality(Late(x)') + faults <= Cardinality(Late(x)) + faults'
  BY <1>3, LateFinite, TypeUnfold DEF StepOf
<1>5. \A c \in calls' : c.of = x /\ Awaited(c) => Awaited(c)'
  BY DEF StepOf, Awaited
<1>6. Cardinality(Late(x)') \in Nat
  BY <1>3, LateFinite
<1> QED
  BY <1>2, <1>4, <1>5, <1>6 DEF StepOf, Fades

\* So it is enough to look at y.
LEMMA OnlyOne ==
  ASSUME TypeInv, DistinctJobs, \A x \in Execs : Good(x),
         NEW y \in Execs, StepOf(y), Good(y)'
  PROVE  \A x \in Execs : Good(x)'
BY OthersFade, FadesOK

LEMMA LateKept ==
  ASSUME TypeInv, NEW x \in Execs, Late(x)' \subseteq Late(x), faults' \in Nat, faults <= faults'
  PROVE  /\ Cardinality(Late(x)') \in Nat
         /\ Cardinality(Late(x)') + faults <= Cardinality(Late(x)) + faults'
         /\ Cardinality(Late(x)') <= Cardinality(Late(x))
<1>1. IsFiniteSet(Late(x)') /\ Cardinality(Late(x)') <= Cardinality(Late(x))
  BY LateFinite, FS_Subset
<1>2. Cardinality(Late(x)') \in Nat
  BY <1>1, FS_CardinalityType
<1> QED
  BY <1>1, <1>2, LateFinite, TypeUnfold

-----------------------------------------------------------------------------
(* Errors.                                                                 *)

\* What every part of the invariant needs from a step of y.
Preserves(y) == DistinctJobs /\ (\A x \in Execs : Good(x)) => \A x \in Execs : Good(x)'

LEMMA FadingStep ==
  ASSUME TypeInv, NEW y \in Execs, StepOf(y), DistinctJobs => Fades(y)
  PROVE  Preserves(y)
BY OnlyOne, FadesOK DEF Preserves

\* An invocation that is gone, with or without an error.
LEMMA RaiseOK ==
  ASSUME TypeInv, NEW c \in calls, NEW e, Raise(c, e), faults' \in 0 .. MaxFaults, faults <= faults',
         UNCHANGED <<input, invoked, elapsed, store, abandoned>>
  PROVE  TypeInv' /\ Preserves(c.of)
<1>0. /\ ControlOK /\ c \in Calls /\ c.of \in Execs /\ CallsOK
      /\ \A d \in calls : d \in Calls /\ d.no # 0
      /\ MaxFaults \in Nat /\ faults \in Nat /\ faults' \in Nat
  BY TypeUnfold DEF Calls, CallsOK
<1>1. calls' = calls \ {c}
  BY DEF Raise
<1>2. CASE Awaited(c)
  <2>1. OnError(c.of, e) /\ pc[c.of] \in TaskStates
    BY <1>0, <1>2 DEF Raise, Awaited, CallsOK, Calls
  <2>2. /\ ControlOK' /\ KeepsWaiting /\ job' = job
        /\ awaiting' = [awaiting EXCEPT ![c.of] = 0]
        /\ FailsTo(pc[c.of], pc'[c.of]) /\ \A y \in Execs \ {c.of} : pc'[y] = pc[y]
    BY <1>0, <2>1, ErrorOK
  <2>3. TypeInv'
    BY <1>1, <2>2, CallsKept, TypeUnfold, TypeFold
  <2>4. StepOf(c.of)
    BY <1>0, <1>1, <2>2 DEF StepOf, ControlOK
  <2>5. \A d \in calls : d.of = c.of /\ Awaited(d) => d = c
    BY <1>0, <1>2 DEF CallsOK, Awaited
  <2>6. Late(c.of)' \subseteq Late(c.of)
    BY <1>0, <1>1, <2>2, <2>5 DEF Late, Awaited, ControlOK
  <2>7. Fades(c.of)
    BY <1>0, <1>1, <2>2, <2>5, <2>6, LateKept DEF Fades, FailsTo, ControlOK, Item, JobOf
  <2> QED
    BY <1>0, <2>3, <2>4, <2>7, FadingStep
<1>3. CASE ~ Awaited(c)
  <2>1. UNCHANGED <<pc, tries, awaiting, job>>
    BY <1>3 DEF Raise, execVars
  <2>2. ControlOK' /\ KeepsWaiting
    BY <1>0, <2>1 DEF ControlOK, KeepsWaiting
  <2>3. TypeInv'
    BY <1>1, <2>2, CallsKept, TypeUnfold, TypeFold
  <2>4. StepOf(c.of)
    BY <1>0, <1>1, <2>1 DEF StepOf
  <2>5. Late(c.of)' \subseteq Late(c.of)
    BY <1>1, <2>1 DEF Late, Awaited
  <2>6. Fades(c.of)
    BY <1>0, <1>1, <1>3, <2>1, <2>5, LateKept DEF Fades, Item, JobOf, Awaited
  <2> QED
    BY <1>0, <2>3, <2>4, <2>6, FadingStep
<1> QED
  BY <1>2, <1>3

LEMMA RejectOK ==
  ASSUME TypeInv, NEW c \in calls, Reject(c)
  PROVE  TypeInv' /\ Preserves(c.of)
BY RaiseOK, TypeUnfold DEF Reject

LEMMA CrashOK ==
  ASSUME TypeInv, NEW c \in calls, Crash(c)
  PROVE  TypeInv' /\ Preserves(c.of)
BY RaiseOK, FaultOK, TypeUnfold DEF Crash

LEMMA ThrottleOK ==
  ASSUME TypeInv, NEW x \in Execs, Throttle(x)
  PROVE  TypeInv' /\ Preserves(x)
<1>0. /\ ControlOK /\ \A c \in calls : c \in Calls /\ c.no # 0 /\ c.of \in Execs
      /\ MaxFaults \in Nat /\ faults \in Nat
  BY TypeUnfold DEF Calls, CallsOK
<1>1. /\ ControlOK' /\ KeepsWaiting /\ job' = job /\ awaiting[x] = 0
      /\ awaiting' = [awaiting EXCEPT ![x] = 0]
      /\ FailsTo(pc[x], pc'[x]) /\ \A y \in Execs \ {x} : pc'[y] = pc[y]
  BY <1>0, ErrorOK DEF Throttle
<1>2. UNCHANGED <<input, invoked, elapsed, calls, store, abandoned>> /\ faults' \in 0 .. MaxFaults
      /\ faults' = faults + 1
  BY FaultOK DEF Throttle
<1>3. TypeInv'
  BY <1>1, <1>2, CallsKept, TypeUnfold, TypeFold
<1>4. StepOf(x)
  BY <1>0, <1>1, <1>2 DEF StepOf, ControlOK
<1>5. awaiting' = awaiting
  BY <1>0, <1>1 DEF ControlOK
<1>6. Late(x)' \subseteq Late(x)
  BY <1>2, <1>5 DEF Late, Awaited
<1>7. Fades(x)
  BY <1>0, <1>1, <1>2, <1>5, <1>6, LateKept DEF Fades, FailsTo, Item, JobOf, Awaited
<1> QED
  BY <1>3, <1>4, <1>7, FadingStep

\* The invocation whose response is lost is one more that may reset the item.
LEMMA LoseOK ==
  ASSUME TypeInv, NEW x \in Execs, Lose(x)
  PROVE  TypeInv' /\ Preserves(x)
<1>0. /\ ControlOK /\ CallsOK /\ \A c \in calls : c \in Calls /\ c.no # 0 /\ c.of \in Execs
      /\ MaxFaults \in Nat /\ faults \in Nat
  BY TypeUnfold DEF Calls, CallsOK
<1>1. PICK c \in calls : c.of = x /\ Awaited(c)
  BY DEF Lose, Waiting
<1>2. c.fn = pc[x] /\ pc[x] \in TaskStates /\ \A d \in calls : d.of = x /\ Awaited(d) => d = c
  BY <1>0, <1>1 DEF CallsOK, Awaited, Calls
<1>3. /\ ControlOK' /\ KeepsWaiting /\ job' = job
      /\ awaiting' = [awaiting EXCEPT ![x] = 0]
      /\ FailsTo(pc[x], pc'[x]) /\ \A y \in Execs \ {x} : pc'[y] = pc[y]
  BY <1>0, <1>2, ErrorOK DEF Lose
<1>4. UNCHANGED <<input, invoked, elapsed, calls, store>> /\ faults' \in 0 .. MaxFaults
      /\ faults' = faults + 1 /\ abandoned' = [abandoned EXCEPT ![x] = @ \cup {pc[x]}]
  BY FaultOK DEF Lose
<1>5. abandoned' \in [Execs -> SUBSET TaskStates]
  BY <1>2, <1>4, TypeUnfold
<1>6. TypeInv'
  BY <1>3, <1>4, <1>5, CallsKept, TypeUnfold, TypeFold
<1>7. abandoned'[x] = abandoned[x] \cup {pc[x]} /\ \A y \in Execs \ {x} : abandoned'[y] = abandoned[y]
  BY <1>4, TypeUnfold
<1>8. StepOf(x)
  BY <1>0, <1>3, <1>4, <1>7 DEF StepOf, ControlOK
<1>9. Late(x)' \subseteq Late(x) \cup {c}
  BY <1>0, <1>2, <1>3, <1>4 DEF Late, Awaited, ControlOK
<1>10. /\ Cardinality(Late(x)') \in Nat
       /\ Cardinality(Late(x)') + faults <= Cardinality(Late(x)) + faults'
  <2>1. /\ IsFiniteSet(Late(x) \cup {c})
        /\ Cardinality(Late(x) \cup {c}) <= Cardinality(Late(x)) + 1
        /\ Cardinality(Late(x) \cup {c}) \in Nat
    <3>1. IsFiniteSet(Late(x)) /\ Cardinality(Late(x)) \in Nat
      BY LateFinite
    <3>2. /\ IsFiniteSet(Late(x) \cup {c})
          /\ \/ Cardinality(Late(x) \cup {c}) = Cardinality(Late(x))
             \/ Cardinality(Late(x) \cup {c}) = Cardinality(Late(x)) + 1
      <4> HIDE DEF Late
      <4> QED
        BY <3>1, FS_AddElement
    <3> QED
      BY <3>1, <3>2
  <2>2. IsFiniteSet(Late(x)') /\ Cardinality(Late(x)') <= Cardinality(Late(x) \cup {c})
    BY <1>9, <2>1, FS_Subset
  <2>3. Cardinality(Late(x)') \in Nat
    BY <2>2, FS_CardinalityType
  <2> QED
    BY <1>0, <1>4, <2>1, <2>2, <2>3, LateFinite
<1>11. Fades(x)
  BY <1>0, <1>2, <1>3, <1>4, <1>7, <1>10 DEF Fades, FailsTo, Item, JobOf, ControlOK
<1> QED
  BY <1>6, <1>8, <1>11, FadingStep

-----------------------------------------------------------------------------
(* Transitions without an invocation.                                      *)

LEMMA EnterStep ==
  ASSUME TypeInv, NEW x \in Execs, NEW s \in States, Enter(x, s), pc[x] # "SubmitJob",
         UNCHANGED <<input, job, invoked, calls, store, abandoned, faults>>,
         NEW t \in 0 .. Deadline, elapsed' = [elapsed EXCEPT ![x] = t]
  PROVE  /\ TypeInv' /\ StepOf(x) /\ Late(x)' \subseteq Late(x)
         /\ pc'[x] = s /\ awaiting'[x] = 0 /\ \A c \in calls : c.of = x => ~ Awaited(c)'
         /\ elapsed'[x] = t
<1>0. /\ ControlOK /\ CallsOK /\ \A c \in calls : c \in Calls /\ c.no # 0 /\ c.of \in Execs
      /\ faults \in Nat
  BY TypeUnfold DEF Calls, CallsOK
<1>1. ControlOK' /\ KeepsWaiting
  BY <1>0, EnterOK
<1>2. elapsed' \in [Execs -> 0 .. Deadline]
  BY TypeUnfold
<1>3. TypeInv'
  BY <1>1, <1>2, CallsKept, TypeUnfold, TypeFold
<1>4. StepOf(x)
  BY <1>0, TypeUnfold DEF StepOf, Enter, ControlOK
<1>5. pc'[x] = s /\ awaiting'[x] = 0
  BY <1>0 DEF Enter, ControlOK
<1>6. \A c \in calls : c.of = x => ~ Awaited(c)'
  BY <1>0, <1>5 DEF Awaited
<1>7. \A c \in calls : c.of = x /\ Awaited(c) => c.at # "create"
  BY <1>0 DEF CallsOK, Ops, Calls, TaskStates
<1>8. Late(x)' \subseteq Late(x)
  BY <1>7 DEF Late
<1> QED
  BY <1>3, <1>4, <1>5, <1>6, <1>8, TypeUnfold

\* No seconds pass but in the Wait state.
LEMMA Timeless ==
  ASSUME TypeInv, UNCHANGED elapsed, NEW x \in Execs
  PROVE  elapsed' = [elapsed EXCEPT ![x] = elapsed[x]] /\ elapsed[x] \in 0 .. Deadline
BY TypeUnfold

\* An execution that moves on with no invocation running that it waits for.
LEMMA MovesOn ==
  ASSUME TypeInv, NEW x \in Execs, Owned(x), Known(x), Counts(x), pc[x] # "SubmitJob",
         UNCHANGED <<input, job, calls, store, abandoned>>, awaiting'[x] = 0,
         \A c \in calls : c.of = x => ~ Awaited(c),
         \A c \in calls : c.of = x => ~ Awaited(c)'
  PROVE  Owned(x)' /\ Known(x)' /\ Counts(x)' /\ Tokened(x)'
BY DEF Owned, Known, Counts, Tokened, Counted, Item, JobOf, Asked

LEMMA NoInvocation ==
  ASSUME TypeInv, NEW x \in Execs, pc[x] \notin TaskStates
  PROVE  awaiting[x] = 0 /\ \A c \in calls : c.of = x => ~ Awaited(c)
BY TypeUnfold DEF CallsOK, Awaited

LEMMA SignOffOK ==
  ASSUME TypeInv, NEW j \in Jobs, NEW approved \in BOOLEAN, SignOff(j, approved)
  PROVE  TypeInv' /\ \E x \in Execs : Preserves(x)
<1>00. store[j].token \in Execs
  BY TypeUnfold DEF SignOff, Items
<1> PICK x \in Execs : x = store[j].token
  BY <1>00
<1> PICK s \in {"Finalize", "JobFailed"} : s = IF approved THEN "Finalize" ELSE "JobFailed"
  OBVIOUS
<1>0. s \in States /\ faults \in Nat
  BY TypeUnfold DEF States, TaskStates, Terminals
<1>1. /\ Enter(x, s) /\ pc[x] = "RequestSignoff"
      /\ UNCHANGED <<input, job, invoked, elapsed, calls, store, abandoned, faults>>
  BY DEF SignOff
<1>2. /\ TypeInv' /\ StepOf(x) /\ Late(x)' \subseteq Late(x)
      /\ pc'[x] = s /\ awaiting'[x] = 0 /\ \A c \in calls : c.of = x => ~ Awaited(c)'
  BY <1>0, <1>1, EnterStep, Timeless
<1>3. \A c \in calls : c.of = x /\ Awaited(c) => c.fn = "RequestSignoff"
  BY <1>1 DEF TypeInv, CallsOK
<1>4. Fades(x)
  BY <1>0, <1>1, <1>2, <1>3, LateKept DEF Fades, Item, JobOf
<1> QED
  BY <1>0, <1>2, <1>4, FadingStep

LEMMA TimeOutOK ==
  ASSUME TypeInv, NEW x \in Execs, TimeOut(x)
  PROVE  TypeInv' /\ Preserves(x)
<1> DEFINE s == IF elapsed[x] + SignoffTimeout <= Deadline THEN "SignoffTimedOut"
                                                           ELSE "ExecutionTimedOut"
<1>0. s \in States /\ faults \in Nat
  BY TypeUnfold DEF States, Terminals
<1>1. /\ Enter(x, s) /\ pc[x] = "RequestSignoff" /\ ~ Waiting(x)
      /\ UNCHANGED <<input, job, invoked, elapsed, calls, store, abandoned, faults>>
  BY DEF TimeOut
<1> HIDE DEF s
<1>2. /\ TypeInv' /\ StepOf(x) /\ Late(x)' \subseteq Late(x)
      /\ pc'[x] = s /\ awaiting'[x] = 0 /\ \A c \in calls : c.of = x => ~ Awaited(c)'
  BY <1>0, <1>1, EnterStep, Timeless
<1>3. ASSUME s = "SignoffTimedOut" PROVE Fades(x)
  BY <1>0, <1>1, <1>2, <1>3, LateKept DEF Fades, Item, JobOf, Waiting
<1>4. ASSUME s = "ExecutionTimedOut", BudgetFits, Good(x) PROVE FALSE
  <2>1. PICK w \in 0 .. MaxPolls : Waited(x, w)
    BY <1>1, <1>4 DEF Good, InTime
  <2>2. elapsed[x] <= (MaxFaults + 1) * Round
    BY <2>1, WaitsFit DEF Waited
  <2> QED
    BY <1>4, <2>2, TypeUnfold, LongRunningAssumption DEF s, BudgetFits, Round
<1>5. ASSUME s = "ExecutionTimedOut", ~ BudgetFits, Good(x) PROVE Good(x)'
  <2>1. \A c \in calls : c.of = x => ~ Awaited(c)
    BY <1>1 DEF Waiting
  <2>2. Owned(x)' /\ Known(x)' /\ Counts(x)' /\ Tokened(x)'
    BY <1>1, <1>2, <1>5, <2>1, MovesOn DEF Good, Tracks
  <2>3. Judged(x)' /\ Written(x)'
    BY <1>1, <1>2, <1>5 DEF Good, Tracks, Judged, Written
  <2> QED
    BY <1>5, <2>2, <2>3 DEF Good, Tracks, BudgetFits
<1>6. Preserves(x)
  BY <1>2, <1>3, <1>4, <1>5, FadesOK, OnlyOne DEF Preserves, s
<1> QED
  BY <1>2, <1>6

\* One more wait, of at most MaxWait seconds.
LEMMA WaitForJobOK ==
  ASSUME TypeInv, NEW x \in Execs, WaitForJob(x)
  PROVE  TypeInv' /\ Preserves(x)
<1>0. /\ job[x].wait \in 1 .. MaxWait /\ elapsed[x] \in 0 .. Deadline /\ Deadline \in Nat
      /\ MaxWait \in Nat /\ MaxPolls \in Nat
      /\ {"PollJob", "ExecutionTimedOut"} \subseteq States
      /\ job[x].attempt \in Nat
  BY TypeUnfold, LongRunningAssumption DEF ControlOK, States, TaskStates, Terminals
<1>1. /\ pc[x] = "WaitForJob" /\ awaiting[x] = 0 /\ \A c \in calls : c.of = x => ~ Awaited(c)
      /\ UNCHANGED <<input, job, invoked, calls, store, abandoned, faults>>
  BY NoInvocation DEF WaitForJob, TaskStates
<1>2. CASE /\ elapsed[x] + job[x].wait <= Deadline /\ Enter(x, "PollJob")
           /\ elapsed' = [elapsed EXCEPT ![x] = elapsed[x] + job[x].wait]
  <2>1. PICK t \in 0 .. Deadline : t = elapsed[x] + job[x].wait
    BY <1>0, <1>2
  <2>11. elapsed' = [elapsed EXCEPT ![x] = t]
    BY <1>2, <2>1
  <2>2. /\ TypeInv' /\ StepOf(x) /\ Late(x)' \subseteq Late(x)
        /\ pc'[x] = "PollJob" /\ awaiting'[x] = 0 /\ \A c \in calls : c.of = x => ~ Awaited(c)'
        /\ elapsed'[x] = t
    BY <1>0, <1>1, <1>2, <2>11, EnterStep
  <2>3. ASSUME Good(x) PROVE Tracks(x)'
    <3>1. Owned(x)' /\ Known(x)' /\ Counts(x)' /\ Tokened(x)'
      BY <1>1, <2>2, <2>3, MovesOn DEF Good, Tracks
    <3>2. Judged(x)' /\ Written(x)'
      BY <1>1, <2>2, <2>3 DEF Good, Tracks, Judged, Written
    <3> QED
      BY <3>1, <3>2 DEF Tracks
  <2>4. ASSUME Good(x), BudgetFits PROVE InTime(x)'
    <3>1. PICK w \in 0 .. MaxPolls : Waited(x, w)
      BY <1>1, <2>4 DEF Good, InTime
    <3>2. w <= job[x].attempt /\ w <= Item(x).attempts /\ job[x].attempt < MaxPolls
      BY <1>1, <2>4, <3>1 DEF Good, Tracks, Judged, Waited
    <3>3. w + 1 \in 0 .. MaxPolls
      BY <1>0, <3>2
    <3>4. Late(x)' = Late(x)
      BY <1>1, <2>2 DEF Late
    <3>5. elapsed'[x] + Cardinality(Late(x)') * Round <= faults' * Round + (w + 1) * MaxWait
      <4> DEFINE lr == Cardinality(Late(x)) * Round
                 fr == faults * Round
      <4>1. lr \in Nat /\ fr \in Nat /\ (w + 1) * MaxWait = w * MaxWait + MaxWait
            /\ w * MaxWait \in Nat
        <5>1. Cardinality(Late(x)) \in Nat /\ faults \in Nat /\ Round \in Nat
          BY LateFinite, TypeUnfold, LongRunningAssumption DEF Round
        <5> QED
          BY <1>0, <5>1
      <4>2. elapsed[x] + lr <= fr + w * MaxWait /\ elapsed'[x] <= elapsed[x] + MaxWait
        BY <1>0, <2>1, <2>2, <3>1 DEF Waited
      <4>3. Cardinality(Late(x)') * Round = lr /\ faults' * Round = fr
        BY <1>1, <3>4
      <4> HIDE DEF lr, fr
      <4> QED
        BY <1>0, <2>2, <4>1, <4>2, <4>3
    <3>6. Waited(x, w + 1)'
      BY <1>1, <2>2, <3>2, <3>5, TypeUnfold DEF Waited, Item, JobOf, Items, ControlOK
    <3> QED
      BY <1>1, <2>2, <2>4, <3>3, <3>4, <3>6 DEF Good, InTime
  <2> QED
    BY <2>2, <2>3, <2>4, OnlyOne DEF Preserves, Good, BudgetFits
<1>3. CASE /\ ~ (elapsed[x] + job[x].wait <= Deadline) /\ Enter(x, "ExecutionTimedOut")
           /\ elapsed' = [elapsed EXCEPT ![x] = Deadline]
  <2>1. Deadline \in 0 .. Deadline
    BY <1>0
  <2>2. /\ TypeInv' /\ StepOf(x)
        /\ pc'[x] = "ExecutionTimedOut" /\ awaiting'[x] = 0
        /\ \A c \in calls : c.of = x => ~ Awaited(c)'
    BY <1>0, <1>1, <1>3, <2>1, EnterStep
  <2>3. ASSUME Good(x) PROVE Tracks(x)'
    <3>1. Owned(x)' /\ Known(x)' /\ Counts(x)' /\ Tokened(x)'
      BY <1>1, <2>2, <2>3, MovesOn DEF Good, Tracks
    <3>2. Judged(x)' /\ Written(x)'
      BY <1>1, <2>2, <2>3 DEF Good, Tracks, Judged, Written
    <3> QED
      BY <3>1, <3>2 DEF Tracks
  <2>4. ASSUME Good(x), BudgetFits PROVE FALSE
    <3>1. PICK w \in 0 .. MaxPolls : Waited(x, w)
      BY <1>1, <2>4 DEF Good, InTime
    <3>2. w <= job[x].attempt /\ job[x].attempt < MaxPolls
      BY <1>1, <2>4, <3>1 DEF Good, Tracks, Judged, Waited
    <3>3. elapsed[x] + MaxWait <= (MaxFaults + 1) * Round
      BY <1>0, <3>1, <3>2, WaitsFit DEF Waited
    <3>4. SignoffTimeout \in Nat /\ (MaxFaults + 1) * Round \in Int
          /\ (MaxFaults + 1) * Round + SignoffTimeout <= Deadline
      BY <1>0, <2>4, TypeUnfold, LongRunningAssumption DEF BudgetFits, Round
    <3> HIDE DEF Round
    <3> QED
      BY <1>0, <1>3, <3>3, <3>4
  <2> QED
    BY <2>2, <2>3, <2>4, OnlyOne DEF Preserves, Good, BudgetFits
<1> QED
  BY <1>2, <1>3 DEF WaitForJob

\* EvaluateJob decides by what poll_job reported.
LEMMA EvaluateJobOK ==
  ASSUME TypeInv, NEW x \in Execs, EvaluateJob(x)
  PROVE  TypeInv' /\ Preserves(x)
<1>0. /\ MaxPolls \in Nat /\ job[x].attempt \in Nat
      /\ {"RequestSignoff", "JobFailed", "JobTimedOut", "WaitForJob"} \subseteq States
  BY TypeUnfold, LongRunningAssumption DEF ControlOK, States, TaskStates, Terminals
<1>1. /\ pc[x] = "EvaluateJob" /\ awaiting[x] = 0 /\ \A c \in calls : c.of = x => ~ Awaited(c)
      /\ UNCHANGED <<input, job, invoked, elapsed, calls, store, abandoned, faults>>
  BY NoInvocation DEF EvaluateJob, TaskStates
<1>2. PICK s \in {"RequestSignoff", "JobFailed", "JobTimedOut", "WaitForJob"} :
        /\ Enter(x, s)
        /\ s = IF job[x].status = "SUCCEEDED" THEN "RequestSignoff"
               ELSE IF job[x].status = "FAILED" THEN "JobFailed"
               ELSE IF job[x].exhausted THEN "JobTimedOut"
               ELSE "WaitForJob"
  BY DEF EvaluateJob
<1>3. /\ TypeInv' /\ StepOf(x) /\ Late(x)' \subseteq Late(x)
      /\ pc'[x] = s /\ awaiting'[x] = 0 /\ \A c \in calls : c.of = x => ~ Awaited(c)'
  BY <1>0, <1>1, <1>2, EnterStep, Timeless
<1>4. ASSUME Good(x) PROVE Tracks(x)'
  <2>1. Owned(x)' /\ Known(x)' /\ Counts(x)' /\ Tokened(x)'
    BY <1>1, <1>3, <1>4, MovesOn DEF Good, Tracks
  <2>2. Judged(x)'
    <3>1. /\ job[x].status \in {"RUNNING", "SUCCEEDED", "FAILED"}
          /\ job[x].exhausted <=> (job[x].status = "RUNNING" /\ job[x].attempt >= MaxPolls)
          /\ job[x].status = "RUNNING" => NotDone(x)
      BY <1>1, <1>4 DEF Good, Tracks, Judged
    <3>2. CASE job[x].exhausted
      BY <1>0, <1>1, <1>2, <1>3, <3>1, <3>2 DEF Judged, NotDone
    <3>3. CASE ~ job[x].exhausted
      BY <1>0, <1>1, <1>2, <1>3, <3>1, <3>3 DEF Judged, NotDone
    <3> QED
      BY <3>2, <3>3
  <2>3. Written(x)'
    BY <1>1, <1>2, <1>3, <1>4 DEF Good, Tracks, Written, Item, JobOf
  <2> QED
    BY <2>1, <2>2, <2>3 DEF Tracks
<1>5. ASSUME Good(x), BudgetFits PROVE InTime(x)'
  <2>1. PICK w \in 0 .. MaxPolls : Waited(x, w)
    BY <1>1, <1>5 DEF Good, InTime
  <2>2. Late(x)' = Late(x)
    BY <1>1, <1>3 DEF Late
  <2>3. Waited(x, w)'
    BY <1>1, <1>2, <1>3, <2>1, <2>2 DEF Waited, Item, JobOf
  <2> QED
    BY <1>1, <1>2, <1>3, <1>5, <2>2, <2>3 DEF Good, InTime
<1> QED
  BY <1>3, <1>4, <1>5, OnlyOne DEF Preserves, Good, BudgetFits

-----------------------------------------------------------------------------
(* Invocations.                                                            *)

LEMMA InvokeOK ==
  ASSUME TypeInv, NEW x \in Execs, Invoke(x)
  PROVE  TypeInv' /\ Preserves(x)
<1> PICK c : c = [of |-> x, no |-> invoked[x] + 1, fn |-> pc[x], at |-> FirstOp(pc[x]),
                  spec |-> NoSpec, attempt |-> 0]
  OBVIOUS
<1>0. /\ ControlOK /\ CallsOK /\ invoked[x] \in Nat /\ pc[x] \in TaskStates /\ awaiting[x] = 0
      /\ \A d \in calls : d \in Calls /\ d.no # 0 /\ d.of \in Execs /\ d.no \in Nat
      /\ faults \in Nat
  BY TypeUnfold DEF Invoke, Calls, CallsOK
<1>1. FirstOp(pc[x]) \in Ops(pc[x]) \ {"reply", "progress"} /\ FirstOp(pc[x]) \in Steps
      /\ (pc[x] = "RequestSignoff" => FirstOp(pc[x]) = "attach")
  BY <1>0 DEF FirstOp, Ops, TaskStates, Steps
<1>2. NoSpec \in Specs
  BY DEF NoSpec, Specs
<1>3. /\ c \in Calls /\ c.of = x /\ c.no = invoked[x] + 1 /\ c.fn = pc[x]
      /\ c.at = FirstOp(pc[x]) /\ c.spec = NoSpec
  BY <1>0, <1>1, <1>2 DEF Calls
<1>4. calls' = calls \cup {c}
  BY DEF Invoke
<1>5. /\ UNCHANGED <<input, pc, tries, job, elapsed, store, abandoned, faults>>
      /\ invoked' = [invoked EXCEPT ![x] = @ + 1]
      /\ awaiting' = [awaiting EXCEPT ![x] = invoked[x] + 1]
  BY DEF Invoke
<1>6. ControlOK' /\ invoked' \in [Execs -> Nat] /\ calls' \subseteq Calls
  BY <1>0, <1>3, <1>4, <1>5, TypeUnfold DEF ControlOK
<1>7. \A d \in calls : d.no <= invoked'[d.of] /\ (d.of = x => d.no # invoked[x] + 1 /\ ~ Awaited(d)')
                       /\ (Awaited(d)' => Awaited(d))
  BY <1>0, <1>5, TypeUnfold DEF CallsOK, Awaited, ControlOK
<1>8. Awaited(c)' /\ awaiting'[x] = invoked[x] + 1 /\ awaiting'[x] # 0 /\ invoked'[x] = invoked[x] + 1
  BY <1>0, <1>3, <1>5, TypeUnfold DEF Awaited, ControlOK
<1>9. CallsOK'
  <2>1. IsFiniteSet(calls')
    BY <1>0, <1>4, FS_AddElement DEF CallsOK
  <2>2. \A d \in calls' : /\ d.no # 0 /\ d.no <= invoked'[d.of]
                          /\ Awaited(d)' => d.fn = pc'[d.of]
                          /\ d.at \in Ops(d.fn)
    BY <1>0, <1>1, <1>3, <1>4, <1>5, <1>7, <1>8 DEF CallsOK
  <2>3. \A d, b \in calls' : d.of = b.of /\ d.no = b.no => d = b
    BY <1>0, <1>3, <1>4, <1>7 DEF CallsOK
  <2>4. \A y \in Execs : /\ awaiting'[y] <= invoked'[y]
                         /\ awaiting'[y] # 0 => pc'[y] \in TaskStates
    BY <1>0, <1>5, <1>8, TypeUnfold DEF CallsOK, ControlOK
  <2> QED
    BY <2>1, <2>2, <2>3, <2>4 DEF CallsOK
<1>10. TypeInv'
  BY <1>5, <1>6, <1>9, TypeUnfold, TypeFold
<1>11. StepOf(x)
  BY <1>0, <1>3, <1>4, <1>5 DEF StepOf, ControlOK
<1>12. ~ Counted(c) /\ c.at # "reply" /\ (pc[x] = "RequestSignoff" => c.at = "attach")
  BY <1>1, <1>3 DEF Counted
<1>13. \A d \in calls : d.of = x => ~ Awaited(d)
  BY <1>0 DEF Awaited
<1>14. ASSUME Good(x) PROVE Tracks(x)'
  <2>1. Owned(x)'
    BY <1>4, <1>5, <1>8, <1>13, <1>14 DEF Good, Tracks, Owned
  <2>2. Known(x)'
    BY <1>3, <1>4, <1>5, <1>12, <1>14 DEF Good, Tracks, Known, Item, JobOf, Asked, Counted
  <2>3. Judged(x)'
    BY <1>5, <1>14 DEF Good, Tracks, Judged, NotDone
  <2>4. Counts(x)'
    BY <1>4, <1>5, <1>7, <1>12, <1>14 DEF Good, Tracks, Counts, Item, JobOf, Counted
  <2>5. Tokened(x)'
    BY <1>3, <1>4, <1>5, <1>8, <1>12 DEF Tokened
  <2>6. Written(x)'
    BY <1>4, <1>5, <1>7, <1>12, <1>14 DEF Good, Tracks, Written, Item, JobOf
  <2> QED
    BY <2>1, <2>2, <2>3, <2>4, <2>5, <2>6 DEF Tracks
<1>15. ASSUME Good(x), BudgetFits PROVE InTime(x)'
  <2>1. Late(x)' = Late(x)
    BY <1>3, <1>4, <1>7, <1>8, <1>13 DEF Late
  <2>2. \A w \in 0 .. MaxPolls : Waited(x, w) => Waited(x, w)'
    BY <1>4, <1>5, <1>7, <1>12, <2>1 DEF Waited, Item, JobOf, Counted
  <2> QED
    BY <1>5, <1>15, <2>1, <2>2 DEF Good, InTime
<1> QED
  BY <1>10, <1>11, <1>14, <1>15, OnlyOne DEF Preserves, Good, BudgetFits

\* An invocation goes on, and may write the item.  d is what it has become.
Continues(c, d, item) ==
  /\ d \in Calls /\ d.of = c.of /\ d.no = c.no /\ d.fn = c.fn /\ d.at \in Ops(c.fn)
  /\ item \in Items
  /\ GoOn(c, d)
  /\ store' = [store EXCEPT ![JobOf(c.of)] = item]
  /\ UNCHANGED <<input, invoked, elapsed, abandoned, faults>>

LEMMA GoOnStep ==
  ASSUME TypeInv, NEW c \in calls, NEW d, NEW item, Continues(c, d, item)
  PROVE  /\ TypeInv' /\ StepOf(c.of) /\ c.of \in Execs /\ c.fn \in TaskStates /\ c.at \in Ops(c.fn)
         /\ Item(c.of)' = item
         /\ calls' = (calls \ {c}) \cup {d} /\ UNCHANGED <<pc, awaiting, job>>
         /\ \A b : Awaited(b)' <=> Awaited(b)
         /\ Awaited(d) <=> Awaited(c)
         /\ Awaited(c) => c.fn = pc[c.of] /\ \A b \in calls : b.of = c.of /\ Awaited(b) => b = c
         /\ Owned(c.of) => Owned(c.of)'
         /\ Judged(c.of) => Judged(c.of)'
         /\ c.at # "create" /\ d.at # "create" => Late(c.of)' = Late(c.of)
<1>0. /\ ControlOK /\ CallsOK /\ \A b \in calls : b \in Calls /\ b.of \in Execs
      /\ faults \in Nat /\ JobOf(c.of) \in Jobs /\ store \in [Jobs -> Items]
      /\ c.fn \in TaskStates
  BY TypeUnfold DEF Calls
<1>1. /\ calls' = (calls \ {c}) \cup {d} /\ UNCHANGED <<pc, tries, awaiting, job>>
      /\ UNCHANGED <<input, invoked, elapsed, abandoned, faults>>
      /\ d.of = c.of /\ d.no = c.no /\ d.fn = c.fn
      /\ store' = [store EXCEPT ![JobOf(c.of)] = item] /\ item \in Items
  BY DEF Continues, GoOn, execVars
<1>2. ControlOK' /\ CallsOK' /\ calls' \subseteq Calls
  BY GoOnOK DEF Continues
<1>3. store' \in [Jobs -> Items]
  BY <1>0, <1>1
<1>4. TypeInv'
  BY <1>1, <1>2, <1>3, TypeUnfold, TypeFold
<1>5. StepOf(c.of)
  BY <1>0, <1>1 DEF StepOf
<1>6. Item(c.of)' = item
  BY <1>0, <1>1 DEF Item, JobOf
<1>7. \A b : Awaited(b)' <=> Awaited(b)
  BY <1>1 DEF Awaited
<1>8. Awaited(d) <=> Awaited(c)
  BY <1>1 DEF Awaited
<1>9. Awaited(c) => c.fn = pc[c.of] /\ \A b \in calls : b.of = c.of /\ Awaited(b) => b = c
  BY <1>0 DEF CallsOK, Awaited
<1>10. Owned(c.of) => Owned(c.of)'
  BY <1>1, <1>7, <1>8 DEF Owned
<1>11. Judged(c.of) => Judged(c.of)'
  BY <1>1 DEF Judged, NotDone
<1>12. c.at # "create" /\ d.at # "create" => Late(c.of)' = Late(c.of)
  BY <1>1, <1>7 DEF Late
<1> QED
  BY <1>0, <1>1, <1>4, <1>5, <1>6, <1>7, <1>8, <1>9, <1>10, <1>11, <1>12 DEF CallsOK

LEMMA Unowned ==
  ASSUME NEW c \in calls, Owned(c.of), c.fn \notin abandoned[c.of], c.fn # "RequestSignoff"
  PROVE  Awaited(c)
BY DEF Owned

\* JobStore.create takes the item back to the start.
LEMMA CreateOK ==
  ASSUME TypeInv, NEW c \in calls, Create(c)
  PROVE  TypeInv' /\ Preserves(c.of)
<1> DEFINE x == c.of
<1>0. /\ c \in Calls /\ x \in Execs /\ c.at = "create" /\ input[x] \in Inputs
      /\ Round \in Nat /\ MaxPolls \in Nat /\ MaxWait \in Nat /\ faults \in Nat
      /\ elapsed[x] \in Nat
      /\ \A b \in calls : b.attempt \in Nat
  BY TypeUnfold, LongRunningAssumption DEF Create, Calls, Round
<1>1. c.fn = "SubmitJob"
  BY <1>0 DEF TypeInv, CallsOK, Ops, Calls, TaskStates
<1>2. Asked(x) \in Specs
  BY <1>0, LongRunningAssumption DEF Asked, Specs
<1>3. PICK item : item = [NoItem EXCEPT !.status = "SUBMITTED", !.spec = Asked(x)]
  OBVIOUS
<1>4. /\ item \in Items /\ item.spec = Asked(x) /\ item.attempts = 0
  BY <1>2, <1>3 DEF Items, NoItem, NoSpec, Statuses
<1>5. PICK d : d = [c EXCEPT !.at = "reply"]
  OBVIOUS
<1>6. /\ d \in Calls /\ d.of = c.of /\ d.no = c.no /\ d.fn = c.fn /\ d.at = "reply"
      /\ d.at \in Ops(c.fn) /\ d.spec = c.spec
  BY <1>0, <1>1, <1>5 DEF Calls, Steps, Ops
<1>7. Continues(c, d, item)
  BY <1>3, <1>4, <1>5, <1>6 DEF Continues, Create, Put, Asked, JobOf
<1>8. /\ TypeInv' /\ StepOf(x)
      /\ Item(x)' = item
      /\ calls' = (calls \ {c}) \cup {d} /\ UNCHANGED <<pc, awaiting, job>>
      /\ \A b : Awaited(b)' <=> Awaited(b)
      /\ Awaited(d) <=> Awaited(c)
      /\ Awaited(c) => c.fn = pc[c.of] /\ \A b \in calls : b.of = c.of /\ Awaited(b) => b = c
      /\ Owned(x) => Owned(x)'
      /\ Judged(x) => Judged(x)'
      /\ UNCHANGED <<input, elapsed, abandoned, faults>>
  BY <1>7, GoOnStep DEF Continues
<1>9. ~ Counted(d)
  BY <1>1, <1>6 DEF Counted
<1> HIDE DEF x
<1>10. c.of = x /\ d.of = x
  BY <1>6 DEF x
<1>11. ASSUME Good(x) PROVE Tracks(x)'
  <2>1. Known(x)'
    <3>1. Asked(x)' = Asked(x)
      BY <1>8 DEF Asked
    <3> QED
      BY <1>4, <1>6, <1>8, <1>9, <1>10, <1>11, <3>1 DEF Good, Tracks, Known, Counted
  <2>2. "SubmitJob" \notin abandoned[x] => pc[x] = "SubmitJob"
    BY <1>1, <1>8, <1>10, <1>11, Unowned DEF Good, Tracks
  <2>3. Counts(x)' /\ Tokened(x)'
    BY <1>8, <2>2 DEF Counts, Tokened
  <2>4. Written(x)'
    <3> SUFFICES ASSUME abandoned[x] = {} PROVE Written(x)'
      BY <1>8 DEF Written
    <3>1. pc[x] = "SubmitJob" /\ Awaited(c)
      BY <1>1, <1>10, <1>11, <2>2, Unowned DEF Good, Tracks
    <3>2. \A b \in calls' : b.of = x /\ Awaited(b)' => b.fn = "SubmitJob"
      BY <1>1, <1>6, <1>8, <1>10, <3>1
    <3> QED
      BY <1>8, <3>1, <3>2 DEF Written
  <2> QED
    BY <1>8, <1>11, <2>1, <2>3, <2>4 DEF Good, Tracks
<1>12. ASSUME Good(x), BudgetFits PROVE InTime(x)'
  <2>1. Cardinality(Late(x)) \in Nat /\ IsFiniteSet(Late(x)) /\ InTime(x)
    BY <1>0, <1>12, LateFinite DEF Good, x
  <2>2. CASE Awaited(c)
    <3>1. Late(x)' = Late(x)
      BY <1>6, <1>8, <2>2 DEF Late
    <3>2. pc[x] = "SubmitJob"
      BY <1>1, <1>8, <1>10, <2>2
    <3> QED
      BY <1>8, <2>1, <3>1, <3>2 DEF InTime
  <2>3. CASE ~ Awaited(c)
    <3>1. Late(x)' = Late(x) \ {c} /\ c \in Late(x)
      BY <1>0, <1>6, <1>8, <1>10, <2>3 DEF Late
    <3>2. Cardinality(Late(x)') = Cardinality(Late(x)) - 1 /\ Cardinality(Late(x)') \in Nat
      BY <2>1, <3>1, FS_RemoveElement, FS_CardinalityType
    <3>3. CASE pc[x] = "SubmitJob"
      BY <1>0, <1>8, <2>1, <3>2, <3>3 DEF InTime
    <3>4. CASE pc[x] # "SubmitJob"
      <4>1. PICK w \in 0 .. MaxPolls : elapsed[x] + Cardinality(Late(x)) * Round <= faults * Round + w * MaxWait
        BY <2>1, <3>4 DEF InTime, Waited
      <4>2. elapsed[x] + Cardinality(Late(x)') * Round <= faults * Round + 0 * MaxWait
        <5> DEFINE m == Cardinality(Late(x)')
                   n == Cardinality(Late(x))
        <5>1. w * MaxWait \in Nat /\ w * MaxWait <= Round
          BY <1>0 DEF Round
        <5>2. n * Round = m * Round + Round /\ n * Round \in Nat /\ m * Round \in Nat
              /\ faults * Round \in Nat /\ 0 * MaxWait = 0
          <6>1. n = m + 1 /\ m \in Nat
            BY <2>1, <3>2
          <6> HIDE DEF n, m, Round
          <6> QED
            BY <1>0, <6>1
        <5>3. elapsed[x] + n * Round <= faults * Round + w * MaxWait
          BY <4>1
        <5> HIDE DEF n, Round
        <5> QED
          BY <1>0, <5>1, <5>2, <5>3
      <4>3. Waited(x, 0)'
        <5>1. \A b \in calls' : Counted(b) => b.attempt \in Nat
          BY <1>0, <1>8, <1>9
        <5>2. job[x].attempt \in Nat
          BY <1>0, TypeUnfold DEF ControlOK, x
        <5> QED
          BY <1>4, <1>8, <4>2, <5>1, <5>2 DEF Waited, Counted
      <4> QED
        BY <1>0, <1>8, <2>1, <3>2, <3>4, <4>3 DEF InTime
    <3> QED
      BY <3>3, <3>4
  <2> QED
    BY <2>2, <2>3
<1> QED
  BY <1>0, <1>8, <1>11, <1>12, OnlyOne DEF Preserves, Good, BudgetFits

\* The counter of the item is never set back but by JobStore.create, and
\* an invocation has either counted before or counts just now.
CountsOn(c, d, item) ==
  /\ item.attempts >= Item(c.of).attempts
  /\ Counted(d) => \/ Counted(c) /\ d.attempt = c.attempt
                   \/ d.attempt = item.attempts /\ item.attempts = Item(c.of).attempts + 1

LEMMA CountKept ==
  ASSUME TypeInv, NEW c \in calls, NEW d, NEW item, Continues(c, d, item),
         c.at # "create", d.at # "create", CountsOn(c, d, item), Good(c.of)
  PROVE  Counts(c.of)' /\ (BudgetFits => InTime(c.of)')
<1> DEFINE x == c.of
<1>0. /\ \A b \in calls : b.attempt \in Nat
      /\ Item(x).attempts \in Nat /\ job[x].attempt \in Nat
      /\ item.attempts \in Nat /\ MaxPolls \in Nat
  BY TypeUnfold, LongRunningAssumption DEF Calls, Item, Items, ControlOK, Continues
<1>1. /\ Item(x)' = item
      /\ calls' = (calls \ {c}) \cup {d} /\ UNCHANGED <<pc, awaiting, job>>
      /\ \A b : Awaited(b)' <=> Awaited(b)
      /\ Awaited(d) <=> Awaited(c)
      /\ Awaited(c) => c.fn = pc[c.of] /\ \A b \in calls : b.of = c.of /\ Awaited(b) => b = c
      /\ UNCHANGED <<input, elapsed, abandoned, faults>>
      /\ Late(x)' = Late(x) /\ d.of = c.of /\ d.fn = c.fn
  BY GoOnStep DEF Continues
<1> HIDE DEF x
<1>2. c.of = x
  BY DEF x
<1>3. Counts(x)'
  <2> SUFFICES ASSUME "SubmitJob" \notin abandoned[x], pc[x] # "SubmitJob"
               PROVE  /\ item.attempts >= job[x].attempt
                      /\ \A b \in calls' : b.of = x /\ Awaited(b) /\ Counted(b) =>
                           job[x].attempt < b.attempt /\ b.attempt <= item.attempts
    BY <1>1 DEF Counts
  <2>1. /\ Item(x).attempts >= job[x].attempt /\ item.attempts >= Item(x).attempts
        /\ \A b \in calls : b.of = x /\ Awaited(b) /\ Counted(b) =>
             job[x].attempt < b.attempt /\ b.attempt <= Item(x).attempts
    BY <1>2 DEF Good, Tracks, Counts, CountsOn
  <2>2. Awaited(d) /\ Counted(d) => job[x].attempt < d.attempt /\ d.attempt <= item.attempts
    BY <1>0, <1>1, <1>2, <2>1 DEF CountsOn
  <2> QED
    BY <1>0, <1>1, <2>1, <2>2
<1>4. ASSUME BudgetFits PROVE InTime(x)'
  <2>1. InTime(x)
    BY <1>2, <1>4 DEF Good
  <2>2. ASSUME NEW w \in 0 .. MaxPolls, Waited(x, w) PROVE Waited(x, w)'
    <3>1. pc[x] \in {"WaitForJob", "EvaluateJob"} => w <= item.attempts
      BY <1>0, <1>2, <2>2 DEF Waited, CountsOn
    <3>2. ASSUME pc[x] = "PollJob"
          PROVE  /\ w <= item.attempts + 1
                 /\ \A b \in calls' : b.of = x /\ Awaited(b) /\ Counted(b) =>
                      w <= b.attempt /\ w <= item.attempts
      <4>1. /\ w <= Item(x).attempts + 1 /\ item.attempts >= Item(x).attempts
            /\ \A b \in calls : b.of = x /\ Awaited(b) /\ Counted(b) =>
                 w <= b.attempt /\ w <= Item(x).attempts
        BY <1>2, <2>2, <3>2 DEF Waited, CountsOn
      <4>2. Awaited(d) /\ Counted(d) => w <= d.attempt /\ w <= item.attempts
        BY <1>0, <1>1, <1>2, <4>1 DEF CountsOn
      <4> QED
        BY <1>0, <1>1, <4>1, <4>2
    <3> QED
      BY <1>1, <2>2, <3>1, <3>2 DEF Waited
  <2> QED
    BY <1>1, <2>1, <2>2 DEF InTime
<1> QED
  BY <1>2, <1>3, <1>4

\* What is left to show of a call that is not JobStore.create.
LEMMA ContinuesOK ==
  ASSUME TypeInv, NEW c \in calls, NEW d, NEW item, Continues(c, d, item),
         c.at # "create", d.at # "create", CountsOn(c, d, item),
         Good(c.of) => Known(c.of)' /\ Tokened(c.of)' /\ Written(c.of)'
  PROVE  TypeInv' /\ Preserves(c.of)
<1>1. TypeInv' /\ StepOf(c.of) /\ c.of \in Execs
      /\ (Owned(c.of) => Owned(c.of)') /\ (Judged(c.of) => Judged(c.of)')
  BY GoOnStep
<1>2. Good(c.of) => Good(c.of)'
  BY <1>1, CountKept DEF Good, Tracks, BudgetFits
<1> QED
  BY <1>1, <1>2, OnlyOne DEF Preserves

LEMMA GetOK ==
  ASSUME TypeInv, NEW c \in calls, Get(c)
  PROVE  TypeInv' /\ Preserves(c.of)
<1> DEFINE x == c.of
<1>0. /\ c \in Calls /\ x \in Execs /\ c.at = "get" /\ JobOf(x) \in Jobs
      /\ Item(x) \in Items /\ store \in [Jobs -> Items]
  BY TypeUnfold DEF Get, Calls, Item
<1>1. c.fn = "PollJob"
  BY <1>0 DEF TypeInv, CallsOK, Ops, Calls, TaskStates
<1>2. PICK d : d = [c EXCEPT !.at = "increment", !.spec = Item(x).spec, !.attempt = Item(x).attempts]
  OBVIOUS
<1>3. PICK item : item = Item(x)
  OBVIOUS
<1>4. /\ d \in Calls /\ d.of = c.of /\ d.no = c.no /\ d.fn = c.fn /\ d.at = "increment"
      /\ d.at \in Ops(c.fn) /\ d.spec = Item(x).spec
  BY <1>0, <1>1, <1>2 DEF Calls, Steps, Ops, Items
<1>5. store' = [store EXCEPT ![JobOf(x)] = item]
  BY <1>0, <1>3 DEF Get, Item
<1>6. Continues(c, d, item)
  BY <1>0, <1>2, <1>3, <1>4, <1>5 DEF Continues, Get, Item
<1>7. CountsOn(c, d, item)
  BY <1>0, <1>3, <1>4 DEF CountsOn, Counted, Items
<1>8. /\ Item(x)' = item
      /\ calls' = (calls \ {c}) \cup {d} /\ UNCHANGED <<pc, awaiting, job>>
      /\ \A b : Awaited(b)' <=> Awaited(b)
      /\ Awaited(d) <=> Awaited(c)
      /\ UNCHANGED <<input, elapsed, abandoned, faults>>
  BY <1>6, GoOnStep DEF Continues
<1>9. ASSUME Good(x) PROVE Known(x)' /\ Tokened(x)' /\ Written(x)'
  <2>1. Asked(x)' = Asked(x) /\ ~ Counted(d)
    BY <1>4, <1>8 DEF Asked, Counted
  <2>2. Known(x)'
    BY <1>3, <1>4, <1>8, <1>9, <2>1 DEF Good, Tracks, Known, Counted
  <2>3. Tokened(x)'
    BY <1>0, <1>3, <1>8, <1>9 DEF Good, Tracks, Tokened
  <2>4. Written(x)'
    BY <1>3, <1>4, <1>8, <1>9 DEF Good, Tracks, Written
  <2> QED
    BY <2>2, <2>3, <2>4
<1> QED
  BY <1>0, <1>4, <1>6, <1>7, <1>9, ContinuesOK

LEMMA IncrementOK ==
  ASSUME TypeInv, NEW c \in calls, Increment(c)
  PROVE  TypeInv' /\ Preserves(c.of)
<1> DEFINE x == c.of
<1>0. /\ c \in Calls /\ x \in Execs /\ c.at = "increment" /\ JobOf(x) \in Jobs
      /\ Item(x) \in Items /\ store \in [Jobs -> Items] /\ Item(x).attempts \in Nat
  BY TypeUnfold DEF Increment, Calls, Item, Items
<1>1. c.fn = "PollJob"
  BY <1>0 DEF TypeInv, CallsOK, Ops, Calls, TaskStates
<1>a. PICK n \in Nat : n = Item(x).attempts + 1
  BY <1>0
<1>2. PICK d : d = [c EXCEPT !.at = "progress", !.attempt = n]
  OBVIOUS
<1>3. PICK item : item = [Item(x) EXCEPT !.attempts = @ + 1]
  OBVIOUS
<1>4. /\ d \in Calls /\ d.of = c.of /\ d.no = c.no /\ d.fn = c.fn /\ d.at = "progress"
      /\ d.at \in Ops(c.fn) /\ d.spec = c.spec /\ d.attempt = Item(x).attempts + 1
  BY <1>0, <1>1, <1>a, <1>2 DEF Calls, Steps, Ops
<1>5. /\ item \in Items /\ item.attempts = Item(x).attempts + 1
      /\ item.spec = Item(x).spec /\ item.status = Item(x).status /\ item.token = Item(x).token
  BY <1>0, <1>3 DEF Items
<1>6. Continues(c, d, item)
  BY <1>0, <1>a, <1>2, <1>3, <1>4, <1>5 DEF Continues, Increment, Put, Item
<1>7. CountsOn(c, d, item)
  BY <1>0, <1>4, <1>5 DEF CountsOn
<1>8. /\ Item(x)' = item
      /\ calls' = (calls \ {c}) \cup {d} /\ UNCHANGED <<pc, awaiting, job>>
      /\ \A b : Awaited(b)' <=> Awaited(b)
      /\ Awaited(d) <=> Awaited(c)
      /\ UNCHANGED <<input, elapsed, abandoned, faults>>
  BY <1>6, GoOnStep DEF Continues
<1>9. ASSUME Good(x) PROVE Known(x)' /\ Tokened(x)' /\ Written(x)'
  <2>1. Asked(x)' = Asked(x)
    BY <1>8 DEF Asked
  <2>2. Known(x)'
    BY <1>0, <1>4, <1>5, <1>8, <1>9, <2>1 DEF Good, Tracks, Known, Counted
  <2>3. Tokened(x)'
    BY <1>0, <1>5, <1>8, <1>9 DEF Good, Tracks, Tokened
  <2>4. Written(x)'
    BY <1>4, <1>5, <1>8, <1>9 DEF Good, Tracks, Written
  <2> QED
    BY <2>2, <2>3, <2>4
<1> QED
  BY <1>0, <1>4, <1>6, <1>7, <1>9, ContinuesOK

LEMMA UpdateProgressOK ==
  ASSUME TypeInv, NEW c \in calls, UpdateProgress(c)
  PROVE  TypeInv' /\ Preserves(c.of)
<1> DEFINE x == c.of
<1>0. /\ c \in Calls /\ x \in Execs /\ c.at = "progress" /\ JobOf(x) \in Jobs
      /\ Item(x) \in Items /\ store \in [Jobs -> Items] /\ Item(x).attempts \in Nat
      /\ StatusAt(c) \in Statuses
  BY TypeUnfold DEF UpdateProgress, Calls, Item, Items, StatusAt, Statuses
<1>1. c.fn = "PollJob"
  BY <1>0 DEF TypeInv, CallsOK, Ops, Calls, TaskStates
<1>2. PICK d : d = [c EXCEPT !.at = "reply"]
  OBVIOUS
<1>3. PICK item : item = [Item(x) EXCEPT !.status = StatusAt(c)]
  OBVIOUS
<1>4. /\ d \in Calls /\ d.of = c.of /\ d.no = c.no /\ d.fn = c.fn /\ d.at = "reply"
      /\ d.at \in Ops(c.fn) /\ d.spec = c.spec /\ d.attempt = c.attempt
  BY <1>0, <1>1, <1>2 DEF Calls, Steps, Ops
<1>5. /\ item \in Items /\ item.attempts = Item(x).attempts
      /\ item.spec = Item(x).spec /\ item.status = StatusAt(c) /\ item.token = Item(x).token
  BY <1>0, <1>3 DEF Items
<1>6. Continues(c, d, item)
  BY <1>0, <1>2, <1>3, <1>4, <1>5 DEF Continues, UpdateProgress, Put, Item
<1>7. Counted(c) /\ CountsOn(c, d, item)
  BY <1>0, <1>1, <1>4, <1>5 DEF CountsOn, Counted
<1>8. /\ Item(x)' = item
      /\ calls' = (calls \ {c}) \cup {d} /\ UNCHANGED <<pc, awaiting, job>>
      /\ \A b : Awaited(b)' <=> Awaited(b)
      /\ Awaited(d) <=> Awaited(c)
      /\ Awaited(c) => c.fn = pc[c.of] /\ \A b \in calls : b.of = c.of /\ Awaited(b) => b = c
      /\ UNCHANGED <<input, elapsed, abandoned, faults>>
  BY <1>6, GoOnStep DEF Continues
<1>9. ASSUME Good(x) PROVE Known(x)' /\ Tokened(x)' /\ Written(x)'
  <2>1. Asked(x)' = Asked(x)
    BY <1>8 DEF Asked
  <2>2. Known(x)'
    BY <1>4, <1>5, <1>7, <1>8, <1>9, <2>1 DEF Good, Tracks, Known, Counted
  <2>3. Tokened(x)'
    BY <1>0, <1>5, <1>8, <1>9 DEF Good, Tracks, Tokened
  <2>4. Written(x)'
    <3> SUFFICES ASSUME abandoned[x] = {} PROVE Written(x)'
      BY <1>8 DEF Written
    <3>1. pc[x] = "PollJob" /\ \A b \in calls' : b.of = x /\ Awaited(b) => b = d
      BY <1>1, <1>8, <1>9, Unowned DEF Good, Tracks
    <3>2. StatusAt(d) = StatusAt(c)
      BY <1>4 DEF StatusAt
    <3> QED
      BY <1>1, <1>4, <1>5, <1>8, <3>1, <3>2 DEF Written, StatusAt
  <2> QED
    BY <2>2, <2>3, <2>4
<1> QED
  BY <1>0, <1>4, <1>6, <1>7, <1>9, ContinuesOK

LEMMA AttachTokenOK ==
  ASSUME TypeInv, NEW c \in calls, AttachToken(c)
  PROVE  TypeInv' /\ Preserves(c.of)
<1> DEFINE x == c.of
<1>0. /\ c \in Calls /\ x \in Execs /\ c.at = "attach" /\ JobOf(x) \in Jobs
      /\ Item(x) \in Items /\ store \in [Jobs -> Items] /\ Item(x).attempts \in Nat
  BY TypeUnfold DEF AttachToken, Calls, Item, Items
<1>1. c.fn = "RequestSignoff"
  BY <1>0 DEF TypeInv, CallsOK, Ops, Calls, TaskStates
<1>2. PICK d : d = [c EXCEPT !.at = "reply"]
  OBVIOUS
<1>3. PICK item : item = [Item(x) EXCEPT !.token = x]
  OBVIOUS
<1>4. /\ d \in Calls /\ d.of = c.of /\ d.no = c.no /\ d.fn = c.fn /\ d.at = "reply"
      /\ d.at \in Ops(c.fn) /\ d.spec = c.spec /\ d.attempt = c.attempt
  BY <1>0, <1>1, <1>2 DEF Calls, Steps, Ops
<1>5. /\ item \in Items /\ item.attempts = Item(x).attempts
      /\ item.spec = Item(x).spec /\ item.status = Item(x).status /\ item.token = x
  BY <1>0, <1>3 DEF Items
<1>6. Continues(c, d, item)
  BY <1>0, <1>2, <1>3, <1>4, <1>5 DEF Continues, AttachToken, Put, Item
<1>7. CountsOn(c, d, item)
  BY <1>0, <1>1, <1>4, <1>5 DEF CountsOn, Counted
<1>8. /\ Item(x)' = item
      /\ calls' = (calls \ {c}) \cup {d} /\ UNCHANGED <<pc, awaiting, job>>
      /\ \A b : Awaited(b)' <=> Awaited(b)
      /\ UNCHANGED <<input, elapsed, abandoned, faults>>
  BY <1>6, GoOnStep DEF Continues
<1>9. ASSUME Good(x) PROVE Known(x)' /\ Tokened(x)' /\ Written(x)'
  <2>1. Asked(x)' = Asked(x)
    BY <1>8 DEF Asked
  <2>2. Known(x)'
    BY <1>1, <1>4, <1>5, <1>8, <1>9, <2>1 DEF Good, Tracks, Known, Counted
  <2>3. Tokened(x)'
    BY <1>5, <1>8 DEF Tokened
  <2>4. Written(x)'
    BY <1>1, <1>4, <1>5, <1>8, <1>9 DEF Good, Tracks, Written
  <2> QED
    BY <2>2, <2>3, <2>4
<1> QED
  BY <1>0, <1>4, <1>6, <1>7, <1>9, ContinuesOK

LEMMA CompleteOK ==
  ASSUME TypeInv, NEW c \in calls, Complete(c)
  PROVE  TypeInv' /\ Preserves(c.of)
<1> DEFINE x == c.of
<1>0. /\ c \in Calls /\ x \in Execs /\ c.at = "complete" /\ JobOf(x) \in Jobs
      /\ Item(x) \in Items /\ store \in [Jobs -> Items] /\ Item(x).attempts \in Nat
  BY TypeUnfold DEF Complete, Calls, Item, Items
<1>1. c.fn = "Finalize"
  BY <1>0 DEF TypeInv, CallsOK, Ops, Calls, TaskStates
<1>2. PICK d : d = [c EXCEPT !.at = "reply"]
  OBVIOUS
<1>3. PICK item : item = [Item(x) EXCEPT !.status = "COMPLETED"]
  OBVIOUS
<1>4. /\ d \in Calls /\ d.of = c.of /\ d.no = c.no /\ d.fn = c.fn /\ d.at = "reply"
      /\ d.at \in Ops(c.fn) /\ d.spec = c.spec /\ d.attempt = c.attempt
  BY <1>0, <1>1, <1>2 DEF Calls, Steps, Ops
<1>5. /\ item \in Items /\ item.attempts = Item(x).attempts
      /\ item.spec = Item(x).spec /\ item.status = "COMPLETED" /\ item.token = Item(x).token
  BY <1>0, <1>3 DEF Items, Statuses
<1>6. Continues(c, d, item)
  BY <1>0, <1>2, <1>3, <1>4, <1>5 DEF Continues, Complete, Put, Item
<1>7. CountsOn(c, d, item)
  BY <1>0, <1>1, <1>4, <1>5 DEF CountsOn, Counted
<1>8. /\ Item(x)' = item
      /\ calls' = (calls \ {c}) \cup {d} /\ UNCHANGED <<pc, awaiting, job>>
      /\ \A b : Awaited(b)' <=> Awaited(b)
      /\ Awaited(c) => c.fn = pc[c.of] /\ \A b \in calls : b.of = c.of /\ Awaited(b) => b = c
      /\ UNCHANGED <<input, elapsed, abandoned, faults>>
  BY <1>6, GoOnStep DEF Continues
<1>9. ASSUME Good(x) PROVE Known(x)' /\ Tokened(x)' /\ Written(x)'
  <2>1. Asked(x)' = Asked(x)
    BY <1>8 DEF Asked
  <2>2. Known(x)'
    BY <1>1, <1>4, <1>5, <1>8, <1>9, <2>1 DEF Good, Tracks, Known, Counted
  <2>3. Tokened(x)'
    BY <1>0, <1>5, <1>8, <1>9 DEF Good, Tracks, Tokened
  <2>4. Written(x)'
    <3> SUFFICES ASSUME abandoned[x] = {} PROVE Written(x)'
      BY <1>8 DEF Written
    <3>1. pc[x] = "Finalize" /\ \A b \in calls' : b.of = x /\ Awaited(b) => b = d
      BY <1>1, <1>8, <1>9, Unowned DEF Good, Tracks
    <3> QED
      BY <1>1, <1>4, <1>5, <1>8, <3>1 DEF Written
  <2> QED
    BY <2>2, <2>3, <2>4
<1> QED
  BY <1>0, <1>4, <1>6, <1>7, <1>9, ContinuesOK

-----------------------------------------------------------------------------
(* The handler returns.                                                    *)

\* A job that runs on after the attempts counted so far is not done.
LEMMA RunsOn ==
  ASSUME TypeInv, NEW c \in calls, Known(c.of), Counted(c), StatusAt(c) = "RUNNING"
  PROVE  c.attempt < input[c.of].succeed_after /\ ~ input[c.of].fail_job
<1>1. /\ c \in Calls /\ c.attempt \in Nat /\ c.attempt >= 1 /\ c.spec \in {NoSpec, Asked(c.of)}
      /\ input[c.of] \in Inputs /\ input[c.of].succeed_after \in Int
      /\ input[c.of].fail_job \in BOOLEAN
  BY TypeUnfold, LongRunningAssumption DEF Known, Calls
<1>2. ~ c.spec.fail_job /\ ~ (c.attempt >= c.spec.succeed_after)
  BY DEF StatusAt
<1>3. c.spec = Asked(c.of)
  BY <1>1, <1>2 DEF NoSpec
<1>4. /\ c.spec.fail_job = input[c.of].fail_job
      /\ c.spec.succeed_after = IF input[c.of].succeed_after < 1 THEN 1 ELSE input[c.of].succeed_after
  BY <1>3 DEF Asked
<1> QED
  BY <1>1, <1>2, <1>4

LEMMA JobFromOK ==
  ASSUME TypeInv, NEW c \in calls
  PROVE  JobFrom(c) \in Reports
<1>1. c.attempt \in Nat /\ Backoff(c.attempt) \in 1 .. MaxWait /\ Backoff(0) \in 1 .. MaxWait
  BY TypeUnfold, BackoffBounded DEF Calls
<1>2. StatusAt(c) \in Statuses /\ Exhausted(c) \in BOOLEAN /\ "RUNNING" \in Statuses
  BY DEF StatusAt, Statuses, Exhausted
<1> QED
  BY <1>1, <1>2 DEF JobFrom, Submitted, Reports

\* What no execution waits for changes nothing when it returns.
LEMMA ReplyUnheard ==
  ASSUME TypeInv, NEW c \in calls, Reply(c), UNCHANGED execVars,
         Awaited(c) => c.fn = "RequestSignoff"
  PROVE  TypeInv' /\ Preserves(c.of)
<1>0. /\ ControlOK /\ c \in Calls /\ c.of \in Execs /\ faults \in Nat
      /\ calls' = calls \ {c} /\ c.at = "reply"
      /\ UNCHANGED <<input, invoked, elapsed, store, abandoned, faults>>
      /\ UNCHANGED <<pc, tries, awaiting, job>>
  BY TypeUnfold DEF Calls, Reply, execVars
<1>1. ControlOK' /\ KeepsWaiting
  BY <1>0 DEF ControlOK, KeepsWaiting
<1>2. TypeInv'
  BY <1>0, <1>1, CallsKept, TypeUnfold, TypeFold
<1>3. StepOf(c.of)
  BY <1>0 DEF StepOf
<1>4. Late(c.of)' \subseteq Late(c.of)
  BY <1>0 DEF Late, Awaited
<1>5. Fades(c.of)
  BY <1>0, <1>4, LateKept DEF Fades, Item, JobOf, Awaited
<1> QED
  BY <1>0, <1>2, <1>3, <1>5, FadingStep

LEMMA ReplyOK ==
  ASSUME TypeInv, NEW c \in calls, Reply(c)
  PROVE  TypeInv' /\ Preserves(c.of)
<1> PICK x : x = c.of
  OBVIOUS
<1>0. /\ ControlOK /\ CallsOK /\ c \in Calls /\ x \in Execs /\ c.of = x /\ faults \in Nat
      /\ calls' = calls \ {c} /\ c.at = "reply" /\ c.fn \in TaskStates
      /\ UNCHANGED <<input, invoked, elapsed, store, abandoned, faults>>
      /\ \A b \in calls : b \in Calls /\ b.no # 0 /\ b.of \in Execs
      /\ MaxPolls \in Nat \ {0} /\ elapsed[x] \in Nat
      /\ Item(x).attempts \in Nat /\ c.attempt \in Nat
  BY TypeUnfold, LongRunningAssumption DEF Calls, Reply, CallsOK, Item, Items
<1>1. CASE ~ (Awaited(c) /\ c.fn # "RequestSignoff")
  <2>1. UNCHANGED execVars
    BY <1>1 DEF Reply
  <2> QED
    BY <1>1, <2>1, ReplyUnheard
<1>2. CASE Awaited(c) /\ c.fn # "RequestSignoff"
  <2>0. c.fn \in {"SubmitJob", "PollJob", "Finalize"}
    BY <1>0, <1>2 DEF TaskStates
  <2> PICK s \in {"WaitForJob", "EvaluateJob", "Completed"} : s = NextState(c.fn)
    BY <2>0 DEF NextState
  <2>1. /\ s \in States
        /\ c.fn = "SubmitJob" => s = "WaitForJob"
        /\ c.fn = "PollJob" => s = "EvaluateJob"
        /\ c.fn = "Finalize" => s = "Completed"
    BY DEF NextState, States, Terminals
  <2>2. /\ Enter(x, s)
        /\ job' = IF c.fn = "Finalize" THEN job ELSE [job EXCEPT ![x] = JobFrom(c)]
    BY <1>0, <1>2 DEF Reply
  <2>3. job' = job \/ job' \in [Execs -> Reports]
    BY <1>0, <2>2, JobFromOK DEF ControlOK, Reports
  <2>4. ControlOK' /\ KeepsWaiting
    BY <1>0, <2>1, <2>2, <2>3, EnterOK
  <2>5. TypeInv'
    BY <1>0, <2>4, CallsKept, TypeUnfold, TypeFold
  <2>6. StepOf(x)
    BY <1>0, <2>2 DEF StepOf, Enter, ControlOK
  <2>7. /\ pc'[x] = s /\ awaiting'[x] = 0 /\ pc[x] = c.fn
        /\ \A b \in calls' : b \in calls /\ b # c
        /\ \A b \in calls : b.of = x => ~ Awaited(b)' /\ (Awaited(b) => b = c)
    BY <1>0, <1>2, <2>2 DEF Enter, ControlOK, Awaited, CallsOK
  <2>8. /\ c.fn = "Finalize" => job'[x] = job[x]
        /\ c.fn # "Finalize" => job'[x] = JobFrom(c)
    BY <1>0, <2>2 DEF ControlOK
  <2>9. Late(x)' = Late(x)
    BY <1>0, <2>7 DEF Late
  <2>10. Item(x)' = Item(x) /\ Asked(x)' = Asked(x)
    BY <1>0 DEF Item, JobOf, Asked
  <2>11. c.fn = "PollJob" => Counted(c)
    BY <1>0 DEF Counted
  <2>12. c.fn = "SubmitJob" => job'[x] = Submitted
    BY <2>8 DEF JobFrom
  <2>13. c.fn = "PollJob" => /\ job'[x].status = StatusAt(c) /\ job'[x].attempt = c.attempt
                             /\ job'[x].exhausted <=> Exhausted(c)
    BY <2>8 DEF JobFrom
  <2>14. ASSUME Good(x) PROVE Tracks(x)'
    <3>1. Owned(x)'
      BY <1>0, <2>7, <2>14 DEF Good, Tracks, Owned
    <3>2. Known(x)'
      BY <1>0, <2>7, <2>10, <2>14 DEF Good, Tracks, Known, Counted
    <3>3. Judged(x)'
      <4>1. CASE c.fn = "SubmitJob"
        BY <1>0, <2>1, <2>7, <2>12, <4>1 DEF Judged, Submitted
      <4>2. CASE c.fn = "PollJob"
        <5>1. StatusAt(c) \in {"RUNNING", "SUCCEEDED", "FAILED"}
          BY DEF StatusAt
        <5>2. StatusAt(c) = "RUNNING" => NotDone(x)'
          BY <1>0, <2>11, <2>13, <2>14, <4>2, RunsOn DEF Good, Tracks, NotDone
        <5> QED
          BY <2>1, <2>7, <2>13, <4>2, <5>1, <5>2 DEF Judged, Exhausted
      <4>3. CASE c.fn = "Finalize"
        BY <1>0, <2>1, <2>7, <2>8, <2>14, <4>3 DEF Good, Tracks, Judged
      <4> QED
        BY <2>0, <4>1, <4>2, <4>3
    <3>4. Counts(x)'
      <4> SUFFICES ASSUME "SubmitJob" \notin abandoned[x]
                   PROVE  Item(x).attempts >= job'[x].attempt
        BY <1>0, <2>7, <2>10 DEF Counts
      <4>1. CASE c.fn = "SubmitJob"
        BY <1>0, <2>12, <4>1 DEF Submitted
      <4>2. CASE c.fn = "PollJob"
        BY <1>0, <1>2, <2>7, <2>11, <2>13, <2>14, <4>2 DEF Good, Tracks, Counts
      <4>3. CASE c.fn = "Finalize"
        BY <2>7, <2>8, <2>14, <4>3 DEF Good, Tracks, Counts
      <4> QED
        BY <2>0, <4>1, <4>2, <4>3
    <3>5. Tokened(x)'
      BY <2>7 DEF Tokened
    <3>6. Written(x)'
      <4>1. c.fn = "PollJob" /\ abandoned[x] = {} => Item(x).status = StatusAt(c)
        BY <1>0, <1>2, <2>14 DEF Good, Tracks, Written
      <4>2. c.fn = "Finalize" /\ abandoned[x] = {} => Item(x).status = "COMPLETED"
        BY <1>0, <1>2, <2>14 DEF Good, Tracks, Written
      <4> QED
        BY <1>0, <2>0, <2>1, <2>7, <2>10, <2>13, <4>1, <4>2 DEF Written
    <3> QED
      BY <3>1, <3>2, <3>3, <3>4, <3>5, <3>6 DEF Tracks
  <2>15. ASSUME Good(x), BudgetFits PROVE InTime(x)'
    <3>1. InTime(x)
      BY <2>15 DEF Good
    <3>2. CASE c.fn = "SubmitJob"
      <4>1. elapsed[x] = 0 /\ Cardinality(Late(x)) <= faults
        BY <2>7, <3>1, <3>2 DEF InTime
      <4>2. Cardinality(Late(x)) * Round <= faults * Round
        <5>1. Cardinality(Late(x)) \in Nat /\ Round \in Nat
          BY <1>0, LateFinite, LongRunningAssumption DEF Round
        <5> HIDE DEF Round
        <5> QED
          BY <1>0, <4>1, <5>1
      <4>3. elapsed[x] + Cardinality(Late(x)) * Round <= faults * Round + 0 * MaxWait
        <5>1. /\ Cardinality(Late(x)) * Round \in Nat /\ faults * Round \in Nat
              /\ 0 * MaxWait = 0
          BY <1>0, LateFinite, LongRunningAssumption DEF Round
        <5> HIDE DEF Round
        <5> QED
          BY <4>1, <4>2, <5>1
      <4>4. Waited(x, 0)'
        BY <1>0, <2>1, <2>7, <2>9, <2>10, <2>12, <3>2, <4>3 DEF Waited, Submitted
      <4> QED
        BY <1>0, <2>1, <2>7, <2>9, <3>1, <3>2, <4>4 DEF InTime
    <3>3. CASE c.fn # "SubmitJob"
      <4>1. PICK w \in 0 .. MaxPolls : Waited(x, w)
        BY <2>7, <3>1, <3>3 DEF InTime
      <4>2. c.fn = "PollJob" => w <= c.attempt /\ w <= Item(x).attempts
        BY <1>0, <1>2, <2>7, <2>11, <4>1 DEF Waited
      <4>3. Waited(x, w)'
        BY <1>0, <2>0, <2>1, <2>7, <2>9, <2>10, <2>13, <3>3, <4>1, <4>2 DEF Waited
      <4> QED
        BY <1>0, <2>7, <2>9, <3>1, <3>3, <4>3 DEF InTime
    <3> QED
      BY <3>2, <3>3
  <2> QED
    BY <1>0, <2>5, <2>6, <2>14, <2>15, OnlyOne DEF Preserves, Good, BudgetFits
<1> QED
  BY <1>1, <1>2

-----------------------------------------------------------------------------
(* The inductive invariant.                                                *)

LEMMA InitOK == Init => IInv
<1> SUFFICES ASSUME Init PROVE IInv
  OBVIOUS
<1>0. /\ MaxPolls \in Nat \ {0} /\ MaxWait \in Nat /\ MaxFaults \in Nat /\ Deadline \in Nat
      /\ Budget \in [{"service", "all"} -> Nat]
      /\ Backoff(0) \in 1 .. MaxWait
  BY LongRunningAssumption, BackoffBounded
<1>1. Submitted \in Reports /\ NoItem \in Items
  BY <1>0 DEF Submitted, Reports, Statuses, NoItem, NoSpec, Items, Specs
<1>2. TypeOK
  BY <1>0, <1>1, RetriesBounded DEF Init, TypeOK, States, TaskStates, Reports
<1>3. CallsOK
  BY FS_EmptySet DEF Init, CallsOK
<1>4. ASSUME NEW x \in Execs PROVE Good(x)
  <2>1. JobOf(x) \in Jobs
    BY <1>2, TypeUnfold, <1>3 DEF TypeInv
  <2>2. /\ calls = {} /\ awaiting[x] = 0 /\ pc[x] = "SubmitJob" /\ job[x] = Submitted
        /\ elapsed[x] = 0 /\ faults = 0 /\ Item(x) = NoItem
    BY <2>1 DEF Init, Item
  <2>3. Owned(x) /\ Known(x) /\ Counts(x) /\ Tokened(x)
    BY <2>2 DEF Owned, Known, Counts, Tokened, NoItem
  <2>4. Judged(x) /\ Written(x)
    BY <1>0, <2>2 DEF Judged, Written, Submitted
  <2>5. Late(x) = {}
    BY <2>2 DEF Late
  <2>6. InTime(x)
    BY <2>2, <2>5, FS_EmptySet DEF InTime
  <2> QED
    BY <2>3, <2>4, <2>6 DEF Good, Tracks
<1> QED
  BY <1>2, <1>3, <1>4 DEF IInv, TypeInv

\* The inputs are what they were.
LEMMA SameInputs ==
  ASSUME Next
  PROVE  UNCHANGED input
BY DEF Next, Invoke, WaitForJob, EvaluateJob, TimeOut, Throttle, Lose, SignOff, Run, Reject,
       Create, Get, Increment, UpdateProgress, AttachToken, Complete, Reply, Crash

LEMMA RunOK ==
  ASSUME TypeInv, NEW c \in calls, Run(c)
  PROVE  TypeInv' /\ Preserves(c.of)
BY RejectOK, CreateOK, GetOK, IncrementOK, UpdateProgressOK, AttachTokenOK, CompleteOK, ReplyOK
   DEF Run

LEMMA NextOK ==
  ASSUME TypeInv, Next
  PROVE  TypeInv' /\ \E y : Preserves(y)
<1>1. CASE \E x \in Execs : \/ Invoke(x) \/ WaitForJob(x) \/ EvaluateJob(x) \/ TimeOut(x)
                            \/ Throttle(x) \/ Lose(x)
  BY <1>1, InvokeOK, WaitForJobOK, EvaluateJobOK, TimeOutOK, ThrottleOK, LoseOK
<1>2. CASE \E j \in Jobs, approved \in BOOLEAN : SignOff(j, approved)
  BY <1>2, SignOffOK
<1>3. CASE \E c \in calls : Run(c) \/ Crash(c)
  BY <1>3, RunOK, CrashOK
<1> QED
  BY <1>1, <1>2, <1>3 DEF Next

LEMMA StutterOK ==
  ASSUME IInv, UNCHANGED vars
  PROVE  IInv'
<1>0. UNCHANGED <<input, pc, tries, awaiting, job, invoked, elapsed, calls, store, abandoned, faults>>
  BY DEF vars, execVars
<1>1. TypeOK' /\ CallsOK'
  BY <1>0 DEF IInv, TypeInv, TypeOK, CallsOK, Awaited
<1>2. \A x \in Execs : Tracks(x) => Tracks(x)'
  BY <1>0 DEF Tracks, Owned, Known, Judged, Counts, Tokened, Written, NotDone, Asked, Item,
              JobOf, Awaited
<1>3. \A x \in Execs : Late(x)' = Late(x)
  BY <1>0 DEF Late, Awaited
<1>4. \A x \in Execs : InTime(x) => InTime(x)'
  BY <1>0, <1>3 DEF InTime, Waited, Awaited, Item, JobOf
<1>5. DistinctJobs' => DistinctJobs
  BY <1>0 DEF DistinctJobs, JobOf
<1> QED
  BY <1>1, <1>2, <1>4, <1>5 DEF IInv, TypeInv, Good, BudgetFits

\* IInv holds in every state of every behaviour.
THEOREM Invariance == Spec => []IInv
<1>1. IInv /\ [Next]_vars => IInv'
  <2> SUFFICES ASSUME IInv, [Next]_vars PROVE IInv'
    OBVIOUS
  <2>1. CASE Next
    <3>1. TypeInv' /\ \E y : Preserves(y)
      BY <2>1, NextOK DEF IInv
    <3>2. DistinctJobs' => DistinctJobs
      BY <2>1, SameInputs DEF DistinctJobs, JobOf
    <3> QED
      BY <3>1, <3>2 DEF IInv, Preserves
  <2> QED
    BY <2>1, StutterOK
<1> QED
  BY <1>1, InitOK, PTL DEF Spec

-----------------------------------------------------------------------------
(* What follows from it.                                                   *)

\* Every variable has its type and no state is retried beyond its Retry entry,
\* whatever the jobs the executions share.
THEOREM TypeCorrect == Spec => []TypeOK
<1>1. IInv => TypeOK
  BY DEF IInv, TypeInv
<1> QED
  BY <1>1, Invariance, PTL

\* EvaluateJob gives up on a job exactly when its poll budget is used up and the
\* job has not come as far as it had to, whatever was lost, retried or delayed.
THEOREM BudgetIsExact == Spec => [](DistinctJobs => BudgetEndsPolling)
<1>1. IInv => (DistinctJobs => BudgetEndsPolling)
  BY DEF IInv, Good, Tracks, Judged, NotDone, BudgetEndsPolling
<1> QED
  BY <1>1, Invariance, PTL

\* With jobs of their own, the token an operator reads in the item of an execution
\* that waits for sign-off resumes it, unless one of its submissions was left
\* running; and the item's status keeps up, unless any invocation of its was.
THEOREM ItemKeepsUp == Spec => [](DistinctJobs => ItemFollowsExecution)
<1> SUFFICES ASSUME IInv, DistinctJobs PROVE ItemFollowsExecution
  BY Invariance, PTL
<1> SUFFICES ASSUME NEW x \in Execs PROVE TokenResumes(x) /\ StatusFollows(x)
  BY DEF ItemFollowsExecution
<1>1. Good(x)
  BY DEF IInv
<1>2. TokenResumes(x)
  BY <1>1 DEF Good, Tracks, Tokened, TokenResumes, Waiting, Item
<1>3. StatusFollows(x)
  BY <1>1 DEF Good, Tracks, Written, StatusFollows, Item
<1> QED
  BY <1>2, <1>3

\* With the waits the poll budget allows for, for the first submission and for
\* each lost one, and the sign-off gate within TimeoutSeconds, no execution is
\* timed out.
THEOREM DeadlineIsSpare == Spec => [](DistinctJobs /\ BudgetFits => BudgetBeforeDeadline)
<1>1. IInv => (DistinctJobs /\ BudgetFits => BudgetBeforeDeadline)
  BY DEF IInv, Good, InTime, BudgetBeforeDeadline
<1> QED
  BY <1>1, Invariance, PTL

\* What an execution hears of its job's attempts only grows.
THEOREM PollsOnlyCountUp == Spec /\ []DistinctJobs => PollsCountUp
<1> DEFINE Later(x) == job'[x] # job[x] /\ "SubmitJob" \notin abandoned[x]
                         => job'[x].attempt > job[x].attempt \/ pc[x] = "SubmitJob"
<1>1. ASSUME IInv, DistinctJobs, Next, NEW x \in Execs, job'[x] # job[x],
             "SubmitJob" \notin abandoned[x], pc[x] # "SubmitJob"
      PROVE  job'[x].attempt > job[x].attempt
  <2>1. PICK c \in calls : Reply(c) /\ Awaited(c) /\ c.fn \notin {"RequestSignoff", "Finalize"}
    BY <1>1 DEF Next, Invoke, WaitForJob, EvaluateJob, TimeOut, Throttle, Lose, SignOff, Run, Reject,
                Create, Get, Increment, UpdateProgress, AttachToken, Complete, Reply, Crash,
                Raise, GoOn, OnError, execVars
  <2>2. /\ c \in Calls /\ c.of \in Execs /\ c.fn = pc[c.of] /\ ControlOK /\ c.at = "reply"
        /\ c.fn \in TaskStates
        /\ c.attempt \in Nat /\ job[x].attempt \in Nat
    BY <1>1, <2>1, TypeUnfold DEF IInv, Calls, CallsOK, ControlOK, Reply
  <2>3. job' = [job EXCEPT ![c.of] = JobFrom(c)]
    BY <2>1 DEF Reply
  <2>4. c.of = x /\ job'[x] = JobFrom(c)
    BY <1>1, <2>2, <2>3 DEF ControlOK
  <2>5. c.fn = "PollJob"
    BY <1>1, <2>1, <2>2, <2>4 DEF TaskStates
  <2>6. job[x].attempt < c.attempt
    BY <1>1, <2>1, <2>2, <2>4, <2>5 DEF IInv, Good, Tracks, Counts, Counted
  <2> QED
    BY <2>2, <2>4, <2>5, <2>6 DEF JobFrom
<1>2. IInv /\ DistinctJobs /\ [Next]_vars => [\A x \in Execs : Later(x)]_vars
  BY <1>1
<1> QED
  BY <1>2, Invariance, PTL DEF Spec, PollsCountUp
=============================================================================
