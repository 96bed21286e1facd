---------------------------- MODULE RetryBackoff -----------------------------
(***************************************************************************)
(* The retry-backoff processor (patterns/retry-backoff): a batch handler   *)
(* that hides each record it fails for a jittered, exponentially growing   *)
(* delay, while the rest of the batch is still being handled.              *)
(***************************************************************************)
EXTENDS Sqs, Powers

CONSTANTS
  Poison,       \* messages whose processing always raises
  Junk,         \* messages whose body is not JSON
  Base,         \* BACKOFF_BASE_SECONDS
  Cap           \* BACKOFF_MAX_SECONDS

ASSUME BackoffAssumption ==
  /\ Poison \subseteq Messages /\ Junk \subseteq Messages
  /\ Base \in Nat \ {0} /\ Cap \in Nat \ {0}

VARIABLES
  effects,      \* copy -> how often process_record has succeeded (ghost)
  waited,       \* copy -> seconds of backoff applied to it (ghost)
  crashed       \* copy -> crashes that undid the work on it (ghost)

vars == <<at, receives, hidden, job, faults, effects, waited, crashed>>

-----------------------------------------------------------------------------
(* compute_backoff_seconds.  A definition named X_Y is X with the bug Y.   *)

MaxVisibility == 43200  \* _SQS_MAX_VISIBILITY_SECONDS

Least(m, n) == IF m < n THEN m ELSE n
Exponent(attempt) == IF attempt <= 1 THEN 0 ELSE Least(attempt - 1, 30)
Bounded(seconds, cap) == Least(Least(cap, seconds), MaxVisibility)

\* The longest delay before the next attempt; the code draws from 0..Ceiling.
Ceiling(attempt, base, cap) == Bounded(base * Power2[Exponent(attempt)], cap)

-----------------------------------------------------------------------------
Init ==
  /\ SqsInit
  /\ effects = [c \in Copies |-> 0]
  /\ waited = [c \in Copies |-> 0]
  /\ crashed = [c \in Copies |-> 0]

Send(c) == Move(c, "out", "queue") /\ UNCHANGED <<receives, hidden, job, faults>>

\* process_record returns.
Process(e, c) ==
  /\ c[2] \notin Poison \cup Junk
  /\ Handled(e, c, TRUE)
  /\ effects' = [effects EXCEPT ![c] = @ + 1]
  /\ UNCHANGED <<at, receives, hidden, faults, waited, crashed>>

\* An unparseable body: reported, so that it drains to the dead-letter queue,
\* and not backed off.
Unparseable_Skipped(e, c) ==
  /\ c[2] \in Junk
  /\ Handled(e, c, TRUE)
  /\ UNCHANGED <<at, receives, hidden, faults, effects, waited, crashed>>
Unparseable(e, c) ==
  /\ c[2] \in Junk
  /\ Handled(e, c, FALSE)
  /\ UNCHANGED <<at, receives, hidden, faults, effects, waited, crashed>>

\* ChangeMessageVisibility(delay), for all the records in S.
HideAll(S, delay) ==
  /\ hidden' = [c \in Copies |->
       IF c \notin S THEN hidden[c] ELSE IF delay = 0 THEN "no" ELSE "delay"]
  /\ waited' = [c \in Copies |-> waited[c] + IF c \in S THEN delay ELSE 0]

BackOff_WholeBatch(e, c) ==
  \E delay \in {0, Ceiling(receives[c], Base, Cap)} : HideAll({c} \cup job[e].todo, delay)
BackOff_NextAttempt(e, c) ==
  \E delay \in {0, Ceiling(receives[c] + 1, Base, Cap)} : HideAll({c}, delay)
\* _backoff_record: of the delays the jitter may draw, the two extremes.
BackOff(e, c) ==
  \E delay \in {0, Ceiling(receives[c], Base, Cap)} : HideAll({c}, delay)

FailRecord_Unreported(e, c) ==
  /\ c[2] \notin Junk
  /\ Handled(e, c, TRUE)
  /\ UNCHANGED <<at, receives, effects, crashed>>
\* process_record raises: the record is reported, and backed off if that works.
FailRecord(e, c) ==
  /\ c[2] \notin Junk
  /\ Handled(e, c, FALSE)
  /\ UNCHANGED <<at, receives, effects, crashed>>

Reject(e, c) ==
  c[2] \in Poison /\ FailRecord(e, c) /\ BackOff(e, c) /\ UNCHANGED faults

\* The downstream fails a record it would otherwise take.
Downstream(e, c) == Fault("downstream") /\ FailRecord(e, c) /\ BackOff(e, c)

KeepLease_FailsBatch(e, c) ==
  /\ Fault("visibility") /\ c[2] \notin Junk
  /\ FailBatch(e) /\ UNCHANGED <<effects, waited, crashed>>
\* ChangeMessageVisibility fails and is swallowed: the lease stays.  The record is
\* a poisonous one, or one the same outage made process_record fail.
KeepLease(e, c) ==
  /\ Fault("visibility")
  /\ FailRecord(e, c)
  /\ UNCHANGED <<hidden, waited>>

\* The invocation dies, and with it what it has not answered for.
Die(e) ==
  /\ Crash(e)
  /\ LET undone == job[e].batch \ (job[e].todo \cup job[e].failed)
     IN  crashed' = [c \in Copies |-> crashed[c] + IF c \in undone THEN 1 ELSE 0]
  /\ UNCHANGED <<effects, waited>>

Handle(e) ==
  \/ \E c \in job[e].todo : Process(e, c) \/ Unparseable(e, c) \/ Reject(e, c)
  \/ Respond(e) /\ UNCHANGED <<effects, waited, crashed>>
Disturb(e) == \/ \E c \in job[e].todo : Downstream(e, c) \/ KeepLease(e, c)
              \/ Die(e)

Deliver(c) == (Send(c) \/ Sqs(c)) /\ UNCHANGED <<effects, waited, crashed>>

Next == \/ \E c \in Copies : Deliver(c)
        \/ \E e \in Envs : Handle(e) \/ Disturb(e)

\* SQS delivers and redrives, time passes, and an invocation runs on or dies.
\* Nobody has to send anything.
Fairness == /\ \A c \in Copies : WF_vars(Sqs(c) /\ UNCHANGED <<effects, waited, crashed>>)
            /\ \A e \in Envs : WF_vars(Handle(e))

Spec == Init /\ [][Next]_vars /\ Fairness

-----------------------------------------------------------------------------
\* Every variable has its type.  A backed-off record is visible again while its
\* batch is still running, and may be in two invocations; but no two of them have
\* it still to handle.
TypeOK ==
  /\ SqsTypeOK
  /\ \A ghost \in {effects, waited, crashed} : ghost \in [Copies -> Nat]
  /\ \A e, f \in Envs : e # f => job[e].todo \cap job[f].todo = {}

\* What has become of each message, and which have taken effect.
Status == [c \in Copies |-> CASE at[c] = "out"     -> "absent"
                              [] at[c] = "deleted" -> "acknowledged"
                              [] at[c] = "dlq"     -> "dead"
                              [] OTHER             -> "pending"]
Effective == {c \in Copies : effects[c] > 0}

\* What the pattern promises of each message: nothing is dropped.
Contract == INSTANCE Delivery WITH
  Attempts <- MaxReceiveCount, Droppable <- {},
  status <- Status, attempts <- receives, effective <- Effective

\* No record is deleted before process_record returned for it, and none is
\* redriven before its last receive, through crashes, failed calls and backoffs
\* that end while the batch is still running.
ImplementsContract == Contract!Spec

\* Only a crash between the work and the response makes it happen again: not a
\* record of the batch that failed, not a visibility call that failed, and not a
\* backoff that is over before the batch is.
EffectsAreOnce == \A c \in Copies : effects[c] <= 1 + crashed[c]

\* The documented delays: Base, doubled with every attempt, up to the cap and to
\* what SQS allows; and what the first n of them add up to.
Limit(cap) == Least(cap, MaxVisibility)
Schedule(base, cap, last) ==
  LET s[n \in 1..last] == Least(IF n = 1 THEN base ELSE 2 * s[n - 1], Limit(cap)) IN s
Total(schedule, last) ==
  LET t[n \in 0..last] == IF n = 0 THEN 0 ELSE t[n - 1] + schedule[n] IN t[last]

\* However a record's attempts, crashes and lost visibility calls follow each
\* other, it has been held back no longer than the schedule says for the times
\* it was received.
WaitsFollowSchedule ==
  \A c \in Copies :
    waited[c] <= Total(Schedule(Base, Cap, MaxReceiveCount), receives[c])

\* Every message settles: poison and junk in the dead-letter queue, after all
\* its receives; a good one is done, unless faults alone use up its receives.
Settles ==
  \A c \in Copies : at[c] = "queue" ~>
    IF c[2] \in Poison \cup Junk THEN at[c] = "dlq"
    ELSE at[c] = "deleted" \/ (at[c] = "dlq" /\ faults >= MaxReceiveCount)
=============================================================================
