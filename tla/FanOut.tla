------------------------------- MODULE FanOut --------------------------------
(***************************************************************************)
(* The fan-out pattern (patterns/fan-out): an SNS topic that copies every  *)
(* message to the queues of the consumers subscribed to it, each drained   *)
(* by a worker function of its own.                                        *)
(***************************************************************************)
EXTENDS FanOutPromise

CONSTANTS
  Subscribed,     \* copies the subscriptions' filter policies let through
  Poison,         \* copies whose consumer's process_record always raises
  Misnamed        \* consumers whose handler names no function of the module

ASSUME FanOutAssumption ==
  /\ Subscribed \subseteq Copies /\ Poison \subseteq Copies
  /\ Unparsed \subseteq Messages
  /\ Misnamed \subseteq Queues

VARIABLE published      \* messages the producers have published

vars == <<at, receives, hidden, job, faults, published, processed>>

Init ==
  /\ SqsInit
  /\ published = {}
  /\ processed = [c \in Copies |-> 0]

-----------------------------------------------------------------------------
(* The topic.  A definition named X_Y is X with the bug Y.                 *)

\* SNS accepts the message and owes a copy to every subscription that wants it.
Publish(m) ==
  /\ m \notin published
  /\ published' = published \cup {m}
  /\ at' = [c \in Copies |-> IF c \in Subscribed /\ c[2] = m THEN "topic" ELSE at[c]]
  /\ UNCHANGED <<receives, hidden, job, faults, processed>>

\* A raw delivery to the consumer's queue.
Deliver(c) ==
  /\ Move(c, "topic", "queue")
  /\ UNCHANGED <<receives, hidden, job, faults, published, processed>>

\* SNS gives up on a delivery: the subscription's redrive policy.
DeliveryFails(c) ==
  /\ Fault("delivery")
  /\ Move(c, "topic", "dlq")
  /\ UNCHANGED <<receives, hidden, job, published, processed>>

-----------------------------------------------------------------------------
(* The worker.                                                             *)

\* process_record returns.
Process(e, c) ==
  /\ e[1] \notin Misnamed /\ c \notin Poison /\ c[2] \notin Unparsed
  /\ Handled(e, c, TRUE)
  /\ processed' = [processed EXCEPT ![c] = @ + 1]
  /\ UNCHANGED <<at, receives, hidden, faults, published>>

\* An unparseable body: skipped, and so acknowledged.
Skip(e, c) ==
  /\ e[1] \notin Misnamed /\ c[2] \in Unparsed
  /\ Handled(e, c, TRUE)
  /\ UNCHANGED <<at, receives, hidden, faults, published, processed>>

FailRecord_Crashes(e, c) ==
  /\ e[1] \notin Misnamed /\ c[2] \notin Unparsed
  /\ c \in job[e].todo /\ FailBatch(e)
  /\ UNCHANGED <<published, processed>>
FailRecord_Unreported(e, c) ==
  /\ e[1] \notin Misnamed /\ c[2] \notin Unparsed
  /\ Handled(e, c, TRUE)
  /\ UNCHANGED <<at, receives, hidden, published, processed>>
\* process_record raises: the record is reported.
FailRecord(e, c) ==
  /\ e[1] \notin Misnamed /\ c[2] \notin Unparsed
  /\ Handled(e, c, FALSE)
  /\ UNCHANGED <<at, receives, hidden, published, processed>>

Reject(e, c) == c \in Poison /\ FailRecord(e, c) /\ UNCHANGED faults
Downstream(e, c) == Fault("downstream") /\ FailRecord(e, c)

\* Runtime.HandlerNotFound: no invocation gets as far as the first record.
NoHandler(e) ==
  /\ e[1] \in Misnamed
  /\ FailBatch(e)
  /\ UNCHANGED <<faults, published, processed>>

Handle(e) == \/ \E c \in job[e].todo : Process(e, c) \/ Skip(e, c) \/ Reject(e, c)
             \/ Respond(e) /\ UNCHANGED <<published, processed>>
             \/ NoHandler(e)
Disturb(e) == \/ \E c \in job[e].todo : Downstream(e, c)
              \/ Crash(e) /\ UNCHANGED <<published, processed>>
Aws(c) == Deliver(c) \/ (Sqs(c) /\ UNCHANGED <<published, processed>>)

Next == \/ \E m \in Messages : Publish(m)
        \/ \E c \in Copies : Aws(c) \/ DeliveryFails(c)
        \/ \E e \in Envs : Handle(e) \/ Disturb(e)

\* SNS and SQS deliver, and an invocation runs on or dies.  Every consumer has
\* a function of its own, and its own fairness.
Fairness == /\ \A c \in Copies : WF_vars(Aws(c))
            /\ \A e \in Envs : WF_vars(Handle(e))

Spec == Init /\ [][Next]_vars /\ Fairness

-----------------------------------------------------------------------------
\* Every published message takes effect at every consumer subscribed to it,
\* although the worker of another consumer fails on it or on everything, and other
\* records of the batch do, unless faults alone kept it from being delivered or used
\* up its receives; what a consumer cannot process ends in its dead-letter queue.
EveryConsumerGetsIt ==
  \A c \in Subscribed : c[2] \in published ~>
    IF c[1] \in Misnamed \/ (c \in Poison /\ c[2] \notin Unparsed) THEN at[c] = "dlq"
    ELSE \/ at[c] = "deleted"
         \/ at[c] = "dlq" /\ (receives[c] = 0 \/ faults >= MaxReceiveCount)

\* A subscribed consumer processes every message that is in order: its function is
\* "the Lambda entry point for the SQS event source mapping".
ConsumersProcess ==
  \A c \in Subscribed \ Poison : c[2] \in published /\ c[2] \notin Unparsed ~>
    processed[c] > 0 \/ faults > 0
=============================================================================
