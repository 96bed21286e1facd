---------------------------- MODULE WebhookIngest ----------------------------
(***************************************************************************)
(* The webhook pattern (patterns/webhook-ingest): providers post signed    *)
(* events to an API that forwards them to a queue; a consumer verifies     *)
(* each with the signing key its environment has cached, and processes it. *)
(*                                                                         *)
(* A provider retries a post that is not accepted, so an event may be on   *)
(* the queue several times: a message is an event and the number of the    *)
(* post.                                                                   *)
(***************************************************************************)
EXTENDS WebhookPromise

CONSTANTS
  Events,
  Unproven,       \* messages that may carry a signature no key makes, or no JSON
  MaxRotations    \* how often the key is rotated

\* One queue, so that a message has one copy.
ASSUME WebhookAssumption ==
  /\ \A p, q \in Queues : p = q
  /\ Poison \subseteq Events
  /\ Messages \subseteq Events \X Nat /\ Unproven \subseteq Messages
  /\ MaxRotations \in Nat

hookVars == <<version, cached, signed, answer, taken>>
vars == <<at, receives, hidden, job, faults, hookVars>>

Init ==
  /\ SqsInit
  /\ version = 1
  /\ cached = [e \in Envs |-> 0]
  /\ signed = [m \in Messages |-> 0]
  /\ answer = [m \in Messages |-> "none"]
  /\ taken = [c \in Copies |-> 0]

-----------------------------------------------------------------------------
(* The API.  A definition named X_Y is X with the bug Y.                   *)

\* A post of an event, made when every earlier one was refused.
Posts(c, reply) ==
  /\ answer[c[2]] = "none" /\ at[c] = "out"
  /\ \A m \in Messages : m[1] = EventOf(c) /\ m[2] < c[2][2] => answer[m] = "error"
  /\ answer' = [answer EXCEPT ![c[2]] = reply]
  /\ \E key \in IF c[2] \in Unproven THEN {0, version} ELSE {version} :
       signed' = [signed EXCEPT ![c[2]] = key]
  /\ UNCHANGED <<receives, hidden, job, version, cached, taken>>

\* The integration response a reply of SendMessage selects: a 5xx has one of its
\* own, and everything else gets the default, the 202.
ReplyTo_Default(class) == "accepted"
ReplyTo(class) == IF class = "5xx" THEN "error" ELSE "accepted"

Post(c) == /\ Posts(c, ReplyTo("2xx"))
           /\ Move(c, "out", "queue")
           /\ UNCHANGED faults

\* SendMessage is refused, with a server error or with a client error.
Refused(c) == /\ \E class \in {"4xx", "5xx"} : Fault(class) /\ Posts(c, ReplyTo(class))
              /\ UNCHANGED at

\* The integration times out, with the message on the queue.
TimesOut(c) == /\ Fault("timeout")
               /\ Posts(c, "error")
               /\ Move(c, "out", "queue")

-----------------------------------------------------------------------------
(* The signing key.                                                        *)

Rotate ==
  /\ version <= MaxRotations
  /\ version' = version + 1
  /\ UNCHANGED <<at, receives, hidden, job, faults, cached, signed, answer, taken>>

\* _signing_key, before the first record: fetched once per environment.
FetchKey(e) ==
  /\ job[e] # Idle /\ cached[e] = 0
  /\ cached' = [cached EXCEPT ![e] = version]
  /\ UNCHANGED <<at, receives, hidden, job, faults, version, signed, answer, taken>>

NoKey_DropsBatch(e) ==
  /\ Fault("secrets")
  /\ job[e] # Idle /\ cached[e] = 0
  /\ job' = [job EXCEPT ![e].todo = {}]
  /\ UNCHANGED <<at, receives, hidden, hookVars>>
\* Secrets Manager fails: the exception leaves handle, and is not cached.
NoKey(e) ==
  /\ Fault("secrets")
  /\ cached[e] = 0
  /\ FailBatch(e)
  /\ UNCHANGED hookVars

\* The environment is replaced, and the cached key with it.
ColdStart(e) == /\ cached' = [cached EXCEPT ![e] = 0]
                /\ UNCHANGED <<version, signed, answer, taken>>
Recycle(e) == /\ job[e] = Idle /\ cached[e] # 0
              /\ ColdStart(e)
              /\ UNCHANGED sqsVars

-----------------------------------------------------------------------------
(* The consumer.                                                           *)

\* verify, with the key of this environment, and json.loads.
Verified(e, c) == signed[c[2]] # 0 /\ signed[c[2]] = cached[e]

\* process_event returns.
Process(e, c) ==
  /\ cached[e] # 0 /\ Verified(e, c) /\ EventOf(c) \notin Poison
  /\ Handled(e, c, TRUE)
  /\ taken' = [taken EXCEPT ![c] = @ + 1]
  /\ UNCHANGED <<at, receives, hidden, faults, version, cached, signed, answer>>

\* A signature that does not verify, or a body that is not JSON: acknowledged.
Drop(e, c) ==
  /\ cached[e] # 0 /\ ~ Verified(e, c)
  /\ Handled(e, c, TRUE)
  /\ UNCHANGED <<at, receives, hidden, faults, hookVars>>

FailRecord_Unreported(e, c) ==
  /\ cached[e] # 0 /\ Verified(e, c)
  /\ Handled(e, c, TRUE)
  /\ UNCHANGED <<at, receives, hidden, hookVars>>
\* process_event raises: the record is reported.
FailRecord(e, c) ==
  /\ cached[e] # 0 /\ Verified(e, c)
  /\ Handled(e, c, FALSE)
  /\ UNCHANGED <<at, receives, hidden, hookVars>>

Reject(e, c) == EventOf(c) \in Poison /\ FailRecord(e, c) /\ UNCHANGED faults
Downstream(e, c) == Fault("downstream") /\ FailRecord(e, c)

Handle(e) == \/ FetchKey(e)
             \/ \E c \in job[e].todo : Process(e, c) \/ Drop(e, c) \/ Reject(e, c)
             \/ Respond(e) /\ UNCHANGED hookVars
Disturb(e) == \/ \E c \in job[e].todo : Downstream(e, c)
              \/ NoKey(e) \/ Recycle(e)
              \/ Crash(e) /\ ColdStart(e)
Aws(c) == Sqs(c) /\ UNCHANGED hookVars

Next == \/ Rotate
        \/ \E c \in Copies : Post(c) \/ Refused(c) \/ TimesOut(c) \/ Aws(c)
        \/ \E e \in Envs : Handle(e) \/ Disturb(e)

\* SQS delivers and an invocation runs on or dies.  Nobody has to post, rotate
\* the key or recycle an environment.
Fairness == /\ \A c \in Copies : WF_vars(Aws(c))
            /\ \A e \in Envs : WF_vars(Handle(e))

Spec == Init /\ [][Next]_vars /\ Fairness

-----------------------------------------------------------------------------
\* A post on the queue settles: it takes effect or is dropped, or it ends in the
\* dead-letter queue if it cannot be processed or faults used up its receives.
\* A poisonous one is not lost by dropping, unless a rotation is to blame.
AcceptedSettles ==
  \A c \in Copies : at[c] = "queue" ~>
    \/ at[c] = "deleted" /\ (EventOf(c) \in Poison => signed[c[2]] = 0 \/ version > 1)
    \/ at[c] = "dlq" /\ (EventOf(c) \in Poison \/ faults >= MaxReceiveCount)
=============================================================================
