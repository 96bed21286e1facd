-------------------------------- MODULE Sqs ---------------------------------
(***************************************************************************)
(* The substrate of the SQS patterns: standard queues with a dead-letter   *)
(* queue each, drained by Lambda functions through event source mappings   *)
(* that ask for partial batch responses.  The handler modules extend this  *)
(* module; what becomes of a record in an invocation is theirs.            *)
(*                                                                         *)
(* A message is received with a lease, the queue's visibility timeout.  It *)
(* is six times the function's timeout in every pattern, so a lease lapses *)
(* only after every invocation that received the message has ended.        *)
(***************************************************************************)
EXTENDS Naturals, FiniteSets

CONSTANTS
  Queues,           \* the queues, each with its own dead-letter queue
  Messages,
  Workers,          \* execution environments a function has at most
  BatchSize,        \* batch_size of the event source mappings
  MaxReceiveCount,  \* maxReceiveCount of the redrive policies
  Faults,           \* the kinds of fault the environment may inject
  MaxFaults         \* how many faults it injects in one behaviour

ASSUME SqsAssumption ==
  /\ BatchSize \in Nat \ {0} /\ MaxReceiveCount \in Nat \ {0}
  /\ MaxFaults \in Nat

Copies == Queues \X Messages   \* a message in a queue
Envs == Queues \X Workers      \* an environment of the queue's function

VARIABLES
  at,        \* copy -> "out", "topic", "queue", "deleted" or "dlq"
  receives,  \* copy -> its ApproximateReceiveCount
  hidden,    \* copy -> "no", or why it is invisible: "lease" or "delay"
  job,       \* environment -> the invocation it runs
  faults     \* faults injected so far

sqsVars == <<at, receives, hidden, job, faults>>

\* An invocation: its batch, the records it has still to handle, and the
\* batchItemFailures so far.
Idle == [batch |-> {}, todo |-> {}, failed |-> {}]
Jobs == [batch : SUBSET Copies, todo : SUBSET Copies, failed : SUBSET Copies]

SqsInit ==
  /\ at = [c \in Copies |-> "out"]
  /\ receives = [c \in Copies |-> 0]
  /\ hidden = [c \in Copies |-> "no"]
  /\ job = [e \in Envs |-> Idle]
  /\ faults = 0

SqsTypeOK ==
  /\ at \in [Copies -> {"out", "topic", "queue", "deleted", "dlq"}]
  /\ receives \in [Copies -> 0..MaxReceiveCount]
  /\ hidden \in [Copies -> {"no", "lease", "delay"}]
  /\ job \in [Envs -> Jobs]
  /\ \A e \in Envs : /\ job[e].todo \cup job[e].failed \subseteq job[e].batch
                     /\ job[e].todo \cap job[e].failed = {}
                     /\ Cardinality(job[e].batch) <= BatchSize
  /\ faults \in 0..MaxFaults

-----------------------------------------------------------------------------
Move(c, from, to) ==
  /\ at[c] = from
  /\ at' = [at EXCEPT ![c] = to]

Visible(c) == at[c] = "queue" /\ hidden[c] = "no"
Receivable(c) == Visible(c) /\ receives[c] < MaxReceiveCount

\* The poller of e's function receives the batch B and invokes the function.
Receive(e, B) ==
  /\ job[e] = Idle
  /\ B # {} /\ Cardinality(B) <= BatchSize
  /\ \A c \in B : c[1] = e[1] /\ Receivable(c)
  /\ receives' = [c \in Copies |-> receives[c] + IF c \in B THEN 1 ELSE 0]
  /\ hidden' = [c \in Copies |-> IF c \in B THEN "lease" ELSE hidden[c]]
  /\ job' = [job EXCEPT ![e] = [batch |-> B, todo |-> B, failed |-> {}]]
  /\ UNCHANGED <<at, faults>>

\* A message that has used up its receives goes to the dead-letter queue.
Redrive(c) ==
  /\ Visible(c) /\ receives[c] = MaxReceiveCount
  /\ Move(c, "queue", "dlq")
  /\ UNCHANGED <<receives, hidden, job, faults>>

\* A lease lapses, or a delay set by ChangeMessageVisibility is over.
Reappear(c) ==
  /\ \/ hidden[c] = "lease" /\ \A e \in Envs : c \notin job[e].batch
     \/ hidden[c] = "delay"
  /\ hidden' = [hidden EXCEPT ![c] = "no"]
  /\ UNCHANGED <<at, receives, job, faults>>

\* The invocation of e is done with record c.
Handled(e, c, ok) ==
  /\ c \in job[e].todo
  /\ job' = [job EXCEPT ![e].todo = @ \ {c},
                        ![e].failed = IF ok THEN @ ELSE @ \cup {c}]

\* The function returns batchItemFailures: the other records are deleted.
Respond(e) ==
  /\ job[e] # Idle /\ job[e].todo = {}
  /\ LET acked == job[e].batch \ job[e].failed
     IN  /\ at' = [c \in Copies |-> IF c \in acked THEN "deleted" ELSE at[c]]
         /\ hidden' = [c \in Copies |-> IF c \in acked THEN "no" ELSE hidden[c]]
  /\ job' = [job EXCEPT ![e] = Idle]
  /\ UNCHANGED <<receives, faults>>

\* The invocation fails as a whole: no response, nothing is deleted.
FailBatch(e) ==
  /\ job[e] # Idle
  /\ job' = [job EXCEPT ![e] = Idle]
  /\ UNCHANGED <<at, receives, hidden>>

Fault(kind) ==
  /\ kind \in Faults /\ faults < MaxFaults
  /\ faults' = faults + 1

\* The function times out or its sandbox dies between two records.
Crash(e) == Fault("crash") /\ FailBatch(e)

\* What AWS does by itself.
Sqs(c) == \/ \E w \in Workers, B \in SUBSET {d \in Copies : Receivable(d) /\ d[1] = c[1]} :
               c \in B /\ Receive(<<c[1], w>>, B)
          \/ Redrive(c) \/ Reappear(c)
=============================================================================
