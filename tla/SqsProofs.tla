------------------------------ MODULE SqsProofs ------------------------------
(* What the queues guarantee to every handler that drains them: lemmas     *)
(* about the operators of Sqs, for every number of queues, messages and    *)
(* environments, every batch size and every number of receives.            *)
EXTENDS Sqs, FiniteSetTheorems, TLAPS

\* The records an invocation has not reported, and will delete if it returns.
Held(e) == job[e].batch \ job[e].failed

\* An invocation holds the lease of every record it has not reported, alone: a
\* record that reappears under a running invocation is one it has reported.
HeldOK ==
  /\ \A e \in Envs : \A c \in Held(e) :
       at[c] = "queue" /\ hidden[c] = "lease" /\ receives[c] > 0 /\ c[1] = e[1]
  /\ \A e, f \in Envs : e # f => Held(e) \cap Held(f) = {}

SqsInv == SqsTypeOK /\ HeldOK

-----------------------------------------------------------------------------
(* Types.                                                                  *)

LEMMA SqsTypes ==
  ASSUME SqsInv
  PROVE  /\ at \in [Copies -> {"out", "topic", "queue", "deleted", "dlq"}]
         /\ receives \in [Copies -> 0..MaxReceiveCount]
         /\ hidden \in [Copies -> {"no", "lease", "delay"}]
         /\ job \in [Envs -> Jobs]
         /\ \A e \in Envs : /\ job[e].batch \subseteq Copies
                            /\ job[e].todo \cup job[e].failed \subseteq job[e].batch
                            /\ job[e].todo \cap job[e].failed = {}
                            /\ job[e].todo \subseteq Held(e)
                            /\ Held(e) \subseteq Copies
         /\ faults \in 0..MaxFaults /\ faults \in Nat
         /\ MaxReceiveCount \in Nat /\ MaxFaults \in Nat /\ BatchSize \in Nat
BY SqsAssumption DEF SqsInv, SqsTypeOK, Jobs, Held

LEMMA IdleOK == /\ Idle \in Jobs /\ Idle.batch = {} /\ Idle.todo = {} /\ Idle.failed = {}
                /\ Cardinality(Idle.batch) <= BatchSize
BY FS_EmptySet, SqsAssumption DEF Idle, Jobs

LEMMA SqsInitOK ==
  ASSUME SqsInit
  PROVE  SqsInv
<1>1. MaxReceiveCount \in Nat /\ MaxFaults \in Nat /\ BatchSize \in Nat
  BY SqsAssumption
<1>2. \A e \in Envs : job[e] = Idle
  BY DEF SqsInit
<1>3. SqsTypeOK
  BY <1>1, <1>2, IdleOK DEF SqsInit, SqsTypeOK
<1>4. HeldOK
  BY <1>2, IdleOK DEF HeldOK, Held
<1> QED
  BY <1>3, <1>4 DEF SqsInv

\* A fault is counted.
LEMMA SqsFault ==
  ASSUME SqsInv, NEW kind, Fault(kind)
  PROVE  faults' = faults + 1 /\ faults' \in 0..MaxFaults
BY SqsTypes DEF Fault

-----------------------------------------------------------------------------
(* What SQS does by itself.                                                *)

\* The records of a batch were visible, so nobody held them.
LEMMA ReceiveOK ==
  ASSUME SqsInv, NEW e \in Envs, NEW B \in SUBSET Copies, Receive(e, B)
  PROVE  /\ SqsInv' /\ job[e] = Idle
         /\ at' = at /\ faults' = faults
         /\ receives' = [c \in Copies |-> receives[c] + IF c \in B THEN 1 ELSE 0]
         /\ \A c \in B : at[c] = "queue" /\ receives[c] < MaxReceiveCount
         /\ \A f \in Envs : B \cap Held(f) = {}
         /\ job' = [job EXCEPT ![e] = [batch |-> B, todo |-> B, failed |-> {}]]
<1>1. /\ at' = at /\ faults' = faults /\ job[e] = Idle
      /\ receives' = [c \in Copies |-> receives[c] + IF c \in B THEN 1 ELSE 0]
      /\ hidden' = [c \in Copies |-> IF c \in B THEN "lease" ELSE hidden[c]]
      /\ \A c \in B : at[c] = "queue" /\ receives[c] < MaxReceiveCount /\ hidden[c] = "no"
                      /\ c[1] = e[1]
      /\ Cardinality(B) <= BatchSize
  BY DEF Receive, Receivable, Visible
<1>2. PICK b : b = [batch |-> B, todo |-> B, failed |-> {}]
  OBVIOUS
<1>3. /\ b \in Jobs /\ b.batch = B /\ b.todo = B /\ b.failed = {}
      /\ job' = [job EXCEPT ![e] = b]
  BY <1>2 DEF Jobs, Receive
<1>4. job'[e] = b /\ \A f \in Envs \ {e} : job'[f] = job[f]
  BY <1>3, SqsTypes
<1>5. \A f \in Envs : B \cap Held(f) = {}
  BY <1>1 DEF SqsInv, HeldOK
<1>6. \A c \in Copies : receives'[c] \in 0..MaxReceiveCount
  BY <1>1, SqsTypes
<1>7. SqsTypeOK'
  BY <1>1, <1>3, <1>4, <1>6, SqsTypes DEF SqsInv, SqsTypeOK
<1>8. Held(e)' = B /\ \A f \in Envs \ {e} : Held(f)' = Held(f)
  BY <1>3, <1>4 DEF Held
<1>9. \A c \in Copies : /\ c \in B => hidden'[c] = "lease" /\ receives'[c] > 0
                        /\ c \notin B => hidden'[c] = hidden[c] /\ receives'[c] = receives[c]
  BY <1>1, SqsTypes
<1>10. HeldOK'
  BY <1>1, <1>5, <1>8, <1>9, SqsTypes DEF SqsInv, HeldOK
<1> QED
  BY <1>1, <1>2, <1>3, <1>5, <1>7, <1>10 DEF SqsInv

LEMMA RedriveOK ==
  ASSUME SqsInv, NEW c \in Copies, Redrive(c)
  PROVE  /\ SqsInv'
         /\ at[c] = "queue" /\ receives[c] = MaxReceiveCount
         /\ at' = [at EXCEPT ![c] = "dlq"]
         /\ UNCHANGED <<receives, hidden, job, faults>>
         /\ \A e \in Envs : c \notin Held(e)
<1>1. /\ at[c] = "queue" /\ receives[c] = MaxReceiveCount /\ hidden[c] = "no"
      /\ at' = [at EXCEPT ![c] = "dlq"]
      /\ UNCHANGED <<receives, hidden, job, faults>>
  BY DEF Redrive, Move, Visible
<1>2. \A e \in Envs : c \notin Held(e)
  BY <1>1 DEF SqsInv, HeldOK
<1>3. SqsTypeOK'
  BY <1>1 DEF SqsInv, SqsTypeOK
<1>4. HeldOK'
  BY <1>1, <1>2, SqsTypes DEF SqsInv, HeldOK, Held
<1> QED
  BY <1>1, <1>2, <1>3, <1>4 DEF SqsInv

LEMMA ReappearOK ==
  ASSUME SqsInv, NEW c \in Copies, Reappear(c)
  PROVE  SqsInv' /\ UNCHANGED <<at, receives, job, faults>>
<1>1. /\ hidden' = [hidden EXCEPT ![c] = "no"]
      /\ UNCHANGED <<at, receives, job, faults>>
  BY DEF Reappear
<1>2. \A e \in Envs : c \notin Held(e)
  BY DEF Reappear, SqsInv, HeldOK, Held
<1>3. SqsTypeOK'
  BY <1>1 DEF SqsInv, SqsTypeOK
<1>4. HeldOK'
  BY <1>1, <1>2, SqsTypes DEF SqsInv, HeldOK, Held
<1> QED
  BY <1>1, <1>3, <1>4 DEF SqsInv

\* A step of SQS is one of the three.
LEMMA SqsSteps ==
  ASSUME NEW c \in Copies, Sqs(c)
  PROVE  \/ \E e \in Envs : \E B \in SUBSET Copies : Receive(e, B)
         \/ Redrive(c) \/ Reappear(c)
<1>1. \A w \in Workers : <<c[1], w>> \in Envs
  BY DEF Copies, Envs
<1> QED
  BY <1>1 DEF Sqs

LEMMA SqsStepOK ==
  ASSUME SqsInv, NEW c \in Copies, Sqs(c)
  PROVE  SqsInv' /\ faults' = faults
BY SqsSteps, ReceiveOK, RedriveOK, ReappearOK

\* A message that was sent is on its queue, or was lost on its way.
LEMMA MoveOK ==
  ASSUME SqsInv, NEW c \in Copies, NEW from \in {"out", "topic"},
         NEW to \in {"topic", "queue", "dlq"}, Move(c, from, to),
         UNCHANGED <<receives, hidden, job>>, faults' \in 0..MaxFaults
  PROVE  SqsInv'
<1>1. at[c] = from /\ at' = [at EXCEPT ![c] = to]
  BY DEF Move
<1>2. \A e \in Envs : c \notin Held(e)
  BY <1>1 DEF SqsInv, HeldOK
<1>3. SqsTypeOK'
  BY <1>1 DEF SqsInv, SqsTypeOK
<1>4. HeldOK'
  BY <1>1, <1>2, SqsTypes DEF SqsInv, HeldOK, Held
<1> QED
  BY <1>3, <1>4 DEF SqsInv

-----------------------------------------------------------------------------
(* What an invocation does.                                                *)

\* A record that is reported, or not: no other record is concerned, and only a
\* reported one may become visible.
LEMMA HandledOK ==
  ASSUME SqsInv, NEW e \in Envs, NEW c, NEW ok \in BOOLEAN, Handled(e, c, ok),
         UNCHANGED <<at, receives>>, faults' \in 0..MaxFaults,
         hidden' \in [Copies -> {"no", "lease", "delay"}],
         \A d \in Copies \ {c} : hidden'[d] = hidden[d], ok => hidden' = hidden
  PROVE  /\ SqsInv'
         /\ c \in job[e].todo /\ c \in Held(e) /\ c \in Copies
         /\ job'[e].batch = job[e].batch /\ job'[e].todo = job[e].todo \ {c}
         /\ job'[e].failed = IF ok THEN job[e].failed ELSE job[e].failed \cup {c}
         /\ \A f \in Envs \ {e} : job'[f] = job[f]
<1>1. c \in job[e].todo /\ c \in Held(e) /\ c \in Copies
  BY SqsTypes DEF Handled
<1>2. PICK b : b = [job[e] EXCEPT !.todo = @ \ {c},
                                  !.failed = IF ok THEN @ ELSE @ \cup {c}]
  OBVIOUS
<1>3. job[e] \in Jobs
  BY SqsTypes
<1>4. /\ b.batch = job[e].batch /\ b.todo = job[e].todo \ {c}
      /\ b.failed = IF ok THEN job[e].failed ELSE job[e].failed \cup {c}
      /\ b \in Jobs
  BY <1>1, <1>2, <1>3 DEF Jobs
<1>5. job' = [job EXCEPT ![e] = b]
  BY <1>2, <1>3, SqsTypes DEF Handled
<1>6. job'[e] = b /\ \A f \in Envs \ {e} : job'[f] = job[f]
  BY <1>5, SqsTypes
<1>7. b.todo \cup b.failed \subseteq b.batch /\ b.todo \cap b.failed = {}
  BY <1>1, <1>4, SqsTypes
<1>8. SqsTypeOK'
  BY <1>4, <1>5, <1>6, <1>7 DEF SqsInv, SqsTypeOK
<1>9. /\ Held(e)' = IF ok THEN Held(e) ELSE Held(e) \ {c}
      /\ \A f \in Envs \ {e} : Held(f)' = Held(f) /\ c \notin Held(f)
  BY <1>1, <1>4, <1>6 DEF Held, SqsInv, HeldOK
<1>10. \A f \in Envs : \A d \in Held(f)' : d \in Held(f) /\ hidden'[d] = hidden[d]
  BY <1>1, <1>9, SqsTypes
<1>11. HeldOK'
  BY <1>9, <1>10 DEF SqsInv, HeldOK
<1> QED
  BY <1>1, <1>4, <1>6, <1>8, <1>11 DEF SqsInv

\* A response deletes what the invocation holds, and nothing else.
LEMMA RespondOK ==
  ASSUME SqsInv, NEW e \in Envs, Respond(e)
  PROVE  /\ SqsInv'
         /\ job[e].todo = {}
         /\ at' = [c \in Copies |-> IF c \in Held(e) THEN "deleted" ELSE at[c]]
         /\ \A c \in Held(e) : at[c] = "queue"
         /\ job'[e] = Idle /\ \A f \in Envs \ {e} : job'[f] = job[f]
         /\ UNCHANGED <<receives, faults>>
<1>1. /\ at' = [c \in Copies |-> IF c \in Held(e) THEN "deleted" ELSE at[c]]
      /\ hidden' = [c \in Copies |-> IF c \in Held(e) THEN "no" ELSE hidden[c]]
      /\ job' = [job EXCEPT ![e] = Idle]
      /\ UNCHANGED <<receives, faults>>
      /\ job[e].todo = {}
  BY DEF Respond, Held
<1>2. job'[e] = Idle /\ \A f \in Envs \ {e} : job'[f] = job[f]
  BY <1>1, SqsTypes
<1>3. Held(e)' = {} /\ \A f \in Envs \ {e} : Held(f)' = Held(f) /\ Held(f) \cap Held(e) = {}
  BY <1>2, IdleOK DEF Held, SqsInv, HeldOK
<1>a. job' \in [Envs -> Jobs]
  BY <1>1, IdleOK, SqsTypes
<1>b. \A f \in Envs : /\ job'[f].todo \cup job'[f].failed \subseteq job'[f].batch
                      /\ job'[f].todo \cap job'[f].failed = {}
                      /\ Cardinality(job'[f].batch) <= BatchSize
  BY <1>2, IdleOK DEF SqsInv, SqsTypeOK
<1>4. SqsTypeOK'
  BY <1>1, <1>a, <1>b, SqsTypes DEF SqsTypeOK
<1>5. HeldOK'
  BY <1>1, <1>3, SqsTypes DEF SqsInv, HeldOK
<1> QED
  BY <1>1, <1>2, <1>4, <1>5 DEF SqsInv, HeldOK

\* An invocation that fails as a whole gives up what it holds.
LEMMA FailBatchOK ==
  ASSUME SqsInv, NEW e \in Envs, FailBatch(e), faults' \in 0..MaxFaults
  PROVE  /\ SqsInv'
         /\ job'[e] = Idle /\ \A f \in Envs \ {e} : job'[f] = job[f]
         /\ UNCHANGED <<at, receives, hidden>>
<1>1. job' = [job EXCEPT ![e] = Idle] /\ UNCHANGED <<at, receives, hidden>>
  BY DEF FailBatch
<1>2. job'[e] = Idle /\ \A f \in Envs \ {e} : job'[f] = job[f]
  BY <1>1, SqsTypes
<1>3. Held(e)' = {} /\ \A f \in Envs \ {e} : Held(f)' = Held(f)
  BY <1>2, IdleOK DEF Held
<1>a. job' \in [Envs -> Jobs]
  BY <1>1, IdleOK, SqsTypes
<1>b. \A f \in Envs : /\ job'[f].todo \cup job'[f].failed \subseteq job'[f].batch
                      /\ job'[f].todo \cap job'[f].failed = {}
                      /\ Cardinality(job'[f].batch) <= BatchSize
  BY <1>2, IdleOK DEF SqsInv, SqsTypeOK
<1>4. SqsTypeOK'
  BY <1>1, <1>a, <1>b, SqsTypes DEF SqsTypeOK
<1>5. HeldOK'
  BY <1>1, <1>3 DEF SqsInv, HeldOK
<1> QED
  BY <1>1, <1>2, <1>4, <1>5 DEF SqsInv
=============================================================================
