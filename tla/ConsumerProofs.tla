---------------------------- MODULE ConsumerProofs ----------------------------
(* The consumers of queues.  First the idempotent processor: its dedupe    *)
(* window, the one effect per save and its acknowledgements, for every     *)
(* number of requests, submissions, environments and faults.  Then fan-out *)
(* and webhook ingest, whose handlers add little to the queue: instances   *)
(* on the same queue variables, with constants and variables of their own. *)
EXTENDS IdempotentProcessor, FanOutPromise, WebhookPromise, SqsProofs

Records == [status : {"none", "INPROGRESS", "COMPLETED"}, by : SUBSET Copies,
            expiry : Nat]

TypeInv ==
  /\ now \in Nat \ {0}
  /\ record \in [Keys -> Records]
  /\ cache \in [Envs -> [Keys -> Nat]]
  /\ current \in [Envs -> SUBSET (Copies \X Stages)]
  /\ effects \in [Requests -> Nat] /\ saves \in [Requests -> Nat]
  /\ savedAt \in [Requests -> Nat]

\* A record at work holds its key: the item in the table is in progress on its
\* behalf, with a deadline that has not passed and an expiry that has not come.
Holder(c) == LET r == record[KeyAt(c)]
             IN  r.status = "INPROGRESS" /\ r.by = {c} /\ now <= r.expiry
Locked(e) == \A c \in Copies : \A s \in Stages : <<c, s>> \in current[e] =>
  /\ current[e] = {<<c, s>>} /\ c \in job[e].todo /\ c[2] \notin Junk
  /\ Holder(c)
  /\ s = "save" => effects[RequestAt(c)] > 0

\* While its result is within the time Powertools keeps it, the request of c has
\* its result in the table, under the key c has.
Fresh(c) ==
  \/ savedAt[RequestAt(c)] = 0
  \/ now > savedAt[RequestAt(c)] + ExpiresAfter
  \/ /\ record[KeyAt(c)].status = "COMPLETED"
     /\ record[KeyAt(c)].expiry >= savedAt[RequestAt(c)] + ExpiresAfter

\* The bound of OneEffectPerSave, request by request.
Saving(q) == \E e \in Envs : Doing(e, q, "save")
Counted(q) == effects[q] <= saves[q] + faults + IF Saving(q) THEN 1 ELSE 0

Took(c) == c[2] \notin Junk /\ effects[RequestAt(c)] > 0 /\ savedAt[RequestAt(c)] > 0

\* A result in the table or in a cache is that of the request of whoever finds it.
Stored(c) ==
  record[KeyAt(c)].status = "COMPLETED" \/ (\E e \in Envs : cache[e][KeyAt(c)] > 0) => Took(c)

\* What has been handled without a failure, and what was deleted, took effect.
Acked == /\ \A c \in Copies : at[c] = "deleted" => Took(c)
         /\ \A e \in Envs : \A c \in Held(e) \ job[e].todo : Took(c)

Subjects == {c \in Copies : c[2] \notin Junk}
Base == SqsInv /\ TypeInv /\ \A e \in Envs : Locked(e)
WindowInv == RequestsKeepKeys => /\ \A c \in Subjects : Fresh(c)
                               /\ \A q \in Requests : Counted(q)
AckInv == KeysTellRequests => Acked /\ \A c \in Subjects : Stored(c)
IInv == Base /\ WindowInv /\ AckInv

-----------------------------------------------------------------------------
(* Types, and who holds a key.                                             *)

LEMMA KeyTypes ==
  ASSUME NEW c \in Copies
  PROVE  KeyAt(c) \in Keys /\ RequestAt(c) \in Requests /\ c[2] \in Messages
<1>1. c[2] \in Messages
  BY DEF Copies
<1> QED
  BY <1>1, IdempotentAssumption DEF KeyAt, KeyOf, RequestAt

\* Submissions of one request have one key, and the other way round.
LEMMA SameKey ==
  ASSUME NEW c \in Subjects, NEW d \in Subjects
  PROVE  /\ RequestsKeepKeys /\ RequestAt(c) = RequestAt(d) => KeyAt(c) = KeyAt(d)
         /\ KeysTellRequests /\ KeyAt(c) = KeyAt(d) => RequestAt(c) = RequestAt(d)
<1>1. c[2] \in Messages \ Junk /\ d[2] \in Messages \ Junk
  BY DEF Subjects, Copies
<1> QED
  BY <1>1 DEF RequestsKeepKeys, KeysTellRequests, KeyAt, RequestAt

\* The fields of the item of a key, and what an invocation is doing.
LEMMA ItemTypes ==
  ASSUME TypeInv, NEW k \in Keys
  PROVE  /\ record[k] \in Records
         /\ record[k].status \in {"none", "INPROGRESS", "COMPLETED"}
         /\ record[k].by \subseteq Copies
         /\ record[k].expiry \in Nat
         /\ now \in Nat /\ now > 0 /\ ExpiresAfter \in Nat
BY IdempotentAssumption DEF TypeInv, Records

\* No two records of one key are at work: the second one finds the item of the
\* first, in whichever environment it is.
LEMMA Alone ==
  ASSUME Base, NEW e \in Envs, NEW f \in Envs, NEW c \in Copies, NEW d \in Copies,
         NEW s \in Stages, NEW t \in Stages,
         <<c, s>> \in current[e], <<d, t>> \in current[f], KeyAt(c) = KeyAt(d)
  PROVE  c = d /\ e = f /\ s = t
<1>1. /\ c \in job[e].todo /\ Holder(c) /\ current[e] = {<<c, s>>}
      /\ d \in job[f].todo /\ Holder(d)
  BY DEF Base, Locked
<1>2. c = d
  BY <1>1 DEF Holder
<1>3. c \in Held(e) /\ c \in Held(f)
  BY <1>1, <1>2, SqsTypes DEF Base
<1>4. e = f
  BY <1>3 DEF Base, SqsInv, HeldOK
<1> QED
  BY <1>1, <1>2, <1>4

\* What an invocation is doing, it does for a record it has still to report.
LEMMA AtWork ==
  ASSUME Base, NEW e \in Envs, NEW c \in job[e].todo, NEW s \in Stages,
         current[e] = {<<c, s>>}
  PROVE  /\ c \in Copies /\ c \in Subjects /\ Holder(c)
         /\ s = "save" => effects[RequestAt(c)] > 0
<1>1. c \in Copies
  BY SqsTypes DEF Base
<1>2. <<c, s>> \in current[e]
  OBVIOUS
<1> QED
  BY <1>1, <1>2 DEF Base, Locked, Subjects

\* Whoever saves is at work.
LEMMA SavingIs ==
  ASSUME NEW q \in Requests
  PROVE  Saving(q) <=> \E e \in Envs : \E c \in Copies :
                         RequestAt(c) = q /\ <<c, "save">> \in current[e]
BY DEF Saving, Doing

-----------------------------------------------------------------------------
(* Steps that leave the records and the ghosts alone.                      *)

\* A step of the queues, or one that reports a record: what is at work stays so.
LEMMA Quiet ==
  ASSUME Base, WindowInv, SqsInv', faults' = faults,
         UNCHANGED <<now, record, cache, current, effects, saves, savedAt>>,
         \A e \in Envs : current[e] # {} => job'[e].todo = job[e].todo
  PROVE  Base' /\ WindowInv'
<1>1. TypeInv'
  BY DEF Base, TypeInv
<1>2. \A e \in Envs : Locked(e)'
  BY DEF Base, Locked, Holder
<1>3. RequestsKeepKeys' => RequestsKeepKeys
  BY DEF RequestsKeepKeys
<1>4. \A c \in Subjects : Fresh(c) => Fresh(c)'
  BY DEF Fresh
<1>5. \A q \in Requests : Counted(q) => Counted(q)'
  BY DEF Counted, Saving, Doing
<1>6. WindowInv'
  BY <1>3, <1>4, <1>5 DEF WindowInv
<1> QED
  BY <1>1, <1>2, <1>6 DEF Base

\* What took effect stays so, as nothing is counted down.
LEMMA Stays ==
  ASSUME NEW c, Took(c), effects'[RequestAt(c)] >= effects[RequestAt(c)],
         effects[RequestAt(c)] \in Nat, effects'[RequestAt(c)] \in Nat,
         savedAt'[RequestAt(c)] > 0
  PROVE  Took(c)'
BY DEF Took

LEMMA AckedStays ==
  ASSUME Acked, \A c \in Copies : Took(c) => Took(c)',
         \A c \in Copies : at'[c] = "deleted" =>
           at[c] = "deleted" \/ \E e \in Envs : c \in Held(e) \ job[e].todo,
         \A e \in Envs : \A c \in Held(e)' \ job'[e].todo :
           c \in Copies /\ (c \in Held(e) \ job[e].todo \/ Took(c)')
  PROVE  Acked'
BY DEF Acked

\* The result of a quiet step for AckInv: its own acknowledgements have to be shown.
LEMMA QuietAck ==
  ASSUME AckInv, UNCHANGED <<record, cache, effects, saves, savedAt>>,
         KeysTellRequests =>
           /\ \A c \in Copies : at'[c] = "deleted" =>
                at[c] = "deleted" \/ \E e \in Envs : c \in Held(e) \ job[e].todo
           /\ \A e \in Envs : \A c \in Held(e)' \ job'[e].todo :
                c \in Copies /\ (c \in Held(e) \ job[e].todo \/ Took(c))
  PROVE  AckInv'
<1>1. KeysTellRequests' => KeysTellRequests
  BY DEF KeysTellRequests
<1>2. \A c : Took(c)' <=> Took(c)
  BY DEF Took
<1>3. \A c \in Subjects : Stored(c) => Stored(c)'
  BY <1>2 DEF Stored
<1>4. KeysTellRequests => Acked'
  BY <1>2 DEF AckInv, Acked
<1> QED
  BY <1>1, <1>3, <1>4 DEF AckInv

LEMMA SendOK ==
  ASSUME IInv, NEW c \in Copies, Send(c)
  PROVE  IInv'
<1>1. /\ Move(c, "out", "queue")
      /\ UNCHANGED <<receives, hidden, job, faults>>
      /\ UNCHANGED <<now, record, cache, current, effects, saves, savedAt>>
  BY DEF Send, ipVars
<1>2. SqsInv'
  BY <1>1, MoveOK, SqsTypes DEF IInv, Base
<1>3. Base' /\ WindowInv'
  BY <1>1, <1>2, Quiet DEF IInv
<1>4. \A d \in Copies : at'[d] = "deleted" => at[d] = "deleted"
  BY <1>1, SqsTypes DEF Move, IInv, Base
<1>5. \A e \in Envs : Held(e)' = Held(e) /\ Held(e) \subseteq Copies
  BY <1>1, SqsTypes DEF Held, IInv, Base
<1>6. AckInv'
  BY <1>1, <1>4, <1>5, QuietAck DEF IInv
<1> QED
  BY <1>3, <1>6 DEF IInv

LEMMA AwsOK ==
  ASSUME IInv, NEW c \in Copies, Aws(c)
  PROVE  IInv'
<1>1. /\ Sqs(c)
      /\ UNCHANGED <<now, record, cache, current, effects, saves, savedAt>>
  BY DEF Aws, ipVars
<1>2. SqsInv' /\ faults' = faults
  BY <1>1, SqsStepOK DEF IInv, Base
<1>3. /\ \A e \in Envs : current[e] # {} => job'[e].todo = job[e].todo
      /\ \A d \in Copies : at'[d] = "deleted" => at[d] = "deleted"
      /\ \A e \in Envs : Held(e)' \ job'[e].todo \subseteq Held(e) \ job[e].todo
  <2>1. CASE \E e \in Envs : \E B \in SUBSET Copies : Receive(e, B)
    <3>1. PICK e \in Envs, B \in SUBSET Copies : Receive(e, B)
      BY <2>1
    <3>2. PICK b : b = [batch |-> B, todo |-> B, failed |-> {}]
      OBVIOUS
    <3>3. at' = at /\ job[e] = Idle /\ job' = [job EXCEPT ![e] = b]
      BY <3>1, <3>2, ReceiveOK DEF IInv, Base
    <3>4. job'[e] = b /\ \A f \in Envs \ {e} : job'[f] = job[f]
      BY <3>3, SqsTypes DEF IInv, Base
    <3>5. current[e] = {}
      <4>1. \A d \in Copies, s \in Stages : <<d, s>> \notin current[e]
        BY <3>3, IdleOK DEF IInv, Base, Locked
      <4>2. current[e] \subseteq Copies \X Stages
        BY DEF IInv, Base, TypeInv
      <4> QED
        BY <4>1, <4>2
    <3>6. Held(e)' \ job'[e].todo = {}
      BY <3>2, <3>4 DEF Held
    <3>7. \A f \in Envs \ {e} : Held(f)' = Held(f)
      BY <3>4 DEF Held
    <3> QED
      BY <3>3, <3>4, <3>5, <3>6, <3>7
  <2>2. CASE Redrive(c)
    BY <2>2, RedriveOK, SqsTypes DEF IInv, Base, Held
  <2>3. CASE Reappear(c)
    BY <2>3, ReappearOK DEF IInv, Base, Held
  <2> QED
    BY <1>1, <2>1, <2>2, <2>3, SqsSteps
<1>4. Base' /\ WindowInv'
  BY <1>1, <1>2, <1>3, Quiet DEF IInv
<1>5. \A e \in Envs : Held(e) \subseteq Copies
  BY SqsTypes DEF IInv, Base
<1>6. AckInv'
  BY <1>1, <1>3, <1>5, QuietAck DEF IInv
<1> QED
  BY <1>4, <1>6 DEF IInv

\* An invocation that has handled its batch is at work on nothing.
LEMMA HandleEnds ==
  ASSUME IInv, NEW e \in Envs, Respond(e), UNCHANGED ipVars
  PROVE  IInv'
<1>1. UNCHANGED <<now, record, cache, current, effects, saves, savedAt>>
  BY DEF ipVars
<1>2. /\ SqsInv' /\ faults' = faults
      /\ job[e].todo = {}
      /\ at' = [c \in Copies |-> IF c \in Held(e) THEN "deleted" ELSE at[c]]
      /\ job'[e] = Idle /\ \A f \in Envs \ {e} : job'[f] = job[f]
  BY RespondOK DEF IInv, Base
<1>3. current[e] = {}
  <2>1. \A d \in Copies, s \in Stages : <<d, s>> \notin current[e]
    BY <1>2 DEF IInv, Base, Locked
  <2>2. current[e] \subseteq Copies \X Stages
    BY DEF IInv, Base, TypeInv
  <2> QED
    BY <2>1, <2>2
<1>4. Base' /\ WindowInv'
  BY <1>1, <1>2, <1>3, Quiet DEF IInv
<1>5. Held(e)' = {} /\ \A f \in Envs \ {e} : Held(f)' = Held(f)
  BY <1>2, IdleOK DEF Held
<1>6. \A f \in Envs : Held(f) \subseteq Copies
  BY SqsTypes DEF IInv, Base
<1>7. \A d \in Copies : at'[d] = "deleted" => at[d] = "deleted" \/ d \in Held(e) \ job[e].todo
  BY <1>2
<1>8. \A f \in Envs : Held(f)' \ job'[f].todo \subseteq Held(f) \ job[f].todo
  BY <1>2, <1>5
<1>9. AckInv'
  BY <1>1, <1>6, <1>7, <1>8, QuietAck DEF IInv
<1> QED
  BY <1>4, <1>9 DEF IInv

\* A record that is reported by an invocation that was at work on nothing: it may
\* be done only if it took effect.
LEMMA Reported ==
  ASSUME IInv, NEW e \in Envs, NEW c, NEW ok \in BOOLEAN, Handled(e, c, ok),
         current[e] = {}, UNCHANGED <<at, receives, hidden, faults>>,
         UNCHANGED <<now, record, cache, current, effects, saves, savedAt>>,
         ok /\ KeysTellRequests => Took(c)
  PROVE  IInv'
<1>1. /\ hidden' \in [Copies -> {"no", "lease", "delay"}] /\ faults' \in 0..MaxFaults
      /\ \A d \in Copies \ {c} : hidden'[d] = hidden[d]
      /\ ok => hidden' = hidden
      /\ UNCHANGED <<at, receives>> /\ SqsInv
  BY SqsTypes DEF IInv, Base
<1>2. /\ SqsInv' /\ c \in job[e].todo /\ c \in Held(e) /\ c \in Copies
      /\ job'[e].batch = job[e].batch /\ job'[e].todo = job[e].todo \ {c}
      /\ job'[e].failed = IF ok THEN job[e].failed ELSE job[e].failed \cup {c}
      /\ \A f \in Envs \ {e} : job'[f] = job[f]
  <2>1. CASE ok = TRUE
    <3>1. Handled(e, c, TRUE) /\ hidden' = hidden
      BY <1>1, <2>1
    <3> QED
      BY <1>1, <2>1, <3>1, HandledOK
  <2>2. CASE ok = FALSE
    <3>1. Handled(e, c, FALSE)
      BY <2>2
    <3> QED
      BY <1>1, <2>2, <3>1, HandledOK
  <2> QED
    BY <2>1, <2>2
<1>3. Base' /\ WindowInv'
  BY <1>2, Quiet DEF IInv
<1>4. Held(e)' = IF ok THEN Held(e) ELSE Held(e) \ {c}
  BY <1>2 DEF Held
<1>5. \A f \in Envs \ {e} : Held(f)' = Held(f)
  BY <1>2 DEF Held
<1>6. \A f \in Envs : Held(f) \subseteq Copies
  BY SqsTypes DEF IInv, Base
<1>7. \A f \in Envs : \A d \in Held(f)' \ job'[f].todo :
        d \in Held(f) \ job[f].todo \/ (ok /\ d = c)
  BY <1>2, <1>4, <1>5
<1>8. AckInv'
  <2>1. \A f \in Envs : Held(f)' \subseteq Copies
    BY <1>4, <1>5, <1>6
  <2> QED
    BY <1>7, <2>1, QuietAck DEF IInv
<1> QED
  BY <1>3, <1>8 DEF IInv

\* The result an invocation returns for a record is that of the record's request.
LEMMA ReplayOK ==
  ASSUME IInv, NEW e \in Envs, NEW c, Replay(e, c)
  PROVE  IInv'
<1>1. /\ Handled(e, c, TRUE) /\ current[e] = {} /\ c[2] \notin Junk
      /\ UNCHANGED <<at, receives, hidden, faults>>
      /\ UNCHANGED <<now, record, cache, current, effects, saves, savedAt>>
      /\ Cached(e, c) \/ record[KeyAt(c)].status = "COMPLETED"
  BY DEF Replay, Begins, ipVars
<1>2. c \in Subjects
  BY <1>1, SqsTypes DEF Handled, Subjects, IInv, Base
<1>3. KeyAt(c) \in Keys
  BY <1>2, KeyTypes DEF Subjects
<1>4. Cached(e, c) => cache[e][KeyAt(c)] > 0
  BY <1>3 DEF Cached, IInv, Base, TypeInv
<1>5. KeysTellRequests => Took(c)
  BY <1>1, <1>2, <1>4 DEF IInv, AckInv, Stored
<1> QED
  BY <1>1, <1>5, Reported

LEMMA BusyOK ==
  ASSUME IInv, NEW e \in Envs, NEW c, Busy(e, c)
  PROVE  IInv'
BY Reported DEF Busy, Refused, Begins

LEMMA RejectOK ==
  ASSUME IInv, NEW e \in Envs, NEW c, Reject(e, c)
  PROVE  IInv'
BY Reported DEF Reject, ipVars

-----------------------------------------------------------------------------
(* Steps that take, use or give up a key.                                  *)

\* Whoever is at work keeps the key, if the step is about another one.
LEMMA OthersLocked ==
  ASSUME Base, NEW e \in Envs, NEW k \in Keys, now' = now,
         \A f \in Envs \ {e} : current'[f] = current[f] /\ job'[f] = job[f],
         \A j \in Keys \ {k} : record'[j] = record[j],
         \A f \in Envs \ {e} : \A d \in Copies : \A s \in Stages :
           <<d, s>> \in current[f] => KeyAt(d) # k,
         effects' \in [Requests -> Nat], \A q \in Requests : effects'[q] >= effects[q]
  PROVE  \A f \in Envs \ {e} : Locked(f)'
<1> SUFFICES ASSUME NEW f \in Envs \ {e}, NEW d \in Copies, NEW s \in Stages,
                    <<d, s>> \in current[f]
             PROVE  /\ current[f] = {<<d, s>>} /\ d \in job[f].todo /\ d[2] \notin Junk
                    /\ Holder(d)'
                    /\ s = "save" => effects'[RequestAt(d)] > 0
  BY DEF Locked
<1>1. /\ current[f] = {<<d, s>>} /\ d \in job[f].todo /\ d[2] \notin Junk
      /\ Holder(d)
      /\ s = "save" => effects[RequestAt(d)] > 0
  BY DEF Base, Locked
<1>2. record'[KeyAt(d)] = record[KeyAt(d)]
  BY KeyTypes
<1>3. Holder(d)'
  BY <1>1, <1>2 DEF Holder
<1>4. /\ effects'[RequestAt(d)] >= effects[RequestAt(d)]
      /\ effects[RequestAt(d)] \in Nat /\ effects'[RequestAt(d)] \in Nat
  BY KeyTypes DEF Base, TypeInv
<1> QED
  BY <1>1, <1>3, <1>4

LEMMA HeldAlone ==
  ASSUME Base, NEW e \in Envs, NEW c \in job[e].todo, NEW s \in Stages,
         current[e] = {<<c, s>>}
  PROVE  \A f \in Envs \ {e} : \A d \in Copies : \A t \in Stages :
           <<d, t>> \in current[f] => KeyAt(d) # KeyAt(c)
<1>1. c \in Copies /\ <<c, s>> \in current[e]
  BY SqsTypes DEF Base
<1> QED
  BY <1>1, Alone

\* An item that changes was not a result still within its time.
LEMMA FreshStays ==
  ASSUME TypeInv, NEW k \in Keys, savedAt' = savedAt, now' = now,
         \A j \in Keys \ {k} : record'[j] = record[j],
         record[k].status # "COMPLETED" \/ record[k].expiry < now
  PROVE  \A c \in Subjects : Fresh(c) => Fresh(c)'
<1> SUFFICES ASSUME NEW c \in Subjects, Fresh(c)
             PROVE  Fresh(c)'
  OBVIOUS
<1>1. /\ KeyAt(c) \in Keys /\ savedAt[RequestAt(c)] \in Nat
      /\ record[KeyAt(c)].expiry \in Nat /\ now \in Nat /\ ExpiresAfter \in Nat
  BY KeyTypes, ItemTypes DEF Subjects, TypeInv
<1>2. CASE KeyAt(c) = k
  BY <1>1, <1>2 DEF Fresh
<1>3. CASE KeyAt(c) # k
  <2>1. record'[KeyAt(c)] = record[KeyAt(c)]
    BY <1>1, <1>3
  <2> QED
    BY <2>1 DEF Fresh
<1> QED
  BY <1>2, <1>3

\* A fault makes up for the effect that is not saved.
LEMMA FaultCounts ==
  ASSUME Base, faults' = faults + 1, effects' = effects, saves' = saves
  PROVE  \A q \in Requests : Counted(q) => Counted(q)'
<1> SUFFICES ASSUME NEW q \in Requests, Counted(q)
             PROVE  Counted(q)'
  OBVIOUS
<1>1. effects[q] \in Nat /\ saves[q] \in Nat /\ faults \in Nat
  BY SqsTypes DEF Base, TypeInv
<1>2. effects[q] <= saves[q] + faults + 1
  BY <1>1 DEF Counted
<1>3. effects'[q] <= saves'[q] + faults' + 0
  BY <1>1, <1>2
<1> QED
  BY <1>1, <1>3 DEF Counted

LEMMA LockOK ==
  ASSUME IInv, NEW e \in Envs, NEW c, Lock(e, c)
  PROVE  IInv'
<1>1. /\ c \in job[e].todo /\ current[e] = {} /\ c[2] \notin Junk
      /\ Takeable(record[KeyAt(c)])
      /\ current' = [current EXCEPT ![e] = {<<c, "run">>}]
      /\ UNCHANGED <<at, receives, hidden, job, faults>>
      /\ UNCHANGED <<now, cache, effects, saves, savedAt>>
  BY DEF Lock, Begins, sqsVars
<1>2. c \in Copies /\ c \in Subjects
  BY <1>1, SqsTypes DEF Subjects, IInv, Base
<1>3. PICK k \in Keys : k = KeyAt(c)
  BY <1>2, KeyTypes
<1>4. PICK r : r = [status |-> "INPROGRESS", by |-> {c}, expiry |-> now + ExpiresAfter]
  OBVIOUS
<1>5. now \in Nat /\ ExpiresAfter \in Nat /\ now + ExpiresAfter \in Nat
      /\ now <= now + ExpiresAfter
  BY ItemTypes DEF IInv, Base
<1>6. /\ r \in Records
      /\ r.status = "INPROGRESS" /\ r.by = {c} /\ now <= r.expiry
  BY <1>2, <1>4, <1>5 DEF Records
<1>7. record' = [record EXCEPT ![k] = r]
  BY <1>3, <1>4 DEF Lock
<1>8. record'[k] = r /\ \A j \in Keys \ {k} : record'[j] = record[j]
  BY <1>7 DEF IInv, Base, TypeInv
<1>9. current'[e] = {<<c, "run">>} /\ \A f \in Envs \ {e} : current'[f] = current[f]
  BY <1>1 DEF IInv, Base, TypeInv
<1>10. Base'
  <2>1. TypeInv'
    BY <1>1, <1>2, <1>6, <1>7 DEF IInv, Base, TypeInv, Stages
  <2>2. \A f \in Envs \ {e} : \A d \in Copies : \A s \in Stages :
          <<d, s>> \in current[f] => KeyAt(d) # k
    <3> SUFFICES ASSUME NEW f \in Envs \ {e}, NEW d \in Copies, NEW s \in Stages,
                        <<d, s>> \in current[f], KeyAt(d) = k
                 PROVE  FALSE
      OBVIOUS
    <3>1. Holder(d)
      BY DEF IInv, Base, Locked
    <3>2. record[k].expiry \in Nat
      BY ItemTypes DEF IInv, Base
    <3> QED
      BY <1>1, <1>3, <1>5, <3>1, <3>2 DEF Holder, Takeable, Lapsed
  <2>3. \A f \in Envs \ {e} : Locked(f)'
    <3>1. /\ effects' \in [Requests -> Nat]
          /\ \A q \in Requests : effects'[q] >= effects[q]
      BY <1>1 DEF IInv, Base, TypeInv
    <3> QED
      BY <1>1, <1>8, <1>9, <2>2, <3>1, OthersLocked DEF IInv
  <2>4. Holder(c)'
    BY <1>1, <1>3, <1>6, <1>8 DEF Holder
  <2>5. Locked(e)'
    BY <1>1, <1>2, <1>9, <2>4 DEF Locked
  <2>6. SqsInv'
    BY <1>1 DEF IInv, Base, SqsInv, SqsTypeOK, HeldOK, Held
  <2> QED
    BY <2>1, <2>3, <2>5, <2>6 DEF Base
<1>11. WindowInv'
  <2>1. RequestsKeepKeys' => RequestsKeepKeys
    BY DEF RequestsKeepKeys
  <2>2. record[k].status # "COMPLETED" \/ record[k].expiry < now
    BY <1>1, <1>3 DEF Takeable, Lapsed
  <2>3. \A d \in Subjects : Fresh(d) => Fresh(d)'
    BY <1>1, <1>8, <2>2, FreshStays DEF IInv, Base
  <2>4. \A q \in Requests : Saving(q)' <=> Saving(q)
    <3>1. \A f \in Envs : \A d \in Copies :
            <<d, "save">> \in current'[f] <=> <<d, "save">> \in current[f]
      BY <1>1, <1>9
    <3> QED
      BY <3>1 DEF Saving, Doing
  <2>5. \A q \in Requests : Counted(q) => Counted(q)'
    BY <1>1, <2>4 DEF Counted
  <2> QED
    BY <2>1, <2>3, <2>5 DEF IInv, WindowInv
<1>12. AckInv'
  <2>1. KeysTellRequests' => KeysTellRequests
    BY DEF KeysTellRequests
  <2>2. \A d : Took(d)' <=> Took(d)
    BY <1>1 DEF Took
  <2>3. \A d \in Subjects : Stored(d) => Stored(d)'
    <3> SUFFICES ASSUME NEW d \in Subjects, Stored(d)
                 PROVE  Stored(d)'
      OBVIOUS
    <3>1. KeyAt(d) \in Keys
      BY KeyTypes DEF Subjects
    <3>2. record'[KeyAt(d)].status = "COMPLETED" => record[KeyAt(d)].status = "COMPLETED"
      BY <1>6, <1>8, <3>1
    <3> QED
      BY <1>1, <2>2, <3>2 DEF Stored
  <2>4. Acked => Acked'
    BY <1>1, <2>2 DEF Acked, Held
  <2> QED
    BY <2>1, <2>3, <2>4 DEF IInv, AckInv
<1> QED
  BY <1>10, <1>11, <1>12 DEF IInv

LEMMA RunOK ==
  ASSUME IInv, NEW e \in Envs, NEW c \in job[e].todo, Run(e, c)
  PROVE  IInv'
<1>1. /\ current[e] = {<<c, "run">>}
      /\ current' = [current EXCEPT ![e] = {<<c, "save">>}]
      /\ effects' = [effects EXCEPT ![RequestAt(c)] = @ + 1]
      /\ UNCHANGED <<at, receives, hidden, job, faults>>
      /\ UNCHANGED <<now, record, cache, saves, savedAt>>
  BY DEF Run, sqsVars
<1>2. c \in Copies /\ c \in Subjects /\ Holder(c) /\ "run" \in Stages /\ "save" \in Stages
  BY <1>1, AtWork DEF IInv, Stages
<1>3. PICK q \in Requests : q = RequestAt(c)
  BY <1>2, KeyTypes
<1>4. effects \in [Requests -> Nat] /\ \A p \in Requests : effects[p] \in Nat
  BY DEF IInv, Base, TypeInv
<1>5. /\ effects' \in [Requests -> Nat] /\ effects'[q] = effects[q] + 1
      /\ \A p \in Requests \ {q} : effects'[p] = effects[p]
      /\ \A p \in Requests : effects'[p] \in Nat /\ effects'[p] >= effects[p]
  BY <1>1, <1>3, <1>4
<1>6. current'[e] = {<<c, "save">>} /\ \A f \in Envs \ {e} : current'[f] = current[f]
  BY <1>1 DEF IInv, Base, TypeInv
<1>7. Base'
  <2>1. TypeInv'
    BY <1>1, <1>2, <1>5 DEF IInv, Base, TypeInv
  <2>2. \A f \in Envs \ {e} : Locked(f)'
    <3>1. KeyAt(c) \in Keys
      BY <1>2, KeyTypes
    <3>2. \A f \in Envs \ {e} : \A d \in Copies : \A t \in Stages :
            <<d, t>> \in current[f] => KeyAt(d) # KeyAt(c)
      BY <1>1, <1>2, HeldAlone DEF IInv
    <3> QED
      BY <1>1, <1>5, <1>6, <3>1, <3>2, OthersLocked DEF IInv
  <2>3. Holder(c)' /\ c[2] \notin Junk
    BY <1>1, <1>2 DEF Holder, Subjects
  <2>4. effects'[RequestAt(c)] > 0
    BY <1>3, <1>4, <1>5
  <2>5. Locked(e)'
    BY <1>1, <1>6, <2>3, <2>4 DEF Locked
  <2>6. SqsInv'
    BY <1>1 DEF IInv, Base, SqsInv, SqsTypeOK, HeldOK, Held
  <2> QED
    BY <2>1, <2>2, <2>5, <2>6 DEF Base
<1>8. WindowInv'
  <2> SUFFICES ASSUME RequestsKeepKeys'
               PROVE  /\ \A d \in Subjects : Fresh(d)'
                      /\ \A p \in Requests : Counted(p)'
    BY DEF WindowInv
  <2>1. RequestsKeepKeys /\ WindowInv
    BY DEF RequestsKeepKeys, IInv
  <2>2. \A d \in Subjects : Fresh(d)'
    BY <1>1, <2>1 DEF WindowInv, Fresh
  <2>3. ~ Saving(q)
    <3> SUFFICES ASSUME NEW f \in Envs, NEW d \in Copies, RequestAt(d) = q,
                        <<d, "save">> \in current[f]
                 PROVE  FALSE
      BY SavingIs
    <3>1. d \in Subjects
      BY <1>2 DEF IInv, Base, Locked, Subjects
    <3>2. KeyAt(d) = KeyAt(c)
      BY <1>2, <1>3, <2>1, <3>1, SameKey
    <3>3. <<c, "run">> \in current[e]
      BY <1>1
    <3> QED
      BY <1>2, <3>2, <3>3, Alone DEF IInv
  <2>4. Counted(q)'
    <3>1. saves[q] \in Nat /\ faults \in Nat
      BY SqsTypes DEF IInv, Base, TypeInv
    <3>2. effects[q] <= saves[q] + faults + 0
      BY <2>1, <2>3 DEF WindowInv, Counted
    <3>3. Saving(q)'
      BY <1>2, <1>3, <1>6 DEF Saving, Doing
    <3>4. effects'[q] <= saves'[q] + faults' + 1
      BY <1>1, <1>4, <1>5, <3>1, <3>2
    <3> QED
      BY <3>3, <3>4 DEF Counted
  <2>5. \A p \in Requests \ {q} : Counted(p)'
    <3> SUFFICES ASSUME NEW p \in Requests \ {q}
                 PROVE  Counted(p)'
      OBVIOUS
    <3>1. Saving(p)' <=> Saving(p)
      <4>1. \A f \in Envs : \A d \in Copies \ {c} :
              <<d, "save">> \in current'[f] <=> <<d, "save">> \in current[f]
        BY <1>1, <1>6
      <4>2. RequestAt(c) # p
        BY <1>3
      <4> QED
        BY <4>1, <4>2 DEF Saving, Doing
    <3> QED
      BY <1>1, <1>5, <2>1, <3>1 DEF Counted, WindowInv
  <2> QED
    BY <2>2, <2>4, <2>5
<1>9. AckInv'
  <2>1. KeysTellRequests' => KeysTellRequests
    BY DEF KeysTellRequests
  <2>2. \A d \in Copies : Took(d) => Took(d)'
    <3> SUFFICES ASSUME NEW d \in Copies, Took(d)
                 PROVE  Took(d)'
      OBVIOUS
    <3>1. RequestAt(d) \in Requests
      BY KeyTypes
    <3> QED
      BY <1>1, <1>4, <1>5, <3>1 DEF Took
  <2>3. \A d \in Subjects : Stored(d) => Stored(d)'
    BY <1>1, <2>2 DEF Stored, Subjects
  <2>4. Acked => Acked'
    <3>1. \A f \in Envs : Held(f)' = Held(f) /\ Held(f) \subseteq Copies
      BY <1>1, SqsTypes DEF Held, IInv, Base
    <3> QED
      BY <1>1, <2>2, <3>1 DEF Acked
  <2> QED
    BY <2>1, <2>3, <2>4 DEF IInv, AckInv
<1> QED
  BY <1>7, <1>8, <1>9 DEF IInv

\* A record that is reported as failed is not acknowledged.
LEMMA NotAcked ==
  ASSUME IInv, NEW e \in Envs, NEW c, Handled(e, c, FALSE),
         UNCHANGED <<at, receives, hidden>>, faults' \in 0..MaxFaults
  PROVE  /\ SqsInv' /\ c \in Copies /\ c \in job[e].todo
         /\ \A f \in Envs \ {e} : job'[f] = job[f]
         /\ \A f \in Envs : /\ Held(f)' \subseteq Copies
                            /\ Held(f)' \ job'[f].todo \subseteq Held(f) \ job[f].todo
<1>1. /\ SqsInv /\ hidden' \in [Copies -> {"no", "lease", "delay"}]
      /\ UNCHANGED <<at, receives>> /\ FALSE \in BOOLEAN
      /\ \A d \in Copies \ {c} : hidden'[d] = hidden[d]
  BY SqsTypes DEF IInv, Base
<1>2. /\ SqsInv' /\ c \in job[e].todo /\ c \in Held(e) /\ c \in Copies
      /\ job'[e].batch = job[e].batch /\ job'[e].todo = job[e].todo \ {c}
      /\ job'[e].failed = job[e].failed \cup {c}
      /\ \A f \in Envs \ {e} : job'[f] = job[f]
  BY <1>1, HandledOK
<1>3. \A f \in Envs : Held(f) \subseteq Copies
  BY <1>1, SqsTypes
<1>4. Held(e)' = Held(e) \ {c} /\ \A f \in Envs \ {e} : Held(f)' = Held(f)
  BY <1>2 DEF Held
<1> QED
  BY <1>2, <1>3, <1>4

\* A request that was saved, or not, in the table and the caches, is as it was.
LEMMA AckedKeeps ==
  ASSUME UNCHANGED <<at, effects, savedAt>>, Acked,
         \A f \in Envs : /\ Held(f)' \subseteq Copies
                         /\ Held(f)' \ job'[f].todo \subseteq Held(f) \ job[f].todo
  PROVE  Acked'
<1>1. \A d : Took(d)' <=> Took(d)
  BY DEF Took
<1> QED
  BY <1>1 DEF Acked

LEMMA RunFailsOK ==
  ASSUME IInv, NEW e \in Envs, NEW c \in job[e].todo, RunFails(e, c)
  PROVE  IInv'
<1>1. /\ Fault("downstream") /\ current[e] = {<<c, "run">>}
      /\ current' = [current EXCEPT ![e] = {}]
      /\ record' = [record EXCEPT ![KeyAt(c)] = NoRecord]
      /\ cache' = [cache EXCEPT ![e][KeyAt(c)] = 0]
      /\ Handled(e, c, FALSE)
      /\ UNCHANGED <<at, receives, hidden>> /\ UNCHANGED <<now, effects, saves, savedAt>>
  BY DEF RunFails
<1>2. c \in Copies /\ c \in Subjects /\ Holder(c) /\ "run" \in Stages
  BY <1>1, AtWork DEF IInv, Stages
<1>3. PICK k \in Keys : k = KeyAt(c)
  BY <1>2, KeyTypes
<1>4. faults' = faults + 1 /\ faults' \in 0..MaxFaults
  BY <1>1, SqsFault DEF IInv, Base
<1>5. /\ SqsInv' /\ \A f \in Envs \ {e} : job'[f] = job[f]
      /\ \A f \in Envs : /\ Held(f)' \subseteq Copies
                         /\ Held(f)' \ job'[f].todo \subseteq Held(f) \ job[f].todo
  BY <1>1, <1>4, NotAcked
<1>6. NoRecord \in Records /\ NoRecord.status = "none"
  BY DEF NoRecord, Records
<1>7. record'[k] = NoRecord /\ \A j \in Keys \ {k} : record'[j] = record[j]
  BY <1>1, <1>3 DEF IInv, Base, TypeInv
<1>8. current'[e] = {} /\ \A f \in Envs \ {e} : current'[f] = current[f]
  BY <1>1 DEF IInv, Base, TypeInv
<1>9. /\ cache' \in [Envs -> [Keys -> Nat]]
      /\ \A f \in Envs : \A j \in Keys : cache'[f][j] = cache[f][j] \/ cache'[f][j] = 0
  BY <1>1, <1>3 DEF IInv, Base, TypeInv
<1>10. Base'
  <2>1. TypeInv'
    BY <1>1, <1>3, <1>6, <1>9 DEF IInv, Base, TypeInv
  <2>2. /\ effects' \in [Requests -> Nat]
        /\ \A q \in Requests : effects'[q] >= effects[q]
    BY <1>1 DEF IInv, Base, TypeInv
  <2>3. \A f \in Envs \ {e} : \A d \in Copies : \A t \in Stages :
          <<d, t>> \in current[f] => KeyAt(d) # k
    BY <1>1, <1>2, <1>3, HeldAlone DEF IInv
  <2>4. \A f \in Envs \ {e} : Locked(f)'
    BY <1>1, <1>5, <1>7, <1>8, <2>2, <2>3, OthersLocked DEF IInv
  <2>5. Locked(e)'
    BY <1>8 DEF Locked
  <2> QED
    BY <1>5, <2>1, <2>4, <2>5 DEF Base
<1>11. WindowInv'
  <2>1. RequestsKeepKeys' => RequestsKeepKeys
    BY DEF RequestsKeepKeys
  <2>2. record[k].status # "COMPLETED"
    BY <1>2, <1>3 DEF Holder
  <2>3. \A d \in Subjects : Fresh(d) => Fresh(d)'
    BY <1>1, <1>7, <2>2, FreshStays DEF IInv, Base
  <2>4. \A q \in Requests : Counted(q) => Counted(q)'
    BY <1>1, <1>4, FaultCounts DEF IInv
  <2> QED
    BY <2>1, <2>3, <2>4 DEF IInv, WindowInv
<1>12. AckInv'
  <2>1. KeysTellRequests' => KeysTellRequests
    BY DEF KeysTellRequests
  <2>2. \A d \in Subjects : Stored(d) => Stored(d)'
    <3> SUFFICES ASSUME NEW d \in Subjects, Stored(d)
                 PROVE  Stored(d)'
      OBVIOUS
    <3>1. KeyAt(d) \in Keys
      BY KeyTypes DEF Subjects
    <3>2. record'[KeyAt(d)].status = "COMPLETED" => record[KeyAt(d)].status = "COMPLETED"
      BY <1>6, <1>7, <3>1
    <3>3. \A f \in Envs : cache'[f][KeyAt(d)] > 0 => cache[f][KeyAt(d)] > 0
      BY <1>9, <3>1 DEF IInv, Base, TypeInv
    <3>4. Took(d)' <=> Took(d)
      BY <1>1 DEF Took
    <3> QED
      BY <3>2, <3>3, <3>4 DEF Stored
  <2>3. Acked => Acked'
    BY <1>1, <1>5, AckedKeeps
  <2> QED
    BY <2>1, <2>2, <2>3 DEF IInv, AckInv
<1> QED
  BY <1>10, <1>11, <1>12 DEF IInv

LEMMA TableFailsOK ==
  ASSUME IInv, NEW e \in Envs, NEW c \in job[e].todo, TableFails(e, c)
  PROVE  IInv'
<1>1. /\ Fault("table")
      /\ current[e] = {} \/ \E s \in Stages : current[e] = {<<c, s>>}
      /\ current' = [current EXCEPT ![e] = {}]
      /\ Handled(e, c, FALSE)
      /\ UNCHANGED <<at, receives, hidden>>
      /\ UNCHANGED <<now, record, cache, effects, saves, savedAt>>
  BY DEF TableFails, Begins
<1>4. faults' = faults + 1 /\ faults' \in 0..MaxFaults
  BY <1>1, SqsFault DEF IInv, Base
<1>5. /\ SqsInv' /\ \A f \in Envs \ {e} : job'[f] = job[f]
      /\ \A f \in Envs : /\ Held(f)' \subseteq Copies
                         /\ Held(f)' \ job'[f].todo \subseteq Held(f) \ job[f].todo
  BY <1>1, <1>4, NotAcked
<1>6. current'[e] = {} /\ \A f \in Envs \ {e} : current'[f] = current[f]
  BY <1>1 DEF IInv, Base, TypeInv
<1>7. Base'
  <2>1. TypeInv'
    BY <1>1 DEF IInv, Base, TypeInv
  <2>4. \A f \in Envs \ {e} : Locked(f)'
    BY <1>1, <1>5, <1>6 DEF IInv, Base, Locked, Holder
  <2>5. Locked(e)'
    BY <1>6 DEF Locked
  <2> QED
    BY <1>5, <2>1, <2>4, <2>5 DEF Base
<1>8. WindowInv'
  <2>1. RequestsKeepKeys' => RequestsKeepKeys
    BY DEF RequestsKeepKeys
  <2>2. \A d \in Subjects : Fresh(d) => Fresh(d)'
    BY <1>1 DEF Fresh
  <2>3. \A q \in Requests : Counted(q) => Counted(q)'
    BY <1>1, <1>4, FaultCounts DEF IInv
  <2> QED
    BY <2>1, <2>2, <2>3 DEF IInv, WindowInv
<1>9. AckInv'
  <2>1. KeysTellRequests' => KeysTellRequests
    BY DEF KeysTellRequests
  <2>2. \A d \in Subjects : Stored(d) => Stored(d)'
    BY <1>1 DEF Stored, Took
  <2>3. Acked => Acked'
    BY <1>1, <1>5, AckedKeeps
  <2> QED
    BY <2>1, <2>2, <2>3 DEF IInv, AckInv
<1> QED
  BY <1>7, <1>8, <1>9 DEF IInv

LEMMA DieOK ==
  ASSUME IInv, NEW e \in Envs, Die(e)
  PROVE  IInv'
<1>1. /\ Fault("crash") /\ FailBatch(e)
      /\ current' = [current EXCEPT ![e] = {}]
      /\ cache' = [cache EXCEPT ![e] = [k \in Keys |-> 0]]
      /\ UNCHANGED <<now, record, effects, saves, savedAt>>
  BY DEF Die, Crash
<1>2. faults' = faults + 1 /\ faults' \in 0..MaxFaults
  BY <1>1, SqsFault DEF IInv, Base
<1>3. /\ SqsInv' /\ job'[e] = Idle /\ \A f \in Envs \ {e} : job'[f] = job[f]
      /\ UNCHANGED <<at, receives, hidden>>
  BY <1>1, <1>2, FailBatchOK DEF IInv, Base
<1>4. current'[e] = {} /\ \A f \in Envs \ {e} : current'[f] = current[f]
  BY <1>1 DEF IInv, Base, TypeInv
<1>5. PICK z : z = [k \in Keys |-> 0]
  OBVIOUS
<1>6. /\ z \in [Keys -> Nat] /\ cache' \in [Envs -> [Keys -> Nat]]
      /\ \A f \in Envs : \A j \in Keys : cache'[f][j] = cache[f][j] \/ cache'[f][j] = 0
  BY <1>1, <1>5 DEF IInv, Base, TypeInv
<1>7. Base'
  <2>1. TypeInv'
    BY <1>1, <1>6 DEF IInv, Base, TypeInv
  <2>2. \A f \in Envs \ {e} : Locked(f)'
    BY <1>1, <1>3, <1>4 DEF IInv, Base, Locked, Holder
  <2>3. Locked(e)'
    BY <1>4 DEF Locked
  <2> QED
    BY <1>3, <2>1, <2>2, <2>3 DEF Base
<1>8. WindowInv'
  <2>1. RequestsKeepKeys' => RequestsKeepKeys
    BY DEF RequestsKeepKeys
  <2>2. \A d \in Subjects : Fresh(d) => Fresh(d)'
    BY <1>1 DEF Fresh
  <2>3. \A q \in Requests : Counted(q) => Counted(q)'
    BY <1>1, <1>2, FaultCounts DEF IInv
  <2> QED
    BY <2>1, <2>2, <2>3 DEF IInv, WindowInv
<1>9. AckInv'
  <2>1. KeysTellRequests' => KeysTellRequests
    BY DEF KeysTellRequests
  <2>2. \A d \in Subjects : Stored(d) => Stored(d)'
    <3> SUFFICES ASSUME NEW d \in Subjects, Stored(d)
                 PROVE  Stored(d)'
      OBVIOUS
    <3>1. KeyAt(d) \in Keys
      BY KeyTypes DEF Subjects
    <3>2. \A f \in Envs : cache'[f][KeyAt(d)] > 0 => cache[f][KeyAt(d)] > 0
      BY <1>6, <3>1 DEF IInv, Base, TypeInv
    <3>3. Took(d)' <=> Took(d)
      BY <1>1 DEF Took
    <3> QED
      BY <1>1, <3>2, <3>3 DEF Stored
  <2>3. Acked => Acked'
    <3>1. Held(e)' = {} /\ \A f \in Envs \ {e} : Held(f)' = Held(f)
      BY <1>3, IdleOK DEF Held
    <3>2. \A f \in Envs : Held(f) \subseteq Copies
      BY SqsTypes DEF IInv, Base
    <3> QED
      BY <1>1, <1>3, <3>1, <3>2, AckedKeeps
  <2> QED
    BY <2>1, <2>2, <2>3 DEF IInv, AckInv
<1> QED
  BY <1>7, <1>8, <1>9 DEF IInv

LEMMA SaveOK ==
  ASSUME IInv, NEW e \in Envs, NEW c \in job[e].todo, Save(e, c)
  PROVE  IInv'
<1>1. /\ current[e] = {<<c, "save">>}
      /\ current' = [current EXCEPT ![e] = {}]
      /\ cache' = [cache EXCEPT ![e][KeyAt(c)] = now + ExpiresAfter]
      /\ saves' = [saves EXCEPT ![RequestAt(c)] = @ + 1]
      /\ savedAt' = [savedAt EXCEPT ![RequestAt(c)] = now]
      /\ Handled(e, c, TRUE)
      /\ UNCHANGED <<at, receives, hidden, faults>> /\ UNCHANGED <<now, effects>>
  BY DEF Save
<1>2. /\ c \in Copies /\ c \in Subjects /\ Holder(c) /\ "save" \in Stages
      /\ effects[RequestAt(c)] > 0
  BY <1>1, AtWork DEF IInv, Stages
<1>3. PICK k \in Keys : k = KeyAt(c)
  BY <1>2, KeyTypes
<1>4. PICK q \in Requests : q = RequestAt(c)
  BY <1>2, KeyTypes
<1>5. PICK x \in Nat : x = now + ExpiresAfter
  BY ItemTypes DEF IInv, Base
<1>6. PICK r : r = [status |-> "COMPLETED", by |-> {}, expiry |-> x]
  OBVIOUS
<1>7. record[k] \in Records /\ record \in [Keys -> Records]
  BY DEF IInv, Base, TypeInv
<1>8. r \in Records /\ r.status = "COMPLETED" /\ r.expiry = x
  BY <1>6, <1>7 DEF Records
<1>9. record' = [record EXCEPT ![k] = r]
  BY <1>3, <1>5, <1>6, <1>7 DEF Save
<1>10. record'[k] = r /\ \A j \in Keys \ {k} : record'[j] = record[j]
  BY <1>7, <1>9
<1>11. current'[e] = {} /\ \A f \in Envs \ {e} : current'[f] = current[f]
  BY <1>1 DEF IInv, Base, TypeInv
<1>12. /\ cache' \in [Envs -> [Keys -> Nat]]
       /\ \A f \in Envs : \A j \in Keys \ {k} : cache'[f][j] = cache[f][j]
  BY <1>1, <1>3, <1>5 DEF IInv, Base, TypeInv
<1>13. /\ saves' \in [Requests -> Nat] /\ saves'[q] = saves[q] + 1
       /\ \A p \in Requests \ {q} : saves'[p] = saves[p]
       /\ savedAt' \in [Requests -> Nat] /\ savedAt'[q] = now
       /\ \A p \in Requests \ {q} : savedAt'[p] = savedAt[p]
       /\ now \in Nat /\ now > 0
  BY <1>1, <1>4 DEF IInv, Base, TypeInv
<1>14. /\ SqsInv' /\ c \in Held(e)
       /\ job'[e].batch = job[e].batch /\ job'[e].todo = job[e].todo \ {c}
       /\ job'[e].failed = job[e].failed
       /\ \A f \in Envs \ {e} : job'[f] = job[f]
  <2>1. /\ SqsInv /\ hidden' \in [Copies -> {"no", "lease", "delay"}]
        /\ faults' \in 0..MaxFaults /\ UNCHANGED <<at, receives>> /\ TRUE \in BOOLEAN
        /\ hidden' = hidden /\ \A d \in Copies \ {c} : hidden'[d] = hidden[d]
    BY <1>1, SqsTypes DEF IInv, Base
  <2> QED
    BY <1>1, <2>1, HandledOK
<1>15. Base'
  <2>1. TypeInv'
    BY <1>1, <1>8, <1>9, <1>12, <1>13 DEF IInv, Base, TypeInv
  <2>2. /\ effects' \in [Requests -> Nat]
        /\ \A p \in Requests : effects'[p] >= effects[p]
    BY <1>1 DEF IInv, Base, TypeInv
  <2>3. \A f \in Envs \ {e} : \A d \in Copies : \A t \in Stages :
          <<d, t>> \in current[f] => KeyAt(d) # k
    BY <1>1, <1>2, <1>3, HeldAlone DEF IInv
  <2>4. \A f \in Envs \ {e} : Locked(f)'
    BY <1>1, <1>10, <1>11, <1>14, <2>2, <2>3, OthersLocked DEF IInv
  <2>5. Locked(e)'
    BY <1>11 DEF Locked
  <2> QED
    BY <1>14, <2>1, <2>4, <2>5 DEF Base
<1>16. WindowInv'
  <2> SUFFICES ASSUME RequestsKeepKeys'
               PROVE  /\ \A d \in Subjects : Fresh(d)'
                      /\ \A p \in Requests : Counted(p)'
    BY DEF WindowInv
  <2>1. RequestsKeepKeys /\ WindowInv
    BY DEF RequestsKeepKeys, IInv
  <2>2. ASSUME NEW d \in Subjects
        PROVE  Fresh(d)'
    <3>1. /\ d \in Copies /\ KeyAt(d) \in Keys /\ RequestAt(d) \in Requests
          /\ ExpiresAfter \in Nat /\ savedAt[RequestAt(d)] \in Nat
      BY KeyTypes, IdempotentAssumption DEF Subjects, IInv, Base, TypeInv
    <3>2. CASE RequestAt(d) = q
      <4>1. KeyAt(d) = k
        BY <1>2, <1>3, <1>4, <2>1, <3>2, SameKey
      <4>2. savedAt'[RequestAt(d)] = now
        BY <1>13, <3>2
      <4>3. record'[KeyAt(d)].status = "COMPLETED" /\ record'[KeyAt(d)].expiry = x
        BY <1>8, <1>10, <4>1
      <4> QED
        BY <1>5, <1>13, <3>1, <4>2, <4>3 DEF Fresh
    <3>3. CASE RequestAt(d) # q
      <4>1. savedAt'[RequestAt(d)] = savedAt[RequestAt(d)]
        BY <1>13, <3>1, <3>3
      <4>2. Fresh(d)
        BY <2>1 DEF WindowInv
      <4>3. CASE KeyAt(d) = k
        <5>1. record[KeyAt(d)].status # "COMPLETED"
          BY <1>2, <1>3, <4>3 DEF Holder
        <5> QED
          BY <1>1, <4>1, <4>2, <5>1 DEF Fresh
      <4>4. CASE KeyAt(d) # k
        <5>1. record'[KeyAt(d)] = record[KeyAt(d)]
          BY <1>10, <3>1, <4>4
        <5> QED
          BY <1>1, <4>1, <4>2, <5>1 DEF Fresh
      <4> QED
        BY <4>3, <4>4
    <3> QED
      BY <3>2, <3>3
  <2>3. Counted(q)'
    <3>1. /\ effects[q] \in Nat /\ saves[q] \in Nat /\ faults \in Nat
      BY SqsTypes DEF IInv, Base, TypeInv
    <3>2. effects[q] <= saves[q] + faults + 1
      BY <2>1, <3>1 DEF WindowInv, Counted
    <3>3. effects'[q] <= saves'[q] + faults' + 0
      BY <1>1, <1>13, <3>1, <3>2
    <3> QED
      BY <1>1, <1>13, <3>1, <3>3 DEF Counted
  <2>4. \A p \in Requests \ {q} : Counted(p)'
    <3> SUFFICES ASSUME NEW p \in Requests \ {q}
                 PROVE  Counted(p)'
      OBVIOUS
    <3>1. Saving(p)' <=> Saving(p)
      <4>1. \A f \in Envs : \A d \in Copies \ {c} :
              <<d, "save">> \in current'[f] <=> <<d, "save">> \in current[f]
        BY <1>1, <1>11
      <4>2. RequestAt(c) # p
        BY <1>4
      <4> QED
        BY <4>1, <4>2 DEF Saving, Doing
    <3> QED
      BY <1>1, <1>13, <2>1, <3>1 DEF Counted, WindowInv
  <2> QED
    BY <2>2, <2>3, <2>4
<1>17. AckInv'
  <2> SUFFICES ASSUME KeysTellRequests'
               PROVE  Acked' /\ \A d \in Subjects : Stored(d)'
    BY DEF AckInv
  <2>1. KeysTellRequests /\ Acked /\ \A d \in Subjects : Stored(d)
    BY DEF KeysTellRequests, IInv, AckInv
  <2>2. \A d \in Copies : Took(d) => Took(d)'
    <3> SUFFICES ASSUME NEW d \in Copies, Took(d)
                 PROVE  Took(d)'
      OBVIOUS
    <3>1. RequestAt(d) \in Requests
      BY KeyTypes
    <3> QED
      BY <1>1, <1>13, <3>1 DEF Took
  <2>3. \A d \in Subjects : RequestAt(d) = q => Took(d)'
    BY <1>1, <1>2, <1>4, <1>13 DEF Took, Subjects
  <2>4. ASSUME NEW d \in Subjects
        PROVE  Stored(d)'
    <3>1. d \in Copies /\ KeyAt(d) \in Keys
      BY KeyTypes DEF Subjects
    <3>2. CASE KeyAt(d) = k
      <4>1. RequestAt(d) = q
        BY <1>2, <1>3, <1>4, <2>1, <3>2, SameKey
      <4> QED
        BY <2>3, <4>1 DEF Stored
    <3>3. CASE KeyAt(d) # k
      <4>1. /\ record'[KeyAt(d)] = record[KeyAt(d)]
            /\ \A f \in Envs : cache'[f][KeyAt(d)] = cache[f][KeyAt(d)]
        BY <1>10, <1>12, <3>1, <3>3
      <4> QED
        BY <2>1, <2>2, <3>1, <4>1 DEF Stored
    <3> QED
      BY <3>2, <3>3
  <2>5. Took(c)'
    BY <1>2, <1>4, <2>3
  <2>6. /\ Held(e)' = Held(e) /\ \A f \in Envs \ {e} : Held(f)' = Held(f)
        /\ \A f \in Envs : Held(f) \subseteq Copies
    BY <1>14, SqsTypes DEF Held, IInv, Base
  <2>7. \A f \in Envs : \A d \in Held(f)' \ job'[f].todo :
          d \in Copies /\ (d \in Held(f) \ job[f].todo \/ d = c)
    BY <1>14, <2>6
  <2>8. Acked'
    BY <1>1, <2>1, <2>2, <2>5, <2>7 DEF Acked
  <2> QED
    BY <2>4, <2>8
<1> QED
  BY <1>15, <1>16, <1>17 DEF IInv

LEMMA LapseOK ==
  ASSUME IInv, NEW k \in Keys, Lapse(k)
  PROVE  IInv'
<1>1. /\ record[k].by # {}
      /\ \A c \in record[k].by : \A e \in Envs : c \notin job[e].batch
      /\ record' = [record EXCEPT ![k].by = {}]
      /\ UNCHANGED <<at, receives, hidden, job, faults>>
      /\ UNCHANGED <<now, cache, current, effects, saves, savedAt>>
  BY DEF Lapse, sqsVars
<1>2. PICK r : r = [record[k] EXCEPT !.by = {}]
  OBVIOUS
<1>3. record[k] \in Records /\ record \in [Keys -> Records]
  BY DEF IInv, Base, TypeInv
<1>4. r \in Records /\ r.status = record[k].status /\ r.expiry = record[k].expiry
  BY <1>1, <1>2, <1>3 DEF Records
<1>5. record' = [record EXCEPT ![k] = r]
  BY <1>1, <1>2, <1>3
<1>6. record'[k] = r /\ \A j \in Keys \ {k} : record'[j] = record[j]
  BY <1>3, <1>5
<1>7. Base'
  <2>1. TypeInv'
    BY <1>1, <1>4, <1>5 DEF IInv, Base, TypeInv
  <2>2. SqsInv'
    BY <1>1 DEF IInv, Base, SqsInv, SqsTypeOK, HeldOK, Held
  <2>3. ASSUME NEW f \in Envs, NEW d \in Copies, NEW s \in Stages, <<d, s>> \in current[f]
        PROVE  Holder(d)'
    <3>1. Holder(d) /\ KeyAt(d) \in Keys
      BY <2>3, KeyTypes DEF IInv, Base, Locked
    <3>2. d \in job[f].batch
      BY <2>3, SqsTypes DEF IInv, Base, Locked
    <3>3. KeyAt(d) # k
      BY <1>1, <3>1, <3>2 DEF Holder
    <3>4. record'[KeyAt(d)] = record[KeyAt(d)]
      BY <1>6, <3>1, <3>3
    <3> QED
      BY <1>1, <3>1, <3>4 DEF Holder
  <2>4. \A f \in Envs : Locked(f)'
    BY <1>1, <2>3 DEF IInv, Base, Locked
  <2> QED
    BY <2>1, <2>2, <2>4 DEF Base
<1>8. WindowInv'
  <2>1. RequestsKeepKeys' => RequestsKeepKeys
    BY DEF RequestsKeepKeys
  <2>2. \A d \in Subjects : Fresh(d) => Fresh(d)'
    <3> SUFFICES ASSUME NEW d \in Subjects, Fresh(d) PROVE Fresh(d)'
      OBVIOUS
    <3>1. KeyAt(d) \in Keys
      BY KeyTypes DEF Subjects
    <3>2. /\ record'[KeyAt(d)].status = record[KeyAt(d)].status
          /\ record'[KeyAt(d)].expiry = record[KeyAt(d)].expiry
      BY <1>4, <1>6, <3>1
    <3> QED
      BY <1>1, <3>2 DEF Fresh
  <2>3. \A q \in Requests : Counted(q) => Counted(q)'
    BY <1>1 DEF Counted, Saving, Doing
  <2> QED
    BY <2>1, <2>2, <2>3 DEF IInv, WindowInv
<1>9. AckInv'
  <2>1. KeysTellRequests' => KeysTellRequests
    BY DEF KeysTellRequests
  <2>2. \A d \in Copies : Took(d)' <=> Took(d)
    BY <1>1 DEF Took
  <2>3. \A d \in Subjects : Stored(d) => Stored(d)'
    <3> SUFFICES ASSUME NEW d \in Subjects, Stored(d)
                 PROVE  Stored(d)'
      OBVIOUS
    <3>1. d \in Copies /\ KeyAt(d) \in Keys
      BY KeyTypes DEF Subjects
    <3>2. record'[KeyAt(d)].status = "COMPLETED" => record[KeyAt(d)].status = "COMPLETED"
      BY <1>4, <1>6, <3>1
    <3> QED
      BY <1>1, <2>2, <3>1, <3>2 DEF Stored
  <2>4. Acked => Acked'
    <3>1. \A f \in Envs : Held(f)' = Held(f) /\ Held(f) \subseteq Copies
      BY <1>1, SqsTypes DEF Held, IInv, Base
    <3> QED
      BY <1>1, <2>2, <3>1 DEF Acked
  <2> QED
    BY <2>1, <2>3, <2>4 DEF IInv, AckInv
<1> QED
  BY <1>7, <1>8, <1>9 DEF IInv

\* A record does not expire under the invocation that holds it.
LEMMA TickOK ==
  ASSUME IInv, Tick
  PROVE  IInv'
<1>1. /\ \A k \in Keys : record[k].by # {} => now < record[k].expiry
      /\ now' = now + 1
      /\ UNCHANGED <<at, receives, hidden, job, faults>>
      /\ UNCHANGED <<record, cache, current, effects, saves, savedAt>>
  BY DEF Tick, sqsVars
<1>2. now \in Nat /\ now > 0 /\ ExpiresAfter \in Nat
  BY IdempotentAssumption DEF IInv, Base, TypeInv
<1>3. Base'
  <2>1. TypeInv'
    BY <1>1, <1>2 DEF IInv, Base, TypeInv
  <2>2. SqsInv'
    BY <1>1 DEF IInv, Base, SqsInv, SqsTypeOK, HeldOK, Held
  <2>3. ASSUME NEW f \in Envs, NEW d \in Copies, NEW s \in Stages, <<d, s>> \in current[f]
        PROVE  Holder(d)'
    <3>1. Holder(d) /\ KeyAt(d) \in Keys
      BY <2>3, KeyTypes DEF IInv, Base, Locked
    <3>2. record[KeyAt(d)].by # {}
      BY <3>1 DEF Holder
    <3>3. now < record[KeyAt(d)].expiry /\ record[KeyAt(d)].expiry \in Nat
      BY <1>1, <3>1, <3>2, ItemTypes DEF IInv, Base
    <3>4. now' <= record[KeyAt(d)].expiry
      BY <1>1, <1>2, <3>3
    <3> QED
      BY <1>1, <3>1, <3>4 DEF Holder
  <2>4. \A f \in Envs : Locked(f)'
    BY <1>1, <2>3 DEF IInv, Base, Locked
  <2> QED
    BY <2>1, <2>2, <2>4 DEF Base
<1>4. WindowInv'
  <2>1. RequestsKeepKeys' => RequestsKeepKeys
    BY DEF RequestsKeepKeys
  <2>2. \A d \in Subjects : Fresh(d) => Fresh(d)'
    <3>1. \A d \in Subjects : savedAt[RequestAt(d)] \in Nat
      BY KeyTypes DEF Subjects, IInv, Base, TypeInv
    <3> QED
      BY <1>1, <1>2, <3>1 DEF Fresh
  <2>3. \A q \in Requests : Counted(q) => Counted(q)'
    BY <1>1 DEF Counted, Saving, Doing
  <2> QED
    BY <2>1, <2>2, <2>3 DEF IInv, WindowInv
<1>5. AckInv'
  <2>1. KeysTellRequests' => KeysTellRequests
    BY DEF KeysTellRequests
  <2>2. \A d \in Copies : Took(d)' <=> Took(d)
    BY <1>1 DEF Took
  <2>3. \A d \in Subjects : Stored(d) => Stored(d)'
    BY <1>1, <2>2 DEF Stored, Subjects
  <2>4. Acked => Acked'
    <3>1. \A f \in Envs : Held(f)' = Held(f) /\ Held(f) \subseteq Copies
      BY <1>1, SqsTypes DEF Held, IInv, Base
    <3> QED
      BY <1>1, <2>2, <3>1 DEF Acked
  <2> QED
    BY <2>1, <2>3, <2>4 DEF IInv, AckInv
<1> QED
  BY <1>3, <1>4, <1>5 DEF IInv

-----------------------------------------------------------------------------
LEMMA InitOK == Init => IInv
<1> SUFFICES ASSUME Init
             PROVE  IInv
  OBVIOUS
<1>1. SqsInv
  BY SqsInitOK DEF Init
<1>2. NoRecord \in Records /\ NoRecord.status = "none"
  BY DEF NoRecord, Records
<1>3. TypeInv
  BY <1>2 DEF Init, TypeInv
<1>4. \A e \in Envs : Locked(e)
  BY DEF Init, Locked
<1>5. \A c \in Subjects : Fresh(c) /\ Stored(c)
  <2> SUFFICES ASSUME NEW c \in Subjects
               PROVE  Fresh(c) /\ Stored(c)
    OBVIOUS
  <2>1. KeyAt(c) \in Keys /\ RequestAt(c) \in Requests
    BY KeyTypes DEF Subjects
  <2> QED
    BY <1>2, <2>1 DEF Init, Fresh, Stored
<1>6. \A q \in Requests : Counted(q)
  BY <1>1, SqsTypes DEF Init, Counted
<1>7. Acked
  <2>1. \A c \in Copies : at[c] # "deleted"
    BY DEF Init, SqsInit
  <2>2. \A e \in Envs : Held(e) = {}
    BY IdleOK DEF Init, SqsInit, Held
  <2> QED
    BY <2>1, <2>2 DEF Acked
<1> QED
  BY <1>1, <1>3, <1>4, <1>5, <1>6, <1>7 DEF IInv, Base, WindowInv, AckInv

\* IInv holds in every state of every behaviour.
THEOREM Invariance == Spec => []IInv
<1>1. IInv /\ [Next]_vars => IInv'
  <2> SUFFICES ASSUME IInv, [Next]_vars
               PROVE  IInv'
    OBVIOUS
  <2>1. CASE Tick
    BY <2>1, TickOK
  <2>2. CASE \E c \in Copies : Send(c) \/ Aws(c)
    BY <2>2, SendOK, AwsOK
  <2>3. CASE \E e \in Envs : Handle(e) \/ Die(e)
    <3>1. PICK e \in Envs : Handle(e) \/ Die(e)
      BY <2>3
    <3> QED
      BY <3>1, LockOK, ReplayOK, BusyOK, RejectOK, RunOK, SaveOK, HandleEnds, DieOK
         DEF Handle
  <2>4. CASE \E e \in Envs : \E c \in job[e].todo : RunFails(e, c) \/ TableFails(e, c)
    BY <2>4, RunFailsOK, TableFailsOK
  <2>5. CASE \E k \in Keys : Lapse(k)
    BY <2>5, LapseOK
  <2>6. CASE UNCHANGED vars
    <3>1. /\ UNCHANGED <<at, receives, hidden, job, faults>>
          /\ UNCHANGED <<now, record, cache, current, effects, saves, savedAt>>
      BY <2>6 DEF vars, ipVars
    <3>2. SqsInv'
      BY <3>1 DEF IInv, Base, SqsInv, SqsTypeOK, HeldOK, Held
    <3>3. Base' /\ WindowInv'
      BY <3>1, <3>2, Quiet DEF IInv
    <3>4. \A e \in Envs : Held(e)' = Held(e) /\ Held(e) \subseteq Copies
      BY <3>1, SqsTypes DEF Held, IInv, Base
    <3>5. AckInv'
      BY <3>1, <3>4, QuietAck DEF IInv
    <3> QED
      BY <3>3, <3>5 DEF IInv
  <2> QED
    BY <2>1, <2>2, <2>3, <2>4, <2>5, <2>6 DEF Next
<1> QED
  BY <1>1, InitOK, PTL DEF Spec

-----------------------------------------------------------------------------
(* What follows from it.                                                   *)

\* A side effect runs again, before its result is saved, only for a fault: two
\* submissions of a request that keep its key are never both at work.
THEOREM EffectPerSave ==
  ASSUME RequestsKeepKeys
  PROVE  Spec => []OneEffectPerSave
<1>1. IInv => OneEffectPerSave
  BY DEF IInv, WindowInv, Counted, Saving, OneEffectPerSave
<1> QED
  BY <1>1, Invariance, PTL

\* No message is deleted whose request has not taken effect, if a key is of one
\* request.
THEOREM AcknowledgedMeansDone ==
  ASSUME KeysTellRequests
  PROVE  Spec => []AcknowledgedTookEffect
<1>1. IInv => AcknowledgedTookEffect
  BY DEF IInv, AckInv, Acked, Took, AcknowledgedTookEffect
<1> QED
  BY <1>1, Invariance, PTL

\* The dedupe window holds for every window up to the expiry that Powertools is
\* configured with, and not longer: a longer idempotency_ttl_seconds is not kept.
THEOREM WindowIsKept ==
  ASSUME RequestsKeepKeys, Window \in Nat, Window <= ExpiresAfter
  PROVE  Spec => OncePerWindow
<1>1. IInv /\ [Next]_vars =>
        [\A q \in Requests :
           effects'[q] > effects[q] => savedAt[q] = 0 \/ now > savedAt[q] + Window]_vars
  <2> SUFFICES ASSUME IInv, Next, NEW q \in Requests, effects'[q] > effects[q]
               PROVE  savedAt[q] = 0 \/ now > savedAt[q] + Window
    BY DEF vars, ipVars
  <2>1. effects[q] \in Nat /\ effects \in [Requests -> Nat] /\ savedAt[q] \in Nat
        /\ now \in Nat /\ ExpiresAfter \in Nat
    BY IdempotentAssumption DEF IInv, Base, TypeInv
  <2>2. PICK e \in Envs : \E c \in job[e].todo : Run(e, c)
    <3>1. effects' # effects
      BY <2>1
    <3> QED
      BY <3>1 DEF Next, Handle, Tick, Send, Aws, Lock, Replay, Busy, Refused, Reject, Save,
                  Die, RunFails, TableFails, Lapse, ipVars
  <2>3. PICK c \in job[e].todo :
          /\ current[e] = {<<c, "run">>}
          /\ effects' = [effects EXCEPT ![RequestAt(c)] = @ + 1]
    BY <2>2 DEF Run
  <2>4. RequestAt(c) = q
    BY <2>1, <2>3
  <2>5. c \in Subjects /\ Holder(c)
    BY <2>2, <2>3, AtWork DEF IInv, Stages
  <2>6. savedAt[q] = 0 \/ now > savedAt[q] + ExpiresAfter
    BY <2>4, <2>5 DEF IInv, WindowInv, Fresh, Holder
  <2> QED
    BY <2>1, <2>6
<1> QED
  BY <1>1, Invariance, PTL DEF Spec, OncePerWindow

-----------------------------------------------------------------------------
(* Fan-out, as an instance on the same queues.                             *)

CONSTANTS Subscribed, Rejected, Misnamed
VARIABLE published

Fan == INSTANCE FanOut WITH Poison <- Rejected

\* The instance has the operators of Sqs under its own name.
LEMMA FanNames ==
  /\ Fan!Copies = Copies /\ Fan!Envs = Envs
  /\ Fan!SqsInit <=> SqsInit
  /\ \A c, from, to : Fan!Move(c, from, to) <=> Move(c, from, to)
  /\ \A e, c, ok : Fan!Handled(e, c, ok) <=> Handled(e, c, ok)
  /\ \A e : Fan!Respond(e) <=> Respond(e)
  /\ \A e : Fan!FailBatch(e) <=> FailBatch(e)
  /\ \A kind : Fan!Fault(kind) <=> Fault(kind)
BY DEF Fan!Copies, Copies, Fan!Envs, Envs, Fan!SqsInit, SqsInit, Fan!Idle, Idle,
   Fan!Move, Move, Fan!Handled, Handled, Fan!Respond, Respond, Fan!FailBatch, FailBatch,
   Fan!Fault, Fault

LEMMA FanSqs ==
  ASSUME NEW c, Fan!Sqs(c)
  PROVE  Sqs(c)
<1>1. Fan!Copies = Copies /\ Fan!Envs = Envs /\ Fan!Idle = Idle
  BY DEF Fan!Copies, Copies, Fan!Envs, Envs, Fan!Idle, Idle
<1>2. \A d : Fan!Receivable(d) <=> Receivable(d)
  BY DEF Fan!Receivable, Receivable, Fan!Visible, Visible
<1>3. \A e, B : Fan!Receive(e, B) <=> Receive(e, B)
  BY DEF Fan!Receive, Receive, Fan!Receivable, Receivable, Fan!Visible, Visible,
     Fan!Copies, Copies, Fan!Idle, Idle, Fan!Cardinality, Cardinality
<1>4. Fan!Redrive(c) <=> Redrive(c)
  BY DEF Fan!Redrive, Redrive, Fan!Visible, Visible, Fan!Move, Move
<1>5. Fan!Reappear(c) <=> Reappear(c)
  BY <1>1 DEF Fan!Reappear, Reappear
<1>6. CASE Fan!Redrive(c) \/ Fan!Reappear(c)
  BY <1>4, <1>5, <1>6 DEF Sqs
<1>7. ASSUME NEW w \in Workers,
             NEW B \in SUBSET {d \in Copies : Receivable(d) /\ d[1] = c[1]},
             c \in B, Receive(<<c[1], w>>, B)
      PROVE  Sqs(c)
  BY <1>7 DEF Sqs
<1>8. {d \in Fan!Copies : Fan!Receivable(d) /\ d[1] = c[1]}
        = {d \in Copies : Receivable(d) /\ d[1] = c[1]}
  BY <1>1, <1>2
<1> QED
  BY <1>3, <1>6, <1>7, <1>8 DEF Fan!Sqs

\* A record the invocation will acknowledge was processed or is unparseable; a copy
\* that is on its way was published.
Deserved(c) == processed[c] > 0 \/ c[2] \in Unparsed
FanInv ==
  /\ SqsInv
  /\ processed \in [Copies -> Nat]
  /\ \A c \in Copies : at[c] # "out" => c[2] \in published
  /\ \A e \in Envs : \A c \in Held(e) : c \in job[e].todo \/ Deserved(c)

\* A step that leaves the topic and the effects alone.
LEMMA FanKept ==
  ASSUME FanInv, SqsInv', UNCHANGED <<published, processed>>,
         \A c \in Copies : at'[c] = at[c] \/ at[c] # "out",
         \A e \in Envs : \A c \in Held(e)' :
           c \in job'[e].todo \/ (c \in Held(e) /\ c \notin job[e].todo)
  PROVE  FanInv'
BY DEF FanInv, Deserved

\* SQS and SNS.
LEMMA AwsKeepsFan ==
  ASSUME FanInv, NEW c \in Copies, Fan!Aws(c)
  PROVE  FanInv'
<1>1. SqsInv /\ UNCHANGED <<published, processed>>
  BY DEF Fan!Aws, Fan!Deliver, FanInv
<1>2. CASE Fan!Deliver(c)
  <2>1. /\ Move(c, "topic", "queue") /\ at[c] = "topic" /\ at' = [at EXCEPT ![c] = "queue"]
        /\ UNCHANGED <<receives, hidden, job, faults>>
    BY <1>2, FanNames DEF Fan!Deliver, Move
  <2>2. SqsInv'
    BY <1>1, <2>1, MoveOK, SqsTypes
  <2> QED
    BY <1>1, <2>1, <2>2, SqsTypes, FanKept DEF Held
<1>3. ASSUME NEW e \in Envs, NEW B \in SUBSET Copies, Receive(e, B) PROVE FanInv'
  <2>1. /\ SqsInv' /\ at' = at
        /\ job' = [job EXCEPT ![e] = [batch |-> B, todo |-> B, failed |-> {}]]
    BY <1>1, <1>3, ReceiveOK
  <2>2. /\ \A f \in Envs \ {e} : job'[f] = job[f]
        /\ job'[e].batch = B /\ job'[e].todo = B
    BY <1>1, <2>1, SqsTypes
  <2> QED
    BY <1>1, <2>1, <2>2, FanKept DEF Held
<1>4. CASE Redrive(c)
  BY <1>1, <1>4, RedriveOK, FanKept, SqsTypes DEF Held
<1>5. CASE Reappear(c)
  BY <1>1, <1>5, ReappearOK, FanKept DEF Held
<1> QED
  BY <1>2, <1>3, <1>4, <1>5, FanSqs, SqsSteps DEF Fan!Aws

\* What comes before the queue.
LEMMA TopicKeepsFan ==
  ASSUME FanInv
  PROVE  /\ \A m \in Messages : Fan!Publish(m) => FanInv'
         /\ \A c \in Copies : Fan!DeliveryFails(c) => FanInv'
<1>0. SqsInv
  BY DEF FanInv
<1>1. ASSUME NEW m \in Messages, Fan!Publish(m) PROVE FanInv'
  <2>1. /\ m \notin published /\ published' = published \cup {m}
        /\ at' = [c \in Copies |-> IF c \in Subscribed /\ c[2] = m THEN "topic" ELSE at[c]]
        /\ UNCHANGED <<receives, hidden, job, faults, processed>>
    BY <1>1, FanNames DEF Fan!Publish
  <2>2. \A c \in Copies : c[2] = m => at[c] = "out"
    BY <2>1 DEF FanInv
  <2>3. SqsTypeOK'
    BY <1>0, <2>1, SqsTypes DEF SqsInv, SqsTypeOK
  <2>4. \A e \in Envs : Held(e)' = Held(e) /\ \A c \in Held(e) : at'[c] = at[c]
    BY <1>0, <2>1, <2>2, SqsTypes DEF Held, SqsInv, HeldOK
  <2>5. HeldOK'
    BY <1>0, <2>1, <2>4 DEF SqsInv, HeldOK
  <2> QED
    BY <2>1, <2>3, <2>4, <2>5 DEF FanInv, SqsInv, Deserved
<1>2. ASSUME NEW c \in Copies, Fan!DeliveryFails(c) PROVE FanInv'
  <2>1. /\ Move(c, "topic", "dlq") /\ at[c] = "topic" /\ at' = [at EXCEPT ![c] = "dlq"]
        /\ Fault("delivery")
        /\ UNCHANGED <<receives, hidden, job, published, processed>>
    BY <1>2, FanNames DEF Fan!DeliveryFails, Move
  <2>2. SqsInv'
    BY <1>0, <2>1, SqsFault, MoveOK
  <2> QED
    BY <1>0, <2>1, <2>2, SqsTypes, FanKept DEF Held
<1> QED
  BY <1>1, <1>2

\* A record reported, processed or skipped.
LEMMA RecordKeepsFan ==
  ASSUME FanInv, NEW e \in Envs, NEW c,
         (Handled(e, c, TRUE) /\ Deserved(c)') \/ Handled(e, c, FALSE),
         UNCHANGED <<at, receives, hidden, published>>, faults' \in 0..MaxFaults,
         processed' = processed \/ processed' = [processed EXCEPT ![c] = @ + 1]
  PROVE  FanInv'
<1>0. SqsInv /\ hidden \in [Copies -> {"no", "lease", "delay"}]
  BY SqsTypes DEF FanInv
<1>1. /\ SqsInv' /\ c \in Copies
      /\ job'[e].batch = job[e].batch /\ job'[e].todo = job[e].todo \ {c}
      /\ \/ job'[e].failed = job[e].failed /\ Deserved(c)'
         \/ job'[e].failed = job[e].failed \cup {c}
      /\ \A f \in Envs \ {e} : job'[f] = job[f]
  <2>1. /\ hidden' \in [Copies -> {"no", "lease", "delay"}]
        /\ \A d \in Copies \ {c} : hidden'[d] = hidden[d]
        /\ hidden' = hidden
    BY <1>0
  <2>2. CASE Handled(e, c, TRUE) /\ Deserved(c)'
    BY <1>0, <2>1, <2>2, HandledOK
  <2>3. CASE Handled(e, c, FALSE)
    BY <1>0, <2>1, <2>3, HandledOK
  <2> QED
    BY <2>2, <2>3
<1>2. /\ processed' \in [Copies -> Nat]
      /\ \A d \in Copies : processed[d] > 0 => processed'[d] > 0
  BY <1>1 DEF FanInv
<1>3. \A d \in Copies : Deserved(d) => Deserved(d)'
  BY <1>2 DEF Deserved
<1>4. \A f \in Envs : Held(f)' \subseteq Held(f) /\ Held(f) \subseteq Copies
  BY <1>0, <1>1, SqsTypes DEF Held
<1>5. \A f \in Envs : \A d \in Held(f)' : d \in job'[f].todo \/ Deserved(d)'
  <2> SUFFICES ASSUME NEW f \in Envs, NEW d \in Held(f)', d \notin job'[f].todo
               PROVE  Deserved(d)'
    OBVIOUS
  <2>1. CASE f = e /\ d = c
    BY <1>1, <2>1 DEF Held
  <2>2. CASE f # e \/ d # c
    BY <1>1, <1>3, <1>4, <2>2 DEF FanInv
  <2> QED
    BY <2>1, <2>2
<1> QED
  BY <1>1, <1>2, <1>5 DEF FanInv

LEMMA WorkerKeepsFan ==
  ASSUME FanInv, NEW e \in Envs, Fan!Handle(e) \/ Fan!Disturb(e)
  PROVE  FanInv'
<1>0. SqsInv /\ faults \in 0..MaxFaults /\ processed \in [Copies -> Nat]
      /\ job[e].todo \subseteq Copies
  BY SqsTypes DEF FanInv
<1>1. ASSUME NEW c \in job[e].todo, Fan!Process(e, c) PROVE FanInv'
  <2>1. /\ Handled(e, c, TRUE) /\ processed' = [processed EXCEPT ![c] = @ + 1]
        /\ UNCHANGED <<at, receives, hidden, published, faults>>
    BY <1>1, FanNames DEF Fan!Process
  <2>2. Deserved(c)'
    BY <1>0, <2>1 DEF Deserved
  <2> QED
    BY <1>0, <2>1, <2>2, RecordKeepsFan
<1>2. ASSUME NEW c \in job[e].todo, Fan!Skip(e, c) PROVE FanInv'
  <2>1. /\ Handled(e, c, TRUE) /\ c[2] \in Unparsed
        /\ UNCHANGED <<at, receives, hidden, published, faults, processed>>
    BY <1>2, FanNames DEF Fan!Skip
  <2> QED
    BY <1>0, <2>1, RecordKeepsFan DEF Deserved
<1>3. ASSUME NEW c \in job[e].todo, Fan!Reject(e, c) \/ Fan!Downstream(e, c) PROVE FanInv'
  <2>1. /\ Handled(e, c, FALSE)
        /\ UNCHANGED <<at, receives, hidden, published, processed>>
    BY <1>3, FanNames DEF Fan!Reject, Fan!Downstream, Fan!FailRecord
  <2>2. faults' = faults \/ Fault("downstream")
    BY <1>3, FanNames DEF Fan!Reject, Fan!Downstream
  <2>3. faults' \in 0..MaxFaults
    BY <1>0, <2>2, SqsFault
  <2> QED
    BY <2>1, <2>3, RecordKeepsFan
<1>4. CASE Respond(e) /\ UNCHANGED <<published, processed>>
  <2>1. /\ SqsInv'
        /\ at' = [c \in Copies |-> IF c \in Held(e) THEN "deleted" ELSE at[c]]
        /\ \A c \in Held(e) : at[c] = "queue"
        /\ job'[e] = Idle /\ \A f \in Envs \ {e} : job'[f] = job[f]
    BY <1>0, <1>4, RespondOK
  <2>2. \A c \in Copies : at'[c] = at[c] \/ at[c] # "out"
    BY <2>1
  <2> QED
    BY <1>4, <2>1, <2>2, IdleOK, FanKept DEF Held
<1>5. CASE FailBatch(e) /\ UNCHANGED <<published, processed>> /\ faults' \in 0..MaxFaults
  <2>1. /\ SqsInv' /\ UNCHANGED at
        /\ job'[e] = Idle /\ \A f \in Envs \ {e} : job'[f] = job[f]
    BY <1>0, <1>5, FailBatchOK
  <2> QED
    BY <1>5, <2>1, IdleOK, FanKept DEF Held
<1>6. CASE Fan!NoHandler(e)
  BY <1>0, <1>5, <1>6, FanNames DEF Fan!NoHandler
<1>7. CASE Fan!Crash(e) /\ UNCHANGED <<published, processed>>
  <2>1. Fault("crash") /\ FailBatch(e)
    BY <1>7, FanNames DEF Fan!Crash
  <2> QED
    BY <1>0, <1>5, <1>7, <2>1, SqsFault
<1> QED
  BY <1>1, <1>2, <1>3, <1>4, <1>6, <1>7, FanNames DEF Fan!Handle, Fan!Disturb

LEMMA FanInvariance == Fan!Spec => []FanInv
<1>1. Fan!Init => FanInv
  <2> SUFFICES ASSUME Fan!Init PROVE FanInv
    OBVIOUS
  <2>1. SqsInit /\ SqsInv /\ processed = [c \in Copies |-> 0]
    BY FanNames, SqsInitOK DEF Fan!Init
  <2>2. \A c \in Copies : at[c] = "out"
    BY <2>1 DEF SqsInit
  <2>3. \A e \in Envs : Held(e) = {}
    BY <2>1 DEF SqsInit, Held, Idle
  <2> QED
    BY <2>1, <2>2, <2>3 DEF FanInv
<1>2. FanInv /\ [Fan!Next]_(Fan!vars) => FanInv'
  <2> SUFFICES ASSUME FanInv, [Fan!Next]_(Fan!vars) PROVE FanInv'
    OBVIOUS
  <2>1. CASE UNCHANGED Fan!vars
    BY <2>1 DEF Fan!vars, FanInv, SqsInv, SqsTypeOK, HeldOK, Held, Deserved
  <2>2. CASE Fan!Next
    BY <2>2, FanNames, AwsKeepsFan, TopicKeepsFan, WorkerKeepsFan DEF Fan!Next
  <2> QED
    BY <2>1, <2>2
<1> QED
  BY <1>1, <1>2, PTL DEF Fan!Spec

\* What has become of a copy, and how a step changes it.
LEMMA FanStatus ==
  ASSUME NEW c \in Copies
  PROVE  /\ at[c] \in {"out", "topic"} => Status[c] = "absent"
         /\ at[c] = "queue" => Status[c] = "pending"
         /\ at[c] = "deleted" => Status[c] = "acknowledged"
         /\ at[c] = "dlq" => Status[c] = "dead"
         /\ at'[c] = "queue" => Status'[c] = "pending"
         /\ at'[c] = "deleted" => Status'[c] = "acknowledged"
         /\ at'[c] = "dlq" => Status'[c] = "dead"
BY FanNames DEF Status

LEMMA FanBecomes ==
  ASSUME NEW S \in SUBSET Copies, NEW s, UNCHANGED <<receives, processed>>,
         \A c \in S : Status'[c] = s,
         \A c \in Copies \ S : at'[c] = at[c]
  PROVE  Contract!Become(S, s)
<1>1. Status' = [c \in Copies |-> IF c \in S THEN s ELSE Status[c]]
  <2>1. \A c \in Copies : Status'[c] = IF c \in S THEN s ELSE Status[c]
    BY FanNames DEF Status
  <2>2. Status' = [c \in Copies |-> Status'[c]]
    BY FanNames DEF Status
  <2> QED
    BY <2>1, <2>2
<1>2. Effective' = Effective
  BY DEF Effective
<1> QED
  BY <1>1, <1>2, FanNames DEF Contract!Become

LEMMA FanStutters ==
  ASSUME UNCHANGED <<receives, processed>>,
         at' = at \/ Status' = Status
  PROVE  UNCHANGED Contract!vars
BY DEF Contract!vars, Status, Effective

LEMMA TopicImplements ==
  ASSUME FanInv
  PROVE  /\ \A m \in Messages : Fan!Publish(m) => UNCHANGED Contract!vars
         /\ \A c \in Copies : Fan!DeliveryFails(c) => Contract!Next
<1>0. at \in [Copies -> {"out", "topic", "queue", "deleted", "dlq"}]
  BY SqsTypes DEF FanInv
<1>1. ASSUME NEW m \in Messages, Fan!Publish(m) PROVE UNCHANGED Contract!vars
  <2>1. /\ m \notin published /\ UNCHANGED <<receives, processed>>
        /\ at' = [c \in Copies |-> IF c \in Subscribed /\ c[2] = m THEN "topic" ELSE at[c]]
    BY <1>1, FanNames DEF Fan!Publish
  <2>2. \A c \in Copies : c[2] = m => at[c] = "out"
    BY <2>1 DEF FanInv
  <2>3. \A c \in Copies : at'[c] = at[c] \/ (at[c] = "out" /\ at'[c] = "topic")
    BY <2>1, <2>2
  <2>4. Status' = Status
    BY <2>3, FanNames DEF Status
  <2> QED
    BY <2>1, <2>4, FanStutters
<1>2. ASSUME NEW c \in Copies, Fan!DeliveryFails(c) PROVE Contract!Next
  <2>1. at[c] = "topic" /\ at' = [at EXCEPT ![c] = "dlq"] /\ UNCHANGED <<receives, processed>>
    BY <1>2, FanNames DEF Fan!DeliveryFails, Move
  <2>2. at'[c] = "dlq" /\ \A d \in Copies \ {c} : at'[d] = at[d]
    BY <1>0, <2>1
  <2>3. Contract!Become({c}, "dead") /\ Status[c] = "absent"
    BY <2>1, <2>2, FanStatus, FanBecomes
  <2> QED
    BY <2>3, FanNames DEF Contract!Refuse, Contract!Next
<1> QED
  BY <1>1, <1>2

LEMMA AwsImplements ==
  ASSUME FanInv, NEW c \in Copies, Fan!Aws(c)
  PROVE  Contract!Next \/ UNCHANGED Contract!vars
<1>0. /\ SqsInv /\ UNCHANGED <<published, processed>>
      /\ at \in [Copies -> {"out", "topic", "queue", "deleted", "dlq"}]
  BY SqsTypes DEF Fan!Aws, Fan!Deliver, FanInv
<1>1. CASE Fan!Deliver(c)
  <2>1. at[c] = "topic" /\ at' = [at EXCEPT ![c] = "queue"] /\ UNCHANGED receives
    BY <1>1, FanNames DEF Fan!Deliver, Move
  <2>2. at'[c] = "queue" /\ \A d \in Copies \ {c} : at'[d] = at[d]
    BY <1>0, <2>1
  <2>3. Contract!Become({c}, "pending") /\ Status[c] = "absent"
    BY <1>0, <2>1, <2>2, FanStatus, FanBecomes
  <2> QED
    BY <2>3, FanNames DEF Contract!Accept, Contract!Next
<1>2. ASSUME NEW e \in Envs, NEW B \in SUBSET Copies, Receive(e, B)
      PROVE  Contract!Next
  <2>1. /\ at' = at
        /\ receives' = [d \in Copies |-> receives[d] + IF d \in B THEN 1 ELSE 0]
        /\ \A d \in B : at[d] = "queue" /\ receives[d] < MaxReceiveCount
    BY <1>0, <1>2, ReceiveOK
  <2>2. \A d \in B : Status[d] = "pending"
    BY <2>1, FanStatus
  <2>3. Status' = Status /\ Effective' = Effective
    BY <1>0, <2>1 DEF Status, Effective
  <2>4. Contract!Attempt(B)
    BY <2>1, <2>2, <2>3, FanNames DEF Contract!Attempt, Contract!Pending
  <2> QED
    BY <2>4, FanNames DEF Contract!Next
<1>3. CASE Redrive(c)
  <2>1. /\ at[c] = "queue" /\ receives[c] = MaxReceiveCount /\ at' = [at EXCEPT ![c] = "dlq"]
        /\ UNCHANGED receives
    BY <1>0, <1>3, RedriveOK
  <2>2. at'[c] = "dlq" /\ \A d \in Copies \ {c} : at'[d] = at[d]
    BY <1>0, <2>1
  <2>3. Contract!Become({c}, "dead") /\ Status[c] = "pending"
    BY <1>0, <2>1, <2>2, FanStatus, FanBecomes
  <2> QED
    BY <2>1, <2>3, FanNames DEF Contract!Bury, Contract!Pending, Contract!Next
<1>4. CASE Reappear(c)
  BY <1>0, <1>4, ReappearOK, FanStutters
<1> QED
  BY <1>1, <1>2, <1>3, <1>4, FanSqs, SqsSteps DEF Fan!Aws

LEMMA WorkerImplements ==
  ASSUME FanInv, NEW e \in Envs, Fan!Handle(e) \/ Fan!Disturb(e)
  PROVE  Contract!Next \/ UNCHANGED Contract!vars
<1>0. SqsInv /\ processed \in [Copies -> Nat] /\ job[e].todo \subseteq Held(e)
      /\ Held(e) \subseteq Copies
  BY SqsTypes DEF FanInv
<1>1. ASSUME NEW c \in job[e].todo, Fan!Process(e, c) PROVE Contract!Next
  <2>1. /\ c \in Copies /\ at[c] = "queue" /\ receives[c] > 0
        /\ processed' = [processed EXCEPT ![c] = @ + 1] /\ UNCHANGED <<at, receives>>
    BY <1>0, <1>1 DEF Fan!Process, SqsInv, HeldOK
  <2>2. Effective' = Effective \cup {c}
    BY <1>0, <2>1, FanNames DEF Effective
  <2>3. Status[c] = "pending" /\ Status' = Status
    <3>1. Status' = Status
      BY <2>1 DEF Status
    <3> QED
      BY <2>1, <3>1, FanStatus
  <2> QED
    BY <2>1, <2>2, <2>3, FanNames
    DEF Contract!Effect, Contract!Pending, Contract!Next
<1>2. CASE Respond(e) /\ UNCHANGED <<published, processed>>
  <2>1. /\ job[e].todo = {}
        /\ at' = [c \in Copies |-> IF c \in Held(e) THEN "deleted" ELSE at[c]]
        /\ \A c \in Held(e) : at[c] = "queue"
        /\ UNCHANGED receives
    BY <1>0, <1>2, RespondOK
  <2> PICK S \in SUBSET Copies : S = Held(e)
    BY <1>0
  <2>2. S \subseteq Effective \cup {c \in Copies : c[2] \in Unparsed}
    BY <2>1, FanNames DEF FanInv, Deserved, Effective
  <2>3. \A c \in S : Status[c] = "pending" /\ Status'[c] = "acknowledged"
    <3>1. \A c \in S : at'[c] = "deleted" /\ at[c] = "queue"
      BY <2>1
    <3> QED
      BY <3>1, FanStatus
  <2>4. Contract!Become(S, "acknowledged")
    BY <1>2, <2>1, <2>3, FanBecomes
  <2>5. Contract!Acknowledge(S)
    BY <2>2, <2>3, <2>4, FanNames DEF Contract!Acknowledge, Contract!Pending
  <2> QED
    BY <2>5, FanNames DEF Contract!Next
<1>3. ASSUME UNCHANGED <<at, receives, processed>> PROVE UNCHANGED Contract!vars
  BY <1>3, FanStutters
<1>4. CASE Fan!NoHandler(e) \/ Fan!Disturb(e)
  BY <1>3, <1>4, FanNames
  DEF Fan!NoHandler, Fan!Disturb, Fan!Downstream, Fan!FailRecord, Fan!Crash, FailBatch
<1>5. ASSUME NEW c \in job[e].todo, Fan!Skip(e, c) \/ Fan!Reject(e, c)
      PROVE  UNCHANGED Contract!vars
  BY <1>3, <1>5 DEF Fan!Skip, Fan!Reject, Fan!FailRecord
<1> QED
  BY <1>1, <1>2, <1>4, <1>5, FanNames DEF Fan!Handle

\* Fan-out implements Delivery: no consumer's copy is deleted before its worker is
\* done with it, or redriven before its last receive, for any number of consumers,
\* whatever the workers of the others do, and also where a handler is misnamed.
THEOREM FanOutImplementation == Fan!Spec => ImplementsContract
<1>1. Fan!Init => Contract!Init
  <2> SUFFICES ASSUME Fan!Init PROVE Contract!Init
    OBVIOUS
  <2>1. SqsInit /\ processed = [c \in Copies |-> 0]
    BY FanNames DEF Fan!Init
  <2>2. Status = [c \in Copies |-> "absent"]
    BY <2>1, FanNames DEF SqsInit, Status
  <2>3. Effective = {}
    BY <2>1, FanNames DEF Effective
  <2> QED
    BY <2>1, <2>2, <2>3, FanNames DEF SqsInit, Contract!Init
<1>2. FanInv /\ [Fan!Next]_(Fan!vars) => [Contract!Next]_(Contract!vars)
  <2> SUFFICES ASSUME FanInv, [Fan!Next]_(Fan!vars)
               PROVE  [Contract!Next]_(Contract!vars)
    OBVIOUS
  <2>1. CASE UNCHANGED Fan!vars
    BY <2>1, FanStutters DEF Fan!vars
  <2>2. CASE Fan!Next
    BY <2>2, FanNames, AwsImplements, TopicImplements, WorkerImplements DEF Fan!Next
  <2> QED
    BY <2>1, <2>2
<1> QED
  BY <1>1, <1>2, FanInvariance, PTL DEF Fan!Spec, ImplementsContract, Contract!Spec

-----------------------------------------------------------------------------
(* Webhook ingest, as an instance on the same queues.                      *)

CONSTANTS Events, Unproven, MaxRotations

Hook == INSTANCE WebhookIngest

LEMMA HookNames ==
  /\ Hook!Copies = Copies /\ Hook!Envs = Envs
  /\ Hook!SqsInit <=> SqsInit
  /\ \A c, from, to : Hook!Move(c, from, to) <=> Move(c, from, to)
  /\ \A e, c, ok : Hook!Handled(e, c, ok) <=> Handled(e, c, ok)
  /\ \A e : Hook!Respond(e) <=> Respond(e)
  /\ \A e : Hook!FailBatch(e) <=> FailBatch(e)
  /\ \A kind : Hook!Fault(kind) <=> Fault(kind)
BY DEF Hook!Copies, Copies, Hook!Envs, Envs, Hook!SqsInit, SqsInit, Hook!Idle, Idle,
   Hook!Move, Move, Hook!Handled, Handled, Hook!Respond, Respond, Hook!FailBatch, FailBatch,
   Hook!Fault, Fault

LEMMA HookSqs ==
  ASSUME NEW c, Hook!Sqs(c)
  PROVE  Sqs(c)
<1>1. Hook!Copies = Copies /\ Hook!Envs = Envs /\ Hook!Idle = Idle
  BY DEF Hook!Copies, Copies, Hook!Envs, Envs, Hook!Idle, Idle
<1>2. \A d : Hook!Receivable(d) <=> Receivable(d)
  BY DEF Hook!Receivable, Receivable, Hook!Visible, Visible
<1>3. \A e, B : Hook!Receive(e, B) <=> Receive(e, B)
  BY DEF Hook!Receive, Receive, Hook!Receivable, Receivable, Hook!Visible, Visible,
     Hook!Copies, Copies, Hook!Idle, Idle, Hook!Cardinality, Cardinality
<1>4. Hook!Redrive(c) <=> Redrive(c)
  BY DEF Hook!Redrive, Redrive, Hook!Visible, Visible, Hook!Move, Move
<1>5. Hook!Reappear(c) <=> Reappear(c)
  BY <1>1 DEF Hook!Reappear, Reappear
<1>6. CASE Hook!Redrive(c) \/ Hook!Reappear(c)
  BY <1>4, <1>5, <1>6 DEF Sqs
<1>7. ASSUME NEW w \in Workers,
             NEW B \in SUBSET {d \in Copies : Receivable(d) /\ d[1] = c[1]},
             c \in B, Receive(<<c[1], w>>, B)
      PROVE  Sqs(c)
  BY <1>7 DEF Sqs
<1>8. {d \in Hook!Copies : Hook!Receivable(d) /\ d[1] = c[1]}
        = {d \in Copies : Receivable(d) /\ d[1] = c[1]}
  BY <1>1, <1>2
<1> QED
  BY <1>3, <1>6, <1>7, <1>8 DEF Hook!Sqs

\* A genuine record that an invocation will acknowledge has taken effect, or was
\* signed with another key than the one its environment has; and what a provider
\* was told is on the queue is no longer out, if SQS refuses no post with a client
\* error.
HookTyped ==
  /\ version \in Nat \ {0}
  /\ cached \in [Envs -> Nat] /\ signed \in [Messages -> Nat]
  /\ \A e \in Envs : cached[e] <= version
  /\ \A m \in Messages : signed[m] <= version
  /\ answer \in [Messages -> {"none", "accepted", "error"}]
  /\ taken \in [Copies -> Nat]
Taken(c) == Good(c) => taken[c] > 0
Settled(e, c) == Taken(c) \/ cached[e] \notin {0, signed[c[2]]}
HookInv ==
  /\ SqsInv /\ HookTyped
  /\ \A e \in Envs : \A c \in Held(e) : c \in job[e].todo \/ Settled(e, c)
  /\ "4xx" \notin Faults =>
       \A c \in Copies : answer[c[2]] = "accepted" => at[c] # "out"

\* A step that leaves the posts and the effects alone.
LEMMA HookKept ==
  ASSUME HookInv, SqsInv', HookTyped', UNCHANGED <<signed, answer, taken>>,
         \A c \in Copies : at'[c] = "out" => at[c] = "out",
         \A e \in Envs : \A c \in Held(e)' :
           \/ c \in job'[e].todo
           \/ c \in Held(e) /\ c \notin job[e].todo /\ cached[e] \in {0, cached'[e]}
  PROVE  HookInv'
<1>1. \A c \in Copies : Taken(c)' <=> Taken(c)
  BY DEF Taken, Good, EventOf
<1>2. \A e \in Envs : Held(e)' \subseteq Copies
  BY DEF Held, SqsInv, SqsTypeOK, Jobs
<1>3. ASSUME NEW e \in Envs, NEW c \in Held(e)', c \notin job'[e].todo
      PROVE  Settled(e, c)'
  <2>1. Settled(e, c) /\ cached[e] \in {0, cached'[e]} /\ c \in Copies
    BY <1>2, <1>3 DEF HookInv
  <2> QED
    BY <1>1, <2>1 DEF Settled
<1> QED
  BY <1>3 DEF HookInv

LEMMA AwsKeepsHook ==
  ASSUME HookInv, NEW c \in Copies, Hook!Aws(c)
  PROVE  HookInv'
<1>1. SqsInv /\ HookTyped' /\ UNCHANGED <<version, cached, signed, answer, taken>>
  BY HookNames DEF Hook!Aws, Hook!hookVars, HookInv, HookTyped
<1>2. ASSUME NEW e \in Envs, NEW B \in SUBSET Copies, Receive(e, B) PROVE HookInv'
  <2>1. /\ SqsInv' /\ at' = at
        /\ job' = [job EXCEPT ![e] = [batch |-> B, todo |-> B, failed |-> {}]]
    BY <1>1, <1>2, ReceiveOK
  <2>2. /\ \A f \in Envs \ {e} : job'[f] = job[f]
        /\ job'[e].batch = B /\ job'[e].todo = B
    BY <1>1, <2>1, SqsTypes
  <2> QED
    BY <1>1, <2>1, <2>2, HookKept DEF Held
<1>3. CASE Redrive(c)
  BY <1>1, <1>3, RedriveOK, HookKept, SqsTypes DEF Held
<1>4. CASE Reappear(c)
  BY <1>1, <1>4, ReappearOK, HookKept DEF Held
<1> QED
  BY <1>2, <1>3, <1>4, HookSqs, SqsSteps DEF Hook!Aws

\* A post concerns one copy, which nobody holds yet.
LEMMA PostKeepsHook ==
  ASSUME Hook!WebhookAssumption, HookInv, SqsInv', NEW c \in Copies,
         NEW reply \in {"accepted", "error"}, Hook!Posts(c, reply),
         at' = at \/ at' = [at EXCEPT ![c] = "queue"],
         reply = "accepted" => at'[c] = "queue" \/ "4xx" \in Faults
  PROVE  HookInv'
<1>1. /\ at[c] = "out" /\ c[2] \in Messages
      /\ answer' = [answer EXCEPT ![c[2]] = reply]
      /\ \E key \in {0, version} : signed' = [signed EXCEPT ![c[2]] = key]
      /\ UNCHANGED <<receives, hidden, job, version, cached, taken>>
      /\ at \in [Copies -> {"out", "topic", "queue", "deleted", "dlq"}]
  BY SqsTypes DEF Hook!Posts, Copies, HookInv
<1>2. \A d \in Copies \ {c} : d[2] \in Messages /\ d[2] # c[2]
  BY DEF Hook!WebhookAssumption, Copies
<1>3. HookTyped'
  BY <1>1 DEF HookInv, HookTyped
<1>4. \A d \in Copies \ {c} : /\ at'[d] = at[d] /\ answer'[d[2]] = answer[d[2]]
                              /\ Taken(d)' <=> Taken(d)
  BY <1>1, <1>2 DEF HookInv, HookTyped, Taken, Good, EventOf
<1>5. at'[c] \in {"out", "queue"} /\ answer'[c[2]] = reply
  BY <1>1 DEF HookInv, HookTyped
<1>6. \A e \in Envs : Held(e)' = Held(e) /\ c \notin Held(e) /\ Held(e) \subseteq Copies
  BY <1>1, SqsTypes DEF HookInv, SqsInv, HeldOK, Held
<1>8. \A e \in Envs : \A d \in Held(e)' : d \in job'[e].todo \/ Settled(e, d)'
  <2> SUFFICES ASSUME NEW e \in Envs, NEW d \in Held(e)', d \notin job'[e].todo
               PROVE  Settled(e, d)'
    OBVIOUS
  <2>1. d \in Copies \ {c} /\ d \in Held(e) /\ Settled(e, d)
    BY <1>1, <1>6 DEF HookInv
  <2>2. signed'[d[2]] = signed[d[2]]
    BY <1>1, <1>2, <2>1 DEF HookInv, HookTyped
  <2> QED
    BY <1>1, <1>4, <2>1, <2>2 DEF Settled
<1>9. \A d \in Copies :
        answer'[d[2]] = "accepted" => at'[d] # "out" \/ "4xx" \in Faults
  <2> SUFFICES ASSUME NEW d \in Copies, answer'[d[2]] = "accepted", "4xx" \notin Faults
               PROVE  at'[d] # "out"
    OBVIOUS
  <2>1. CASE d = c
    BY <1>5, <2>1
  <2>2. CASE d # c
    <3>0. d \in Copies \ {c}
      BY <2>2
    <3>1. at'[d] = at[d] /\ answer[d[2]] = "accepted"
      BY <1>4, <3>0
    <3> QED
      BY <3>1 DEF HookInv
  <2> QED
    BY <2>1, <2>2
<1> QED
  BY <1>3, <1>8, <1>9 DEF HookInv

LEMMA ProviderKeepsHook ==
  ASSUME Hook!WebhookAssumption, HookInv, NEW c \in Copies,
         Hook!Post(c) \/ Hook!Refused(c) \/ Hook!TimesOut(c)
  PROVE  HookInv'
<1>0. SqsInv /\ faults \in 0..MaxFaults
  BY SqsTypes DEF HookInv
<1>1. CASE Hook!Post(c) \/ Hook!TimesOut(c)
  <2>1. /\ Hook!Posts(c, "accepted") \/ Hook!Posts(c, "error")
        /\ Move(c, "out", "queue") /\ UNCHANGED <<receives, hidden, job>>
        /\ faults' = faults \/ Fault("timeout")
    BY <1>1, HookNames DEF Hook!Post, Hook!TimesOut, Hook!ReplyTo, Hook!Posts
  <2>2. SqsInv'
    BY <1>0, <2>1, MoveOK, SqsFault
  <2>3. at' = [at EXCEPT ![c] = "queue"] /\ at'[c] = "queue"
    BY <1>0, <2>1, SqsTypes DEF Move
  <2> QED
    BY <2>1, <2>2, <2>3, PostKeepsHook
<1>2. CASE Hook!Refused(c)
  <2>1. PICK class \in {"4xx", "5xx"} : Fault(class) /\ Hook!Posts(c, Hook!ReplyTo(class))
    BY <1>2, HookNames DEF Hook!Refused
  <2>2. UNCHANGED <<at, receives, hidden, job>>
    BY <1>2, <2>1 DEF Hook!Refused, Hook!Posts
  <2>3. SqsInv'
    BY <1>0, <2>1, <2>2, SqsFault DEF SqsInv, SqsTypeOK, HeldOK, Held
  <2>4. /\ Hook!ReplyTo(class) \in {"accepted", "error"}
        /\ Hook!ReplyTo(class) = "accepted" => "4xx" \in Faults
    BY <2>1 DEF Hook!ReplyTo, Fault
  <2> QED
    BY <2>1, <2>2, <2>3, <2>4, PostKeepsHook
<1> QED
  BY <1>1, <1>2

\* A record is processed, dropped or reported.
LEMMA RecordKeepsHook ==
  ASSUME HookInv, NEW e \in Envs, NEW c,
         (Handled(e, c, TRUE) /\ Settled(e, c)') \/ Handled(e, c, FALSE),
         UNCHANGED <<at, receives, hidden, version, cached, signed, answer>>,
         faults' \in 0..MaxFaults,
         taken' = taken \/ taken' = [taken EXCEPT ![c] = @ + 1]
  PROVE  HookInv'
<1>0. SqsInv /\ hidden \in [Copies -> {"no", "lease", "delay"}]
  BY SqsTypes DEF HookInv
<1>1. /\ SqsInv' /\ c \in Copies
      /\ job'[e].batch = job[e].batch /\ job'[e].todo = job[e].todo \ {c}
      /\ \/ job'[e].failed = job[e].failed /\ Settled(e, c)'
         \/ job'[e].failed = job[e].failed \cup {c}
      /\ \A f \in Envs \ {e} : job'[f] = job[f]
  <2>1. /\ hidden' \in [Copies -> {"no", "lease", "delay"}]
        /\ \A d \in Copies \ {c} : hidden'[d] = hidden[d]
        /\ hidden' = hidden
    BY <1>0
  <2>2. CASE Handled(e, c, TRUE) /\ Settled(e, c)'
    BY <1>0, <2>1, <2>2, HandledOK
  <2>3. CASE Handled(e, c, FALSE)
    BY <1>0, <2>1, <2>3, HandledOK
  <2> QED
    BY <2>2, <2>3
<1>2. HookTyped' /\ \A d \in Copies : taken[d] > 0 => taken'[d] > 0
  BY <1>1 DEF HookInv, HookTyped
<1>3. \A f \in Envs, d \in Copies : Settled(f, d) => Settled(f, d)'
  BY <1>2 DEF Settled, Taken, Good, EventOf
<1>4. \A f \in Envs : Held(f)' \subseteq Held(f) /\ Held(f) \subseteq Copies
  BY <1>0, <1>1, SqsTypes DEF Held
<1>5. ASSUME NEW f \in Envs, NEW d \in Held(f)', d \notin job'[f].todo
      PROVE  Settled(f, d)'
  <2>1. CASE f = e /\ d = c
    BY <1>1, <1>5, <2>1 DEF Held
  <2>2. CASE f # e \/ d # c
    <3>1. d \in Held(f) /\ d \in Copies /\ d \notin job[f].todo
      BY <1>1, <1>4, <1>5, <2>2
    <3>2. Settled(f, d)
      BY <1>5, <3>1 DEF HookInv
    <3> QED
      BY <1>3, <3>1, <3>2
  <2> QED
    BY <2>1, <2>2
<1> QED
  BY <1>1, <1>2, <1>3, <1>5 DEF HookInv

LEMMA ConsumerKeepsHook ==
  ASSUME HookInv, NEW e \in Envs, Hook!Handle(e) \/ Hook!Disturb(e)
  PROVE  HookInv'
<1>0. /\ SqsInv /\ HookTyped /\ faults \in 0..MaxFaults
      /\ job[e].todo \subseteq Copies
  BY SqsTypes DEF HookInv
<1>1. CASE Hook!FetchKey(e) \/ Hook!Recycle(e)
  <2>1. /\ UNCHANGED <<at, receives, hidden, job, faults, version, signed, answer, taken>>
        /\ \E v \in {0, version} : cached' = [cached EXCEPT ![e] = v]
        /\ cached[e] = 0 \/ job[e] = Idle
    BY <1>1, HookNames DEF Hook!FetchKey, Hook!Recycle, Hook!ColdStart, Hook!sqsVars, Hook!Idle, Idle
  <2>2. SqsInv' /\ HookTyped'
    BY <1>0, <2>1 DEF HookTyped, SqsInv, SqsTypeOK, HeldOK, Held
  <2>3. \A f \in Envs : \/ Held(f) = {}
                        \/ cached[f] \in {0, cached'[f]}
    BY <1>0, <2>1, IdleOK DEF Held, HookTyped
  <2> QED
    BY <2>1, <2>2, <2>3, HookKept DEF Held
<1>2. ASSUME NEW c \in job[e].todo, Hook!Process(e, c) PROVE HookInv'
  <2>1. /\ Handled(e, c, TRUE) /\ taken' = [taken EXCEPT ![c] = @ + 1]
        /\ UNCHANGED <<at, receives, hidden, faults, version, cached, signed, answer>>
    BY <1>2, HookNames DEF Hook!Process
  <2>2. Settled(e, c)'
    BY <1>0, <2>1 DEF Settled, Taken, HookTyped
  <2> QED
    BY <1>0, <2>1, <2>2, RecordKeepsHook
\* What does not verify was signed with another key, or with none.
<1>3. ASSUME NEW c \in job[e].todo, Hook!Drop(e, c) PROVE HookInv'
  <2>1. /\ Handled(e, c, TRUE) /\ cached[e] # 0 /\ ~ Hook!Verified(e, c)
        /\ UNCHANGED <<at, receives, hidden, faults, version, cached, signed, answer, taken>>
    BY <1>3, HookNames DEF Hook!Drop, Hook!hookVars
  <2>2. Settled(e, c)'
    BY <2>1 DEF Hook!Verified, Settled, Taken, Good
  <2> QED
    BY <1>0, <2>1, <2>2, RecordKeepsHook
<1>4. ASSUME NEW c \in job[e].todo, Hook!Reject(e, c) \/ Hook!Downstream(e, c) PROVE HookInv'
  <2>1. /\ Handled(e, c, FALSE)
        /\ UNCHANGED <<at, receives, hidden, version, cached, signed, answer, taken>>
        /\ faults' = faults \/ Fault("downstream")
    BY <1>4, HookNames DEF Hook!Reject, Hook!Downstream, Hook!FailRecord, Hook!hookVars
  <2>2. faults' \in 0..MaxFaults
    BY <1>0, <2>1, SqsFault
  <2> QED
    BY <2>1, <2>2, RecordKeepsHook
<1>5. CASE Respond(e) /\ UNCHANGED <<version, cached, signed, answer, taken>>
  <2>1. /\ SqsInv' /\ job[e].todo = {}
        /\ at' = [c \in Copies |-> IF c \in Held(e) THEN "deleted" ELSE at[c]]
        /\ job'[e] = Idle /\ \A f \in Envs \ {e} : job'[f] = job[f]
    BY <1>0, <1>5, RespondOK
  <2>2. HookTyped'
    BY <1>0, <1>5 DEF HookTyped
  <2>3. \A c \in Copies : at'[c] = "out" => at[c] = "out"
    BY <2>1
  <2> QED
    BY <1>5, <2>1, <2>2, <2>3, IdleOK, HookKept DEF Held
<1>6. CASE Hook!NoKey(e) \/ (Hook!Crash(e) /\ Hook!ColdStart(e))
  <2>0. /\ FailBatch(e)
        /\ Fault("secrets") \/ Fault("crash")
        /\ UNCHANGED <<version, signed, answer, taken>>
        /\ cached' = cached \/ cached' = [cached EXCEPT ![e] = 0]
    BY <1>6, HookNames DEF Hook!NoKey, Hook!Crash, Hook!ColdStart, Hook!hookVars
  <2>1. /\ SqsInv' /\ UNCHANGED at
        /\ job'[e] = Idle /\ \A f \in Envs \ {e} : job'[f] = job[f]
    BY <1>0, <2>0, SqsFault, FailBatchOK
  <2>2. HookTyped'
    BY <1>0, <2>0 DEF HookTyped
  <2> QED
    <3>1. Held(e)' = {}
      BY <2>1, IdleOK DEF Held
    <3>2. \A f \in Envs \ {e} : /\ Held(f)' = Held(f) /\ job'[f].todo = job[f].todo
                                /\ cached'[f] = cached[f]
      BY <1>0, <2>0, <2>1 DEF Held, HookTyped
    <3> QED
      BY <2>0, <2>1, <2>2, <3>1, <3>2, HookKept
<1> QED
  BY <1>1, <1>2, <1>3, <1>4, <1>5, <1>6, HookNames
  DEF Hook!Handle, Hook!Disturb, Hook!hookVars

LEMMA HookInvariance == Hook!WebhookAssumption => (Hook!Spec => []HookInv)
<1> SUFFICES ASSUME Hook!WebhookAssumption PROVE Hook!Spec => []HookInv
  OBVIOUS
<1>1. Hook!Init => HookInv
  <2> SUFFICES ASSUME Hook!Init PROVE HookInv
    OBVIOUS
  <2>1. SqsInit /\ SqsInv
    BY HookNames, SqsInitOK DEF Hook!Init
  <2>2. HookTyped
    BY HookNames DEF Hook!Init, HookTyped
  <2>3. \A c \in Copies : at[c] = "out" /\ answer[c[2]] = "none"
    BY <2>1 DEF Hook!Init, SqsInit, Copies
  <2>4. \A e \in Envs : Held(e) = {}
    BY <2>1 DEF SqsInit, Held, Idle
  <2> QED
    BY <2>1, <2>2, <2>3, <2>4 DEF HookInv
<1>2. HookInv /\ [Hook!Next]_(Hook!vars) => HookInv'
  <2> SUFFICES ASSUME HookInv, [Hook!Next]_(Hook!vars) PROVE HookInv'
    OBVIOUS
  <2>1. CASE UNCHANGED Hook!vars
    <3>1. UNCHANGED <<at, receives, hidden, job, faults, version, cached, signed, answer, taken>>
      BY <2>1 DEF Hook!vars, Hook!hookVars
    <3>2. SqsInv' /\ HookTyped'
      BY <3>1 DEF HookInv, HookTyped, SqsInv, SqsTypeOK, HeldOK, Held
    <3> QED
      BY <3>1, <3>2, HookKept DEF Held
  <2>2. CASE Hook!Rotate
    <3>1. /\ UNCHANGED <<at, receives, hidden, job, faults, cached, signed, answer, taken>>
          /\ version' = version + 1
      BY <2>2 DEF Hook!Rotate
    <3>2. SqsInv' /\ HookTyped'
      BY <3>1 DEF HookInv, HookTyped, SqsInv, SqsTypeOK, HeldOK, Held
    <3> QED
      BY <3>1, <3>2, HookKept DEF Held
  <2>3. CASE Hook!Next /\ ~ Hook!Rotate
    BY <2>3, HookNames, AwsKeepsHook, ProviderKeepsHook, ConsumerKeepsHook DEF Hook!Next
  <2> QED
    BY <2>1, <2>2, <2>3
<1> QED
  BY <1>1, <1>2, PTL DEF Hook!Spec

\* If SQS refuses no post with a client error, which the API answers with a 202, a
\* post that was accepted is on the queue or has left it.
THEOREM AcceptedQueued ==
  Hook!WebhookAssumption /\ "4xx" \notin Faults => (Hook!Spec => []AcceptedIsQueued)
<1>1. "4xx" \notin Faults /\ HookInv => AcceptedIsQueued
  BY HookNames DEF HookInv, AcceptedIsQueued
<1> SUFFICES ASSUME Hook!WebhookAssumption, "4xx" \notin Faults
             PROVE  Hook!Spec => []AcceptedIsQueued
  OBVIOUS
<1> QED
  BY <1>1, HookInvariance, PTL

\* Only a response deletes a record.
LEMMA DropsHaveCause ==
  ASSUME HookInv, Hook!Next, NEW c \in Copies,
         at[c] # "deleted", at'[c] = "deleted", Good(c), taken[c] = 0
  PROVE  \E e \in Envs : /\ c \in job[e].batch /\ job'[e] = Idle
                         /\ cached[e] \notin {0, signed[c[2]]}
<1>0. SqsInv /\ at \in [Copies -> {"out", "topic", "queue", "deleted", "dlq"}]
  BY SqsTypes DEF HookInv
<1>1. ASSUME NEW d \in Copies, Hook!Post(d) \/ Hook!Refused(d) \/ Hook!TimesOut(d) PROVE FALSE
  BY <1>0, <1>1, HookNames DEF Hook!Post, Hook!Refused, Hook!TimesOut, Move
<1>2. ASSUME NEW d \in Copies, Hook!Aws(d) PROVE FALSE
  <2>1. Sqs(d)
    BY <1>2, HookSqs DEF Hook!Aws
  <2>2. ASSUME NEW e \in Envs, NEW B \in SUBSET Copies, Receive(e, B) PROVE FALSE
    BY <1>0, <2>2, ReceiveOK
  <2>3. CASE Redrive(d)
    BY <1>0, <1>2, <2>3, RedriveOK
  <2>4. CASE Reappear(d)
    BY <1>0, <1>2, <2>4, ReappearOK
  <2> QED
    BY <1>2, <2>1, <2>2, <2>3, <2>4, SqsSteps
<1>3. ~ UNCHANGED at
  OBVIOUS
<1>4. ~ Hook!Rotate
  BY <1>3 DEF Hook!Rotate
<1>5. ASSUME NEW e \in Envs, Hook!Disturb(e) PROVE FALSE
  BY <1>3, <1>5, HookNames
  DEF Hook!Disturb, Hook!Downstream, Hook!FailRecord, Hook!NoKey, Hook!Recycle, Hook!sqsVars,
      Hook!Crash, FailBatch
<1>6. PICK e \in Envs : Hook!Handle(e)
  BY <1>1, <1>2, <1>4, <1>5, HookNames DEF Hook!Next
<1>7. Respond(e)
  BY <1>3, <1>6, HookNames
  DEF Hook!Handle, Hook!FetchKey, Hook!Process, Hook!Drop, Hook!Reject, Hook!FailRecord
<1>8. /\ job[e].todo = {} /\ job'[e] = Idle
      /\ at' = [d \in Copies |-> IF d \in Held(e) THEN "deleted" ELSE at[d]]
  BY <1>0, <1>7, RespondOK
<1>9. c \in Held(e)
  BY <1>8
<1>10. Settled(e, c)
  BY <1>8, <1>9 DEF HookInv
<1>11. ~ Taken(c)
  BY DEF Taken
<1> QED
  BY <1>8, <1>9, <1>10, <1>11 DEF Settled, Held

\* A genuine event is dropped only with another cached key than its own, whatever
\* fails.
THEOREM DropsNeedRotation ==
  Hook!WebhookAssumption => (Hook!Spec => GenuineDropsNeedRotation)
<1> DEFINE A == \A c \in Copies :
             at[c] # "deleted" /\ at'[c] = "deleted" /\ Good(c) /\ taken[c] = 0 =>
               \E e \in Envs : /\ c \in job[e].batch /\ job'[e] = Idle
                               /\ cached[e] \notin {0, signed[c[2]]}
<1>1. HookInv /\ [Hook!Next]_(Hook!vars) => [A]_at
  <2>1. CASE UNCHANGED Hook!vars
    BY <2>1 DEF Hook!vars
  <2>2. ASSUME HookInv, Hook!Next PROVE A
    BY <2>2, DropsHaveCause
  <2> QED
    BY <2>1, <2>2
<1> SUFFICES ASSUME Hook!WebhookAssumption
             PROVE  Hook!Spec => GenuineDropsNeedRotation
  OBVIOUS
<1>2. GenuineDropsNeedRotation <=> [][A]_at
  BY DEF GenuineDropsNeedRotation
<1> QED
  BY <1>1, <1>2, HookInvariance, PTL DEF Hook!Spec
=============================================================================
