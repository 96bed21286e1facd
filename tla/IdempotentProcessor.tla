------------------------- MODULE IdempotentProcessor -------------------------
(***************************************************************************)
(* The idempotent processor (patterns/idempotent-processor): an SQS        *)
(* consumer whose side effect runs under a record that Powertools'         *)
(* idempotent_function keeps in DynamoDB for its key.  Powertools is       *)
(* external: it is modelled as the handler configures and relies on it.    *)
(*                                                                         *)
(* now is a coarse clock.  A function's timeout is below ExpiresAfter, so  *)
(* an item's deadline passes before it expires; and it is a sixth of the   *)
(* lease, so a message comes back only after every deadline that was then  *)
(* pending in its invocation, or refused it, has passed.                   *)
(***************************************************************************)
EXTENDS Sqs

CONSTANTS
  Requests,       \* what the messages ask for, however often they are sent
  RequestOf,      \* message -> the request it is a submission of
  Body,           \* message -> its idempotency_key, id and digest
  Junk,           \* messages whose body is not a JSON object
  Keys,
  NoValue,        \* a field that is absent, or falsy
  ExpiresAfter,   \* expires_after_seconds of IdempotencyConfig
  Window,         \* idempotency_ttl_seconds
  MaxTime         \* bounds now

ASSUME IdempotentAssumption ==
  /\ NoValue \notin Keys
  /\ Body \in [Messages -> [idempotency_key : Keys \cup {NoValue},
                            id : Keys \cup {NoValue}, digest : Keys]]
  /\ RequestOf \in [Messages -> Requests]
  /\ Junk \subseteq Messages
  /\ ExpiresAfter \in Nat /\ Window \in Nat /\ MaxTime \in Nat

VARIABLES
  now,
  record,     \* key -> its item in the table
  cache,      \* environment -> key -> expiry of the result it caches, 0 if none
  current,    \* environment -> the copies it has begun: at most one, and how far
  rival,      \* copy -> the copies whose deadlines are over before its lease is
  refused,    \* copy -> how often a copy at work was in its way (ghost)
  effects,    \* request -> how often its side effect has run (ghost)
  saves,      \* request -> how often the result was saved (ghost)
  savedAt     \* request -> when it was last saved, 0 if never (ghost)

ipVars == <<now, record, cache, current, rival, refused, effects, saves, savedAt>>
vars == <<at, receives, hidden, job, faults, ipVars>>

\* The item of a key: by is the copy that put it in progress, until that has
\* ended or its invocation's deadline has passed.
NoRecord == [status |-> "none", by |-> {}, expiry |-> 0]
Stages == {"run", "save"}

Init ==
  /\ SqsInit
  /\ now = 1
  /\ record = [k \in Keys |-> NoRecord]
  /\ cache = [e \in Envs |-> [k \in Keys |-> 0]]
  /\ current = [e \in Envs |-> {}]
  /\ rival = [c \in Copies |-> {}]
  /\ refused = [c \in Copies |-> 0]
  /\ effects = [q \in Requests |-> 0]
  /\ saves = [q \in Requests |-> 0]
  /\ savedAt = [q \in Requests |-> 0]

-----------------------------------------------------------------------------
(* A definition named X_Y is X with the bug Y.                             *)

KeyOf_Digest(m) == Body[m].digest
\* _idempotency_key: a business key if the body has one, else the digest.
KeyOf(m) ==
  IF Body[m].idempotency_key # NoValue THEN Body[m].idempotency_key
  ELSE IF Body[m].id # NoValue THEN Body[m].id
  ELSE Body[m].digest

KeyAt(c) == KeyOf(c[2])
RequestAt(c) == RequestOf[c[2]]

Send(c) == Move(c, "out", "queue") /\ UNCHANGED <<receives, hidden, job, faults, ipVars>>

\* The invocation of e turns to record c, the body of which is an object.
Begins(e, c) == c \in job[e].todo /\ current[e] = {} /\ c[2] \notin Junk

Cached(e, c) == cache[e][KeyAt(c)] >= now

Lapsed_NoContext(r) == FALSE
\* The Lambda context is registered, so an item in progress carries the deadline
\* of its invocation.
Lapsed(r) == r.status = "INPROGRESS" /\ r.by = {}
Takeable(r) == r.status = "none" \/ r.expiry < now \/ Lapsed(r)

\* The copies S hold no key any more.
Release(S) == rival' = [d \in Copies |-> rival[d] \ S]

\* save_inprogress: the conditional put succeeds.  The deadline it leaves is that
\* of the invocation, and so before the end of the leases of the whole batch.
Lock(e, c) ==
  /\ Begins(e, c) /\ ~ Cached(e, c) /\ Takeable(record[KeyAt(c)])
  /\ record' = [record EXCEPT ![KeyAt(c)] =
       [status |-> "INPROGRESS", by |-> {c}, expiry |-> now + ExpiresAfter]]
  /\ current' = [current EXCEPT ![e] = {<<c, "run">>}]
  /\ rival' = [d \in Copies |-> rival[d] \cup IF d \in job[e].batch THEN {c} ELSE {}]
  /\ UNCHANGED <<sqsVars, now, cache, refused, effects, saves, savedAt>>

Replay_Works(e, c) ==
  /\ Begins(e, c)
  /\ \/ Cached(e, c)
     \/ record[KeyAt(c)].status = "COMPLETED" /\ ~ Takeable(record[KeyAt(c)])
  /\ Handled(e, c, TRUE)
  /\ effects' = [effects EXCEPT ![RequestAt(c)] = @ + 1]
  /\ UNCHANGED <<at, receives, hidden, faults, now, record, cache, current, rival, refused, saves, savedAt>>
\* The stored result is returned, from the local cache or from the table.
Replay(e, c) ==
  /\ Begins(e, c)
  /\ \/ Cached(e, c)
     \/ record[KeyAt(c)].status = "COMPLETED" /\ ~ Takeable(record[KeyAt(c)])
  /\ Handled(e, c, TRUE)
  /\ UNCHANGED <<at, receives, hidden, faults, ipVars>>

InProgress(c) == \E e \in Envs, s \in Stages : <<c, s>> \in current[e]

\* Another copy's item is in progress: the message comes back after its deadline.
Refused(e, c, ok) ==
  /\ Begins(e, c) /\ ~ Cached(e, c)
  /\ LET r == record[KeyAt(c)]
     IN  /\ r.status = "INPROGRESS" /\ ~ Takeable(r)
         /\ rival' = [rival EXCEPT ![c] = @ \cup r.by]
         /\ refused' = [refused EXCEPT ![c] =
                          @ + IF \E d \in r.by : InProgress(d) THEN 1 ELSE 0]
  /\ Handled(e, c, ok)
  /\ UNCHANGED <<at, receives, hidden, faults, now, record, cache, current, effects, saves, savedAt>>

Busy_Acknowledged(e, c) == Refused(e, c, TRUE)
\* record_handler raises IdempotencyAlreadyInProgressError.
Busy(e, c) == Refused(e, c, FALSE)

\* The body is not a JSON object: record_handler raises.
Reject(e, c) ==
  /\ c[2] \in Junk /\ current[e] = {}
  /\ Handled(e, c, FALSE)
  /\ UNCHANGED <<at, receives, hidden, faults, ipVars>>

\* process_payload: the side effect.
Run(e, c) ==
  /\ current[e] = {<<c, "run">>}
  /\ current' = [current EXCEPT ![e] = {<<c, "save">>}]
  /\ effects' = [effects EXCEPT ![RequestAt(c)] = @ + 1]
  /\ UNCHANGED <<sqsVars, now, record, cache, rival, refused, saves, savedAt>>

\* process_payload raises: the record is deleted and the exception goes on.
RunFails(e, c) ==
  /\ Fault("downstream")
  /\ current[e] = {<<c, "run">>}
  /\ current' = [current EXCEPT ![e] = {}]
  /\ record' = [record EXCEPT ![KeyAt(c)] = NoRecord]
  /\ cache' = [cache EXCEPT ![e][KeyAt(c)] = 0]
  /\ Release({c})
  /\ Handled(e, c, FALSE)
  /\ UNCHANGED <<at, receives, hidden, now, refused, effects, saves, savedAt>>

\* save_success: the result is stored, and cached in the environment.
Save(e, c) ==
  /\ current[e] = {<<c, "save">>}
  /\ current' = [current EXCEPT ![e] = {}]
  /\ record' = [record EXCEPT ![KeyAt(c)] =
       [status |-> "COMPLETED", by |-> {}, expiry |-> now + ExpiresAfter]]
  /\ cache' = [cache EXCEPT ![e][KeyAt(c)] = now + ExpiresAfter]
  /\ saves' = [saves EXCEPT ![RequestAt(c)] = @ + 1]
  /\ savedAt' = [savedAt EXCEPT ![RequestAt(c)] = now]
  /\ Release({c})
  /\ Handled(e, c, TRUE)
  /\ UNCHANGED <<at, receives, hidden, faults, now, refused, effects>>

\* The table fails a call that is made for c: the put of save_inprogress, the
\* update of save_success, or the delete after process_payload has raised.  The
\* item stays as it is, in progress if it was.
TableFails(e, c) ==
  /\ Fault("table")
  /\ (Begins(e, c) /\ ~ Cached(e, c)) \/ \E s \in Stages : current[e] = {<<c, s>>}
  /\ current' = [current EXCEPT ![e] = {}]
  /\ Handled(e, c, FALSE)
  /\ UNCHANGED <<at, receives, hidden, now, record, cache, rival, refused, effects, saves, savedAt>>

-----------------------------------------------------------------------------
\* The deadline that the item of k carries passes, after the invocation's end.
Lapse(k) ==
  /\ record[k].by # {}
  /\ \A c \in record[k].by, e \in Envs : c \notin job[e].batch
  /\ record' = [record EXCEPT ![k].by = {}]
  /\ Release(record[k].by)
  /\ UNCHANGED <<sqsVars, now, cache, current, refused, effects, saves, savedAt>>

Tick ==
  /\ now < MaxTime
  /\ \A k \in Keys : record[k].by # {} => now < record[k].expiry
  /\ now' = now + 1
  /\ UNCHANGED <<sqsVars, record, cache, current, rival, refused, effects, saves, savedAt>>

\* The sandbox dies, and its cache with it.
Die(e) ==
  /\ Crash(e)
  /\ current' = [current EXCEPT ![e] = {}]
  /\ cache' = [cache EXCEPT ![e] = [k \in Keys |-> 0]]
  /\ UNCHANGED <<now, record, rival, refused, effects, saves, savedAt>>

\* A message comes back after its lease, and so after the deadlines of its rivals.
Aws(c) == Sqs(c) /\ (hidden[c] = "no" \/ rival[c] = {}) /\ UNCHANGED ipVars

Handle(e) == \/ \E c \in job[e].todo : \/ Lock(e, c) \/ Replay(e, c) \/ Busy(e, c)
                                       \/ Reject(e, c) \/ Run(e, c) \/ Save(e, c)
             \/ Respond(e) /\ UNCHANGED ipVars

Next == \/ Tick
        \/ \E c \in Copies : Send(c) \/ Aws(c)
        \/ \E e \in Envs : Handle(e) \/ Die(e)
        \/ \E e \in Envs : \E c \in job[e].todo : RunFails(e, c) \/ TableFails(e, c)
        \/ \E k \in Keys : Lapse(k)

\* SQS delivers, an invocation runs on or dies, and its deadline passes.  Nobody
\* has to send, and the clock may stand still.
Fairness == /\ \A c \in Copies : WF_vars(Aws(c))
            /\ \A e \in Envs : WF_vars(Handle(e))
            /\ \A k \in Keys : WF_vars(Lapse(k))

Spec == Init /\ [][Next]_vars /\ Fairness

-----------------------------------------------------------------------------
Doing(e, q, s) == \E c \in Copies : RequestAt(c) = q /\ <<c, s>> \in current[e]

\* The producers' part: a submission of a request has the key of the others, and
\* a key is of one request.
RequestsKeepKeys ==
  \A m, n \in Messages \ Junk : RequestOf[m] = RequestOf[n] => KeyOf(m) = KeyOf(n)
KeysTellRequests ==
  \A m, n \in Messages \ Junk : KeyOf(m) = KeyOf(n) => RequestOf[m] = RequestOf[n]

\* The dedupe window: once the result of a request is saved, its side effect does
\* not run again before idempotency_ttl_seconds are over, whichever submission
\* arrives in which environment, with a local cache that is warm, stale or lost.
OncePerWindow ==
  [][\A q \in Requests :
       effects'[q] > effects[q] => savedAt[q] = 0 \/ now > savedAt[q] + Window]_vars

\* A side effect runs no more often than its result is saved and faults occur, of
\* which crashes and failed saves are the ones that repeat it: two submissions of
\* one request, delivered to two environments at the same time, are not both at
\* work, since the second one finds the key in progress.
OneEffectPerSave ==
  \A q \in Requests :
    effects[q] <= saves[q] + faults + IF \E e \in Envs : Doing(e, q, "save") THEN 1 ELSE 0

\* A message leaves the queue as done only when its request has taken effect,
\* though another submission may have done the work: a record refused because
\* its key was in progress stays on the queue, as the holder may still fail.
AcknowledgedTookEffect ==
  \A c \in Copies : at[c] = "deleted" =>
    c[2] \notin Junk /\ effects[RequestAt(c)] > 0 /\ savedAt[RequestAt(c)] > 0

\* No record stays wedged in progress: a message that is not junk is done in the
\* end, or every one of its receives has come to grief, and each for a reason of
\* its own: a fault, or a copy that was at work on its key just then.  A fault
\* that leaves the key in progress costs the message one receive, since it finds
\* the deadline passed when it comes back, and not all that it has left.
NotWedged ==
  \A c \in Copies : at[c] = "queue" ~>
    \/ at[c] = "deleted"
    \/ at[c] = "dlq" /\ (c[2] \in Junk \/ MaxReceiveCount <= faults + refused[c])
=============================================================================
