--------------------------- MODULE WebhookPromise ----------------------------
(***************************************************************************)
(* What the webhook pattern promises to the providers that post events,    *)
(* and the state that promise is about.  WebhookIngest has the actions.    *)
(***************************************************************************)
EXTENDS Sqs

CONSTANT Poison     \* events for which process_event always raises

VARIABLES
  version,    \* the version of the secret, which providers sign with
  cached,     \* environment -> the version its lru_cache holds, 0 if none
  signed,     \* message -> the version it was signed with; 0 if its signature
              \* is missing or made by no key, or its body is not JSON
  answer,     \* message -> what the provider was told of the post
  taken       \* copy -> how often process_event has succeeded (ghost)

EventOf(c) == c[2][1]

Good(c) == signed[c[2]] # 0 /\ EventOf(c) \notin Poison

\* A provider that was told 202 does not post again: "once the message is safely
\* on the queue", so that an accepted post is never one that SQS has not got.
AcceptedIsQueued ==
  \A c \in Copies : answer[c[2]] = "accepted" => at[c] # "out"

\* Dropped records are never retried: a genuine event is acknowledged without
\* having taken effect only by an environment that has cached a key, and another
\* one than it was signed with, which takes a rotation; never for a failed
\* Secrets Manager, a failed batch, a failed downstream or another environment's
\* key.
GenuineDropsNeedRotation ==
  [][\A c \in Copies :
       at[c] # "deleted" /\ at'[c] = "deleted" /\ Good(c) /\ taken[c] = 0 =>
         \E e \in Envs : /\ c \in job[e].batch /\ job'[e] = Idle
                         /\ cached[e] \notin {0, signed[c[2]]}]_at
=============================================================================
