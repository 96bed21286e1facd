--------------------------- MODULE MCRetryBackoff ---------------------------
(* A small instance of the retry-backoff processor for TLC.                *)
EXTENDS RetryBackoff

CONSTANTS work, good, poison, junk, w1, w2

\* The clamped power of two of compute_backoff_seconds is the documented
\* schedule for every attempt, past the clamp too.  (With base 1 the power
\* itself stays within TLC's integers.)
ASSUME CeilingIsSchedule ==
  \A cap \in {1, 900, 43200, 50000} :
    LET schedule == Schedule(1, cap, 40)
    IN  \A n \in 1..40 : Ceiling(n, 1, cap) = schedule[n]
=============================================================================
