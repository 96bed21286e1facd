------------------------ MODULE MCIdempotentProcessor ------------------------
(* A small instance of the idempotent processor for TLC.                   *)
EXTENDS IdempotentProcessor, TLC

CONSTANTS work, first, dup, junk, k1, d1, d2, d3, w1, w2

\* The request is submitted twice: under one idempotency_key, in bodies that differ.
SameRequest == [m \in Messages |-> IF m = junk THEN junk ELSE first]
Bodies ==
  (first :> [idempotency_key |-> k1, id |-> NoValue, digest |-> d1]) @@
  (dup :> [idempotency_key |-> NoValue, id |-> k1, digest |-> d2]) @@
  (junk :> [idempotency_key |-> NoValue, id |-> NoValue, digest |-> d3])
=============================================================================
