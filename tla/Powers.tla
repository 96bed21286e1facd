------------------------------- MODULE Powers --------------------------------
(* The powers of two that the backoff delays grow with.                    *)
EXTENDS Integers

\* Python's 2 ** n.
Power2[n \in Nat] == IF n = 0 THEN 1 ELSE 2 * Power2[n - 1]
=============================================================================
