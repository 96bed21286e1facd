------------------------------ MODULE MCFanOut ------------------------------
(* A small instance of the fan-out pattern for TLC.                        *)
EXTENDS FanOut

CONSTANTS audit, notifications, order, click, junk, w1

\* The notifications consumer subscribes to orders only; the audit consumer takes
\* everything and fails on clicks.
AllForAudit == ({audit} \X Messages) \cup {<<notifications, order>>}
PoisonForAudit == {<<audit, click>>} \cap Copies
=============================================================================
