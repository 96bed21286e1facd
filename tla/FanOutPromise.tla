---------------------------- MODULE FanOutPromise ----------------------------
(***************************************************************************)
(* What the fan-out pattern promises of each consumer's copy of a message, *)
(* and the state that promise is about.  FanOut has the actions.           *)
(***************************************************************************)
EXTENDS Sqs

CONSTANT Unparsed         \* messages whose body is not JSON

VARIABLE processed        \* copy -> how often process_record has succeeded (ghost)

\* What has become of each consumer's copy, and which have taken effect.
Status == [c \in Copies |-> CASE at[c] \in {"out", "topic"} -> "absent"
                              [] at[c] = "deleted"          -> "acknowledged"
                              [] at[c] = "dlq"              -> "dead"
                              [] OTHER                      -> "pending"]
Effective == {c \in Copies : processed[c] > 0}

\* Only unparseable copies are dropped.
Contract == INSTANCE Delivery WITH
  Attempts <- MaxReceiveCount, Droppable <- {c \in Copies : c[2] \in Unparsed},
  status <- Status, attempts <- receives, effective <- Effective

\* No consumer's copy is deleted before its worker is done with it, or redriven
\* before its last receive.
ImplementsContract == Contract!Spec
=============================================================================
