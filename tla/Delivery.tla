------------------------------ MODULE Delivery -------------------------------
(***************************************************************************)
(* What an SQS pattern promises of every copy of a message: it is pending  *)
(* until it is acknowledged, which takes its effect unless it may be       *)
(* dropped, or until it is dead, which takes all the attempts it has.  It  *)
(* never leaves those two states.  A copy the queue cannot take is dead at *)
(* once.                                                                   *)
(***************************************************************************)
EXTENDS Naturals

CONSTANTS
  Copies,
  Attempts,     \* attempts each copy has
  Droppable     \* copies that may be acknowledged without an effect

VARIABLES
  status,       \* copy -> "absent", "pending", "acknowledged" or "dead"
  attempts,     \* copy -> attempts made
  effective     \* copies whose effect has taken place

vars == <<status, attempts, effective>>

Init == /\ status = [c \in Copies |-> "absent"]
        /\ attempts = [c \in Copies |-> 0]
        /\ effective = {}

Pending(S) == \A c \in S : status[c] = "pending"
Become(S, s) == /\ status' = [c \in Copies |-> IF c \in S THEN s ELSE status[c]]
                /\ UNCHANGED <<attempts, effective>>

Accept(c) == status[c] = "absent" /\ Become({c}, "pending")
Refuse(c) == status[c] = "absent" /\ Become({c}, "dead")

Attempt(S) ==
  /\ Pending(S) /\ \A c \in S : attempts[c] < Attempts
  /\ attempts' = [c \in Copies |-> attempts[c] + IF c \in S THEN 1 ELSE 0]
  /\ UNCHANGED <<status, effective>>

Effect(c) ==
  /\ Pending({c}) /\ attempts[c] > 0
  /\ effective' = effective \cup {c}
  /\ UNCHANGED <<status, attempts>>

Acknowledge(S) ==
  Pending(S) /\ S \subseteq effective \cup Droppable /\ Become(S, "acknowledged")

Bury(c) == Pending({c}) /\ attempts[c] = Attempts /\ Become({c}, "dead")

Next == \/ \E c \in Copies : Accept(c) \/ Refuse(c) \/ Effect(c) \/ Bury(c)
        \/ \E S \in SUBSET Copies : Attempt(S) \/ Acknowledge(S)

Spec == Init /\ [][Next]_vars
=============================================================================
