------------------------------- MODULE MCSaga -------------------------------
(* A small instance of the saga for TLC.                                   *)
EXTENDS SagaProperties

CONSTANTS x1, o1

Steady == [s \in ForwardStates |-> 0]
Flaky(s, n) == [Steady EXCEPT ![s] = n]
Order(o, failAt, flaky) ==
  [order |-> o, payable |-> TRUE, fail_at |-> failAt, flaky_steps |-> flaky]

Malformed == {[Order(NoOrder, "none", Steady) EXCEPT !.payable = p] : p \in BOOLEAN}
Unpayable == {[Order(o1, "none", Steady) EXCEPT !.payable = FALSE]}
Declined == {Order(o1, s, Steady) : s \in ForwardStates \cup {"none"}}
\* Steps that succeed on the last attempt they get, and one attempt later.
FlakyOrders == {Order(o1, "none", Flaky(s, 2)) : s \in ForwardStates}
  \cup {Order(o1, "ReserveInventory", Flaky("ChargePayment", 2)),
        Order(o1, "none", Flaky("ReserveInventory", 3))}
OrderInputs == Declined \cup Malformed \cup Unpayable \cup FlakyOrders

\* One retry of each kind, so that two faults use it up.
OneRetry == [r \in Retriers |-> 1]

NoFaults == [k \in FaultKinds |-> 0]
\* Any two faults, and three crashes.
TwoFaults ==
  {[[NoFaults EXCEPT ![k] = @ + 1] EXCEPT ![l] = @ + 1] : k, l \in FaultKinds}
    \cup {[NoFaults EXCEPT !["crash"] = 3]}
=============================================================================
