----------------------------- MODULE SagaProofs -----------------------------
(* Proofs of the safety properties of the saga, for every set of           *)
(* executions, orders and inputs, every retry budget and every mix of      *)
(* faults.                                                                 *)
EXTENDS SagaProperties, FiniteSetTheorems, TLAPS

States == TaskStates \cup Terminals \cup {"InitializeSaga"}

-----------------------------------------------------------------------------
(* The inductive invariant, by parts.                                      *)

\* The store calls a handler makes.
OpsOf(fn) ==
  CASE fn = "CreateOrder" -> {"start", "inject", "write", "reply"}
    [] fn \in ForwardStates \ {"CreateOrder"} -> {"inject", "write", "reply"}
    [] fn \in CompensationStates -> {"status", "write", "reply"}
    [] OTHER -> {"status", "reply"}

\* The bookkeeping between an execution and its invocations: numbers are
\* never reused, and the invocation it waits for is one of its current state.
CallsOK ==
  /\ \A c \in calls : /\ c.no # 0 /\ c.no <= invoked[c.of]
                      /\ c.at \in OpsOf(c.fn)
                      /\ Awaited(c) => c.fn = pc[c.of]
  /\ \A x \in Execs : /\ awaiting[x] <= invoked[x]
                      /\ awaiting[x] # 0 => pc[x] \in TaskStates

\* Past CreateOrder the item has its maps, for the execution as well as for
\* any invocation that outlived it.
Mapped(x) == input[x].order \in Orders /\ store[input[x].order].mapped

MapsExist ==
  /\ \A x \in Execs :
       pc[x] \in TaskStates \ {"CreateOrder", "MarkFailed"} => Mapped(x)
  /\ \A c \in calls :
       \/ c.fn = "MarkFailed"
       \/ c.fn = "CreateOrder" /\ c.at = "start"
       \/ Mapped(c.of)

\* What an execution has received, by the state it is in.
Received(x, s) == results[x][s] # NoId

Progress ==
  \A x \in Execs :
    /\ pc[x] = "InitializeSaga" =>
         \A s \in ForwardStates : ~ Received(x, s)
    /\ pc[x] \in ForwardStates =>
         \A s \in ForwardStates : Received(x, s) <=> s \in PrecedingSteps[pc[x]]
    /\ pc[x] = "ReleaseInventory" => Received(x, "ReserveInventory")
    /\ pc[x] \in {"ReleaseInventory", "RefundPayment"} => Received(x, "ChargePayment")
    /\ pc[x] \in CompensationStates \cup {"MarkFailed", "SagaFailed"} =>
         ~ Received(x, "ScheduleShipment")

\* What has been received was recorded, and so was what is about to be; a
\* compensation has a result to compensate.
RecordsExist ==
  /\ \A x \in Execs, s \in ForwardStates : Received(x, s) =>
       Recorded(x, s, Done(results[x][s]))
  /\ \A c \in calls :
       /\ c.fn \in Recorders /\ c.at = "reply" => Recorded(c.of, c.fn, EntryOf(c))
       /\ c.fn \in {"ReleaseInventory", "RefundPayment"} =>
            Received(c.of, Compensates[c.fn])

\* The unwinding so far.
Unwound ==
  \A x \in Execs :
    /\ pc[x] \in {"RefundPayment", "CancelOrder", "MarkFailed", "SagaFailed"}
         /\ Received(x, "ReserveInventory") => Compensated(x, "ReserveInventory")
    /\ pc[x] \in {"CancelOrder", "MarkFailed", "SagaFailed"}
         /\ Received(x, "ChargePayment") => Compensated(x, "ChargePayment")
    /\ pc[x] \in {"MarkFailed", "SagaFailed"}
         /\ Received(x, "CreateOrder") => Compensated(x, "CreateOrder")

TypeInv == TypeOK /\ CallsOK
IInv == MapsExist /\ Progress /\ RecordsExist /\ Unwound
          /\ CompensationHasItsTarget

-----------------------------------------------------------------------------
(* Types.                                                                  *)

\* The part of TypeOK about what Step Functions keeps of an execution.
ControlOK ==
  /\ pc \in [Execs -> States]
  /\ tries \in [Execs -> [Retriers -> Nat]]
  /\ \A x \in Execs, r \in Retriers : tries[x][r] <= Budget[r]
  /\ awaiting \in [Execs -> Nat]

\* An execution that still waits after the step waits where it waited before.
KeepsWaiting ==
  \A x \in Execs : awaiting'[x] # 0 => pc'[x] = pc[x] /\ awaiting'[x] = awaiting[x]

\* Changing state keeps an execution's control state well-typed.
LEMMA EnterOK ==
  ASSUME ControlOK, NEW x \in Execs, NEW s \in States, Enter(x, s)
  PROVE  ControlOK' /\ KeepsWaiting
<1>1. Budget \in [Retriers -> Nat]
  BY SagaAssumption
<1>2. pc' \in [Execs -> States] /\ awaiting' \in [Execs -> Nat]
  BY DEF ControlOK, Enter
<1>3. tries' \in [Execs -> [Retriers -> Nat]]
  BY DEF ControlOK, Enter
<1>4. \A y \in Execs, r \in Retriers : tries'[y][r] <= Budget[r]
  BY <1>1 DEF ControlOK, Enter
<1>5. KeepsWaiting
  BY DEF ControlOK, Enter, KeepsWaiting
<1> QED
  BY <1>2, <1>3, <1>4, <1>5 DEF ControlOK

\* So does an error, whether it is retried or caught.
LEMMA ErrorOK ==
  ASSUME ControlOK, NEW x \in Execs, NEW e, pc[x] \in TaskStates, OnError(x, e)
  PROVE  ControlOK' /\ KeepsWaiting
<1> DEFINE usable == {r \in RetriersFor(pc[x], e) : tries[x][r] < Budget[r]}
<1>1. CASE \E r \in usable :
             /\ tries' = [tries EXCEPT ![x][r] = @ + 1]
             /\ awaiting' = [awaiting EXCEPT ![x] = 0]
             /\ UNCHANGED pc
  <2>1. PICK r \in usable : /\ tries' = [tries EXCEPT ![x][r] = @ + 1]
                            /\ awaiting' = [awaiting EXCEPT ![x] = 0]
                            /\ UNCHANGED pc
    BY <1>1
  <2>2. r \in Retriers
    BY DEF RetriersFor, TaskStates, ForwardStates, CompensationStates, Retriers
  <2>3. tries[x][r] < Budget[r] /\ Budget \in [Retriers -> Nat]
    BY SagaAssumption
  <2>4. pc' \in [Execs -> States] /\ awaiting' \in [Execs -> Nat] /\ KeepsWaiting
    BY <2>1 DEF ControlOK, KeepsWaiting
  <2>5. tries' \in [Execs -> [Retriers -> Nat]]
    BY <2>1, <2>2 DEF ControlOK
  <2>6. \A y \in Execs, q \in Retriers : tries'[y][q] <= Budget[q]
    BY <2>1, <2>2, <2>3 DEF ControlOK
  <2> QED
    BY <2>4, <2>5, <2>6 DEF ControlOK
<1>2. CASE Enter(x, CatchState[pc[x]])
  <2>1. CatchState[pc[x]] \in States
    BY DEF CatchState, States, TaskStates, Terminals, ForwardStates, CompensationStates
  <2> QED
    BY <1>2, <2>1, EnterOK
<1> QED
  BY <1>1, <1>2 DEF OnError, RetryOrCatch

\* And the end of an invocation, awaited or not.
LEMMA RaiseOK ==
  ASSUME TypeInv, NEW c \in calls, NEW e, Raise(c, e)
  PROVE  ControlOK' /\ KeepsWaiting
<1>1. ControlOK /\ c \in Calls
  BY DEF TypeInv, TypeOK, ControlOK, States
<1>2. CASE Awaited(c)
  <2>1. c.of \in Execs /\ pc[c.of] \in TaskStates
    BY <1>1, <1>2 DEF TypeInv, CallsOK, Calls
  <2> QED
    BY <1>1, <1>2, <2>1, ErrorOK DEF Raise
<1>3. CASE ~ Awaited(c)
  BY <1>1, <1>3 DEF Raise, ControlOK, KeepsWaiting
<1> QED
  BY <1>2, <1>3

-----------------------------------------------------------------------------
\* The typing of the rest, given that the control state is well-typed.
LEMMA EntryType ==
  ASSUME TypeInv, NEW c \in calls, ~ Rejects(c), c.fn \in Recorders
  PROVE  EntryOf(c) \in Entries
<1>1. c \in Calls /\ c.of \in Execs /\ c.no \in Nat
  BY DEF TypeInv, TypeOK, Calls
<1>2. OrderOf(c) \in Orders
  BY <1>1, SagaAssumption DEF TypeInv, TypeOK, OrderOf, Rejects
<1>3. NewId(c) \in Ids /\ NoId \in Ids
  BY <1>1, <1>2 DEF NewId, Ids
<1>4. CASE c.fn \in {"ReleaseInventory", "RefundPayment"}
  <2>1. Compensates[c.fn] \in ForwardStates
    BY <1>4 DEF Compensates, ForwardStates
  <2>2. DetailOf(c) \in Ids
    BY <1>1, <2>1 DEF DetailOf, TypeInv, TypeOK
  <2> QED
    BY <1>3, <1>4, <2>2 DEF EntryOf, Entries, Done, ForwardStates
<1>5. CASE c.fn \in ForwardStates \cup {"CancelOrder"}
  BY <1>3, <1>5 DEF EntryOf, Entries, Done
<1> QED
  BY <1>4, <1>5 DEF Recorders, CompensationStates

\* The parts of TypeInv an invocation step touches when it ends.
LEMMA EndOK ==
  ASSUME TypeInv, ControlOK', KeepsWaiting, NEW c \in calls, calls' = calls \ {c},
         input' = input, invoked' = invoked
  PROVE  /\ input' \in [Execs -> Inputs] /\ invoked' \in [Execs -> Nat]
         /\ calls' \subseteq Calls
         /\ CallsOK'
<1>1. \A d \in calls : d \in Calls /\ d.of \in Execs /\ d.no \in Nat
  BY DEF TypeInv, TypeOK, Calls
<1>2. \A d \in calls' : /\ d.no # 0 /\ d.no <= invoked'[d.of]
                        /\ d.at \in OpsOf(d.fn)
                        /\ Awaited(d)' => d.fn = pc'[d.of]
  BY <1>1 DEF TypeInv, CallsOK, KeepsWaiting, Awaited
<1>3. \A x \in Execs : /\ awaiting'[x] <= invoked'[x]
                       /\ awaiting'[x] # 0 => pc'[x] \in TaskStates
  BY DEF TypeInv, TypeOK, CallsOK, KeepsWaiting
<1> QED
  BY <1>1, <1>2, <1>3 DEF TypeInv, TypeOK, CallsOK

\* And when it goes on to its next store call.
LEMMA ContinueOK ==
  ASSUME TypeInv, NEW c \in calls, NEW op \in OpsOf(c.fn), Continue(c, op),
         input' = input, invoked' = invoked
  PROVE  /\ input' \in [Execs -> Inputs] /\ invoked' \in [Execs -> Nat]
         /\ ControlOK' /\ calls' \subseteq Calls
         /\ CallsOK'
<1> DEFINE d == [c EXCEPT !.at = op]
<1>1. \A b \in calls : b \in Calls /\ b.of \in Execs /\ b.no \in Nat
  BY DEF TypeInv, TypeOK, Calls
<1>2. op \in {"start", "inject", "write", "status", "reply"}
  BY <1>1 DEF OpsOf, ForwardStates, CompensationStates
<1>3. d \in Calls /\ d.of = c.of /\ d.no = c.no /\ d.fn = c.fn /\ d.at = op
  BY <1>1, <1>2 DEF Calls
<1>4. calls' = (calls \ {c}) \cup {d} /\ UNCHANGED <<pc, tries, awaiting>>
  BY DEF Continue
<1>5. ControlOK' /\ calls' \subseteq Calls
  BY <1>1, <1>3, <1>4 DEF TypeInv, TypeOK, ControlOK, States
<1>6. \A b \in calls' : /\ b.no # 0 /\ b.no <= invoked'[b.of]
                        /\ b.at \in OpsOf(b.fn)
                        /\ Awaited(b)' => b.fn = pc'[b.of]
  BY <1>3, <1>4 DEF TypeInv, CallsOK, Awaited
<1> HIDE DEF d
<1> QED
  BY <1>4, <1>5, <1>6 DEF TypeInv, TypeOK, CallsOK

\* And when it is left unawaited.
LEMMA LeaveOK ==
  ASSUME TypeInv, ControlOK', KeepsWaiting,
         UNCHANGED <<input, invoked, calls>>
  PROVE  /\ input' \in [Execs -> Inputs] /\ invoked' \in [Execs -> Nat]
         /\ calls' \subseteq Calls
         /\ CallsOK'
<1>1. \A d \in calls : d \in Calls /\ d.of \in Execs /\ d.no \in Nat
  BY DEF TypeInv, TypeOK, Calls
<1>2. \A d \in calls' : /\ d.no # 0 /\ d.no <= invoked'[d.of]
                        /\ d.at \in OpsOf(d.fn)
                        /\ Awaited(d)' => d.fn = pc'[d.of]
  BY <1>1 DEF TypeInv, CallsOK, KeepsWaiting, Awaited
<1>3. \A x \in Execs : /\ awaiting'[x] <= invoked'[x]
                       /\ awaiting'[x] # 0 => pc'[x] \in TaskStates
  BY DEF TypeInv, TypeOK, CallsOK, KeepsWaiting
<1> QED
  BY <1>1, <1>2, <1>3 DEF TypeInv, TypeOK, CallsOK

\* Unfolds and folds TypeInv by the parts the lemmas above speak of.
LEMMA TypeUnfold ==
  ASSUME TypeInv
  PROVE  /\ input \in [Execs -> Inputs] /\ invoked \in [Execs -> Nat]
         /\ ControlOK /\ calls \subseteq Calls /\ CallsOK
         /\ results \in [Execs -> [ForwardStates -> Ids]]
         /\ store \in [Orders -> Items]
         /\ history \subseteq [of : Execs, no : Nat, step : Recorders, entry : Entries]
         /\ faults \in [FaultKinds -> Nat]
BY DEF TypeInv, TypeOK, ControlOK, States

LEMMA TypeFold ==
  ASSUME input' \in [Execs -> Inputs], invoked' \in [Execs -> Nat],
         ControlOK', calls' \subseteq Calls, CallsOK',
         results' \in [Execs -> [ForwardStates -> Ids]],
         store' \in [Orders -> Items],
         history' \subseteq [of : Execs, no : Nat, step : Recorders, entry : Entries],
         faults' \in [FaultKinds -> Nat]
  PROVE  TypeInv'
BY DEF TypeInv, TypeOK, ControlOK, States

\* What an invocation whose event is accepted knows of its order.
LEMMA OrderKnown ==
  ASSUME TypeInv, NEW c \in calls, ~ Rejects(c)
  PROVE  OrderOf(c) \in Orders
BY SagaAssumption DEF TypeInv, TypeOK, OrderOf, Rejects, Calls

\* A fault is counted.
LEMMA FaultOK ==
  ASSUME faults \in [FaultKinds -> Nat], NEW k, Fault(k)
  PROVE  faults' \in [FaultKinds -> Nat]
<1>1. faults' = [faults EXCEPT ![k] = faults[k] + 1]
  BY DEF Fault
<1>2. \A l \in FaultKinds : faults'[l] \in Nat
  BY <1>1
<1> QED
  BY <1>1, <1>2

LEMMA TypeStep == TypeInv /\ [Next]_vars => TypeInv'
<1> SUFFICES ASSUME TypeInv, [Next]_vars PROVE TypeInv'
  OBVIOUS
<1>0. /\ input \in [Execs -> Inputs] /\ invoked \in [Execs -> Nat]
      /\ ControlOK /\ calls \subseteq Calls /\ CallsOK
      /\ results \in [Execs -> [ForwardStates -> Ids]]
      /\ store \in [Orders -> Items]
      /\ history \subseteq [of : Execs, no : Nat, step : Recorders, entry : Entries]
      /\ faults \in [FaultKinds -> Nat]
  BY TypeUnfold
<1>1. CASE UNCHANGED vars
  BY <1>0, <1>1 DEF vars, TypeInv, TypeOK, CallsOK, Awaited
<1>2. ASSUME NEW x \in Execs, InitializeSaga(x) PROVE TypeInv'
  <2>1. "CreateOrder" \in States
    BY DEF States, TaskStates, ForwardStates
  <2>2. ControlOK' /\ KeepsWaiting
    BY <1>0, <1>2, <2>1, EnterOK DEF InitializeSaga
  <2>3. results' \in [Execs -> [ForwardStates -> Ids]]
    BY <1>0, <1>2 DEF InitializeSaga, Ids
  <2> QED
    BY <1>0, <1>2, <2>2, <2>3, LeaveOK, TypeFold DEF InitializeSaga
<1>3. ASSUME NEW x \in Execs, Invoke(x) PROVE TypeInv'
  <2> DEFINE c == [of |-> x, no |-> invoked[x] + 1, fn |-> pc[x], at |-> FirstOp(pc[x])]
  <2>1. FirstOp(pc[x]) \in OpsOf(pc[x])
    BY <1>0, <1>3 DEF Invoke, FirstOp, OpsOf, TaskStates, ForwardStates, CompensationStates
  <2>2. FirstOp(pc[x]) \in {"start", "inject", "write", "status", "reply"}
    BY <1>0, <2>1, <1>3 DEF Invoke, OpsOf, TaskStates, ForwardStates, CompensationStates
  <2>3. c \in Calls
    BY <1>0, <1>3, <2>2 DEF Invoke, Calls
  <2>4. /\ calls' = calls \cup {c} /\ UNCHANGED <<pc, tries>>
        /\ invoked' = [invoked EXCEPT ![x] = @ + 1]
        /\ awaiting' = [awaiting EXCEPT ![x] = invoked[x] + 1]
    BY <1>0, <1>3 DEF Invoke
  <2>5. invoked' \in [Execs -> Nat] /\ calls' \subseteq Calls
    BY <1>0, <2>3, <2>4
  <2>6. ControlOK'
    BY <1>0, <2>4 DEF ControlOK
  <2>7. \A d \in calls : /\ d \in Calls /\ d.of \in Execs /\ d.no \in Nat
                         /\ d.no # 0 /\ d.no <= invoked'[d.of]
                         /\ d.at \in OpsOf(d.fn)
                         /\ Awaited(d)' => d.fn = pc'[d.of]
    BY <1>0, <2>4 DEF Calls, CallsOK, Awaited
  <2>8. /\ c.no # 0 /\ c.no <= invoked'[c.of] /\ c.at \in OpsOf(c.fn)
        /\ c.fn = pc'[c.of]
    BY <1>0, <2>1, <2>4
  <2>9. \A y \in Execs : /\ awaiting'[y] <= invoked'[y]
                         /\ awaiting'[y] # 0 => pc'[y] \in TaskStates
    BY <1>0, <1>3, <2>4 DEF CallsOK, ControlOK, Invoke
  <2>10. CallsOK'
    BY <1>0, <2>4, <2>7, <2>8, <2>9 DEF CallsOK
  <2> QED
    BY <1>0, <1>3, <2>5, <2>6, <2>10, TypeFold DEF Invoke
<1>4. ASSUME NEW c \in calls, Reject(c) PROVE TypeInv'
  BY <1>0, <1>4, RaiseOK, EndOK, TypeFold DEF Reject, Raise
<1>5. ASSUME NEW c \in calls, Start(c) PROVE TypeInv'
  <2>1. OrderOf(c) \in Orders /\ c.at = "start"
    BY <1>0, <1>5, OrderKnown DEF Start, At
  <2>2. "inject" \in OpsOf(c.fn)
    BY <1>0, <2>1 DEF CallsOK, OpsOf
  <2>3. [NoItem EXCEPT !.status = "STARTED", !.mapped = TRUE] \in Items
    BY DEF NoItem, Items, Statuses, NoEntry, Entries, Ids
  <2>4. store' \in [Orders -> Items]
    BY <1>0, <1>5, <2>1, <2>3 DEF Start
  <2> QED
    BY <1>0, <1>5, <2>2, <2>4, ContinueOK, TypeFold DEF Start
<1>6. ASSUME NEW c \in calls, Inject(c) PROVE TypeInv'
  <2> DEFINE o == OrderOf(c)
  <2>1. o \in Orders /\ c.at = "inject"
    BY <1>0, <1>6, OrderKnown DEF Inject, At
  <2>2. "write" \in OpsOf(c.fn) /\ c.fn \in ForwardStates
    BY <1>0, <2>1 DEF CallsOK, OpsOf, Calls, TaskStates
  <2>3. store' \in [Orders -> Items]
    <3>1. store[o] \in Items /\ store[o].attempts \in [ForwardStates -> Nat]
      BY <1>0, <2>1 DEF Items
    <3> DEFINE n == store[o].attempts[c.fn] + 1
    <3>2. n \in Nat /\ [store[o].attempts EXCEPT ![c.fn] = n] \in [ForwardStates -> Nat]
      BY <2>2, <3>1
    <3>3. \/ store' = store
          \/ store' = [store EXCEPT ![o].attempts[c.fn] = n]
      BY <1>6 DEF Inject
    <3> HIDE DEF n
    <3>4. CASE store' = [store EXCEPT ![o].attempts[c.fn] = n]
      <4> DEFINE item == [store[o] EXCEPT !.attempts[c.fn] = n]
      <4>1. item.attempts = [store[o].attempts EXCEPT ![c.fn] = n]
        BY <3>1 DEF Items
      <4>2. item \in Items
        BY <3>1, <3>2, <4>1 DEF Items
      <4>3. store' = [store EXCEPT ![o] = item]
        BY <3>4
      <4> HIDE DEF item
      <4> QED
        BY <1>0, <4>2, <4>3
    <3> QED
      BY <1>0, <3>3, <3>4
  <2>4. \/ \E e \in {"client", "transient", "business"} : Raise(c, e)
        \/ Continue(c, "write")
    BY <1>0, <1>6 DEF Inject
  <2>5. CASE Continue(c, "write")
    BY <1>0, <1>6, <2>2, <2>3, <2>5, ContinueOK, TypeFold DEF Inject
  <2>6. ASSUME NEW e \in {"client", "transient", "business"}, Raise(c, e) PROVE TypeInv'
    BY <1>0, <1>6, <2>3, <2>6, RaiseOK, EndOK, TypeFold DEF Inject, Raise
  <2> QED
    BY <1>0, <2>4, <2>5, <2>6
<1>7. ASSUME NEW c \in calls, Write(c) PROVE TypeInv'
  <2>1. OrderOf(c) \in Orders /\ c.at = "write" /\ ~ Rejects(c)
    BY <1>0, <1>7, OrderKnown DEF Write, At
  <2>2. "reply" \in OpsOf(c.fn) /\ c.fn \in Recorders
    BY <1>0, <2>1 DEF CallsOK, OpsOf, Calls, TaskStates, Recorders
  <2>3. EntryOf(c) \in Entries
    BY <1>0, <2>1, <2>2, EntryType
  <2>4. CASE store[OrderOf(c)].mapped
    <3>1. /\ store' = [store EXCEPT ![OrderOf(c)].steps[c.fn] = EntryOf(c)]
          /\ history' = history \cup
               {[of |-> c.of, no |-> c.no, step |-> c.fn, entry |-> EntryOf(c)]}
          /\ Continue(c, "reply")
          /\ UNCHANGED <<input, results, invoked, faults>>
      BY <1>0, <1>7, <2>4 DEF Write
    <3>2. store' \in [Orders -> Items]
      BY <1>0, <2>1, <2>2, <2>3, <3>1 DEF Items
    <3>3. history' \subseteq [of : Execs, no : Nat, step : Recorders, entry : Entries]
      BY <1>0, <2>2, <2>3, <3>1 DEF Calls
    <3> QED
      BY <1>0, <2>2, <3>1, <3>2, <3>3, ContinueOK, TypeFold
  <2>5. CASE ~ store[OrderOf(c)].mapped
    BY <1>0, <1>7, <2>5, RaiseOK, EndOK, TypeFold DEF Write, Raise
  <2> QED
    BY <1>0, <2>4, <2>5
<1>8. ASSUME NEW c \in calls, SetStatus(c) PROVE TypeInv'
  <2>1. OrderOf(c) \in Orders /\ c.at = "status"
    BY <1>0, <1>8, OrderKnown DEF SetStatus, At
  <2>2. (IF c.fn \in CompensationStates THEN "write" ELSE "reply") \in OpsOf(c.fn)
    BY <1>0, <2>1 DEF CallsOK, OpsOf, CompensationStates, ForwardStates
  <2>3. NewStatus(c.fn) \in Statuses
    BY DEF NewStatus, Statuses
  <2>4. store' \in [Orders -> Items]
    BY <1>0, <1>8, <2>1, <2>3 DEF SetStatus, Items
  <2> QED
    BY <1>0, <1>8, <2>2, <2>4, ContinueOK, TypeFold DEF SetStatus
<1>9. ASSUME NEW c \in calls, Reply(c) PROVE TypeInv'
  <2>1. OrderOf(c) \in Orders /\ c \in Calls /\ c.of \in Execs
    BY <1>0, <1>9, OrderKnown DEF Reply, At, Calls
  <2>2. NewId(c) \in Ids
    BY <1>0, <2>1 DEF NewId, Ids, Calls
  <2>3. results' \in [Execs -> [ForwardStates -> Ids]]
    BY <1>0, <1>9, <2>1, <2>2 DEF Reply
  <2>4. ControlOK' /\ KeepsWaiting
    <3>1. CASE Awaited(c)
      <4>1. pc[c.of] \in TaskStates
        BY <1>0, <2>1, <3>1 DEF CallsOK, Calls
      <4>2. NextState[pc[c.of]] \in States
        BY <1>0, <4>1 DEF NextState, States, TaskStates, Terminals, ForwardStates, CompensationStates
      <4> QED
        BY <1>0, <1>9, <2>1, <3>1, <4>2, EnterOK DEF Reply
    <3>2. CASE ~ Awaited(c)
      BY <1>0, <1>9, <3>2 DEF Reply, ControlOK, KeepsWaiting
    <3> QED
      BY <1>0, <3>1, <3>2
  <2> QED
    BY <1>0, <1>9, <2>3, <2>4, EndOK, TypeFold DEF Reply
<1>10. ASSUME NEW c \in calls, Crash(c) PROVE TypeInv'
  <2>1. Raise(c, "crash") /\ calls' = calls \ {c}
    BY <1>10 DEF Crash, Raise
  <2>2. faults' \in [FaultKinds -> Nat]
    BY <1>0, <1>10, FaultOK DEF Crash
  <2> QED
    BY <1>0, <1>10, <2>1, <2>2, RaiseOK, EndOK, TypeFold DEF Crash
<1>11. ASSUME NEW x \in Execs, NEW e, OnError(x, e), pc[x] \in TaskStates,
              UNCHANGED <<input, results, invoked, calls, store, history>>,
              NEW k, Fault(k)
       PROVE  TypeInv'
  <2>1. faults' \in [FaultKinds -> Nat]
    BY <1>0, <1>11, FaultOK
  <2> QED
    BY <1>0, <1>11, <2>1, ErrorOK, LeaveOK, TypeFold
<1>12. ASSUME NEW x \in Execs, Disturb(x) PROVE TypeInv'
  <2>1. CASE Throttle(x)
    BY <1>0, <1>11, <2>1 DEF Throttle
  <2>2. CASE Lose(x)
    BY <1>0, <1>11, <2>2 DEF Lose, CallsOK
  <2>3. CASE TaskTimeout(x)
    BY <1>0, <1>11, <2>3 DEF TaskTimeout, CallsOK
  <2>4. CASE Expire(x)
    <3>1. "ExecutionTimedOut" \in States
      BY DEF States, Terminals
    <3>2. faults' \in [FaultKinds -> Nat]
      BY <1>0, <2>4, FaultOK DEF Expire
    <3> QED
      BY <1>0, <2>4, <3>1, <3>2, EnterOK, LeaveOK, TypeFold DEF Expire
  <2> QED
    BY <1>0, <1>12, <2>1, <2>2, <2>3, <2>4 DEF Disturb
<1> QED
  BY <1>1, <1>2, <1>3, <1>4, <1>5, <1>6, <1>7, <1>8, <1>9, <1>10, <1>12
  DEF Next, Advance, Run

-----------------------------------------------------------------------------
(* The shape of a step: all that the invariants need to know of Next.      *)

\* What a step does to the state and the results of execution y.
Stays(y) == pc'[y] = pc[y] /\ results'[y] = results[y]
Begins(y) == /\ pc[y] = "InitializeSaga" /\ pc'[y] = "CreateOrder"
             /\ results'[y] = [s \in ForwardStates |-> NoId]
Caught(y) == /\ pc[y] \in TaskStates /\ pc'[y] = CatchState[pc[y]]
             /\ results'[y] = results[y]
TimesOut(y) == pc'[y] = "ExecutionTimedOut" /\ results'[y] = results[y]
Replied(y) ==
  \E c \in calls :
    /\ c.of = y /\ c.fn = pc[y] /\ At(c, "reply")
    /\ pc[y] \in TaskStates /\ pc'[y] = NextState[pc[y]]
    /\ results'[y] = IF c.fn \in ForwardStates
                       THEN [results[y] EXCEPT ![c.fn] = NewId(c)] ELSE results[y]

ExecStep == \A y \in Execs :
  Stays(y) \/ Begins(y) \/ Caught(y) \/ TimesOut(y) \/ Replied(y)

\* Where the invocations of the next state come from.
Invoked(d) == /\ d.of \in Execs /\ d.fn = pc[d.of] /\ d.fn \in TaskStates
              /\ d.at = FirstOp(d.fn)
              /\ pc'[d.of] = pc[d.of] /\ results'[d.of] = results[d.of]
Continued(d) ==
  \E c \in calls :
    /\ ~ Rejects(c) /\ d.of = c.of /\ d.no = c.no /\ d.fn = c.fn
    /\ \/ c.at = "start" /\ d.at = "inject" /\ store'[OrderOf(c)].mapped
       \/ c.at # "start" /\ d.at # "reply"
       \/ c.at # "start" /\ c.fn \notin Recorders
       \/ c.at # "start" /\ \E h \in history' :
            h.of = c.of /\ h.step = c.fn /\ h.entry = EntryOf(c)

CallStep == \A d \in calls' : d \in calls \/ Invoked(d) \/ Continued(d)

\* What may happen to the table and to the history.
DataStep ==
  /\ input' = input
  /\ \A o \in Orders : store[o].mapped => store'[o].mapped
  /\ history \subseteq history'
  /\ \A h \in history' \ history : \E c \in calls :
       /\ ~ Rejects(c) /\ c.fn \in Recorders
       /\ h.of = c.of /\ h.step = c.fn /\ h.entry = EntryOf(c)

\* The end of an invocation moves its execution on only along a Catch.
LEMMA ErrorShape ==
  ASSUME TypeInv, NEW x \in Execs, NEW e, pc[x] \in TaskStates, OnError(x, e),
         results' = results
  PROVE  ExecStep
<1>1. pc \in [Execs -> States]
  BY DEF TypeInv, TypeOK, States
<1>2. pc' = pc \/ pc' = [pc EXCEPT ![x] = CatchState[pc[x]]]
  BY DEF OnError, RetryOrCatch, Enter
<1> QED
  BY <1>1, <1>2 DEF ExecStep, Stays, Caught

LEMMA RaiseShape ==
  ASSUME TypeInv, NEW c \in calls, NEW e, Raise(c, e), results' = results
  PROVE  ExecStep /\ CallStep
<1>1. c.of \in Execs
  BY DEF TypeInv, TypeOK, Calls
<1>2. CASE Awaited(c)
  <2>1. pc[c.of] \in TaskStates
    BY <1>1, <1>2 DEF TypeInv, TypeOK, CallsOK, Calls
  <2> QED
    BY <1>1, <1>2, <2>1, ErrorShape DEF Raise, CallStep
<1>3. CASE ~ Awaited(c)
  BY <1>3 DEF Raise, ExecStep, Stays, CallStep
<1> QED
  BY <1>2, <1>3

LEMMA ContinueShape ==
  ASSUME TypeInv, NEW c \in calls, NEW op, Continue(c, op), ~ Rejects(c),
         \/ c.at = "start" /\ op = "inject" /\ store'[OrderOf(c)].mapped
         \/ c.at # "start" /\ op # "reply"
         \/ c.at # "start" /\ c.fn \notin Recorders
         \/ c.at # "start" /\ \E h \in history' :
              h.of = c.of /\ h.step = c.fn /\ h.entry = EntryOf(c)
  PROVE  CallStep
<1> DEFINE d == [c EXCEPT !.at = op]
<1>1. c \in Calls
  BY DEF TypeInv, TypeOK
<1>2. d.of = c.of /\ d.no = c.no /\ d.fn = c.fn /\ d.at = op
  BY <1>1 DEF Calls
<1>3. calls' = (calls \ {c}) \cup {d}
  BY DEF Continue
<1> HIDE DEF d
<1>4. Continued(d)
  BY <1>2 DEF Continued
<1> QED
  BY <1>3, <1>4 DEF CallStep

LEMMA StepShape == TypeInv /\ Next => ExecStep /\ CallStep /\ DataStep
<1> SUFFICES ASSUME TypeInv, Next PROVE ExecStep /\ CallStep /\ DataStep
  OBVIOUS
<1>0. /\ pc \in [Execs -> States] /\ calls \subseteq Calls /\ CallsOK
      /\ results \in [Execs -> [ForwardStates -> Ids]]
      /\ store \in [Orders -> Items]
  BY TypeUnfold DEF ControlOK
<1>1. ASSUME NEW x \in Execs, InitializeSaga(x) PROVE ExecStep /\ CallStep /\ DataStep
  BY <1>0, <1>1 DEF InitializeSaga, Enter, ExecStep, Stays, Begins, CallStep, DataStep
<1>2. ASSUME NEW x \in Execs, Invoke(x) PROVE ExecStep /\ CallStep /\ DataStep
  BY <1>0, <1>2 DEF Invoke, ExecStep, Stays, CallStep, Invoked, DataStep
<1>3. ASSUME NEW c \in calls, Reject(c) PROVE ExecStep /\ CallStep /\ DataStep
  BY <1>3, RaiseShape DEF Reject, DataStep
<1>4. ASSUME NEW c \in calls, Start(c) PROVE ExecStep /\ CallStep /\ DataStep
  <2>1. ExecStep
    BY <1>4 DEF Start, Continue, ExecStep, Stays
  <2>2. OrderOf(c) \in Orders /\ ~ Rejects(c) /\ c.at = "start"
    BY <1>4, OrderKnown DEF Start, At
  <2>3. store'[OrderOf(c)].mapped /\ \A o \in Orders : store[o].mapped => store'[o].mapped
    BY <1>0, <1>4, <2>2 DEF Start, NoItem, Items
  <2>4. CallStep
    BY <1>4, <2>2, <2>3, ContinueShape DEF Start
  <2> QED
    BY <1>4, <2>1, <2>3, <2>4 DEF Start, DataStep
<1>5. ASSUME NEW c \in calls, Inject(c) PROVE ExecStep /\ CallStep /\ DataStep
  <2>1. OrderOf(c) \in Orders /\ ~ Rejects(c) /\ c.at = "inject"
    BY <1>5, OrderKnown DEF Inject, At
  <2>2. DataStep
    <3>1. \/ store' = store
          \/ \E n : store' = [store EXCEPT ![OrderOf(c)].attempts[c.fn] = n]
      BY <1>5 DEF Inject
    <3>2. \A o \in Orders : store'[o].mapped = store[o].mapped
      BY <1>0, <2>1, <3>1 DEF Items
    <3> QED
      BY <1>5, <3>2 DEF Inject, DataStep
  <2>3. CASE Continue(c, "write")
    <3>1. ExecStep
      BY <1>5, <2>3 DEF Inject, Continue, ExecStep, Stays
    <3>2. CallStep
      BY <2>1, <2>3, ContinueShape
    <3> QED
      BY <2>2, <3>1, <3>2
  <2>4. ASSUME NEW e, Raise(c, e) PROVE ExecStep /\ CallStep
    BY <1>5, <2>4, RaiseShape DEF Inject
  <2> QED
    BY <1>5, <2>2, <2>3, <2>4 DEF Inject
<1>6. ASSUME NEW c \in calls, Write(c) PROVE ExecStep /\ CallStep /\ DataStep
  <2>1. OrderOf(c) \in Orders /\ ~ Rejects(c) /\ c.at = "write"
    BY <1>6, OrderKnown DEF Write, At
  <2>2. c.fn \in Recorders
    BY <1>0, <2>1 DEF CallsOK, OpsOf, Calls, TaskStates, Recorders
  <2>3. CASE store[OrderOf(c)].mapped
    <3> DEFINE h == [of |-> c.of, no |-> c.no, step |-> c.fn, entry |-> EntryOf(c)]
    <3>1. /\ store' = [store EXCEPT ![OrderOf(c)].steps[c.fn] = EntryOf(c)]
          /\ history' = history \cup {h}
          /\ Continue(c, "reply")
          /\ UNCHANGED <<input, results>>
      BY <1>6, <2>3 DEF Write
    <3>2. \A o \in Orders : store'[o].mapped = store[o].mapped
      BY <1>0, <2>1, <3>1 DEF Items
    <3>3. h.of = c.of /\ h.step = c.fn /\ h.entry = EntryOf(c)
      OBVIOUS
    <3> HIDE DEF h
    <3>4. DataStep
      BY <2>1, <2>2, <3>1, <3>2, <3>3 DEF DataStep
    <3>5. ExecStep
      BY <3>1 DEF Continue, ExecStep, Stays
    <3>6. CallStep
      BY <2>1, <3>1, <3>3, ContinueShape
    <3> QED
      BY <3>4, <3>5, <3>6
  <2>4. CASE ~ store[OrderOf(c)].mapped
    BY <1>6, <2>4, RaiseShape DEF Write, DataStep
  <2> QED
    BY <2>3, <2>4
<1>7. ASSUME NEW c \in calls, SetStatus(c) PROVE ExecStep /\ CallStep /\ DataStep
  <2>1. OrderOf(c) \in Orders /\ ~ Rejects(c) /\ c.at = "status"
    BY <1>7, OrderKnown DEF SetStatus, At
  <2>2. \/ c.fn \notin Recorders
        \/ c.fn \in CompensationStates
    BY <1>0, <2>1 DEF CallsOK, OpsOf, Recorders
  <2>3. \A o \in Orders : store'[o].mapped = store[o].mapped
    BY <1>0, <1>7, <2>1 DEF SetStatus, Items
  <2>4. DataStep
    BY <1>7, <2>3 DEF SetStatus, DataStep
  <2>5. ExecStep
    BY <1>7 DEF SetStatus, Continue, ExecStep, Stays
  <2>6. CallStep
    BY <1>7, <2>1, <2>2, ContinueShape DEF SetStatus
  <2> QED
    BY <2>4, <2>5, <2>6
<1>8. ASSUME NEW c \in calls, Reply(c) PROVE ExecStep /\ CallStep /\ DataStep
  <2>1. CallStep /\ DataStep
    BY <1>8 DEF Reply, CallStep, DataStep
  <2>2. CASE Awaited(c)
    <3>1. c.of \in Execs /\ c.fn = pc[c.of] /\ pc[c.of] \in TaskStates
      BY <1>0, <2>2 DEF CallsOK, Calls
    <3>2. pc' = [pc EXCEPT ![c.of] = NextState[pc[c.of]]]
      BY <1>8, <2>2 DEF Reply, Enter
    <3>3. \A y \in Execs : y # c.of => Stays(y)
      BY <1>0, <1>8, <2>2, <3>1, <3>2 DEF Reply, Stays
    <3>4. Replied(c.of)
      BY <1>0, <1>8, <2>2, <3>1, <3>2 DEF Reply, Replied
    <3> QED
      BY <2>1, <3>3, <3>4 DEF ExecStep
  <2>3. CASE ~ Awaited(c)
    BY <1>8, <2>1, <2>3 DEF Reply, ExecStep, Stays
  <2> QED
    BY <2>2, <2>3
<1>9. ASSUME NEW c \in calls, Crash(c) PROVE ExecStep /\ CallStep /\ DataStep
  BY <1>9, RaiseShape DEF Crash, DataStep
<1>10. ASSUME NEW x \in Execs, Disturb(x) PROVE ExecStep /\ CallStep /\ DataStep
  <2>1. UNCHANGED <<input, results, calls, store, history>>
    BY <1>10 DEF Disturb, Throttle, Lose, TaskTimeout, Expire
  <2>2. CallStep /\ DataStep
    BY <2>1 DEF CallStep, DataStep
  <2>3. CASE Throttle(x)
    BY <2>1, <2>2, <2>3, ErrorShape DEF Throttle
  <2>4. CASE Lose(x) \/ TaskTimeout(x)
    BY <1>0, <2>1, <2>2, <2>4, ErrorShape DEF Lose, TaskTimeout, CallsOK
  <2>5. CASE Expire(x)
    BY <1>0, <2>1, <2>2, <2>5 DEF Expire, Enter, ExecStep, Stays, TimesOut
  <2> QED
    BY <1>10, <2>3, <2>4, <2>5 DEF Disturb
<1> QED
  BY <1>1, <1>2, <1>3, <1>4, <1>5, <1>6, <1>7, <1>8, <1>9, <1>10
  DEF Next, Advance, Run

-----------------------------------------------------------------------------
(* One lemma per part of the invariant.                                    *)

LEMMA MapsStep ==
  ASSUME TypeInv, TypeInv', MapsExist, ExecStep, CallStep, DataStep
  PROVE  MapsExist'
<1>1. \A x \in Execs : Mapped(x) => Mapped(x)'
  BY DEF DataStep, Mapped
<1>2. ASSUME NEW x \in Execs, pc'[x] \in TaskStates \ {"CreateOrder", "MarkFailed"}
      PROVE  Mapped(x)'
  <2>1. CASE Stays(x)
    BY <1>1, <1>2, <2>1 DEF Stays, MapsExist
  <2>2. CASE Caught(x)
    BY <1>1, <1>2, <2>2 DEF Caught, MapsExist, CatchState, TaskStates, ForwardStates,
       CompensationStates
  <2>3. CASE Replied(x)
    <3>1. PICK c \in calls : c.of = x /\ c.fn = pc[x] /\ At(c, "reply")
                             /\ pc[x] \in TaskStates /\ pc'[x] = NextState[pc[x]]
      BY <2>3 DEF Replied
    <3>2. pc[x] # "MarkFailed"
      BY <1>2, <3>1 DEF NextState, TaskStates, ForwardStates, CompensationStates
    <3>3. Mapped(x)
      BY <3>1, <3>2 DEF MapsExist, At
    <3> QED
      BY <1>1, <3>3
  <2> QED
    BY <1>2, <2>1, <2>2, <2>3
    DEF ExecStep, Begins, TimesOut, TaskStates, ForwardStates, CompensationStates
<1>3. ASSUME NEW d \in calls'
      PROVE  d.fn = "MarkFailed" \/ (d.fn = "CreateOrder" /\ d.at = "start") \/ Mapped(d.of)'
  <2>1. d.of \in Execs
    BY DEF TypeInv, TypeOK, Calls
  <2>2. CASE d \in calls
    BY <1>1, <2>1, <2>2 DEF MapsExist
  <2>3. CASE Invoked(d)
    BY <1>2, <2>3 DEF Invoked, FirstOp
  <2>4. ASSUME NEW c \in calls, ~ Rejects(c), d.of = c.of, d.fn = c.fn,
               c.at = "start" => store'[OrderOf(c)].mapped
        PROVE  d.fn = "MarkFailed" \/ Mapped(d.of)'
    <3>1. OrderOf(c) \in Orders /\ input' = input
      BY <2>4, OrderKnown DEF DataStep
    <3> QED
      BY <1>1, <2>1, <2>4, <3>1 DEF MapsExist, Mapped, OrderOf
  <2>5. CASE Continued(d)
    BY <2>4, <2>5 DEF Continued
  <2> QED
    BY <2>2, <2>3, <2>5 DEF CallStep
<1> QED
  BY <1>2, <1>3 DEF MapsExist

LEMMA NewIdKnown ==
  ASSUME TypeInv, NEW c \in calls, ~ Rejects(c)
  PROVE  NewId(c) # NoId
BY OrderKnown, SagaAssumption DEF TypeInv, TypeOK, Calls, NewId

LEMMA ProgressStep ==
  ASSUME TypeInv, TypeInv', Progress, ExecStep
  PROVE  Progress'
<1> SUFFICES ASSUME NEW x \in Execs
    PROVE /\ pc'[x] = "InitializeSaga" =>
               \A s \in ForwardStates : ~ Received(x, s)'
          /\ pc'[x] \in ForwardStates =>
               \A s \in ForwardStates : Received(x, s)' <=> s \in PrecedingSteps[pc'[x]]
          /\ pc'[x] = "ReleaseInventory" => Received(x, "ReserveInventory")'
          /\ pc'[x] \in {"ReleaseInventory", "RefundPayment"} =>
               Received(x, "ChargePayment")'
          /\ pc'[x] \in CompensationStates \cup {"MarkFailed", "SagaFailed"} =>
               ~ Received(x, "ScheduleShipment")'
  BY DEF Progress
<1> USE DEF Received
<1>1. CASE Stays(x)
  BY <1>1 DEF Progress, Stays
<1>2. CASE Begins(x)
  BY <1>2 DEF Begins, PrecedingSteps, ForwardStates, CompensationStates
<1>3. CASE Caught(x)
  BY <1>3 DEF Progress, Caught, CatchState, PrecedingSteps, TaskStates, ForwardStates,
     CompensationStates
<1>4. CASE TimesOut(x)
  BY <1>4 DEF TimesOut, ForwardStates, CompensationStates
<1>5. CASE Replied(x)
  <2>1. PICK c \in calls :
          /\ c.of = x /\ c.fn = pc[x] /\ ~ Rejects(c) /\ pc[x] \in TaskStates
          /\ pc'[x] = NextState[pc[x]]
          /\ results'[x] = IF c.fn \in ForwardStates
                             THEN [results[x] EXCEPT ![c.fn] = NewId(c)] ELSE results[x]
    BY <1>5 DEF Replied, At
  <2>2. NewId(c) # NoId /\ results[x] \in [ForwardStates -> Ids]
    BY <2>1, NewIdKnown DEF TypeInv, TypeOK
  <2>3. CASE pc[x] \in ForwardStates
    <3>1. \A s \in ForwardStates :
            Received(x, s)' <=> s \in PrecedingSteps[pc[x]] \cup {pc[x]}
      BY <2>1, <2>2, <2>3 DEF Progress
    <3> QED
      BY <2>1, <2>3, <3>1 DEF NextState, PrecedingSteps, ForwardStates, CompensationStates
  <2>4. CASE pc[x] \in TaskStates \ ForwardStates
    BY <2>1, <2>4 DEF Progress, NextState, TaskStates, ForwardStates, CompensationStates
  <2> QED
    BY <2>1, <2>3, <2>4
<1> QED
  BY <1>1, <1>2, <1>3, <1>4, <1>5 DEF ExecStep

\* A result once received is never replaced, not even by a late invocation.
LEMMA ResultsStay ==
  ASSUME TypeInv, Progress, ExecStep, NEW x \in Execs, NEW s \in ForwardStates,
         Received(x, s)
  PROVE  results'[x][s] = results[x][s]
<1> USE DEF Received
<1>1. CASE Begins(x)
  BY <1>1 DEF Begins, Progress
<1>2. CASE Replied(x)
  BY <1>2 DEF Replied, Progress, PrecedingSteps, TypeInv, TypeOK, ForwardStates
<1>3. CASE Stays(x) \/ Caught(x) \/ TimesOut(x)
  BY <1>3 DEF Stays, Caught, TimesOut
<1> QED
  BY <1>1, <1>2, <1>3 DEF ExecStep

\* So what it would record does not change while an invocation runs.
LEMMA EntryStays ==
  ASSUME TypeInv, Progress, RecordsExist, ExecStep, DataStep,
         NEW c \in calls, c.fn \in Recorders
  PROVE  EntryOf(c)' = EntryOf(c)
<1>1. NewId(c)' = NewId(c)
  BY DEF NewId, OrderOf, DataStep
<1>2. CASE c.fn \in ForwardStates \cup {"CancelOrder"}
  BY <1>1, <1>2 DEF EntryOf
<1>3. CASE c.fn \in {"ReleaseInventory", "RefundPayment"}
  <2>1. Compensates[c.fn] \in ForwardStates /\ c.of \in Execs
    BY <1>3 DEF Compensates, ForwardStates, TypeInv, TypeOK, Calls
  <2>2. DetailOf(c)' = DetailOf(c)
    BY <1>3, <2>1, ResultsStay DEF DetailOf, RecordsExist
  <2> QED
    BY <1>1, <2>2 DEF EntryOf
<1> QED
  BY <1>2, <1>3 DEF Recorders, CompensationStates

\* What a compensation that is running would record.
LEMMA CompensationEntry ==
  ASSUME RecordsExist, NEW c \in calls
  PROVE  /\ c.fn \in {"ReleaseInventory", "RefundPayment"} =>
              /\ Received(c.of, Compensates[c.fn])
              /\ EntryOf(c) = Done(results[c.of][Compensates[c.fn]])
         /\ c.fn = "CancelOrder" => EntryOf(c) = Done(NoId)
         /\ c.fn \in ForwardStates => EntryOf(c) = Done(NewId(c))
BY DEF RecordsExist, Received, EntryOf, DetailOf, ForwardStates

LEMMA RecordsStep ==
  ASSUME TypeInv, TypeInv', Progress, RecordsExist, ExecStep, CallStep, DataStep
  PROVE  RecordsExist'
<1>1. \A x \in Execs : \A s, e : Recorded(x, s, e) =>
        \E h \in history' : h.of = x /\ h.step = s /\ h.entry = e
  BY DEF Recorded, DataStep
<1>2. ASSUME NEW x \in Execs, NEW s \in ForwardStates, Received(x, s)'
      PROVE  \E h \in history' : h.of = x /\ h.step = s /\ h.entry = Done(results'[x][s])
  <2>1. CASE Received(x, s)
    BY <1>1, <2>1, ResultsStay DEF RecordsExist
  <2>2. CASE ~ Received(x, s)
    <3>1. Replied(x)
      BY <1>2, <2>2 DEF ExecStep, Stays, Begins, Caught, TimesOut, Received
    <3>2. PICK c \in calls :
            /\ c.of = x /\ c.fn = pc[x] /\ At(c, "reply")
            /\ results'[x] = IF c.fn \in ForwardStates
                               THEN [results[x] EXCEPT ![c.fn] = NewId(c)] ELSE results[x]
      BY <3>1 DEF Replied
    <3>3. results[x] \in [ForwardStates -> Ids]
      BY DEF TypeInv, TypeOK
    <3>4. c.fn = s /\ results'[x][s] = NewId(c)
      BY <1>2, <2>2, <3>2, <3>3 DEF Received
    <3>5. Recorded(x, s, Done(NewId(c)))
      BY <3>2, <3>4, CompensationEntry DEF RecordsExist, At, Recorders
    <3> QED
      BY <1>1, <3>4, <3>5
  <2> QED
    BY <2>1, <2>2
<1>3. ASSUME NEW d \in calls'
      PROVE  /\ d.fn \in Recorders /\ d.at = "reply" =>
                  \E h \in history' : h.of = d.of /\ h.step = d.fn /\ h.entry = EntryOf(d)'
             /\ d.fn \in {"ReleaseInventory", "RefundPayment"} =>
                  Received(d.of, Compensates[d.fn])'
  <2>1. ASSUME NEW c \in calls, d.of = c.of, d.no = c.no, d.fn = c.fn
        PROVE  /\ EntryOf(d)' = EntryOf(c)'
               /\ d.fn \in Recorders => EntryOf(c)' = EntryOf(c)
               /\ d.fn \in {"ReleaseInventory", "RefundPayment"} =>
                    Received(d.of, Compensates[d.fn])'
    <3>1. EntryOf(d)' = EntryOf(c)'
      BY <2>1 DEF EntryOf, NewId, DetailOf, OrderOf
    <3>2. d.fn \in Recorders => EntryOf(c)' = EntryOf(c)
      BY <2>1, EntryStays
    <3>3. ASSUME d.fn \in {"ReleaseInventory", "RefundPayment"}
          PROVE  Received(d.of, Compensates[d.fn])'
      <4>1. Compensates[d.fn] \in ForwardStates /\ d.of \in Execs
        BY <3>3 DEF Compensates, ForwardStates, TypeInv, TypeOK, Calls
      <4> QED
        BY <2>1, <3>3, <4>1, ResultsStay DEF RecordsExist, Received
    <3> QED
      BY <3>1, <3>2, <3>3
  <2>2. CASE d \in calls
    <3>1. d.of \in Execs
      BY DEF TypeInv, TypeOK, Calls
    <3> QED
      BY <1>1, <2>1, <2>2, <3>1 DEF RecordsExist
  <2>3. CASE Invoked(d)
    <3>1. d.at # "reply"
      BY <2>3 DEF Invoked, FirstOp
    <3>2. d.fn \in {"ReleaseInventory", "RefundPayment"} =>
            Received(d.of, Compensates[d.fn])'
      BY <2>3 DEF Invoked, Progress, Received, Compensates
    <3> QED
      BY <3>1, <3>2
  <2>4. CASE Continued(d)
    <3>1. PICK c \in calls :
            /\ d.of = c.of /\ d.no = c.no /\ d.fn = c.fn
            /\ \/ d.at # "reply"
               \/ c.fn \notin Recorders
               \/ \E h \in history' :
                     h.of = c.of /\ h.step = c.fn /\ h.entry = EntryOf(c)
      BY <2>4 DEF Continued
    <3> QED
      BY <2>1, <3>1
  <2> QED
    BY <2>2, <2>3, <2>4 DEF CallStep
<1> QED
  BY <1>2, <1>3 DEF RecordsExist, Recorded

\* The compensations already made stay made.
LEMMA CompensatedStays ==
  ASSUME TypeInv, Progress, ExecStep, DataStep,
         NEW x \in Execs, NEW s \in ForwardStates, Received(x, s), Compensated(x, s)
  PROVE  Compensated(x, s)'
BY ResultsStay DEF Compensated, Recorded, DataStep

LEMMA UnwoundStep ==
  ASSUME TypeInv, TypeInv', Progress, Progress', RecordsExist, Unwound,
         ExecStep, CallStep, DataStep
  PROVE  Unwound'
<1> SUFFICES ASSUME NEW x \in Execs
    PROVE /\ pc'[x] \in {"RefundPayment", "CancelOrder", "MarkFailed", "SagaFailed"}
               /\ Received(x, "ReserveInventory")' => Compensated(x, "ReserveInventory")'
          /\ pc'[x] \in {"CancelOrder", "MarkFailed", "SagaFailed"}
               /\ Received(x, "ChargePayment")' => Compensated(x, "ChargePayment")'
          /\ pc'[x] \in {"MarkFailed", "SagaFailed"}
               /\ Received(x, "CreateOrder")' => Compensated(x, "CreateOrder")'
  BY DEF Unwound
<1>1. {"CreateOrder", "ChargePayment", "ReserveInventory"} \subseteq ForwardStates
  BY DEF ForwardStates
<1>2. ASSUME results'[x] = results[x], NEW s \in ForwardStates, Received(x, s)',
             Compensated(x, s)
      PROVE  Compensated(x, s)'
  BY <1>2, CompensatedStays DEF Received
<1>3. CASE Stays(x)
  BY <1>1, <1>2, <1>3 DEF Stays, Unwound, Received
<1>4. CASE Begins(x)
  BY <1>4 DEF Begins
<1>5. CASE Caught(x)
  BY <1>1, <1>2, <1>5 DEF Caught, Unwound, Progress, PrecedingSteps, Received, CatchState,
     TaskStates, ForwardStates, CompensationStates
<1>6. CASE TimesOut(x)
  BY <1>6 DEF TimesOut
<1>7. CASE Replied(x)
  <2>1. PICK c \in calls :
          /\ c.of = x /\ c.fn = pc[x] /\ At(c, "reply") /\ pc[x] \in TaskStates
          /\ pc'[x] = NextState[pc[x]]
          /\ c.fn \notin ForwardStates => results'[x] = results[x]
    BY <1>7 DEF Replied
  <2>2. CASE pc[x] \in CompensationStates
    <3>1. results'[x] = results[x] /\ c.fn \in Recorders
      BY <2>1, <2>2 DEF ForwardStates, CompensationStates, Recorders
    <3>2. Compensates[c.fn] \in ForwardStates
      BY <2>1, <2>2 DEF Compensates, CompensationStates, ForwardStates
    <3>3. EntryOf(c) = Done(IF c.fn = "CancelOrder" THEN NoId
                             ELSE results[x][Compensates[c.fn]])
      BY <2>1, <2>2, CompensationEntry DEF CompensationStates
    <3>4. Recorded(x, c.fn, EntryOf(c))
      BY <2>1, <3>1 DEF RecordsExist, At
    <3>5. Compensated(x, Compensates[c.fn])
      BY <2>1, <2>2, <3>3, <3>4 DEF Compensated
    <3>6. Received(x, Compensates[c.fn])' => Compensated(x, Compensates[c.fn])'
      BY <1>2, <3>1, <3>2, <3>5
    <3>7. Received(x, "ReserveInventory")' => Received(x, "ReserveInventory")
      BY <3>1 DEF Received
    <3>8. Received(x, "ChargePayment")' => Received(x, "ChargePayment")
      BY <3>1 DEF Received
    <3> QED
      BY <1>1, <1>2, <2>1, <2>2, <3>1, <3>6, <3>7, <3>8
      DEF NextState, Compensates, CompensationStates, Unwound
  <2>3. CASE pc[x] = "MarkFailed"
    <3>1. results'[x] = results[x] /\ pc'[x] = "SagaFailed"
      BY <2>1, <2>3 DEF ForwardStates, NextState
    <3> QED
      BY <1>1, <1>2, <2>3, <3>1 DEF Unwound, Received
  <2>4. CASE pc[x] \in ForwardStates \cup {"CompleteSaga"}
    BY <2>1, <2>4 DEF NextState, ForwardStates
  <2> QED
    BY <2>1, <2>2, <2>3, <2>4 DEF TaskStates
<1> QED
  BY <1>3, <1>4, <1>5, <1>6, <1>7 DEF ExecStep

LEMMA TargetStep ==
  ASSUME TypeInv, RecordsExist, CompensationHasItsTarget, DataStep
  PROVE  CompensationHasItsTarget'
<1> SUFFICES ASSUME NEW h \in history', h.step \in {"RefundPayment", "ReleaseInventory"}
    PROVE  /\ h.entry.status = "DONE"
           /\ \E g \in history' : /\ g.of = h.of /\ g.step = Compensates[h.step]
                                  /\ g.entry = h.entry
  BY DEF CompensationHasItsTarget, Recorded
<1>1. CASE h \in history
  BY <1>1 DEF CompensationHasItsTarget, Recorded, DataStep
<1>2. CASE h \notin history
  <2>1. PICK c \in calls : /\ c.fn \in Recorders
                           /\ h.of = c.of /\ h.step = c.fn /\ h.entry = EntryOf(c)
    BY <1>2 DEF DataStep
  <2>2. c.of \in Execs
    BY DEF TypeInv, TypeOK, Calls
  <2>3. Compensates[c.fn] \in ForwardStates
    BY <2>1 DEF Compensates, ForwardStates
  <2>4. /\ Received(c.of, Compensates[c.fn])
        /\ EntryOf(c) = Done(results[c.of][Compensates[c.fn]])
    BY <2>1, CompensationEntry
  <2>5. Recorded(c.of, Compensates[c.fn], EntryOf(c))
    BY <2>2, <2>3, <2>4 DEF RecordsExist
  <2> QED
    BY <2>1, <2>4, <2>5 DEF Recorded, DataStep, Done
<1> QED
  BY <1>1, <1>2

-----------------------------------------------------------------------------
(* The theorems.                                                           *)

LEMMA InitHolds == Init => TypeInv /\ IInv
<1> SUFFICES ASSUME Init PROVE TypeInv /\ IInv
  OBVIOUS
<1>1. TypeInv
  <2>1. NoItem \in Items
    BY DEF NoItem, Items, Statuses, NoEntry, Entries, Ids
  <2>2. TypeOK
    BY <2>1, SagaAssumption DEF Init, TypeOK, Ids
  <2>3. CallsOK
    BY DEF Init, CallsOK
  <2> QED
    BY <2>2, <2>3 DEF TypeInv
<1>2. MapsExist /\ Progress
  BY DEF Init, MapsExist, Progress, Received, TaskStates, ForwardStates, CompensationStates
<1>3. RecordsExist /\ Unwound
  BY DEF Init, RecordsExist, Unwound, Received
<1>4. CompensationHasItsTarget
  BY DEF Init, CompensationHasItsTarget
<1> QED
  BY <1>1, <1>2, <1>3, <1>4 DEF IInv

LEMMA InvStep == TypeInv /\ IInv /\ [Next]_vars => TypeInv' /\ IInv'
<1> SUFFICES ASSUME TypeInv, IInv, [Next]_vars PROVE TypeInv' /\ IInv'
  OBVIOUS
<1>1. TypeInv'
  BY TypeStep
<1>2. CASE Next
  <2>1. ExecStep /\ CallStep /\ DataStep
    BY <1>2, StepShape
  <2>2. MapsExist' /\ Progress' /\ RecordsExist'
    BY <1>1, <2>1, MapsStep, ProgressStep, RecordsStep DEF IInv
  <2>3. Unwound'
    BY <1>1, <2>1, <2>2, UnwoundStep DEF IInv
  <2>4. CompensationHasItsTarget'
    BY <2>1, TargetStep DEF IInv
  <2> QED
    BY <1>1, <2>2, <2>3, <2>4 DEF IInv
<1>3. CASE UNCHANGED vars
  BY <1>1, <1>3
  DEF vars, IInv, MapsExist, Mapped, Progress, Received, RecordsExist, Recorded, EntryOf,
      NewId, OrderOf, DetailOf, Unwound, Compensated, CompensationHasItsTarget
<1> QED
  BY <1>2, <1>3

THEOREM Invariance == Spec => [](TypeInv /\ IInv)
<1>1. Init => TypeInv /\ IInv
  BY InitHolds
<1>2. TypeInv /\ IInv /\ [Next]_vars => TypeInv' /\ IInv'
  BY InvStep
<1> QED
  BY <1>1, <1>2, PTL DEF Spec

\* Every variable keeps its type, and no Retry entry exceeds its MaxAttempts.
THEOREM TypeCorrect == Spec => []TypeOK
<1>1. TypeInv => TypeOK
  BY DEF TypeInv
<1> QED
  BY <1>1, Invariance, PTL

\* Every nested update of record_step and increment_attempt finds the maps.
THEOREM PathsResolve == Spec => []PathResolves
<1>1. TypeInv /\ IInv => PathResolves
  <2> SUFFICES ASSUME TypeInv, IInv, NEW c \in calls, c.at \in {"inject", "write"}
               PROVE  store[OrderOf(c)].mapped
    BY DEF PathResolves
  <2>1. c.fn # "MarkFailed" /\ ~ (c.fn = "CreateOrder" /\ c.at = "start")
    BY DEF TypeInv, CallsOK, OpsOf, ForwardStates, CompensationStates
  <2> QED
    BY <2>1 DEF IInv, MapsExist, Mapped, OrderOf
<1> QED
  BY <1>1, Invariance, PTL

\* Refunds and releases name payments and reservations of their own execution,
\* and none of them is skipped.
THEOREM TargetsExist == Spec => []CompensationHasItsTarget
<1>1. IInv => CompensationHasItsTarget
  BY DEF IInv
<1> QED
  BY <1>1, Invariance, PTL

\* SagaFailed means that all the work whose results were received is undone.
THEOREM RollbackComplete == Spec => []ReceivedWorkIsCompensated
<1>1. IInv => ReceivedWorkIsCompensated
  BY DEF IInv, Progress, Unwound, Received, ReceivedWorkIsCompensated, ForwardStates
<1> QED
  BY <1>1, Invariance, PTL

-----------------------------------------------------------------------------
(* The saga implements its contract: for every set of executions that      *)
(* share orders or not, every budget and every mix of faults, each step of *)
(* Saga is a step of SagaContract or none.                                 *)


\* The states before an execution starts unwinding, and the one it may end in
\* without.
GoingForward == ForwardStates \cup {"InitializeSaga", "CompleteSaga", "SagaSucceeded"}

-----------------------------------------------------------------------------
(* What the contract needs beyond the invariant of SagaProofs.             *)

\* Nothing is compensated, or about to be, while the execution goes forward.
NoEarlyUndo ==
  /\ \A c \in calls : c.fn \in CompensationStates => pc[c.of] \notin GoingForward
  /\ \A h \in history : h.step \in CompensationStates => pc[h.of] \notin GoingForward

\* An invocation of a compensation finds the later steps compensated, also when
\* its execution waits for it no longer.
UndoneBefore(x, fn) ==
  /\ ~ Received(x, "ScheduleShipment")
  /\ fn \in {"RefundPayment", "CancelOrder"} /\ Received(x, "ReserveInventory") =>
       Compensated(x, "ReserveInventory")
  /\ fn = "CancelOrder" /\ Received(x, "ChargePayment") =>
       Compensated(x, "ChargePayment")
LatestFirst ==
  \A c \in calls : c.fn \in CompensationStates => UndoneBefore(c.of, c.fn)

AllReceived ==
  \A x \in Execs : pc[x] = "CompleteSaga" => \A s \in ForwardStates : Received(x, s)

ContractInv == NoEarlyUndo /\ LatestFirst /\ AllReceived

-----------------------------------------------------------------------------
(* It is inductive.                                                        *)

\* No execution goes forward again.
LEMMA ForwardBefore ==
  ASSUME ExecStep, NEW x \in Execs, pc'[x] \in GoingForward
  PROVE  pc[x] \in GoingForward
<1> USE DEF GoingForward, ForwardStates
<1>1. CASE Stays(x)
  BY <1>1 DEF Stays
<1>2. CASE Begins(x)
  BY <1>2 DEF Begins
<1>3. CASE Caught(x)
  BY <1>3 DEF Caught, CatchState, TaskStates, CompensationStates
<1>4. CASE TimesOut(x)
  BY <1>4 DEF TimesOut
<1>5. CASE Replied(x)
  BY <1>5 DEF Replied, NextState, TaskStates, CompensationStates
<1> QED
  BY <1>1, <1>2, <1>3, <1>4, <1>5 DEF ExecStep

\* And once it does not, its results are what they are.
LEMMA ResultsFrozen ==
  ASSUME ExecStep, NEW x \in Execs, pc[x] \notin GoingForward
  PROVE  results'[x] = results[x]
BY DEF ExecStep, Stays, Begins, Caught, TimesOut, Replied, GoingForward

LEMMA NoEarlyUndoStep ==
  ASSUME TypeInv, TypeInv', NoEarlyUndo, ExecStep, CallStep, DataStep
  PROVE  NoEarlyUndo'
<1>1. ASSUME NEW d \in calls', d.fn \in CompensationStates
      PROVE  pc'[d.of] \notin GoingForward
  <2>1. d.of \in Execs
    BY DEF TypeInv, TypeOK, Calls
  <2>2. CASE Invoked(d)
    BY <1>1, <2>2 DEF Invoked, GoingForward, ForwardStates, CompensationStates
  <2>3. ASSUME NEW c \in calls, d.of = c.of, d.fn = c.fn
        PROVE  pc'[d.of] \notin GoingForward
    BY <1>1, <2>1, <2>3, ForwardBefore DEF NoEarlyUndo
  <2> QED
    BY <2>2, <2>3 DEF CallStep, Continued
<1>2. ASSUME NEW h \in history', h.step \in CompensationStates
      PROVE  pc'[h.of] \notin GoingForward
  <2>1. h.of \in Execs
    BY DEF TypeInv, TypeOK
  <2>2. pc[h.of] \notin GoingForward
    BY <1>2 DEF NoEarlyUndo, DataStep
  <2> QED
    BY <2>1, <2>2, ForwardBefore
<1> QED
  BY <1>1, <1>2 DEF NoEarlyUndo

LEMMA LatestFirstStep ==
  ASSUME TypeInv, TypeInv', Progress, Progress', Unwound', NoEarlyUndo, LatestFirst,
         ExecStep, CallStep, DataStep
  PROVE  LatestFirst'
<1> SUFFICES ASSUME NEW d \in calls', d.fn \in CompensationStates
             PROVE  UndoneBefore(d.of, d.fn)'
  BY DEF LatestFirst
<1>1. d.of \in Execs
  BY DEF TypeInv, TypeOK, Calls
<1>2. CASE Invoked(d)
  BY <1>1, <1>2 DEF Invoked, Progress, Unwound, UndoneBefore
<1>3. ASSUME NEW c \in calls, d.of = c.of, d.fn = c.fn
      PROVE  UndoneBefore(d.of, d.fn)'
  <2>1. UndoneBefore(d.of, d.fn) /\ results'[d.of] = results[d.of]
    BY <1>1, <1>3, ResultsFrozen DEF LatestFirst, NoEarlyUndo
  <2>2. \A s \in {"ReserveInventory", "ChargePayment"} :
          Received(d.of, s) /\ Compensated(d.of, s) => Compensated(d.of, s)'
    BY <1>1, CompensatedStays DEF ForwardStates
  <2> QED
    BY <2>1, <2>2 DEF UndoneBefore, Received
<1> QED
  BY <1>2, <1>3 DEF CallStep, Continued

LEMMA AllReceivedStep ==
  ASSUME TypeInv, Progress, AllReceived, ExecStep
  PROVE  AllReceived'
<1> SUFFICES ASSUME NEW x \in Execs, pc'[x] = "CompleteSaga", NEW s \in ForwardStates
             PROVE  Received(x, s)'
  BY DEF AllReceived
<1>1. CASE Stays(x)
  BY <1>1 DEF Stays, AllReceived, Received
<1>2. CASE Replied(x)
  <2>1. PICK c \in calls :
          /\ c.fn = pc[x] /\ ~ Rejects(c) /\ pc[x] \in TaskStates
          /\ pc'[x] = NextState[pc[x]]
          /\ results'[x] = IF c.fn \in ForwardStates
                             THEN [results[x] EXCEPT ![c.fn] = NewId(c)] ELSE results[x]
    BY <1>2 DEF Replied, At
  <2>2. pc[x] = "ScheduleShipment"
    BY <2>1 DEF NextState, TaskStates, ForwardStates, CompensationStates
  <2>3. NewId(c) # NoId /\ results[x] \in [ForwardStates -> Ids]
    BY <2>1, NewIdKnown DEF TypeInv, TypeOK
  <2>4. s # "ScheduleShipment" => Received(x, s)
    BY <2>2 DEF Progress, PrecedingSteps, ForwardStates
  <2> QED
    BY <2>1, <2>2, <2>3, <2>4 DEF Received, ForwardStates
<1> QED
  BY <1>1, <1>2 DEF ExecStep, Begins, Caught, CatchState, TimesOut, TaskStates,
     ForwardStates, CompensationStates

-----------------------------------------------------------------------------
(* A step moves one execution, or adds one record to the history.          *)

Moves(x) ==
  /\ history' = history
  /\ \A y \in Execs \ {x} : Stays(y)
  /\ \/ Stays(x) \/ Begins(x) \/ Caught(x) \/ Replied(x)
     \/ TimesOut(x) /\ pc[x] \notin Terminals

Records(c) ==
  /\ \A y \in Execs : Stays(y)
  /\ ~ Rejects(c) /\ c.fn \in Recorders
  /\ history' = history \cup
       {[of |-> c.of, no |-> c.no, step |-> c.fn, entry |-> EntryOf(c)]}

LEMMA ErrorMoves ==
  ASSUME TypeInv, NEW x \in Execs, NEW e, pc[x] \in TaskStates, OnError(x, e),
         results' = results, history' = history
  PROVE  Moves(x)
<1>1. pc \in [Execs -> States]
  BY DEF TypeInv, TypeOK, States
<1>2. pc' = pc \/ pc' = [pc EXCEPT ![x] = CatchState[pc[x]]]
  BY DEF OnError, RetryOrCatch, Enter
<1> QED
  BY <1>1, <1>2 DEF Moves, Stays, Caught

LEMMA RaiseMoves ==
  ASSUME TypeInv, NEW c \in calls, NEW e, Raise(c, e), results' = results,
         history' = history
  PROVE  Moves(c.of)
<1>1. c.of \in Execs
  BY DEF TypeInv, TypeOK, Calls
<1>2. CASE Awaited(c)
  <2>1. pc[c.of] \in TaskStates
    BY <1>1, <1>2 DEF TypeInv, TypeOK, CallsOK, Calls
  <2> QED
    BY <1>1, <1>2, <2>1, ErrorMoves DEF Raise
<1>3. CASE ~ Awaited(c)
  BY <1>3 DEF Raise, Moves, Stays
<1> QED
  BY <1>2, <1>3

LEMMA OneAtATime ==
  ASSUME TypeInv, Next
  PROVE  (\E x \in Execs : Moves(x)) \/ (\E c \in calls : Records(c))
<1>0. /\ pc \in [Execs -> States] /\ calls \subseteq Calls /\ CallsOK
      /\ results \in [Execs -> [ForwardStates -> Ids]]
  BY TypeUnfold DEF ControlOK
<1>1. \A c \in calls : c.of \in Execs
  BY <1>0 DEF Calls
<1>2. ASSUME NEW x \in Execs, InitializeSaga(x) PROVE Moves(x)
  BY <1>0, <1>2 DEF InitializeSaga, Enter, Moves, Stays, Begins
<1>3. ASSUME NEW x \in Execs, Invoke(x) PROVE Moves(x)
  BY <1>3 DEF Invoke, Moves, Stays
<1>4. ASSUME NEW c \in calls, Reject(c) \/ Crash(c) PROVE Moves(c.of)
  BY <1>4, RaiseMoves DEF Reject, Crash
<1>5. ASSUME NEW c \in calls, Start(c) \/ SetStatus(c) PROVE Moves(c.of)
  BY <1>5 DEF Start, SetStatus, Continue, Moves, Stays
<1>6. ASSUME NEW c \in calls, Inject(c) PROVE Moves(c.of)
  <2>1. CASE Continue(c, "write")
    BY <1>6, <2>1 DEF Inject, Continue, Moves, Stays
  <2>2. ASSUME NEW e, Raise(c, e) PROVE Moves(c.of)
    BY <1>6, <2>2, RaiseMoves DEF Inject
  <2> QED
    BY <1>6, <2>1, <2>2 DEF Inject
<1>7. ASSUME NEW c \in calls, Write(c) PROVE Moves(c.of) \/ Records(c)
  <2>1. CASE store[OrderOf(c)].mapped
    <3>1. c.at = "write" /\ ~ Rejects(c)
      BY <1>7 DEF Write, At
    <3>2. c.fn \in Recorders
      BY <1>0, <3>1 DEF CallsOK, OpsOf, Calls, TaskStates, Recorders
    <3> QED
      BY <1>7, <2>1, <3>1, <3>2 DEF Write, Continue, Records, Stays
  <2>2. CASE ~ store[OrderOf(c)].mapped
    BY <1>7, <2>2, RaiseMoves DEF Write
  <2> QED
    BY <2>1, <2>2
<1>8. ASSUME NEW c \in calls, Reply(c) PROVE Moves(c.of)
  <2>1. CASE Awaited(c)
    <3>1. c.of \in Execs /\ c.fn = pc[c.of] /\ pc[c.of] \in TaskStates
      BY <1>0, <2>1 DEF CallsOK, Calls
    <3>2. /\ pc' = [pc EXCEPT ![c.of] = NextState[pc[c.of]]]
          /\ results' = IF c.fn \in ForwardStates
                          THEN [results EXCEPT ![c.of][c.fn] = NewId(c)] ELSE results
          /\ At(c, "reply") /\ history' = history
      BY <1>8, <2>1 DEF Reply, Enter
    <3>3. \A y \in Execs \ {c.of} : Stays(y)
      BY <1>0, <3>1, <3>2 DEF Stays
    <3>4. Replied(c.of)
      BY <1>0, <3>1, <3>2 DEF Replied
    <3> QED
      BY <3>2, <3>3, <3>4 DEF Moves
  <2>2. CASE ~ Awaited(c)
    BY <1>8, <2>2 DEF Reply, Moves, Stays
  <2> QED
    BY <2>1, <2>2
<1>9. ASSUME NEW x \in Execs, Disturb(x) PROVE Moves(x)
  <2>1. UNCHANGED <<results, history>>
    BY <1>9 DEF Disturb, Throttle, Lose, TaskTimeout, Expire
  <2>2. CASE Throttle(x)
    BY <2>1, <2>2, ErrorMoves DEF Throttle
  <2>3. CASE Lose(x) \/ TaskTimeout(x)
    BY <1>0, <2>1, <2>3, ErrorMoves DEF Lose, TaskTimeout, CallsOK
  <2>4. CASE Expire(x)
    BY <1>0, <2>1, <2>4 DEF Expire, Enter, Moves, Stays, TimesOut
  <2> QED
    BY <1>9, <2>2, <2>3, <2>4 DEF Disturb
<1> QED
  BY <1>1, <1>2, <1>3, <1>4, <1>5, <1>6, <1>7, <1>8, <1>9 DEF Next, Advance, Run

-----------------------------------------------------------------------------
(* What a step does to the contract's view of its execution.               *)

ContractStep(x) ==
  LET From(phases, phase) == PhaseOf(x) \in phases /\ PhaseOf(x)' = phase
  IN  \/ PhaseOf(x)' = PhaseOf(x) /\ Outstanding(x)' = Outstanding(x)
      \/ /\ Outstanding(x)' = Outstanding(x)
         /\ \/ From({"forward"}, "committed") /\ Outstanding(x) = ForwardStates
            \/ From({"forward"}, "unwinding") /\ Outstanding(x) # ForwardStates
            \/ From({"unwinding"}, "rolledBack") /\ Outstanding(x) = {}
            \/ From({"forward", "unwinding"}, "stopped")
      \/ \E s \in ForwardStates :
           /\ From({"forward"}, "forward")
           /\ s \notin Outstanding(x) /\ PrecedingSteps[s] \subseteq Outstanding(x)
           /\ Outstanding(x)' = Outstanding(x) \cup {s}
      \/ \E s \in ForwardStates :
           /\ PhaseOf(x) \in {"unwinding", "stopped"} /\ PhaseOf(x)' = PhaseOf(x)
           /\ s \in Outstanding(x) /\ Outstanding(x) \subseteq PrecedingSteps[s] \cup {s}
           /\ Outstanding(x)' = Outstanding(x) \ {s}

\* Such a step of one execution, while the others stay, is a step of the contract.
LEMMA Lift ==
  ASSUME NEW x \in Execs, ContractStep(x),
         \A y \in Execs \ {x} :
           PhaseOf(y)' = PhaseOf(y) /\ Outstanding(y)' = Outstanding(y)
  PROVE  [Contract!Next]_(Contract!vars)
<1> DEFINE phase == [y \in Execs |-> PhaseOf(y)]
           done == [y \in Execs |-> Outstanding(y)]
<1>1. /\ phase' = [phase EXCEPT ![x] = PhaseOf(x)']
      /\ done' = [done EXCEPT ![x] = Outstanding(x)']
  OBVIOUS
<1>2. /\ phase[x] = PhaseOf(x) /\ done[x] = Outstanding(x)
      /\ phase = [phase EXCEPT ![x] = PhaseOf(x)]
      /\ done = [done EXCEPT ![x] = Outstanding(x)]
  OBVIOUS
<1> USE DEF Contract!Next, Contract!vars
<1>3. CASE PhaseOf(x)' = PhaseOf(x) /\ Outstanding(x)' = Outstanding(x)
  BY <1>1, <1>2, <1>3
<1>4. ASSUME NEW s, Outstanding(x)' = Outstanding(x), PhaseOf(x)' = s,
             NEW from, PhaseOf(x) \in from
      PROVE  Contract!Move(x, from, s)
  BY <1>1, <1>2, <1>4 DEF Contract!Move
<1>5. CASE /\ Outstanding(x)' = Outstanding(x)
           /\ \/ /\ PhaseOf(x) \in {"forward"} /\ PhaseOf(x)' = "committed"
                 /\ Outstanding(x) = ForwardStates
              \/ /\ PhaseOf(x) \in {"forward"} /\ PhaseOf(x)' = "unwinding"
                 /\ Outstanding(x) # ForwardStates
              \/ /\ PhaseOf(x) \in {"unwinding"} /\ PhaseOf(x)' = "rolledBack"
                 /\ Outstanding(x) = {}
              \/ PhaseOf(x) \in {"forward", "unwinding"} /\ PhaseOf(x)' = "stopped"
  BY <1>2, <1>4, <1>5
  DEF Contract!Commit, Contract!Unwind, Contract!RollBack, Contract!Stop
<1>6. ASSUME NEW s \in ForwardStates,
             PhaseOf(x) = "forward", PhaseOf(x)' = "forward",
             s \notin Outstanding(x), PrecedingSteps[s] \subseteq Outstanding(x),
             Outstanding(x)' = Outstanding(x) \cup {s}
      PROVE  Contract!Finish(x, s)
  BY <1>1, <1>2, <1>6 DEF Contract!Finish
<1>7. ASSUME NEW s \in ForwardStates,
             PhaseOf(x) \in {"unwinding", "stopped"}, PhaseOf(x)' = PhaseOf(x),
             s \in Outstanding(x), Outstanding(x) \subseteq PrecedingSteps[s] \cup {s},
             Outstanding(x)' = Outstanding(x) \ {s}
      PROVE  Contract!Undo(x, s)
  BY <1>1, <1>2, <1>7 DEF Contract!Undo
<1> QED
  BY <1>3, <1>5, <1>6, <1>7 DEF ContractStep

\* Going forward, what an execution has received is what is outstanding.
LEMMA ForwardOutstanding ==
  ASSUME NoEarlyUndo, NEW x \in Execs, pc[x] \in GoingForward
  PROVE  /\ \A s : ~ Compensated(x, s)
         /\ Outstanding(x) = {s \in ForwardStates : Received(x, s)}
BY DEF NoEarlyUndo, Compensated, Recorded, Outstanding, Received

\* A step that leaves x and its part of the history alone changes nothing for x.
LEMMA SameView ==
  ASSUME NEW x \in Execs, Stays(x), history \subseteq history',
         \A h \in history' \ history : h.of # x \/ h.step \notin CompensationStates
  PROVE  PhaseOf(x)' = PhaseOf(x) /\ Outstanding(x)' = Outstanding(x)
<1>1. \A c \in CompensationStates : \A e : Recorded(x, c, e)' <=> Recorded(x, c, e)
  BY DEF Recorded
<1>2. \A s : Compensated(x, s)' <=> Compensated(x, s)
  BY <1>1 DEF Compensated, Stays
<1> QED
  BY <1>2 DEF Stays, PhaseOf, Outstanding

LEMMA MoveIsContractStep ==
  ASSUME TypeInv, IInv, ContractInv, NEW x \in Execs, Moves(x)
  PROVE  ContractStep(x)
<1>0. history' = history /\ pc[x] \in States
  BY DEF Moves, TypeInv, TypeOK, States
<1>1. ASSUME results'[x] = results[x] PROVE Outstanding(x)' = Outstanding(x)
  BY <1>0, <1>1 DEF Outstanding, Compensated, Recorded
<1>2. CASE Stays(x)
  BY <1>0, <1>1, <1>2 DEF Stays, PhaseOf, ContractStep
<1>3. CASE Begins(x)
  <2>1. \A s \in ForwardStates : results[x][s] = NoId
    BY <1>3 DEF Begins, IInv, Progress, Received
  <2>2. Outstanding(x) = {} /\ Outstanding(x)' = {}
    BY <1>3, <2>1 DEF Begins, Outstanding
  <2>3. PhaseOf(x) = "forward" /\ PhaseOf(x)' = "forward"
    BY <1>3 DEF Begins, PhaseOf, ForwardStates, CompensationStates
  <2> QED
    BY <2>2, <2>3 DEF ContractStep
<1>4. CASE Caught(x)
  <2>1. Outstanding(x)' = Outstanding(x)
    BY <1>1, <1>4 DEF Caught
  <2>2. CASE pc[x] \in ForwardStates
    <3>1. pc[x] \notin Outstanding(x)
      BY <2>2 DEF IInv, Progress, Received, Outstanding, PrecedingSteps, ForwardStates
    <3>2. PhaseOf(x) = "forward" /\ PhaseOf(x)' = "unwinding"
      BY <1>4, <2>2 DEF Caught, CatchState, PhaseOf, ForwardStates, CompensationStates
    <3> QED
      BY <2>1, <2>2, <3>1, <3>2 DEF ContractStep
  <2>3. CASE pc[x] \in TaskStates \ ForwardStates
    <3>1. PhaseOf(x) \in {"forward", "unwinding"} /\ PhaseOf(x)' = "stopped"
      BY <1>4, <2>3
      DEF Caught, CatchState, PhaseOf, TaskStates, ForwardStates, CompensationStates
    <3> QED
      BY <2>1, <3>1 DEF ContractStep
  <2> QED
    BY <1>4, <2>2, <2>3 DEF Caught
<1>5. CASE TimesOut(x) /\ pc[x] \notin Terminals
  <2>1. PhaseOf(x) \in {"forward", "unwinding"} /\ PhaseOf(x)' = "stopped"
    BY <1>0, <1>5 DEF TimesOut, States, TaskStates, ForwardStates, CompensationStates, PhaseOf
  <2> QED
    BY <1>1, <1>5, <2>1 DEF TimesOut, ContractStep
<1>6. CASE Replied(x)
  <2>1. PICK c \in calls :
          /\ c.of = x /\ c.fn = pc[x] /\ ~ Rejects(c)
          /\ pc[x] \in TaskStates /\ pc'[x] = NextState[pc[x]]
          /\ results'[x] = IF c.fn \in ForwardStates
                             THEN [results[x] EXCEPT ![c.fn] = NewId(c)] ELSE results[x]
    BY <1>6 DEF Replied, At
  <2>2. CASE pc[x] \in ForwardStates
    <3>1. \A s : ~ Compensated(x, s) /\ ~ Compensated(x, s)'
      BY <1>0, <2>2 DEF ContractInv, NoEarlyUndo, GoingForward, Compensated, Recorded
    <3>2. /\ Outstanding(x) = PrecedingSteps[pc[x]]
          /\ pc[x] \notin Outstanding(x)
      BY <2>2, <3>1
      DEF IInv, Progress, Received, Outstanding, PrecedingSteps, ForwardStates
    <3>3. NewId(c) # NoId /\ results[x] \in [ForwardStates -> Ids]
      BY <2>1, NewIdKnown DEF TypeInv, TypeOK
    <3>4. Outstanding(x)' = Outstanding(x) \cup {pc[x]}
      BY <2>1, <2>2, <3>1, <3>3 DEF Outstanding
    <3>5. PhaseOf(x) = "forward" /\ PhaseOf(x)' = "forward"
      <4>1. pc'[x] \in ForwardStates \cup {"CompleteSaga"}
        BY <2>1, <2>2 DEF NextState, ForwardStates
      <4> QED
        BY <2>2, <4>1 DEF PhaseOf, ForwardStates, CompensationStates
    <3> QED
      BY <2>2, <3>2, <3>4, <3>5 DEF ContractStep
  <2>3. CASE pc[x] \notin ForwardStates
    <3>1. Outstanding(x)' = Outstanding(x)
      BY <1>1, <2>1, <2>3
    <3>2. CASE pc[x] = "CompleteSaga"
      <4>1. Outstanding(x) = ForwardStates
        BY <3>2, ForwardOutstanding DEF ContractInv, AllReceived, GoingForward
      <4>2. PhaseOf(x) = "forward" /\ PhaseOf(x)' = "committed"
        BY <2>1, <3>2 DEF NextState, PhaseOf, ForwardStates, CompensationStates
      <4> QED
        BY <3>1, <4>1, <4>2 DEF ContractStep
    <3>3. CASE pc[x] = "MarkFailed"
      <4>1. Outstanding(x) = {}
        BY <3>3 DEF IInv, Progress, Unwound, Received, Outstanding, ForwardStates
      <4>2. PhaseOf(x) = "unwinding" /\ PhaseOf(x)' = "rolledBack"
        BY <2>1, <3>3 DEF NextState, PhaseOf, ForwardStates, CompensationStates
      <4> QED
        BY <3>1, <4>1, <4>2 DEF ContractStep
    <3>4. CASE pc[x] \in CompensationStates
      <4>1. PhaseOf(x) = "unwinding" /\ PhaseOf(x)' = "unwinding"
        BY <2>1, <3>4 DEF NextState, PhaseOf, ForwardStates, CompensationStates
      <4> QED
        BY <3>1, <4>1 DEF ContractStep
    <3> QED
      BY <2>1, <2>3, <3>2, <3>3, <3>4 DEF TaskStates
  <2> QED
    BY <2>2, <2>3
<1> QED
  BY <1>2, <1>3, <1>4, <1>5, <1>6 DEF Moves

\* A record of a compensation undoes the latest outstanding step, or one that was
\* undone before.
LEMMA RecordIsContractStep ==
  ASSUME TypeInv, IInv, ContractInv, NEW c \in calls, Records(c),
         c.fn \in CompensationStates
  PROVE  ContractStep(c.of)
<1> DEFINE x == c.of
           s == Compensates[c.fn]
           h == [of |-> c.of, no |-> c.no, step |-> c.fn, entry |-> EntryOf(c)]
<1>1. x \in Execs /\ s \in ForwardStates
  BY DEF TypeInv, TypeOK, Calls, Compensates, CompensationStates, ForwardStates
<1>2. Stays(x) /\ history' = history \cup {h}
  BY <1>1 DEF Records
<1>3. h.of = x /\ h.step = c.fn
      /\ h.entry = Done(IF c.fn = "CancelOrder" THEN NoId ELSE results[x][s])
  BY CompensationEntry DEF IInv, CompensationStates
<1> HIDE DEF h
<1>4. Compensated(x, s)'
  BY <1>2, <1>3 DEF Compensated, Recorded, Stays
<1>5. ASSUME NEW t, t # s PROVE Compensated(x, t)' <=> Compensated(x, t)
  <2>1. \A d \in CompensationStates : \A e :
          Compensates[d] = t => (Recorded(x, d, e)' <=> Recorded(x, d, e))
    BY <1>2, <1>3, <1>5 DEF Recorded
  <2> QED
    BY <1>2, <2>1 DEF Compensated, Stays
<1>6. PhaseOf(x)' = PhaseOf(x) /\ Outstanding(x)' = Outstanding(x) \ {s}
  BY <1>2, <1>4, <1>5 DEF Stays, PhaseOf, Outstanding
<1>7. CASE s \notin Outstanding(x)
  BY <1>6, <1>7 DEF ContractStep
<1>8. CASE s \in Outstanding(x)
  <2>1. pc[x] \notin GoingForward /\ UndoneBefore(x, c.fn)
    BY DEF ContractInv, NoEarlyUndo, LatestFirst
  <2>2. pc[x] # "SagaFailed"
    BY <1>1, <1>8 DEF IInv, Progress, Unwound, Received, Outstanding, ForwardStates
  <2>3. PhaseOf(x) \in {"unwinding", "stopped"}
    BY <2>1, <2>2 DEF PhaseOf, GoingForward
  <2>4. Outstanding(x) \subseteq PrecedingSteps[s] \cup {s}
    BY <2>1 DEF UndoneBefore, Received, Outstanding, PrecedingSteps, Compensates,
       ForwardStates, CompensationStates
  <2> QED
    BY <1>1, <1>6, <1>8, <2>3, <2>4 DEF ContractStep
<1> QED
  BY <1>7, <1>8

-----------------------------------------------------------------------------
(* The theorem.                                                            *)

LEMMA ContractInvStep ==
  TypeInv /\ IInv /\ TypeInv' /\ IInv' /\ ContractInv /\ [Next]_vars => ContractInv'
<1> SUFFICES ASSUME TypeInv, IInv, TypeInv', IInv', ContractInv, [Next]_vars
             PROVE  ContractInv'
  OBVIOUS
<1>1. CASE Next
  <2>1. ExecStep /\ CallStep /\ DataStep
    BY <1>1, StepShape
  <2> QED
    BY <2>1, NoEarlyUndoStep, LatestFirstStep, AllReceivedStep DEF IInv, ContractInv
<1>2. CASE UNCHANGED vars
  BY <1>2 DEF vars, ContractInv, NoEarlyUndo, LatestFirst, AllReceived, UndoneBefore,
     Received, Compensated, Recorded
<1> QED
  BY <1>1, <1>2

LEMMA StepRefines ==
  TypeInv /\ IInv /\ ContractInv /\ [Next]_vars => [Contract!Next]_(Contract!vars)
<1> SUFFICES ASSUME TypeInv, IInv, ContractInv, [Next]_vars
             PROVE  [Contract!Next]_(Contract!vars)
  OBVIOUS
<1>1. ASSUME NEW x \in Execs, Moves(x) PROVE [Contract!Next]_(Contract!vars)
  <2>1. \A y \in Execs \ {x} :
          PhaseOf(y)' = PhaseOf(y) /\ Outstanding(y)' = Outstanding(y)
    BY <1>1, SameView DEF Moves
  <2> QED
    BY <1>1, <2>1, MoveIsContractStep, Lift
<1>2. ASSUME NEW c \in calls, Records(c) PROVE [Contract!Next]_(Contract!vars)
  <2>1. c.of \in Execs
    BY DEF TypeInv, TypeOK, Calls
  <2>2. \A y \in Execs \ {c.of} :
          PhaseOf(y)' = PhaseOf(y) /\ Outstanding(y)' = Outstanding(y)
    BY <1>2, SameView DEF Records
  <2>3. ContractStep(c.of)
    <3>1. CASE c.fn \in CompensationStates
      BY <1>2, <3>1, RecordIsContractStep
    <3>2. CASE c.fn \notin CompensationStates
      BY <1>2, <2>1, <3>2, SameView DEF Records, ContractStep
    <3> QED
      BY <3>1, <3>2
  <2> QED
    BY <2>1, <2>2, <2>3, Lift
<1>3. CASE UNCHANGED vars
  BY <1>3 DEF vars, Contract!vars, PhaseOf, Outstanding, Compensated, Recorded
<1> QED
  BY <1>1, <1>2, <1>3, OneAtATime

\* The saga keeps its contract: forward in order, all or unwinding, latest step
\* first, SagaFailed with nothing left to undo, for however many executions,
\* also of one order, and whatever the faults.
THEOREM Refinement == Spec => ImplementsContract
<1>1. Init => ContractInv
  BY DEF Init, ContractInv, NoEarlyUndo, LatestFirst, AllReceived
<1>2. Init => Contract!Init
  <2> SUFFICES ASSUME Init PROVE Contract!Init
    OBVIOUS
  <2>1. \A x \in Execs : PhaseOf(x) = "forward" /\ Outstanding(x) = {}
    BY DEF Init, PhaseOf, Outstanding, ForwardStates, CompensationStates
  <2> QED
    BY <2>1 DEF Contract!Init
<1> QED
  BY <1>1, <1>2, ContractInvStep, StepRefines, Invariance, PTL
  DEF Spec, ImplementsContract, Contract!Spec

-----------------------------------------------------------------------------
(* The item of an order and the charges of an execution: invariants beyond *)
(* the contract's, execution by execution.                                 *)

CallsOf(x) == {c \in calls : c.of = x}

\* While no response was lost and no Task timed out, an execution has at most
\* the invocation it waits for, or the one its own timeout left running; and an
\* invocation of a step finds no result of that step, create_order finds none.
Quiet(x) ==
  /\ \A c, d \in CallsOf(x) : c = d
  /\ \A c \in CallsOf(x) :
       /\ Awaited(c) \/ pc[x] = "ExecutionTimedOut"
       /\ c.fn \in ForwardStates => ~ Received(x, c.fn)
       /\ c.fn = "CreateOrder" => \A s \in ForwardStates : ~ Received(x, s)

\* Past create_order and before the end the saga's item is in progress.
InProgress(x) == store[input[x].order].status \in {"STARTED", "COMPENSATING"}

\* The item says what the execution has received, and what an invocation about
\* to reply is about to tell it.
Tracked(x) ==
  /\ RecordedStepsAreKept(x)
  /\ pc[x] \in {"ChargePayment", "ReserveInventory", "ScheduleShipment", "CompensationFailed"}
                 \cup CompensationStates => InProgress(x)
  /\ pc[x] = "SagaSucceeded" => store[input[x].order].status = "COMPLETED"
  /\ pc[x] = "SagaFailed" => store[input[x].order].status = "FAILED"
  /\ \A c \in CallsOf(x) :
       /\ c.fn = "CreateOrder" /\ c.at # "start" => InProgress(x)
       /\ c.at = "reply" =>
            /\ c.fn \in ForwardStates => store[input[x].order].steps[c.fn] = Done(NewId(c))
            /\ c.fn = "CompleteSaga" => store[input[x].order].status = "COMPLETED"
            /\ c.fn = "MarkFailed" => store[input[x].order].status = "FAILED"

OwnOrder(x) == input[x].order \in Orders /\ ~ SharesOrder(x)
ItemInv == ~ Orphaned => \A x \in Execs : Quiet(x) /\ (OwnOrder(x) => Tracked(x))

\* The charges of an execution that were captured, or that an invocation it no
\* longer waits for may still capture, by the number of the invocation.
Captured(x, n) ==
  \E h \in history : h.of = x /\ h.step = "ChargePayment" /\ h.no = n
Pending(x, n) ==
  \E c \in CallsOf(x) : c.no = n /\ c.fn = "ChargePayment" /\ ~ Awaited(c)
Charges(x) == {n \in 1 .. invoked[x] : Captured(x, n) \/ Pending(x, n)}

\* The execution has the result of a charge, or is about to.
Held(x) ==
  \/ Received(x, "ChargePayment")
  \/ \E c \in CallsOf(x) : Awaited(c) /\ c.fn = "ChargePayment" /\ c.at = "reply"

\* All charges but the held one have their fault.
Accounted(x) ==
  \/ pc[x] = "ExecutionTimedOut"
  \/ Cardinality(Charges(x)) <= Blame + IF Held(x) THEN 1 ELSE 0

\* A charge is told by its invocation, and captured before it is replied.
ChargesTold(x) ==
  /\ \A c, d \in CallsOf(x) : c.no = d.no => c = d
  /\ \A c \in CallsOf(x) : c.fn = "ChargePayment" /\ c.at = "reply" => Captured(x, c.no)
  /\ \A h \in history : h.of = x =>
       /\ h.no \in 1 .. invoked[x]
       /\ h.step = "ChargePayment" => h.entry = Done(<<x, h.no>>)

ChargeInv == \A x \in Execs : ChargesTold(x) /\ Accounted(x)

-----------------------------------------------------------------------------
(* A step is one execution's, and changes nothing of the others.           *)

\* The step leaves everything alone that is not of x or of its order.
Only(x) ==
  /\ input' = input
  /\ \A y \in Execs \ {x} :
       /\ pc'[y] = pc[y] /\ results'[y] = results[y]
       /\ awaiting'[y] = awaiting[y] /\ invoked'[y] = invoked[y]
       /\ CallsOf(y)' = CallsOf(y)
       /\ \A h : h.of = y => (h \in history' <=> h \in history)
  /\ \A o \in Orders : o # input[x].order => store'[o] = store[o]
  /\ \A k \in FaultKinds : faults[k] <= faults'[k]

StepOf(x) == Advance(x) \/ Disturb(x) \/ \E c \in CallsOf(x) : Run(c) \/ Crash(c)

\* An error leaves the execution waiting for nothing, in its state or its Catch's.
LEMMA ErrorEnds ==
  ASSUME ControlOK, NEW x \in Execs, NEW e, OnError(x, e)
  PROVE  /\ awaiting'[x] = 0
         /\ pc'[x] = pc[x] \/ pc'[x] = CatchState[pc[x]]
         /\ \A y \in Execs \ {x} : pc'[y] = pc[y] /\ awaiting'[y] = awaiting[y]
BY DEF OnError, RetryOrCatch, Enter, ControlOK

LEMMA EnterEnds ==
  ASSUME ControlOK, NEW x \in Execs, NEW s, Enter(x, s)
  PROVE  /\ awaiting'[x] = 0 /\ pc'[x] = s
         /\ \A y \in Execs \ {x} : pc'[y] = pc[y] /\ awaiting'[y] = awaiting[y]
BY DEF Enter, ControlOK

\* What an invocation leaves behind when it ends, awaited or not.
LEMMA RaiseEnds ==
  ASSUME TypeInv, NEW c \in calls, NEW e, Raise(c, e)
  PROVE  /\ c.of \in Execs /\ calls' = calls \ {c}
         /\ \A y \in Execs \ {c.of} : pc'[y] = pc[y] /\ awaiting'[y] = awaiting[y]
         /\ Awaited(c) => /\ awaiting'[c.of] = 0 /\ pc[c.of] = c.fn
                          /\ pc'[c.of] = pc[c.of] \/ pc'[c.of] = CatchState[pc[c.of]]
         /\ ~ Awaited(c) => pc' = pc /\ awaiting' = awaiting
<1>1. ControlOK /\ c.of \in Execs /\ CallsOK
  BY TypeUnfold DEF Calls
<1>2. CASE Awaited(c)
  BY <1>1, <1>2, ErrorEnds DEF Raise, CallsOK
<1>3. CASE ~ Awaited(c)
  BY <1>1, <1>3 DEF Raise
<1> QED
  BY <1>2, <1>3

\* And when it goes on.
LEMMA ContinueCalls ==
  ASSUME TypeInv, NEW c \in calls, NEW op, Continue(c, op)
  PROVE  \E d : /\ d.of = c.of /\ d.no = c.no /\ d.fn = c.fn /\ d.at = op
                /\ calls' = (calls \ {c}) \cup {d}
                /\ pc' = pc /\ awaiting' = awaiting
<1>1. c \in Calls
  BY TypeUnfold
<1>2. [c EXCEPT !.at = op].of = c.of /\ [c EXCEPT !.at = op].no = c.no
      /\ [c EXCEPT !.at = op].fn = c.fn /\ [c EXCEPT !.at = op].at = op
  BY <1>1 DEF Calls
<1> QED
  BY <1>2 DEF Continue

LEMMA CallsApart ==
  ASSUME NEW x, NEW y, x # y
  PROVE  /\ \A c : c.of = x /\ calls' = calls \ {c} => CallsOf(y)' = CallsOf(y)
         /\ \A c, d : c.of = x /\ d.of = x /\ calls' = (calls \ {c}) \cup {d} =>
              CallsOf(y)' = CallsOf(y)
         /\ \A d : d.of = x /\ calls' = calls \cup {d} => CallsOf(y)' = CallsOf(y)
         /\ calls' = calls => CallsOf(y)' = CallsOf(y)
BY DEF CallsOf

LEMMA FaultsGrow ==
  ASSUME TypeInv
  PROVE  /\ faults' = faults => \A k \in FaultKinds : faults[k] <= faults'[k]
         /\ \A k \in FaultKinds : Fault(k) => /\ faults'[k] = faults[k] + 1
                                              /\ \A l \in FaultKinds : faults[l] <= faults'[l]
<1>1. faults \in [FaultKinds -> Nat]
  BY TypeUnfold
<1>2. ASSUME NEW k \in FaultKinds, Fault(k)
      PROVE  faults'[k] = faults[k] + 1 /\ \A l \in FaultKinds : faults[l] <= faults'[l]
  <2>1. faults' = [faults EXCEPT ![k] = faults[k] + 1]
    BY <1>2 DEF Fault
  <2> QED
    BY <1>1, <2>1
<1> QED
  BY <1>1, <1>2

LEMMA RaiseOnly ==
  ASSUME TypeInv, NEW c \in calls, NEW e, Raise(c, e),
         UNCHANGED <<input, results, invoked, history>>,
         \A o \in Orders : o # OrderOf(c) => store'[o] = store[o],
         \A k \in FaultKinds : faults[k] <= faults'[k]
  PROVE  Only(c.of)
<1>1. /\ c.of \in Execs /\ calls' = calls \ {c}
      /\ \A y \in Execs \ {c.of} : pc'[y] = pc[y] /\ awaiting'[y] = awaiting[y]
  BY RaiseEnds
<1>2. \A y \in Execs \ {c.of} : CallsOf(y)' = CallsOf(y)
  BY <1>1, CallsApart
<1> QED
  BY <1>1, <1>2 DEF Only, OrderOf

LEMMA ContinueOnly ==
  ASSUME TypeInv, NEW c \in calls, NEW op, Continue(c, op),
         UNCHANGED <<input, results, invoked, faults>>,
         \A o \in Orders : o # OrderOf(c) => store'[o] = store[o],
         \A y \in Execs \ {c.of} : \A h : h.of = y => (h \in history' <=> h \in history)
  PROVE  Only(c.of)
<1>1. PICK d : /\ d.of = c.of /\ calls' = (calls \ {c}) \cup {d}
               /\ pc' = pc /\ awaiting' = awaiting
  BY ContinueCalls
<1>2. \A y \in Execs \ {c.of} : CallsOf(y)' = CallsOf(y)
  BY <1>1, CallsApart
<1>3. \A k \in FaultKinds : faults[k] <= faults'[k]
  BY FaultsGrow
<1> QED
  BY <1>1, <1>2, <1>3 DEF Only, OrderOf

LEMMA RunOnly ==
  ASSUME TypeInv, NEW c \in calls, Run(c) \/ Crash(c)
  PROVE  Only(c.of)
<1>0. /\ ControlOK /\ calls \subseteq Calls /\ CallsOK
      /\ results \in [Execs -> [ForwardStates -> Ids]] /\ c.of \in Execs
      /\ faults' = faults => \A k \in FaultKinds : faults[k] <= faults'[k]
  BY TypeUnfold, FaultsGrow DEF Calls
<1>1. CASE Reject(c)
  BY <1>0, <1>1, RaiseOnly DEF Reject
<1>2. CASE Start(c)
  BY <1>2, ContinueOnly DEF Start
<1>3. CASE Inject(c)
  <2>1. /\ UNCHANGED <<input, results, invoked, history, faults>>
        /\ \/ store' = store
           \/ \E n : store' = [store EXCEPT ![OrderOf(c)].attempts[c.fn] = n]
    BY <1>3 DEF Inject
  <2>2. \A o \in Orders : o # OrderOf(c) => store'[o] = store[o]
    BY <2>1, TypeUnfold
  <2>3. CASE Continue(c, "write")
    BY <2>1, <2>2, <2>3, ContinueOnly
  <2>4. ASSUME NEW e, Raise(c, e) PROVE Only(c.of)
    BY <1>0, <2>1, <2>2, <2>4, RaiseOnly
  <2> QED
    BY <1>3, <2>3, <2>4 DEF Inject
<1>4. CASE Write(c)
  <2>1. CASE store[OrderOf(c)].mapped
    <3> DEFINE h == [of |-> c.of, no |-> c.no, step |-> c.fn, entry |-> EntryOf(c)]
    <3>1. /\ UNCHANGED <<input, results, invoked, faults>>
          /\ store' = [store EXCEPT ![OrderOf(c)].steps[c.fn] = EntryOf(c)]
          /\ history' = history \cup {h} /\ h.of = c.of /\ Continue(c, "reply")
      BY <1>4, <2>1 DEF Write
    <3> HIDE DEF h
    <3>2. \A o \in Orders : o # OrderOf(c) => store'[o] = store[o]
      BY <3>1, TypeUnfold
    <3> QED
      BY <3>1, <3>2, ContinueOnly
  <2>2. CASE ~ store[OrderOf(c)].mapped
    BY <1>0, <1>4, <2>2, RaiseOnly DEF Write
  <2> QED
    BY <2>1, <2>2
<1>5. CASE SetStatus(c)
  BY <1>5, ContinueOnly DEF SetStatus
<1>6. CASE Reply(c)
  <2>1. calls' = calls \ {c} /\ UNCHANGED <<input, invoked, store, history, faults>>
    BY <1>6 DEF Reply
  <2>2. \A y \in Execs \ {c.of} : CallsOf(y)' = CallsOf(y)
    BY <2>1, CallsApart
  <2>3. \A y \in Execs \ {c.of} : /\ pc'[y] = pc[y] /\ awaiting'[y] = awaiting[y]
                                  /\ results'[y] = results[y]
    BY <1>0, <1>6, EnterEnds DEF Reply
  <2> QED
    BY <1>0, <2>1, <2>2, <2>3 DEF Only
<1>7. CASE Crash(c)
  <2>1. \A k \in FaultKinds : faults[k] <= faults'[k]
    BY <1>7, FaultsGrow DEF Crash, FaultKinds
  <2> QED
    BY <1>7, <2>1, RaiseOnly DEF Crash
<1> QED
  BY <1>1, <1>2, <1>3, <1>4, <1>5, <1>6, <1>7 DEF Run

LEMMA OneExecution ==
  ASSUME TypeInv, Next
  PROVE  \E x \in Execs : StepOf(x) /\ Only(x)
<1>0. /\ ControlOK /\ calls \subseteq Calls
      /\ faults' = faults => \A k \in FaultKinds : faults[k] <= faults'[k]
  BY TypeUnfold, FaultsGrow
<1>1. ASSUME NEW x \in Execs, InitializeSaga(x) PROVE Only(x)
  BY <1>0, <1>1, EnterEnds, CallsApart, TypeUnfold DEF InitializeSaga, Only
<1>2. ASSUME NEW x \in Execs, Invoke(x) PROVE Only(x)
  <2> DEFINE c == [of |-> x, no |-> invoked[x] + 1, fn |-> pc[x], at |-> FirstOp(pc[x])]
  <2>1. c.of = x /\ calls' = calls \cup {c}
    BY <1>2 DEF Invoke
  <2> HIDE DEF c
  <2>2. \A y \in Execs \ {x} : CallsOf(y)' = CallsOf(y)
    BY <2>1, CallsApart
  <2> QED
    BY <1>0, <1>2, <2>2, TypeUnfold DEF Invoke, Only
<1>3. ASSUME NEW x \in Execs, Disturb(x) PROVE Only(x)
  <2>1. UNCHANGED <<input, results, invoked, calls, store, history>>
    BY <1>3 DEF Disturb, Throttle, Lose, TaskTimeout, Expire
  <2>2. \A k \in FaultKinds : faults[k] <= faults'[k]
    BY <1>3, FaultsGrow DEF Disturb, Throttle, Lose, TaskTimeout, Expire, FaultKinds
  <2>3. \A y \in Execs \ {x} : pc'[y] = pc[y] /\ awaiting'[y] = awaiting[y]
    <3>1. (\E e : OnError(x, e)) \/ Enter(x, "ExecutionTimedOut")
      BY <1>3 DEF Disturb, Throttle, Lose, TaskTimeout, Expire
    <3>2. ASSUME NEW e, OnError(x, e)
          PROVE  \A y \in Execs \ {x} : pc'[y] = pc[y] /\ awaiting'[y] = awaiting[y]
      BY <1>0, <3>2, ErrorEnds
    <3>3. CASE Enter(x, "ExecutionTimedOut")
      BY <1>0, <3>3, EnterEnds
    <3> QED
      BY <3>1, <3>2, <3>3
  <2> QED
    BY <2>1, <2>2, <2>3, CallsApart DEF Only
<1>4. ASSUME NEW c \in calls, Run(c) \/ Crash(c) PROVE c.of \in Execs /\ StepOf(c.of) /\ Only(c.of)
  <2>1. c.of \in Execs
    BY <1>0 DEF Calls
  <2>2. c \in CallsOf(c.of)
    BY DEF CallsOf
  <2>3. Only(c.of)
    BY <1>4, RunOnly
  <2> QED
    BY <1>4, <2>1, <2>2, <2>3 DEF StepOf
<1> QED
  BY <1>1, <1>2, <1>3, <1>4 DEF Next, StepOf, Advance

-----------------------------------------------------------------------------
(* The item follows the execution.                                         *)

SameItem(x) == /\ store'[input[x].order].status = store[input[x].order].status
               /\ store'[input[x].order].steps = store[input[x].order].steps

\* What the others do leaves an execution and its own order alone.
LEMMA OthersKeepItem ==
  ASSUME TypeInv, NEW x \in Execs, Only(x), NEW y \in Execs \ {x}
  PROVE  /\ Quiet(y) => Quiet(y)'
         /\ OwnOrder(y) /\ Tracked(y) => Tracked(y)'
<1>1. /\ input' = input /\ pc'[y] = pc[y] /\ results'[y] = results[y]
      /\ awaiting'[y] = awaiting[y] /\ CallsOf(y)' = CallsOf(y)
  BY DEF Only
<1>2. \A c \in CallsOf(y) : Awaited(c)' = Awaited(c) /\ NewId(c)' = NewId(c)
  BY <1>1 DEF CallsOf, Awaited, NewId, OrderOf
<1>3. Quiet(y) => Quiet(y)'
  BY <1>1, <1>2 DEF Quiet, Received
<1>4. OwnOrder(y) => store'[input[y].order] = store[input[y].order]
  BY DEF OwnOrder, SharesOrder, Only
<1>5. ASSUME OwnOrder(y), Tracked(y) PROVE Tracked(y)'
  BY <1>1, <1>2, <1>4, <1>5 DEF Tracked, InProgress, RecordedStepsAreKept
<1> QED
  BY <1>3, <1>5

\* An execution that has no invocation running, in its state or the one its
\* Catch leads to.
LEMMA EndedKeepsItem ==
  ASSUME NEW x \in Execs, input' = input, results'[x] = results[x], SameItem(x),
         CallsOf(x)' = {},
         pc'[x] = pc[x] \/ (pc[x] \in TaskStates /\ pc'[x] = CatchState[pc[x]])
  PROVE  /\ Quiet(x)'
         /\ Tracked(x) => Tracked(x)'
<1>1. Quiet(x)'
  BY DEF Quiet
<1>2. ASSUME Tracked(x) PROVE Tracked(x)'
  <2>1. RecordedStepsAreKept(x)'
    BY <1>2 DEF Tracked, RecordedStepsAreKept, SameItem
  <2>2. InProgress(x)' <=> InProgress(x)
    BY DEF InProgress, SameItem
  <2>3. CASE pc'[x] = pc[x]
    BY <1>2, <2>1, <2>2, <2>3 DEF Tracked, SameItem
  <2>4. CASE pc[x] \in TaskStates /\ pc'[x] = CatchState[pc[x]]
    <3>1. /\ pc'[x] \in {"ChargePayment", "ReserveInventory", "ScheduleShipment", "CompensationFailed"}
                          \cup CompensationStates
            => pc[x] \in {"ChargePayment", "ReserveInventory", "ScheduleShipment", "CompensationFailed"}
                           \cup CompensationStates
          /\ pc'[x] \notin {"SagaSucceeded", "SagaFailed"}
      BY <2>4 DEF CatchState, TaskStates, ForwardStates, CompensationStates
    <3> QED
      BY <1>2, <2>1, <2>2, <3>1 DEF Tracked
  <2> QED
    BY <2>3, <2>4
<1> QED
  BY <1>1, <1>2

\* An execution that waits for nothing and is not timed out has none running.
LEMMA NoneRunning ==
  ASSUME TypeInv, NEW x \in Execs, Quiet(x), awaiting[x] = 0, pc[x] # "ExecutionTimedOut"
  PROVE  CallsOf(x) = {}
<1> SUFFICES ASSUME NEW c \in CallsOf(x) PROVE FALSE
  OBVIOUS
<1>1. c \in calls /\ c.of = x
  BY DEF CallsOf
<1>2. c.no # 0 /\ Awaited(c)
  BY <1>1, TypeUnfold DEF Quiet, CallsOK
<1> QED
  BY <1>1, <1>2 DEF Awaited

\* The end of the one invocation it has leaves it with none.
LEMMA LastEnds ==
  ASSUME NEW x \in Execs, Quiet(x), NEW c \in CallsOf(x), calls' = calls \ {c}
  PROVE  CallsOf(x)' = {}
BY DEF Quiet, CallsOf

\* An invocation that ends with an error, by itself or by a crash.
LEMMA RaiseKeepsItem ==
  ASSUME TypeInv, NEW x \in Execs, Quiet(x), NEW c \in CallsOf(x), NEW e, Raise(c, e),
         input' = input, results' = results, SameItem(x)
  PROVE  /\ Quiet(x)'
         /\ Tracked(x) => Tracked(x)'
<1>1. c \in calls /\ c.of = x
  BY DEF CallsOf
<1>2. /\ calls' = calls \ {c}
      /\ Awaited(c) => /\ pc[x] = c.fn
                       /\ pc'[x] = pc[x] \/ pc'[x] = CatchState[pc[x]]
      /\ ~ Awaited(c) => pc' = pc
  BY <1>1, RaiseEnds
<1>3. c.fn \in TaskStates
  BY <1>1, TypeUnfold DEF Calls
<1>4. CallsOf(x)' = {}
  BY <1>2, LastEnds
<1>5. pc'[x] = pc[x] \/ (pc[x] \in TaskStates /\ pc'[x] = CatchState[pc[x]])
  BY <1>2, <1>3
<1> QED
  BY <1>4, <1>5, EndedKeepsItem

\* One that goes on is still the only one.
LEMMA ContinueQuiet ==
  ASSUME TypeInv, NEW x \in Execs, Quiet(x), NEW c \in CallsOf(x), NEW op, Continue(c, op),
         input' = input, results' = results
  PROVE  /\ Quiet(x)' /\ pc' = pc
         /\ \A d \in CallsOf(x)' : /\ d.fn = c.fn /\ d.at = op /\ NewId(d)' = NewId(c)
<1>1. c \in calls /\ c.of = x
  BY DEF CallsOf
<1>2. PICK d : /\ d.of = c.of /\ d.no = c.no /\ d.fn = c.fn /\ d.at = op
               /\ calls' = (calls \ {c}) \cup {d}
               /\ pc' = pc /\ awaiting' = awaiting
  BY <1>1, ContinueCalls
<1>3. CallsOf(x)' = {d}
  BY <1>1, <1>2 DEF CallsOf, Quiet
<1>4. Awaited(d)' <=> Awaited(c)
  BY <1>1, <1>2 DEF Awaited
<1>5. Quiet(x)'
  BY <1>2, <1>3, <1>4 DEF Quiet, Received
<1>6. NewId(d)' = NewId(c)
  BY <1>1, <1>2 DEF NewId, OrderOf
<1> QED
  BY <1>2, <1>3, <1>5, <1>6

\* The next lemmas take the calls of the handlers one by one.
LEMMA StartKeepsItem ==
  ASSUME TypeInv, NEW x \in Execs, Quiet(x), NEW c \in CallsOf(x), Start(c)
  PROVE  /\ Quiet(x)'
         /\ Tracked(x) => Tracked(x)'
<1>1. c \in calls /\ c.of = x /\ c.fn \in TaskStates
  BY TypeUnfold DEF CallsOf, Calls
<1>2. /\ c.at = "start" /\ OrderOf(c) \in Orders /\ OrderOf(c) = input[x].order
      /\ Continue(c, "inject") /\ input' = input /\ results' = results
  BY <1>1, OrderKnown DEF Start, At, OrderOf
<1>3. store'[input[x].order].status = "STARTED"
  BY <1>2, TypeUnfold DEF Start, NoItem
<1>4. c.fn = "CreateOrder"
  BY <1>1, <1>2, TypeUnfold
  DEF CallsOK, OpsOf, TaskStates, ForwardStates, CompensationStates
<1>5. /\ Quiet(x)' /\ pc' = pc
      /\ \A d \in CallsOf(x)' : d.fn = c.fn /\ d.at = "inject"
  BY <1>2, ContinueQuiet
<1>6. \A s \in ForwardStates : results'[x][s] = NoId
  BY <1>2, <1>4 DEF Quiet, Received
<1>7. pc[x] \in {"CreateOrder", "ExecutionTimedOut"}
  BY <1>1, <1>4, TypeUnfold DEF Quiet, CallsOK
<1>8. Tracked(x)'
  BY <1>2, <1>3, <1>5, <1>6, <1>7 DEF Tracked, InProgress, RecordedStepsAreKept,
     CompensationStates
<1> QED
  BY <1>5, <1>8

LEMMA InjectKeepsItem ==
  ASSUME TypeInv, NEW x \in Execs, Quiet(x), NEW c \in CallsOf(x), Inject(c)
  PROVE  /\ Quiet(x)'
         /\ Tracked(x) => Tracked(x)'
<1>1. c \in calls /\ c.of = x
  BY DEF CallsOf
<1>2. /\ c.at = "inject" /\ OrderOf(c) \in Orders /\ OrderOf(c) = input[x].order
      /\ input' = input /\ results' = results
  BY <1>1, OrderKnown DEF Inject, At, OrderOf
<1>3. SameItem(x)
  <2>1. \/ store' = store
        \/ \E n : store' = [store EXCEPT ![OrderOf(c)].attempts[c.fn] = n]
    BY DEF Inject
  <2>2. store[OrderOf(c)] \in Items /\ store \in [Orders -> Items]
    BY <1>2, TypeUnfold
  <2>3. ASSUME NEW n, store' = [store EXCEPT ![OrderOf(c)].attempts[c.fn] = n]
        PROVE  SameItem(x)
    BY <1>2, <2>2, <2>3 DEF Items, SameItem
  <2> QED
    BY <2>1, <2>3 DEF SameItem
<1>4. CASE Continue(c, "write")
  <2>1. /\ Quiet(x)' /\ pc' = pc
        /\ \A d \in CallsOf(x)' : d.fn = c.fn /\ d.at = "write"
    BY <1>2, <1>4, ContinueQuiet
  <2>2. Tracked(x) => Tracked(x)'
    BY <1>2, <1>3, <2>1 DEF Tracked, InProgress, RecordedStepsAreKept, SameItem
  <2> QED
    BY <2>1, <2>2
<1>5. ASSUME NEW e, Raise(c, e)
      PROVE  /\ Quiet(x)'
             /\ Tracked(x) => Tracked(x)'
  BY <1>2, <1>3, <1>5, RaiseKeepsItem
<1> QED
  BY <1>4, <1>5 DEF Inject

LEMMA WriteKeepsItem ==
  ASSUME TypeInv, RecordsExist, NEW x \in Execs, Quiet(x), NEW c \in CallsOf(x), Write(c)
  PROVE  /\ Quiet(x)'
         /\ Tracked(x) => Tracked(x)'
<1>1. c \in calls /\ c.of = x /\ c.fn \in TaskStates
  BY TypeUnfold DEF CallsOf, Calls
<1>2. /\ c.at = "write" /\ OrderOf(c) \in Orders /\ OrderOf(c) = input[x].order
      /\ input' = input /\ results' = results
  BY <1>1, OrderKnown DEF Write, At, OrderOf
<1>3. CASE store[OrderOf(c)].mapped
  <2>1. /\ store' = [store EXCEPT ![OrderOf(c)].steps[c.fn] = EntryOf(c)]
        /\ Continue(c, "reply")
    BY <1>3 DEF Write
  <2>2. c.fn \in Recorders
    BY <1>1, <1>2, TypeUnfold DEF CallsOK, OpsOf, TaskStates, Recorders
  <2>3. store[OrderOf(c)] \in Items
    BY <1>2, TypeUnfold
  <2>4. /\ store'[OrderOf(c)].status = store[OrderOf(c)].status
        /\ store'[OrderOf(c)].steps[c.fn] = EntryOf(c)
        /\ \A s \in Recorders \ {c.fn} :
             store'[OrderOf(c)].steps[s] = store[OrderOf(c)].steps[s]
    BY <1>2, <2>1, <2>2, <2>3, TypeUnfold DEF Items
  <2>5. /\ Quiet(x)' /\ pc' = pc
        /\ \A d \in CallsOf(x)' : d.fn = c.fn /\ d.at = "reply" /\ NewId(d)' = NewId(c)
    BY <1>2, <2>1, ContinueQuiet
  <2>6. ASSUME Tracked(x) PROVE Tracked(x)'
    <3>1. \A s \in ForwardStates : results[x][s] # NoId => s # c.fn /\ s \in Recorders
      BY DEF Quiet, Received, Recorders
    <3>2. RecordedStepsAreKept(x)'
      BY <1>2, <2>4, <2>6, <3>1 DEF Tracked, RecordedStepsAreKept
    <3>3. InProgress(x)' <=> InProgress(x)
      BY <1>2, <2>4 DEF InProgress
    <3>4. c.fn \in ForwardStates => EntryOf(c) = Done(NewId(c))
      BY DEF EntryOf
    <3>5. c.fn \notin {"CompleteSaga", "MarkFailed"}
      BY <2>2 DEF Recorders, ForwardStates, CompensationStates
    <3>6. \A d \in CallsOf(x)' :
            /\ d.fn = "CreateOrder" /\ d.at # "start" => InProgress(x)'
            /\ d.at = "reply" =>
                 /\ d.fn \in ForwardStates =>
                      store'[input'[x].order].steps[d.fn] = Done(NewId(d)')
                 /\ d.fn = "CompleteSaga" => store'[input'[x].order].status = "COMPLETED"
                 /\ d.fn = "MarkFailed" => store'[input'[x].order].status = "FAILED"
      BY <1>2, <2>4, <2>5, <2>6, <3>3, <3>4, <3>5 DEF Tracked
    <3> QED
      BY <1>2, <2>4, <2>5, <2>6, <3>2, <3>3, <3>6 DEF Tracked, Done
  <2> QED
    BY <2>5, <2>6
<1>4. CASE ~ store[OrderOf(c)].mapped
  BY <1>2, <1>4, RaiseKeepsItem DEF Write, SameItem
<1> QED
  BY <1>3, <1>4

LEMMA SetStatusKeepsItem ==
  ASSUME TypeInv, NEW x \in Execs, Quiet(x), NEW c \in CallsOf(x), SetStatus(c)
  PROVE  /\ Quiet(x)'
         /\ Tracked(x) => Tracked(x)'
<1>1. c \in calls /\ c.of = x /\ c.fn \in TaskStates
  BY TypeUnfold DEF CallsOf, Calls
<1> DEFINE op == IF c.fn \in CompensationStates THEN "write" ELSE "reply"
<1>2. /\ c.at = "status" /\ OrderOf(c) \in Orders /\ OrderOf(c) = input[x].order
      /\ Continue(c, op) /\ input' = input /\ results' = results
  BY <1>1, OrderKnown DEF SetStatus, At, OrderOf
<1>3. c.fn \in CompensationStates \cup {"CompleteSaga", "MarkFailed"}
  BY <1>1, <1>2, TypeUnfold DEF CallsOK, OpsOf, TaskStates, ForwardStates
<1>4. store'[input[x].order].status = NewStatus(c.fn)
      /\ store'[input[x].order].steps = store[input[x].order].steps
  BY <1>2, TypeUnfold DEF SetStatus, Items
<1>5. /\ Quiet(x)' /\ pc' = pc
      /\ \A d \in CallsOf(x)' : d.fn = c.fn /\ d.at = op
  BY <1>2, ContinueQuiet
<1>6. pc[x] \in {c.fn, "ExecutionTimedOut"}
  BY <1>1, TypeUnfold DEF Quiet, CallsOK
<1>7. ASSUME Tracked(x) PROVE Tracked(x)'
  <2>1. RecordedStepsAreKept(x)'
    BY <1>2, <1>4, <1>7 DEF Tracked, RecordedStepsAreKept
  <2>2. c.fn \in CompensationStates => InProgress(x)'
    BY <1>2, <1>4 DEF NewStatus, InProgress, CompensationStates
  <2>3. /\ c.fn = "CompleteSaga" => store'[input'[x].order].status = "COMPLETED"
        /\ c.fn = "MarkFailed" => store'[input'[x].order].status = "FAILED"
    BY <1>2, <1>4 DEF NewStatus
  <2>4. c.fn \notin ForwardStates
    BY <1>3 DEF ForwardStates, CompensationStates
  <2> QED
    BY <1>3, <1>5, <1>6, <2>1, <2>2, <2>3, <2>4
    DEF Tracked, ForwardStates, CompensationStates
<1> QED
  BY <1>5, <1>7

LEMMA ReplyKeepsItem ==
  ASSUME TypeInv, NEW x \in Execs, Quiet(x), NEW c \in CallsOf(x), Reply(c)
  PROVE  /\ Quiet(x)'
         /\ Tracked(x) => Tracked(x)'
<1>1. c \in calls /\ c.of = x /\ c.fn \in TaskStates
  BY TypeUnfold DEF CallsOf, Calls
<1>2. /\ c.at = "reply" /\ ~ Rejects(c) /\ calls' = calls \ {c}
      /\ UNCHANGED <<input, store>>
  BY DEF Reply, At
<1>3. CallsOf(x)' = {}
  BY <1>2, LastEnds
<1>4. CASE ~ Awaited(c)
  BY <1>2, <1>3, <1>4, EndedKeepsItem DEF Reply, SameItem
<1>5. CASE Awaited(c)
  <2>1. pc[x] = c.fn
    BY <1>1, <1>5, TypeUnfold DEF CallsOK
  <2>2. /\ pc'[x] = NextState[c.fn]
        /\ results' = IF c.fn \in ForwardStates
                        THEN [results EXCEPT ![x][c.fn] = NewId(c)] ELSE results
    BY <1>1, <1>5, <2>1, TypeUnfold DEF Reply, Enter, ControlOK
  <2>3. Quiet(x)'
    BY <1>3 DEF Quiet
  <2>4. ASSUME Tracked(x) PROVE Tracked(x)'
    <3>1. RecordedStepsAreKept(x)'
      <4>1. \A s \in ForwardStates :
              results'[x][s] = IF s = c.fn THEN NewId(c) ELSE results[x][s]
        BY <2>2, TypeUnfold
      <4>2. c.fn \in ForwardStates => store[input[x].order].steps[c.fn] = Done(NewId(c))
        BY <1>2, <2>4 DEF Tracked
      <4> QED
        BY <1>2, <2>4, <4>1, <4>2 DEF Tracked, RecordedStepsAreKept
    <3>2. InProgress(x)' <=> InProgress(x)
      BY <1>2 DEF InProgress
    <3>3. pc'[x] \in {"ChargePayment", "ReserveInventory", "ScheduleShipment", "CompensationFailed"}
                       \cup CompensationStates => InProgress(x)'
      <4>1. CASE c.fn = "CreateOrder"
        BY <1>2, <2>4, <3>2, <4>1 DEF Tracked
      <4>2. CASE c.fn # "CreateOrder"
        BY <1>1, <2>1, <2>2, <2>4, <3>2, <4>2
        DEF Tracked, NextState, TaskStates, ForwardStates, CompensationStates
      <4> QED
        BY <4>1, <4>2
    <3>4. /\ pc'[x] = "SagaSucceeded" => c.fn = "CompleteSaga"
          /\ pc'[x] = "SagaFailed" => c.fn = "MarkFailed"
      BY <1>1, <2>2 DEF NextState, TaskStates, ForwardStates, CompensationStates
    <3> QED
      BY <1>2, <1>3, <2>4, <3>1, <3>3, <3>4 DEF Tracked
  <2> QED
    BY <2>3, <2>4
<1> QED
  BY <1>4, <1>5

\* What an execution does itself.
LEMMA AdvanceKeepsItem ==
  ASSUME TypeInv, Progress, NEW x \in Execs, Quiet(x), Advance(x)
  PROVE  /\ Quiet(x)'
         /\ Tracked(x) => Tracked(x)'
<1>0. ControlOK /\ CallsOK /\ calls \subseteq Calls
      /\ results \in [Execs -> [ForwardStates -> Ids]] /\ invoked \in [Execs -> Nat]
  BY TypeUnfold
<1>1. CASE InitializeSaga(x)
  <2>1. /\ pc[x] = "InitializeSaga" /\ pc'[x] = "CreateOrder"
        /\ UNCHANGED <<input, calls, store>>
        /\ results' = [results EXCEPT ![x] = [s \in ForwardStates |-> NoId]]
    BY <1>0, <1>1, EnterEnds DEF InitializeSaga
  <2>2. awaiting[x] = 0
    BY <1>0, <2>1 DEF CallsOK, TaskStates, ForwardStates, CompensationStates
  <2>3. CallsOf(x)' = {}
    BY <2>1, <2>2, NoneRunning DEF CallsOf
  <2>4. \A s \in ForwardStates : results'[x][s] = NoId
    BY <1>0, <2>1
  <2> QED
    BY <2>1, <2>3, <2>4
    DEF Quiet, Tracked, RecordedStepsAreKept, CompensationStates
<1>2. CASE Invoke(x)
  <2>0. PICK c : c = [of |-> x, no |-> invoked[x] + 1, fn |-> pc[x], at |-> FirstOp(pc[x])]
    OBVIOUS
  <2>1. /\ pc[x] \in TaskStates /\ awaiting[x] = 0
        /\ UNCHANGED <<input, pc, results, store>>
        /\ calls' = calls \cup {c} /\ awaiting' = [awaiting EXCEPT ![x] = invoked[x] + 1]
    BY <1>2, <2>0 DEF Invoke
  <2>2. c.of = x /\ c.no = invoked[x] + 1 /\ c.fn = pc[x] /\ c.at = FirstOp(pc[x])
    BY <2>0
  <2>3. pc[x] # "ExecutionTimedOut"
    BY <2>1 DEF TaskStates, ForwardStates, CompensationStates
  <2>4. CallsOf(x)' = {c}
    BY <2>1, <2>2, <2>3, NoneRunning DEF CallsOf
  <2>5. Awaited(c)'
    BY <1>0, <2>1, <2>2 DEF Awaited, ControlOK
  <2>6. /\ c.fn \in ForwardStates => ~ Received(x, c.fn)
        /\ c.fn = "CreateOrder" => \A s \in ForwardStates : ~ Received(x, s)
    BY <2>2 DEF Progress, PrecedingSteps, ForwardStates
  <2>7. c.at # "reply" /\ (c.fn = "CreateOrder" => c.at = "start")
    BY <2>2 DEF FirstOp
  <2>8. Quiet(x)'
    BY <2>1, <2>4, <2>5, <2>6 DEF Quiet, Received
  <2>9. Tracked(x) => Tracked(x)'
    BY <2>1, <2>4, <2>7 DEF Tracked, InProgress, RecordedStepsAreKept
  <2> QED
    BY <2>8, <2>9
<1> QED
  BY <1>1, <1>2 DEF Advance

LEMMA DisturbKeepsItem ==
  ASSUME TypeInv, NEW x \in Execs, Quiet(x), Disturb(x), ~ Orphaned'
  PROVE  /\ Quiet(x)'
         /\ Tracked(x) => Tracked(x)'
<1>0. ControlOK /\ CallsOK /\ faults \in [FaultKinds -> Nat]
  BY TypeUnfold
<1>1. UNCHANGED <<input, results, calls, store>>
  BY DEF Disturb, Throttle, Lose, TaskTimeout, Expire
<1>2. ~ (Lose(x) \/ TaskTimeout(x))
  <2>1. \A k \in FaultKinds : Fault(k) => faults'[k] > 0
    BY <1>0, FaultsGrow
  <2> QED
    BY <2>1 DEF Lose, TaskTimeout, Orphaned, FaultKinds
<1>3. CASE Throttle(x)
  <2>1. pc[x] \in TaskStates /\ awaiting[x] = 0 /\ OnError(x, "service")
    BY <1>3 DEF Throttle
  <2>2. CallsOf(x)' = {}
    BY <1>1, <2>1, NoneRunning DEF CallsOf, TaskStates, ForwardStates, CompensationStates
  <2>3. pc'[x] = pc[x] \/ pc'[x] = CatchState[pc[x]]
    BY <1>0, <2>1, ErrorEnds
  <2> QED
    BY <1>1, <2>1, <2>2, <2>3, EndedKeepsItem DEF SameItem
<1>4. CASE Expire(x)
  <2>1. pc'[x] = "ExecutionTimedOut"
    BY <1>0, <1>4, EnterEnds DEF Expire
  <2>2. CallsOf(x)' = CallsOf(x) /\ \A c : NewId(c)' = NewId(c)
    BY <1>1 DEF CallsOf, NewId, OrderOf
  <2>3. Quiet(x)'
    BY <1>1, <2>1, <2>2 DEF Quiet, Received
  <2>4. Tracked(x) => Tracked(x)'
    BY <1>1, <2>1, <2>2 DEF Tracked, InProgress, RecordedStepsAreKept, CompensationStates
  <2> QED
    BY <2>3, <2>4
<1> QED
  BY <1>2, <1>3, <1>4 DEF Disturb

LEMMA StepKeepsItem ==
  ASSUME TypeInv, IInv, NEW x \in Execs, Quiet(x), StepOf(x), ~ Orphaned'
  PROVE  /\ Quiet(x)'
         /\ Tracked(x) => Tracked(x)'
<1>1. CASE Advance(x)
  BY <1>1, AdvanceKeepsItem DEF IInv
<1>2. CASE Disturb(x)
  BY <1>2, DisturbKeepsItem
<1>3. ASSUME NEW c \in CallsOf(x), Run(c) \/ Crash(c)
      PROVE  /\ Quiet(x)'
             /\ Tracked(x) => Tracked(x)'
  <2>1. CASE Reject(c) \/ Crash(c)
    BY <2>1, RaiseKeepsItem DEF Reject, Crash, SameItem
  <2>2. CASE Start(c)
    BY <2>2, StartKeepsItem
  <2>3. CASE Inject(c)
    BY <2>3, InjectKeepsItem
  <2>4. CASE Write(c)
    BY <2>4, WriteKeepsItem DEF IInv
  <2>5. CASE SetStatus(c)
    BY <2>5, SetStatusKeepsItem
  <2>6. CASE Reply(c)
    BY <2>6, ReplyKeepsItem
  <2> QED
    BY <1>3, <2>1, <2>2, <2>3, <2>4, <2>5, <2>6 DEF Run
<1> QED
  BY <1>1, <1>2, <1>3 DEF StepOf

LEMMA ItemStep == TypeInv /\ IInv /\ ItemInv /\ [Next]_vars => ItemInv'
<1> SUFFICES ASSUME TypeInv, IInv, ItemInv, [Next]_vars, ~ Orphaned'
             PROVE  \A y \in Execs : Quiet(y)' /\ (OwnOrder(y)' => Tracked(y)')
  BY DEF ItemInv
<1>1. CASE Next
  <2>1. PICK x \in Execs : StepOf(x) /\ Only(x)
    BY <1>1, OneExecution
  <2>2. ~ Orphaned
    <3>1. /\ "lost" \in FaultKinds /\ "timeout" \in FaultKinds
          /\ faults \in [FaultKinds -> Nat]
      BY TypeUnfold DEF FaultKinds
    <3>2. faults["lost"] <= faults'["lost"] /\ faults["timeout"] <= faults'["timeout"]
      BY <2>1, <3>1 DEF Only
    <3>3. faults' \in [FaultKinds -> Nat]
      BY TypeStep, TypeUnfold DEF TypeInv, TypeOK
    <3> QED
      BY <3>1, <3>2, <3>3 DEF Orphaned
  <2>3. \A y \in Execs : OwnOrder(y)' => OwnOrder(y)
    BY <2>1 DEF Only, OwnOrder, SharesOrder
  <2>4. \A y \in Execs : Quiet(y) /\ (OwnOrder(y) => Tracked(y))
    BY <2>2 DEF ItemInv
  <2>5. Quiet(x)' /\ (Tracked(x) => Tracked(x)')
    BY <2>1, <2>4, StepKeepsItem
  <2>6. \A y \in Execs \ {x} : Quiet(y)' /\ (OwnOrder(y) => Tracked(y)')
    BY <2>1, <2>4, OthersKeepItem
  <2> QED
    BY <2>3, <2>4, <2>5, <2>6
<1>2. CASE UNCHANGED vars
  <2>1. /\ UNCHANGED <<input, pc, results, awaiting, calls, store, faults>>
        /\ ~ Orphaned
    BY <1>2 DEF vars, Orphaned
  <2>2. \A y \in Execs : /\ CallsOf(y)' = CallsOf(y)
                         /\ OwnOrder(y)' = OwnOrder(y)
                         /\ \A c \in CallsOf(y) : Awaited(c)' = Awaited(c) /\ NewId(c)' = NewId(c)
    BY <2>1 DEF CallsOf, OwnOrder, SharesOrder, Awaited, NewId, OrderOf
  <2>3. \A y \in Execs : Quiet(y)' /\ (OwnOrder(y) => Tracked(y))
    BY <2>1, <2>2 DEF ItemInv, Quiet, Received
  <2>4. \A y \in Execs : Tracked(y) => Tracked(y)'
    BY <2>1, <2>2 DEF Tracked, InProgress, RecordedStepsAreKept
  <2> QED
    BY <2>2, <2>3, <2>4
<1> QED
  BY <1>1, <1>2

\* The item of an order follows its execution: the final status, and every step
\* received, as long as no response was lost, no Task timed out and no other
\* execution has the order.
THEOREM ItemFollows == Spec => []ItemFollowsExecution
<1>1. Init => ItemInv
  <2> SUFFICES ASSUME Init, NEW x \in Execs PROVE Quiet(x) /\ Tracked(x)
    BY DEF ItemInv
  <2>1. CallsOf(x) = {} /\ pc[x] = "InitializeSaga"
        /\ \A s \in ForwardStates : results[x][s] = NoId
    BY DEF Init, CallsOf
  <2> QED
    BY <2>1 DEF Quiet, Tracked, RecordedStepsAreKept, CompensationStates
<1>2. ItemInv => ItemFollowsExecution
  <2> SUFFICES ASSUME ItemInv, NEW x \in Execs, OwnOrder(x), ~ Orphaned
               PROVE  FinalStatus(x) /\ RecordedStepsAreKept(x)
    BY DEF ItemFollowsExecution, OwnOrder
  <2>1. Tracked(x)
    BY DEF ItemInv
  <2> QED
    BY <2>1 DEF Tracked, FinalStatus, InProgress
<1> QED
  BY <1>1, <1>2, ItemStep, Invariance, PTL DEF Spec

-----------------------------------------------------------------------------
(* The charges.                                                            *)

LEMMA ChargesFinite ==
  ASSUME TypeInv, NEW x \in Execs
  PROVE  IsFiniteSet(Charges(x)) /\ Cardinality(Charges(x)) \in Nat
<1>1. invoked[x] \in Int /\ 1 \in Int
  BY TypeUnfold
<1>2. IsFiniteSet(1 .. invoked[x])
  BY <1>1, FS_Interval
<1>3. Charges(x) \in SUBSET (1 .. invoked[x])
  BY DEF Charges
<1> QED
  BY <1>2, <1>3, FS_Subset, FS_CardinalityType

LEMMA BlameType ==
  ASSUME TypeInv
  PROVE  Blame \in Nat
BY TypeUnfold DEF Blame, FaultKinds

LEMMA BlameGrows ==
  ASSUME TypeInv, TypeInv', \A k \in FaultKinds : faults[k] <= faults'[k]
  PROVE  /\ Blame <= Blame'
         /\ \A k \in {"crash", "lost", "timeout"} :
              faults'[k] = faults[k] + 1 => Blame + 1 <= Blame'
<1>1. /\ \A k \in FaultKinds : faults[k] \in Nat /\ faults'[k] \in Nat
      /\ {"crash", "lost", "timeout"} \subseteq FaultKinds
  BY DEF TypeInv, TypeOK, FaultKinds
<1>2. PICK a, b, c : a = faults["crash"] /\ b = faults["lost"] /\ c = faults["timeout"]
  OBVIOUS
<1>3. PICK d, e, f : d = faults'["crash"] /\ e = faults'["lost"] /\ f = faults'["timeout"]
  OBVIOUS
<1>4. /\ a \in Nat /\ b \in Nat /\ c \in Nat /\ d \in Nat /\ e \in Nat /\ f \in Nat
      /\ a <= d /\ b <= e /\ c <= f
  BY <1>1, <1>2, <1>3
<1>5. Blame = a + b + c /\ Blame' = d + e + f
  BY <1>2, <1>3 DEF Blame
<1>6. a + b + c <= d + e + f
  BY <1>4
<1>7. ASSUME NEW k \in {"crash", "lost", "timeout"}, faults'[k] = faults[k] + 1
      PROVE  a + b + c + 1 <= d + e + f
  <2>1. d = a + 1 \/ e = b + 1 \/ f = c + 1
    BY <1>2, <1>3, <1>7
  <2> QED
    BY <1>4, <2>1
<1> QED
  BY <1>5, <1>6, <1>7

\* No charge is added, and none loses its cover but by a fault that covers it.
LEMMA NoMoreCharges ==
  ASSUME TypeInv, TypeInv', NEW x \in Execs, Accounted(x),
         pc[x] = "ExecutionTimedOut" => pc'[x] = "ExecutionTimedOut",
         Charges(x)' \subseteq Charges(x), Blame <= Blame',
         (Held(x) => Held(x)') \/ Blame + 1 <= Blame'
  PROVE  Accounted(x)'
<1>1. /\ Cardinality(Charges(x)) \in Nat /\ Cardinality(Charges(x)') \in Nat
      /\ Cardinality(Charges(x)') <= Cardinality(Charges(x))
  <2>1. IsFiniteSet(Charges(x)) /\ Cardinality(Charges(x)) \in Nat
    BY ChargesFinite
  <2>2. Charges(x)' \in SUBSET Charges(x)
    OBVIOUS
  <2> QED
    BY <2>1, <2>2, FS_Subset, FS_CardinalityType
<1>2. Blame \in Nat /\ Blame' \in Nat
  BY BlameType, BlameGrows DEF TypeInv, TypeOK, Blame, FaultKinds
<1> QED
  BY <1>1, <1>2 DEF Accounted

\* One is added, which a fault covers, or the execution now holds it.
LEMMA OneMoreCharge ==
  ASSUME TypeInv, TypeInv', NEW x \in Execs, Accounted(x), NEW n,
         pc[x] = "ExecutionTimedOut" => pc'[x] = "ExecutionTimedOut",
         Charges(x)' \subseteq Charges(x) \cup {n}, Blame <= Blame',
         \/ Blame + 1 <= Blame' /\ (Held(x) => Held(x)')
         \/ ~ Held(x) /\ Held(x)'
  PROVE  Accounted(x)'
<1>1. /\ Cardinality(Charges(x)) \in Nat /\ Cardinality(Charges(x)') \in Nat
      /\ Cardinality(Charges(x)') <= Cardinality(Charges(x)) + 1
  <2>1. IsFiniteSet(Charges(x)) /\ Cardinality(Charges(x)) \in Nat
    BY ChargesFinite
  <2>2. IsFiniteSet(Charges(x) \cup {n})
        /\ Cardinality(Charges(x) \cup {n}) <= Cardinality(Charges(x)) + 1
    BY <2>1, FS_AddElement
  <2>3. Charges(x)' \in SUBSET (Charges(x) \cup {n})
    OBVIOUS
  <2>4. IsFiniteSet(Charges(x)') /\ Cardinality(Charges(x)') <= Cardinality(Charges(x) \cup {n})
    BY <2>2, <2>3, FS_Subset
  <2> QED
    BY <2>1, <2>2, <2>4, FS_CardinalityType
<1>2. Blame \in Nat /\ Blame' \in Nat
  BY BlameType, BlameGrows DEF TypeInv, TypeOK, Blame, FaultKinds
<1> QED
  BY <1>1, <1>2 DEF Accounted

\* Nobody else's step adds a charge to an execution.
LEMMA OthersKeepCharges ==
  ASSUME TypeInv, TypeInv', NEW x \in Execs, Only(x), NEW y \in Execs \ {x},
         ChargesTold(y), Accounted(y)
  PROVE  ChargesTold(y)' /\ Accounted(y)'
<1>1. /\ pc'[y] = pc[y] /\ results'[y] = results[y] /\ awaiting'[y] = awaiting[y]
      /\ invoked'[y] = invoked[y] /\ CallsOf(y)' = CallsOf(y)
      /\ \A h : h.of = y => (h \in history' <=> h \in history)
  BY DEF Only
<1>2. \A c \in CallsOf(y) : Awaited(c)' = Awaited(c)
  BY <1>1 DEF CallsOf, Awaited
<1>3. \A n : Captured(y, n)' <=> Captured(y, n)
  BY <1>1 DEF Captured
<1>4. \A n : Pending(y, n)' <=> Pending(y, n)
  BY <1>1, <1>2 DEF Pending
<1>5. Charges(y)' = Charges(y)
  BY <1>1, <1>3, <1>4 DEF Charges
<1>6. Held(y)' <=> Held(y)
  BY <1>1, <1>2 DEF Held, Received
<1>7. ChargesTold(y)'
  BY <1>1, <1>3 DEF ChargesTold
<1>8. Blame <= Blame'
  BY BlameGrows DEF Only
<1> QED
  BY <1>1, <1>5, <1>6, <1>7, <1>8, NoMoreCharges

\* An execution that timed out stays so.
LEMMA TimedOutStays ==
  ASSUME ExecStep, NEW x \in Execs, pc[x] = "ExecutionTimedOut"
  PROVE  pc'[x] = "ExecutionTimedOut"
BY DEF ExecStep, Stays, Begins, Caught, TimesOut, Replied, TaskStates, ForwardStates,
   CompensationStates

\* Of the invocations of x, the one it waits for is told by its number.
LEMMA OneAwaited ==
  ASSUME NEW x \in Execs, ChargesTold(x), NEW c \in CallsOf(x), NEW d \in CallsOf(x),
         Awaited(c), Awaited(d)
  PROVE  c = d
BY DEF ChargesTold, CallsOf, Awaited

\* The end of an invocation adds no charge.
LEMMA EndKeepsCharges ==
  ASSUME TypeInv, NEW x \in Execs, ChargesTold(x), NEW c \in CallsOf(x),
         calls' = calls \ {c}, UNCHANGED <<invoked, history>>,
         Awaited(c) => awaiting'[x] = 0,
         ~ Awaited(c) => awaiting'[x] = awaiting[x]
  PROVE  /\ ChargesTold(x)' /\ Charges(x)' \subseteq Charges(x)
         /\ Held(x) =>
              \/ Received(x, "ChargePayment")
              \/ Awaited(c) /\ c.fn = "ChargePayment" /\ c.at = "reply"
              \/ Held(x)'
<1>1. CallsOf(x)' = CallsOf(x) \ {c} /\ c \in calls /\ c.of = x
  BY DEF CallsOf
<1>2. \A n : Captured(x, n)' <=> Captured(x, n)
  BY DEF Captured
<1>3. ChargesTold(x)'
  BY <1>1, <1>2 DEF ChargesTold
<1>4. \A d \in CallsOf(x)' : ~ Awaited(d)
        \/ (~ Awaited(c) /\ Awaited(d)')
  BY <1>1, OneAwaited DEF CallsOf, Awaited
<1>5. \A n : Pending(x, n)' => Pending(x, n)
  BY <1>1, <1>4 DEF Pending
<1>6. Charges(x)' \subseteq Charges(x)
  BY <1>2, <1>5 DEF Charges
<1>7. ASSUME NEW d \in CallsOf(x), Awaited(d), d.fn = "ChargePayment", d.at = "reply"
      PROVE  \/ Awaited(c) /\ c.fn = "ChargePayment" /\ c.at = "reply"
             \/ Held(x)'
  <2>1. CASE Awaited(c)
    BY <1>7, <2>1, OneAwaited
  <2>2. CASE ~ Awaited(c)
    BY <1>1, <1>4, <1>7, <2>2 DEF Held
  <2> QED
    BY <2>1, <2>2
<1> QED
  BY <1>3, <1>6, <1>7 DEF Held

LEMMA RaiseKeepsCharges ==
  ASSUME TypeInv, TypeInv', ExecStep, NEW x \in Execs, ChargesTold(x), Accounted(x),
         NEW c \in CallsOf(x), NEW e, Raise(c, e),
         UNCHANGED <<results, invoked, history>>, Blame <= Blame',
         c.at # "reply" \/ Blame + 1 <= Blame'
  PROVE  ChargesTold(x)' /\ Accounted(x)'
<1>1. c \in calls /\ c.of = x
  BY DEF CallsOf
<1>2. /\ calls' = calls \ {c}
      /\ Awaited(c) => awaiting'[x] = 0
      /\ ~ Awaited(c) => awaiting'[x] = awaiting[x]
  BY <1>1, RaiseEnds
<1>3. /\ ChargesTold(x)' /\ Charges(x)' \subseteq Charges(x)
      /\ Held(x) => \/ Received(x, "ChargePayment")
                    \/ c.at = "reply"
                    \/ Held(x)'
  BY <1>2, EndKeepsCharges
<1>4. Received(x, "ChargePayment") => Held(x)'
  BY DEF Received, Held
<1> QED
  BY <1>3, <1>4, TimedOutStays, NoMoreCharges

LEMMA ContinueKeepsCharges ==
  ASSUME TypeInv, TypeInv', ExecStep, NEW x \in Execs, ChargesTold(x), Accounted(x),
         NEW c \in CallsOf(x), NEW op, Continue(c, op), c.at # "reply",
         c.fn = "ChargePayment" => op # "reply",
         UNCHANGED <<results, invoked, history>>, Blame <= Blame'
  PROVE  ChargesTold(x)' /\ Accounted(x)'
<1>1. c \in calls /\ c.of = x
  BY DEF CallsOf
<1>2. PICK d : /\ d.of = c.of /\ d.no = c.no /\ d.fn = c.fn /\ d.at = op
               /\ calls' = (calls \ {c}) \cup {d}
               /\ pc' = pc /\ awaiting' = awaiting
  BY <1>1, ContinueCalls
<1>3. CallsOf(x)' = (CallsOf(x) \ {c}) \cup {d}
  BY <1>1, <1>2 DEF CallsOf
<1>4. \A n : Captured(x, n)' <=> Captured(x, n)
  BY DEF Captured
<1>5. ChargesTold(x)'
  BY <1>2, <1>3, <1>4 DEF ChargesTold
<1>6. \A b : Awaited(b)' <=> Awaited(b)
  BY <1>2 DEF Awaited
<1>7. Awaited(d) <=> Awaited(c)
  BY <1>2 DEF Awaited
<1>8. \A n : Pending(x, n)' => Pending(x, n)
  BY <1>2, <1>3, <1>6, <1>7 DEF Pending
<1>9. Charges(x)' \subseteq Charges(x)
  BY <1>4, <1>8 DEF Charges
<1>10. Held(x) => Held(x)'
  BY <1>3, <1>6 DEF Held, Received
<1> QED
  BY <1>5, <1>9, <1>10, TimedOutStays, NoMoreCharges

\* The capture itself: awaited, the execution is about to hold it; late, it was
\* accounted for when it was left.
LEMMA WriteKeepsCharges ==
  ASSUME TypeInv, TypeInv', Progress, ExecStep, NEW x \in Execs, ChargesTold(x), Accounted(x),
         NEW c \in CallsOf(x), Write(c), Blame <= Blame'
  PROVE  ChargesTold(x)' /\ Accounted(x)'
<1>1. /\ c \in calls /\ c.of = x /\ c.at = "write"
      /\ c.no \in 1 .. invoked[x] /\ UNCHANGED <<results, invoked>>
  BY TypeUnfold DEF CallsOf, Write, At, Calls, CallsOK
<1>2. CASE ~ store[OrderOf(c)].mapped
  BY <1>1, <1>2, RaiseKeepsCharges DEF Write
<1>3. CASE store[OrderOf(c)].mapped
  <2>1. PICK h : h = [of |-> c.of, no |-> c.no, step |-> c.fn, entry |-> EntryOf(c)]
    OBVIOUS
  <2>2. /\ h.of = x /\ h.no = c.no /\ h.step = c.fn /\ h.entry = EntryOf(c)
        /\ history' = history \cup {h} /\ Continue(c, "reply")
    BY <1>1, <1>3, <2>1 DEF Write
  <2>3. PICK d : /\ d.of = c.of /\ d.no = c.no /\ d.fn = c.fn /\ d.at = "reply"
                 /\ calls' = (calls \ {c}) \cup {d}
                 /\ pc' = pc /\ awaiting' = awaiting
    BY <1>1, <2>2, ContinueCalls
  <2>4. CallsOf(x)' = (CallsOf(x) \ {c}) \cup {d}
    BY <1>1, <2>3 DEF CallsOf
  <2>5. \A n : Captured(x, n)' <=> Captured(x, n) \/ (c.fn = "ChargePayment" /\ n = c.no)
    BY <2>2 DEF Captured
  <2>6. c.fn = "ChargePayment" => h.entry = Done(<<x, h.no>>)
    BY <1>1, <2>2 DEF EntryOf, NewId, ForwardStates
  <2>7. ChargesTold(x)'
    BY <1>1, <2>2, <2>3, <2>4, <2>5, <2>6 DEF ChargesTold
  <2>8. /\ \A b : Awaited(b)' <=> Awaited(b)
        /\ Awaited(d) <=> Awaited(c)
    BY <2>3 DEF Awaited
  <2>9. \A n : Pending(x, n)' => Pending(x, n)
    BY <2>3, <2>4, <2>8 DEF Pending
  <2>10. Held(x) => Held(x)'
    BY <1>1, <2>4, <2>8 DEF Held, Received
  <2>11. CASE c.fn # "ChargePayment" \/ ~ Awaited(c)
    <3>1. c.fn = "ChargePayment" => Pending(x, c.no)
      BY <2>11 DEF Pending
    <3>2. Charges(x)' \subseteq Charges(x)
      BY <1>1, <2>5, <2>9, <3>1 DEF Charges
    <3> QED
      BY <2>7, <2>10, <3>2, TimedOutStays, NoMoreCharges
  <2>12. CASE c.fn = "ChargePayment" /\ Awaited(c)
    <3>1. Charges(x)' \subseteq Charges(x) \cup {c.no}
      BY <1>1, <2>5, <2>9 DEF Charges
    <3>2. Held(x)'
      BY <2>3, <2>4, <2>8, <2>12 DEF Held
    <3>3. ~ Held(x)
      <4>1. pc[x] = "ChargePayment"
        BY <1>1, <2>12, TypeUnfold DEF CallsOK
      <4>2. ~ Received(x, "ChargePayment")
        BY <4>1 DEF Progress, PrecedingSteps, ForwardStates
      <4> QED
        BY <1>1, <2>12, <4>2, OneAwaited DEF Held
    <3> QED
      BY <2>7, <3>1, <3>2, <3>3, TimedOutStays, OneMoreCharge
  <2> QED
    BY <2>11, <2>12
<1> QED
  BY <1>2, <1>3

LEMMA ReplyKeepsCharges ==
  ASSUME TypeInv, TypeInv', Progress, ExecStep, NEW x \in Execs, ChargesTold(x), Accounted(x),
         NEW c \in CallsOf(x), Reply(c), Blame <= Blame'
  PROVE  ChargesTold(x)' /\ Accounted(x)'
<1>1. /\ c \in calls /\ c.of = x /\ ~ Rejects(c) /\ calls' = calls \ {c}
      /\ UNCHANGED <<invoked, history>>
  BY DEF CallsOf, Reply, At
<1>2. /\ Awaited(c) => awaiting'[x] = 0
      /\ ~ Awaited(c) => awaiting'[x] = awaiting[x]
  BY <1>1, TypeUnfold DEF Reply, Enter, ControlOK
<1>3. /\ ChargesTold(x)' /\ Charges(x)' \subseteq Charges(x)
      /\ Held(x) =>
           \/ Received(x, "ChargePayment")
           \/ Awaited(c) /\ c.fn = "ChargePayment" /\ c.at = "reply"
           \/ Held(x)'
  BY <1>1, <1>2, EndKeepsCharges
<1>4. Received(x, "ChargePayment") => Held(x)'
  BY ResultsStay DEF Held, Received, ForwardStates
<1>5. ASSUME Awaited(c), c.fn = "ChargePayment" PROVE Held(x)'
  <2>1. results' = [results EXCEPT ![x]["ChargePayment"] = NewId(c)]
    BY <1>1, <1>5 DEF Reply, ForwardStates
  <2>2. NewId(c) # NoId
    BY <1>1, NewIdKnown
  <2>3. results'[x]["ChargePayment"] = NewId(c)
    BY <2>1, TypeUnfold DEF ForwardStates
  <2> QED
    BY <2>2, <2>3 DEF Held, Received
<1> QED
  BY <1>3, <1>4, <1>5, TimedOutStays, NoMoreCharges

\* The next invocation is awaited: it may capture a charge, but has not yet.
LEMMA InvokeKeepsCharges ==
  ASSUME TypeInv, TypeInv', ExecStep, NEW x \in Execs, ChargesTold(x), Accounted(x),
         Invoke(x), Blame <= Blame'
  PROVE  ChargesTold(x)' /\ Accounted(x)'
<1>0. /\ CallsOK /\ calls \subseteq Calls /\ invoked \in [Execs -> Nat]
      /\ awaiting \in [Execs -> Nat]
  BY TypeUnfold DEF ControlOK
<1>1. PICK c : c = [of |-> x, no |-> invoked[x] + 1, fn |-> pc[x], at |-> FirstOp(pc[x])]
  OBVIOUS
<1>2. /\ c.of = x /\ c.no = invoked[x] + 1 /\ c.at = FirstOp(pc[x])
      /\ calls' = calls \cup {c} /\ awaiting[x] = 0
      /\ invoked'[x] = invoked[x] + 1 /\ awaiting'[x] = invoked[x] + 1
      /\ UNCHANGED <<results, history>>
  BY <1>0, <1>1 DEF Invoke
<1>3. CallsOf(x)' = CallsOf(x) \cup {c} /\ c.at # "reply"
  BY <1>2 DEF CallsOf, FirstOp
<1>4. \A d \in CallsOf(x) : d.no \in 1 .. invoked[x] /\ ~ Awaited(d) /\ ~ Awaited(d)'
  BY <1>0, <1>2 DEF CallsOf, CallsOK, Calls, Awaited
<1>5. Awaited(c)'
  BY <1>2 DEF Awaited
<1>6. \A n : Captured(x, n)' <=> Captured(x, n)
  BY <1>2 DEF Captured
<1>7. ChargesTold(x)'
  <2>1. \A d \in CallsOf(x) : d.no # c.no
    BY <1>0, <1>2, <1>4
  <2>2. \A n \in 1 .. invoked[x] : n \in 1 .. invoked'[x]
    BY <1>0, <1>2
  <2> QED
    BY <1>2, <1>3, <1>6, <2>1, <2>2 DEF ChargesTold
<1>8. Charges(x)' \subseteq Charges(x)
  <2> SUFFICES ASSUME NEW n \in Charges(x)' PROVE n \in Charges(x)
    OBVIOUS
  <2>1. CASE Captured(x, n)
    BY <2>1 DEF Charges, Captured, ChargesTold
  <2>2. CASE Pending(x, n)'
    <3>1. PICK d \in CallsOf(x)' : d.no = n /\ d.fn = "ChargePayment" /\ ~ Awaited(d)'
      BY <2>2 DEF Pending
    <3>2. d \in CallsOf(x)
      BY <1>3, <1>5, <3>1
    <3>3. Pending(x, n) /\ n \in 1 .. invoked[x]
      BY <1>4, <3>1, <3>2 DEF Pending
    <3> QED
      BY <3>3 DEF Charges
  <2> QED
    BY <1>6, <2>1, <2>2 DEF Charges
<1>9. Held(x) => Held(x)'
  BY <1>2, <1>4 DEF Held, Received
<1> QED
  BY <1>7, <1>8, <1>9, TimedOutStays, NoMoreCharges

\* What leaves the invocations alone leaves the charges told.
LEMMA SameCallsTold ==
  ASSUME NEW x \in Execs, ChargesTold(x), UNCHANGED <<calls, history, invoked>>
  PROVE  /\ ChargesTold(x)' /\ CallsOf(x)' = CallsOf(x)
         /\ \A n : Captured(x, n)' <=> Captured(x, n)
<1>1. CallsOf(x)' = CallsOf(x)
  BY DEF CallsOf
<1>2. \A n : Captured(x, n)' <=> Captured(x, n)
  BY DEF Captured
<1> QED
  BY <1>1, <1>2 DEF ChargesTold

\* An execution that waits for nothing holds what it has received.
LEMMA NotWaiting ==
  ASSUME TypeInv, NEW x \in Execs, awaiting[x] = 0
  PROVE  /\ \A c \in CallsOf(x) : ~ Awaited(c)
         /\ Held(x) <=> Received(x, "ChargePayment")
<1>1. \A c \in CallsOf(x) : ~ Awaited(c)
  BY TypeUnfold DEF CallsOf, CallsOK, Awaited
<1> QED
  BY <1>1 DEF Held

LEMMA AdvanceKeepsCharges ==
  ASSUME TypeInv, TypeInv', Progress, ExecStep, NEW x \in Execs, ChargesTold(x), Accounted(x),
         Advance(x), Blame <= Blame'
  PROVE  ChargesTold(x)' /\ Accounted(x)'
<1>1. CASE InitializeSaga(x)
  <2>1. /\ pc[x] = "InitializeSaga" /\ UNCHANGED <<calls, history, invoked>>
        /\ Enter(x, "CreateOrder")
    BY <1>1 DEF InitializeSaga
  <2>2. awaiting[x] = 0
    <3>1. pc[x] \notin TaskStates
      BY <2>1 DEF TaskStates, ForwardStates, CompensationStates
    <3> QED
      BY <3>1, TypeUnfold DEF CallsOK
  <2>3. awaiting'[x] = 0
    BY <2>1, EnterEnds, TypeUnfold
  <2>4. ~ Held(x)
    BY <2>1, <2>2, NotWaiting DEF Progress, ForwardStates
  <2>5. \A n : Pending(x, n)' => Pending(x, n)
    BY <2>1, <2>2, <2>3, SameCallsTold DEF Pending, CallsOf, Awaited
  <2>6. Charges(x)' \subseteq Charges(x)
    BY <2>1, <2>5, SameCallsTold DEF Charges
  <2> QED
    BY <2>1, <2>4, <2>6, SameCallsTold, TimedOutStays, NoMoreCharges
<1>2. CASE Invoke(x)
  BY <1>2, InvokeKeepsCharges
<1> QED
  BY <1>1, <1>2 DEF Advance

\* An invocation that is left may have captured a charge, or may still.
LEMMA LeaveKeepsCharges ==
  ASSUME TypeInv, TypeInv', ExecStep, NEW x \in Execs, ChargesTold(x), Accounted(x),
         UNCHANGED <<calls, history, invoked, results>>,
         awaiting'[x] = 0, Blame + 1 <= Blame', Blame <= Blame'
  PROVE  ChargesTold(x)' /\ Accounted(x)'
<1>1. /\ ChargesTold(x)' /\ CallsOf(x)' = CallsOf(x)
      /\ \A n : Captured(x, n)' <=> Captured(x, n)
  BY SameCallsTold
<1>2. \A n : Pending(x, n)' => Pending(x, n) \/ n = awaiting[x]
  BY <1>1 DEF Pending, CallsOf, Awaited
<1>3. Charges(x)' \subseteq Charges(x) \cup {awaiting[x]}
  BY <1>1, <1>2 DEF Charges
<1>4. CASE Received(x, "ChargePayment") \/ ~ Held(x)
  <2>1. Held(x) => Held(x)'
    BY <1>4 DEF Held, Received
  <2> QED
    BY <1>1, <1>3, <2>1, TimedOutStays, OneMoreCharge
<1>5. ASSUME NEW c \in CallsOf(x), Awaited(c), c.fn = "ChargePayment", c.at = "reply"
      PROVE  ChargesTold(x)' /\ Accounted(x)'
  <2>1. Captured(x, awaiting[x]) /\ awaiting[x] \in 1 .. invoked[x]
    <3>1. c.no = awaiting[x]
      BY <1>5 DEF Awaited, CallsOf
    <3>2. Captured(x, c.no)
      BY <1>5 DEF ChargesTold
    <3> QED
      BY <3>1, <3>2 DEF ChargesTold, Captured
  <2>2. Charges(x)' \subseteq Charges(x)
    BY <1>3, <2>1 DEF Charges
  <2> QED
    BY <1>1, <2>2, TimedOutStays, NoMoreCharges
<1> QED
  BY <1>4, <1>5 DEF Held

LEMMA DisturbKeepsCharges ==
  ASSUME TypeInv, TypeInv', ExecStep, NEW x \in Execs, ChargesTold(x), Accounted(x),
         Disturb(x), Blame <= Blame'
  PROVE  ChargesTold(x)' /\ Accounted(x)'
<1>0. UNCHANGED <<input, results, invoked, calls, history>> /\ ControlOK
  BY TypeUnfold DEF Disturb, Throttle, Lose, TaskTimeout, Expire
<1>1. CASE Throttle(x)
  <2>1. awaiting[x] = 0 /\ OnError(x, "service")
    BY <1>1 DEF Throttle
  <2>2. awaiting'[x] = 0
    BY <1>0, <2>1, ErrorEnds
  <2>3. \A n : Pending(x, n)' => Pending(x, n)
    BY <1>0, <2>1, <2>2, SameCallsTold DEF Pending, CallsOf, Awaited
  <2>4. Charges(x)' \subseteq Charges(x)
    BY <1>0, <2>3, SameCallsTold DEF Charges
  <2>5. Held(x) => Held(x)'
    BY <1>0, <2>1, NotWaiting DEF Held, Received
  <2> QED
    BY <1>0, <2>4, <2>5, SameCallsTold, TimedOutStays, NoMoreCharges
<1>2. CASE Lose(x) \/ TaskTimeout(x)
  <2>1. Fault("lost") \/ Fault("timeout")
    BY <1>2 DEF Lose, TaskTimeout
  <2>2. \A k \in FaultKinds : faults[k] <= faults'[k]
    BY <2>1, FaultsGrow DEF FaultKinds
  <2>3. faults'["lost"] = faults["lost"] + 1 \/ faults'["timeout"] = faults["timeout"] + 1
    BY <2>1, FaultsGrow DEF FaultKinds
  <2>4. Blame + 1 <= Blame'
    BY <2>2, <2>3, BlameGrows
  <2>5. awaiting'[x] = 0
    BY <1>0, <1>2, ErrorEnds DEF Lose, TaskTimeout
  <2> QED
    BY <1>0, <2>4, <2>5, LeaveKeepsCharges
<1>3. CASE Expire(x)
  <2>1. pc'[x] = "ExecutionTimedOut"
    BY <1>0, <1>3, EnterEnds DEF Expire
  <2> QED
    BY <1>0, <2>1, SameCallsTold DEF Accounted
<1> QED
  BY <1>1, <1>2, <1>3 DEF Disturb

LEMMA StepKeepsCharges ==
  ASSUME TypeInv, TypeInv', Progress, ExecStep, NEW x \in Execs, ChargesTold(x), Accounted(x),
         StepOf(x), Blame <= Blame', \A k \in FaultKinds : faults[k] <= faults'[k]
  PROVE  ChargesTold(x)' /\ Accounted(x)'
<1>1. CASE Advance(x)
  BY <1>1, AdvanceKeepsCharges
<1>2. CASE Disturb(x)
  BY <1>2, DisturbKeepsCharges
<1>3. ASSUME NEW c \in CallsOf(x), Run(c) \/ Crash(c)
      PROVE  ChargesTold(x)' /\ Accounted(x)'
  <2>1. CASE Reject(c)
    <3>1. c.at # "reply"
      BY <2>1 DEF Reject, FirstOp
    <3> QED
      BY <2>1, <3>1, RaiseKeepsCharges DEF Reject
  <2>2. CASE Start(c)
    <3>1. c.at # "reply" /\ "inject" # "reply"
      BY <2>2 DEF Start, At
    <3> QED
      BY <2>2, <3>1, ContinueKeepsCharges DEF Start
  <2>3. CASE Inject(c)
    <3>1. /\ c.at # "reply" /\ UNCHANGED <<results, invoked, history>>
          /\ Continue(c, "write") \/ \E e : Raise(c, e)
      BY <2>3 DEF Inject, At
    <3>2. CASE Continue(c, "write")
      BY <3>1, <3>2, ContinueKeepsCharges
    <3>3. ASSUME NEW e, Raise(c, e) PROVE ChargesTold(x)' /\ Accounted(x)'
      BY <3>1, <3>3, RaiseKeepsCharges
    <3> QED
      BY <3>1, <3>2, <3>3
  <2>4. CASE Write(c)
    BY <2>4, WriteKeepsCharges
  <2>5. CASE SetStatus(c)
    <3>1. PICK op : op = IF c.fn \in CompensationStates THEN "write" ELSE "reply"
      OBVIOUS
    <3>2. c.at = "status" /\ Continue(c, op) /\ UNCHANGED <<results, invoked, history>>
      BY <2>5, <3>1 DEF SetStatus, At
    <3>3. c.fn # "ChargePayment"
      <4>1. c.at \in OpsOf(c.fn)
        BY <1>3, TypeUnfold DEF CallsOf, CallsOK
      <4> QED
        BY <3>2, <4>1 DEF OpsOf, ForwardStates, CompensationStates
    <3> QED
      BY <3>2, <3>3, ContinueKeepsCharges
  <2>6. CASE Reply(c)
    BY <2>6, ReplyKeepsCharges
  <2>7. CASE Crash(c)
    <3>1. faults'["crash"] = faults["crash"] + 1
      BY <2>7, FaultsGrow DEF Crash, FaultKinds
    <3>2. Blame + 1 <= Blame'
      BY <3>1, BlameGrows
    <3> QED
      BY <2>7, <3>2, RaiseKeepsCharges DEF Crash
  <2> QED
    BY <1>3, <2>1, <2>2, <2>3, <2>4, <2>5, <2>6, <2>7 DEF Run
<1> QED
  BY <1>1, <1>2, <1>3 DEF StepOf

LEMMA ChargeStep == TypeInv /\ IInv /\ ChargeInv /\ [Next]_vars => ChargeInv'
<1> SUFFICES ASSUME TypeInv, IInv, ChargeInv, [Next]_vars
             PROVE  \A y \in Execs : ChargesTold(y)' /\ Accounted(y)'
  BY DEF ChargeInv
<1>0. TypeInv'
  BY TypeStep
<1>1. CASE Next
  <2>1. PICK x \in Execs : StepOf(x) /\ Only(x)
    BY <1>1, OneExecution
  <2>2. \A y \in Execs : ChargesTold(y) /\ Accounted(y)
    BY DEF ChargeInv
  <2>3. ExecStep /\ Progress
    BY <1>1, StepShape DEF IInv
  <2>4. Blame <= Blame' /\ \A k \in FaultKinds : faults[k] <= faults'[k]
    BY <1>0, <2>1, BlameGrows DEF Only
  <2>5. ChargesTold(x)' /\ Accounted(x)'
    BY <1>0, <2>1, <2>2, <2>3, <2>4, StepKeepsCharges
  <2>6. \A y \in Execs \ {x} : ChargesTold(y)' /\ Accounted(y)'
    BY <1>0, <2>1, <2>2, OthersKeepCharges
  <2> QED
    BY <2>5, <2>6
<1>2. CASE UNCHANGED vars
  <2>1. UNCHANGED <<pc, results, awaiting, invoked, calls, history, faults>>
    BY <1>2 DEF vars
  <2>2. \A y \in Execs : /\ CallsOf(y)' = CallsOf(y) /\ Charges(y)' = Charges(y)
                         /\ Held(y)' <=> Held(y)
                         /\ \A n : Captured(y, n)' <=> Captured(y, n)
    BY <2>1 DEF CallsOf, Charges, Captured, Pending, Held, Received, Awaited
  <2>3. Blame' = Blame
    BY <2>1 DEF Blame
  <2> QED
    BY <2>1, <2>2, <2>3 DEF ChargeInv, ChargesTold, Accounted
<1> QED
  BY <1>1, <1>2

\* An execution that reports its saga failed has refunded every charge that was
\* captured, but for one per attempt that died, timed out or lost its response.
THEOREM ChargesRefunded == Spec => []ChargesAreRefunded
<1>1. Init => ChargeInv
  <2> SUFFICES ASSUME Init, NEW x \in Execs PROVE ChargesTold(x) /\ Accounted(x)
    BY DEF ChargeInv
  <2>1. /\ calls = {} /\ history = {} /\ invoked[x] = 0 /\ pc[x] = "InitializeSaga"
        /\ \A k \in FaultKinds : faults[k] = 0
    BY DEF Init
  <2>2. Charges(x) = {}
    BY <2>1 DEF Charges
  <2>3. Cardinality(Charges(x)) = 0 /\ Blame = 0
    BY <2>1, <2>2, FS_EmptySet DEF Blame, FaultKinds
  <2> QED
    BY <2>1, <2>3 DEF ChargesTold, Accounted, CallsOf
<1>2. TypeInv /\ IInv /\ ChargeInv => ChargesAreRefunded
  <2> SUFFICES ASSUME TypeInv, IInv, ChargeInv, NEW x \in Execs, pc[x] = "SagaFailed"
               PROVE  Cardinality({h \in history : /\ h.of = x /\ h.step = "ChargePayment"
                                  /\ ~ Recorded(x, "RefundPayment", h.entry)}) <= Blame
    BY DEF ChargesAreRefunded
  <2> DEFINE H == {h \in history : /\ h.of = x /\ h.step = "ChargePayment"
                                  /\ ~ Recorded(x, "RefundPayment", h.entry)}
  <2>1. ChargesTold(x) /\ Cardinality(Charges(x)) <= Blame + IF Held(x) THEN 1 ELSE 0
    BY DEF ChargeInv, Accounted
  <2>2. \A h \in H : h.no \in Charges(x)
    BY <2>1 DEF ChargesTold, Charges, Captured
  <2>3. \A g, h \in H : g.no = h.no => g = h
    <3>1. \A h \in H : /\ h \in [of : Execs, no : Nat, step : Recorders, entry : Entries]
                       /\ h.of = x /\ h.step = "ChargePayment"
                       /\ h.entry = Done(<<x, h.no>>)
      BY <2>1, TypeUnfold DEF ChargesTold
    <3>2. SUFFICES ASSUME NEW g \in H, NEW h \in H, g.no = h.no PROVE g = h
      OBVIOUS
    <3>3. g.of = h.of /\ g.step = h.step /\ g.entry = h.entry
      BY <3>1, <3>2
    <3>4. \A e \in [of : Execs, no : Nat, step : Recorders, entry : Entries] :
            e = [of |-> e.of, no |-> e.no, step |-> e.step, entry |-> e.entry]
      OBVIOUS
    <3> HIDE DEF H
    <3>5. /\ g = [of |-> g.of, no |-> g.no, step |-> g.step, entry |-> g.entry]
          /\ h = [of |-> h.of, no |-> h.no, step |-> h.step, entry |-> h.entry]
      BY <3>1, <3>4
    <3> QED
      BY <3>2, <3>3, <3>5
  <2>4. Held(x) <=> Received(x, "ChargePayment")
    <3>1. awaiting[x] = 0
      BY TypeUnfold DEF CallsOK, TaskStates, ForwardStates, CompensationStates
    <3> QED
      BY <3>1, NotWaiting
  <2>5. IsFiniteSet(Charges(x)) /\ Cardinality(Charges(x)) \in Nat /\ Blame \in Nat
    BY ChargesFinite, BlameType
  <2>6. ASSUME NEW T, IsFiniteSet(T), \A h \in H : h.no \in T
        PROVE  IsFiniteSet(H) /\ Cardinality(H) <= Cardinality(T)
    <3> DEFINE f == [h \in H |-> h.no]
    <3>1. f \in Injection(H, T)
      BY <2>3, <2>6 DEF Injection, IsInjective
    <3> HIDE DEF f, H
    <3> QED
      BY <2>6, <3>1, FS_Injection
  <2>7. CASE ~ Received(x, "ChargePayment")
    <3>1. Cardinality(Charges(x)) <= Blame
      BY <2>1, <2>4, <2>5, <2>7
    <3>2. Cardinality(H) <= Cardinality(Charges(x)) /\ IsFiniteSet(H)
      BY <2>2, <2>5, <2>6
    <3> QED
      BY <3>1, <3>2, <2>5, FS_CardinalityType
  <2>8. CASE Received(x, "ChargePayment")
    \* The charge it received was captured, and refunded.
    <3>1. PICK h \in history : /\ h.of = x /\ h.step = "ChargePayment"
                               /\ h.entry = Done(results[x]["ChargePayment"])
      BY <2>8 DEF IInv, RecordsExist, Recorded, ForwardStates
    <3>2. Recorded(x, "RefundPayment", h.entry)
      <4>1. Compensated(x, "ChargePayment")
        BY <2>8 DEF IInv, Unwound
      <4> QED
        BY <3>1, <4>1 DEF Compensated, Compensates, CompensationStates
    <3>3. h.no \in Charges(x)
      BY <2>1, <3>1 DEF ChargesTold, Charges, Captured
    <3>4. \A g \in H : g.no \in Charges(x) \ {h.no}
      <4> SUFFICES ASSUME NEW g \in H, g.no = h.no PROVE FALSE
        BY <2>2
      <4>1. g.entry = Done(<<x, g.no>>) /\ h.entry = Done(<<x, h.no>>)
        BY <2>1, <3>1 DEF ChargesTold
      <4> QED
        BY <3>2, <4>1
    <3>5. /\ IsFiniteSet(Charges(x) \ {h.no})
          /\ Cardinality(Charges(x) \ {h.no}) = Cardinality(Charges(x)) - 1
      BY <2>5, <3>3, FS_RemoveElement
    <3>6. Cardinality(H) <= Cardinality(Charges(x) \ {h.no}) /\ IsFiniteSet(H)
      BY <2>6, <3>4, <3>5
    <3>7. Cardinality(Charges(x)) <= Blame + 1
      BY <2>1, <2>4, <2>8
    <3> QED
      BY <2>5, <3>5, <3>6, <3>7, FS_CardinalityType
  <2> QED
    BY <2>7, <2>8
<1> QED
  BY <1>1, <1>2, ChargeStep, Invariance, PTL DEF Spec

=============================================================================
