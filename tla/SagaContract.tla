---------------------------- MODULE SagaContract ----------------------------
(***************************************************************************)
(* What a saga promises, whatever runs it: the steps complete in order; a  *)
(* saga either commits with all of them or unwinds, undoing the steps it   *)
(* knows to be complete one at a time, the latest first, and reports a     *)
(* roll-back only when none of them is left.  It may also stop short, and  *)
(* then says neither.                                                      *)
(***************************************************************************)
EXTENDS FiniteSets

CONSTANTS
  Sagas,
  Steps,
  Before        \* step -> the set of steps that precede it

VARIABLES
  phase,        \* saga -> how far it is
  done          \* saga -> the steps completed and not undone

vars == <<phase, done>>

Phases == {"forward", "committed", "unwinding", "rolledBack", "stopped"}

TypeOK == /\ phase \in [Sagas -> Phases]
          /\ done \in [Sagas -> SUBSET Steps]

Init == /\ phase = [x \in Sagas |-> "forward"]
        /\ done = [x \in Sagas |-> {}]

Move(x, from, to) ==
  /\ phase[x] \in from
  /\ phase' = [phase EXCEPT ![x] = to]
  /\ UNCHANGED done

Finish(x, s) ==
  /\ phase[x] = "forward"
  /\ s \notin done[x] /\ Before[s] \subseteq done[x]
  /\ done' = [done EXCEPT ![x] = @ \cup {s}]
  /\ UNCHANGED phase

Commit(x) == done[x] = Steps /\ Move(x, {"forward"}, "committed")

\* Once every step is complete there is no way back.
Unwind(x) == done[x] # Steps /\ Move(x, {"forward"}, "unwinding")

\* The latest step first.  A compensation that outlives its saga may still act.
Undo(x, s) ==
  /\ phase[x] \in {"unwinding", "stopped"}
  /\ s \in done[x] /\ done[x] \subseteq Before[s] \cup {s}
  /\ done' = [done EXCEPT ![x] = @ \ {s}]
  /\ UNCHANGED phase

RollBack(x) == done[x] = {} /\ Move(x, {"unwinding"}, "rolledBack")

Stop(x) == Move(x, {"forward", "unwinding"}, "stopped")

Next == \E x \in Sagas :
          \/ Commit(x) \/ Unwind(x) \/ RollBack(x) \/ Stop(x)
          \/ \E s \in Steps : Finish(x, s) \/ Undo(x, s)

Spec == Init /\ [][Next]_vars
=============================================================================
