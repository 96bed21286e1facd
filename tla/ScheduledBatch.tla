--------------------------- MODULE ScheduledBatch ---------------------------
(***************************************************************************)
(* The scheduled batch (patterns/scheduled-batch): a scheduler starts runs *)
(* of a Step Functions workflow that splits the work into shards, maps a   *)
(* Lambda over them and reduces their results to a summary.                *)
(*                                                                         *)
(* Runs may overlap: nothing makes one wait for another.  A task whose     *)
(* response is lost is over for the workflow, but its invocation runs on.  *)
(***************************************************************************)
EXTENDS Integers, FiniteSets, Functions

CONSTANTS
  Runs,             \* executions of the state machine
  BatchShards,      \* BATCH_SHARDS
  RangeSize,        \* records of a shard: 1000
  MaxConcurrency,   \* max_concurrency of the Map state
  StageRetries,     \* MaxAttempts of Split and Reduce: 4
  ShardRetries,     \* MaxAttempts of ProcessShard: 3
  FaultBudgets      \* fault kind -> how often: the combinations that may happen

FaultKinds ==
  {"throttle",   \* an invocation is refused: TooManyRequests, ServiceException
   "lost",       \* the response of an invocation of process is lost
   "raise",      \* process raises
   "stage"}      \* split or reduce raises, or its response is lost

ASSUME BatchAssumption ==
  /\ BatchShards \in Nat \ {0} /\ RangeSize \in Nat \ {0} /\ MaxConcurrency \in Nat \ {0}
  /\ StageRetries \in Nat /\ ShardRetries \in Nat
  /\ FaultBudgets \subseteq [FaultKinds -> Nat]
  /\ IsFiniteSet(Runs)

VARIABLES
  phase,    \* run -> its state, "off" before it is started
  retries,  \* run -> retries of the current Split or Reduce
  shard,    \* run -> shard -> its descriptor and its iteration of the Map state
  summary,  \* run -> the output of Reduce
  late,     \* run -> shard -> process invocations nobody waits for any more
  worked,   \* run -> shard -> how often its records were processed (ghost)
  faults    \* fault kind -> how often it has happened

vars == <<phase, retries, shard, summary, late, worked, faults>>

Ids == 0..(BatchShards - 1)
Records == 0..(BatchShards * RangeSize - 1)
NoShard == [range_start |-> 0, range_end |-> 0, status |-> "none", retries |-> 0]
NoSummary == [shards_total |-> 0, shards_succeeded |-> 0, shards_failed |-> 0,
              records_processed |-> 0, status |-> "none"]

Init ==
  /\ phase = [r \in Runs |-> "off"]
  /\ retries = [r \in Runs |-> 0]
  /\ shard = [r \in Runs |-> [i \in Ids |-> NoShard]]
  /\ summary = [r \in Runs |-> NoSummary]
  /\ late = [r \in Runs |-> [i \in Ids |-> 0]]
  /\ worked = [r \in Runs |-> [i \in Ids |-> 0]]
  /\ faults = [k \in FaultKinds |-> 0]

Fault(kind) ==
  /\ faults' = [faults EXCEPT ![kind] = @ + 1]
  /\ \E b \in FaultBudgets : \A k \in FaultKinds : faults'[k] <= b[k]

-----------------------------------------------------------------------------
(* The handlers.  A definition named X_Y is X with the bug Y.              *)

Descriptor_Inclusive(i) ==
  [range_start |-> i * RangeSize, range_end |-> (i + 1) * RangeSize - 1,
   status |-> "waiting", retries |-> 0]
\* split: the descriptor of a shard.
Descriptor(i) ==
  [range_start |-> i * RangeSize, range_end |-> (i + 1) * RangeSize,
   status |-> "waiting", retries |-> 0]

With(results, status) == {i \in Ids : results[i].status = status}

\* reduce; process returns the length of its range.
Summarise(results) ==
  LET succeeded == With(results, "SUCCEEDED")
      failed == With(results, "FAILED")
      processed == [i \in Ids |-> results[i].range_end - results[i].range_start]
  IN  [shards_total |-> BatchShards,
       shards_succeeded |-> Cardinality(succeeded),
       shards_failed |-> Cardinality(failed),
       records_processed |-> SumFunctionOnSet(processed, succeeded),
       status |-> IF failed # {} THEN "PARTIAL" ELSE "SUCCEEDED"]

-----------------------------------------------------------------------------
(* The workflow.                                                           *)

Stage(r, from, to) ==
  /\ phase[r] = from
  /\ phase' = [phase EXCEPT ![r] = to]
  /\ retries' = [retries EXCEPT ![r] = 0]

\* The scheduler fires, or somebody starts a run by hand.
Start(r) == Stage(r, "off", "Split") /\ UNCHANGED <<shard, summary, late, worked, faults>>

Split(r) ==
  /\ Stage(r, "Split", "ProcessShards")
  /\ shard' = [shard EXCEPT ![r] = [i \in Ids |-> Descriptor(i)]]
  /\ UNCHANGED <<summary, late, worked, faults>>

Ended(r) == With(shard[r], "SUCCEEDED") \cup With(shard[r], "FAILED")

MapDone_AllSucceeded(r) == With(shard[r], "SUCCEEDED") = Ids
\* The Map state ends when each of its iterations has ended.
MapDone(r) == Ended(r) = Ids
EndMap(r) == /\ MapDone(r) /\ Stage(r, "ProcessShards", "Reduce")
             /\ UNCHANGED <<shard, summary, late, worked, faults>>

Reduce(r) ==
  /\ Stage(r, "Reduce", "succeeded")
  /\ summary' = [summary EXCEPT ![r] = Summarise(shard[r])]
  /\ UNCHANGED <<shard, late, worked, faults>>

\* Split or Reduce is refused: it is retried.  Their Retry names neither an
\* exception of theirs nor the client error that a lost response is
\* (Lambda.SdkClientException): that fails the execution, which has no Catch.
StageFails(r) ==
  /\ phase[r] \in {"Split", "Reduce"}
  /\ \/ /\ Fault("throttle")
        /\ retries[r] < StageRetries
        /\ retries' = [retries EXCEPT ![r] = @ + 1]
        /\ UNCHANGED phase
     \/ /\ Fault("stage") \/ (retries[r] = StageRetries /\ Fault("throttle"))
        /\ Stage(r, phase[r], "failed")
  /\ UNCHANGED <<shard, summary, late, worked>>

-----------------------------------------------------------------------------
(* An iteration of the Map state: ProcessShard and its invocations.        *)

Iterating(r) == {i \in Ids : shard[r][i].status \in {"running", "backoff"}}

Slot_Unbounded(r) == TRUE
\* An iteration keeps its slot from its first attempt to its end.
Slot(r) == Cardinality(Iterating(r)) < MaxConcurrency

Invoke(r, i) ==
  /\ phase[r] = "ProcessShards"
  /\ shard[r][i].status = "backoff" \/ (shard[r][i].status = "waiting" /\ Slot(r))
  /\ shard' = [shard EXCEPT ![r][i].status = "running"]
  /\ UNCHANGED <<phase, retries, summary, late, worked, faults>>

Process(r, i) ==
  /\ shard[r][i].status = "running"
  /\ shard' = [shard EXCEPT ![r][i].status = "SUCCEEDED"]
  /\ worked' = [worked EXCEPT ![r][i] = @ + 1]
  /\ UNCHANGED <<phase, retries, summary, late, faults>>

TaskError_Fatal(r, i) ==
  /\ shard[r][i].status = "running"
  /\ IF shard[r][i].retries < ShardRetries
     THEN /\ shard' = [shard EXCEPT ![r][i].status = "backoff", ![r][i].retries = @ + 1]
          /\ UNCHANGED <<phase, retries>>
     ELSE /\ Stage(r, "ProcessShards", "failed")
          /\ shard' = [shard EXCEPT ![r][i].status = "FAILED"]
\* The attempt failed: it is retried after a backoff.  When the retries are used
\* up the error is caught, and ShardFailed reports the shard.
TaskError(r, i) ==
  /\ shard[r][i].status = "running"
  /\ IF shard[r][i].retries < ShardRetries
     THEN shard' = [shard EXCEPT ![r][i].status = "backoff", ![r][i].retries = @ + 1]
     ELSE shard' = [shard EXCEPT ![r][i].status = "FAILED"]
  /\ UNCHANGED <<phase, retries>>

AttemptFails(r, i) == /\ TaskError(r, i) /\ (Fault("raise") \/ Fault("throttle"))
                      /\ UNCHANGED <<summary, late, worked>>
AttemptIsLost(r, i) == /\ TaskError(r, i) /\ Fault("lost")
                       /\ late' = [late EXCEPT ![r][i] = @ + 1]
                       /\ UNCHANGED <<summary, worked>>

\* An invocation that nobody waits for comes to its end.
EndLate(r, i) ==
  /\ late[r][i] > 0
  /\ late' = [late EXCEPT ![r][i] = @ - 1]
  /\ worked' = [worked EXCEPT ![r][i] = @ + 1]
  /\ UNCHANGED <<phase, retries, shard, summary, faults>>

Workflow(r) == \/ Split(r) \/ EndMap(r) \/ Reduce(r)
               \/ \E i \in Ids : Invoke(r, i) \/ Process(r, i)

Next == \E r \in Runs :
  \/ Start(r) \/ Workflow(r) \/ StageFails(r)
  \/ \E i \in Ids : AttemptFails(r, i) \/ AttemptIsLost(r, i) \/ EndLate(r, i)

\* Step Functions goes on with a run, and its invocations end: they have a
\* timeout.  No run has to be started.
Fairness == /\ \A r \in Runs : WF_vars(Workflow(r))
            /\ \A r \in Runs : \A i \in Ids : WF_vars(EndLate(r, i))

Spec == Init /\ [][Next]_vars /\ Fairness

-----------------------------------------------------------------------------
Effects(r, x) ==
  SumFunctionOnSet(worked[r],
    {i \in Ids : shard[r][i].range_start <= x /\ x < shard[r][i].range_end})

\* The summary tells the truth about a run, partial or not, whose shards were
\* attempted several times and ended in any order.  It counts no record that was
\* not processed, and when no response was lost it counts every record that was,
\* and each was processed once; SUCCEEDED says that the whole work set was; and it
\* says PARTIAL just when a shard failed.
SummaryIsTrue ==
  \A r \in Runs : summary[r] # NoSummary =>
    LET Processed == {x \in Records : Effects(r, x) > 0}
    IN  /\ summary[r].records_processed <= Cardinality(Processed)
        /\ faults["lost"] = 0 =>
             /\ summary[r].records_processed = Cardinality(Processed)
             /\ \A x \in Processed : Effects(r, x) = 1
        /\ summary[r].status = "SUCCEEDED" => Processed = Records
        /\ summary[r].status = "PARTIAL" <=> summary[r].shards_failed > 0
        /\ summary[r].shards_succeeded + summary[r].shards_failed = BatchShards

\* "One failing shard degrades the run to partial success rather than failing the
\* whole batch": however its shards fare, a run fails only if split or reduce raises
\* or its response is lost, or if they are refused more often than they are
\* retried; and a shard is reported as failed only after its last attempt.
ShardsDoNotFailRuns ==
  \A r \in Runs :
    /\ phase[r] = "failed" =>
         faults["stage"] > 0 \/ faults["throttle"] > StageRetries
    /\ \A i \in With(shard[r], "FAILED") : shard[r][i].retries = ShardRetries

AtWork(r) ==
  Cardinality(With(shard[r], "running")) + SumFunctionOnSet(late[r], Ids)

\* "Caps simultaneous shard processors to protect downstream systems": it does so
\* for each run by itself.  The invocations of process at work are within the cap
\* for one run, and within as many caps as there are runs in the Map state at the
\* time, but for those that still run beside or after the retry that replaces them.
CapHoldsPerRun ==
  LET mapping == {r \in Runs : phase[r] = "ProcessShards"}
  IN  /\ \A r \in Runs : AtWork(r) <= MaxConcurrency + faults["lost"]
      /\ SumFunctionOnSet([r \in Runs |-> AtWork(r)], Runs) <=
            MaxConcurrency * Cardinality(mapping) + faults["lost"]

\* Every run that is started ends, with failed shards or without.
EveryRunEnds ==
  \A r \in Runs : phase[r] = "Split" ~> phase[r] \in {"succeeded", "failed"}
=============================================================================
