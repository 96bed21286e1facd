------------------------ MODULE ScheduledBatchProofs -------------------------
(* The summary, the failures and the concurrency cap of the scheduled      *)
(* batch, for every number of runs, shards and records, every cap and      *)
(* every combination of faults.                                            *)
EXTENDS ScheduledBatch, Recursion

Phases == {"off", "Split", "ProcessShards", "Reduce", "succeeded", "failed"}
Statuses == {"none", "waiting", "running", "backoff", "SUCCEEDED", "FAILED"}
Shards == [range_start : Nat, range_end : Nat, status : Statuses, retries : 0 .. ShardRetries]

TypeInv ==
  /\ phase \in [Runs -> Phases] /\ retries \in [Runs -> 0 .. StageRetries]
  /\ shard \in [Runs -> [Ids -> Shards]] /\ summary = [r \in Runs |-> summary[r]]
  /\ late \in [Runs -> [Ids -> Nat]] /\ worked \in [Runs -> [Ids -> Nat]]
  /\ faults \in [FaultKinds -> Nat]

\* A shard has the range of its index, is given up on after its last attempt, and
\* was worked on if it succeeded; and, as long as no response was lost, just once.
ShardOK(r, i) ==
  LET s == shard[r][i]
  IN  /\ s.status # "none" => s.range_start = i * RangeSize /\ s.range_end = (i + 1) * RangeSize
      /\ s.status = "FAILED" => s.retries = ShardRetries
      /\ s.status = "SUCCEEDED" => worked[r][i] > 0
      /\ faults["lost"] = 0 =>
           late[r][i] = 0 /\ worked[r][i] = IF s.status = "SUCCEEDED" THEN 1 ELSE 0

\* Where a run is, and how its shards stand there.
PhaseOK(r) ==
  /\ phase[r] \in {"off", "Split"} => \A i \in Ids : shard[r][i].status = "none"
  /\ phase[r] # "ProcessShards" =>
       \A i \in Ids : shard[r][i].status \in {"none", "SUCCEEDED", "FAILED"}
  /\ phase[r] \in {"Reduce", "succeeded"} =>
       \A i \in Ids : shard[r][i].status \in {"SUCCEEDED", "FAILED"}
  /\ summary[r] = NoSummary \/ (phase[r] = "succeeded" /\ summary[r] = Summarise(shard[r]))

\* Every retry of Split or Reduce has its refusal.
FaultsOK(r) ==
  /\ retries[r] <= faults["throttle"]
  /\ phase[r] = "failed" => faults["stage"] > 0 \/ faults["throttle"] > StageRetries

CapOK(r) == Cardinality(Iterating(r)) <= MaxConcurrency

\* Every invocation that nobody waits for was lost.
Owed(u) == SumFunctionOnSet([r \in Runs |-> SumFunctionOnSet(u[r], Ids)], Runs)
LateOK == Owed(late) <= faults["lost"]

IInv ==
  /\ TypeInv /\ LateOK
  /\ \A r \in Runs : \A i \in Ids : ShardOK(r, i)
  /\ \A r \in Runs : PhaseOK(r) /\ FaultsOK(r) /\ CapOK(r)

-----------------------------------------------------------------------------
(* Types.                                                                  *)

LEMMA BatchTypes ==
  /\ BatchShards \in Nat \ {0} /\ RangeSize \in Nat \ {0} /\ MaxConcurrency \in Nat \ {0}
  /\ StageRetries \in Nat /\ ShardRetries \in Nat /\ IsFiniteSet(Runs)
  /\ IsFiniteSet(Ids) /\ Cardinality(Ids) = BatchShards
  /\ \A i \in Ids : i \in Nat /\ i < BatchShards /\ i * RangeSize \in Nat
<1>1. /\ BatchShards \in Nat \ {0} /\ RangeSize \in Nat \ {0} /\ MaxConcurrency \in Nat \ {0}
      /\ StageRetries \in Nat /\ ShardRetries \in Nat /\ IsFiniteSet(Runs)
  BY BatchAssumption
<1>2. IsFiniteSet(Ids) /\ Cardinality(Ids) = BatchShards
  BY <1>1, FS_Interval DEF Ids
<1>3. \A i \in Ids : i \in Nat /\ i < BatchShards
  BY <1>1 DEF Ids
<1>4. \A i \in Ids : i * RangeSize \in Nat
  BY <1>1, <1>3
<1> QED
  BY <1>1, <1>2, <1>3, <1>4

LEMMA ShardTypes ==
  ASSUME TypeInv, NEW r \in Runs, NEW i \in Ids
  PROVE  /\ shard[r] \in [Ids -> Shards] /\ shard[r][i] \in Shards
         /\ late[r] \in [Ids -> Nat] /\ worked[r] \in [Ids -> Nat]
         /\ late[r][i] \in Nat /\ worked[r][i] \in Nat
         /\ phase[r] \in Phases /\ retries[r] \in 0 .. StageRetries /\ retries[r] \in Nat
         /\ shard[r][i].range_start \in Nat /\ shard[r][i].range_end \in Nat
         /\ shard[r][i].status \in Statuses
         /\ shard[r][i].retries \in 0 .. ShardRetries
         /\ StageRetries \in Nat /\ ShardRetries \in Nat
BY BatchTypes DEF TypeInv, Shards

\* A fault is counted, and no other.
LEMMA FaultCounts ==
  ASSUME TypeInv, NEW kind \in FaultKinds, Fault(kind)
  PROVE  /\ faults' \in [FaultKinds -> Nat]
         /\ faults'[kind] = faults[kind] + 1
         /\ \A k \in FaultKinds \ {kind} : faults'[k] = faults[k]
         /\ \A k \in FaultKinds : faults[k] \in Nat /\ faults'[k] >= faults[k]
BY DEF TypeInv, Fault

LEMMA NoFaults ==
  ASSUME TypeInv, faults' = faults
  PROVE  /\ faults' \in [FaultKinds -> Nat]
         /\ \A k \in FaultKinds : faults[k] \in Nat /\ faults'[k] >= faults[k]
BY DEF TypeInv

LEMMA Kinds == /\ "throttle" \in FaultKinds /\ "lost" \in FaultKinds
               /\ "raise" \in FaultKinds /\ "stage" \in FaultKinds
BY DEF FaultKinds

-----------------------------------------------------------------------------
(* What a step does not touch.                                             *)

LEMMA SameSummary ==
  ASSUME NEW r \in Runs, shard'[r] = shard[r]
  PROVE  Summarise(shard[r])' = Summarise(shard[r])
BY DEF Summarise, With

LEMMA ShardKeeps ==
  ASSUME TypeInv, NEW r \in Runs, NEW i \in Ids, ShardOK(r, i),
         shard'[r][i] = shard[r][i], worked'[r][i] = worked[r][i], late'[r][i] = late[r][i],
         faults' \in [FaultKinds -> Nat], \A k \in FaultKinds : faults'[k] >= faults[k]
  PROVE  ShardOK(r, i)'
<1>1. faults'["lost"] = 0 => faults["lost"] = 0
  BY Kinds DEF TypeInv
<1> QED
  BY <1>1 DEF ShardOK

LEMMA FaultsKeep ==
  ASSUME TypeInv, NEW r \in Runs, FaultsOK(r), retries'[r] = retries[r],
         phase'[r] = phase[r] \/ phase'[r] # "failed",
         faults' \in [FaultKinds -> Nat], \A k \in FaultKinds : faults'[k] >= faults[k]
  PROVE  FaultsOK(r)'
<1>1. /\ faults["throttle"] \in Nat /\ faults["lost"] \in Nat /\ faults["stage"] \in Nat
      /\ faults'["throttle"] \in Nat /\ faults'["lost"] \in Nat /\ faults'["stage"] \in Nat
      /\ faults'["throttle"] >= faults["throttle"] /\ faults'["lost"] >= faults["lost"]
      /\ faults'["stage"] >= faults["stage"]
      /\ retries[r] \in Nat /\ StageRetries \in Nat
  BY Kinds, BatchTypes DEF TypeInv
<1> QED
  BY <1>1 DEF FaultsOK

LEMMA CapKeeps ==
  ASSUME NEW r \in Runs, CapOK(r), shard'[r] = shard[r]
  PROVE  CapOK(r)'
BY DEF CapOK, Iterating

\* Another run.
LEMMA OtherRun ==
  ASSUME IInv, NEW r \in Runs, phase'[r] = phase[r], retries'[r] = retries[r],
         shard'[r] = shard[r], summary'[r] = summary[r],
         late'[r] = late[r], worked'[r] = worked[r],
         faults' \in [FaultKinds -> Nat], \A k \in FaultKinds : faults'[k] >= faults[k]
  PROVE  /\ \A i \in Ids : ShardOK(r, i)'
         /\ PhaseOK(r)' /\ FaultsOK(r)' /\ CapOK(r)'
<1>1. \A i \in Ids : ShardOK(r, i)'
  BY ShardKeeps DEF IInv
<1>2. PhaseOK(r)'
  BY SameSummary DEF IInv, PhaseOK
<1>3. FaultsOK(r)' /\ CapOK(r)'
  BY FaultsKeep, CapKeeps DEF IInv
<1> QED
  BY <1>1, <1>2, <1>3

-----------------------------------------------------------------------------
(* Invocations that nobody waits for.                                      *)

LEMMA OwedChanges ==
  ASSUME NEW u \in [Runs -> [Ids -> Nat]], NEW v \in [Runs -> [Ids -> Nat]],
         NEW r \in Runs, NEW i \in Ids, \A q \in Runs \ {r} : v[q] = u[q],
         \A j \in Ids \ {i} : v[r][j] = u[r][j]
  PROVE  /\ Owed(u) \in Nat /\ Owed(v) \in Nat
         /\ Owed(v) + u[r][i] = Owed(u) + v[r][i]
<1> DEFINE f == [q \in Runs |-> SumFunctionOnSet(u[q], Ids)]
           g == [q \in Runs |-> SumFunctionOnSet(v[q], Ids)]
<1>1. \A q \in Runs : SumFunctionOnSet(u[q], Ids) \in Nat /\ SumFunctionOnSet(v[q], Ids) \in Nat
  <2> SUFFICES ASSUME NEW q \in Runs
               PROVE  SumFunctionOnSet(u[q], Ids) \in Nat /\ SumFunctionOnSet(v[q], Ids) \in Nat
    OBVIOUS
  <2>1. (\A j \in Ids : u[q][j] \in Nat) /\ \A j \in Ids : v[q][j] \in Nat
    OBVIOUS
  <2> QED
    BY <2>1, BatchTypes, SumOfMembers
<1>2. SumFunctionOnSet(v[r], Ids) + u[r][i] = SumFunctionOnSet(u[r], Ids) + v[r][i]
  <2>1. /\ u[r][i] \in Nat /\ v[r][i] \in Nat
        /\ \A j \in Ids \ {i} : u[r][j] \in Nat /\ v[r][j] = u[r][j]
    OBVIOUS
  <2> QED
    BY <2>1, BatchTypes, SumChanges
<1>3. /\ f[r] = SumFunctionOnSet(u[r], Ids) /\ g[r] = SumFunctionOnSet(v[r], Ids)
      /\ (\A q \in Runs : f[q] \in Nat) /\ (\A q \in Runs : g[q] \in Nat)
      /\ \A q \in Runs \ {r} : f[q] \in Nat /\ g[q] = f[q]
  BY <1>1
<1>4. Owed(u) = SumFunctionOnSet(f, Runs) /\ Owed(v) = SumFunctionOnSet(g, Runs)
  BY DEF Owed
<1> HIDE DEF f, g
<1>5. SumFunctionOnSet(f, Runs) \in Nat /\ SumFunctionOnSet(g, Runs) \in Nat
  BY <1>3, BatchTypes, SumOfMembers
<1>6. SumFunctionOnSet(g, Runs) + f[r] = SumFunctionOnSet(f, Runs) + g[r]
  BY <1>3, BatchTypes, SumChanges
<1>7. f[r] \in Nat /\ g[r] \in Nat /\ u[r][i] \in Nat /\ v[r][i] \in Nat
      /\ g[r] + u[r][i] = f[r] + v[r][i]
  BY <1>2, <1>3
<1>8. Owed(u) \in Nat /\ Owed(v) \in Nat /\ Owed(v) + f[r] = Owed(u) + g[r]
  BY <1>4, <1>5, <1>6
<1>9. PICK x \in Nat, y \in Nat : x = Owed(u) /\ y = Owed(v)
  BY <1>8
<1>10. PICK a \in Nat, b \in Nat : a = u[r][i] /\ b = v[r][i]
  BY <1>7
<1>11. PICK c \in Nat, d \in Nat : c = f[r] /\ d = g[r]
  BY <1>7
<1>12. y + c = x + d
  BY <1>8, <1>9, <1>11
<1>13. d + a = c + b
  BY <1>7, <1>10, <1>11
<1>14. y + a = x + b
  BY <1>12, <1>13
<1> QED
  BY <1>9, <1>10, <1>14

\* Those of one run are among them.
LEMMA OwedByOne ==
  ASSUME NEW u \in [Runs -> [Ids -> Nat]], NEW r \in Runs
  PROVE  /\ SumFunctionOnSet(u[r], Ids) \in Nat /\ Owed(u) \in Nat
         /\ SumFunctionOnSet(u[r], Ids) <= Owed(u)
<1> DEFINE f == [q \in Runs |-> SumFunctionOnSet(u[q], Ids)]
<1>1. \A q \in Runs : SumFunctionOnSet(u[q], Ids) \in Nat
  <2> SUFFICES ASSUME NEW q \in Runs PROVE SumFunctionOnSet(u[q], Ids) \in Nat
    OBVIOUS
  <2>1. \A j \in Ids : u[q][j] \in Nat
    OBVIOUS
  <2> QED
    BY <2>1, BatchTypes, SumOfMembers
<1>2. (\A q \in Runs : f[q] \in Nat) /\ f[r] = SumFunctionOnSet(u[r], Ids)
  BY <1>1
<1>3. Owed(u) = SumFunctionOnSet(f, Runs)
  BY DEF Owed
<1> HIDE DEF f
<1>4. IsFiniteSet(Runs \ {r}) /\ \A q \in Runs \ {r} : f[q] \in Nat
  BY <1>2, BatchTypes, FS_Subset
<1>5. SumFunctionOnSet(f, Runs \ {r}) \in Nat
  BY <1>4, SumOfMembers
<1>6. SumFunctionOnSet(f, Runs) = f[r] + SumFunctionOnSet(f, Runs \ {r})
  BY <1>2, BatchTypes, SumOfMembers
<1> QED
  BY <1>2, <1>3, <1>5, <1>6

-----------------------------------------------------------------------------
(* Steps of a whole run.                                                   *)

\* A run enters a state: its shards do not go on, and nothing is lost.
LEMMA StageStep ==
  ASSUME IInv, NEW r \in Runs, NEW from \in Phases, NEW to \in Phases, Stage(r, from, to),
         shard' \in [Runs -> [Ids -> Shards]], \A q \in Runs \ {r} : shard'[q] = shard[q],
         summary' = [q \in Runs |-> summary'[q]],
         \A q \in Runs \ {r} : summary'[q] = summary[q], UNCHANGED <<late, worked>>,
         faults' \in [FaultKinds -> Nat], \A k \in FaultKinds : faults'[k] >= faults[k],
         \A i \in Ids : ShardOK(r, i)', PhaseOK(r)', CapOK(r)',
         to = "failed" =>
           faults'["stage"] > 0 \/ faults'["throttle"] > StageRetries
  PROVE  IInv'
<1>1. /\ phase' = [phase EXCEPT ![r] = to] /\ retries' = [retries EXCEPT ![r] = 0]
  BY DEF Stage
<1>2. /\ phase' \in [Runs -> Phases] /\ retries' \in [Runs -> 0 .. StageRetries]
      /\ phase'[r] = to /\ retries'[r] = 0
      /\ \A q \in Runs \ {r} : phase'[q] = phase[q] /\ retries'[q] = retries[q]
  BY <1>1, BatchTypes DEF IInv, TypeInv
<1>3. TypeInv'
  BY <1>2 DEF IInv, TypeInv
<1>4. LateOK'
  <2>1. faults["lost"] \in Nat /\ faults'["lost"] \in Nat /\ faults'["lost"] >= faults["lost"]
    BY Kinds DEF IInv, TypeInv
  <2>2. PICK u : u = late
    OBVIOUS
  <2>3. u \in [Runs -> [Ids -> Nat]] /\ late' = u
    BY <2>2 DEF IInv, TypeInv
  <2>4. Owed(u) \in Nat
    BY <2>3, OwedByOne, <1>1
  <2>5. Owed(u) <= faults["lost"]
    BY <2>2 DEF IInv, LateOK
  <2>6. Owed(u) <= faults'["lost"]
    BY <2>1, <2>4, <2>5
  <2> QED
    BY <2>3, <2>6 DEF LateOK
<1>5. FaultsOK(r)'
  <2>1. faults'["throttle"] \in Nat /\ faults'["lost"] \in Nat
    BY Kinds
  <2> QED
    BY <1>2, <2>1 DEF FaultsOK
<1>6. \A q \in Runs \ {r} : /\ \A i \in Ids : ShardOK(q, i)'
                            /\ PhaseOK(q)' /\ FaultsOK(q)' /\ CapOK(q)'
  BY <1>2, OtherRun
<1> QED
  BY <1>3, <1>4, <1>5, <1>6 DEF IInv

LEMMA StartOK ==
  ASSUME IInv, NEW r \in Runs, Start(r)
  PROVE  IInv'
<1>1. Stage(r, "off", "Split") /\ UNCHANGED <<shard, summary, late, worked, faults>>
  BY DEF Start
<1>2. phase[r] = "off" /\ phase'[r] = "Split"
  BY <1>1 DEF Stage, IInv, TypeInv
<1>3. /\ faults' \in [FaultKinds -> Nat] /\ \A k \in FaultKinds : faults'[k] >= faults[k]
  BY <1>1, NoFaults DEF IInv
<1>4. \A i \in Ids : ShardOK(r, i)'
  BY <1>1, <1>3, ShardKeeps DEF IInv
<1>5. PhaseOK(r)' /\ CapOK(r)'
  BY <1>1, <1>2, CapKeeps DEF IInv, PhaseOK
<1>6. "off" \in Phases /\ "Split" \in Phases /\ "Split" # "failed"
  BY DEF Phases
<1> QED
  BY <1>1, <1>3, <1>4, <1>5, <1>6, StageStep DEF IInv, TypeInv

\* split gives every shard its range.
LEMMA SplitOK ==
  ASSUME IInv, NEW r \in Runs, Split(r)
  PROVE  IInv'
<1>1. /\ Stage(r, "Split", "ProcessShards")
      /\ shard' = [shard EXCEPT ![r] = [i \in Ids |-> Descriptor(i)]]
      /\ UNCHANGED <<summary, late, worked, faults>>
  BY DEF Split
<1>2. phase[r] = "Split" /\ phase'[r] = "ProcessShards"
  BY <1>1 DEF Stage, IInv, TypeInv
<1>3. /\ faults' \in [FaultKinds -> Nat] /\ \A k \in FaultKinds : faults'[k] >= faults[k]
  BY <1>1, NoFaults DEF IInv
<1>4. \A i \in Ids : /\ Descriptor(i) \in Shards /\ Descriptor(i).status = "waiting"
                     /\ Descriptor(i).range_start = i * RangeSize
                     /\ Descriptor(i).range_end = (i + 1) * RangeSize
  <2> SUFFICES ASSUME NEW i \in Ids
               PROVE  /\ Descriptor(i) \in Shards /\ Descriptor(i).status = "waiting"
                      /\ Descriptor(i).range_start = i * RangeSize
                      /\ Descriptor(i).range_end = (i + 1) * RangeSize
    OBVIOUS
  <2>1. i * RangeSize \in Nat /\ (i + 1) * RangeSize \in Nat /\ 0 \in 0 .. ShardRetries
    BY BatchTypes
  <2> QED
    BY <2>1 DEF Descriptor, Shards, Statuses
<1>5. PICK d : d = [i \in Ids |-> Descriptor(i)]
  OBVIOUS
<1>6. /\ d \in [Ids -> Shards] /\ \A i \in Ids : d[i] = Descriptor(i)
      /\ shard' = [shard EXCEPT ![r] = d]
  BY <1>1, <1>4, <1>5
<1>7. /\ shard' \in [Runs -> [Ids -> Shards]] /\ shard'[r] = d
      /\ \A q \in Runs \ {r} : shard'[q] = shard[q]
  BY <1>6 DEF IInv, TypeInv
<1>8. \A i \in Ids : ShardOK(r, i)'
  <2> SUFFICES ASSUME NEW i \in Ids PROVE ShardOK(r, i)'
    OBVIOUS
  <2>1. shard'[r][i] = Descriptor(i)
    BY <1>6, <1>7
  <2>2. ShardOK(r, i) /\ shard[r][i].status = "none"
    BY <1>2 DEF IInv, PhaseOK
  <2> QED
    BY <1>1, <1>4, <2>1, <2>2 DEF ShardOK
<1>9. PhaseOK(r)'
  BY <1>1, <1>2 DEF IInv, PhaseOK
<1>10. CapOK(r)'
  <2>1. Iterating(r)' = {}
    BY <1>4, <1>6, <1>7 DEF Iterating
  <2> QED
    BY <2>1, FS_EmptySet, BatchTypes DEF CapOK
<1>11. "Split" \in Phases /\ "ProcessShards" \in Phases /\ "ProcessShards" # "failed"
  BY DEF Phases
<1>12. summary' = [q \in Runs |-> summary'[q]]
  BY <1>1 DEF IInv, TypeInv
<1> QED
  BY <1>1, <1>3, <1>7, <1>8, <1>9, <1>10, <1>11, <1>12, StageStep

LEMMA EndMapOK ==
  ASSUME IInv, NEW r \in Runs, EndMap(r)
  PROVE  IInv'
<1>1. /\ MapDone(r) /\ Stage(r, "ProcessShards", "Reduce")
      /\ UNCHANGED <<shard, summary, late, worked, faults>>
  BY DEF EndMap
<1>2. phase[r] = "ProcessShards" /\ phase'[r] = "Reduce"
  BY <1>1 DEF Stage, IInv, TypeInv
<1>3. /\ faults' \in [FaultKinds -> Nat] /\ \A k \in FaultKinds : faults'[k] >= faults[k]
  BY <1>1, NoFaults DEF IInv
<1>4. \A i \in Ids : ShardOK(r, i)'
  BY <1>1, <1>3, ShardKeeps DEF IInv
<1>5. \A i \in Ids : shard[r][i].status \in {"SUCCEEDED", "FAILED"}
  BY <1>1 DEF MapDone, Ended, With
<1>6. PhaseOK(r)' /\ CapOK(r)'
  BY <1>1, <1>2, <1>5, CapKeeps DEF IInv, PhaseOK
<1>7. "ProcessShards" \in Phases /\ "Reduce" \in Phases /\ "Reduce" # "failed"
  BY DEF Phases
<1> QED
  BY <1>1, <1>3, <1>4, <1>6, <1>7, StageStep DEF IInv, TypeInv

LEMMA ReduceOK ==
  ASSUME IInv, NEW r \in Runs, Reduce(r)
  PROVE  IInv'
<1>1. /\ Stage(r, "Reduce", "succeeded")
      /\ summary' = [summary EXCEPT ![r] = Summarise(shard[r])]
      /\ UNCHANGED <<shard, late, worked, faults>>
  BY DEF Reduce
<1>2. phase[r] = "Reduce" /\ phase'[r] = "succeeded"
  BY <1>1 DEF Stage, IInv, TypeInv
<1>3. /\ faults' \in [FaultKinds -> Nat] /\ \A k \in FaultKinds : faults'[k] >= faults[k]
  BY <1>1, NoFaults DEF IInv
<1>4. \A i \in Ids : ShardOK(r, i)'
  BY <1>1, <1>3, ShardKeeps DEF IInv
<1>a. /\ summary'[r] = Summarise(shard[r]) /\ summary' = [q \in Runs |-> summary'[q]]
      /\ \A q \in Runs \ {r} : summary'[q] = summary[q]
  BY <1>1 DEF IInv, TypeInv
<1>5. PhaseOK(r)' /\ CapOK(r)'
  BY <1>1, <1>2, <1>a, CapKeeps, SameSummary DEF IInv, PhaseOK
<1>6. "Reduce" \in Phases /\ "succeeded" \in Phases /\ "succeeded" # "failed"
  BY DEF Phases
<1> QED
  BY <1>1, <1>3, <1>4, <1>5, <1>6, <1>a, StageStep DEF IInv, TypeInv

\* Split or Reduce fails: each of its retries has its refusal, and the failure of
\* the run a fault of its own.
LEMMA StageFailsOK ==
  ASSUME IInv, NEW r \in Runs, StageFails(r)
  PROVE  IInv'
<1>1. /\ phase[r] \in {"Split", "Reduce"} /\ UNCHANGED <<shard, summary, late, worked>>
      /\ \E kind \in FaultKinds : Fault(kind)
  BY Kinds DEF StageFails
<1>2. /\ faults' \in [FaultKinds -> Nat] /\ \A k \in FaultKinds : faults'[k] >= faults[k]
  BY <1>1, FaultCounts DEF IInv
<1>3. /\ shard' \in [Runs -> [Ids -> Shards]] /\ summary' = [q \in Runs |-> summary'[q]]
      /\ \A i \in Ids : ShardOK(r, i)'
      /\ CapOK(r)'
  BY <1>1, <1>2, ShardKeeps, CapKeeps DEF IInv, TypeInv
<1>4. /\ faults["throttle"] \in Nat /\ faults["lost"] \in Nat /\ faults["stage"] \in Nat
      /\ faults'["throttle"] \in Nat /\ faults'["lost"] \in Nat
      /\ retries[r] \in Nat /\ StageRetries \in Nat /\ retries[r] <= faults["throttle"]
  BY <1>2, Kinds, BatchTypes DEF IInv, TypeInv, FaultsOK
<1>5. Fault("throttle") => faults'["throttle"] = faults["throttle"] + 1
  BY Kinds, FaultCounts DEF IInv
<1>6. CASE /\ Fault("throttle")
           /\ retries[r] < StageRetries
           /\ retries' = [retries EXCEPT ![r] = @ + 1]
           /\ UNCHANGED phase
  <2>1. /\ retries' \in [Runs -> 0 .. StageRetries] /\ retries'[r] = retries[r] + 1
        /\ \A q \in Runs \ {r} : retries'[q] = retries[q]
    BY <1>4, <1>6 DEF IInv, TypeInv
  <2>2. TypeInv'
    BY <1>1, <1>2, <1>6, <2>1 DEF IInv, TypeInv
  <2>3. \A q \in Runs \ {r} : /\ \A i \in Ids : ShardOK(q, i)'
                              /\ PhaseOK(q)' /\ FaultsOK(q)' /\ CapOK(q)'
    BY <1>1, <1>2, <1>6, <2>1, OtherRun
  <2>4. FaultsOK(r)'
    BY <1>1, <1>4, <1>5, <1>6, <2>1 DEF FaultsOK
  <2>5. PhaseOK(r)'
    BY <1>1, <1>6, SameSummary DEF IInv, PhaseOK
  <2>6. LateOK'
    <3>1. PICK u : u = late
      OBVIOUS
    <3>2. u \in [Runs -> [Ids -> Nat]] /\ late' = u /\ Owed(u) <= faults["lost"]
      BY <1>1, <3>1 DEF IInv, TypeInv, LateOK
    <3>3. Owed(u) \in Nat
      BY <3>2, OwedByOne
    <3>4. Owed(u) <= faults'["lost"]
      BY <1>2, <1>4, <3>2, <3>3, Kinds
    <3> QED
      BY <3>2, <3>4 DEF LateOK
  <2> QED
    BY <1>3, <2>2, <2>3, <2>4, <2>5, <2>6 DEF IInv
<1>7. CASE /\ Fault("stage") \/ (retries[r] = StageRetries /\ Fault("throttle"))
           /\ Stage(r, phase[r], "failed")
  <2>1. PICK p \in Phases : p = phase[r]
    BY DEF IInv, TypeInv
  <2>2. Stage(r, p, "failed") /\ "failed" \in Phases
    BY <1>7, <2>1 DEF Phases
  <2>3. faults'["stage"] > 0 \/ faults'["throttle"] > StageRetries
    <3>1. CASE Fault("stage")
      <4>1. faults'["stage"] = faults["stage"] + 1
        BY <3>1, Kinds, FaultCounts DEF IInv
      <4> QED
        BY <1>4, <4>1
    <3>2. CASE retries[r] = StageRetries /\ Fault("throttle")
      BY <1>4, <1>5, <3>2
    <3> QED
      BY <1>7, <3>1, <3>2
  <2>4. phase'[r] = "failed"
    BY <1>7 DEF Stage, IInv, TypeInv
  <2>5. PhaseOK(r)'
    BY <1>1, <2>4 DEF IInv, PhaseOK
  <2> QED
    BY <1>1, <1>2, <1>3, <2>2, <2>3, <2>5, StageStep
<1> QED
  BY <1>6, <1>7 DEF StageFails

-----------------------------------------------------------------------------
(* Steps of a shard.                                                       *)

\* A shard of a run in the Map state goes from s to t.
LEMMA ShardStep ==
  ASSUME IInv, NEW r \in Runs, NEW i \in Ids, NEW t \in Shards,
         shard[r][i].status \in {"waiting", "backoff", "running"},
         shard' = [shard EXCEPT ![r][i] = t], UNCHANGED <<phase, retries, summary>>,
         t.status # "none",
         late' \in [Runs -> [Ids -> Nat]], worked' \in [Runs -> [Ids -> Nat]],
         \A q \in Runs \ {r} : late'[q] = late[q] /\ worked'[q] = worked[q],
         \A j \in Ids \ {i} : late'[r][j] = late[r][j] /\ worked'[r][j] = worked[r][j],
         faults' \in [FaultKinds -> Nat], \A k \in FaultKinds : faults'[k] >= faults[k],
         ShardOK(r, i)', LateOK',
         \/ t.status \notin {"running", "backoff"}
         \/ shard[r][i].status \in {"running", "backoff"}
         \/ Slot(r)
  PROVE  IInv'
<1>1. /\ shard' \in [Runs -> [Ids -> Shards]] /\ shard'[r][i] = t
      /\ \A q \in Runs \ {r} : shard'[q] = shard[q]
      /\ \A j \in Ids \ {i} : shard'[r][j] = shard[r][j]
  BY DEF IInv, TypeInv
<1>2. phase[r] = "ProcessShards"
  BY DEF IInv, PhaseOK
<1>3. TypeInv'
  BY <1>1 DEF IInv, TypeInv
<1>4. \A q \in Runs \ {r} : /\ \A j \in Ids : ShardOK(q, j)'
                            /\ PhaseOK(q)' /\ FaultsOK(q)' /\ CapOK(q)'
  BY <1>1, OtherRun
<1>5. \A j \in Ids : ShardOK(r, j)'
  BY <1>1, ShardKeeps DEF IInv
<1>6. PhaseOK(r)'
  BY <1>2 DEF IInv, PhaseOK
<1>7. FaultsOK(r)'
  BY <1>2, FaultsKeep DEF IInv
<1>8. CapOK(r)'
  <2>1. /\ Iterating(r) \subseteq Ids /\ IsFiniteSet(Iterating(r))
        /\ Cardinality(Iterating(r)) \in Nat /\ Cardinality(Iterating(r)) <= MaxConcurrency
        /\ MaxConcurrency \in Nat
    <3>1. Iterating(r) \subseteq Ids
      BY DEF Iterating
    <3>2. IsFiniteSet(Iterating(r)) /\ Cardinality(Iterating(r)) \in Nat
      BY <3>1, BatchTypes, FS_Subset, FS_CardinalityType
    <3> QED
      BY <3>1, <3>2, BatchTypes DEF IInv, CapOK
  <2>2. Iterating(r)' = IF t.status \in {"running", "backoff"}
                        THEN Iterating(r) \cup {i} ELSE Iterating(r) \ {i}
    BY <1>1 DEF Iterating
  <2>3. CASE t.status \notin {"running", "backoff"}
    <3>1. /\ Cardinality(Iterating(r) \ {i}) \in Nat
          /\ Cardinality(Iterating(r) \ {i}) <= Cardinality(Iterating(r))
      BY <2>1, FS_Subset, FS_CardinalityType
    <3> QED
      BY <2>1, <2>2, <2>3, <3>1 DEF CapOK
  <2>4. CASE shard[r][i].status \in {"running", "backoff"}
    <3>1. i \in Iterating(r)
      BY <2>4 DEF Iterating
    <3>2. \/ Iterating(r)' = Iterating(r)
          \/ t.status \notin {"running", "backoff"}
      BY <2>2, <3>1
    <3> QED
      BY <2>1, <2>3, <3>2 DEF CapOK
  <2>5. CASE t.status \in {"running", "backoff"} /\ Slot(r)
    <3>1. Cardinality(Iterating(r)) < MaxConcurrency
      BY <2>5 DEF Slot
    <3>2. \/ Cardinality(Iterating(r) \cup {i}) = Cardinality(Iterating(r))
          \/ Cardinality(Iterating(r) \cup {i}) = Cardinality(Iterating(r)) + 1
      BY <2>1, FS_AddElement
    <3>3. Cardinality(Iterating(r) \cup {i}) <= MaxConcurrency
      BY <2>1, <3>1, <3>2
    <3> QED
      BY <2>2, <2>5, <3>3 DEF CapOK
  <2> QED
    BY <2>3, <2>4, <2>5
<1> QED
  BY <1>3, <1>4, <1>5, <1>6, <1>7, <1>8 DEF IInv

\* A shard with another status.
Moved(s, st, n) == [s EXCEPT !.status = st, !.retries = n]

LEMMA ShardBecomes ==
  ASSUME NEW s \in Shards, NEW st \in Statuses, NEW n \in 0 .. ShardRetries
  PROVE  /\ Moved(s, st, n) \in Shards
         /\ Moved(s, st, n).status = st /\ Moved(s, st, n).retries = n
         /\ Moved(s, st, n).range_start = s.range_start
         /\ Moved(s, st, n).range_end = s.range_end
BY DEF Shards, Moved

LEMMA StatusesAre ==
  /\ "running" \in Statuses /\ "backoff" \in Statuses
  /\ "SUCCEEDED" \in Statuses /\ "FAILED" \in Statuses
BY DEF Statuses

\* The shard of a step, after it.
LEMMA ShardAfter ==
  ASSUME TypeInv, NEW r \in Runs, NEW i \in Ids, NEW t \in Shards,
         shard' = [shard EXCEPT ![r][i] = t]
  PROVE  shard'[r][i] = t
BY DEF TypeInv

LEMMA OwedStays ==
  ASSUME TypeInv, LateOK, NEW r \in Runs, late' = late,
         faults' \in [FaultKinds -> Nat], \A k \in FaultKinds : faults'[k] >= faults[k]
  PROVE  LateOK'
<1>1. PICK u : u = late
  OBVIOUS
<1>2. u \in [Runs -> [Ids -> Nat]] /\ late' = u /\ Owed(u) <= faults["lost"]
  BY <1>1 DEF TypeInv, LateOK
<1>3. Owed(u) \in Nat
  BY <1>2, OwedByOne
<1>4. faults["lost"] \in Nat /\ faults'["lost"] \in Nat /\ faults'["lost"] >= faults["lost"]
  BY Kinds DEF TypeInv
<1>5. Owed(u) <= faults'["lost"]
  BY <1>2, <1>3, <1>4
<1> QED
  BY <1>2, <1>5 DEF LateOK

\* An attempt begins.
LEMMA InvokeOK ==
  ASSUME IInv, NEW r \in Runs, NEW i \in Ids, Invoke(r, i)
  PROVE  IInv'
<1>1. /\ shard[r][i].status = "backoff" \/ (shard[r][i].status = "waiting" /\ Slot(r))
      /\ shard' = [shard EXCEPT ![r][i].status = "running"]
      /\ UNCHANGED <<phase, retries, summary, late, worked, faults>>
  BY DEF Invoke
<1>2. PICK n \in 0 .. ShardRetries : n = shard[r][i].retries
  BY ShardTypes DEF IInv
<1>3a. PICK s \in Shards : s = shard[r][i]
  BY ShardTypes DEF IInv
<1>3. PICK t : t = Moved(s, "running", n)
  OBVIOUS
<1>4. /\ t \in Shards /\ t.status = "running"
      /\ t.range_start = shard[r][i].range_start
      /\ t.range_end = shard[r][i].range_end
  BY <1>2, <1>3, <1>3a, ShardBecomes, StatusesAre
<1>5. shard' = [shard EXCEPT ![r][i] = t]
  BY <1>1, <1>2, <1>3, <1>3a DEF IInv, TypeInv, Shards, Moved
<1>6. shard'[r][i] = t
  BY <1>4, <1>5, ShardAfter DEF IInv
<1>7. /\ faults' \in [FaultKinds -> Nat] /\ \A k \in FaultKinds : faults'[k] >= faults[k]
  BY <1>1, NoFaults DEF IInv
<1>8. ShardOK(r, i)'
  BY <1>1, <1>4, <1>6 DEF IInv, ShardOK
<1>9. LateOK'
  BY <1>1, <1>7, OwedStays DEF IInv
<1>10. /\ late' \in [Runs -> [Ids -> Nat]] /\ worked' \in [Runs -> [Ids -> Nat]]
       /\ \A q \in Runs \ {r} : late'[q] = late[q] /\ worked'[q] = worked[q]
       /\ \A j \in Ids \ {i} : late'[r][j] = late[r][j] /\ worked'[r][j] = worked[r][j]
  BY <1>1 DEF IInv, TypeInv
<1> QED
  BY <1>1, <1>4, <1>5, <1>7, <1>8, <1>9, <1>10, ShardStep

\* process returns.
LEMMA ProcessOK ==
  ASSUME IInv, NEW r \in Runs, NEW i \in Ids, Process(r, i)
  PROVE  IInv'
<1>1. /\ shard[r][i].status = "running"
      /\ shard' = [shard EXCEPT ![r][i].status = "SUCCEEDED"]
      /\ worked' = [worked EXCEPT ![r][i] = @ + 1]
      /\ UNCHANGED <<phase, retries, summary, late, faults>>
  BY DEF Process
<1>2. PICK n \in 0 .. ShardRetries : n = shard[r][i].retries
  BY ShardTypes DEF IInv
<1>3a. PICK s \in Shards : s = shard[r][i]
  BY ShardTypes DEF IInv
<1>3. PICK t : t = Moved(s, "SUCCEEDED", n)
  OBVIOUS
<1>4. /\ t \in Shards /\ t.status = "SUCCEEDED"
      /\ t.range_start = shard[r][i].range_start
      /\ t.range_end = shard[r][i].range_end
  BY <1>2, <1>3, <1>3a, ShardBecomes, StatusesAre
<1>5. shard' = [shard EXCEPT ![r][i] = t]
  BY <1>1, <1>2, <1>3, <1>3a DEF IInv, TypeInv, Shards, Moved
<1>6. shard'[r][i] = t
  BY <1>4, <1>5, ShardAfter DEF IInv
<1>7. /\ faults' \in [FaultKinds -> Nat] /\ \A k \in FaultKinds : faults'[k] >= faults[k]
  BY <1>1, NoFaults DEF IInv
<1>8. /\ late' \in [Runs -> [Ids -> Nat]] /\ worked' \in [Runs -> [Ids -> Nat]]
      /\ worked'[r][i] = worked[r][i] + 1 /\ worked[r][i] \in Nat
      /\ \A q \in Runs \ {r} : late'[q] = late[q] /\ worked'[q] = worked[q]
      /\ \A j \in Ids \ {i} : late'[r][j] = late[r][j] /\ worked'[r][j] = worked[r][j]
  BY <1>1 DEF IInv, TypeInv
<1>9. ShardOK(r, i)'
  BY <1>1, <1>4, <1>6, <1>8 DEF IInv, ShardOK
<1>10. LateOK'
  BY <1>1, <1>7, OwedStays DEF IInv
<1> QED
  BY <1>1, <1>4, <1>5, <1>7, <1>8, <1>9, <1>10, ShardStep

\* An attempt fails: the shard is given up on after its last one.
LEMMA TaskErrorOK ==
  ASSUME IInv, NEW r \in Runs, NEW i \in Ids, TaskError(r, i),
         UNCHANGED <<summary, worked>>, late' \in [Runs -> [Ids -> Nat]],
         \A q \in Runs \ {r} : late'[q] = late[q],
         \A j \in Ids \ {i} : late'[r][j] = late[r][j],
         late'[r][i] = late[r][i] \/ faults'["lost"] > 0,
         faults' \in [FaultKinds -> Nat], \A k \in FaultKinds : faults'[k] >= faults[k],
         LateOK'
  PROVE  IInv'
<1>1. /\ shard[r][i].status = "running" /\ UNCHANGED <<phase, retries>>
      /\ IF shard[r][i].retries < ShardRetries
         THEN shard' = [shard EXCEPT ![r][i].status = "backoff", ![r][i].retries = @ + 1]
         ELSE shard' = [shard EXCEPT ![r][i].status = "FAILED"]
  BY DEF TaskError
<1>2. PICK m \in 0 .. ShardRetries : m = shard[r][i].retries
  BY ShardTypes DEF IInv
<1>3. PICK t \in Shards : /\ shard' = [shard EXCEPT ![r][i] = t]
                          /\ t.status \in {"backoff", "FAILED"}
                          /\ t.status = "FAILED" => t.retries = ShardRetries
                          /\ t.range_start = shard[r][i].range_start
                          /\ t.range_end = shard[r][i].range_end
  <2>1. CASE m < ShardRetries
    <3>1. PICK n \in 0 .. ShardRetries : n = m + 1
      BY <2>1, BatchTypes
    <3>2a. PICK s \in Shards : s = shard[r][i]
      BY ShardTypes DEF IInv
    <3>2. PICK t : t = Moved(s, "backoff", n)
      OBVIOUS
    <3>3. /\ t \in Shards /\ t.status = "backoff"
          /\ t.range_start = shard[r][i].range_start
          /\ t.range_end = shard[r][i].range_end
      <4>1. n \in 0 .. ShardRetries
        BY <3>1
      <4>2. /\ Moved(s, "backoff", n) \in Shards /\ Moved(s, "backoff", n).status = "backoff"
            /\ Moved(s, "backoff", n).range_start = s.range_start
            /\ Moved(s, "backoff", n).range_end = s.range_end
        <5>1. s \in Shards /\ "backoff" \in Statuses
          BY <3>2a, StatusesAre
        <5> QED
          BY <4>1, <5>1, ShardBecomes
      <4> QED
        BY <3>2, <3>2a, <4>2
    <3>4. shard' = [shard EXCEPT ![r][i].status = "backoff", ![r][i].retries = @ + 1]
      BY <1>1, <1>2, <2>1
    <3>5. shard[r][i] \in Shards /\ shard[r][i].retries + 1 = n
      BY <1>2, <3>1, ShardTypes DEF IInv
    <3>6. shard' = [shard EXCEPT ![r][i] = t]
      BY <3>2, <3>2a, <3>4, <3>5 DEF IInv, TypeInv, Shards, Moved
    <3> QED
      BY <3>3, <3>6
  <2>2. CASE ~ (m < ShardRetries)
    <3>1. m = ShardRetries
      <4>1. ShardRetries \in Nat
        BY BatchTypes
      <4>2. m \in Int /\ m <= ShardRetries
        BY <1>2, <4>1
      <4> QED
        BY <2>2, <4>1, <4>2
    <3>2a. PICK s \in Shards : s = shard[r][i]
      BY ShardTypes DEF IInv
    <3>2. PICK t : t = Moved(s, "FAILED", m)
      OBVIOUS
    <3>3. shard' = [shard EXCEPT ![r][i] = t]
      BY <1>1, <1>2, <2>2, <3>2, <3>2a DEF IInv, TypeInv, Shards, Moved
    <3>4. /\ t \in Shards /\ t.status = "FAILED" /\ t.retries = m
          /\ t.range_start = shard[r][i].range_start
          /\ t.range_end = shard[r][i].range_end
      BY <1>2, <3>2, <3>2a, ShardBecomes, StatusesAre
    <3> QED
      BY <3>1, <3>3, <3>4
  <2> QED
    BY <2>1, <2>2
<1>4. shard'[r][i] = t
  BY <1>3, ShardAfter DEF IInv
<1>5. faults'["lost"] = 0 => faults["lost"] = 0 /\ late'[r][i] = late[r][i]
  BY Kinds DEF IInv, TypeInv
<1>6. ShardOK(r, i)'
  BY <1>1, <1>3, <1>4, <1>5 DEF IInv, ShardOK
<1>7. /\ worked' \in [Runs -> [Ids -> Nat]]
      /\ \A q \in Runs \ {r} : late'[q] = late[q] /\ worked'[q] = worked[q]
      /\ \A j \in Ids \ {i} : late'[r][j] = late[r][j] /\ worked'[r][j] = worked[r][j]
  BY DEF IInv, TypeInv
<1> QED
  BY <1>1, <1>3, <1>6, <1>7, ShardStep

LEMMA AttemptFailsOK ==
  ASSUME IInv, NEW r \in Runs, NEW i \in Ids, AttemptFails(r, i)
  PROVE  IInv'
<1>1. /\ TaskError(r, i) /\ UNCHANGED <<summary, late, worked>>
      /\ Fault("raise") \/ Fault("throttle")
  BY DEF AttemptFails
<1>2. /\ faults' \in [FaultKinds -> Nat] /\ \A k \in FaultKinds : faults'[k] >= faults[k]
  BY <1>1, Kinds, FaultCounts DEF IInv
<1>3. LateOK'
  BY <1>1, <1>2, OwedStays DEF IInv
<1>4. late' \in [Runs -> [Ids -> Nat]]
  BY <1>1 DEF IInv, TypeInv
<1> QED
  BY <1>1, <1>2, <1>3, <1>4, TaskErrorOK

\* The response of an attempt is lost: one more invocation nobody waits for, and
\* one more lost response.
LEMMA AttemptIsLostOK ==
  ASSUME IInv, NEW r \in Runs, NEW i \in Ids, AttemptIsLost(r, i)
  PROVE  IInv'
<1>1. /\ TaskError(r, i) /\ UNCHANGED <<summary, worked>> /\ Fault("lost")
      /\ late' = [late EXCEPT ![r][i] = @ + 1]
  BY DEF AttemptIsLost
<1>2. /\ faults' \in [FaultKinds -> Nat] /\ \A k \in FaultKinds : faults'[k] >= faults[k]
      /\ faults'["lost"] = faults["lost"] + 1 /\ faults["lost"] \in Nat
  BY <1>1, Kinds, FaultCounts DEF IInv
<1>3. PICK u : u = late
  OBVIOUS
<1>4. u \in [Runs -> [Ids -> Nat]] /\ Owed(u) <= faults["lost"]
  BY <1>3 DEF IInv, TypeInv, LateOK
<1>5. PICK v : v = [u EXCEPT ![r][i] = @ + 1]
  OBVIOUS
<1>6. /\ v \in [Runs -> [Ids -> Nat]] /\ v[r][i] = u[r][i] + 1 /\ u[r][i] \in Nat
      /\ \A q \in Runs \ {r} : v[q] = u[q]
      /\ \A j \in Ids \ {i} : v[r][j] = u[r][j]
  BY <1>4, <1>5
<1>7. late' = v
  BY <1>1, <1>3, <1>5
<1>8. Owed(v) = Owed(u) + 1 /\ Owed(u) \in Nat
  <2>1. Owed(u) \in Nat /\ Owed(v) \in Nat /\ Owed(v) + u[r][i] = Owed(u) + v[r][i]
    BY <1>4, <1>6, OwedChanges
  <2>2. PICK a \in Nat, x \in Nat, y \in Nat : a = u[r][i] /\ x = Owed(u) /\ y = Owed(v)
    BY <1>6, <2>1
  <2>3. y + a = x + (a + 1)
    BY <1>6, <2>1, <2>2
  <2>4. y = x + 1
    BY <2>3
  <2> QED
    BY <2>2, <2>4
<1>9. LateOK'
  <2>1. Owed(v) <= faults'["lost"]
    BY <1>2, <1>4, <1>8
  <2> QED
    BY <1>7, <2>1 DEF LateOK
<1>10. faults'["lost"] > 0
  BY <1>2
<1>11. /\ late' \in [Runs -> [Ids -> Nat]]
       /\ \A q \in Runs \ {r} : late'[q] = late[q]
       /\ \A j \in Ids \ {i} : late'[r][j] = late[r][j]
  BY <1>3, <1>6, <1>7
<1> QED
  BY <1>1, <1>2, <1>9, <1>10, <1>11, TaskErrorOK

\* An invocation nobody waits for comes to its end: there was a lost response.
LEMMA EndLateOK ==
  ASSUME IInv, NEW r \in Runs, NEW i \in Ids, EndLate(r, i)
  PROVE  IInv'
<1>1. /\ late[r][i] > 0 /\ late' = [late EXCEPT ![r][i] = @ - 1]
      /\ worked' = [worked EXCEPT ![r][i] = @ + 1]
      /\ UNCHANGED <<phase, retries, shard, summary, faults>>
  BY DEF EndLate
<1>2. PICK u : u = late
  OBVIOUS
<1>3. u \in [Runs -> [Ids -> Nat]] /\ Owed(u) <= faults["lost"] /\ u[r][i] > 0
  BY <1>1, <1>2 DEF IInv, TypeInv, LateOK
<1>4. PICK v : v = [u EXCEPT ![r][i] = @ - 1]
  OBVIOUS
<1>5. /\ v \in [Runs -> [Ids -> Nat]] /\ v[r][i] = u[r][i] - 1 /\ u[r][i] \in Nat
      /\ v[r][i] \in Nat
      /\ \A q \in Runs \ {r} : v[q] = u[q]
      /\ \A j \in Ids \ {i} : v[r][j] = u[r][j]
  BY <1>3, <1>4
<1>6. late' = v
  BY <1>1, <1>2, <1>4
<1>7. Owed(v) <= Owed(u) /\ Owed(u) \in Nat /\ Owed(v) \in Nat
  <2>1. Owed(u) \in Nat /\ Owed(v) \in Nat /\ Owed(v) + u[r][i] = Owed(u) + v[r][i]
    BY <1>3, <1>5, OwedChanges
  <2>2. PICK a \in Nat, b \in Nat, x \in Nat, y \in Nat :
          a = u[r][i] /\ b = v[r][i] /\ x = Owed(u) /\ y = Owed(v)
    BY <1>5, <2>1
  <2>3. y + a = x + b /\ b = a - 1
    BY <1>5, <2>1, <2>2
  <2>4. y <= x
    BY <2>3
  <2> QED
    BY <2>1, <2>2, <2>4
<1>8. faults["lost"] \in Nat
  BY Kinds DEF IInv, TypeInv
<1>9. LateOK'
  <2>1. Owed(v) <= faults["lost"]
    BY <1>3, <1>7, <1>8
  <2> QED
    BY <1>1, <1>6, <2>1 DEF LateOK
<1>10. /\ worked' \in [Runs -> [Ids -> Nat]] /\ worked'[r][i] > 0
       /\ \A q \in Runs \ {r} : late'[q] = late[q] /\ worked'[q] = worked[q]
       /\ \A j \in Ids \ {i} : late'[r][j] = late[r][j] /\ worked'[r][j] = worked[r][j]
  BY <1>1, <1>2, <1>5, <1>6 DEF IInv, TypeInv
<1>11. TypeInv'
  BY <1>1, <1>5, <1>6, <1>10 DEF IInv, TypeInv
<1>12. /\ faults' \in [FaultKinds -> Nat] /\ \A k \in FaultKinds : faults'[k] >= faults[k]
  BY <1>1, NoFaults DEF IInv
<1>13. \A q \in Runs \ {r} : /\ \A j \in Ids : ShardOK(q, j)'
                             /\ PhaseOK(q)' /\ FaultsOK(q)' /\ CapOK(q)'
  BY <1>1, <1>10, <1>12, OtherRun
<1>14. \A j \in Ids \ {i} : ShardOK(r, j)'
  BY <1>1, <1>10, <1>12, ShardKeeps DEF IInv
<1>15. ShardOK(r, i)'
  <2>1. faults["lost"] # 0
    BY <1>1 DEF IInv, ShardOK
  <2> QED
    BY <1>1, <1>10, <2>1 DEF IInv, ShardOK
<1>16. PhaseOK(r)' /\ FaultsOK(r)' /\ CapOK(r)'
  BY <1>1, <1>12, SameSummary, FaultsKeep, CapKeeps DEF IInv, PhaseOK
<1> QED
  BY <1>9, <1>11, <1>13, <1>14, <1>15, <1>16 DEF IInv

-----------------------------------------------------------------------------
(* The invariant holds.                                                    *)

LEMMA InitOK == Init => IInv
<1> SUFFICES ASSUME Init PROVE IInv
  OBVIOUS
<1>1. TypeInv
  <2>1. /\ NoShard \in Shards /\ 0 \in 0 .. StageRetries /\ "off" \in Phases
    BY BatchTypes DEF NoShard, Shards, Statuses, Phases
  <2> QED
    BY <2>1 DEF Init, TypeInv
<1>2. LateOK
  <2>1. PICK u : u = late
    OBVIOUS
  <2>2. u \in [Runs -> [Ids -> Nat]] /\ \A r \in Runs : \A i \in Ids : u[r][i] = 0
    BY <2>1 DEF Init
  <2>3. ASSUME NEW r \in Runs PROVE SumFunctionOnSet(u[r], Ids) = 0
    <3>1. \A i \in Ids : u[r][i] = 0
      BY <2>2
    <3>2. SumFunctionOnSet(u[r], Ids) = 0 * Cardinality(Ids)
      BY <3>1, BatchTypes, SumOfEquals
    <3> QED
      BY <3>2, BatchTypes
  <2> DEFINE f == [r \in Runs |-> SumFunctionOnSet(u[r], Ids)]
  <2>4. \A r \in Runs : f[r] = 0
    BY <2>3
  <2>5. Owed(u) = SumFunctionOnSet(f, Runs)
    BY DEF Owed
  <2> HIDE DEF f
  <2>6. SumFunctionOnSet(f, Runs) = 0 * Cardinality(Runs) /\ Cardinality(Runs) \in Nat
    BY <2>4, BatchTypes, SumOfEquals, FS_CardinalityType
  <2>7. Owed(u) = 0
    BY <2>5, <2>6
  <2>8. faults["lost"] = 0
    BY Kinds DEF Init
  <2> QED
    BY <2>1, <2>7, <2>8 DEF LateOK
<1>3. ASSUME NEW r \in Runs, NEW i \in Ids PROVE ShardOK(r, i)
  BY DEF Init, ShardOK, NoShard
<1>4. ASSUME NEW r \in Runs PROVE PhaseOK(r) /\ FaultsOK(r) /\ CapOK(r)
  <2>1. PhaseOK(r)
    BY DEF Init, PhaseOK, NoShard
  <2>2. FaultsOK(r)
    <3>1. retries[r] = 0 /\ faults["throttle"] = 0 /\ faults["lost"] = 0 /\ phase[r] = "off"
      BY Kinds DEF Init
    <3> QED
      BY <3>1 DEF FaultsOK
  <2>3. CapOK(r)
    <3>1. Iterating(r) = {}
      BY DEF Init, Iterating, NoShard
    <3> QED
      BY <3>1, FS_EmptySet, BatchTypes DEF CapOK
  <2> QED
    BY <2>1, <2>2, <2>3
<1> QED
  BY <1>1, <1>2, <1>3, <1>4 DEF IInv

LEMMA NextOK ==
  ASSUME IInv, [Next]_vars
  PROVE  IInv'
<1>1. CASE UNCHANGED vars
  <2>1. TypeInv' /\ LateOK'
    BY <1>1 DEF vars, IInv, TypeInv, LateOK, Owed
  <2>2. /\ faults' \in [FaultKinds -> Nat] /\ \A k \in FaultKinds : faults'[k] >= faults[k]
    BY <1>1, NoFaults DEF IInv, vars
  <2>3. \A q \in Runs : /\ \A j \in Ids : ShardOK(q, j)'
                        /\ PhaseOK(q)' /\ FaultsOK(q)' /\ CapOK(q)'
    BY <1>1, <2>2, OtherRun DEF vars
  <2> QED
    BY <2>1, <2>3 DEF IInv
<1>2. ASSUME NEW r \in Runs, Start(r) \/ StageFails(r) PROVE IInv'
  BY <1>2, StartOK, StageFailsOK
<1>3. ASSUME NEW r \in Runs, Workflow(r) PROVE IInv'
  BY <1>3, SplitOK, EndMapOK, ReduceOK, InvokeOK, ProcessOK DEF Workflow
<1>4. ASSUME NEW r \in Runs, NEW i \in Ids,
             AttemptFails(r, i) \/ AttemptIsLost(r, i) \/ EndLate(r, i)
      PROVE  IInv'
  BY <1>4, AttemptFailsOK, AttemptIsLostOK, EndLateOK
<1> QED
  BY <1>1, <1>2, <1>3, <1>4 DEF Next

\* The inductive invariant of the scheduled batch holds of every execution: types,
\* the ranges of the shards, what they were worked on, the slots of the Map state,
\* the invocations nobody waits for, and the faults behind every retry.
THEOREM Invariance == Spec => []IInv
<1>1. Init => IInv
  BY InitOK
<1>2. IInv /\ [Next]_vars => IInv'
  BY NextOK
<1> QED
  BY <1>1, <1>2, PTL DEF Spec

\* A failing shard does not fail its run: a run fails only because split or reduce
\* raised or its response was lost, or because they were refused more often than
\* they are retried; and a shard is reported as failed only after its last attempt.
THEOREM ShardsNeverFailRuns == Spec => []ShardsDoNotFailRuns
<1>1. IInv => ShardsDoNotFailRuns
  BY DEF IInv, FaultsOK, ShardOK, ShardsDoNotFailRuns, With
<1> QED
  BY <1>1, Invariance, PTL

-----------------------------------------------------------------------------
(* The concurrency cap.                                                    *)

\* The invocations at work for a run.
LEMMA WorkOfRun ==
  ASSUME IInv, NEW r \in Runs
  PROVE  /\ Cardinality(With(shard[r], "running")) \in Nat
         /\ Cardinality(With(shard[r], "running")) <= MaxConcurrency
         /\ phase[r] # "ProcessShards" => Cardinality(With(shard[r], "running")) = 0
         /\ SumFunctionOnSet(late[r], Ids) \in Nat
         /\ SumFunctionOnSet(late[r], Ids) <= Owed(late)
         /\ Owed(late) \in Nat /\ Owed(late) <= faults["lost"] /\ faults["lost"] \in Nat
<1> DEFINE W == With(shard[r], "running")
           It == Iterating(r)
<1>1. W \subseteq It /\ It \subseteq Ids
  BY DEF With, Iterating
<1>2. IsFiniteSet(It)
  BY <1>1, BatchTypes, FS_Subset
<1>3. IsFiniteSet(W) /\ Cardinality(W) <= Cardinality(It)
  BY <1>1, <1>2, FS_Subset
<1>4. Cardinality(W) \in Nat /\ Cardinality(It) \in Nat
  BY <1>2, <1>3, FS_CardinalityType
<1>5. Cardinality(It) <= MaxConcurrency
  BY DEF IInv, CapOK
<1>6. Cardinality(W) <= MaxConcurrency
  BY <1>3, <1>4, <1>5, BatchTypes
<1>7. phase[r] # "ProcessShards" => Cardinality(W) = 0
  <2>1. phase[r] # "ProcessShards" => W = {}
    BY DEF IInv, PhaseOK, With
  <2> QED
    BY <2>1, FS_EmptySet
<1>8. PICK u : u = late
  OBVIOUS
<1>9. u \in [Runs -> [Ids -> Nat]]
  BY <1>8 DEF IInv, TypeInv
<1>10. /\ SumFunctionOnSet(u[r], Ids) \in Nat /\ Owed(u) \in Nat
       /\ SumFunctionOnSet(u[r], Ids) <= Owed(u)
  BY <1>9, OwedByOne
<1>11. Owed(late) <= faults["lost"] /\ faults["lost"] \in Nat
  BY Kinds DEF IInv, LateOK, TypeInv
<1> QED
  BY <1>4, <1>6, <1>7, <1>8, <1>10, <1>11

LEMMA CapIsKept == IInv => CapHoldsPerRun
<1> SUFFICES ASSUME IInv PROVE CapHoldsPerRun
  OBVIOUS
<1> DEFINE M == {r \in Runs : phase[r] = "ProcessShards"}
<1>1. ASSUME NEW r \in Runs PROVE AtWork(r) <= MaxConcurrency + faults["lost"]
  <2>1. PICK a \in Nat, b \in Nat, c \in Nat, d \in Nat :
          /\ a = Cardinality(With(shard[r], "running")) /\ b = SumFunctionOnSet(late[r], Ids)
          /\ c = Owed(late) /\ d = faults["lost"]
    BY WorkOfRun
  <2>2. a <= MaxConcurrency /\ b <= c /\ c <= d
    BY <2>1, WorkOfRun
  <2>3. AtWork(r) = a + b
    BY <2>1 DEF AtWork
  <2> QED
    BY <2>1, <2>2, <2>3, BatchTypes
<1>2. PICK f, g, h, m : /\ f = [r \in Runs |-> AtWork(r)]
                        /\ g = [r \in Runs |-> Cardinality(With(shard[r], "running"))]
                        /\ h = [r \in Runs |-> SumFunctionOnSet(late[r], Ids)]
                        /\ m = M
  OBVIOUS
<1>3. ASSUME NEW r \in Runs
      PROVE  /\ g[r] \in Nat /\ h[r] \in Nat /\ f[r] = g[r] + h[r]
             /\ g[r] <= MaxConcurrency /\ (r \notin m => g[r] = 0)
  <2>1. /\ f[r] = AtWork(r) /\ g[r] = Cardinality(With(shard[r], "running"))
        /\ h[r] = SumFunctionOnSet(late[r], Ids)
    BY <1>2
  <2> QED
    BY <1>2, <2>1, WorkOfRun DEF AtWork
<1>4. SumFunctionOnSet(f, Runs) = SumFunctionOnSet(g, Runs) + SumFunctionOnSet(h, Runs)
  BY <1>3, BatchTypes, SumsAdd
<1>5. SumFunctionOnSet(g, Runs) <= MaxConcurrency * Cardinality(m)
  <2>1. /\ m \in SUBSET Runs /\ MaxConcurrency \in Nat
        /\ \A r \in m : g[r] \in Nat /\ g[r] <= MaxConcurrency
        /\ \A r \in Runs \ m : g[r] = 0
    BY <1>2, <1>3, BatchTypes
  <2> QED
    BY <2>1, BatchTypes, SumOfPart
<1>6. SumFunctionOnSet(h, Runs) = Owed(late)
  BY <1>2 DEF Owed
<1>7. SumFunctionOnSet(g, Runs) \in Nat /\ SumFunctionOnSet(h, Runs) \in Nat
  BY <1>3, BatchTypes, SumOfMembers
<1>8. MaxConcurrency * Cardinality(m) \in Nat
  <2>1. IsFiniteSet(m)
    BY <1>2, BatchTypes, FS_Subset
  <2>2. Cardinality(m) \in Nat
    BY <2>1, FS_CardinalityType
  <2> QED
    BY <2>2, BatchTypes
<1>9. Owed(late) <= faults["lost"] /\ faults["lost"] \in Nat
  BY Kinds DEF IInv, LateOK, TypeInv
<1>10. PICK a \in Nat, b \in Nat, c \in Nat, d \in Nat :
         /\ a = SumFunctionOnSet(g, Runs) /\ b = SumFunctionOnSet(h, Runs)
         /\ c = MaxConcurrency * Cardinality(m) /\ d = faults["lost"]
  BY <1>7, <1>8, <1>9
<1>11. a <= c /\ b <= d
  BY <1>5, <1>6, <1>9, <1>10
<1>12. SumFunctionOnSet(f, Runs) <= c + d
  BY <1>4, <1>10, <1>11
<1> QED
  BY <1>1, <1>2, <1>10, <1>12 DEF CapHoldsPerRun

\* The invocations of process at work are within the cap for a run, and within as
\* many caps as there are runs in the Map state, but for those whose response was
\* lost.
THEOREM CapHolds == Spec => []CapHoldsPerRun
BY CapIsKept, Invariance, PTL

-----------------------------------------------------------------------------
(* The ranges of the shards are disjoint and together are the records.     *)

Block(i) == {x \in Nat : i * RangeSize <= x /\ x < (i + 1) * RangeSize}
Cover(W) == {x \in Nat : \E i \in W : x \in Block(i)}

LEMMA BlockEnds ==
  ASSUME NEW i \in Nat
  PROVE  i * RangeSize \in Nat /\ (i + 1) * RangeSize = i * RangeSize + RangeSize
<1>1. PICK R \in Nat : R = RangeSize
  BY BatchTypes
<1>2. i * R \in Nat /\ (i + 1) * R = i * R + R
  OBVIOUS
<1> QED
  BY <1>1, <1>2

LEMMA BlocksApart ==
  ASSUME NEW i \in Nat, NEW j \in Nat, i < j
  PROVE  (i + 1) * RangeSize <= j * RangeSize
<1>1. PICK R \in Nat : R = RangeSize
  BY BatchTypes
<1>2. PICK k \in Nat : j = (i + 1) + k
  <2>1. j - (i + 1) \in Nat /\ j = (i + 1) + (j - (i + 1))
    OBVIOUS
  <2> QED
    BY <2>1
<1>3. ((i + 1) + k) * R = (i + 1) * R + k * R /\ k * R \in Nat /\ (i + 1) * R \in Nat
  OBVIOUS
<1> QED
  BY <1>1, <1>2, <1>3

LEMMA OneBlock ==
  ASSUME NEW i \in Nat, NEW j \in Nat, NEW x \in Block(i), x \in Block(j)
  PROVE  i = j
<1>1. PICK a \in Nat, b \in Nat, c \in Nat, d \in Nat :
        /\ a = i * RangeSize /\ b = (i + 1) * RangeSize
        /\ c = j * RangeSize /\ d = (j + 1) * RangeSize
  <2>1. i + 1 \in Nat /\ j + 1 \in Nat
    OBVIOUS
  <2> QED
    BY <2>1, BlockEnds
<1>2. x \in Nat /\ a <= x /\ x < b /\ c <= x /\ x < d
  BY <1>1 DEF Block
<1>3. i < j => b <= c
  BY <1>1, BlocksApart
<1>4. j < i => d <= a
  BY <1>1, BlocksApart
<1> QED
  BY <1>2, <1>3, <1>4

LEMMA BlockSize ==
  ASSUME NEW i \in Nat
  PROVE  IsFiniteSet(Block(i)) /\ Cardinality(Block(i)) = RangeSize
<1>1. PICK a \in Nat, R \in Nat \ {0} : a = i * RangeSize /\ R = RangeSize
  BY BlockEnds, BatchTypes
<1>2. (i + 1) * RangeSize = a + R
  BY <1>1, BlockEnds
<1>3. Block(i) = a .. (a + R - 1)
  BY <1>1, <1>2 DEF Block
<1>4. a \in Int /\ a + R - 1 \in Int /\ ~ (a > a + R - 1) /\ (a + R - 1) - a + 1 = R
  OBVIOUS
<1>5. /\ IsFiniteSet(a .. (a + R - 1))
      /\ Cardinality(a .. (a + R - 1)) =
           IF a > a + R - 1 THEN 0 ELSE (a + R - 1) - a + 1
  BY <1>4, FS_Interval
<1> QED
  BY <1>1, <1>3, <1>4, <1>5

\* Some shards cover as many records as their ranges have.
LEMMA CoverSize ==
  ASSUME NEW W \in SUBSET Ids
  PROVE  IsFiniteSet(Cover(W)) /\ Cardinality(Cover(W)) = RangeSize * Cardinality(W)
<1> DEFINE P == {T \in SUBSET Ids : /\ IsFiniteSet(Cover(T))
                                   /\ Cardinality(Cover(T)) = RangeSize * Cardinality(T)}
<1>1. ASSUME NEW T \in SUBSET Ids, \A x \in T : T \ {x} \in P PROVE T \in P
  <2>1. IsFiniteSet(T) /\ Cardinality(T) \in Nat
    BY BatchTypes, FS_Subset, FS_CardinalityType
  <2>2. CASE T = {}
    <3>1. Cover(T) = {} /\ RangeSize * Cardinality(T) = 0
      BY <2>2, FS_EmptySet, BatchTypes DEF Cover
    <3> QED
      BY <3>1, FS_EmptySet
  <2>3. CASE T # {}
    <3>1. PICK i \in T : TRUE
      BY <2>3
    <3>2. PICK m \in Nat : m = Cardinality(T \ {i}) /\ Cardinality(T) = m + 1
      <4>1. IsFiniteSet(T \ {i}) /\ Cardinality(T \ {i}) = Cardinality(T) - 1
        BY <2>1, FS_RemoveElement
      <4>2. Cardinality(T \ {i}) \in Nat
        BY <4>1, FS_CardinalityType
      <4> QED
        BY <2>1, <4>1, <4>2
    <3>3. PICK R \in Nat : R = RangeSize
      BY BatchTypes
    <3>4. IsFiniteSet(Cover(T \ {i})) /\ Cardinality(Cover(T \ {i})) = R * m
      BY <1>1, <3>2, <3>3
    <3>5. IsFiniteSet(Block(i)) /\ Cardinality(Block(i)) = R
      BY <3>3, BlockSize, BatchTypes
    <3>6. Cover(T) = Cover(T \ {i}) \cup Block(i)
      BY DEF Cover, Block
    <3>7. Cover(T \ {i}) \cap Block(i) = {}
      <4> SUFFICES ASSUME NEW x \in Block(i), x \in Cover(T \ {i}) PROVE FALSE
        OBVIOUS
      <4>1. PICK j \in T \ {i} : x \in Block(j)
        BY DEF Cover
      <4>2. i \in Nat /\ j \in Nat /\ i # j
        BY <4>1, BatchTypes
      <4> QED
        BY <4>1, <4>2, OneBlock
    <3>8. /\ IsFiniteSet(Cover(T))
          /\ Cardinality(Cover(T)) = R * m + R - Cardinality(Cover(T \ {i}) \cap Block(i))
      BY <3>4, <3>5, <3>6, FS_Union
    <3>9. Cardinality(Cover(T \ {i}) \cap Block(i)) = 0
      BY <3>7, FS_EmptySet
    <3>10. R * (m + 1) = R * m + R /\ R * m \in Nat
      OBVIOUS
    <3>11. Cardinality(Cover(T)) = R * (m + 1)
      BY <3>8, <3>9, <3>10
    <3> QED
      BY <3>2, <3>3, <3>8, <3>11
  <2> QED
    BY <2>2, <2>3
<1> HIDE DEF P
<1>2. \A T \in SUBSET Ids : T \in P
  BY <1>1, BatchTypes, SubsetInduction
<1> QED
  BY <1>2 DEF P

\* All of them cover the records.
LEMMA CoverAll == Cover(Ids) = Records
<1>1. PICK B \in Nat, R \in Nat \ {0} : B = BatchShards /\ R = RangeSize
  BY BatchTypes
<1>2. Ids = 0 .. (B - 1) /\ Records = {x \in Nat : x < B * R}
  <2>1. B * R \in Nat
    OBVIOUS
  <2> QED
    BY <1>1, <2>1 DEF Ids, Records
<1>3. ASSUME NEW x \in Cover(Ids) PROVE x \in Records
  <2>1. PICK i \in Ids : x \in Block(i)
    BY DEF Cover
  <2>2. i \in Nat /\ i < B
    BY <1>2
  <2>3. (i + 1) * R <= B * R
    BY <1>1, <2>2, BlocksApart
  <2>4. x \in Nat /\ x < (i + 1) * R /\ (i + 1) * R \in Nat /\ B * R \in Nat
    BY <1>1, <2>1, <2>2 DEF Block
  <2> QED
    BY <1>2, <2>3, <2>4
<1> DEFINE Good == {m \in Nat : \A x \in Nat : x < m * R =>
                                   \E i \in Nat : i < m /\ x \in Block(i)}
<1>4. 0 \in Good
  OBVIOUS
<1>5. ASSUME NEW m \in Nat, m \in Good PROVE m + 1 \in Good
  <2>1. ASSUME NEW x \in Nat, x < (m + 1) * R
        PROVE  \E i \in Nat : i < m + 1 /\ x \in Block(i)
    <3>1. CASE x < m * R
      BY <1>5, <3>1
    <3>2. CASE ~ (x < m * R)
      <4>1. m * R \in Nat
        OBVIOUS
      <4>2. x \in Block(m)
        BY <1>1, <2>1, <3>2, <4>1 DEF Block
      <4> QED
        BY <4>2
    <3> QED
      BY <3>1, <3>2
  <2> QED
    BY <2>1
<1> HIDE DEF Good
<1>6. \A m \in Nat : m \in Good
  BY <1>4, <1>5, Induction
<1>7. ASSUME NEW x \in Records PROVE x \in Cover(Ids)
  <2>1. x \in Nat /\ x < B * R
    BY <1>2
  <2>2. PICK i \in Nat : i < B /\ x \in Block(i)
    BY <1>6, <2>1 DEF Good
  <2>3. i \in Ids
    BY <1>2, <2>2
  <2> QED
    BY <2>1, <2>2, <2>3 DEF Cover
<1> QED
  BY <1>3, <1>7

-----------------------------------------------------------------------------
(* The summary.                                                            *)

\* A record was processed as often as its shard was worked on.
LEMMA EffectsOfShard ==
  ASSUME IInv, NEW r \in Runs, \A j \in Ids : shard[r][j].status # "none",
         NEW i \in Ids, NEW x \in Block(i)
  PROVE  Effects(r, x) = worked[r][i]
<1>1. \A j \in Ids : /\ shard[r][j].range_start = j * RangeSize
                     /\ shard[r][j].range_end = (j + 1) * RangeSize
  BY DEF IInv, ShardOK
<1>2. \A j \in Ids : /\ shard[r][j].range_start <= x /\ x < shard[r][j].range_end
                     <=> x \in Block(j)
  BY <1>1 DEF Block
<1>3. \A j \in Ids : x \in Block(j) => j = i
  BY OneBlock, BatchTypes
<1>4. {j \in Ids : shard[r][j].range_start <= x /\ x < shard[r][j].range_end} = {i}
  BY <1>2, <1>3
<1>5. PICK w : w = worked[r]
  OBVIOUS
<1>6. w[i] \in Nat
  BY <1>5, ShardTypes DEF IInv
<1>7. SumFunctionOnSet(w, {i}) = w[i] + SumFunctionOnSet(w, {i} \ {i})
  <2>1. IsFiniteSet({i}) /\ \A j \in {i} : w[j] \in Nat
    BY <1>6, FS_Singleton
  <2> QED
    BY <2>1, SumOfMembers
<1>8. SumFunctionOnSet(w, {i} \ {i}) = 0
  <2>1. IsFiniteSet({i} \ {i}) /\ {i} \ {i} = {} /\ \A j \in {i} \ {i} : w[j] \in Nat
    BY FS_EmptySet
  <2> QED
    BY <2>1, SumOfMembers
<1>9. SumFunctionOnSet(w, {i}) = w[i]
  BY <1>6, <1>7, <1>8
<1> QED
  BY <1>4, <1>5, <1>9 DEF Effects

\* What Reduce makes of the shards of a run.
LEMMA SummaryIs ==
  ASSUME IInv, NEW r \in Runs, \A i \in Ids : shard[r][i].status \in {"SUCCEEDED", "FAILED"},
         NEW S, S = With(shard[r], "SUCCEEDED"), NEW F, F = With(shard[r], "FAILED")
  PROVE  LET s == Summarise(shard[r])
         IN  /\ s.shards_succeeded + s.shards_failed = BatchShards
             /\ s.records_processed = Cardinality(Cover(S))
             /\ s.status = "SUCCEEDED" => S = Ids
             /\ s.status = "PARTIAL" <=> s.shards_failed > 0
<1>1. S \cup F = Ids /\ S \cap F = {} /\ S \subseteq Ids /\ F \subseteq Ids
  BY DEF With
<1>2. /\ IsFiniteSet(S) /\ IsFiniteSet(F)
      /\ Cardinality(S) \in Nat /\ Cardinality(F) \in Nat
  BY <1>1, BatchTypes, FS_Subset, FS_CardinalityType
<1>3. Cardinality(S) + Cardinality(F) = BatchShards
  <2>1. Cardinality(Ids) = Cardinality(S) + Cardinality(F) - Cardinality(S \cap F)
    BY <1>1, <1>2, FS_Union
  <2>2. Cardinality(S \cap F) = 0 /\ Cardinality(Ids) = BatchShards
    BY <1>1, FS_EmptySet, BatchTypes
  <2> QED
    BY <1>2, <2>1, <2>2
<1>4. Cardinality(F) > 0 <=> F # {}
  BY <1>2, FS_EmptySet
<1>5. PICK w : w = [i \in Ids |-> shard[r][i].range_end - shard[r][i].range_start]
  OBVIOUS
<1>6. \A i \in S : w[i] = RangeSize
  <2> SUFFICES ASSUME NEW i \in S PROVE w[i] = RangeSize
    OBVIOUS
  <2>1. /\ i \in Ids /\ i \in Nat /\ shard[r][i].range_start = i * RangeSize
        /\ shard[r][i].range_end = (i + 1) * RangeSize
    BY <1>1, BatchTypes DEF IInv, ShardOK
  <2>2. PICK a \in Nat, R \in Nat : a = i * RangeSize /\ R = RangeSize
    BY <2>1, BatchTypes
  <2>3. (i + 1) * RangeSize = a + R
    BY <2>1, <2>2, BlockEnds
  <2>4. w[i] = (a + R) - a
    BY <1>5, <2>1, <2>2, <2>3
  <2> QED
    BY <2>2, <2>4
<1>7. SumFunctionOnSet(w, S) = RangeSize * Cardinality(S)
  BY <1>2, <1>6, BatchTypes, SumOfEquals
<1>8. Cardinality(Cover(S)) = RangeSize * Cardinality(S)
  BY <1>1, CoverSize
<1>9. Summarise(shard[r]) =
        [shards_total |-> BatchShards, shards_succeeded |-> Cardinality(S),
         shards_failed |-> Cardinality(F), records_processed |-> SumFunctionOnSet(w, S),
         status |-> IF F # {} THEN "PARTIAL" ELSE "SUCCEEDED"]
  BY <1>5 DEF Summarise
<1>10. PICK n, m, k : /\ n = Cardinality(S) /\ m = Cardinality(F)
                      /\ k = SumFunctionOnSet(w, S)
  OBVIOUS
<1>11. n + m = BatchShards /\ (m > 0 <=> F # {}) /\ k = Cardinality(Cover(S))
  BY <1>3, <1>4, <1>7, <1>8, <1>10
<1>12. PICK s : /\ s = Summarise(shard[r])
                /\ s = [shards_total |-> BatchShards, shards_succeeded |-> n,
                        shards_failed |-> m, records_processed |-> k,
                        status |-> IF F # {} THEN "PARTIAL" ELSE "SUCCEEDED"]
  BY <1>9, <1>10
<1>13. /\ s.shards_succeeded = n /\ s.shards_failed = m /\ s.records_processed = k
       /\ s.status = IF F # {} THEN "PARTIAL" ELSE "SUCCEEDED"
  BY <1>12
<1>14. s.status = "SUCCEEDED" => S = Ids
  BY <1>1, <1>13
<1>15. s.status = "PARTIAL" <=> s.shards_failed > 0
  BY <1>11, <1>13
<1> QED
  BY <1>11, <1>12, <1>13, <1>14, <1>15

LEMMA SummariesAreTrue == IInv => SummaryIsTrue
<1> SUFFICES ASSUME IInv, NEW r \in Runs, summary[r] # NoSummary
             PROVE  LET Processed == {x \in Records : Effects(r, x) > 0}
                    IN  /\ summary[r].records_processed <= Cardinality(Processed)
                        /\ faults["lost"] = 0 =>
                             /\ summary[r].records_processed = Cardinality(Processed)
                             /\ \A x \in Processed : Effects(r, x) = 1
                        /\ summary[r].status = "SUCCEEDED" => Processed = Records
                        /\ summary[r].status = "PARTIAL" <=> summary[r].shards_failed > 0
                        /\ summary[r].shards_succeeded + summary[r].shards_failed = BatchShards
  BY DEF SummaryIsTrue
<1>1. /\ \A i \in Ids : shard[r][i].status \in {"SUCCEEDED", "FAILED"}
      /\ summary[r] = Summarise(shard[r])
  BY DEF IInv, PhaseOK
<1>2. PICK S, F, W, Q : /\ S = With(shard[r], "SUCCEEDED") /\ F = With(shard[r], "FAILED")
                        /\ W = {i \in Ids : worked[r][i] > 0}
                        /\ Q = {x \in Records : Effects(r, x) > 0}
  OBVIOUS
<1>3. /\ summary[r].shards_succeeded + summary[r].shards_failed = BatchShards
      /\ summary[r].records_processed = Cardinality(Cover(S))
      /\ summary[r].status = "SUCCEEDED" => S = Ids
      /\ summary[r].status = "PARTIAL" <=> summary[r].shards_failed > 0
  BY <1>1, <1>2, SummaryIs
<1>4. S \subseteq W /\ W \subseteq Ids
  BY <1>2 DEF With, IInv, ShardOK
<1>5. ASSUME NEW x \in Records
      PROVE  \E i \in Ids : x \in Block(i) /\ Effects(r, x) = worked[r][i]
  <2>1. PICK i \in Ids : x \in Block(i)
    BY CoverAll DEF Cover
  <2>2. Effects(r, x) = worked[r][i]
    BY <1>1, <2>1, EffectsOfShard
  <2> QED
    BY <2>1, <2>2
<1>6. Q = Cover(W)
  <2>1. ASSUME NEW x \in Q PROVE x \in Cover(W)
    <3>1. x \in Records /\ Effects(r, x) > 0
      BY <1>2
    <3>2. PICK i \in Ids : x \in Block(i) /\ Effects(r, x) = worked[r][i]
      BY <1>5, <3>1
    <3>3. i \in W
      BY <1>2, <3>1, <3>2
    <3> QED
      BY <3>2, <3>3 DEF Cover, Block
  <2>2. ASSUME NEW x \in Cover(W) PROVE x \in Q
    <3>1. PICK i \in W : x \in Block(i)
      BY DEF Cover
    <3>2. i \in Ids /\ worked[r][i] > 0
      BY <1>2
    <3>3. Effects(r, x) = worked[r][i]
      BY <1>1, <3>1, <3>2, EffectsOfShard
    <3>4. x \in Records
      BY <3>1, <3>2, CoverAll DEF Cover, Block
    <3> QED
      BY <1>2, <3>2, <3>3, <3>4
  <2> QED
    BY <2>1, <2>2
<1>7. IsFiniteSet(Cover(W)) /\ Cover(S) \in SUBSET Cover(W)
  BY <1>4, CoverSize DEF Cover
<1>8. Cardinality(Cover(S)) <= Cardinality(Q)
  BY <1>6, <1>7, FS_Subset
<1>9. summary[r].status = "SUCCEEDED" => Q = Records
  <2>1. S = Ids => W = Ids
    BY <1>4
  <2> QED
    BY <1>3, <1>6, <2>1, CoverAll
<1>10. ASSUME faults["lost"] = 0
       PROVE  Cardinality(Cover(S)) = Cardinality(Q) /\ \A x \in Q : Effects(r, x) = 1
  <2>1. \A i \in Ids : worked[r][i] = IF shard[r][i].status = "SUCCEEDED" THEN 1 ELSE 0
    BY <1>10 DEF IInv, ShardOK
  <2>2. W = S
    BY <1>2, <2>1 DEF With
  <2>3. ASSUME NEW x \in Q PROVE Effects(r, x) = 1
    <3>1. x \in Records /\ Effects(r, x) > 0
      BY <1>2
    <3>2. PICK i \in Ids : Effects(r, x) = worked[r][i]
      BY <1>5, <3>1
    <3>3. worked[r][i] = 1 \/ worked[r][i] = 0
      BY <2>1
    <3> QED
      BY <3>1, <3>2, <3>3
  <2> QED
    BY <1>6, <2>2, <2>3
<1> QED
  BY <1>2, <1>3, <1>8, <1>9, <1>10

\* The summary of a run tells the truth, whatever its shards went through: it counts
\* no record that was not processed, and all that were, each once, when no response
\* was lost; and SUCCEEDED says that the whole work set was processed.
THEOREM SummaryTrue == Spec => []SummaryIsTrue
BY SummariesAreTrue, Invariance, PTL
=============================================================================
