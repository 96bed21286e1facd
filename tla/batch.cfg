SPECIFICATION Spec
CONSTANTS
  nightly = nightly
  manual = manual
  Runs = {nightly, manual}
  BatchShards = 2
  RangeSize = 2
  MaxConcurrency = 1
  StageRetries = 4
  ShardRetries = 3
  FaultBudgets <- Budgets
INVARIANTS
  SummaryIsTrue
  ShardsDoNotFailRuns
  CapHoldsPerRun
PROPERTIES
  EveryRunEnds
CHECK_DEADLOCK FALSE
