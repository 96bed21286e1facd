SPECIFICATION Spec
CONSTANTS
  x1 = x1
  j1 = j1
  Execs = {x1}
  Jobs = {j1}
  NoToken = NoToken
  Inputs <- AllInputs
  MaxPolls = 8
  BaseWait = 3600
  MaxWait = 14400
  SignoffTimeout = 86400
  Deadline = 604800
  Budget <- SmallBudget
  Faults = {"crash", "throttle", "lost"}
  MaxFaults = 2
INVARIANTS
  TypeOK
  BudgetEndsPolling
  ItemFollowsExecution
  BudgetBeforeDeadline
PROPERTIES
  PollsCountUp
  Termination
CHECK_DEADLOCK FALSE
