SPECIFICATION Spec
CONSTANTS
  x1 = x1
  o1 = o1
  Execs = {x1}
  Orders = {o1}
  NoOrder = NoOrder
  NoId = NoId
  Inputs <- OrderInputs
  Budget <- OneRetry
  FaultBudgets <- TwoFaults
INVARIANTS
  TypeOK
  PathResolves
  CompensationHasItsTarget
  ItemFollowsExecution
  ChargesAreRefunded
PROPERTIES
  ImplementsContract
  Termination
  HealthyOrdersComplete
CHECK_DEADLOCK FALSE
