SPECIFICATION Spec
CONSTANTS
  x1 = x1
  r1 = r1
  Execs = {x1}
  Requests = {r1}
  Inputs <- ValidInputs
  RequestWrapped = TRUE
  Budget <- AslBudget
  Faults = {}
  MaxFaults = 0
  MaxClicks = 1
PROPERTIES
  ValidRequestsAreMailed
CHECK_DEADLOCK FALSE
