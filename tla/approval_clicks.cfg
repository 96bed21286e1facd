SPECIFICATION Spec
CONSTANTS
  x1 = x1
  r1 = r1
  Execs = {x1}
  Requests = {r1}
  Inputs <- AllInputs
  RequestWrapped = FALSE
  Budget <- SmallBudget
  Faults = {"crash", "throttle", "lost", "abort"}
  MaxFaults = 2
  MaxClicks = 3
INVARIANTS
  TypeOK
  RecordedDecisionWasTaken
  AnswersAreTrue
  OneClickWins
  OutcomeIsTheDecision
PROPERTIES
  DecisionIsFinal
  DecisionsAreRecorded
  Termination
CHECK_DEADLOCK FALSE
