SPECIFICATION Spec
CONSTANTS
  work = work
  good = good
  poison = poison
  junk = junk
  w1 = w1
  w2 = w2
  Queues = {work}
  Messages = {good, poison, junk}
  Workers = {w1, w2}
  BatchSize = 2
  MaxReceiveCount = 2
  Faults = {"crash", "downstream", "visibility"}
  MaxFaults = 2
  Poison = {poison}
  Junk = {junk}
  Base = 600
  Cap = 900
INVARIANTS
  TypeOK
  EffectsAreOnce
  WaitsFollowSchedule
PROPERTIES
  ImplementsContract
  Settles
CHECK_DEADLOCK FALSE
