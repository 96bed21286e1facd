SPECIFICATION Spec
CONSTANTS
  work = work
  first = first
  dup = dup
  junk = junk
  k1 = k1
  d1 = d1
  d2 = d2
  d3 = d3
  w1 = w1
  w2 = w2
  NoValue = NoValue
  Queues = {work}
  Messages = {first, dup, junk}
  Workers = {w1, w2}
  BatchSize = 2
  MaxReceiveCount = 2
  Faults = {"crash", "downstream", "table"}
  MaxFaults = 1
  Requests = {first, junk}
  RequestOf <- SameRequest
  Body <- Bodies
  Junk = {junk}
  Keys = {k1, d1, d2, d3}
  ExpiresAfter = 1
  Window = 1
  MaxTime = 3
INVARIANTS
  OneEffectPerSave
  AcknowledgedTookEffect
PROPERTIES
  OncePerWindow
  NotWedged
CHECK_DEADLOCK FALSE
