SPECIFICATION Spec
CONSTANTS
  audit = audit
  notifications = notifications
  order = order
  click = click
  junk = junk
  w1 = w1
  Queues = {audit, notifications}
  Messages = {order, click, junk}
  Workers = {w1}
  BatchSize = 2
  MaxReceiveCount = 2
  Faults = {"crash", "downstream", "delivery"}
  MaxFaults = 2
  Subscribed <- AllForAudit
  Poison <- PoisonForAudit
  Unparsed = {junk}
  Misnamed = {notifications}
PROPERTIES
  ImplementsContract
  EveryConsumerGetsIt
CHECK_DEADLOCK FALSE
