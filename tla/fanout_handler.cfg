SPECIFICATION Spec
CONSTANTS
  audit = audit
  notifications = notifications
  order = order
  click = click
  junk = junk
  w1 = w1
  Queues = {audit, notifications}
  Messages = {order}
  Workers = {w1}
  BatchSize = 2
  MaxReceiveCount = 2
  Faults = {}
  MaxFaults = 0
  Subscribed <- AllForAudit
  Poison <- PoisonForAudit
  Unparsed = {}
  Misnamed = {audit, notifications}
PROPERTIES
  ConsumersProcess
CHECK_DEADLOCK FALSE
