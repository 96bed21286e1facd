SPECIFICATION Spec
CONSTANTS
  ingest = ingest
  good = good
  poison = poison
  w1 = w1
  w2 = w2
  Queues = {ingest}
  Messages <- SomePosts
  Workers = {w1, w2}
  BatchSize = 2
  MaxReceiveCount = 2
  Faults = {"crash", "downstream", "secrets", "timeout", "5xx"}
  MaxFaults = 2
  Events = {good, poison}
  Unproven <- DoubtfulPosts
  Poison = {poison}
  MaxRotations = 1
INVARIANTS
  AcceptedIsQueued
PROPERTIES
  GenuineDropsNeedRotation
  AcceptedSettles
CHECK_DEADLOCK FALSE
