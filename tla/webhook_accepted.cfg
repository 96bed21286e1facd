SPECIFICATION Spec
CONSTANTS
  ingest = ingest
  good = good
  poison = poison
  w1 = w1
  w2 = w2
  Queues = {ingest}
  Messages <- SomePosts
  Workers = {w1}
  BatchSize = 2
  MaxReceiveCount = 2
  Faults = {"4xx"}
  MaxFaults = 1
  Events = {good, poison}
  Unproven <- DoubtfulPosts
  Poison = {poison}
  MaxRotations = 0
INVARIANTS
  AcceptedIsQueued
CHECK_DEADLOCK FALSE
