\* At-least-once processing and progress of one consumer group.
SPECIFICATION FairSpec
CONSTANTS
  w1 = w1
  w2 = w2
  p1 = p1
  p2 = p2
  None = None
  Workers <- TwoWorkers
  Partitions <- TwoPartitions
  Length = 2
  Unhandleable <- Malformed
  MaxAttempts = 2
  MaxFaults = 1
  MaxStops = 1
INVARIANTS
  NothingSkipped
  SettledInOrder
  RedoneOnlyAfterFault
PROPERTIES
  DeliverySpec
  CommitsGoForward
  PartitionAdvances
