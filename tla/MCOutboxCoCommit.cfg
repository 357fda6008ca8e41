\* A request that dies between its own write and publish().
SPECIFICATION Spec
CONSTANTS
  e1 = e1
  e2 = e2
  r1 = r1
  r2 = r2
  None = None
  Events <- TwoEvents
  Relays <- OneRelay
  MaxAttempts = 3
  Batch = 1
  RetryBase = 1
  RetryCap = 2
  Retention = 0
  MaxFaults = 0
INVARIANT
  CoCommit
