\* One relay, as deployed: types, the backoff and liveness.
SPECIFICATION FairSpec
CONSTANTS
  e1 = e1
  e2 = e2
  r1 = r1
  r2 = r2
  None = None
  Events <- TwoEvents
  Relays <- OneRelay
  MaxAttempts = 3
  Batch = 1
  RetryBase = 1
  RetryCap = 2
  Retention = 0
  MaxFaults = 1
INVARIANTS
  TypeOK
PROPERTIES
  DispatchedOnlyWhenDue
  ExhaustedIsFinal
  EventSettles
