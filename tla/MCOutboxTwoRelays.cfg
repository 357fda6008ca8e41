\* Two relays at once, each pass over the whole backlog: the retry budget,
\* locking, durability and the refinement.
SPECIFICATION Spec
CONSTANTS
  e1 = e1
  e2 = e2
  r1 = r1
  r2 = r2
  None = None
  Events <- TwoEvents
  Relays <- TwoRelays
  MaxAttempts = 2
  Batch = 2
  RetryBase = 1
  RetryCap = 1
  Retention = 0
  MaxFaults = 1
SYMMETRY Symmetry
INVARIANTS
  RetryBudget
  PublishedIsDelivered
  RowExclusive
PROPERTIES
  HandoffSpec
  NoDispatchAfterPublish
