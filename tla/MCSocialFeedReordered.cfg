\* One worker, no failures: events that overtake each other.
SPECIFICATION Spec
CONSTANTS
  author = author
  reader = reader
  x1 = x1
  x2 = x2
  w1 = w1
  w2 = w2
  None = None
  Users <- TwoUsers
  Activities <- TwoActivities
  Author <- ByAuthor
  Workers <- OneWorker
  Limit = 1
  MaxRequests <- TwoByReader
  MaxFaults = 0
CHECK_DEADLOCK FALSE
INVARIANT
  FeedFollowsGraph
