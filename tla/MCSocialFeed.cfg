\* Two workers, which overlap in a rollout, against every order of the events.
SPECIFICATION Spec
CONSTANTS
  author = author
  reader = reader
  x1 = x1
  x2 = x2
  w1 = w1
  w2 = w2
  None = None
  Users <- TwoUsers
  Activities <- TwoActivities
  Author <- ByAuthor
  Workers <- TwoWorkers
  Limit = 1
  MaxRequests <- ThreeByReader
  MaxFaults = 2
SYMMETRY Interchangeable
CHECK_DEADLOCK FALSE
INVARIANTS
  TypeOK
  OrderedEventsConverge
  NoPhantomEntries
  AuthorsSeeTheirPosts
