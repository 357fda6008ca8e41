SPECIFICATION Spec
CONSTANTS
  None = None
  Backfill = Backfill
  Users = {u1}
  Workers = {w1, w2}
  Editors = {e1, e2}
  MaxReviews = 2
  MaxEdits = 2
  MaxFaults = 2
SYMMETRY Interchangeable
CHECK_DEADLOCK FALSE
INVARIANTS
  TypeOK
  RatingsConverge
  BackfillRepairs
