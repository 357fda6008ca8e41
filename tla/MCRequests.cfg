SPECIFICATION Spec
CONSTANTS
  a1 = a1
  a2 = a2
  inv = inv
  con = con
  eng = eng
  ann = ann
  bob = bob
  listing = listing
  band = band
  None = None
  Requests = {a1, a2, inv, con, eng}
  Users = {ann, bob}
  Places = {listing, band}
  Calls = {c1, c2, c3, c4, c5}
  Kind <- MCKind
  Asker <- MCAsker
  Answerer <- MCAnswerer
  Place <- MCPlace
CONSTRAINT OneGroup
SYMMETRY Interchangeable
CHECK_DEADLOCK FALSE
INVARIANTS
  AnswerStands
  AskerIsTold
  ReviewGate
  NoDuplicates
PROPERTIES
  ClosedForGood
