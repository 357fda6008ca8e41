SPECIFICATION Spec
CONSTANTS
  a1 = a1
  a2 = a2
  inv = inv
  con = con
  eng = eng
  ann = ann
  bob = bob
  listing = listing
  band = band
  None = None
  Requests = {con}
  Users = {ann, bob}
  Places = {listing, band}
  Calls = {c1, c2, c3}
  Kind <- MCKind
  Asker <- MCAsker
  Answerer <- MCAnswerer
  Place <- MCPlace
CHECK_DEADLOCK FALSE
INVARIANT AnsweredOnce
