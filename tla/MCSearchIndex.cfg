SPECIFICATION Spec
CONSTANTS
  guitar = guitar
  jazz = jazz
  None = None
  Rebuild = Rebuild
  Profiles = {p1}
  Calls = {c1, c2}
  Fields = {"bio", "is_available"}
  Instruments = {guitar}
  Genres = {jazz}
  Payloads <- MCPayloads
  Indexers = {w1}
  BatchSize = 1
  MaxFaults = 1
SYMMETRY Interchangeable
CHECK_DEADLOCK FALSE
INVARIANTS
  TypeOK
  IndexConverges
  RebuildRepairs
  PruneSparesLiving
  MappedByUs
PROPERTIES
  OnlyNamedColumns
