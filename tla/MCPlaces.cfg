SPECIFICATION FairSpec
CONSTANTS
  short = short
  numbered = numbered
  long = long
  None = None
  Calls = {c1, c2, c3}
  Names = {short, numbered, long}
  Base <- MCBase
  MaxLength = 3
  MaxSuffix = 4
CHECK_DEADLOCK FALSE
INVARIANTS
  TypeOK
  LinksStay
  RefusedOnlyByRace
PROPERTIES
  AllocationEnds
