\* Three ids; requests that split chunks, take whole ones and are big.
CONSTANTS
  HEADERS = 4
  SMALL = 2
  MAX_HEAP = 8
  Requests = {1, 2, 5}
  MayRunOut = TRUE
  Ids = {x, y, z}
  Lengths <- MCLengths
SPECIFICATION Spec
SYMMETRY Symmetry
CHECK_DEADLOCK FALSE
INVARIANTS
  RangesAreTheBlocks
  FaultMeansNoRoom
  OverlapsAreSeen
  ReplaysAlike
