\* Addresses 0 and 1 are one block, and 0, 4 and 8 three blocks of one set.
CONSTANTS
  setIndexBit = 1
  blockBit = 1
  e = 2
  Addresses = {0, 1, 2, 4, 8}
  MaxVisits = 7
SPECIFICATION Spec
\* The trace ends.
CHECK_DEADLOCK FALSE
INVARIANTS
  HoldsTheLatest
  CountsAreLru
