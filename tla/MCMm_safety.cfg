\* Requests of all kinds (with a rest, big), except of exactly MIN_CHUNK_SIZE units;
\* two words, so that a copy of another block is told apart.
CONSTANTS
  HEADERS = 4
  SMALL = 2
  MAX_HEAP = 5
  Requests = {1, 2, 4}
  MayRunOut = FALSE
  Data = {word1, word2}
SYMMETRY Symmetry
SPECIFICATION Spec
INVARIANTS
  HeapIsTiled
  PusedIsTrue
  FreeListsAreExact
  PayloadIntact
PROPERTY
  ImplementsAbstractHeap
