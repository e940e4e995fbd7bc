SPECIFICATION TransSpec
CONSTANTS
  Shapes <- ShapesDef
  \* Both markers, func_list, M, N and func_counter.
  OtherAccesses = 6
INVARIANTS
  TransposesRightly
  FewMisses
\* The program ends.
CHECK_DEADLOCK FALSE
