\* Two children and a slot for each: the list cannot overflow.
CONSTANTS
  MAXJOBS = 2
  Pid = {p1, p2}
  NoPid = NoPid
  AnyChild = AnyChild
  ForkMayFail = FALSE
  JidCap = 3
SPECIFICATION FairSpec
\* The shell exits on quit.
CHECK_DEADLOCK FALSE
PROPERTY EvalReturnsWhenJobEnds
