\* Three children and two slots: the list overflows, and fork may fail.
CONSTANTS
  MAXJOBS = 2
  Pid = {p1, p2, p3}
  NoPid = NoPid
  AnyChild = AnyChild
  ForkMayFail = TRUE
  JidCap = 3
SYMMETRY Symmetry
SPECIFICATION Spec
\* The shell exits on quit and crashes on a NULL pointer.
CHECK_DEADLOCK FALSE
INVARIANTS
  TypeOK
  JobsAreChildren
  ForegroundIsWaitedFor
  StoppedIsStopped
  TargetIsForeground
PROPERTY
  ImplementsAbstractJobs
