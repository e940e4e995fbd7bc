SPECIFICATION MachinesSpec
CONSTANTS
  Bits = 4
  RAX = RAX
  RBX = RBX
  RRSP = RRSP
  RNONE = RNONE
  UNKNOWN = UNKNOWN
  Register <- Registers
  MEM_SIZE = 3
  CODE = 4
  CODE_TOP = 6
  InitialMemory <- OneTwoThree
  Instructions <- SafePrograms
CHECK_DEADLOCK FALSE
INVARIANTS RetiresLikeIsa ISACheckIsTrue SeqLikeIsa Y64LikeIsa
PROPERTY KeepsRetiring
