SPECIFICATION ToolsSpec
CONSTANTS
  Programs <- ProgramsDef
  MEM_SIZE <- MemSizeDef
  HclTexts <- HclTextsDef
  SYM_LIM = 2
  ERRLIM = 5
INVARIANTS
  SameVerdict
  ImagesAgree
  CodeMeansTheSource
  
  RefusesIllTyped
CHECK_DEADLOCK FALSE
