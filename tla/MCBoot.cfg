SPECIFICATION Spec
CONSTANTS
  NONE = NONE
  PAGE = 8
  HEADER = 5
  BITS = 4
  Target <- MCTarget
  Stage <- MCStage
  Scope <- MCScope
  Dependencies <- MCDependencies
  CPU = {1, 2, 3}
  BootInfo <- MCBootInfo
  PAGE_DB = 1
  SEGMENTS = 3
  REGION_SIZE = 3
  PmmPages <- MCPmmPages
  TablePages <- MCTablePages
CHECK_DEADLOCK FALSE
INVARIANTS EarlyMemoryKept TargetsInOrder SetUpAtHandoff
PROPERTIES AllComeUp
