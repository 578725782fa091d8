SPECIFICATION Spec
CONSTANTS
  NONE = NONE
  DirTable <- MCDirTable
  FileTable <- MCFileTable
  REVISION = 257
  Paths <- MCPaths
  Name = {"b"}
  STACKED = FALSE
  MAX_VFS = 3
  MAX_NODES = 4
  MAX_SIZE = 2
CONSTRAINT OneConcern
INVARIANTS TreesAgree PathsResolve ReadsBack ListingMissesNothing
