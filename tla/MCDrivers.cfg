SPECIFICATION Spec
CONSTANTS
  NONE = NONE
  NULL = NULL
  Machine <- MCMachine
  SLOTS = 2
  FUNCS = 2
  WIDTH = 8
  DEPTH = 6
  VECTORS = 2
  Irq <- MCIrq
  LEGACY <- MCLegacy
  Override <- MCOverride
  HANDLES = 3
  ModuleFile <- MCModuleFile
  KernelTable <- MCKernelTable
  BASE <- MCBase
  MAX32 = 16
  LOADS = 2
  Executable <- MCExecutable
CONSTRAINT OneConcern
CHECK_DEADLOCK FALSE
INVARIANTS DevicesReported VectorsKept RegionsOwned ModulesReady
