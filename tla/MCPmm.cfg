SPECIFICATION Spec
CONSTANTS
  a1 = a1  a2 = a2
  Actor <- TwoCallers
  PMM_MAX_ORDER = 2
  LOW_END = 4
  RegionBase = 0
  RegionEnd = 10
  Reserved = {9}
  NoBlock = NoBlock
SYMMETRY Callers
CONSTRAINT InOrder
CHECK_DEADLOCK FALSE
INVARIANTS BlocksIntact FreeListsExact
PROPERTIES ImplementsAllocator
