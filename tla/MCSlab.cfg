SPECIFICATION Spec
CONSTANTS
  c1 = c1  c2 = c2  a1 = a1  a2 = a2
  m1 = m1  m2 = m2  m3 = m3  m4 = m4  m5 = m5
  o1 = o1  o2 = o2  o3 = o3  o4 = o4  o5 = o5  o6 = o6  o7 = o7
  s1 = s1  s2 = s2
  Cpu <- MCCpu
  Actor <- MCActor
  Object <- MCObject
  SlabId = {s1, s2}
  Magazine <- MCMagazine
  SlabOf <- MCSlabOf
  MAGAZINE_SIZE = 2
  InitPrimary <- MCInitPrimary
  InitSecondary <- MCInitSecondary
  NoObject = NoObject
SYMMETRY MCSymmetry
CHECK_DEADLOCK FALSE
INVARIANTS ObjectsAccounted BookkeepingAgrees
PROPERTIES LoopServes ImplementsAllocator
