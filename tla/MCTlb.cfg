SPECIFICATION FairSpec
CONSTANTS
  CpuCount = 3
  Initiator = {0, 1}
CONSTRAINT NotMiscounted
INVARIANTS ShootdownComplete
PROPERTIES ShootdownFinishes
