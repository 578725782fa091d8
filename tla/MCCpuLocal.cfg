SPECIFICATION Spec
CONSTANTS
  t1 = t1  idle = idle
  Thread = {t1, idle}
  Idle = idle
  MAX_NEST = 2
  MAX_EVENTS = 2
INVARIANTS AssertionsHold NoSelfDeadlock WorkIsAtomic FaultServed
