SPECIFICATION MutexSpec
CONSTANTS
  c1 = c1  c2 = c2  i1 = i1  i2 = i2
  reaper = reaper  t1 = t1  t2 = t2  t3 = t3  t4 = t4
  NoThread = NoThread  NoProc = NoProc
  Cpu = {c1, c2}
  Thread = {reaper, t1, t2, t3, t4}
  Proc = {}
  Home <- MCHome
  ProcOf <- MCProcOf
  Idle <- MCIdle
  Reaper = reaper
  Initial <- MCInitial
  SPIN_COUNT = 2
CONSTRAINT NotRaced
CHECK_DEADLOCK FALSE
INVARIANTS OneOwner WaitersKept
