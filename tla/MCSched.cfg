SPECIFICATION FairSpec
CONSTANTS
  c1 = c1  c2 = c2  i1 = i1  i2 = i2
  reaper = reaper  k1 = k1  k2 = k2  u1 = u1  u2 = u2  proc = proc
  NoThread = NoThread  NoProc = NoProc
  Cpu = {c1, c2}
  Thread = {reaper, k1, k2, u1, u2}
  Proc = {proc}
  Home <- MCHome
  ProcOf <- MCProcOf
  Idle <- MCIdle
  Reaper = reaper
  Initial <- MCInitial
INVARIANTS ThreadsAccounted ProcOutlivesThreads
PROPERTIES ReadyRuns
