------------------------------ MODULE MCSched ------------------------------
(* Instance of Sched: two CPUs; the reaper on the first, two kernel        *)
(* threads on the second, one of them scheduled by boot, and a process     *)
(* with a thread on either.                                                *)
EXTENDS Sched, TLC

CONSTANTS c1, c2, i1, i2, reaper, k1, k2, u1, u2, proc

MCHome == reaper :> c1 @@ k1 :> c2 @@ k2 :> c2 @@ u1 :> c1 @@ u2 :> c2
MCProcOf == reaper :> NoProc @@ k1 :> NoProc @@ k2 :> NoProc @@ u1 :> proc @@ u2 :> proc
MCIdle == c1 :> i1 @@ c2 :> i2
MCInitial == c1 :> <<reaper>> @@ c2 :> <<k1>>
============================================================================
