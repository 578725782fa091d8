------------------------------ MODULE MCMutex ------------------------------
(* Instance of Mutex: four threads on two CPUs, so that threads contend    *)
(* within a CPU and across CPUs.  No thread exits, so the reaper is never  *)
(* created.  A behaviour is followed up to the first time a releaser meets *)
(* a waiter that is still on its CPU: what the doubly linked run queue     *)
(* does from there is undefined, and no property speaks of it.             *)
EXTENDS Mutex, TLC

CONSTANTS c1, c2, i1, i2, reaper, t1, t2, t3, t4

MCHome == reaper :> c1 @@ t1 :> c1 @@ t2 :> c1 @@ t3 :> c2 @@ t4 :> c2
MCIdle == c1 :> i1 @@ c2 :> i2
MCInitial == c1 :> <<t1, t2>> @@ c2 :> <<t3, t4>>
MCProcOf == [t \in Thread |-> NoProc]
NotRaced == ~raced
============================================================================
