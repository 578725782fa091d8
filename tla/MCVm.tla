-------------------------------- MODULE MCVm --------------------------------
(* Five pages of global and three of process address space.  The two meet   *)
(* only in the region pool, which either side refills: one of them is busy  *)
(* at a time, the process next to a global address space with nothing but   *)
(* the pool's pages at its start.  Three mappings of the kernel and two     *)
(* pages of the pool leave room for a refill in the middle of a rewrite.    *)
(* What rewrite_common makes of a call it mishandles is computed and        *)
(* checked; the run goes no further from there.                             *)
EXTENDS VmClients, TLC

CONSTANTS kernel, process

MCTop == kernel :> 6 @@ process :> 4
ProcessIdle == vm.regions[USER] = {} /\ vm.pt[USER] = EmptyTables(USER)
KernelIdle == /\ owned = {} /\ \A r \in vm.regions[GLOBAL] : r.base = START
              /\ \A t \in DOMAIN vm.pt[GLOBAL].upper : Rights(vm.pt[GLOBAL].upper[t]) \subseteq RW
InStep == /\ (ProcessIdle /\ Cardinality(owned) <= 3) \/ KernelIdle
          /\ vm.grown <= 2 /\ vm.amiss = {}
============================================================================
