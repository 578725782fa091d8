---------------------------- MODULE Allocator ----------------------------
(***************************************************************************)
(* What every allocator of the kernel promises its callers, without saying *)
(* how: what is handed out comes out of the pool of free resources and is  *)
(* in it no longer, what is given back returns to the pool, and nothing is *)
(* ever in both or in neither.  memory/slab.c implements it for objects,   *)
(* memory/pmm.c for pages.                                                 *)
(***************************************************************************)
CONSTANT Resource

VARIABLES
  owned,      \* the resources that callers own
  pool        \* the resources that are free

Init == owned \cap pool = {} /\ owned \cup pool = Resource

(* Some free resources, the Taken, go to a caller.                         *)
Allocate ==
  LET Taken == owned' \ owned IN
  /\ Taken # {} /\ Taken \subseteq pool
  /\ owned' = owned \cup Taken
  /\ pool' = pool \ Taken

(* A caller gives back some resources that it owns.                        *)
Free ==
  LET Given == owned \ owned' IN
  /\ Given # {}
  /\ owned' = owned \ Given
  /\ pool' = pool \cup Given

Spec == Init /\ [][Allocate \/ Free]_<<owned, pool>>
==========================================================================
