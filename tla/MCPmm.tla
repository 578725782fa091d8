------------------------------- MODULE MCPmm -------------------------------
(* Instance of Pmm: two callers, frames 0 to 9 with the zone boundary at   *)
(* 4, carved into the blocks 1, 2-3, 4-7 and 8-9, where earlymem has       *)
(* handed out frame 9.                                                     *)
EXTENDS Pmm, TLC

CONSTANTS a1, a2

TwoCallers == {a1, a2}

Callers == Permutations(TwoCallers)

(* Behaviours end where a merge has raced, as every property excuses what  *)
(* comes after it, and where an update of free_page_count is lost: the     *)
(* count, which nothing but the next update reads, would drift for ever.   *)
InOrder == ~raced /\ ~lost
============================================================================
