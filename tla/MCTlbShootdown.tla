-------------------------- MODULE MCTlbShootdown --------------------------
(* Instance of TlbShootdown: two CPUs initiate, a third only answers; any  *)
(* IPI may be late.                                                        *)
EXTENDS TlbShootdown

(* Behaviours end where a CPU answers itself: every property excuses what  *)
(* comes after it.                                                         *)
NotMiscounted == ~miscounted
===========================================================================
