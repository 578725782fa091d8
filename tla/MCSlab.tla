------------------------------ MODULE MCSlab ------------------------------
(* Instance of Slab: two CPUs with a primary and a secondary magazine each, *)
(* one magazine in the depot, and two slabs.                               *)
EXTENDS Slab, TLC

CONSTANTS c1, c2, a1, a2, m1, m2, m3, m4, m5, o1, o2, o3, o4, o5, o6, o7, s1, s2

MCCpu == {c1, c2}
MCActor == {a1, a2}
MCMagazine == {m1, m2, m3, m4, m5}
MCInitPrimary == c1 :> m1 @@ c2 :> m2
MCInitSecondary == c1 :> m3 @@ c2 :> m4
SlabA == {o1, o2, o3}
SlabB == {o4, o5, o6, o7}
MCObject == SlabA \cup SlabB
MCSlabOf == [o \in MCObject |-> IF o \in SlabA THEN s1 ELSE s2]

(* Exchanging callers, or the objects of one slab, changes nothing.        *)
MCSymmetry == Permutations(MCActor) \cup Permutations(SlabA) \cup Permutations(SlabB)
===========================================================================
