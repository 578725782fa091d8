---------------------------- MODULE MCContainers ----------------------------
(* The two intrusive containers.  They share nothing, so one is worked on   *)
(* while the other is empty: the reachable states add up and do not         *)
(* multiply.                                                                *)
EXTENDS RbTree, List

MCNode == 1 .. 9
MCValue == <<1, 2, 2, 3, 4, 5, 5, 6, 7>>
MCItem == {"a", "b", "c", "d"}

Init == RbInit /\ ListInit
Next == \/ list = EmptyList /\ RbNext /\ UNCHANGED listVars
        \/ tree = EmptyTree /\ ListNext /\ UNCHANGED rbVars
Spec == Init /\ [][Next]_<<rbVars, listVars>>
============================================================================
