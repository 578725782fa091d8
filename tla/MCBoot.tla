------------------------------- MODULE MCBoot -------------------------------
(* The targets with dependencies and those that take memory, in every order *)
(* of the four that depend on each other; three CPUs.  Memory is two        *)
(* stretches whose bitmaps fit, or three of which one has no marked page,   *)
(* one a bitmap that reaches a page further, and each a bit nobody cleared. *)
EXTENDS Boot, TLC

MCStage == [ptm |-> 1, slab |-> 2, external_interrupts |-> 2, lapic |-> 2, tss |-> 2,
            acpi_tables |-> 4, timers |-> 4, event_timer_vector |-> 4, event_timer |-> 4,
            init_program |-> 6, idle_thread |-> 6]
MCTarget == DOMAIN MCStage
MCScope == [t \in MCTarget |-> IF t \in {"lapic", "tss", "timers", "event_timer", "idle_thread"}
                               THEN "ALL" ELSE "BSP"]
MCDependencies == [t \in MCTarget |->
  CASE t = "lapic" -> <<"external_interrupts">> [] t = "timers" -> <<"acpi_tables">>
    [] t = "event_timer" -> <<"event_timer_vector", "timers">> [] OTHER -> <<>>]
Swapped(s) == {[i \in DOMAIN s |-> s[f[i]]] : f \in Permutations(DOMAIN s)}
MCOrders == {<<"ptm", "slab", "tss", "lapic", "external_interrupts">> \o m \o <<"init_program", "idle_thread">> :
               m \in Swapped(<<"acpi_tables", "timers", "event_timer_vector", "event_timer">>)}

(* Any table of targets with any CPUs and no page tables, or the first of   *)
(* either with any page tables, also with so many that memory runs out.     *)
Cpus == {cpus \in [1..3 -> [failed : BOOLEAN, seqid : 0..2]] :
           ~cpus[2].failed /\ \A c, d \in 1..3 : c # d => cpus[c].seqid # cpus[d].seqid}
Plain == [c \in 1..3 |-> [failed |-> FALSE, seqid |-> c - 1]]
Even == << [base |-> 1, length |-> 4, usable |-> TRUE],
           [base |-> 5, length |-> 1, usable |-> FALSE],
           [base |-> 6, length |-> 8, usable |-> TRUE] >>
Odd == << [base |-> 1, length |-> 13, usable |-> TRUE],
          [base |-> 14, length |-> 1, usable |-> FALSE],
          [base |-> 15, length |-> 1, usable |-> TRUE],
          [base |-> 16, length |-> 9, usable |-> TRUE] >>
Tables(n) == [i \in 1..6 |-> IF i = 1 THEN n ELSE 0]
MCBootInfo == [order : MCOrders, bsp : {2}, cpus : Cpus, tables : {Tables(0)}, map : {Even}, junk : {{}}]
              \union [order : {CHOOSE o \in MCOrders : TRUE}, bsp : {1}, cpus : {Plain},
                      tables : [1..6 -> 0..1] \union {Tables(n) : n \in {6, 8, 9, 10}},
                      map : {Even}, junk : {{}}]
              \union [order : {CHOOSE o \in MCOrders : TRUE}, bsp : {1}, cpus : {Plain},
                      tables : {Tables(n) : n \in {0, 2, 6}}, map : {Odd}, junk : SUBSET {13, 15, 24}]
MCPmmPages == [t \in MCTarget |-> IF t = "slab" THEN 1 ELSE 0]
MCTablePages == [t \in MCTarget |-> IF t \in {"ptm", "init_program"} THEN 1 ELSE 0]
============================================================================
