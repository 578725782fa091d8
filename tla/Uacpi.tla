------------------------------- MODULE Uacpi --------------------------------
(* What the kernel gives uACPI (dev/uacpi.c): PCI handles and handlers for  *)
(* interrupt lines, with the table of vectors (arch/x86_64/interrupt.c) and *)
(* the I/O APIC (arch/x86_64/dev/ioapic.c) they are made of.                *)
EXTENDS Pci

CONSTANTS
  VECTORS,      \* vectors of a priority
  Irq,          \* lines that are requested; LEGACY of them go through the map
  LEGACY,
  Override,     \* interrupt source overrides the MADT may hold
  HANDLES       \* handlers and PCI handles uACPI holds at a time

ASSUME UacpiAssumption ==
  /\ VECTORS \in Nat \ {0} /\ HANDLES \in Nat /\ Irq \subseteq Nat /\ LEGACY \subseteq Irq
  /\ \A map \in Override : DOMAIN map \subseteq LEGACY
  /\ NONE \notin {"kernelapi_interrupt_handler", "events_process", "tlb_shootdown_handler"}

VARIABLES
  g_entries,          \* handler of every vector, NONE if it is free
  g_legacy_irq_map,
  ioredtbl,           \* redirection entry of every line of the I/O APIC
  handlers,           \* the interrupt handlers uACPI has installed
  opened,             \* devices made for uACPI
  fault               \* the kernel called a null handler or ran out of vectors

irqVars == <<g_entries, g_legacy_irq_map, ioredtbl, handlers, opened, fault>>

PRIORITY_NORMAL == 1
PRIORITY_EVENT == 2
PRIORITY_CRITICAL == 3
Vectors(priority) == {priority * VECTORS + i : i \in 0..(VECTORS - 1)}
Vector == UNION {Vectors(p) : p \in 1..3}

(* The line i of a MADT without an override for it. *)
Identity(i) == [gsi |-> i, polarity |-> "conforms", trigger |-> "conforms"]

(* x86_64_ioapic_init: the overrides of the MADT go into the map. *)
x86_64_ioapic_init(overrides) == [i \in LEGACY |-> IF i \in DOMAIN overrides THEN overrides[i] ELSE Identity(i)]

(* The vectors of the event timer and of the TLB shootdown are taken while  *)
(* the kernel boots, before uACPI asks for one.                             *)
IrqInit ==
  /\ g_entries = [v \in Vector |-> IF v = PRIORITY_EVENT * VECTORS THEN "events_process"
                                   ELSE IF v = PRIORITY_CRITICAL * VECTORS THEN "tlb_shootdown_handler"
                                   ELSE NONE]
  /\ \E overrides \in Override : g_legacy_irq_map = x86_64_ioapic_init(overrides)
  /\ ioredtbl = <<>> /\ handlers = <<>> /\ opened = {} /\ fault = FALSE

(* Mutant: a vector is taken whether or not it has a handler.               *)
find_vector_taken(priority) == CHOOSE v \in Vectors(priority) : \A u \in Vectors(priority) : v <= u

find_vector(priority) ==
  LET free == {v \in Vectors(priority) : g_entries[v] = NONE}
  IN IF free = {} THEN NONE ELSE CHOOSE v \in free : \A u \in free : v <= u

(* x86_64_ioapic_map_legacy_irq: the override of a legacy line wins over    *)
(* what the caller asked for.                                               *)
Redirection(irq, low, edge, vector) ==
  LET t == IF irq \in LEGACY THEN g_legacy_irq_map[irq] ELSE Identity(irq)
  IN [gsi |-> t.gsi, vector |-> vector,
      low |-> IF t.polarity = "conforms" THEN low ELSE t.polarity = "low",
      level |-> IF t.trigger = "conforms" THEN ~edge ELSE t.trigger = "level"]

(* A table with its entry d written.                                        *)
Write(table, d, entry) == [x \in {d} \union DOMAIN table |-> IF x = d THEN entry ELSE table[x]]

NewHandle == CHOOSE h \in 1..(HANDLES + 1) : h \notin DOMAIN handlers /\ \A g \in 1..(h - 1) : g \in DOMAIN handlers

uacpi_kernel_install_interrupt_handler(irq) ==
  /\ Enumerated /\ ~fault /\ Cardinality(DOMAIN handlers) < HANDLES
  /\ LET vector == find_vector(PRIORITY_NORMAL)
         entry == Redirection(irq, FALSE, TRUE, vector)
     IN IF vector = NONE THEN fault' = TRUE /\ UNCHANGED <<g_entries, ioredtbl, handlers>>
        ELSE /\ g_entries' = [g_entries EXCEPT ![vector] = "kernelapi_interrupt_handler"]
             /\ ioredtbl' = Write(ioredtbl, entry.gsi, entry)
             /\ handlers' = Write(handlers, NewHandle, [vector |-> vector, irq |-> irq])
             /\ UNCHANGED fault
  /\ UNCHANGED <<g_legacy_irq_map, opened, pciVars>>

EntriesWithout(vector) == [g_entries EXCEPT ![vector] = NONE]

(* The redirection entry of the line is left as it is: the line leads to    *)
(* whoever gets the vector next.                                            *)
uacpi_kernel_uninstall_interrupt_handler(h) ==
  /\ ~fault
  /\ g_entries' = EntriesWithout(handlers[h].vector)
  /\ handlers' = [g \in DOMAIN handlers \ {h} |-> handlers[g]]
  /\ UNCHANGED <<g_legacy_irq_map, ioredtbl, opened, fault, pciVars>>

(* A line is raised: the vector's entry runs, if it has one.  The handler   *)
(* of uACPI looks in g_interrupt_handlers, which nothing ever fills, so a   *)
(* line that has an installed handler calls a null function.                *)
kernelapi_interrupt_handler(line) ==
  /\ ~fault /\ line \in DOMAIN ioredtbl
  /\ fault' = (g_entries[ioredtbl[line].vector] = "kernelapi_interrupt_handler")
  /\ UNCHANGED <<g_entries, g_legacy_irq_map, ioredtbl, handlers, opened, pciVars>>

(* A device is made and listed whether or not the function is known.        *)
uacpi_kernel_pci_device_open(a) ==
  /\ Enumerated /\ ~fault /\ Cardinality(opened) < HANDLES
  /\ devices' = devices @@ (NewDevice :> pci_create_device(a))
  /\ g_pci_devices' = <<NewDevice>> \o g_pci_devices
  /\ opened' = opened \union {NewDevice}
  /\ UNCHANGED <<machine, frames, next_segment, stray, bar_read,
                 g_entries, g_legacy_irq_map, ioredtbl, handlers, fault>>

IrqNext ==
  \/ \E irq \in Irq : uacpi_kernel_install_interrupt_handler(irq)
  \/ \E h \in DOMAIN handlers : uacpi_kernel_uninstall_interrupt_handler(h)
  \/ \E line \in DOMAIN ioredtbl : kernelapi_interrupt_handler(line)
  \/ \E a \in DOMAIN machine.functions : uacpi_kernel_pci_device_open(a)

----------------------------------------------------------------------------
(* A vector belongs to one owner through any sequence of installing and     *)
(* uninstalling: the event timer and the TLB shootdown keep theirs, no two  *)
(* installed handlers share one, and the vectors that reach uACPI are       *)
(* exactly those of the handlers it has installed.                          *)
VectorsOwned ==
  /\ g_entries[PRIORITY_EVENT * VECTORS] = "events_process"
  /\ g_entries[PRIORITY_CRITICAL * VECTORS] = "tlb_shootdown_handler"
  /\ \A g, h \in DOMAIN handlers : handlers[g].vector = handlers[h].vector => g = h
  /\ {v \in Vector : g_entries[v] = "kernelapi_interrupt_handler"} = {handlers[h].vector : h \in DOMAIN handlers}
  /\ \A h \in DOMAIN handlers : handlers[h].vector \in Vectors(PRIORITY_NORMAL)

(* uninstall leaves lines routed to vectors that are free or somebody       *)
(* else's by now (uacpi.c:387): a line that was ever routed, stale or not,  *)
(* leads to uACPI or to nobody, never to the handler of the event timer or  *)
(* of the TLB shootdown.  Nothing is claimed of uACPI's handlers being      *)
(* called: none ever is (uacpi.c:359).                                      *)
StaleLinesHarmless ==
  \A line \in DOMAIN ioredtbl :
    LET vector == ioredtbl[line].vector
    IN IF \E h \in DOMAIN handlers : handlers[h].vector = vector
       THEN g_entries[vector] = "kernelapi_interrupt_handler" ELSE g_entries[vector] = NONE

(* Vectors keep their owners and no interrupt line, however stale its       *)
(* route, leads to the kernel's own handlers.                               *)
VectorsKept == VectorsOwned /\ StaleLinesHarmless
============================================================================
