-------------------------------- MODULE Pci ---------------------------------
(* Enumeration of the PCI functions, their configuration space and their    *)
(* base address registers (dev/pci.c).                                      *)
EXTENDS Integers, FiniteSets, SequencesExt

CONSTANTS
  Machine,      \* the hardware: mechanism, segments, the functions it has
  SLOTS, FUNCS, \* slots of a bus, functions of a slot
  WIDTH,        \* bits of a configuration register
  DEPTH,        \* calls the kernel stack has room for
  NONE

ASSUME PciAssumption ==
  /\ SLOTS \in Nat \ {0} /\ FUNCS \in Nat \ {0} /\ WIDTH \in Nat \ {0} /\ DEPTH \in Nat
  /\ \A m \in Machine : m.pcie => Len(m.segments) > 0

VARIABLES
  machine,
  devices,          \* allocated pci_device_t and pcie_device_t, by address
  g_pci_devices,
  frames,           \* the calls of the enumeration that have not returned
  next_segment,     \* of the loop of the init target
  stray,            \* devices of empty slots: nobody frees them
  bar_read          \* what pci_config_read_bar last returned, and of which register

pciVars == <<machine, devices, g_pci_devices, frames, next_segment, stray, bar_read>>

At(segment, bus, slot, func) == [segment |-> segment, bus |-> bus, slot |-> slot, func |-> func]
Valid(address) == address \in DOMAIN machine.functions
IsFree(d) == d \notin DOMAIN devices

----------------------------------------------------------------------------
(* Configuration space.  PCIe maps a page per function; a page of the       *)
(* segment belongs to the function the hardware decodes from it.            *)
ConfigPage(a) ==
  LET s == machine.segments[a.segment + 1]
  IN s.base + (a.bus - s.start_bus) * SLOTS * FUNCS + (a.slot % SLOTS) * FUNCS + (a.func % FUNCS)

DecodedFrom(page) ==
  {a \in DOMAIN machine.functions :
     page = machine.segments[a.segment + 1].base
            + ((a.bus - machine.segments[a.segment + 1].start_bus) * SLOTS + a.slot) * FUNCS + a.func}

(* The function that g_read reaches: through the page of a pcie_device_t,   *)
(* or with bus, slot and function in the address port.                      *)
Reached(device) ==
  IF machine.pcie THEN DecodedFrom(device.config)
  ELSE {a \in DOMAIN machine.functions : a.bus = device.bus /\ a.slot = device.slot /\ a.func = device.func}

pcie_create_device(a) == [config |-> ConfigPage(a)] @@ a
pci_create_device(a) == [config |-> NONE] @@ a
g_create_device(a) == IF machine.pcie THEN pcie_create_device(a) ELSE pci_create_device(a)

vendor_valid(device) == Reached(device) # {}
(* An absent function reads as all ones, the flag included. *)
multifunc(device) == \A a \in Reached(device) : machine.functions[a].multi
is_bridge(device) == \E a \in Reached(device) : machine.functions[a].secondary # NONE

(* (uint8_t) (readb(secondary_bus) >> 8). *)
SecondaryBus(device) ==
  LET readb == machine.functions[CHOOSE a \in Reached(device) : TRUE].secondary % 2^8 IN readb \div 2^8

----------------------------------------------------------------------------
(* The calls: enumerate_segment goes over the functions of the root         *)
(* controller, enumerate_bus over the slots and their functions.            *)
Segment(s, root, func) == [call |-> "segment", segment |-> s, root |-> root, func |-> func]
Bus(s, bus) == [call |-> "bus", segment |-> s, bus |-> bus, slot |-> 0, device |-> NONE, func |-> 0]
Top == frames[1]
Return == Tail(frames)
Replace(frame) == <<frame>> \o Tail(frames)
NewDevice == CHOOSE d \in 1..(Cardinality(DOMAIN devices) + 1) :
               IsFree(d) /\ \A e \in 1..(d - 1) : ~IsFree(e)
Without(d) == [e \in DOMAIN devices \ {d} |-> devices[e]]

PciInit ==
  /\ machine \in Machine
  /\ devices = <<>> /\ g_pci_devices = <<>> /\ frames = <<>> /\ next_segment = 0 /\ stray = {} /\ bar_read = NONE

Enumerated == frames = <<>> /\ next_segment = Len(machine.segments)

(* The calls that enumerate_segment starts with: bus 0, unless the root     *)
(* controller has several functions.                                        *)
enumerate_segment(s, root, device) ==
  IF multifunc(device) THEN <<Segment(s, root, 0)>> ELSE <<Bus(s, 0), Segment(s, root, FUNCS)>>

(* The init target goes over the segments of the MCFG, or has the one of    *)
(* the legacy mechanism.                                                    *)
pci_enumerate ==
  /\ frames = <<>> /\ next_segment < Len(machine.segments)
  /\ devices' = devices @@ (NewDevice :> g_create_device(At(next_segment, 0, 0, 0)))
  /\ frames' = enumerate_segment(next_segment, NewDevice, devices'[NewDevice])
  /\ next_segment' = next_segment + 1
  /\ UNCHANGED <<machine, g_pci_devices, stray, bar_read>>

(* The controller on the stack has no mapped page: PCIe reads its vendor    *)
(* from an address nobody set.                                              *)
ControllerValid(func) ==
  IF machine.pcie THEN BOOLEAN ELSE {vendor_valid(pci_create_device(At(Top.segment, 0, 0, func)))}

next_controller ==
  /\ frames # <<>> /\ Top.call = "segment" /\ Top.func < FUNCS
  /\ \E valid \in ControllerValid(Top.func) :
       frames' = IF valid THEN <<Bus(Top.segment, Top.func), [Top EXCEPT !.func = @ + 1]>>
                 ELSE Replace([Top EXCEPT !.func = FUNCS])
  /\ UNCHANGED <<machine, devices, g_pci_devices, next_segment, stray, bar_read>>

segment_done ==
  /\ frames # <<>> /\ Top.call = "segment" /\ Top.func = FUNCS
  /\ devices' = Without(Top.root) /\ frames' = Return
  /\ UNCHANGED <<machine, g_pci_devices, next_segment, stray, bar_read>>

(* The next slot of enumerate_bus.  An empty one is left with continue,     *)
(* past the call of g_free_device.                                          *)
next_slot ==
  /\ frames # <<>> /\ Top.call = "bus" /\ Top.device = NONE /\ Top.slot < SLOTS
  /\ devices' = devices @@ (NewDevice :> g_create_device(At(Top.segment, Top.bus, Top.slot, 0)))
  /\ IF vendor_valid(devices'[NewDevice])
     THEN frames' = Replace([Top EXCEPT !.device = NewDevice, !.func = 0]) /\ UNCHANGED stray
     ELSE frames' = Replace([Top EXCEPT !.slot = @ + 1]) /\ stray' = stray \union {NewDevice}
  /\ UNCHANGED <<machine, g_pci_devices, next_segment, bar_read>>

(* Mutant: only the first function of a slot counts.                        *)
FunctionsOf_first(device) == 1

FunctionsOf(device) == IF multifunc(device) THEN FUNCS ELSE 1

(* list_push of a function that answers.                                    *)
Listed(device, d) == IF vendor_valid(device) THEN <<d>> \o g_pci_devices ELSE g_pci_devices

(* enumerate_function; a bridge leads to the bus behind it.                 *)
enumerate_function ==
  /\ frames # <<>> /\ Top.call = "bus" /\ Top.device # NONE /\ Top.func < FunctionsOf(devices[Top.device])
  /\ LET device == g_create_device(At(Top.segment, Top.bus, Top.slot, Top.func))
         advanced == Replace([Top EXCEPT !.func = @ + 1])
     IN /\ g_pci_devices' = Listed(device, NewDevice)
        /\ devices' = IF vendor_valid(device) THEN devices @@ (NewDevice :> device) ELSE devices
        /\ IF is_bridge(device)
           THEN Len(frames) < DEPTH /\ frames' = <<Bus(Top.segment, SecondaryBus(device))>> \o advanced
           ELSE frames' = advanced
  /\ UNCHANGED <<machine, next_segment, stray, bar_read>>

slot_done ==
  /\ frames # <<>> /\ Top.call = "bus" /\ Top.device # NONE /\ Top.func = FunctionsOf(devices[Top.device])
  /\ devices' = Without(Top.device)
  /\ frames' = Replace([Top EXCEPT !.device = NONE, !.slot = @ + 1])
  /\ UNCHANGED <<machine, g_pci_devices, next_segment, stray, bar_read>>

bus_done ==
  /\ frames # <<>> /\ Top.call = "bus" /\ Top.device = NONE /\ Top.slot = SLOTS
  /\ frames' = Return
  /\ UNCHANGED <<machine, devices, g_pci_devices, next_segment, stray, bar_read>>

----------------------------------------------------------------------------
(* pci_config_read_bar.  A register keeps the address bits that the size    *)
(* leaves, and its low bits say what kind it is; one that the function does *)
(* not have is as large as the register can say.                            *)
MEMORY64 == 4
ALL_ONES == 2^WIDTH - 1
Low(v, n) == v - (v % n)
Latched(bar, v) == Low(v, bar.size) + bar.kind
Complement(v) == ALL_ONES - v

BarSize(register, n) == (Complement(Low(register, n)) + 1) % 2^WIDTH

(* The register before, with all ones written, and written back.            *)
pci_config_read_bar(f, i) ==
  LET bar == machine.functions[f].bars[i]
      before == Latched(bar, bar.address)
      sized == Latched(bar, ALL_ONES)
      after == Latched(bar, before)
      flags == IF before % 2 = 1 THEN 4 ELSE 16
      type == (before \div 2) % 4
  IN /\ Enumerated /\ i \in DOMAIN machine.functions[f].bars
     /\ i > 1 => machine.functions[f].bars[i - 1].kind # MEMORY64     \* not the upper half of a register
     /\ bar_read' = [function |-> f, index |-> i, register |-> after, result |->
          IF before % 2 = 1 \/ type \in {0, 2}
          THEN [iospace |-> before % 2 = 1, size |-> BarSize(sized, flags), address |-> Low(before, flags),
                upper |-> IF before % 2 = 0 /\ type = 2 THEN machine.functions[f].bars[i + 1].address ELSE 0]
          ELSE NONE]
     /\ UNCHANGED <<machine, devices, g_pci_devices, frames, next_segment, stray>>

Enumerate == \/ pci_enumerate \/ next_controller \/ segment_done \/ next_slot
             \/ enumerate_function \/ slot_done \/ bus_done

PciNext == Enumerate \/ \E f \in DOMAIN machine.functions, i \in 1..6 : pci_config_read_bar(f, i)

----------------------------------------------------------------------------
(* The buses that enumerate_segment means to visit: bus 0, or one bus for   *)
(* every function of a root controller of several functions, up to the      *)
(* first that is missing (no bus at all without a root controller).         *)
HostBuses(s) ==
  IF Valid(At(s, 0, 0, 0)) /\ ~machine.functions[At(s, 0, 0, 0)].multi THEN {0}
  ELSE {f \in 0..(FUNCS - 1) : \A g \in 0..f : Valid(At(s, 0, 0, g))}

Expected ==
  {a \in DOMAIN machine.functions :
     /\ a.bus \in HostBuses(a.segment)
     /\ Valid([a EXCEPT !.func = 0])
     /\ a.func = 0 \/ machine.functions[[a EXCEPT !.func = 0]].multi}

AddressOf(d) == At(devices[d].segment, devices[d].bus, devices[d].slot, devices[d].func)

(* When a machine without bridges has been enumerated, its list of devices  *)
(* has every function of the host buses exactly once and nothing else; a    *)
(* PCIe machine whose root controller has several functions may miss buses, *)
(* since the code reads the vendors of those functions from nowhere.        *)
FunctionsListed(opened) ==
  LET found == SelectSeq(g_pci_devices, LAMBDA d : d \notin opened)
  IN Enumerated /\ (\A a \in DOMAIN machine.functions : machine.functions[a].secondary = NONE) =>
       /\ Cardinality({AddressOf(found[i]) : i \in DOMAIN found}) = Len(found)
       /\ IF machine.pcie /\ \E s \in 0..(Len(machine.segments) - 1) : HostBuses(s) # {0}
          THEN {AddressOf(found[i]) : i \in DOMAIN found} \subseteq DOMAIN machine.functions
          ELSE {AddressOf(found[i]) : i \in DOMAIN found} = Expected

(* No device that is listed or still in use by the enumeration has been     *)
(* freed, each of them reaches the function it stands for, and those that   *)
(* are neither were made for empty slots.                                   *)
InUse == {IF f.call = "segment" THEN f.root ELSE f.device : f \in ToSet(frames)} \ {NONE}
DevicesAccounted(opened) ==
  /\ ToSet(g_pci_devices) \intersect (InUse \union stray) = {}
  /\ DOMAIN devices = ToSet(g_pci_devices) \union InUse \union stray
  /\ \A d \in ToSet(g_pci_devices) \ opened : Reached(devices[d]) = {AddressOf(d)}

(* pci_config_read_bar leaves the register as it was and reports the        *)
(* address, the size and the kind that the function has.                    *)
BarsReported ==
  bar_read # NONE /\ bar_read.result # NONE =>
    LET bar == machine.functions[bar_read.function].bars[bar_read.index]
    IN /\ bar_read.register = bar.address + bar.kind
       /\ bar_read.result.address = bar.address /\ bar_read.result.size = bar.size % 2^WIDTH
       /\ bar_read.result.upper = IF bar.kind # MEMORY64 THEN 0
                                  ELSE machine.functions[bar_read.function].bars[bar_read.index + 1].address
       /\ bar_read.result.iospace = (bar.kind % 2 = 1)
============================================================================
