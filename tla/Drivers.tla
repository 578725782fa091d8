------------------------------ MODULE Drivers -------------------------------
(* The devices and what drives them: the boot processor enumerates PCI,     *)
(* then the first program is started, and later uACPI and kernel modules    *)
(* are served.                                                              *)
EXTENDS Uacpi, Loader

vars == <<pciVars, irqVars, loaderVars>>

Init == PciInit /\ IrqInit /\ LoaderInit

Next == \/ ~panicked /\ PciNext /\ UNCHANGED <<irqVars, loaderVars>>
        \/ ~panicked /\ IrqNext /\ UNCHANGED loaderVars
        \/ Enumerated /\ ~fault /\ LoaderNext /\ UNCHANGED <<pciVars, irqVars>>

Spec == Init /\ [][Next]_vars

(* Every function of the machine is in the list of devices once.            *)
DevicesListed == FunctionsListed(opened)

(* A device is listed, in use or left over from an empty slot, and the      *)
(* listed ones reach their function.                                        *)
DevicesKept == DevicesAccounted(opened)

(* pci_enumerate lists every function once, in a device of its own that is *)
(* kept, and reports what its base address registers decode.               *)
DevicesReported == DevicesListed /\ DevicesKept /\ BarsReported
============================================================================
