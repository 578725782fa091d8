----------------------------- MODULE MCCpuLocal -----------------------------
(* CpuLocal with one user thread beside the idle thread.                   *)
EXTENDS CpuLocal
CONSTANTS t1, idle
===========================================================================
