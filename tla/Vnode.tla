------------------------------- MODULE Vnode --------------------------------
(* What the file systems share: the vnodes (include/fs/vfs.h) and the state *)
(* that the functions of the file systems pass on.  A vnode is named by its *)
(* file system, type, index (the rdsk table index or the tmpfs id) and the  *)
(* number of the vnode among those made for that index.                     *)
EXTENDS Integers, FiniteSets, SequencesExt

CONSTANT NONE       \* nullptr

RDSK == "rdsk"
TMPFS == "tmpfs"
DIR == "DIR"
FILE == "FILE"

EmptyFs == [all |-> <<>>,                       \* g_vfs_all: [ops, mount_point]
            mounted |-> [n \in {} |-> NONE],    \* mounted_vfs of every vnode
            cache |-> {},                       \* dir_cache and file_cache
            tmp |-> [n \in {} |-> NONE],        \* the tmpfs nodes
            id_counter |-> <<>>]                \* of every tmpfs

Vnodes == [vfs : Nat, type : {DIR, FILE}, index : Nat, copy : Nat]

(* What names and files are made of; the literals are among the strings. *)
Text == STRING \union {"", ".", "root"}

ASSUME NoneAssumption == NONE \notin Nat /\ NONE \notin Text /\ NONE \notin Vnodes

Vnode(v, type, index, copy) == [vfs |-> v, type |-> type, index |-> index, copy |-> copy]
Result(s, res, node) == [s |-> s, res |-> res, node |-> node]

(* A vnode starts with nothing mounted on it. *)
WithVnode(s, n) == [s EXCEPT !.mounted = [m \in DOMAIN @ \union {n} |-> IF m = n THEN NONE ELSE @[m]]]
============================================================================
