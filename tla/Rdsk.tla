-------------------------------- MODULE Rdsk --------------------------------
(* The read-only RAM disk (fs/rdsk.c).  Its tables are constants; the only  *)
(* state is the vnodes made so far, one per table index: a mount lives in   *)
(* the vnode, so a second vnode of the same directory would not show it.    *)
EXTENDS Vnode

CONSTANTS DirTable,     \* [name, file, dir, next, parent], indices from 1
          FileTable,    \* [name, data, next, parent]
          REVISION      \* of the disk's format

ROOT_INDEX == 1
SUPPORTED_REVISION == 257

(* next_index leads to the end of the list from every entry. *)
Ends(table) ==
  /\ \A i \in 1..Len(table) : table[i].next \in 0..Len(table)
  /\ \A T \in SUBSET (1..Len(table)) : T # {} => \E i \in T : table[i].next \notin T

(* The disk is a module the loader has read, made with the kernel;          *)
(* rdsk_mount looks at nothing but its revision, so what the tables hold is *)
(* taken on trust.  So is the revision: rdsk_mount returns UNSUPPORTED for  *)
(* a newer one, vfs_mount ignores the result, and every use of the file     *)
(* system then takes the header for an info_t, with no defined outcome.     *)
ASSUME RdskAssumption ==
  LET dirs == 0..Len(DirTable)
  IN /\ REVISION \in Nat /\ REVISION <= SUPPORTED_REVISION
     /\ DirTable \in Seq([name : Text, file : 0..Len(FileTable), dir : dirs, next : dirs, parent : dirs])
     /\ FileTable \in Seq([name : Text, data : Seq(Text), next : 0..Len(FileTable), parent : dirs])
     /\ ROOT_INDEX \in 1..Len(DirTable) /\ Ends(DirTable) /\ Ends(FileTable)

(* Mutant: the vnode is not put in the cache. *)
get_vfs_node_uncached(s, v, type, index) ==
  LET made == {n \in DOMAIN s.mounted : n.vfs = v /\ n.type = type /\ n.index = index}
      n == Vnode(v, type, index, Cardinality(made) + 1)
  IN Result(WithVnode(s, n), "OK", n)

(* get_dir_vfs_node and get_file_vfs_node. *)
get_vfs_node(s, v, type, index) ==
  LET made == {n \in DOMAIN s.mounted : n.vfs = v /\ n.type = type /\ n.index = index}
      cached == made \intersect s.cache
      n == Vnode(v, type, index, Cardinality(made) + 1)
  IN IF cached # {} THEN Result(s, "OK", CHOOSE c \in cached : TRUE)
     ELSE Result([WithVnode(s, n) EXCEPT !.cache = @ \union {n}], "OK", n)

(* The entries of a table from `index` on, along next_index. *)
Chain(table, index) ==
  LET chain[i \in 0..Len(table)] == IF i = 0 THEN <<>> ELSE <<i>> \o chain[table[i].next]
  IN chain[index]

(* find_dir and find_file: the first entry of that name, 0 if none. *)
find(table, index, name) ==
  LET chain == Chain(table, index)
      hits == {k \in DOMAIN chain : table[chain[k]].name = name}
  IN IF hits = {} THEN 0 ELSE chain[CHOOSE k \in hits : \A l \in hits : k <= l]

rdsk_lookup(s, n, name) ==
  LET dir == DirTable[n.index]
      file == find(FileTable, dir.file, name)
      sub == find(DirTable, dir.dir, name)
  IN CASE name = "." -> Result(s, "OK", n)
       [] name = ".." -> IF dir.parent = 0 THEN Result(s, "OK", NONE)
                         ELSE get_vfs_node(s, n.vfs, DIR, dir.parent)
       [] name \notin {".", ".."} /\ file # 0 -> get_vfs_node(s, n.vfs, FILE, file)
       [] name \notin {".", ".."} /\ file = 0 /\ sub # 0 -> get_vfs_node(s, n.vfs, DIR, sub)
       [] OTHER -> Result(s, "NOT_FOUND", NONE)

rdsk_read(n, offset, size) ==
  LET data == FileTable[n.index].data
  IN IF offset >= Len(data) THEN <<>>
     ELSE SubSeq(data, offset + 1, IF Len(data) - offset > size THEN offset + size ELSE Len(data))

(* Mutant: the directories begin where the files of this directory end. *)
rdsk_readdir_no_jump(n, offset) ==
  LET files == Chain(FileTable, DirTable[n.index].file)
      dirs == Chain(DirTable, DirTable[n.index].dir)
      d == offset - Len(FileTable)
  IN CASE offset < Len(files) -> [name |-> FileTable[files[offset + 1]].name, offset |-> offset + 1]
       [] offset >= Len(files) /\ d >= 0 /\ d < Len(dirs) ->
            [name |-> DirTable[dirs[d + 1]].name, offset |-> offset + 1]
       [] OTHER -> [name |-> NONE, offset |-> offset]

(* The files first; behind them the offset jumps to the number of files of  *)
(* the whole disk, from where it counts the directories.                    *)
rdsk_readdir(n, offset) ==
  LET files == Chain(FileTable, DirTable[n.index].file)
      dirs == Chain(DirTable, DirTable[n.index].dir)
      local == IF offset < Len(FileTable) THEN Len(FileTable) ELSE offset
      d == local - Len(FileTable)
  IN CASE offset < Len(files) -> [name |-> FileTable[files[offset + 1]].name, offset |-> offset + 1]
       [] offset >= Len(files) /\ d < Len(dirs) ->
            [name |-> DirTable[dirs[d + 1]].name, offset |-> local + 1]
       [] OTHER -> [name |-> NONE, offset |-> offset]

(* Both caches start empty: no vnode of `v` has been made. *)
rdsk_mount(s, v) == [s EXCEPT !.id_counter = Append(@, 0)]

rdsk_root(s, v) == get_vfs_node(s, v, DIR, ROOT_INDEX)
============================================================================
