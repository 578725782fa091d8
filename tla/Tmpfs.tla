------------------------------- MODULE Tmpfs --------------------------------
(* The file system in memory (fs/tmpfs.c), with the heap calls its buffers  *)
(* depend on (memory/heap.c).  The siblings of a directory are a sequence;  *)
(* a file's `base` holds file->size bytes, and nullptr is the empty one.    *)
(* The name of a node is the caller's string and is never changed.          *)
EXTENDS Vnode

JUNK == "junk"      \* a byte nobody has written
ZERO == "0"

----------------------------------------------------------------------------
(* heap.c, as far as the contents of a buffer go. *)
heap_alloc(size) == [i \in 1..size |-> JUNK]

(* Mutant: the old buffer is dropped, not copied. *)
heap_realloc_drops(base, current, new) == IF current = new THEN base ELSE heap_alloc(new)

(* The copy runs over the larger of the two sizes: what follows the old     *)
(* buffer comes along.                                                      *)
heap_realloc(base, current, new) ==
  IF current = new THEN base
  ELSE [i \in 1..new |-> IF i <= current THEN base[i] ELSE JUNK]

----------------------------------------------------------------------------
(* The new node becomes the first child of its parent. *)
make_tmpfs_node(s, parent, v, type, name) ==
  LET id == s.id_counter[v] + 1
      n == Vnode(v, type, id, 1)
      node == [name |-> name, parent |-> parent, children |-> <<>>, base |-> <<>>]
      grown == IF parent = NONE THEN s.tmp ELSE [s.tmp EXCEPT ![parent].children = <<n>> \o @]
  IN Result([WithVnode(s, n) EXCEPT
               !.id_counter[v] = id,
               !.tmp = [m \in DOMAIN @ \union {n} |-> IF m = n THEN node ELSE grown[m]]],
            "OK", n)

dir_find(s, dir, name) ==
  LET children == s.tmp[dir].children
      hits == {i \in DOMAIN children : s.tmp[children[i]].name = name}
  IN IF hits = {} THEN NONE ELSE children[CHOOSE i \in hits : \A j \in hits : i <= j]

tmpfs_lookup(s, n, name) ==
  LET found == dir_find(s, n, name)
  IN CASE name = "." -> Result(s, "OK", n)
       [] name = ".." -> Result(s, "OK", s.tmp[n].parent)
       [] OTHER -> IF found = NONE THEN Result(s, "NOT_FOUND", NONE) ELSE Result(s, "OK", found)

(* tmpfs_mkdir and tmpfs_mkfile. *)
tmpfs_make(s, n, type, name) ==
  IF n.type # DIR THEN Result(s, "NOT_DIR", NONE)
  ELSE IF dir_find(s, n, name) # NONE THEN Result(s, "EXISTS", NONE)
  ELSE make_tmpfs_node(s, n, n.vfs, type, name)

tmpfs_read(s, n, offset, size) ==
  LET base == s.tmp[n].base
  IN IF offset >= Len(base) THEN <<>>
     ELSE SubSeq(base, offset + 1, IF Len(base) - offset > size THEN offset + size ELSE Len(base))

tmpfs_write(s, n, offset, buffer) ==
  LET size == Len(s.tmp[n].base)
      end == offset + Len(buffer)
      base == IF end > size THEN heap_realloc(s.tmp[n].base, size, end) ELSE s.tmp[n].base
  IN [s EXCEPT !.tmp[n].base =
        [i \in DOMAIN base |-> IF i > offset /\ i <= end THEN buffer[i - offset] ELSE base[i]]]

tmpfs_truncate(s, n, length) ==
  [s EXCEPT !.tmp[n].base = [i \in 1..length |-> IF i <= Len(@) THEN @[i] ELSE ZERO]]

tmpfs_readdir(s, n, offset) ==
  LET children == s.tmp[n].children
  IN [name |-> IF offset < Len(children) THEN s.tmp[children[offset + 1]].name ELSE NONE,
      offset |-> offset + 1]

tmpfs_mount(s, v) ==
  make_tmpfs_node([s EXCEPT !.id_counter = Append(@, 1)], NONE, v, DIR, "root").s

tmpfs_root(s, v) == Vnode(v, DIR, 2, 1)
============================================================================
