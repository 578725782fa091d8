-------------------------------- MODULE Vfs ---------------------------------
(* The virtual file system (fs/vfs.c) over tmpfs and rdsk: mounts, paths    *)
(* and the operations on files.  Nothing here takes a lock; the callers are *)
(* the boot processor and the ELF loader, so every operation is one         *)
(* transition.                                                              *)
(*                                                                          *)
(* A path is split at its slashes: `lead` says that it starts with one, and *)
(* the components of "a//b" are "a", "" and "b".  A name has one character. *)
EXTENDS Tmpfs, Rdsk

CONSTANTS Paths,        \* the texts of the paths callers use
          Name,         \* the names callers create
          STACKED,      \* whether the root of a mounted file system is mounted on
          MAX_VFS,      \* bound on the file systems mounted
          MAX_NODES,    \* bound on the tmpfs nodes made
          MAX_SIZE      \* bound on the size of a file

ASSUME VfsAssumption ==
  /\ STACKED \in BOOLEAN /\ MAX_VFS \in Nat /\ MAX_NODES \in Nat /\ MAX_SIZE \in Nat
  /\ Name \subseteq Text
  /\ \A p \in Paths : p.lead \in BOOLEAN /\ p.comps \in Seq(Text) /\ p.comps # <<>>

VARIABLES fs,       \* the file systems
          want,     \* what was written to each tmpfs file
          reader    \* a caller in the middle of listing a directory

vars == <<fs, want, reader>>

IsTmpfs(s, n) == s.all[n.vfs].ops = TMPFS

(* The operations of the file system a vnode or a vfs belongs to. *)
lookup(s, n, name) ==
  CASE n.type # DIR -> Result(s, "NOT_DIR", NONE)
    [] n.type = DIR /\ IsTmpfs(s, n) -> tmpfs_lookup(s, n, name)
    [] OTHER -> rdsk_lookup(s, n, name)
make(s, n, type, name) == IF IsTmpfs(s, n) THEN tmpfs_make(s, n, type, name)
                          ELSE Result(s, "READ_ONLY_FS", NONE)
readdir(s, n, offset) == IF IsTmpfs(s, n) THEN tmpfs_readdir(s, n, offset) ELSE rdsk_readdir(n, offset)
read(s, n, offset, size) == IF IsTmpfs(s, n) THEN tmpfs_read(s, n, offset, size)
                            ELSE rdsk_read(n, offset, size)
root_node(s, v) == IF s.all[v].ops = TMPFS THEN Result(s, "OK", tmpfs_root(s, v)) ELSE rdsk_root(s, v)

vfs_root(s) == IF s.all = <<>> THEN Result(s, "NOT_FOUND", NONE) ELSE root_node(s, 1)

----------------------------------------------------------------------------
(* vfs_lookup_ext reads a path character by character, and each turn of its *)
(* loop ends by crossing at most one mount: a component is preceded by one  *)
(* crossing per character and followed by one for its slash or the end.     *)
Characters(comp) == CASE comp = "" -> 0 [] comp = ".." -> 2 [] OTHER -> 1

(* The first character of a path without a slash is taken for one. *)
WithoutFirst(comp) == IF comp = ".." THEN "." ELSE ""

Enter(r) == IF r.s.mounted[r.node] = NONE THEN r ELSE root_node(r.s, r.s.mounted[r.node])
cross(r, times) ==
  CASE times = 0 -> r
    [] times = 1 -> Enter(r)
    [] times = 2 -> Enter(Enter(r))

(* One component: look it up; the parent of the root of a file system is    *)
(* that root, mounted or not; a missing last component may be created; with *)
(* `exclusive`, every other outcome is turned into an error.                *)
component(s, n, comp, last, create, exclusive) ==
  LET Found(l) == IF l.res = "OK" /\ l.node = NONE THEN [l EXCEPT !.node = n] ELSE l
      Outcome(l) ==
        CASE l.res = "NOT_FOUND" /\ last /\ create # NONE -> make(l.s, n, create, comp)
          [] l.res = "NOT_FOUND" /\ last /\ create = NONE -> l
          [] OTHER -> IF exclusive THEN [Found(l) EXCEPT !.res = "EXISTS"] ELSE Found(l)
  IN Outcome(lookup(s, n, comp))

(* Where the loop starts, and what it reads: the root for a path that      *)
(* starts with a slash or at no vnode.                                      *)
Components(path) ==
  IF path.lead \/ path.root # NONE THEN path.comps
  ELSE <<WithoutFirst(Head(path.comps))>> \o Tail(path.comps)
Start(s, path) == IF path.lead \/ path.root = NONE THEN vfs_root(s) ELSE Result(s, "OK", path.root)

(* The turns of the loop for one component; the first error ends them.      *)
Turn(r, comp, last, create, exclusive) ==
  LET At(before) == IF comp = "" THEN before
                    ELSE component(before.s, before.node, comp, last, create, exclusive)
      Behind(found) == IF found.res # "OK" THEN [found EXCEPT !.node = NONE] ELSE cross(found, 1)
  IN IF r.res # "OK" THEN r ELSE Behind(At(cross(r, Characters(comp))))

vfs_lookup_ext(s, path, create, exclusive) ==
  LET comps == Components(path)
      turn[i \in 0..Len(comps)] ==
        IF i = 0 THEN Start(s, path)
        ELSE Turn(turn[i - 1], comps[i], i = Len(comps), create, exclusive)
  IN turn[Len(comps)]

vfs_lookup(s, path) == vfs_lookup_ext(s, path, NONE, FALSE)

(* vfs_mkdir and vfs_mkfile. *)
vfs_make(s, path, type, name) ==
  LET In(r) == IF r.res # "OK" THEN r ELSE make(r.s, r.node, type, name)
  IN In(vfs_lookup(s, path))

(* The new file system becomes the last of g_vfs_all. *)
Add(s, ops, point) ==
  LET v == Len(s.all) + 1
      u == [s EXCEPT !.all = Append(@, [ops |-> ops, mount_point |-> point])]
  IN IF ops = TMPFS THEN tmpfs_mount(u, v) ELSE rdsk_mount(u, v)

(* Mutant: the covered directory is not told what covers it. *)
vfs_mount_unlinked(s, ops, path) ==
  LET Cover(r) ==
        IF r.res # "OK" \/ r.node.type # DIR \/ r.s.mounted[r.node] # NONE THEN r.s
        ELSE Add(r.s, ops, r.node)
  IN IF s.all # <<>> THEN Cover(vfs_lookup(s, path))
     ELSE IF path # NONE THEN s ELSE Add(s, ops, NONE)

(* The first file system has no mount point; another covers the directory   *)
(* its path leads to, unless that one is covered already.                   *)
vfs_mount(s, ops, path) ==
  LET Cover(r) ==
        IF r.res # "OK" \/ r.node.type # DIR \/ r.s.mounted[r.node] # NONE THEN r.s
        ELSE Add([r.s EXCEPT !.mounted[r.node] = Len(s.all) + 1], ops, r.node)
  IN IF s.all # <<>> THEN Cover(vfs_lookup(s, path))
     ELSE IF path # NONE THEN s ELSE Add(s, ops, NONE)

----------------------------------------------------------------------------
(* The callers.  A path is absolute or starts at a vnode they hold. *)
PathFrom(root, text) == [root |-> root, lead |-> text.lead, comps |-> text.comps]
Absolute == {PathFrom(NONE, t) : t \in Paths}
Relative == {PathFrom(n, t) : n \in DOMAIN fs.mounted, t \in {t \in Paths : ~t.lead}}

Init == fs = EmptyFs /\ want = [n \in {} |-> <<>>] /\ reader = NONE

(* A new file is empty. *)
Settle(s) ==
  /\ Cardinality(DOMAIN s.tmp) <= MAX_NODES
  /\ fs' = s
  /\ want' = [n \in {m \in DOMAIN s.tmp : m.type = FILE} |-> IF n \in DOMAIN want THEN want[n] ELSE <<>>]
  /\ UNCHANGED reader

(* A lookup crosses one mount behind the last component, so a file system   *)
(* mounted on the root of a mounted one is found by some paths and not by   *)
(* others; unless STACKED, nobody does that.                                *)
PlainMounts(s) == \A v \in DOMAIN s.all : v > 1 => LET p == s.all[v].mount_point
                                                  IN p.vfs > 1 => p # root_node(s, p.vfs).node

Mount ==
  /\ Len(fs.all) < MAX_VFS
  /\ \E ops \in {RDSK, TMPFS} :
       \/ fs.all = <<>> /\ Settle(vfs_mount(fs, ops, NONE))
       \/ fs.all # <<>> /\ \E t \in Paths : \E s \in {vfs_mount(fs, ops, PathFrom(NONE, t))} :
            (STACKED \/ PlainMounts(s)) /\ Settle(s)

Lookup ==
  \E path \in Absolute \union Relative, create \in {NONE, DIR, FILE}, exclusive \in BOOLEAN :
    Settle(vfs_lookup_ext(fs, path, create, exclusive).s)

Make ==
  \E path \in Absolute, type \in {DIR, FILE}, name \in Name :
    Settle(vfs_make(fs, path, type, name).s)

(* The bytes a file should hold behind a write: what was written, what was  *)
(* there, and between the old end and the write, nothing in particular.     *)
Overwrite(old, offset, buffer) ==
  LET end == offset + Len(buffer)
  IN [i \in 1..(IF end > Len(old) THEN end ELSE Len(old)) |->
        IF i > offset /\ i <= end THEN buffer[i - offset]
        ELSE IF i <= Len(old) THEN old[i] ELSE JUNK]

(* vfs_rw with VFS_RW_WRITE; a read changes nothing. *)
Write ==
  \E path \in Absolute, offset \in 0..MAX_SIZE, buffer \in {<<>>, <<"x">>, <<"y", "x">>} :
    \E r \in {vfs_lookup(fs, path)} :
       /\ r.res = "OK" /\ r.node.type = FILE /\ IsTmpfs(fs, r.node)
       /\ offset + Len(buffer) <= MAX_SIZE
       /\ fs' = tmpfs_write(r.s, r.node, offset, buffer)
       /\ want' = [want EXCEPT ![r.node] = Overwrite(@, offset, buffer)]
       /\ UNCHANGED reader

Truncate ==
  \E n \in DOMAIN want, length \in 0..MAX_SIZE :
    /\ fs' = tmpfs_truncate(fs, n, length)
    /\ want' = [want EXCEPT ![n] = [i \in 1..length |-> IF i <= Len(@) THEN @[i] ELSE ZERO]]
    /\ UNCHANGED reader

(* A directory is listed one entry per call, at the caller's own pace. *)
Entries(s, n) ==
  IF IsTmpfs(s, n) THEN {s.tmp[s.tmp[n].children[i]].name : i \in DOMAIN s.tmp[n].children}
  ELSE LET dir == DirTable[n.index]
       IN {e.name : e \in {FileTable[i] : i \in ToSet(Chain(FileTable, dir.file))}}
          \union {e.name : e \in {DirTable[i] : i \in ToSet(Chain(DirTable, dir.dir))}}

StartListing ==
  /\ reader = NONE
  /\ \E n \in DOMAIN fs.mounted :
       /\ n.type = DIR
       /\ reader' = [dir |-> n, offset |-> 0, seen |-> {}, there |-> Entries(fs, n), done |-> FALSE]
  /\ UNCHANGED <<fs, want>>

Readdir ==
  /\ reader # NONE /\ ~reader.done
  /\ LET e == readdir(fs, reader.dir, reader.offset)
     IN reader' = [reader EXCEPT !.offset = e.offset, !.done = e.name = NONE,
                                 !.seen = IF e.name = NONE THEN @ ELSE @ \union {e.name}]
  /\ UNCHANGED <<fs, want>>

StopListing == reader # NONE /\ reader.done /\ reader' = NONE /\ UNCHANGED <<fs, want>>

Next == Mount \/ Lookup \/ Make \/ Write \/ Truncate \/ StartListing \/ Readdir \/ StopListing

Spec == Init /\ [][Next]_vars

----------------------------------------------------------------------------
Dirs == {n \in DOMAIN fs.tmp : n.type = DIR}
FsRoots == {root_node(fs, v).node : v \in DOMAIN fs.all}

(* tmpfs_mkdir and tmpfs_mkfile keep each tmpfs a tree: every node but the  *)
(* root is in the children of its parent, in those of no other directory,   *)
(* once; and no directory has two entries of the same name, which dir_find  *)
(* could not tell apart.                                                    *)
TreesWellFormed ==
  /\ \A n \in DOMAIN fs.tmp \ FsRoots :
       /\ fs.tmp[n].parent \in Dirs
       /\ \A d \in Dirs : Cardinality({i \in DOMAIN fs.tmp[d].children : fs.tmp[d].children[i] = n})
                            = IF d = fs.tmp[n].parent THEN 1 ELSE 0
  /\ \A d \in Dirs : Cardinality(Entries(fs, d)) = Len(fs.tmp[d].children)

(* A mount is known to both sides: mounted_vfs of a vnode names the file    *)
(* system whose mount_point it is, which was mounted later than its own (so *)
(* that following mounts ends), and every file system but the first covers  *)
(* a directory.                                                             *)
MountsAgree ==
  /\ \A n \in DOMAIN fs.mounted : fs.mounted[n] # NONE =>
       fs.all[fs.mounted[n]].mount_point = n /\ n.vfs < fs.mounted[n] /\ n.type = DIR
  /\ \A v \in DOMAIN fs.all : v > 1 =>
       fs.all[v].mount_point # NONE /\ fs.mounted[fs.all[v].mount_point] = v

(* The file systems are trees that the mounts join both ways.              *)
TreesAgree == TreesWellFormed /\ MountsAgree

ParentOf(n) ==
  LET p == (IF n.type = DIR THEN DirTable ELSE FileTable)[n.index].parent
  IN CASE IsTmpfs(fs, n) -> fs.tmp[n].parent
       [] ~IsTmpfs(fs, n) /\ p = 0 -> NONE
       [] OTHER -> CHOOSE d \in DOMAIN fs.mounted : d.vfs = n.vfs /\ d.type = DIR /\ d.index = p
NameOf(n) == IF IsTmpfs(fs, n) THEN fs.tmp[n].name
             ELSE (IF n.type = DIR THEN DirTable ELSE FileTable)[n.index].name

(* The components of the way to a node from the root of the whole tree, and *)
(* whether a mount over a directory on that way hides the node.             *)
PathTo ==
  LET path[n \in DOMAIN fs.mounted] ==
        IF ParentOf(n) # NONE THEN Append(path[ParentOf(n)], NameOf(n))
        ELSE IF n.vfs = 1 THEN <<>> ELSE path[fs.all[n.vfs].mount_point]
  IN path
Visible ==
  LET visible[n \in DOMAIN fs.mounted] ==
        IF ParentOf(n) # NONE THEN visible[ParentOf(n)] /\ fs.mounted[ParentOf(n)] = NONE
        ELSE n.vfs = 1 \/ visible[fs.all[n.vfs].mount_point]
  IN visible

(* vfs_lookup inverts the tree: the path of every node that no mount hides  *)
(* leads to that node and no other vnode of it, to the file system mounted  *)
(* on it if there is one, and with ".." behind it to its parent.            *)
PathsResolve ==
  \A n \in {n \in DOMAIN fs.mounted : ParentOf(n) # NONE /\ Visible[n]} :
    LET At(comps) == vfs_lookup(fs, [root |-> NONE, lead |-> TRUE, comps |-> comps])
        Leads(r) == /\ r.res = "OK"
                    /\ r.node = IF fs.mounted[n] = NONE THEN n ELSE root_node(fs, fs.mounted[n]).node
    IN /\ Leads(At(PathTo[n]))
       /\ n.type = DIR /\ fs.mounted[n] = NONE =>
            At(PathTo[n] \o <<"..">>).node = ParentOf(n)

(* Reading any stretch of a file returns the bytes last written there, cut  *)
(* at the end of the file, however often tmpfs_rw and tmpfs_truncate have   *)
(* moved the buffer; a gap that nobody wrote may hold anything.             *)
ReadsBack ==
  \A n \in {n \in DOMAIN fs.mounted : n.type = FILE}, offset, size \in 0..MAX_SIZE :
    LET bytes == IF IsTmpfs(fs, n) THEN want[n] ELSE FileTable[n.index].data
        got == read(fs, n, offset, size)
        left == Len(bytes) - offset
    IN /\ Len(got) = IF left < 0 THEN 0 ELSE IF left < size THEN left ELSE size
       /\ \A i \in DOMAIN got : bytes[offset + i] \in {got[i], JUNK}

(* A listing that has come to its end has shown every entry that was in the *)
(* directory when it began, even if nodes were made there meanwhile, and    *)
(* nothing that is not there.                                               *)
ListingMissesNothing ==
  reader # NONE => /\ reader.done => reader.there \subseteq reader.seen
                   /\ reader.seen \subseteq Entries(fs, reader.dir)
============================================================================
