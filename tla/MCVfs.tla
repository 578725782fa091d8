------------------------------- MODULE MCVfs --------------------------------
(* A disk with the directories t and u, a file f in the root and a file a   *)
(* in u; up to three file systems.                                          *)
EXTENDS Vfs

MCDirTable == << [name |-> "root", file |-> 1, dir |-> 2, next |-> 0, parent |-> 0],
                 [name |-> "t", file |-> 0, dir |-> 0, next |-> 3, parent |-> 1],
                 [name |-> "u", file |-> 2, dir |-> 0, next |-> 0, parent |-> 1] >>
MCFileTable == << [name |-> "f", data |-> <<"x", "y">>, next |-> 0, parent |-> 1],
                  [name |-> "a", data |-> <<"y">>, next |-> 0, parent |-> 3] >>
MCPaths == [lead : {TRUE}, comps : {<<"">>, <<"t">>, <<"t", "">>, <<"t", "a">>, <<"u", "a">>,
                                    <<"t", ".", "..">>}]
           \union [lead : {FALSE}, comps : {<<"..">>, <<"b">>}]
(* One disk; and listings, the contents of a file and a third file system   *)
(* are looked at one at a time; a listing with few vnodes of the disk.      *)
OneConcern ==
  /\ Len(SelectSeq(fs.all, LAMBDA v : v.ops = RDSK)) <= 1
  /\ Cardinality({n \in DOMAIN want : want[n] # <<>>}) + (IF reader # NONE THEN 1 ELSE 0)
       + (IF Len(fs.all) > 2 THEN 1 ELSE 0) <= 1
  /\ reader # NONE => Cardinality({n \in DOMAIN fs.mounted : ~IsTmpfs(fs, n)}) <= 2
============================================================================
