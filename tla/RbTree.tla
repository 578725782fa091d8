------------------------------- MODULE RbTree -------------------------------
(* The red-black tree of lib/rb.c, pointer by pointer.  A tree is a record  *)
(* of its root, its count and the nodes linked into it; every C function is *)
(* an operator from trees to trees, and the loops are recursions.  Nodes    *)
(* carry a fixed value (the value callback); several may share one.         *)
EXTENDS Integers, FiniteSets, SequencesExt

CONSTANTS Node,         \* rb_node_t objects
          value,        \* Node -> Nat, the callback of the tree
          NULL          \* nullptr

ASSUME ValueAssumption == value \in [Node -> Nat] /\ NULL \notin Node

LEFT == 1
RIGHT == 2
Other(d) == 3 - d
EmptyTree == [root |-> NULL, count |-> 0, at |-> [n \in {} |-> NULL]]

----------------------------------------------------------------------------
(* Reading and writing one field of a node. *)
IS_RED(t, n) == n # NULL /\ t.at[n].red
child(t, n, d) == t.at[n].child[d]
GET_DIRECTION(t, n) == IF n = child(t, t.at[n].parent, RIGHT) THEN RIGHT ELSE LEFT
SetChild(t, n, d, m) == [t EXCEPT !.at[n].child[d] = m]
SetParent(t, n, p) == IF n = NULL THEN t ELSE [t EXCEPT !.at[n].parent = p]
Paint(t, n, red) == [t EXCEPT !.at[n].red = red]

(* v takes the place of u under u's parent. *)
transplant(t, u, v) ==
  LET p == t.at[u].parent
      s == IF p = NULL THEN [t EXCEPT !.root = v] ELSE SetChild(t, p, GET_DIRECTION(t, u), v)
  IN SetParent(s, v, p)

(* Mutant: the inner subtree changes sides but keeps its old parent. *)
rotate_keeps_parent(t, n, d) ==
  LET p == t.at[n].parent
      top == child(t, n, Other(d))
      s == SetChild(t, n, Other(d), child(t, top, d))
      u == SetParent(SetParent(SetChild(s, top, d, n), n, top), top, p)
  IN IF p = NULL THEN [u EXCEPT !.root = top] ELSE SetChild(u, p, GET_DIRECTION(t, n), top)

(* n goes down to side d, its other child comes up. *)
rotate(t, n, d) ==
  LET p == t.at[n].parent
      top == child(t, n, Other(d))
      inner == child(t, top, d)
      s == SetParent(SetChild(t, n, Other(d), inner), inner, n)
      u == SetParent(SetParent(SetChild(s, top, d, n), n, top), top, p)
  IN IF p = NULL THEN [u EXCEPT !.root = top] ELSE SetChild(u, p, GET_DIRECTION(t, n), top)

----------------------------------------------------------------------------
(* rb_insert: descend to the leaf position, equal values to the right, link *)
(* the node red, repair upwards.                                            *)
RECURSIVE rebalance_insert(_, _)
rebalance_insert(t, n) ==
  LET p == t.at[n].parent
      g == t.at[p].parent
      d == GET_DIRECTION(t, p)
      uncle == child(t, g, Other(d))
      bent == n = child(t, p, Other(d))
      s == IF bent THEN rotate(t, p, d) ELSE t
      top == child(s, g, d)
  IN CASE p = NULL -> Paint(t, t.root, FALSE)
       [] p # NULL /\ ~IS_RED(t, p) -> t
       [] p # NULL /\ IS_RED(t, p) /\ g = NULL -> Paint(t, p, FALSE)
       [] p # NULL /\ IS_RED(t, p) /\ g # NULL /\ IS_RED(t, uncle) ->
            rebalance_insert(Paint(Paint(Paint(t, p, FALSE), uncle, FALSE), g, TRUE), g)
       [] OTHER -> Paint(Paint(rotate(s, g, Other(d)), top, FALSE), g, TRUE)

RECURSIVE descend(_, _, _)
descend(t, n, at) ==
  LET d == IF value[n] < value[at] THEN LEFT ELSE RIGHT
  IN IF child(t, at, d) = NULL THEN <<at, d>> ELSE descend(t, n, child(t, at, d))

rb_insert(t, n) ==
  LET leaf(p, red) == [x \in {n} |-> [red |-> red, parent |-> p, child |-> <<NULL, NULL>>]]
      place == descend(t, n, t.root)
      grown(p, red) == [t EXCEPT !.count = @ + 1, !.at = @ @@ leaf(p, red)]
      s == SetChild(grown(place[1], TRUE), place[1], place[2], n)
  IN CASE t.root = NULL -> [grown(NULL, FALSE) EXCEPT !.root = n]
       [] t.root # NULL /\ t.at[place[1]].parent = NULL -> s
       [] OTHER -> rebalance_insert(s, n)

----------------------------------------------------------------------------
(* rb_remove: unlink the node or move its successor into its place, then    *)
(* repair the missing black from x under x_p upwards.  The two arms of the  *)
(* loop are mirror images; d is the side x is on.                           *)
RECURSIVE repair(_, _, _)
repair(t, x, x_p) ==
  IF x = t.root \/ IS_RED(t, x)
  THEN IF x = NULL THEN t ELSE Paint(t, x, FALSE)
  ELSE
    LET d == IF x = child(t, x_p, LEFT) THEN LEFT ELSE RIGHT
        w0 == child(t, x_p, Other(d))
        t1 == IF IS_RED(t, w0) THEN rotate(Paint(Paint(t, w0, FALSE), x_p, TRUE), x_p, d) ELSE t
        w1 == child(t1, x_p, Other(d))
        near == child(t1, w1, d)
        t2 == IF IS_RED(t1, child(t1, w1, Other(d))) THEN t1
              ELSE rotate(Paint(Paint(t1, near, FALSE), w1, TRUE), w1, Other(d))
        w2 == child(t2, x_p, Other(d))
        t3 == Paint(Paint(Paint(t2, w2, IS_RED(t2, x_p)), x_p, FALSE), child(t2, w2, Other(d)), FALSE)
        t4 == rotate(t3, x_p, d)
        lone == ~IS_RED(t1, near) /\ ~IS_RED(t1, child(t1, w1, Other(d)))
        t5 == Paint(t1, w1, TRUE)
    IN IF lone THEN repair(t5, x_p, t5.at[x_p].parent) ELSE repair(t4, t4.root, NULL)

RECURSIVE leftmost(_, _)
leftmost(t, n) == IF child(t, n, LEFT) = NULL THEN n ELSE leftmost(t, child(t, n, LEFT))

unlink(t, n) ==
  LET l == child(t, n, LEFT)
      r == child(t, n, RIGHT)
      only == IF l = NULL THEN r ELSE l
      suc == leftmost(t, r)
      x == child(t, suc, RIGHT)
      adjacent == t.at[suc].parent = n
      s == IF adjacent THEN t ELSE SetParent(SetChild(transplant(t, suc, x), suc, RIGHT, r), r, suc)
      u == SetParent(SetChild(transplant(s, n, suc), suc, LEFT, l), l, suc)
  IN IF l = NULL \/ r = NULL
     THEN [tree |-> transplant(t, n, only), x |-> only, x_p |-> t.at[n].parent, red |-> IS_RED(t, n)]
     ELSE [tree |-> Paint(u, suc, IS_RED(t, n)), x |-> x,
           x_p |-> IF adjacent THEN suc ELSE t.at[suc].parent, red |-> IS_RED(t, suc)]

rb_remove(t, n) ==
  LET u == unlink(t, n)
      s == IF u.red THEN u.tree ELSE repair(u.tree, u.x, u.x_p)
  IN [s EXCEPT !.count = @ - 1, !.at = [m \in DOMAIN @ \ {n} |-> @[m]]]

----------------------------------------------------------------------------
(* rb_search: one descent; `best` is nearest_node so far. *)
SearchType == {"EXACT", "NEAREST", "LT", "LTE", "GT", "GTE"}

RECURSIVE search(_, _, _, _, _)
search(t, v, type, at, best) ==
  LET here == value[at]
      Go(d, b) == search(t, v, type, child(t, at, d), b)
      side == IF v > here THEN RIGHT ELSE LEFT
  IN CASE at = NULL -> best
       [] at # NULL /\ type = "EXACT" -> IF here = v THEN at ELSE Go(side, best)
       [] at # NULL /\ type = "NEAREST" -> Go(side, at)
       [] at # NULL /\ type \in {"LT", "LTE"} ->
            IF here > v \/ (type = "LT" /\ here = v) THEN Go(LEFT, best)
            ELSE Go(RIGHT, IF best = NULL \/ here > value[best] THEN at ELSE best)
       [] at # NULL /\ type \in {"GT", "GTE"} ->
            IF here < v \/ (type = "GT" /\ here = v) THEN Go(RIGHT, best)
            ELSE Go(LEFT, IF best = NULL \/ here < value[best] THEN at ELSE best)

(* Mutant: "less than" also accepts an equal value. *)
rb_search_inclusive(t, v, type) ==
  search(t, v, IF type = "LT" THEN "LTE" ELSE type, t.root, NULL)

rb_search(t, v, type) == search(t, v, type, t.root, NULL)

----------------------------------------------------------------------------
VARIABLES tree,         \* the rb_tree_t
          order         \* ghost: the linked nodes, by value and then by age

rbVars == <<tree, order>>
Linked == DOMAIN tree.at

RbInit == tree = EmptyTree /\ order = <<>>

(* The place of a new node in the reference order: after every node whose   *)
(* value is not greater.                                                    *)
RbInsert(n) ==
  /\ n \notin Linked
  /\ tree' = rb_insert(tree, n)
  /\ order' = InsertAt(order, Cardinality({m \in Linked : value[m] <= value[n]}) + 1, n)

RbRemove(n) ==
  /\ n \in Linked
  /\ tree' = rb_remove(tree, n)
  /\ order' = SelectSeq(order, LAMBDA m : m # n)

RbNext == \E n \in Node : RbInsert(n) \/ RbRemove(n)
RbSpec == RbInit /\ [][RbNext]_rbVars

----------------------------------------------------------------------------
RECURSIVE InOrder(_, _)
InOrder(t, n) ==
  IF n = NULL THEN <<>>
  ELSE InOrder(t, child(t, n, LEFT)) \o <<n>> \o InOrder(t, child(t, n, RIGHT))

RECURSIVE BlackHeights(_, _)
BlackHeights(t, n) ==
  IF n = NULL THEN {0}
  ELSE {h + (IF IS_RED(t, n) THEN 0 ELSE 1) :
          h \in BlackHeights(t, child(t, n, LEFT)) \union BlackHeights(t, child(t, n, RIGHT))}

(* Type invariant: the record rb_tree_t and its nodes. *)
RbTypeOK ==
  /\ Linked \subseteq Node /\ tree.root \in Linked \union {NULL}
  /\ \A n \in Linked : /\ tree.at[n].red \in BOOLEAN
                       /\ tree.at[n].parent \in Linked \union {NULL}
                       /\ tree.at[n].child \in [{LEFT, RIGHT} -> Linked \union {NULL}]

(* Whatever was inserted and removed, walking the tree from left to right    *)
(* meets exactly the linked nodes, sorted by value and, among equals, oldest *)
(* first: no rotation or successor move of rb_insert and rb_remove loses,    *)
(* repeats or misplaces a node, and count says how many there are.           *)
TreeSorted == InOrder(tree, tree.root) = order /\ tree.count = Len(order)

(* The balance that keeps every walk logarithmic: the root is black, no red  *)
(* node has a red child, and all paths hold the same number of black nodes,  *)
(* after rebalance_insert and after the repair loop of rb_remove.            *)
RedBlack ==
  /\ ~IS_RED(tree, tree.root)
  /\ \A n \in Linked : tree.at[n].red => ~IS_RED(tree, child(tree, n, LEFT)) /\ ~IS_RED(tree, child(tree, n, RIGHT))
  /\ Cardinality(BlackHeights(tree, tree.root)) = 1

(* Parent pointers, which rb_remove climbs and no search ever reads, agree   *)
(* with the child pointers.                                                  *)
ParentLinks ==
  \A n \in Linked : IF tree.at[n].parent = NULL THEN n = tree.root
                    ELSE n \in Range(tree.at[tree.at[n].parent].child)

(* After any insertions and removals of rb.c the tree is sorted, balanced, *)
(* complete and linked both ways.                                          *)
TreeWellFormed == RbTypeOK /\ TreeSorted /\ RedBlack /\ ParentLinks

(* rb_search returns what rb.h promises for each kind of search, at every    *)
(* boundary value: a node exactly when one qualifies, and then one of the    *)
(* nearest.  RB_SEARCH_TYPE_NEAREST is only used with 0 and then finds the   *)
(* smallest value.                                                           *)
SearchFinds ==
  LET Values == {value[n] : n \in Linked}
      Bound == 0 .. (Max({value[n] : n \in Node}) + 1)
      Best(S, hit, w) == IF S = {} THEN hit = NULL ELSE hit \in Linked /\ value[hit] = w
  IN \A v \in Bound :
       /\ LET S == Values \intersect {v} IN Best(S, rb_search(tree, v, "EXACT"), v)
       /\ LET S == {w \in Values : w < v} IN Best(S, rb_search(tree, v, "LT"), Max(S))
       /\ LET S == {w \in Values : w <= v} IN Best(S, rb_search(tree, v, "LTE"), Max(S))
       /\ LET S == {w \in Values : w > v} IN Best(S, rb_search(tree, v, "GT"), Min(S))
       /\ LET S == {w \in Values : w >= v} IN Best(S, rb_search(tree, v, "GTE"), Min(S))
       /\ Best(Values, rb_search(tree, 0, "NEAREST"), Min(Values))
============================================================================
