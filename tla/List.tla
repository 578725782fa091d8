-------------------------------- MODULE List --------------------------------
(* The doubly linked list of lib/list.c, pointer by pointer.  A list is a   *)
(* record of head, tail, count and the links of the nodes in it; a node the *)
(* caller removes keeps stale links, which are dropped here because         *)
(* list_push and list_node_append overwrite them.                           *)
EXTENDS Integers, SequencesExt

CONSTANTS Item,         \* list_node_t objects
          NoItem        \* nullptr

ASSUME ListAssumption == IsFiniteSet(Item) /\ NoItem \notin Item

EmptyList == [head |-> NoItem, tail |-> NoItem, count |-> 0, at |-> [n \in {} |-> NoItem]]

SetNext(l, n, m) == IF n = NoItem THEN l ELSE [l EXCEPT !.at[n].next = m]
SetPrev(l, n, m) == IF n = NoItem THEN l ELSE [l EXCEPT !.at[n].prev = m]
Place(l, n, prev, next) ==
  [l EXCEPT !.at = [m \in {n} \union DOMAIN l.at |->
                      IF m = n THEN [prev |-> prev, next |-> next] ELSE l.at[m]],
            !.count = @ + 1]

list_initial_node(l, n) == [Place(l, n, NoItem, NoItem) EXCEPT !.head = n, !.tail = n]

(* Mutant: appending after the last node leaves tail where it was. *)
list_node_append_keeps_tail(l, pos, n) ==
  LET s == Place(l, n, pos, l.at[pos].next)
  IN SetPrev(SetNext(s, pos, n), s.at[n].next, n)

list_node_append(l, pos, n) ==
  LET s == Place(l, n, pos, l.at[pos].next)
      u == SetPrev(SetNext(s, pos, n), s.at[n].next, n)
  IN IF l.tail = pos THEN [u EXCEPT !.tail = n] ELSE u

list_node_prepend(l, pos, n) ==
  LET s == Place(l, n, l.at[pos].prev, pos)
      u == SetNext(SetPrev(s, pos, n), s.at[n].prev, n)
  IN IF l.head = pos THEN [u EXCEPT !.head = n] ELSE u

list_push_front(l, n) ==
  IF l.head = NoItem THEN list_initial_node(l, n) ELSE list_node_prepend(l, l.head, n)

list_push_back(l, n) ==
  IF l.tail = NoItem THEN list_initial_node(l, n) ELSE list_node_append(l, l.tail, n)

list_node_delete(l, n) ==
  LET next == l.at[n].next
      prev == l.at[n].prev
      s == [l EXCEPT !.count = @ - 1,
                     !.head = IF @ = n THEN next ELSE @,
                     !.tail = IF @ = n THEN prev ELSE @]
      u == SetPrev(SetNext(s, prev, next), next, prev)
  IN [u EXCEPT !.at = [m \in (DOMAIN u.at) \ {n} |-> u.at[m]]]

list_pop_front(l) == IF l.head = NoItem THEN l ELSE list_node_delete(l, l.head)
list_pop_back(l) == IF l.tail = NoItem THEN l ELSE list_node_delete(l, l.tail)

----------------------------------------------------------------------------
VARIABLES list,         \* the list_t
          items         \* ghost: the sequence the list stands for

listVars == <<list, items>>
ListInit == list = EmptyList /\ items = <<>>

PushFront(n) == list' = list_push_front(list, n) /\ items' = <<n>> \o items
PushBack(n) == list' = list_push_back(list, n) /\ items' = Append(items, n)
PopFront == list' = list_pop_front(list) /\ items' = IF items = <<>> THEN <<>> ELSE Tail(items)
PopBack == list' = list_pop_back(list) /\ items' = IF items = <<>> THEN <<>> ELSE Front(items)
AppendAt(i, n) == list' = list_node_append(list, items[i], n) /\ items' = InsertAt(items, i + 1, n)
PrependAt(i, n) == list' = list_node_prepend(list, items[i], n) /\ items' = InsertAt(items, i, n)
DeleteAt(i) == list' = list_node_delete(list, items[i]) /\ items' = RemoveAt(items, i)

ListNext ==
  \/ \E n \in Item \ DOMAIN list.at :
       \/ PushFront(n) \/ PushBack(n)
       \/ \E i \in DOMAIN items : AppendAt(i, n) \/ PrependAt(i, n)
  \/ PopFront \/ PopBack
  \/ \E i \in DOMAIN items : DeleteAt(i)

ListSpec == ListInit /\ [][ListNext]_listVars

----------------------------------------------------------------------------
(* LIST_ITERATE: from a node along one kind of link, at most as many steps  *)
(* as there are nodes.                                                      *)
Walk(start, follow) ==
  LET at[k \in 0 .. Cardinality(Item)] ==
        IF k = 0 THEN start ELSE IF at[k - 1] = NoItem THEN NoItem ELSE follow[at[k - 1]]
  IN at

(* A walk that goes over the sequence s and then ends.                      *)
Reads(walk, s) ==
  \A k \in 0 .. Cardinality(Item) : walk[k] = IF k < Len(s) THEN s[k + 1] ELSE NoItem

(* However nodes were pushed, inserted, popped and deleted, the list read    *)
(* forwards from head is the sequence it stands for, read backwards from     *)
(* tail it is that sequence reversed, and count is its length: a node is     *)
(* never lost from one direction only.                                       *)
ListIsSequence ==
  /\ Reads(Walk(list.head, [n \in DOMAIN list.at |-> list.at[n].next]), items)
  /\ Reads(Walk(list.tail, [n \in DOMAIN list.at |-> list.at[n].prev]), Reverse(items))
  /\ list.count = Len(items)
============================================================================
