-------------------------------- MODULE ListX --------------------------------
(***************************************************************************)
(* The circular doubly linked lists of headers/listx.h, as operators on a  *)
(* memory m of list_heads: m.next and m.prev map each node to the node it  *)
(* points to.  The assignments of a function are the successive updates of *)
(* its EXCEPT, in the order of the source: they overwrite one another when *)
(* nodes coincide, as they do on a list of one element.                    *)
(***************************************************************************)
EXTENDS Integers, Sequences, FiniteSets, FiniteSetsExt, Functions

\* INIT_LIST_HEAD
InitListHead(m, list) == [m EXCEPT !.next[list] = list, !.prev[list] = list]

\* __list_add: new goes between prev and next.
ListInsert(m, new, prev, next) ==
  [m EXCEPT !.prev[next] = new, !.next[new] = next, !.prev[new] = prev, !.next[prev] = new]

\* list_add_tail
ListAddTail(m, new, head) == ListInsert(m, new, m.prev[head], head)

\* __list_del: what is between prev and next is left out.
ListUnlink(m, prev, next) == [m EXCEPT !.prev[next] = prev, !.next[prev] = next]

\* Mutant of list_del: the entry keeps its pointers.
ListDel_Dangling(m, entry) == ListUnlink(m, m.prev[entry], m.next[entry])

\* list_del: entry leaves its list and becomes a list of its own.
ListDel(m, entry) == InitListHead(ListUnlink(m, m.prev[entry], m.next[entry]), entry)

\* list_empty
ListEmpty(m, head) == m.next[head] = head

\* list_for_each: the nodes pos takes, in order, until it is head again.
ListForEach(m, head) ==
  LET pos[i \in 0 .. Cardinality(DOMAIN m.next)] ==
        IF i = 0 THEN head ELSE m.next[pos[i - 1]]
      end == Min({i \in DOMAIN pos : i > 0 /\ pos[i] = head})
  IN  [i \in 1 .. end - 1 |-> pos[i]]
=============================================================================
