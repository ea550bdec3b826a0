---------------------------- MODULE Phase1_proofs -----------------------------
(***************************************************************************)
(* No call of phase 1 leaves a list badly linked, for any number of PCBs,  *)
(* descriptors and semaphores.  That it does not, rests on where each node *)
(* is when a call links it: IInv says so by a label of the list, or of the *)
(* kind of list, each node is on, and by the nodes that are on none.       *)
(*                                                                         *)
(* From Headed on, the lists have exactly the nodes that the fields of the *)
(* PCBs and of the descriptors put on them.  Labels that neighbours share  *)
(* do not say that one reaches a node from its head: Headed says so        *)
(* without a path, and list_for_each is then followed once and for all in  *)
(* ListForEachFinds, by a least number of steps.                           *)
(***************************************************************************)
EXTENDS Phase1Properties, FiniteSetTheorems, WellFoundedInduction, TLAPS

-----------------------------------------------------------------------------
(* What the functions of headers/listx.h do to well linked lists, for any  *)
(* set of nodes N, of which the ones whose pointers are nil are not yet    *)
(* initialised.  Each lemma gives the pointers a function leaves, that the *)
(* lists are still well linked, and that nodes linked to one another still *)
(* have the same label (which list, or which kind of list, they are on).   *)

Memory(N, nil) == [next : [N -> N \cup {nil}], prev : [N -> N \cup {nil}]]

\* next and prev are inverses of one another on the initialised nodes.
WellLinked(m, N, nil) ==
  \A n \in N : m.next[n] # nil =>
    /\ m.next[n] \in N /\ m.next[m.next[n]] # nil /\ m.prev[m.next[n]] = n
    /\ m.prev[n] \in N /\ m.next[m.prev[n]] = n

Isolated(m, n) == m.next[n] = n /\ m.prev[n] = n

SameLabel(m, N, nil, label) ==
  \A n \in N : m.next[n] # nil => label[m.next[n]] = label[n]

Good(m, N, nil, label) ==
  m \in Memory(N, nil) /\ WellLinked(m, N, nil) /\ SameLabel(m, N, nil, label)

Live(m, n, nil) == m.next[n] # nil
OnNone(m, n, nil) == m.next[n] = nil \/ Isolated(m, n)

\* Outside S, h has the initialised nodes of m and those of m that are on no list.
Keeps(m, h, N, nil, S) ==
  \A n \in N \ S :
    /\ Live(h, n, nil) <=> Live(m, n, nil)
    /\ Isolated(m, n) => Isolated(h, n)

(* INIT_LIST_HEAD on a node that is on no list. *)
LEMMA InitListHeadLinks ==
  ASSUME NEW N, NEW nil, nil \notin N, NEW m, NEW label, Good(m, N, nil, label),
         NEW n \in N, OnNone(m, n, nil)
  PROVE  /\ Good(InitListHead(m, n), N, nil, label)
         /\ Isolated(InitListHead(m, n), n) /\ Live(InitListHead(m, n), n, nil)
         /\ Keeps(m, InitListHead(m, n), N, nil, {n})
<1> DEFINE h == InitListHead(m, n)
<1> USE DEF Good, OnNone, Live
<1>1. /\ h \in Memory(N, nil)
      /\ h.next = [m.next EXCEPT ![n] = n] /\ h.prev = [m.prev EXCEPT ![n] = n]
  BY DEF InitListHead, Memory
<1>2. \A k \in N : m.next[k] # nil /\ k # n => m.next[k] # n /\ m.prev[k] # n
  BY DEF WellLinked, Isolated, Memory
<1>3. WellLinked(h, N, nil)
  BY <1>1, <1>2 DEF WellLinked, Memory
<1>4. SameLabel(h, N, nil, label)
  BY <1>1, <1>2 DEF SameLabel, WellLinked, Memory
<1>5. Isolated(h, n) /\ Live(h, n, nil) /\ Keeps(m, h, N, nil, {n})
  BY <1>1 DEF Isolated, Memory, Keeps, Live
<1> QED BY <1>1, <1>3, <1>4, <1>5

(* __list_add of a node that is on no list, between two neighbours. *)
LEMMA ListInsertLinks ==
  ASSUME NEW N, NEW nil, nil \notin N, NEW m, NEW label, Good(m, N, nil, label),
         NEW new \in N, OnNone(m, new, nil),
         NEW at \in N, Live(m, at, nil), at # new, label[new] = label[at]
  PROVE  /\ Good(ListInsert(m, new, m.prev[at], at), N, nil, label)
         /\ Keeps(m, ListInsert(m, new, m.prev[at], at), N, nil, {new, at})
         /\ Live(ListInsert(m, new, m.prev[at], at), new, nil)
         /\ Live(ListInsert(m, new, m.prev[at], at), at, nil)
<1> DEFINE h == ListInsert(m, new, m.prev[at], at)
<1> USE DEF Good, OnNone, Live
<1>1. m.prev[at] \in N /\ m.next[m.prev[at]] = at /\ m.prev[at] # new
  BY DEF WellLinked, Isolated
<1>2. /\ h \in Memory(N, nil)
      /\ h.next = [m.next EXCEPT ![new] = at, ![m.prev[at]] = new]
      /\ h.prev = [m.prev EXCEPT ![at] = new, ![new] = m.prev[at]]
  BY <1>1 DEF ListInsert, Memory
<1>3. \A n \in N : h.next[n] = IF n = m.prev[at] THEN new ELSE IF n = new THEN at ELSE m.next[n]
  BY <1>1, <1>2 DEF Memory
<1>4. \A n \in N : h.prev[n] = IF n = new THEN m.prev[at] ELSE IF n = at THEN new ELSE m.prev[n]
  BY <1>1, <1>2 DEF Memory
<1>5. \A n \in N : m.next[n] # nil /\ n # new => m.next[n] # new /\ m.prev[n] # new
  BY DEF WellLinked, Isolated
<1>6. \A n \in N : m.next[n] # nil => (m.next[n] = at <=> n = m.prev[at])
  BY <1>1 DEF WellLinked
<1>7. \A n \in N : m.next[n] # nil => (m.prev[n] = m.prev[at] <=> n = at)
  BY <1>1 DEF WellLinked
<1>8. WellLinked(h, N, nil)
  BY <1>1, <1>3, <1>4, <1>5, <1>6, <1>7 DEF WellLinked
<1>9. SameLabel(h, N, nil, label)
  BY <1>1, <1>3 DEF SameLabel, WellLinked
<1>10. /\ \A n \in N \ {new, at} : h.next[n] = nil <=> m.next[n] = nil
       /\ h.next[new] # nil /\ h.next[at] # nil
  BY <1>1, <1>3 DEF WellLinked, Isolated
<1>11. \A n \in N \ {new, at} : Isolated(m, n) => Isolated(h, n)
  BY <1>1, <1>3, <1>4 DEF Isolated
<1> QED BY <1>2, <1>8, <1>9, <1>10, <1>11 DEF Keeps

(* list_add_tail of a node that is on no list. *)
LEMMA ListAddTailLinks ==
  ASSUME NEW N, NEW nil, nil \notin N, NEW m, NEW label, Good(m, N, nil, label),
         NEW new \in N, OnNone(m, new, nil),
         NEW head \in N, Live(m, head, nil), head # new, label[new] = label[head]
  PROVE  /\ Good(ListAddTail(m, new, head), N, nil, label)
         /\ Keeps(m, ListAddTail(m, new, head), N, nil, {new, head})
         /\ Live(ListAddTail(m, new, head), new, nil)
         /\ Live(ListAddTail(m, new, head), head, nil)
BY ListInsertLinks, Zenon DEF ListAddTail

(* list_del, wherever the entry is: it is then on no list. *)
LEMMA ListDelLinks ==
  ASSUME NEW N, NEW nil, nil \notin N, NEW m, NEW label, Good(m, N, nil, label),
         NEW entry \in N, Live(m, entry, nil)
  PROVE  /\ Good(ListDel(m, entry), N, nil, label)
         /\ Isolated(ListDel(m, entry), entry)
         /\ Keeps(m, ListDel(m, entry), N, nil, {})
<1> USE DEF Good, OnNone, Live
<1> DEFINE h == ListDel(m, entry)
           u == ListUnlink(m, m.prev[entry], m.next[entry])
<1>1. /\ m.prev[entry] \in N /\ m.next[m.prev[entry]] = entry
      /\ m.next[entry] \in N /\ m.prev[m.next[entry]] = entry
  BY DEF WellLinked
<1>2. /\ u \in Memory(N, nil)
      /\ u.next = [m.next EXCEPT ![m.prev[entry]] = m.next[entry]]
      /\ u.prev = [m.prev EXCEPT ![m.next[entry]] = m.prev[entry]]
  BY <1>1 DEF ListUnlink, Memory
<1>3. /\ h \in Memory(N, nil)
      /\ h.next = [u.next EXCEPT ![entry] = entry]
      /\ h.prev = [u.prev EXCEPT ![entry] = entry]
  BY <1>2 DEF ListDel, InitListHead, Memory
<1>4. \A n \in N : h.next[n] = IF n = entry THEN entry
                               ELSE IF n = m.prev[entry] THEN m.next[entry] ELSE m.next[n]
  BY <1>1, <1>2, <1>3 DEF Memory
<1>5. \A n \in N : h.prev[n] = IF n = entry THEN entry
                               ELSE IF n = m.next[entry] THEN m.prev[entry] ELSE m.prev[n]
  BY <1>1, <1>2, <1>3 DEF Memory
<1>6. \A n \in N : m.next[n] # nil =>
        /\ m.next[n] = entry <=> n = m.prev[entry]
        /\ m.prev[n] = entry <=> n = m.next[entry]
  BY <1>1 DEF WellLinked
<1>7. \A n \in N : h.next[n] = nil <=> m.next[n] = nil
  BY <1>1, <1>4 DEF WellLinked
<1>8. WellLinked(h, N, nil)
  BY <1>1, <1>4, <1>5, <1>6, <1>7 DEF WellLinked
<1>9. SameLabel(h, N, nil, label)
  BY <1>1, <1>4 DEF SameLabel, WellLinked
<1>10. Isolated(h, entry) /\ \A n \in N : Isolated(m, n) => Isolated(h, n)
  BY <1>1, <1>4, <1>5 DEF Isolated
<1> QED BY <1>3, <1>7, <1>8, <1>9, <1>10 DEF Keeps

(* The head of an empty list is linked to itself only. *)
LEMMA EmptyIsolated ==
  ASSUME NEW N, NEW nil, nil \notin N, NEW m, NEW label, Good(m, N, nil, label),
         NEW n \in N, ListEmpty(m, n)
  PROVE  Isolated(m, n)
BY DEF Good, WellLinked, ListEmpty, Isolated

(* The node after the head of a list that is not empty is another node, and *)
(* has its label.                                                          *)
LEMMA FirstOfList ==
  ASSUME NEW N, NEW nil, nil \notin N, NEW m, NEW label, Good(m, N, nil, label),
         NEW n \in N, Live(m, n, nil), ~ListEmpty(m, n)
  PROVE  /\ m.next[n] \in N /\ m.next[n] # n /\ Live(m, m.next[n], nil)
         /\ label[m.next[n]] = label[n]
BY DEF Good, WellLinked, SameLabel, ListEmpty, Live

(* INIT_LIST_HEAD does nothing to a node that list_del has just taken off.  *)
LEMMA InitIsolated ==
  ASSUME NEW N, NEW nil, NEW m \in Memory(N, nil), NEW n \in N, Isolated(m, n)
  PROVE  InitListHead(m, n) = m
BY DEF Memory, Isolated, InitListHead

(* A node on no list may change its label. *)
LEMMA Relabel ==
  ASSUME NEW N, NEW nil, nil \notin N, NEW m, NEW label, NEW label2,
         Good(m, N, nil, label),
         NEW x \in N, OnNone(m, x, nil),
         \A n \in N \ {x} : label2[n] = label[n]
  PROVE  Good(m, N, nil, label2)
BY DEF Good, SameLabel, WellLinked, Isolated, OnNone

-----------------------------------------------------------------------------
(* Where the nodes are.                                                    *)

\* All the semaphore queues have one label.
Label(parent, st, key) ==
  [n \in Node |->
     LET x == ContainerOf(n)
     IN  CASE n[1] = "s_link"  -> IF key[x] = NULL THEN semdFree_h ELSE semd_h
           [] n[1] = "p_sib"   -> IF parent[x] = NULL THEN n ELSE p_child(parent[x])
           [] n[1] = "p_list"  -> CASE st[x] = "free" -> pcbFree_h
                                    [] st[x] = "ready" -> readyQueue
                                    [] st[x] = "blocked" -> NoNode
                                    [] OTHER -> n
           [] n[1] = "s_procq" -> NoNode
           [] OTHER -> n]

\* What the state of PCB p, and its parent, say of its nodes.
PcbAt(m, p, parent, st) ==
  /\ st = "none" <=> ~Live(m, p_list(p), NoNode)
  /\ st = "held" => Isolated(m, p_list(p))
  /\ parent = NULL => OnNone(m, p_sib(p), NoNode)
  /\ st \in {"none", "free"} => parent = NULL /\ OnNone(m, p_child(p), NoNode)
  /\ st \in {"held", "ready", "blocked"} =>
       Live(m, p_child(p), NoNode) /\ Live(m, p_sib(p), NoNode) /\ Live(m, readyQueue, NoNode)
PcbPlaced(m, parent, st) == \A p \in Pcb : PcbAt(m, p, parent[p], st[p])

\* The queue of a descriptor without a key is empty.
SemdPlaced(m, key) == \A s \in Semd : key[s] = NULL => OnNone(m, s_procq(s), NoNode)

\* How far main has come.
Booted(m, st) ==
  /\ Live(m, pcbFree_h, NoNode)
  /\ Live(m, semd_h, NoNode) <=> Live(m, semdFree_h, NoNode)
  /\ Live(m, semd_h, NoNode) => \A p \in Pcb : st[p] # "none"
  /\ \A s \in Semd : /\ Live(m, s_link(s), NoNode) <=> Live(m, s_procq(s), NoNode)
                     /\ Live(m, s_link(s), NoNode) => Live(m, semd_h, NoNode)
  /\ Live(m, readyQueue, NoNode) => Live(m, semd_h, NoNode) /\ \A s \in Semd : Live(m, s_link(s), NoNode)

Shape(m, parent, st, key) ==
  /\ Good(m, Node, NoNode, Label(parent, st, key))
  /\ PcbPlaced(m, parent, st)
  /\ SemdPlaced(m, key)
  /\ Booted(m, st)

FieldTypes ==
  /\ p_parent \in [Pcb -> Pcb \cup {NULL}]
  /\ p_semAdd \in [Pcb -> Sem \cup {NULL}]
  /\ p_prio \in [Pcb -> Prio]
  /\ s_key \in [Semd -> Sem \cup {NULL}]
  /\ state \in [Pcb -> {"none", "free", "held", "ready", "blocked"}]

IInv == FieldTypes /\ Shape(lists, p_parent, state, s_key)

(* The nodes are all different. *)
LEMMA Nodes ==
  /\ NoNode \notin Node
  /\ pcbFree_h \in Node /\ readyQueue \in Node /\ semdFree_h \in Node /\ semd_h \in Node
  /\ \A p \in Pcb : p_list(p) \in Node /\ p_child(p) \in Node /\ p_sib(p) \in Node
  /\ \A s \in Semd : s_link(s) \in Node /\ s_procq(s) \in Node
BY Phase1Assumption
   DEF Phase1Assumption, Node, Heads, PcbNodes, SemdNodes, NoNode, pcbFree_h, readyQueue,
       semdFree_h, semd_h, p_list, p_child, p_sib, s_link, s_procq

USE DEF NoNode, pcbFree_h, readyQueue, semdFree_h, semd_h, p_list, p_child, p_sib, s_link, s_procq

(* The initial state satisfies the inductive invariant. *)
LEMMA InitIInv == Init => IInv
<1> SUFFICES ASSUME Init
             PROVE  IInv
  OBVIOUS
<1> USE DEF Init
<1> DEFINE zero == [n \in Node |-> NoNode]
           m == [next |-> zero, prev |-> zero]
           label == Label(p_parent, state, s_key)
<1>1. Good(m, Node, NoNode, label)
  BY DEF Good, Memory, WellLinked, SameLabel
<1>2. lists = InitListHead(m, pcbFree_h)
  OBVIOUS
<1>3. /\ Good(lists, Node, NoNode, label) /\ Live(lists, pcbFree_h, NoNode)
      /\ Keeps(m, lists, Node, NoNode, {pcbFree_h})
  <2>1. OnNone(m, pcbFree_h, NoNode) /\ NoNode \notin Node /\ pcbFree_h \in Node
    BY Nodes DEF OnNone
  <2> HIDE DEF m, label, Init, NoNode, pcbFree_h
  <2> QED BY <1>1, <1>2, <2>1, InitListHeadLinks, Zenon
<1>4. FieldTypes
  BY Phase1Assumption DEF FieldTypes, Phase1Assumption
<1>5. \A n \in Node \ {pcbFree_h} : ~Live(lists, n, NoNode)
  BY <1>3 DEF Keeps, Live
<1>6. PcbPlaced(lists, p_parent, state)
  BY <1>5, Nodes DEF PcbPlaced, PcbAt, OnNone, Live
<1>7. SemdPlaced(lists, s_key)
  BY <1>5, Nodes DEF SemdPlaced, OnNone, Live
<1>8. Booted(lists, state)
  BY <1>3, <1>5, Nodes DEF Booted
<1> QED BY <1>3, <1>4, <1>6, <1>7, <1>8 DEF IInv, Shape

(* A labelled node that is not the head of its list is the p_list of a PCB *)
(* in that state, a child, or a descriptor.                                *)
LEMMA Members ==
  ASSUME NEW parent, NEW st, NEW key, NEW n \in Node
  PROVE  LET label == Label(parent, st, key)
         IN  /\ label[n] = pcbFree_h /\ n # pcbFree_h =>
                  \E p \in Pcb : n = p_list(p) /\ st[p] = "free"
             /\ label[n] = readyQueue /\ n # readyQueue =>
                  \E p \in Pcb : n = p_list(p) /\ st[p] = "ready"
             /\ label[n] = semdFree_h /\ n # semdFree_h =>
                  \E s \in Semd : n = s_link(s) /\ key[s] = NULL
             /\ \A q \in Pcb : label[n] = p_child(q) /\ n # p_child(q) =>
                  \E p \in Pcb : n = p_sib(p) /\ parent[p] = q
BY DEF Label, ContainerOf, Node, Heads, PcbNodes, SemdNodes

(* PCBs stay as they are when a call links and unlinks other nodes only,   *)
(* the ones of S; the ready queue may become one of them.                  *)
LEMMA PcbsStay ==
  ASSUME NEW m, NEW h, NEW S, NEW Q \in SUBSET Pcb, NEW parent, NEW st,
         Keeps(m, h, Node, NoNode, S),
         Live(m, readyQueue, NoNode) => Live(h, readyQueue, NoNode),
         \A p \in Q : p_list(p) \notin S /\ p_child(p) \notin S /\ p_sib(p) \notin S,
         PcbPlaced(m, parent, st)
  PROVE  \A p \in Q : PcbAt(h, p, parent[p], st[p])
<1> SUFFICES ASSUME NEW p \in Q
             PROVE  PcbAt(h, p, parent[p], st[p])
  OBVIOUS
<1>1. p_list(p) \in Node \ S /\ p_child(p) \in Node \ S /\ p_sib(p) \in Node \ S
  BY Nodes
<1>2. PcbAt(m, p, parent[p], st[p])
  BY DEF PcbPlaced
<1> QED BY <1>1, <1>2 DEF Keeps, PcbAt, OnNone, Live

-----------------------------------------------------------------------------
(* An iteration of initPcbs links a node that was never linked. *)
LEMMA InitPcbIInv ==
  ASSUME IInv, NEW p \in Pcb, InitPcb(p)
  PROVE  IInv'
<1> DEFINE label == Label(p_parent, state, s_key)
           label2 == Label(p_parent', state', s_key')
           n == p_list(p)
           m == InitListHead(lists, n)
<1>1. NoNode \notin Node /\ n \in Node /\ pcbFree_h \in Node /\ n # pcbFree_h
  BY Nodes
<1>2. ~Live(lists, n, NoNode) /\ Live(lists, pcbFree_h, NoNode)
  BY DEF IInv, Shape, PcbPlaced, PcbAt, Booted, InitPcb
<1>3. label2[n] = label2[pcbFree_h] /\ \A k \in Node \ {n} : label2[k] = label[k]
  BY Nodes DEF IInv, Shape, FieldTypes, InitPcb, Label, ContainerOf, Node, Heads, PcbNodes, SemdNodes
<1>4. OnNone(lists, n, NoNode)
  BY <1>2 DEF OnNone, Live
<1>5. Good(lists, Node, NoNode, label2)
  <2> HIDE DEF label2, n, NoNode
  <2> QED BY <1>1, <1>3, <1>4, Relabel DEF IInv, Shape
<1>6. /\ Good(m, Node, NoNode, label2) /\ Isolated(m, n)
      /\ Keeps(lists, m, Node, NoNode, {n})
  <2> HIDE DEF label2, n, NoNode
  <2> QED BY <1>1, <1>4, <1>5, InitListHeadLinks
<1>7. OnNone(m, n, NoNode) /\ Live(m, pcbFree_h, NoNode)
  BY <1>1, <1>2, <1>6 DEF Keeps, OnNone
<1>8. /\ Good(lists', Node, NoNode, label2)
      /\ Keeps(m, lists', Node, NoNode, {n, pcbFree_h})
      /\ Live(lists', n, NoNode) /\ Live(lists', pcbFree_h, NoNode)
  <2>1. lists' = ListAddTail(m, n, pcbFree_h)
    BY DEF InitPcb
  <2> HIDE DEF label2, n, m, NoNode, pcbFree_h
  <2> QED BY <1>1, <1>3, <1>6, <1>7, <2>1, ListAddTailLinks
<1>9. Keeps(lists, lists', Node, NoNode, {n, pcbFree_h})
  BY <1>6, <1>8 DEF Keeps
<1>10. FieldTypes'
  BY DEF IInv, Shape, FieldTypes, InitPcb
<1>11. PcbPlaced(lists', p_parent', state')
  <2>1. Live(lists, readyQueue, NoNode) => Live(lists', readyQueue, NoNode)
    BY <1>9, Nodes DEF Keeps
  <2>2. \A q \in Pcb \ {p} : PcbAt(lists', q, p_parent[q], state[q])
    <3> DEFINE S == {n, pcbFree_h}
    <3>1. \A q \in Pcb \ {p} : p_list(q) \notin S /\ p_child(q) \notin S /\ p_sib(q) \notin S
      OBVIOUS
    <3> HIDE DEF S, p_list, p_child, p_sib, NoNode, readyQueue
    <3> QED BY <1>9, <2>1, <3>1, PcbsStay DEF IInv, Shape, S
  <2>3. PcbAt(lists', p, p_parent[p], "free")
    BY <1>8, <1>9, Nodes DEF IInv, Shape, PcbPlaced, PcbAt, InitPcb, Keeps, OnNone, Live
  <2> QED BY <2>2, <2>3 DEF IInv, Shape, FieldTypes, InitPcb, PcbPlaced
<1>12. Booted(lists', state')
  BY <1>1, <1>8, <1>9, Nodes DEF IInv, Shape, Booted, FieldTypes, InitPcb, Keeps
<1>13. SemdPlaced(lists', s_key')
  BY <1>9, Nodes DEF IInv, Shape, SemdPlaced, InitPcb, Keeps, OnNone, Live
<1> QED BY <1>8, <1>10, <1>11, <1>12, <1>13 DEF IInv, Shape

(* The heads of initASL are not linked before. *)
LEMMA InitASLHeadsIInv ==
  ASSUME IInv, InitASLHeads
  PROVE  IInv'
<1> DEFINE label == Label(p_parent, state, s_key)
           m == InitListHead(lists, semdFree_h)
<1>1. NoNode \notin Node /\ semdFree_h \in Node /\ semd_h \in Node /\ semd_h # semdFree_h
  BY Nodes
<1>2. OnNone(lists, semdFree_h, NoNode) /\ OnNone(lists, semd_h, NoNode)
  BY DEF IInv, Shape, Booted, InitASLHeads, Initialised, OnNone, Live
<1>3. /\ Good(m, Node, NoNode, label) /\ Keeps(lists, m, Node, NoNode, {semdFree_h})
      /\ Live(m, semdFree_h, NoNode)
  <2> HIDE DEF label, NoNode, semdFree_h
  <2> QED BY <1>1, <1>2, InitListHeadLinks DEF IInv, Shape, label
<1>4. OnNone(m, semd_h, NoNode)
  BY <1>1, <1>2, <1>3 DEF Keeps, OnNone, Live
<1>5. /\ Good(lists', Node, NoNode, label) /\ Keeps(m, lists', Node, NoNode, {semd_h})
      /\ Live(lists', semd_h, NoNode)
  <2>1. lists' = InitListHead(m, semd_h)
    BY DEF InitASLHeads
  <2> HIDE DEF label, m, NoNode, semd_h
  <2> QED BY <1>1, <1>3, <1>4, <2>1, InitListHeadLinks
<1>6. Keeps(lists, lists', Node, NoNode, {semdFree_h, semd_h}) /\ Live(lists', semdFree_h, NoNode)
  BY <1>1, <1>3, <1>5 DEF Keeps
<1>7. FieldTypes' /\ SemdPlaced(lists', s_key')
  BY <1>6, Nodes DEF IInv, Shape, FieldTypes, SemdPlaced, InitASLHeads, Keeps, OnNone, Live
<1>9. PcbPlaced(lists', p_parent', state')
  <2>1. Live(lists, readyQueue, NoNode) => Live(lists', readyQueue, NoNode)
    BY <1>6, Nodes DEF Keeps
  <2>2. \A q \in Pcb : PcbAt(lists', q, p_parent[q], state[q])
    <3> DEFINE S == {semdFree_h, semd_h}
    <3>1. \A q \in Pcb : p_list(q) \notin S /\ p_child(q) \notin S /\ p_sib(q) \notin S
      OBVIOUS
    <3> HIDE DEF S, p_list, p_child, p_sib, NoNode, readyQueue
    <3> QED BY <1>6, <2>1, <3>1, PcbsStay DEF IInv, Shape, S
  <2> QED BY <2>2 DEF PcbPlaced, InitASLHeads
<1>8. Booted(lists', state')
  BY <1>5, <1>6, Nodes DEF IInv, Shape, Booted, InitASLHeads, Keeps
<1> QED BY <1>5, <1>7, <1>8, <1>9 DEF IInv, Shape, InitASLHeads

(* An iteration of initASL links a node that was never linked. *)
LEMMA InitSemdIInv ==
  ASSUME IInv, NEW s \in Semd, InitSemd(s)
  PROVE  IInv'
<1> DEFINE label == Label(p_parent, state, s_key)
           label2 == Label(p_parent', state', s_key')
           n == s_link(s)
           procq == s_procq(s)
           m == InitListHead(lists, procq)
<1>1. /\ NoNode \notin Node /\ n \in Node /\ procq \in Node /\ semdFree_h \in Node
      /\ n # semdFree_h /\ n # procq /\ procq # semdFree_h
  BY Nodes
<1>2. /\ OnNone(lists, n, NoNode) /\ OnNone(lists, procq, NoNode)
      /\ Live(lists, semdFree_h, NoNode) /\ Live(lists, semd_h, NoNode)
  BY DEF IInv, Shape, Booted, InitSemd, Initialised, OnNone, Live
<1>3. label2[n] = label2[semdFree_h] /\ \A k \in Node \ {n} : label2[k] = label[k]
  BY Nodes DEF IInv, Shape, FieldTypes, InitSemd, Label, ContainerOf, Node, Heads, PcbNodes, SemdNodes
<1>4. Good(lists, Node, NoNode, label2)
  <2> HIDE DEF label2, n, NoNode
  <2> QED BY <1>1, <1>2, <1>3, Relabel DEF IInv, Shape
<1>5. /\ Good(m, Node, NoNode, label2) /\ Isolated(m, procq) /\ Live(m, procq, NoNode)
      /\ Keeps(lists, m, Node, NoNode, {procq})
  <2> HIDE DEF label2, procq, NoNode
  <2> QED BY <1>1, <1>2, <1>4, InitListHeadLinks
<1>6. OnNone(m, n, NoNode) /\ Live(m, semdFree_h, NoNode)
  BY <1>1, <1>2, <1>5 DEF Keeps, OnNone, Live
<1>7. /\ Good(lists', Node, NoNode, label2)
      /\ Keeps(m, lists', Node, NoNode, {n, semdFree_h})
      /\ Live(lists', n, NoNode) /\ Live(lists', semdFree_h, NoNode)
  <2>1. lists' = ListAddTail(m, n, semdFree_h)
    BY DEF InitSemd
  <2> HIDE DEF label2, n, m, NoNode, semdFree_h
  <2> QED BY <1>1, <1>3, <1>5, <1>6, <2>1, ListAddTailLinks
<1>8. /\ Keeps(lists, lists', Node, NoNode, {n, procq, semdFree_h})
      /\ Isolated(lists', procq) /\ Live(lists', procq, NoNode)
  BY <1>1, <1>5, <1>7 DEF Keeps
<1>9. FieldTypes' /\ PcbPlaced(lists', p_parent', state')
  <2>1. Live(lists, readyQueue, NoNode) => Live(lists', readyQueue, NoNode)
    BY <1>8, Nodes DEF Keeps
  <2>2. \A q \in Pcb : PcbAt(lists', q, p_parent[q], state[q])
    <3> DEFINE S == {n, procq, semdFree_h}
    <3>1. \A q \in Pcb : p_list(q) \notin S /\ p_child(q) \notin S /\ p_sib(q) \notin S
      OBVIOUS
    <3> HIDE DEF S, p_list, p_child, p_sib, NoNode, readyQueue
    <3> QED BY <1>8, <2>1, <3>1, PcbsStay DEF IInv, Shape, S
  <2> QED BY <2>2 DEF IInv, Shape, FieldTypes, InitSemd, PcbPlaced
<1>10. SemdPlaced(lists', s_key')
  BY <1>8, Nodes DEF IInv, Shape, FieldTypes, SemdPlaced, InitSemd, Keeps, OnNone, Live
<1>11. Booted(lists', state')
  BY <1>2, <1>7, <1>8, Nodes DEF IInv, Shape, Booted, InitSemd, Keeps
<1> QED BY <1>7, <1>9, <1>10, <1>11 DEF IInv, Shape

(* The head of the ready queue is not linked before. *)
LEMMA MkEmptyProcQIInv ==
  ASSUME IInv, MkEmptyProcQ
  PROVE  IInv'
<1> DEFINE label == Label(p_parent, state, s_key)
<1>1. NoNode \notin Node /\ readyQueue \in Node /\ OnNone(lists, readyQueue, NoNode)
  BY Nodes DEF MkEmptyProcQ, Initialised, OnNone
<1>2. /\ Good(lists', Node, NoNode, label) /\ Live(lists', readyQueue, NoNode)
      /\ Keeps(lists, lists', Node, NoNode, {readyQueue})
  <2>1. lists' = InitListHead(lists, readyQueue)
    BY DEF MkEmptyProcQ
  <2> HIDE DEF label, NoNode, readyQueue
  <2> QED BY <1>1, <2>1, InitListHeadLinks DEF IInv, Shape, label
<1>3. \A s \in Semd : Live(lists, s_link(s), NoNode)
  BY DEF MkEmptyProcQ, Initialised, Live
<1>4. FieldTypes' /\ SemdPlaced(lists', s_key') /\ Booted(lists', state')
  BY <1>2, <1>3, Nodes, Phase1Assumption
     DEF IInv, Shape, FieldTypes, SemdPlaced, Booted, MkEmptyProcQ, Keeps, OnNone, Live, Phase1Assumption
<1>5. PcbPlaced(lists', p_parent', state')
  <2>1. Live(lists, readyQueue, NoNode) => Live(lists', readyQueue, NoNode)
    BY <1>2
  <2>2. \A q \in Pcb : PcbAt(lists', q, p_parent[q], state[q])
    <3> DEFINE S == {readyQueue}
    <3>1. \A q \in Pcb : p_list(q) \notin S /\ p_child(q) \notin S /\ p_sib(q) \notin S
      OBVIOUS
    <3> HIDE DEF S, p_list, p_child, p_sib, NoNode, readyQueue
    <3> QED BY <1>2, <2>1, <3>1, PcbsStay DEF IInv, Shape, S
  <2> QED BY <2>2 DEF PcbPlaced, MkEmptyProcQ
<1> QED BY <1>2, <1>4, <1>5 DEF IInv, Shape, MkEmptyProcQ

-----------------------------------------------------------------------------
(* pcb.c.  A node that joins a list is on none, and changes its label then. *)

(* allocPcb: the first node of pcbFree_h is that of a free PCB.            *)
LEMMA AllocPcbIInv ==
  ASSUME IInv, NEW prio \in Prio, AllocPcb(prio)
  PROVE  IInv'
<1> DEFINE label == Label(p_parent, state, s_key)
           label2 == Label(p_parent', state', s_key')
           first == lists.next[pcbFree_h]
<1>1. NoNode \notin Node /\ pcbFree_h \in Node /\ Live(lists, pcbFree_h, NoNode)
  BY Nodes DEF IInv, Shape, Booted
<1>2. label[pcbFree_h] = pcbFree_h
  BY Nodes DEF Label
<1>3. first \in Node /\ first # pcbFree_h /\ Live(lists, first, NoNode) /\ label[first] = pcbFree_h
  <2> HIDE DEF label, NoNode
  <2> QED BY <1>1, <1>2, FirstOfList DEF IInv, Shape, AllocPcb, label
<1>4. PICK p \in Pcb : first = p_list(p) /\ state[p] = "free"
  BY <1>3, Members
<1> DEFINE n == p_list(p)
           d == ListDel(lists, n)
           d1 == InitListHead(d, n)
           d2 == InitListHead(d1, p_child(p))
<1>5. /\ lists' = InitListHead(d2, p_sib(p))
      /\ p_parent' = [p_parent EXCEPT ![p] = NULL]
      /\ state' = [state EXCEPT ![p] = "held"]
      /\ s_key' = s_key
  BY <1>4 DEF AllocPcb, FreshLinks, ContainerOf
<1>6. /\ p_parent[p] = NULL /\ Live(lists, n, NoNode)
      /\ OnNone(lists, p_child(p), NoNode) /\ OnNone(lists, p_sib(p), NoNode)
  BY <1>4 DEF IInv, Shape, PcbPlaced, PcbAt
<1>7. /\ n \in Node /\ p_child(p) \in Node /\ p_sib(p) \in Node
      /\ n # p_child(p) /\ n # p_sib(p) /\ p_child(p) # p_sib(p)
  BY Nodes
<1>8. \A k \in Node \ {n} : label2[k] = label[k]
  BY <1>4, <1>5, <1>6, Nodes
     DEF IInv, Shape, FieldTypes, Label, ContainerOf, Node, Heads, PcbNodes, SemdNodes
<1>9. Good(d, Node, NoNode, label) /\ Isolated(d, n) /\ Keeps(lists, d, Node, NoNode, {})
  <2> HIDE DEF label, n, NoNode
  <2> QED BY <1>1, <1>6, <1>7, ListDelLinks DEF IInv, Shape, label
<1>10. Good(d, Node, NoNode, label2) /\ OnNone(d, n, NoNode)
  <2> HIDE DEF label, label2, n, d, NoNode
  <2> QED BY <1>1, <1>7, <1>8, <1>9, Relabel DEF OnNone
<1>11. /\ Good(d1, Node, NoNode, label2) /\ Isolated(d1, n)
       /\ Keeps(d, d1, Node, NoNode, {n}) /\ Live(d1, n, NoNode)
  <2> HIDE DEF label2, n, d, NoNode
  <2> QED BY <1>1, <1>7, <1>10, InitListHeadLinks
<1>12. OnNone(d1, p_child(p), NoNode) /\ OnNone(d1, p_sib(p), NoNode)
  <2> HIDE DEF d, d1
  <2> QED BY <1>6, <1>7, <1>9, <1>11 DEF Keeps, OnNone, Live
<1>13. /\ Good(d2, Node, NoNode, label2) /\ Isolated(d2, p_child(p))
       /\ Keeps(d1, d2, Node, NoNode, {p_child(p)}) /\ Live(d2, p_child(p), NoNode)
  <2> HIDE DEF label2, d1, NoNode, p_child
  <2> QED BY <1>1, <1>7, <1>11, <1>12, InitListHeadLinks
<1>14. OnNone(d2, p_sib(p), NoNode)
  <2> HIDE DEF d1, d2
  <2> QED BY <1>7, <1>12, <1>13 DEF Keeps, OnNone, Live
<1>15. /\ Good(lists', Node, NoNode, label2) /\ Isolated(lists', p_sib(p))
       /\ Keeps(d2, lists', Node, NoNode, {p_sib(p)}) /\ Live(lists', p_sib(p), NoNode)
  <2> HIDE DEF label2, d2, NoNode, p_sib
  <2> QED BY <1>1, <1>5, <1>7, <1>13, <1>14, InitListHeadLinks
<1>16. /\ Keeps(lists, lists', Node, NoNode, {n, p_child(p), p_sib(p)})
       /\ Isolated(lists', n) /\ Live(lists', n, NoNode)
       /\ Live(lists', p_child(p), NoNode)
  <2> HIDE DEF d, d1, d2
  <2> QED BY <1>7, <1>9, <1>11, <1>13, <1>15 DEF Keeps
<1>17. Live(lists, readyQueue, NoNode)
  BY DEF AllocPcb, Initialised, Live
<1>18. FieldTypes'
  BY <1>4, <1>5 DEF IInv, Shape, FieldTypes, AllocPcb, ContainerOf
<1>19. PcbPlaced(lists', p_parent', state')
  <2>1. Live(lists', readyQueue, NoNode)
    BY <1>16, <1>17, Nodes DEF Keeps
  <2>2. \A q \in Pcb \ {p} : PcbAt(lists', q, p_parent[q], state[q])
    <3> DEFINE S == {n, p_child(p), p_sib(p)}
    <3>1. \A q \in Pcb \ {p} : p_list(q) \notin S /\ p_child(q) \notin S /\ p_sib(q) \notin S
      OBVIOUS
    <3> HIDE DEF S, p_list, p_child, p_sib, NoNode, readyQueue
    <3> QED BY <1>16, <2>1, <3>1, PcbsStay DEF IInv, Shape, S
  <2>3. PcbAt(lists', p, NULL, "held")
    BY <1>15, <1>16, <2>1 DEF PcbAt, OnNone
  <2> QED BY <1>5, <2>2, <2>3 DEF IInv, Shape, FieldTypes, PcbPlaced
<1>20. SemdPlaced(lists', s_key') /\ Booted(lists', state')
  BY <1>5, <1>16, Nodes DEF IInv, Shape, FieldTypes, SemdPlaced, Booted, Keeps, OnNone, Live
<1> QED BY <1>15, <1>18, <1>19, <1>20 DEF IInv, Shape

(* What is linked once main has made the ready queue.                      *)
LEMMA Running ==
  ASSUME NEW m, NEW parent, NEW st \in [Pcb -> {"none", "free", "held", "ready", "blocked"}],
         NEW key, Shape(m, parent, st, key), Live(m, readyQueue, NoNode)
  PROVE  /\ \A n \in Heads : Live(m, n, NoNode)
         /\ \A q \in Pcb : st[q] # "none" /\ Live(m, p_list(q), NoNode)
         /\ \A s \in Semd : Live(m, s_link(s), NoNode) /\ Live(m, s_procq(s), NoNode)
BY DEF Shape, Booted, PcbPlaced, PcbAt, Heads

(* The lists keep the boot's nodes when every node that was live still is.  *)
LEMMA StillBooted ==
  ASSUME NEW m, NEW h, NEW parent, NEW key,
         NEW st \in [Pcb -> {"none", "free", "held", "ready", "blocked"}],
         NEW st2 \in [Pcb -> {"none", "free", "held", "ready", "blocked"}],
         Shape(m, parent, st, key), Live(m, readyQueue, NoNode),
         \A n \in Node : Live(m, n, NoNode) => Live(h, n, NoNode),
         \A q \in Pcb : st2[q] = "none" => st[q] = "none"
  PROVE  Booted(h, st2) /\ Live(h, readyQueue, NoNode)
<1>1. /\ \A n \in Heads : Live(h, n, NoNode)
      /\ \A q \in Pcb : st2[q] # "none"
      /\ \A s \in Semd : Live(h, s_link(s), NoNode) /\ Live(h, s_procq(s), NoNode)
  BY Running, Nodes DEF Heads
<1> QED BY <1>1, Nodes DEF Booted, Heads

(* The node of a PCB its caller holds is put on a queue, before node at, and *)
(* only its state and the label of the node change.                        *)
LEMMA JoinQueue ==
  ASSUME NEW m, NEW parent, NEW key, NEW p \in Pcb, NEW at \in Node,
         NEW st \in [Pcb -> {"none", "free", "held", "ready", "blocked"}],
         NEW st2 \in [Pcb -> {"none", "free", "held", "ready", "blocked"}],
         Shape(m, parent, st, key), Live(m, readyQueue, NoNode), st[p] = "held",
         st2[p] \in {"free", "ready", "blocked"}, \A q \in Pcb \ {p} : st2[q] = st[q],
         Label(parent, st2, key)[p_list(p)] = Label(parent, st2, key)[at],
         \/ at \in Heads
         \/ \E q \in Pcb : at = p_list(q) /\ st[q] = "ready"
         \/ \E s \in Semd : at = s_procq(s) /\ key[s] # NULL,
         st2[p] = "free" => parent[p] = NULL /\ Isolated(m, p_child(p))
  PROVE  /\ Shape(ListInsert(m, p_list(p), m.prev[at], at), parent, st2, key)
         /\ Keeps(m, ListInsert(m, p_list(p), m.prev[at], at), Node, NoNode, {p_list(p), at})
         /\ Live(ListInsert(m, p_list(p), m.prev[at], at), readyQueue, NoNode)
<1> DEFINE n == p_list(p)
           h == ListInsert(m, n, m.prev[at], at)
           label == Label(parent, st, key)
           label2 == Label(parent, st2, key)
<1>1. NoNode \notin Node /\ n \in Node /\ OnNone(m, n, NoNode)
  BY Nodes DEF Shape, PcbPlaced, PcbAt, OnNone
<1>2. label2[n] = label2[at] /\ \A k \in Node \ {n} : label2[k] = label[k]
  BY Nodes DEF Label, ContainerOf, Node, Heads, PcbNodes, SemdNodes
<1>3. Good(m, Node, NoNode, label2)
  <2> HIDE DEF label2, n, NoNode
  <2> QED BY <1>1, <1>2, Relabel DEF Shape
<1>4. /\ at # n /\ Live(m, at, NoNode)
      /\ \A q \in Pcb : at # p_child(q) /\ at # p_sib(q)
  <2>1. /\ \A k \in Heads : Live(m, k, NoNode)
        /\ \A q \in Pcb : Live(m, p_list(q), NoNode)
        /\ \A s \in Semd : Live(m, s_procq(s), NoNode)
    <3> HIDE DEF p_list, s_procq, s_link, NoNode, readyQueue
    <3> QED BY Running
  <2> QED BY <2>1 DEF Heads
<1>5. /\ Good(h, Node, NoNode, label2)
      /\ Keeps(m, h, Node, NoNode, {n, at})
      /\ Live(h, n, NoNode) /\ Live(h, at, NoNode)
  <2> HIDE DEF label2, n, NoNode
  <2> QED BY <1>1, <1>2, <1>3, <1>4, ListInsertLinks DEF n
<1>6. \A k \in Node : Live(m, k, NoNode) => Live(h, k, NoNode)
  <2> HIDE DEF n, h, NoNode
  <2> QED BY <1>5 DEF Keeps
<1>7. Booted(h, st2) /\ Live(h, readyQueue, NoNode)
  <2>1. \A q \in Pcb : st2[q] = "none" => st[q] = "none"
    OBVIOUS
  <2> HIDE DEF h, NoNode, readyQueue
  <2> QED BY <1>6, <2>1, StillBooted
<1>8. PcbPlaced(h, parent, st2)
  <2>1. \A q \in {q \in Pcb \ {p} : p_list(q) # at} : PcbAt(h, q, parent[q], st[q])
    <3> DEFINE S == {n, at}
               Q == {q \in Pcb \ {p} : p_list(q) # at}
    <3>1. \A q \in Q : p_list(q) \notin S /\ p_child(q) \notin S /\ p_sib(q) \notin S
      BY <1>4
    <3>2. Q \in SUBSET Pcb
      OBVIOUS
    <3> HIDE DEF S, Q, h, p_list, p_child, p_sib, NoNode, readyQueue
    <3>3. \A q \in Q : PcbAt(h, q, parent[q], st[q])
      BY <1>5, <1>7, <3>1, <3>2, PcbsStay DEF Shape, S
    <3> QED BY <3>3 DEF Q
  <2>2. \A q \in Pcb : /\ p_child(q) \in Node \ {n, at} /\ p_sib(q) \in Node \ {n, at}
                      /\ PcbAt(m, q, parent[q], st[q])
    BY <1>4, Nodes DEF Shape, PcbPlaced
  <2>3. \A q \in Pcb \ {p} : p_list(q) = at => PcbAt(h, q, parent[q], st[q])
    <3> SUFFICES ASSUME NEW q \in Pcb \ {p}, p_list(q) = at
                 PROVE  PcbAt(h, q, parent[q], st[q])
      OBVIOUS
    <3>1. st[q] = "ready"
      BY DEF Heads
    <3> HIDE DEF n, h, p_child, p_sib, NoNode, readyQueue
    <3> QED BY <1>5, <1>7, <2>2, <3>1 DEF PcbAt, Keeps, OnNone, Live
  <2>4. PcbAt(h, p, parent[p], st2[p])
    <3> HIDE DEF h, p_child, p_sib, NoNode, readyQueue
    <3> QED BY <1>5, <1>7, <2>2 DEF PcbAt, Keeps, OnNone, Live
  <2> HIDE DEF h
  <2> QED BY <2>1, <2>3, <2>4 DEF PcbPlaced
<1>9. SemdPlaced(h, key)
  <2> SUFFICES ASSUME NEW s \in Semd, key[s] = NULL
               PROVE  OnNone(h, s_procq(s), NoNode)
    BY DEF SemdPlaced
  <2>1. s_procq(s) \in Node /\ OnNone(m, s_procq(s), NoNode)
    BY Nodes DEF Shape, SemdPlaced
  <2>2. s_procq(s) # n /\ s_procq(s) # at
    BY DEF Heads
  <2> HIDE DEF n, h, s_procq, NoNode
  <2> QED BY <1>5, <2>1, <2>2 DEF Keeps, OnNone, Live
<1> QED BY <1>5, <1>7, <1>8, <1>9 DEF Shape

(* So does that of a PCB that is blocked on a semaphore.                   *)
LEMMA JoinSemaphore ==
  ASSUME NEW m, NEW parent, NEW key, NEW p \in Pcb, NEW s \in Semd,
         NEW st \in [Pcb -> {"none", "free", "held", "ready", "blocked"}],
         NEW st2, st2 = [st EXCEPT ![p] = "blocked"],
         Shape(m, parent, st, key), Live(m, readyQueue, NoNode), st[p] = "held", key[s] # NULL
  PROVE  LET h == ListInsert(m, p_list(p), m.prev[s_procq(s)], s_procq(s))
         IN  /\ Shape(h, parent, st2, key)
             /\ Keeps(m, h, Node, NoNode, {p_list(p), s_procq(s)})
             /\ Live(h, readyQueue, NoNode)
<1>1. Label(parent, st2, key)[p_list(p)] = Label(parent, st2, key)[s_procq(s)]
  BY Nodes DEF Label, ContainerOf
<1>2. s_procq(s) \in Node
  BY Nodes
<1>3. /\ st2 \in [Pcb -> {"none", "free", "held", "ready", "blocked"}]
      /\ st2[p] = "blocked" /\ \A q \in Pcb \ {p} : st2[q] = st[q]
  OBVIOUS
<1> HIDE DEF p_list, p_child, s_procq, readyQueue, NoNode
<1> QED BY <1>1, <1>2, <1>3, JoinQueue

(* The node of a PCB leaves its queue, for its caller. *)
LEMMA LeaveQueue ==
  ASSUME NEW m, NEW parent, NEW key, NEW p \in Pcb,
         NEW st \in [Pcb -> {"none", "free", "held", "ready", "blocked"}],
         Shape(m, parent, st, key), Live(m, readyQueue, NoNode),
         st[p] \in {"held", "ready", "blocked"}
  PROVE  /\ Shape(ListDel(m, p_list(p)), parent, [st EXCEPT ![p] = "held"], key)
         /\ Live(ListDel(m, p_list(p)), readyQueue, NoNode)
         /\ Isolated(ListDel(m, p_list(p)), p_list(p))
<1> DEFINE n == p_list(p)
           h == ListDel(m, n)
           st2 == [st EXCEPT ![p] = "held"]
           label == Label(parent, st, key)
           label2 == Label(parent, st2, key)
<1>1. NoNode \notin Node /\ n \in Node /\ Live(m, n, NoNode)
  BY Nodes DEF Shape, PcbPlaced, PcbAt
<1>2. \A k \in Node \ {n} : label2[k] = label[k]
  BY Nodes DEF Label, ContainerOf, Node, Heads, PcbNodes, SemdNodes
<1>3. Good(h, Node, NoNode, label) /\ Isolated(h, n) /\ Keeps(m, h, Node, NoNode, {})
  <2> HIDE DEF label, n, NoNode
  <2> QED BY <1>1, ListDelLinks DEF Shape, label
<1>4. OnNone(h, n, NoNode)
  BY <1>3 DEF OnNone
<1>5. Good(h, Node, NoNode, label2)
  <2> HIDE DEF label, label2, n, h, NoNode
  <2> QED BY <1>1, <1>2, <1>3, <1>4, Relabel
<1>6. \A k \in Node : Live(m, k, NoNode) => Live(h, k, NoNode)
  <2> HIDE DEF h, NoNode
  <2> QED BY <1>3 DEF Keeps
<1>7. Booted(h, st2) /\ Live(h, readyQueue, NoNode)
  <2>1. st2 \in [Pcb -> {"none", "free", "held", "ready", "blocked"}]
    OBVIOUS
  <2>2. \A q \in Pcb : st2[q] = "none" => st[q] = "none"
    OBVIOUS
  <2> HIDE DEF h, st2, NoNode, readyQueue
  <2> QED BY <1>6, <2>1, <2>2, StillBooted
<1>8. PcbPlaced(h, parent, st2)
  <2>1. \A q \in Pcb : PcbAt(h, q, parent[q], st[q])
    <3> DEFINE S == {}
    <3>1. \A q \in Pcb : p_list(q) \notin S /\ p_child(q) \notin S /\ p_sib(q) \notin S
      OBVIOUS
    <3> HIDE DEF S, h, p_list, p_child, p_sib, NoNode, readyQueue
    <3> QED BY <1>3, <1>7, <3>1, PcbsStay DEF Shape, S
  <2>2. PcbAt(h, p, parent[p], "held")
    <3> HIDE DEF h, p_child, p_sib, NoNode, readyQueue
    <3> QED BY <1>3, <2>1 DEF PcbAt
  <2> HIDE DEF h
  <2> QED BY <2>1, <2>2 DEF PcbPlaced
<1>9. SemdPlaced(h, key)
  <2>1. \A s \in Semd : s_procq(s) \in Node
    BY Nodes
  <2> HIDE DEF h, s_procq, NoNode
  <2> QED BY <1>3, <2>1 DEF Shape, SemdPlaced, Keeps, OnNone, Live
<1> QED BY <1>3, <1>5, <1>7, <1>8, <1>9 DEF Shape

(* freePcb: nothing of the PCB is linked any more.                         *)
LEMMA FreePcbIInv ==
  ASSUME IInv, NEW p \in Pcb, FreePcb(p)
  PROVE  IInv'
<1> DEFINE st2 == [state EXCEPT ![p] = "free"]
<1>1. Live(lists, readyQueue, NoNode) /\ NoNode \notin Node /\ pcbFree_h \in Node
  BY Nodes DEF IInv, Shape, PcbPlaced, PcbAt, FreePcb, Held
<1>2. Label(p_parent, st2, s_key)[p_list(p)] = Label(p_parent, st2, s_key)[pcbFree_h]
  BY Nodes DEF IInv, FieldTypes, Label, ContainerOf
<1>3. Isolated(lists, p_child(p))
  <2>1. p_child(p) \in Node /\ ListEmpty(lists, p_child(p))
    BY Nodes DEF FreePcb
  <2> HIDE DEF p_child, NoNode
  <2> QED BY <1>1, <2>1, EmptyIsolated DEF IInv, Shape
<1>4. /\ lists' = ListInsert(lists, p_list(p), lists.prev[pcbFree_h], pcbFree_h)
      /\ state[p] = "held" /\ p_parent[p] = NULL
      /\ UNCHANGED <<p_parent, s_key>> /\ state' = st2
  BY DEF FreePcb, ListAddTail, Held
<1>5. Shape(lists', p_parent', state', s_key')
  <2>1. pcbFree_h \in Heads
    BY DEF Heads
  <2>2. /\ st2 \in [Pcb -> {"none", "free", "held", "ready", "blocked"}]
        /\ st2[p] = "free" /\ \A q \in Pcb \ {p} : st2[q] = state[q]
    BY DEF IInv, FieldTypes
  <2> HIDE DEF st2, p_list, p_child, pcbFree_h, readyQueue, NoNode
  <2> QED BY <1>1, <1>2, <1>3, <1>4, <2>1, <2>2, JoinQueue DEF IInv, FieldTypes
<1> QED BY <1>5 DEF IInv, FieldTypes, FreePcb

(* insertProcQ: before a ready PCB. *)
LEMMA InsertProcQAheadIInv ==
  ASSUME IInv, NEW p \in Pcb, InsertProcQAhead(p)
  PROVE  IInv'
<1> DEFINE st2 == [state EXCEPT ![p] = "ready"]
<1>1. PICK q \in Pcb : /\ state[q] = "ready"
                       /\ lists' = ListInsert(lists, p_list(p), lists.prev[p_list(q)], p_list(q))
  BY DEF InsertProcQAhead
<1>2. Live(lists, readyQueue, NoNode) /\ NoNode \notin Node /\ p_list(q) \in Node
  BY <1>1, Nodes DEF IInv, Shape, PcbPlaced, PcbAt
<1>3. Label(p_parent, st2, s_key)[p_list(p)] = Label(p_parent, st2, s_key)[p_list(q)]
  BY <1>1, Nodes DEF IInv, FieldTypes, Label, ContainerOf
<1>4. state[p] = "held" /\ UNCHANGED <<p_parent, s_key>> /\ state' = st2
  BY DEF InsertProcQAhead, Queue, Held
<1>5. Shape(lists', p_parent', state', s_key')
  <2>1. /\ st2 \in [Pcb -> {"none", "free", "held", "ready", "blocked"}]
        /\ st2[p] = "ready" /\ \A r \in Pcb \ {p} : st2[r] = state[r]
    BY DEF IInv, FieldTypes
  <2> HIDE DEF st2, p_list, p_child, readyQueue, NoNode
  <2> QED BY <1>1, <1>2, <1>3, <1>4, <2>1, JoinQueue DEF IInv, FieldTypes
<1> QED BY <1>5 DEF IInv, FieldTypes, InsertProcQAhead, Queue

(* insertProcQ: at the end. *)
LEMMA InsertProcQLastIInv ==
  ASSUME IInv, NEW p \in Pcb, InsertProcQLast(p)
  PROVE  IInv'
<1> DEFINE st2 == [state EXCEPT ![p] = "ready"]
<1>1. Live(lists, readyQueue, NoNode) /\ NoNode \notin Node /\ readyQueue \in Node
  BY Nodes DEF IInv, Shape, PcbPlaced, PcbAt, InsertProcQLast, Held
<1>2. Label(p_parent, st2, s_key)[p_list(p)] = Label(p_parent, st2, s_key)[readyQueue]
  BY Nodes DEF IInv, FieldTypes, Label, ContainerOf
<1>3. /\ lists' = ListInsert(lists, p_list(p), lists.prev[readyQueue], readyQueue)
      /\ state[p] = "held" /\ UNCHANGED <<p_parent, s_key>> /\ state' = st2
  BY DEF InsertProcQLast, Queue, ListAddTail, Held
<1>4. Shape(lists', p_parent', state', s_key')
  <2>1. readyQueue \in Heads
    BY DEF Heads
  <2>2. /\ st2 \in [Pcb -> {"none", "free", "held", "ready", "blocked"}]
        /\ st2[p] = "ready" /\ \A q \in Pcb \ {p} : st2[q] = state[q]
    BY DEF IInv, FieldTypes
  <2> HIDE DEF st2, p_list, p_child, readyQueue, NoNode
  <2> QED BY <1>1, <1>2, <1>3, <2>1, <2>2, JoinQueue DEF IInv, FieldTypes
<1> QED BY <1>4 DEF IInv, FieldTypes, InsertProcQLast, Queue

(* removeProcQ: the first node of the ready queue is that of a ready PCB.  *)
LEMMA RemoveProcQIInv ==
  ASSUME IInv, RemoveProcQ
  PROVE  IInv'
<1> DEFINE label == Label(p_parent, state, s_key)
           first == lists.next[readyQueue]
<1>1. NoNode \notin Node /\ readyQueue \in Node /\ Live(lists, readyQueue, NoNode)
  BY Nodes DEF RemoveProcQ, Initialised, Live
<1>2. label[readyQueue] = readyQueue
  BY Nodes DEF Label
<1>3. first \in Node /\ first # readyQueue /\ label[first] = readyQueue
  <2> HIDE DEF label, NoNode, readyQueue
  <2> QED BY <1>1, <1>2, FirstOfList DEF IInv, Shape, RemoveProcQ, label
<1>4. PICK p \in Pcb : first = p_list(p) /\ state[p] = "ready"
  BY <1>3, Members
<1> DEFINE h == ListDel(lists, p_list(p))
<1>5. /\ Shape(h, p_parent, [state EXCEPT ![p] = "held"], s_key)
      /\ Isolated(h, p_list(p))
  <2> HIDE DEF p_list, readyQueue, NoNode
  <2> QED BY <1>1, <1>4, LeaveQueue DEF IInv, FieldTypes
<1>6. lists' = h
  <2>1. lists' = InitListHead(h, p_list(p)) /\ p_list(p) \in Node
    BY <1>4, Nodes DEF RemoveProcQ
  <2> HIDE DEF h, p_list, NoNode
  <2> QED BY <1>5, <2>1, InitIsolated DEF Shape, Good
<1> QED BY <1>4, <1>5, <1>6 DEF IInv, FieldTypes, RemoveProcQ, ContainerOf

(* outProcQ. *)
LEMMA OutProcQIInv ==
  ASSUME IInv, NEW p \in Pcb, OutProcQ(p)
  PROVE  IInv'
<1>1. Live(lists, readyQueue, NoNode)
  BY DEF IInv, Shape, PcbPlaced, PcbAt, OutProcQ, Allocated
<1>2. Shape(ListDel(lists, p_list(p)), p_parent, [state EXCEPT ![p] = "held"], s_key)
  <2> HIDE DEF p_list, readyQueue, NoNode
  <2> QED BY <1>1, LeaveQueue DEF IInv, FieldTypes, OutProcQ, Allocated
<1> QED BY <1>2 DEF IInv, FieldTypes, OutProcQ

(* The p_sib of a process leaves the children of its parent. *)
LEMMA LeaveParent ==
  ASSUME NEW m, NEW key, NEW p \in Pcb, NEW parent \in [Pcb -> Pcb \cup {NULL}],
         NEW st \in [Pcb -> {"none", "free", "held", "ready", "blocked"}],
         Shape(m, parent, st, key), parent[p] # NULL
  PROVE  /\ Shape(ListDel(m, p_sib(p)), [parent EXCEPT ![p] = NULL], st, key)
         /\ Isolated(ListDel(m, p_sib(p)), p_sib(p))
<1> DEFINE n == p_sib(p)
           h == ListDel(m, n)
           parent2 == [parent EXCEPT ![p] = NULL]
           label == Label(parent, st, key)
           label2 == Label(parent2, st, key)
<1>1. /\ NoNode \notin Node /\ n \in Node /\ Live(m, n, NoNode) /\ Live(m, readyQueue, NoNode)
      /\ st[p] \in {"held", "ready", "blocked"}
  BY Nodes DEF Shape, PcbPlaced, PcbAt
<1>2. \A k \in Node \ {n} : label2[k] = label[k]
  BY Nodes DEF Label, ContainerOf, Node, Heads, PcbNodes, SemdNodes
<1>3. Good(h, Node, NoNode, label) /\ Isolated(h, n) /\ Keeps(m, h, Node, NoNode, {})
  <2> HIDE DEF label, n, NoNode
  <2> QED BY <1>1, ListDelLinks DEF Shape, label
<1>4. OnNone(h, n, NoNode)
  BY <1>3 DEF OnNone
<1>5. Good(h, Node, NoNode, label2)
  <2> HIDE DEF label, label2, n, h, NoNode
  <2> QED BY <1>1, <1>2, <1>3, <1>4, Relabel
<1>6. \A k \in Node : Live(m, k, NoNode) => Live(h, k, NoNode)
  <2> HIDE DEF h, NoNode
  <2> QED BY <1>3 DEF Keeps
<1>7. Booted(h, st) /\ Live(h, readyQueue, NoNode)
  <2> HIDE DEF h, NoNode, readyQueue
  <2> QED BY <1>1, <1>6, StillBooted
<1>8. PcbPlaced(h, parent2, st)
  <2>1. \A q \in Pcb : PcbAt(h, q, parent[q], st[q])
    <3> DEFINE S == {}
    <3>1. \A q \in Pcb : p_list(q) \notin S /\ p_child(q) \notin S /\ p_sib(q) \notin S
      OBVIOUS
    <3> HIDE DEF S, h, p_list, p_child, p_sib, NoNode, readyQueue
    <3> QED BY <1>3, <1>7, <3>1, PcbsStay DEF Shape, S
  <2>2. PcbAt(h, p, NULL, st[p])
    <3> HIDE DEF h, p_child, p_list, NoNode, readyQueue
    <3> QED BY <1>1, <1>4, <2>1 DEF PcbAt
  <2> HIDE DEF h
  <2> QED BY <2>1, <2>2 DEF PcbPlaced
<1>9. SemdPlaced(h, key)
  <2>1. \A s \in Semd : s_procq(s) \in Node
    BY Nodes
  <2> HIDE DEF h, s_procq, NoNode
  <2> QED BY <1>3, <2>1 DEF Shape, SemdPlaced, Keeps, OnNone, Live
<1> QED BY <1>3, <1>5, <1>7, <1>8, <1>9 DEF Shape

(* outChild. *)
LEMMA OutChildIInv ==
  ASSUME IInv, NEW p \in Pcb, OutChild(p)
  PROVE  IInv'
<1> DEFINE h == ListDel(lists, p_sib(p))
<1>1. Shape(h, [p_parent EXCEPT ![p] = NULL], state, s_key) /\ Isolated(h, p_sib(p))
  <2> HIDE DEF p_sib
  <2> QED BY LeaveParent DEF IInv, FieldTypes, OutChild
<1>2. lists' = h
  <2>1. lists' = InitListHead(h, p_sib(p)) /\ p_sib(p) \in Node
    BY Nodes DEF OutChild
  <2> HIDE DEF h, p_sib, NoNode
  <2> QED BY <1>1, <2>1, InitIsolated DEF Shape, Good
<1> QED BY <1>1, <1>2 DEF IInv, FieldTypes, OutChild, LeavesParent

(* removeChild: the first node of the children is the p_sib of a child.    *)
LEMMA RemoveChildIInv ==
  ASSUME IInv, NEW p \in Pcb, RemoveChild(p)
  PROVE  IInv'
<1> DEFINE label == Label(p_parent, state, s_key)
           first == lists.next[p_child(p)]
<1>1. NoNode \notin Node /\ p_child(p) \in Node /\ Live(lists, p_child(p), NoNode)
  BY Nodes DEF RemoveChild, Allocated, IInv, Shape, PcbPlaced, PcbAt
<1>2. label[p_child(p)] = p_child(p)
  BY Nodes DEF Label
<1>3. first \in Node /\ first # p_child(p) /\ label[first] = p_child(p)
  <2> HIDE DEF label, NoNode, p_child
  <2> QED BY <1>1, <1>2, FirstOfList DEF IInv, Shape, RemoveChild, label
<1>4. PICK c \in Pcb : first = p_sib(c) /\ p_parent[c] = p
  BY <1>3, Members
<1> DEFINE h == ListDel(lists, p_sib(c))
<1>5. Shape(h, [p_parent EXCEPT ![c] = NULL], state, s_key) /\ Isolated(h, p_sib(c))
  <2>1. p_parent[c] # NULL
    BY <1>4, Phase1Assumption DEF Phase1Assumption
  <2> HIDE DEF p_sib
  <2> QED BY <2>1, LeaveParent DEF IInv, FieldTypes
<1>6. lists' = h
  <2>1. lists' = InitListHead(h, p_sib(c)) /\ p_sib(c) \in Node
    BY <1>4, Nodes DEF RemoveChild
  <2> HIDE DEF h, p_sib, NoNode
  <2> QED BY <1>5, <2>1, InitIsolated DEF Shape, Good
<1> QED BY <1>4, <1>5, <1>6 DEF IInv, FieldTypes, RemoveChild, ContainerOf

(* insertChild: the p_sib of an orphan is on no list. *)
LEMMA InsertChildIInv ==
  ASSUME IInv, NEW prnt \in Pcb, NEW p \in Pcb, InsertChild(prnt, p)
  PROVE  IInv'
<1> DEFINE n == p_sib(p)
           at == p_child(prnt)
           label == Label(p_parent, state, s_key)
           label2 == Label(p_parent', state', s_key')
<1>1. /\ NoNode \notin Node /\ n \in Node /\ at \in Node /\ n # at
      /\ OnNone(lists, n, NoNode) /\ Live(lists, at, NoNode) /\ Live(lists, n, NoNode)
      /\ Live(lists, readyQueue, NoNode)
  BY Nodes DEF IInv, Shape, PcbPlaced, PcbAt, InsertChild, Allocated, Held
<1>2. label2[n] = label2[at] /\ \A k \in Node \ {n} : label2[k] = label[k]
  BY Nodes, Phase1Assumption
     DEF IInv, FieldTypes, InsertChild, Label, ContainerOf, Node, Heads, PcbNodes, SemdNodes,
         Phase1Assumption
<1>3. Good(lists, Node, NoNode, label2)
  <2> HIDE DEF label2, n, NoNode
  <2> QED BY <1>1, <1>2, Relabel DEF IInv, Shape
<1>4. /\ Good(lists', Node, NoNode, label2)
      /\ Keeps(lists, lists', Node, NoNode, {n, at})
      /\ Live(lists', n, NoNode) /\ Live(lists', at, NoNode)
  <2>1. lists' = ListAddTail(lists, n, at)
    BY DEF InsertChild
  <2> HIDE DEF label2, n, at, NoNode
  <2> QED BY <1>1, <1>2, <1>3, <2>1, ListAddTailLinks
<1>5. \A k \in Node : Live(lists, k, NoNode) => Live(lists', k, NoNode)
  <2> HIDE DEF n, at, NoNode
  <2> QED BY <1>4 DEF Keeps
<1>6. Booted(lists', state') /\ Live(lists', readyQueue, NoNode)
  <2>1. state' = state
    BY DEF InsertChild
  <2> HIDE DEF NoNode, readyQueue
  <2> QED BY <1>1, <1>5, <2>1, StillBooted DEF IInv, FieldTypes
<1>7. PcbPlaced(lists', p_parent', state')
  <2>1. \A q \in Pcb \ {p, prnt} : PcbAt(lists', q, p_parent[q], state[q])
    <3> DEFINE S == {n, at}
    <3>1. \A q \in Pcb \ {p, prnt} : p_list(q) \notin S /\ p_child(q) \notin S /\ p_sib(q) \notin S
      OBVIOUS
    <3> HIDE DEF S, p_list, p_child, p_sib, NoNode, readyQueue
    <3> QED BY <1>4, <1>6, <3>1, PcbsStay DEF IInv, Shape, S
  <2>2. /\ p_list(p) \in Node \ {n, at} /\ p_child(p) \in Node \ {n, at}
        /\ p_list(prnt) \in Node \ {n, at} /\ p_sib(prnt) \in Node \ {n, at}
    BY Nodes DEF InsertChild
  <2>3. /\ state[prnt] \in {"held", "ready", "blocked"} /\ state[p] = "held"
        /\ PcbAt(lists, p, p_parent[p], state[p]) /\ PcbAt(lists, prnt, p_parent[prnt], state[prnt])
    BY DEF IInv, Shape, PcbPlaced, InsertChild, Allocated, Held
  <2>4. PcbAt(lists', prnt, p_parent[prnt], state[prnt])
    <3> HIDE DEF n, p_list, p_sib, NoNode, readyQueue
    <3> QED BY <1>4, <1>6, <2>2, <2>3 DEF PcbAt, Keeps, OnNone, Live
  <2>5. PcbAt(lists', p, prnt, state[p])
    <3>1. prnt # NULL
      BY Phase1Assumption DEF Phase1Assumption
    <3> HIDE DEF at, p_list, p_child, NoNode, readyQueue
    <3> QED BY <1>4, <1>6, <2>2, <2>3, <3>1 DEF PcbAt, Keeps, OnNone, Live
  <2> QED BY <2>1, <2>4, <2>5 DEF PcbPlaced, InsertChild, IInv, FieldTypes
<1>8. SemdPlaced(lists', s_key')
  <2>1. \A s \in Semd : s_procq(s) \in Node \ {n, at} /\ (s_key[s] = NULL => OnNone(lists, s_procq(s), NoNode))
    BY Nodes DEF IInv, Shape, SemdPlaced
  <2>2. s_key' = s_key
    BY DEF InsertChild
  <2> HIDE DEF n, at, s_procq, NoNode
  <2> QED BY <1>4, <2>1, <2>2 DEF SemdPlaced, Keeps, OnNone, Live
<1>9. FieldTypes'
  BY DEF IInv, FieldTypes, InsertChild
<1> QED BY <1>4, <1>6, <1>7, <1>8, <1>9 DEF IInv, Shape

-----------------------------------------------------------------------------
(* asl.c.  A descriptor changes its list and its key in one call.          *)

(* The descriptor leaves semdFree_h or semd_h. *)
LEMMA LeaveSemd ==
  ASSUME NEW m, NEW parent, NEW key, NEW s \in Semd,
         NEW st \in [Pcb -> {"none", "free", "held", "ready", "blocked"}],
         Shape(m, parent, st, key), Live(m, readyQueue, NoNode)
  PROVE  /\ Shape(ListDel(m, s_link(s)), parent, st, key)
         /\ Live(ListDel(m, s_link(s)), readyQueue, NoNode)
         /\ Isolated(ListDel(m, s_link(s)), s_link(s))
         /\ Keeps(m, ListDel(m, s_link(s)), Node, NoNode, {})
<1> DEFINE n == s_link(s)
           h == ListDel(m, n)
           label == Label(parent, st, key)
<1>1. NoNode \notin Node /\ n \in Node /\ Live(m, n, NoNode)
  <2> HIDE DEF NoNode, readyQueue
  <2> QED BY Nodes, Running
<1>2. Good(h, Node, NoNode, label) /\ Isolated(h, n) /\ Keeps(m, h, Node, NoNode, {})
  <2> HIDE DEF label, n, NoNode
  <2> QED BY <1>1, ListDelLinks DEF Shape, label
<1>3. \A k \in Node : Live(m, k, NoNode) => Live(h, k, NoNode)
  <2> HIDE DEF h, NoNode
  <2> QED BY <1>2 DEF Keeps
<1>4. Booted(h, st) /\ Live(h, readyQueue, NoNode)
  <2> HIDE DEF h, NoNode, readyQueue
  <2> QED BY <1>3, StillBooted
<1>5. PcbPlaced(h, parent, st)
  <2> DEFINE S == {}
  <2>1. \A q \in Pcb : p_list(q) \notin S /\ p_child(q) \notin S /\ p_sib(q) \notin S
    OBVIOUS
  <2> HIDE DEF S, h, p_list, p_child, p_sib, NoNode, readyQueue
  <2>2. \A q \in Pcb : PcbAt(h, q, parent[q], st[q])
    BY <1>2, <1>4, <2>1, PcbsStay DEF Shape, S
  <2> QED BY <2>2 DEF PcbPlaced
<1>6. SemdPlaced(h, key)
  <2>1. \A t \in Semd : s_procq(t) \in Node
    BY Nodes
  <2> HIDE DEF h, s_procq, NoNode
  <2> QED BY <1>2, <2>1 DEF Shape, SemdPlaced, Keeps, OnNone, Live
<1> QED BY <1>2, <1>4, <1>5, <1>6 DEF Shape

(* Off its list, the descriptor takes or loses a key. *)
LEMMA Rekey ==
  ASSUME NEW m, NEW parent, NEW s \in Semd, NEW key \in [Semd -> Sem \cup {NULL}],
         NEW st, NEW x \in Sem \cup {NULL},
         Shape(m, parent, st, key), Isolated(m, s_link(s)),
         x = NULL => OnNone(m, s_procq(s), NoNode)
  PROVE  Shape(m, parent, st, [key EXCEPT ![s] = x])
<1> DEFINE n == s_link(s)
           key2 == [key EXCEPT ![s] = x]
           label == Label(parent, st, key)
           label2 == Label(parent, st, key2)
<1>1. NoNode \notin Node /\ n \in Node /\ OnNone(m, n, NoNode)
  BY Nodes DEF OnNone
<1>2. \A k \in Node \ {n} : label2[k] = label[k]
  BY Nodes DEF Label, ContainerOf, Node, Heads, PcbNodes, SemdNodes
<1>3. Good(m, Node, NoNode, label2)
  <2> HIDE DEF label2, n, NoNode
  <2> QED BY <1>1, <1>2, Relabel DEF Shape
<1>4. SemdPlaced(m, key2)
  BY DEF Shape, SemdPlaced
<1> QED BY <1>3, <1>4 DEF Shape

(* The descriptor joins the list that its key tells. *)
LEMMA JoinSemd ==
  ASSUME NEW m, NEW parent, NEW key, NEW s \in Semd, NEW head \in {semdFree_h, semd_h},
         NEW st \in [Pcb -> {"none", "free", "held", "ready", "blocked"}],
         Shape(m, parent, st, key), Live(m, readyQueue, NoNode), Isolated(m, s_link(s)),
         head = IF key[s] = NULL THEN semdFree_h ELSE semd_h
  PROVE  Shape(ListAddTail(m, s_link(s), head), parent, st, key)
<1> DEFINE n == s_link(s)
           h == ListAddTail(m, n, head)
           label == Label(parent, st, key)
<1>1. /\ NoNode \notin Node /\ n \in Node /\ head \in Node /\ n # head
      /\ label[n] = label[head] /\ OnNone(m, n, NoNode)
  BY Nodes DEF Label, ContainerOf, OnNone
<1>2. Live(m, head, NoNode)
  <2>1. head \in Heads
    BY DEF Heads
  <2> HIDE DEF NoNode, readyQueue, s_link, s_procq, p_list
  <2> QED BY <2>1, Running
<1>3. /\ Good(h, Node, NoNode, label) /\ Keeps(m, h, Node, NoNode, {n, head})
      /\ Live(h, n, NoNode) /\ Live(h, head, NoNode)
  <2> HIDE DEF label, n, NoNode
  <2> QED BY <1>1, <1>2, ListAddTailLinks DEF Shape, label
<1>4. \A k \in Node : Live(m, k, NoNode) => Live(h, k, NoNode)
  <2> HIDE DEF n, h, NoNode
  <2> QED BY <1>3 DEF Keeps
<1>5. Booted(h, st) /\ Live(h, readyQueue, NoNode)
  <2> HIDE DEF h, NoNode, readyQueue
  <2> QED BY <1>4, StillBooted
<1>6. PcbPlaced(h, parent, st)
  <2> DEFINE S == {n, head}
  <2>1. \A q \in Pcb : p_list(q) \notin S /\ p_child(q) \notin S /\ p_sib(q) \notin S
    OBVIOUS
  <2> HIDE DEF S, h, p_list, p_child, p_sib, NoNode, readyQueue
  <2>2. \A q \in Pcb : PcbAt(h, q, parent[q], st[q])
    BY <1>3, <1>5, <2>1, PcbsStay DEF Shape, S
  <2> QED BY <2>2 DEF PcbPlaced
<1>7. SemdPlaced(h, key)
  <2>1. \A t \in Semd : s_procq(t) \in Node \ {n, head}
    BY Nodes
  <2> HIDE DEF n, h, s_procq, NoNode
  <2> QED BY <1>3, <2>1 DEF Shape, SemdPlaced, Keeps, OnNone, Live
<1> QED BY <1>3, <1>5, <1>6, <1>7 DEF Shape

(* insertBlocked on an active semaphore. *)
LEMMA InsertBlockedActiveIInv ==
  ASSUME IInv, NEW sem \in Sem, NEW p \in Pcb, InsertBlockedActive(sem, p)
  PROVE  IInv'
<1> DEFINE st2 == [state EXCEPT ![p] = "blocked"]
<1>1. PICK s \in Semd : /\ s_key[s] = sem
                        /\ lists' = ListInsert(lists, p_list(p), lists.prev[s_procq(s)], s_procq(s))
  BY DEF InsertBlockedActive, Found, ListAddTail
<1>2. /\ Live(lists, readyQueue, NoNode) /\ NoNode \notin Node /\ s_procq(s) \in Node
      /\ state[p] = "held" /\ UNCHANGED <<p_parent, s_key>> /\ state' = st2
  BY Nodes DEF IInv, Shape, PcbPlaced, PcbAt, InsertBlockedActive, Block, pcbVars, Held
<1>3. s_key[s] # NULL
  BY <1>1, Phase1Assumption DEF Phase1Assumption
<1>4. Shape(lists', p_parent', state', s_key')
  <2>1. st2 = [state EXCEPT ![p] = "blocked"]
    OBVIOUS
  <2> HIDE DEF st2, p_list, p_child, s_procq, readyQueue, NoNode
  <2> QED BY <1>1, <1>2, <1>3, <2>1, JoinSemaphore DEF IInv, FieldTypes
<1> QED BY <1>4 DEF IInv, FieldTypes, InsertBlockedActive, Block, pcbVars

(* insertBlocked on a semaphore that had no process. *)
LEMMA InsertBlockedNewIInv ==
  ASSUME IInv, NEW sem \in Sem, NEW p \in Pcb, InsertBlockedNew(sem, p)
  PROVE  IInv'
<1> DEFINE label == Label(p_parent, state, s_key)
           first == lists.next[semdFree_h]
           st2 == [state EXCEPT ![p] = "blocked"]
<1>1. /\ Live(lists, readyQueue, NoNode) /\ NoNode \notin Node /\ semdFree_h \in Node
      /\ state[p] = "held" /\ UNCHANGED p_parent /\ state' = st2
  BY Nodes DEF IInv, Shape, PcbPlaced, PcbAt, InsertBlockedNew, Block, pcbVars, Held
<1>2. Live(lists, semdFree_h, NoNode) /\ label[semdFree_h] = semdFree_h
  <2>1. semdFree_h \in Heads
    BY DEF Heads
  <2>2. Live(lists, semdFree_h, NoNode)
    <3> HIDE DEF NoNode, readyQueue, s_link, s_procq, p_list, semdFree_h
    <3> QED BY <1>1, <2>1, Running DEF IInv, FieldTypes
  <2> QED BY <2>2, Nodes DEF Label
<1>3. first \in Node /\ first # semdFree_h /\ label[first] = semdFree_h
  <2> HIDE DEF label, NoNode, semdFree_h
  <2> QED BY <1>1, <1>2, FirstOfList DEF IInv, Shape, InsertBlockedNew, label
<1>4. PICK s \in Semd : first = s_link(s) /\ s_key[s] = NULL
  BY <1>3, Members
<1> DEFINE d == ListDel(lists, s_link(s))
           key2 == [s_key EXCEPT ![s] = sem]
           at == s_procq(s)
           h == ListInsert(d, p_list(p), d.prev[at], at)
<1>5. /\ Shape(d, p_parent, state, s_key) /\ Live(d, readyQueue, NoNode)
      /\ Isolated(d, s_link(s)) /\ Keeps(lists, d, Node, NoNode, {})
  <2> HIDE DEF s_link, readyQueue, NoNode
  <2> QED BY <1>1, LeaveSemd DEF IInv, FieldTypes
<1>6. sem # NULL
  BY Phase1Assumption DEF Phase1Assumption
<1>7. Shape(d, p_parent, state, key2)
  <2> HIDE DEF d, s_link, s_procq, NoNode
  <2> QED BY <1>5, <1>6, Rekey DEF IInv, FieldTypes
<1>8. at \in Node /\ Isolated(d, at)
  <2>1. Live(d, at, NoNode)
    <3> HIDE DEF NoNode, readyQueue, s_link, s_procq, p_list, d
    <3> QED BY <1>5, Running DEF IInv, FieldTypes
  <2>2. OnNone(d, at, NoNode)
    BY <1>4, <1>5 DEF Shape, SemdPlaced
  <2> QED BY <2>1, <2>2, Nodes DEF OnNone, Live
<1>9. /\ lists' = ListAddTail(h, s_link(s), semd_h)
      /\ s_key' = key2
  <2>1. ContainerOf(lists.next[semdFree_h]) = s
    BY <1>4 DEF ContainerOf
  <2>2. lists' = ListAddTail(ListAddTail(InitListHead(d, at), p_list(p), at), s_link(s), semd_h)
    BY <2>1 DEF InsertBlockedNew
  <2>3. InitListHead(d, at) = d
    <3> HIDE DEF d, at, NoNode
    <3> QED BY <1>7, <1>8, InitIsolated DEF Shape, Good
  <2> HIDE DEF d
  <2> QED BY <2>1, <2>2, <2>3 DEF InsertBlockedNew, ListAddTail
<1>10. /\ Shape(h, p_parent, st2, key2) /\ Live(h, readyQueue, NoNode)
       /\ Keeps(d, h, Node, NoNode, {p_list(p), at})
  <2>1. key2[s] # NULL
    BY <1>6 DEF IInv, FieldTypes
  <2>2. state \in [Pcb -> {"none", "free", "held", "ready", "blocked"}] /\ state[p] = "held"
    BY <1>1 DEF IInv, FieldTypes
  <2>3. st2 = [state EXCEPT ![p] = "blocked"]
    OBVIOUS
  <2> HIDE DEF d, key2, st2, p_list, p_child, s_procq, readyQueue, NoNode
  <2> QED BY <1>5, <1>7, <2>1, <2>2, <2>3, JoinSemaphore
<1>11. Isolated(h, s_link(s))
  <2>1. s_link(s) \in Node \ {p_list(p), at}
    BY Nodes
  <2> HIDE DEF d, h, s_link, p_list, at, NoNode
  <2> QED BY <1>5, <1>10, <2>1 DEF Keeps
<1>12. Shape(lists', p_parent', state', s_key')
  <2>1. semd_h \in {semdFree_h, semd_h} /\ semd_h = IF key2[s] = NULL THEN semdFree_h ELSE semd_h
    BY <1>6 DEF IInv, FieldTypes
  <2>2. st2 \in [Pcb -> {"none", "free", "held", "ready", "blocked"}]
    BY DEF IInv, FieldTypes
  <2> HIDE DEF h, key2, st2, s_link, semdFree_h, semd_h, readyQueue, NoNode
  <2> QED BY <1>1, <1>9, <1>10, <1>11, <2>1, <2>2, JoinSemd
<1> QED BY <1>9, <1>12 DEF IInv, FieldTypes, InsertBlockedNew, Block, pcbVars

(* removeBlocked and outBlocked. *)
LEMMA UnblockIInv ==
  ASSUME IInv, NEW s \in Semd, NEW p \in Pcb, s_key[s] # NULL, Live(lists, readyQueue, NoNode),
         state[p] \in {"held", "ready", "blocked"}, Unblock(s, p)
  PROVE  IInv'
<1> DEFINE m == ListDel(lists, p_list(p))
           st2 == [state EXCEPT ![p] = "held"]
           d == ListDel(m, s_link(s))
           key2 == [s_key EXCEPT ![s] = NULL]
<1>1. Shape(m, p_parent, st2, s_key) /\ Live(m, readyQueue, NoNode)
  <2> HIDE DEF p_list, readyQueue, NoNode
  <2> QED BY LeaveQueue DEF IInv, FieldTypes
<1>2. st2 \in [Pcb -> {"none", "free", "held", "ready", "blocked"}] /\ FieldTypes'
  BY DEF IInv, FieldTypes, Unblock, ReleasedKeys, pcbVars
<1>3. CASE ListEmpty(m, s_procq(s))
  <2>1. /\ Shape(d, p_parent, st2, s_key) /\ Live(d, readyQueue, NoNode)
        /\ Isolated(d, s_link(s)) /\ Keeps(m, d, Node, NoNode, {})
    <3> HIDE DEF m, st2, s_link, readyQueue, NoNode
    <3> QED BY <1>1, <1>2, LeaveSemd
  <2>2. OnNone(d, s_procq(s), NoNode)
    <3>1. NoNode \notin Node /\ s_procq(s) \in Node
      BY Nodes
    <3> HIDE DEF m, d, s_procq, NoNode
    <3>2. Isolated(m, s_procq(s))
      BY <1>1, <1>3, <3>1, EmptyIsolated DEF Shape
    <3> QED BY <2>1, <3>1, <3>2 DEF Keeps, OnNone
  <2>3. Shape(d, p_parent, st2, key2)
    <3> HIDE DEF d, s_link, s_procq, st2, NoNode
    <3> QED BY <2>1, <2>2, Rekey DEF IInv, FieldTypes
  <2>4. Shape(ListAddTail(d, s_link(s), semdFree_h), p_parent, st2, key2)
    <3>1. semdFree_h \in {semdFree_h, semd_h} /\ semdFree_h = IF key2[s] = NULL THEN semdFree_h ELSE semd_h
      BY DEF IInv, FieldTypes
    <3> HIDE DEF d, key2, st2, s_link, semdFree_h, semd_h, readyQueue, NoNode
    <3> QED BY <1>2, <2>1, <2>3, <3>1, JoinSemd
  <2>5. /\ lists' = ListAddTail(d, s_link(s), semdFree_h) /\ s_key' = key2
        /\ p_parent' = p_parent /\ state' = st2
    BY <1>3 DEF Unblock, Release, ReleasedKeys, pcbVars
  <2> QED BY <1>2, <2>4, <2>5 DEF IInv
<1>4. CASE ~ListEmpty(m, s_procq(s))
  <2>1. lists' = m /\ s_key' = s_key /\ p_parent' = p_parent /\ state' = st2
    BY <1>4 DEF Unblock, Release, ReleasedKeys, pcbVars
  <2> QED BY <1>1, <1>2, <2>1 DEF IInv
<1> QED BY <1>3, <1>4

-----------------------------------------------------------------------------
(* Every call preserves the invariant. *)
LEMMA NextIInv == IInv /\ [Next]_vars => IInv'
<1> SUFFICES ASSUME IInv, [Next]_vars
             PROVE  IInv'
  OBVIOUS
<1>1. CASE \E p \in Pcb : InitPcb(p)
  BY <1>1, InitPcbIInv
<1>2. CASE InitASLHeads
  BY <1>2, InitASLHeadsIInv
<1>3. CASE \E s \in Semd : InitSemd(s)
  BY <1>3, InitSemdIInv
<1>4. CASE MkEmptyProcQ
  BY <1>4, MkEmptyProcQIInv
<1>5. CASE \E prio \in Prio : AllocPcb(prio)
  BY <1>5, AllocPcbIInv
<1>6. ASSUME NEW p \in Pcb, FreePcb(p) \/ InsertProcQAhead(p) \/ InsertProcQLast(p) \/ OutProcQ(p)
      PROVE  IInv'
  BY <1>6, FreePcbIInv, InsertProcQAheadIInv, InsertProcQLastIInv, OutProcQIInv
<1>7. CASE RemoveProcQ
  BY <1>7, RemoveProcQIInv
<1>8. ASSUME NEW prnt \in Pcb, NEW p \in Pcb, InsertChild(prnt, p)
      PROVE  IInv'
  BY <1>8, InsertChildIInv
<1>9. ASSUME NEW p \in Pcb, RemoveChild(p) \/ OutChild(p)
      PROVE  IInv'
  BY <1>9, RemoveChildIInv, OutChildIInv
<1>10. ASSUME NEW sem \in Sem, NEW p \in Pcb,
              InsertBlockedActive(sem, p) \/ InsertBlockedNew(sem, p)
       PROVE  IInv'
  BY <1>10, InsertBlockedActiveIInv, InsertBlockedNewIInv
<1>11. ASSUME NEW sem \in Sem, RemoveBlocked(sem)
       PROVE  IInv'
  <2>1. PICK s \in Semd, p \in Pcb : /\ s_key[s] = sem
                                     /\ lists.next[s_procq(s)] = p_list(p)
                                     /\ Unblock(s, p)
    BY <1>11 DEF RemoveBlocked, Found
  <2>2. Live(lists, readyQueue, NoNode) /\ s_key[s] # NULL
    BY <1>11, <2>1, Phase1Assumption DEF RemoveBlocked, Initialised, Live, Phase1Assumption
  <2>3. state[p] = "blocked"
    <3> DEFINE label == Label(p_parent, state, s_key)
    <3>1. Live(lists, s_procq(s), NoNode) /\ s_procq(s) \in Node
      <4> HIDE DEF NoNode, readyQueue, s_link, s_procq, p_list
      <4> QED BY <2>2, Running, Nodes DEF IInv, FieldTypes
    <3>2. label[p_list(p)] = label[s_procq(s)]
      BY <2>1, <3>1 DEF IInv, Shape, Good, SameLabel, Live
    <3> QED BY <3>2, Nodes DEF Label, ContainerOf
  <2> QED BY <2>1, <2>2, <2>3, UnblockIInv
<1>12. ASSUME NEW p \in Pcb, OutBlocked(p)
       PROVE  IInv'
  <2>1. PICK s \in Semd : s_key[s] = p_semAdd[p] /\ Unblock(s, p)
    BY <1>12 DEF OutBlocked, Found
  <2>2. /\ Live(lists, readyQueue, NoNode) /\ s_key[s] # NULL
        /\ state[p] \in {"held", "ready", "blocked"}
    BY <1>12, <2>1 DEF OutBlocked, Allocated, IInv, Shape, PcbPlaced, PcbAt
  <2> QED BY <2>1, <2>2, UnblockIInv
<1>13. CASE UNCHANGED vars
  BY <1>13 DEF vars, IInv, FieldTypes
<1> QED BY <1>1, <1>2, <1>3, <1>4, <1>5, <1>6, <1>7, <1>8, <1>9, <1>10, <1>11, <1>12, <1>13 DEF Next

(* For every number of PCBs and of semaphores, every set of priorities and  *)
(* every sequence of calls: the invariant that says where each node is.    *)
LEMMA SpecIInv == Spec => []IInv
<1>1. IInv /\ [Next]_vars => IInv'
  BY NextIInv
<1> QED BY InitIInv, <1>1, PTL DEF Spec

(* Fields and pointers keep their types: no call follows a pointer that was *)
(* never initialised.                                                      *)
THEOREM Phase1Types == Spec => []TypeOK
<1>1. IInv => TypeOK
  BY DEF IInv, Shape, FieldTypes, Good, Memory, TypeOK
<1> QED BY <1>1, SpecIInv, PTL

(* The lists of phase 1 are well linked after every call.                  *)
THEOREM Phase1Linked == Spec => []Linked
<1>1. IInv => Linked
  BY DEF IInv, Shape, Good, WellLinked, Linked, Initialised
<1> QED BY <1>1, SpecIInv, PTL

HIDE DEF NoNode, pcbFree_h, readyQueue, semdFree_h, semd_h, p_list, p_child, p_sib, s_link, s_procq

-----------------------------------------------------------------------------
(* What list_for_each finds.  No list has a part its head is not on, so    *)
(* that it finds every node that is labelled with the head.                *)

\* Every set of nodes one cannot leave along next has the head of a list.
Headed(m, N, nil, label) ==
  \A X \in SUBSET N :
    X # {} /\ (\A x \in X : m.next[x] # nil /\ m.next[x] \in X) => \E x \in X : label[x] = x

Tight(m, N, nil, label) == Good(m, N, nil, label) /\ Headed(m, N, nil, label)

(* A set of naturals that is not empty has a least element.                *)
LEMMA LeastNat ==
  ASSUME NEW S \in SUBSET Nat, S # {}
  PROVE  \E x \in S : \A y \in S : x <= y
<1> DEFINE R == {ss \in Nat \X Nat : ss[1] < ss[2]}
<1>0. OpToRel(<, Nat) = R
  BY Zenon DEF OpToRel
<1>1. IsWellFoundedOn(R, Nat)
  BY <1>0, NatLessThanWellFounded, Zenon
<1>2. PICK x \in S : \A y \in S : ~(<<y, x>> \in R)
  BY <1>1, WFMin, Zenon
<1>3. \A y \in S : <<y, x>> \in Nat \X Nat /\ <<y, x>>[1] = y /\ <<y, x>>[2] = x
  OBVIOUS
<1>4. \A y \in S : ~(y < x)
  BY <1>2, <1>3, Zenon DEF R
<1> QED BY <1>4

(* Induction, over the set of the numbers that have a property.            *)
LEMMA SetInduction ==
  ASSUME NEW S, 0 \in S, \A i \in Nat : i \in S => i + 1 \in S
  PROVE  \A i \in Nat : i \in S
<1> DEFINE Bad == Nat \ S
<1> SUFFICES ASSUME Bad # {}
             PROVE  FALSE
  OBVIOUS
<1>1. PICK x \in Bad : \A y \in Bad : x <= y
  BY LeastNat
<1>2. x - 1 \in Nat /\ (x - 1) + 1 = x /\ ~(x <= x - 1)
  BY <1>1
<1> QED BY <1>1, <1>2

\* The nodes pos takes in list_for_each in its first K iterations, as long as
\* it goes on.
Walks(pos, K, m, h) ==
  pos = [i \in 0 .. K |-> IF i = 0 THEN h ELSE m.next[pos[i - 1]]]

Walk(K, m, h) == CHOOSE pos : Walks(pos, K, m, h)

(* They exist, for the recursion to have a meaning.                        *)
LEMMA WalkExists ==
  ASSUME NEW N, NEW nil, nil \notin N, NEW m, NEW label, Good(m, N, nil, label),
         NEW h \in N, Live(m, h, nil), NEW K \in Nat
  PROVE  \E f : Walks(f, K, m, h)
<1> DEFINE S == {k \in Nat : \E f : Walks(f, k, m, h)}
<1>1. 0 \in S
  <2> DEFINE f == [i \in 0 .. 0 |-> h]
  <2>1. Walks(f, 0, m, h)
    BY DEF Walks
  <2> QED BY <2>1
<1>2. ASSUME NEW k \in Nat, k \in S
      PROVE  k + 1 \in S
  <2>1. PICK f : Walks(f, k, m, h)
    BY <1>2
  <2> DEFINE g == [i \in 0 .. k + 1 |-> IF i = k + 1 THEN m.next[f[k]] ELSE f[i]]
  <2>2. \A i \in 0 .. k : f[i] = IF i = 0 THEN h ELSE m.next[f[i - 1]]
    BY <2>1 DEF Walks
  <2>3. ASSUME NEW i \in 0 .. k + 1
        PROVE  g[i] = IF i = 0 THEN h ELSE m.next[g[i - 1]]
    <3>1. CASE i = k + 1
      BY <3>1
    <3>2. CASE i # k + 1
      <4>1. i \in 0 .. k /\ (i # 0 => i - 1 \in 0 .. k /\ i - 1 # k + 1)
        BY <3>2
      <4> QED BY <2>2, <3>2, <4>1
    <3> QED BY <3>1, <3>2
  <2>4. Walks(g, k + 1, m, h)
    <3>1. g = [i \in 0 .. k + 1 |-> g[i]]
      OBVIOUS
    <3> HIDE DEF g
    <3> QED BY <2>3, <3>1 DEF Walks
  <2> HIDE DEF g
  <2> QED BY <2>4
<1>3. K \in S
  <2> HIDE DEF S
  <2> QED BY <1>1, <1>2, SetInduction
<1> QED BY <1>3

LEMMA WalkChosen ==
  ASSUME NEW K, NEW m, NEW h, \E f : Walks(f, K, m, h)
  PROVE  Walks(Walk(K, m, h), K, m, h)
BY DEF Walk

(* The nodes list_for_each gives are those of the walk until it is back.    *)
LEMMA ListForEachWalks ==
  ASSUME NEW m, NEW h, NEW pos, NEW end,
         pos = Walk(Cardinality(DOMAIN m.next), m, h),
         end = Min({i \in DOMAIN pos : i > 0 /\ pos[i] = h})
  PROVE  ListForEach(m, h) = [i \in 1 .. end - 1 |-> pos[i]]
BY DEF ListForEach, Walk, Walks

\* They start at the head, and each step goes along next.
GoesAlong(pos, K, m, h) ==
  DOMAIN pos = 0 .. K /\ pos[0] = h /\ \A i \in 0 .. K - 1 : pos[i + 1] = m.next[pos[i]]

LEMMA WalkSteps ==
  ASSUME NEW m, NEW h, NEW K \in Nat, NEW pos, Walks(pos, K, m, h)
  PROVE  GoesAlong(pos, K, m, h)
<1>1. DOMAIN pos = 0 .. K /\ \A i \in 0 .. K : pos[i] = IF i = 0 THEN h ELSE m.next[pos[i - 1]]
  BY DEF Walks
<1>2. pos[0] = h
  BY <1>1
<1>3. ASSUME NEW i \in 0 .. K - 1
      PROVE  pos[i + 1] = m.next[pos[i]]
  <2>1. i + 1 \in 0 .. K /\ i + 1 # 0 /\ (i + 1) - 1 = i
    OBVIOUS
  <2> QED BY <1>1, <2>1
<1> QED BY <1>1, <1>2, <1>3 DEF GoesAlong

(* They are initialised nodes with the label of the head.                  *)
LEMMA WalkNodes ==
  ASSUME NEW N, NEW nil, nil \notin N, NEW m, NEW label, Good(m, N, nil, label),
         NEW h \in N, Live(m, h, nil), NEW K \in Nat, NEW pos,
         Walks(pos, K, m, h)
  PROVE  /\ pos[0] = h
         /\ \A i \in 0 .. K : pos[i] \in N /\ Live(m, pos[i], nil) /\ label[pos[i]] = label[h]
         /\ \A i \in 0 .. K - 1 : pos[i + 1] = m.next[pos[i]] /\ m.prev[pos[i + 1]] = pos[i]
<1>1. GoesAlong(pos, K, m, h)
  BY WalkSteps
<1>2. DOMAIN pos = 0 .. K /\ pos[0] = h /\ \A i \in 0 .. K - 1 : pos[i + 1] = m.next[pos[i]]
  BY <1>1 DEF GoesAlong
<1> DEFINE S == {i \in Nat : i <= K => pos[i] \in N /\ Live(m, pos[i], nil) /\ label[pos[i]] = label[h]}
<1>3. 0 \in S
  BY <1>2
<1>4. ASSUME NEW i \in Nat, i \in S
      PROVE  i + 1 \in S
  <2> SUFFICES ASSUME i + 1 <= K
               PROVE  pos[i + 1] \in N /\ Live(m, pos[i + 1], nil) /\ label[pos[i + 1]] = label[h]
    OBVIOUS
  <2>1. pos[i] \in N /\ Live(m, pos[i], nil) /\ label[pos[i]] = label[h] /\ pos[i + 1] = m.next[pos[i]]
    BY <1>2, <1>4
  <2> QED BY <2>1 DEF Good, WellLinked, SameLabel, Live
<1>5. \A i \in 0 .. K : pos[i] \in N /\ Live(m, pos[i], nil) /\ label[pos[i]] = label[h]
  <2>1. \A i \in Nat : i \in S
    <3> HIDE DEF S
    <3> QED BY <1>3, <1>4, SetInduction
  <2> QED BY <2>1
<1>6. \A i \in 0 .. K - 1 : m.prev[pos[i + 1]] = pos[i]
  <2> SUFFICES ASSUME NEW i \in 0 .. K - 1
               PROVE  m.prev[pos[i + 1]] = pos[i]
    OBVIOUS
  <2>1. i \in 0 .. K /\ pos[i] \in N /\ Live(m, pos[i], nil)
    BY <1>5
  <2> QED BY <1>2, <2>1 DEF Good, WellLinked, Live
<1> QED BY <1>2, <1>5, <1>6

(* When pos takes the same node twice, it is back at the head by then: next *)
(* has an inverse.                                                         *)
LEMMA WalkBack ==
  ASSUME NEW N, NEW nil, nil \notin N, NEW m, NEW label, Good(m, N, nil, label),
         NEW h \in N, Live(m, h, nil), NEW K \in Nat, NEW pos, Walks(pos, K, m, h),
         NEW x \in 0 .. K, NEW y \in x + 1 .. K, pos[x] = pos[y]
  PROVE  \E j \in 1 .. y : pos[j] = h
<1>1. pos[0] = h /\ \A i \in 0 .. K - 1 : m.prev[pos[i + 1]] = pos[i]
  BY WalkNodes
<1> DEFINE S == {i \in Nat : i <= x /\ \E j \in i + 1 .. y : pos[i] = pos[j]}
<1>2. S # {} /\ S \in SUBSET Nat
  <2>1. x \in S
    BY SMT
  <2> QED BY <2>1
<1>3. PICK i \in S : \A j \in S : i <= j
  <2> HIDE DEF S
  <2> QED BY <1>2, LeastNat
<1>4. PICK j \in i + 1 .. y : pos[i] = pos[j]
  BY <1>3
<1>5. i = 0
  <2> SUFFICES ASSUME i # 0
               PROVE  FALSE
    OBVIOUS
  <2>1. /\ i - 1 \in Nat /\ i - 1 <= x /\ j - 1 \in (i - 1) + 1 .. y
        /\ i - 1 \in 0 .. K - 1 /\ j - 1 \in 0 .. K - 1 /\ (i - 1) + 1 = i /\ (j - 1) + 1 = j
    BY <1>3, <1>4
  <2>2. m.prev[pos[i]] = pos[i - 1] /\ m.prev[pos[j]] = pos[j - 1]
    BY <1>1, <2>1
  <2>3. i - 1 \in S
    BY <1>4, <2>1, <2>2
  <2>4. ~(i <= i - 1)
    BY <1>3
  <2> QED BY <1>3, <2>3, <2>4
<1> QED BY <1>1, <1>3, <1>4, <1>5

(* As there are K nodes, pos is back at the head after K steps at most.    *)
LEMMA WalkReturns ==
  ASSUME NEW N, IsFiniteSet(N), NEW nil, nil \notin N, NEW m, NEW label, Good(m, N, nil, label),
         NEW h \in N, Live(m, h, nil), NEW pos,
         Walks(pos, Cardinality(N), m, h)
  PROVE  \E i \in 1 .. Cardinality(N) : pos[i] = h
<1> DEFINE K == Cardinality(N)
<1>0. K \in Nat
  BY FS_CardinalityType
<1> HIDE DEF K
<1>1. Walks(pos, K, m, h)
  BY DEF K
<1>2. \A i \in 0 .. K : pos[i] \in N
  BY <1>0, <1>1, WalkNodes
<1>3. PICK x \in 0 .. K, y \in 0 .. K : x # y /\ pos[x] = pos[y]
  <2>1. IsFiniteSet(0 .. K) /\ Cardinality(0 .. K) = K + 1
    BY <1>0, FS_Interval
  <2>2. pos \in [0 .. K -> N]
    BY <1>1, <1>2 DEF Walks
  <2>3. Cardinality(N) < Cardinality(0 .. K)
    BY <1>0, <2>1 DEF K
  <2> DEFINE D == 0 .. K
  <2> HIDE DEF D
  <2>4. IsFiniteSet(D) /\ Cardinality(N) < Cardinality(D) /\ pos \in [D -> N]
    BY <2>1, <2>2, <2>3 DEF D
  <2>5. \E x, y \in D : x # y /\ pos[x] = pos[y]
    BY <2>4, FS_PigeonHole
  <2> QED BY <2>5 DEF D
<1>4. CASE x < y
  <2>1. y \in x + 1 .. K
    BY <1>0, <1>4
  <2>2. \E j \in 1 .. y : pos[j] = h
    BY <1>0, <1>1, <1>3, <2>1, WalkBack
  <2> QED BY <1>0, <2>2 DEF K
<1>5. CASE y < x
  <2>1. x \in y + 1 .. K
    BY <1>0, <1>5
  <2>2. \E j \in 1 .. x : pos[j] = h
    BY <1>0, <1>1, <1>3, <2>1, WalkBack
  <2> QED BY <1>0, <2>2 DEF K
<1> QED BY <1>0, <1>3, <1>4, <1>5

\* q is the list of h: each node points to the next one, and the last to h.
Chain(m, N, h, q) ==
  /\ q \in Seq(N \ {h})
  /\ \A i, j \in 1 .. Len(q) : q[i] = q[j] => i = j
  /\ m.next[h] = IF Len(q) = 0 THEN h ELSE q[1]
  /\ \A i \in 1 .. Len(q) : m.next[q[i]] = IF i = Len(q) THEN h ELSE q[i + 1]

LEMMA CardinalityNat ==
  ASSUME NEW N, IsFiniteSet(N)
  PROVE  Cardinality(N) \in Nat
BY FS_CardinalityType

LEMMA GoodDomain ==
  ASSUME NEW N, NEW nil, NEW m, NEW label, Good(m, N, nil, label)
  PROVE  DOMAIN m.next = N
BY DEF Good, Memory

(* list_for_each finds the nodes that are labelled with the head, and no   *)
(* others.                                                                 *)
LEMMA ListForEachFinds ==
  ASSUME NEW N, IsFiniteSet(N), NEW nil, nil \notin N, NEW m, NEW label, Tight(m, N, nil, label),
         NEW h \in N, Live(m, h, nil), label[h] = h
  PROVE  /\ Range(ListForEach(m, h)) = {n \in N \ {h} : Live(m, n, nil) /\ label[n] = h}
         /\ Chain(m, N, h, ListForEach(m, h))
<1> DEFINE K == Cardinality(N)
           pos == Walk(K, m, h)
           E == {i \in DOMAIN pos : i > 0 /\ pos[i] = h}
           end == Min(E)
<1>0. Good(m, N, nil, label) /\ Headed(m, N, nil, label) /\ K \in Nat /\ DOMAIN m.next = N
  <2>1. Good(m, N, nil, label) /\ Headed(m, N, nil, label)
    BY DEF Tight
  <2> HIDE DEF E
  <2> QED BY <2>1, CardinalityNat, GoodDomain
<1>1. Walks(pos, K, m, h)
  BY <1>0, WalkExists, WalkChosen
<1>2. ListForEach(m, h) = [i \in 1 .. end - 1 |-> pos[i]]
  <2>1. pos = Walk(Cardinality(DOMAIN m.next), m, h)
    BY <1>0
  <2>2. end = Min({i \in DOMAIN pos : i > 0 /\ pos[i] = h})
    OBVIOUS
  <2> HIDE DEF K, pos, E, end
  <2> QED BY <2>1, <2>2, ListForEachWalks
<1> HIDE DEF pos
<1>3. /\ pos[0] = h /\ DOMAIN pos = 0 .. K
      /\ \A i \in 0 .. K : pos[i] \in N /\ Live(m, pos[i], nil) /\ label[pos[i]] = label[h]
      /\ \A i \in 0 .. K - 1 : pos[i + 1] = m.next[pos[i]] /\ m.prev[pos[i + 1]] = pos[i]
  <2> HIDE DEF K
  <2>1. DOMAIN pos = 0 .. K
    BY <1>1 DEF Walks
  <2>2. /\ pos[0] = h
        /\ \A i \in 0 .. K : pos[i] \in N /\ Live(m, pos[i], nil) /\ label[pos[i]] = label[h]
        /\ \A i \in 0 .. K - 1 : pos[i + 1] = m.next[pos[i]] /\ m.prev[pos[i + 1]] = pos[i]
    BY <1>0, <1>1, WalkNodes
  <2> QED BY <2>1, <2>2
<1>4. E # {} /\ E \in SUBSET Nat
  <2>1. \E i \in 1 .. K : pos[i] = h
    BY <1>0, <1>1, WalkReturns
  <2> QED BY <1>0, <1>3, <2>1
<1>5. end \in E /\ \A i \in E : end <= i
  <2> HIDE DEF E
  <2>1. \E x \in E : \A y \in E : x <= y
    BY <1>4, LeastNat
  <2> QED BY <2>1 DEF Min
<1> HIDE DEF end
<1>6. end \in 1 .. K /\ pos[end] = h
  BY <1>0, <1>3, <1>5
<1> HIDE DEF K
<1> DEFINE L == {pos[i] : i \in 1 .. end - 1}
           C == {pos[i] : i \in 0 .. end - 1}
<1>7. Range(ListForEach(m, h)) = L
  BY <1>2 DEF Range
<1>8. ASSUME NEW i \in 1 .. end - 1
      PROVE  pos[i] \in N \ {h} /\ Live(m, pos[i], nil) /\ label[pos[i]] = h
  <2>1. i \in 0 .. K /\ i > 0 /\ ~(end <= i)
    BY <1>0, <1>6
  <2>2. i \notin E
    BY <1>5, <2>1
  <2> QED BY <1>3, <2>1, <2>2
<1>9. \A y \in C : m.prev[y] \in C
  <2> SUFFICES ASSUME NEW i \in 0 .. end - 1
               PROVE  m.prev[pos[i]] \in C
    OBVIOUS
  <2>1. CASE i = 0
    <3>1. end - 1 \in 0 .. K - 1 /\ (end - 1) + 1 = end /\ end - 1 \in 0 .. end - 1
      BY <1>0, <1>6
    <3>2. m.prev[h] = pos[end - 1]
      BY <1>3, <1>6, <3>1
    <3> QED BY <1>3, <2>1, <3>1, <3>2
  <2>2. CASE i # 0
    <3>1. i - 1 \in 0 .. K - 1 /\ (i - 1) + 1 = i /\ i - 1 \in 0 .. end - 1
      BY <1>0, <1>6, <2>2
    <3>2. m.prev[pos[i]] = pos[i - 1]
      BY <1>3, <3>1
    <3> QED BY <3>1, <3>2
  <2> QED BY <2>1, <2>2
<1>10. h \in C
  BY <1>0, <1>3, <1>6
<1>11. C \subseteq L \cup {h}
  BY <1>3
<1> DEFINE X == {x \in N \ C : Live(m, x, nil) /\ label[x] = h}
<1> HIDE DEF C, L
<1>12. X = {}
  <2> SUFFICES ASSUME X # {}
               PROVE  FALSE
    OBVIOUS
  <2>1. \A x \in X : m.next[x] # nil /\ m.next[x] \in X
    BY <1>0, <1>9 DEF Good, WellLinked, SameLabel, Live
  <2>2. X \in SUBSET N
    OBVIOUS
  <2>3. \E x \in X : label[x] = x
    <3> HIDE DEF X
    <3> QED BY <1>0, <2>1, <2>2 DEF Headed
  <2> QED BY <1>10, <2>3
<1>13. \A n \in N \ {h} : Live(m, n, nil) /\ label[n] = h => n \in L
  BY <1>11, <1>12
<1>14. \A y \in L : y \in N \ {h} /\ Live(m, y, nil) /\ label[y] = h
  BY <1>8 DEF L
<1>15. Chain(m, N, h, ListForEach(m, h))
  <2> DEFINE q == ListForEach(m, h)
  <2>1. q = [i \in 1 .. end - 1 |-> pos[i]] /\ end - 1 \in Nat
    BY <1>0, <1>2, <1>6
  <2>2. q \in Seq(N \ {h}) /\ Len(q) = end - 1 /\ \A i \in 1 .. end - 1 : q[i] = pos[i]
    <3>1. \A i \in 1 .. end - 1 : pos[i] \in N \ {h}
      BY <1>8
    <3> HIDE DEF q
    <3> QED BY <2>1, <3>1
  <2> HIDE DEF q
  <2>3. \A i, j \in 1 .. end - 1 : i < j => pos[i] # pos[j]
    <3> SUFFICES ASSUME NEW i \in 1 .. end - 1, NEW j \in 1 .. end - 1, i < j, pos[i] = pos[j]
                 PROVE  FALSE
      OBVIOUS
    <3>1. i \in 0 .. K /\ j \in i + 1 .. K
      BY <1>0, <1>6
    <3>2. PICK k \in 1 .. j : pos[k] = h
      BY <1>0, <1>1, <3>1, WalkBack
    <3>3. k \in 1 .. end - 1
      BY <1>0, <1>6, <3>2
    <3> QED BY <1>8, <3>2, <3>3
  <2>4. \A i, j \in 1 .. Len(q) : q[i] = q[j] => i = j
    BY <1>0, <1>6, <2>2, <2>3
  <2>5. m.next[h] = IF Len(q) = 0 THEN h ELSE q[1]
    BY <1>0, <1>3, <1>6, <2>2
  <2>6. \A i \in 1 .. Len(q) : m.next[q[i]] = IF i = Len(q) THEN h ELSE q[i + 1]
    <3> SUFFICES ASSUME NEW i \in 1 .. Len(q)
                 PROVE  m.next[q[i]] = IF i = Len(q) THEN h ELSE q[i + 1]
      OBVIOUS
    <3>1. i \in 0 .. K - 1 /\ i \in 1 .. end - 1
      BY <1>0, <1>6, <2>2
    <3>2. q[i] = pos[i] /\ m.next[pos[i]] = pos[i + 1]
      BY <1>3, <2>2, <3>1
    <3>3. CASE i = Len(q)
      <4>1. i + 1 = end
        BY <1>0, <1>6, <2>2, <3>3
      <4> QED BY <1>6, <3>2, <3>3, <4>1
    <3>4. CASE i # Len(q)
      <4>1. i + 1 \in 1 .. end - 1
        BY <1>0, <1>6, <2>2, <3>4
      <4> QED BY <2>2, <3>2, <3>4, <4>1
    <3> QED BY <3>3, <3>4
  <2>7. Chain(m, N, h, q)
    BY <2>2, <2>4, <2>5, <2>6 DEF Chain
  <2> QED BY <2>7 DEF q
<1> QED BY <1>7, <1>13, <1>14, <1>15

(* An isolated head has no other node labelled with it.                    *)
LEMMA IsolatedAlone ==
  ASSUME NEW N, NEW nil, nil \notin N, NEW m, NEW label, Tight(m, N, nil, label),
         NEW h \in N, Isolated(m, h), NEW n \in N, n # h, Live(m, n, nil), label[h] = h
  PROVE  label[n] # h
<1> SUFFICES ASSUME label[n] = h
             PROVE  FALSE
  OBVIOUS
<1> DEFINE X == {x \in N \ {h} : Live(m, x, nil) /\ label[x] = h}
<1>1. \A x \in X : m.next[x] # nil /\ m.next[x] \in X
  BY DEF Tight, Good, WellLinked, SameLabel, Isolated, Live
<1>2. X # {} /\ X \in SUBSET N
  OBVIOUS
<1>3. \E x \in X : label[x] = x
  <2> HIDE DEF X
  <2> QED BY <1>1, <1>2 DEF Tight, Headed
<1> QED BY <1>3

(* A node on no list is the head of its own, when it is initialised.       *)
LEMMA OnNoneOwn ==
  ASSUME NEW N, NEW nil, nil \notin N, NEW m, NEW label, Tight(m, N, nil, label),
         NEW n \in N, Live(m, n, nil), Isolated(m, n)
  PROVE  label[n] = n
<1> DEFINE X == {n}
<1>1. X # {} /\ X \in SUBSET N /\ \A x \in X : m.next[x] # nil /\ m.next[x] \in X
  BY DEF Isolated, Live
<1>2. \E x \in X : label[x] = x
  <2> HIDE DEF X
  <2> QED BY <1>1 DEF Tight, Headed
<1> QED BY <1>2

(* INIT_LIST_HEAD makes a list of a node that has no head but itself.      *)
LEMMA TightInit ==
  ASSUME NEW N, NEW nil, nil \notin N, NEW m, NEW label, Tight(m, N, nil, label),
         NEW n \in N, OnNone(m, n, nil), label[n] = n
  PROVE  Tight(InitListHead(m, n), N, nil, label)
<1> DEFINE h == InitListHead(m, n)
<1>1. Good(m, N, nil, label) /\ Headed(m, N, nil, label)
  BY DEF Tight
<1>2. Good(h, N, nil, label)
  BY <1>1, InitListHeadLinks
<1>3. \A k \in N : h.next[k] = IF k = n THEN n ELSE m.next[k]
  BY <1>1 DEF InitListHead, Good, Memory
<1>4. \A k \in N \ {n} : m.next[k] # nil => m.next[k] # n
  BY <1>1 DEF Good, WellLinked, OnNone, Isolated
<1> HIDE DEF h
<1>5. ASSUME NEW X \in SUBSET N, X # {}, \A x \in X : h.next[x] # nil /\ h.next[x] \in X
      PROVE  \E x \in X : label[x] = x
  <2> DEFINE Y == X \ {n}
  <2>1. CASE Y = {}
    BY <1>5, <2>1
  <2>2. CASE Y # {}
    <3>1. Y \in SUBSET N /\ \A x \in Y : m.next[x] # nil /\ m.next[x] \in Y
      BY <1>3, <1>4, <1>5
    <3>2. \E x \in Y : label[x] = x
      <4> HIDE DEF Y
      <4> QED BY <1>1, <2>2, <3>1 DEF Headed
    <3> QED BY <3>2
  <2> QED BY <2>1, <2>2
<1> QED BY <1>2, <1>5 DEF Tight, Headed, h

(* __list_add of a node on no list, which takes the label of the list.     *)
LEMMA TightInsert ==
  ASSUME NEW N, NEW nil, nil \notin N, NEW m, NEW label, NEW label2, Tight(m, N, nil, label),
         NEW new \in N, OnNone(m, new, nil),
         NEW at \in N, Live(m, at, nil), at # new,
         \A k \in N \ {new} : label2[k] = label[k], label2[new] = label[at]
  PROVE  Tight(ListInsert(m, new, m.prev[at], at), N, nil, label2)
<1> DEFINE h == ListInsert(m, new, m.prev[at], at)
<1>1. Good(m, N, nil, label) /\ Headed(m, N, nil, label)
  BY DEF Tight
<1>2. Good(m, N, nil, label2)
  BY <1>1, Relabel
<1>3. Good(h, N, nil, label2)
  BY <1>2, ListInsertLinks
<1>4. m.prev[at] \in N /\ m.next[m.prev[at]] = at /\ m.prev[at] # new /\ DOMAIN m.next = N
  BY <1>1 DEF Good, Memory, WellLinked, Isolated, OnNone, Live
<1>5. \A n \in N : h.next[n] = IF n = m.prev[at] THEN new ELSE IF n = new THEN at ELSE m.next[n]
  BY <1>1, <1>4 DEF ListInsert, Good, Memory
<1>6. \A n \in N \ {new} : m.next[n] # nil => m.next[n] # new
  BY <1>1 DEF Good, WellLinked, OnNone, Isolated
<1> HIDE DEF h
<1>7. ASSUME NEW X \in SUBSET N, X # {}, \A x \in X : h.next[x] # nil /\ h.next[x] \in X
      PROVE  \E x \in X : label2[x] = x
  <2> DEFINE Y == X \ {new}
  <2>1. Y # {}
    <3>1. new \in X => at \in Y
      BY <1>4, <1>5, <1>7
    <3> QED BY <1>7, <3>1
  <2>2. Y \in SUBSET N /\ \A x \in Y : m.next[x] # nil /\ m.next[x] \in Y
    <3> SUFFICES ASSUME NEW x \in Y
                 PROVE  m.next[x] # nil /\ m.next[x] \in Y
      OBVIOUS
    <3>1. CASE x = m.prev[at]
      <4>1. h.next[x] = new /\ new \in X
        BY <1>4, <1>5, <1>7, <3>1
      <4>2. h.next[new] = at /\ at \in X
        BY <1>4, <1>5, <1>7, <4>1
      <4> QED BY <1>4, <3>1, <4>2
    <3>2. CASE x # m.prev[at]
      BY <1>5, <1>6, <1>7, <3>2
    <3> QED BY <3>1, <3>2
  <2>3. \E x \in Y : label[x] = x
    <3> HIDE DEF Y
    <3> QED BY <1>1, <2>1, <2>2 DEF Headed
  <2> QED BY <2>3
<1> QED BY <1>3, <1>7 DEF Tight, Headed, h

(* list_del of a node that has a head: it is a list of its own then.       *)
LEMMA TightDel ==
  ASSUME NEW N, NEW nil, nil \notin N, NEW m, NEW label, NEW label2, Tight(m, N, nil, label),
         NEW entry \in N, Live(m, entry, nil), label[entry] # entry,
         \A k \in N \ {entry} : label2[k] = label[k], label2[entry] = entry
  PROVE  Tight(ListDel(m, entry), N, nil, label2)
<1> DEFINE h == ListDel(m, entry)
<1>1. Good(m, N, nil, label) /\ Headed(m, N, nil, label)
  BY DEF Tight
<1>2. Good(h, N, nil, label) /\ Isolated(h, entry)
  BY <1>1, ListDelLinks
<1>3. Good(h, N, nil, label2)
  <2>1. OnNone(h, entry, nil)
    BY <1>2 DEF OnNone
  <2> HIDE DEF h
  <2> QED BY <1>2, <2>1, Relabel
<1>4. /\ m.prev[entry] \in N /\ m.next[m.prev[entry]] = entry
      /\ m.next[entry] \in N /\ m.prev[m.next[entry]] = entry /\ m.next[entry] # nil
  BY <1>1 DEF Good, WellLinked, Live
<1>5. \A n \in N : h.next[n] = IF n = entry THEN entry
                               ELSE IF n = m.prev[entry] THEN m.next[entry] ELSE m.next[n]
  BY <1>1, <1>4 DEF ListDel, ListUnlink, InitListHead, Good, Memory
<1>6. \A n \in N : m.next[n] # nil => (m.next[n] = entry <=> n = m.prev[entry])
  BY <1>1, <1>4 DEF Good, WellLinked
<1>6a. m.next[entry] = entry => m.prev[entry] = entry
  BY <1>4
<1> HIDE DEF h
<1>7. ASSUME NEW X \in SUBSET N, X # {}, \A x \in X : h.next[x] # nil /\ h.next[x] \in X
      PROVE  \E x \in X : label2[x] = x
  <2> DEFINE Y == X \ {entry}
  <2>1. CASE Y = {}
    BY <1>7, <2>1
  <2>2. CASE Y # {} /\ m.prev[entry] \notin Y
    <3>1. Y \in SUBSET N /\ \A x \in Y : m.next[x] # nil /\ m.next[x] \in Y
      BY <1>5, <1>6, <1>7, <2>2
    <3>2. \E x \in Y : label[x] = x
      <4> HIDE DEF Y
      <4> QED BY <1>1, <2>2, <3>1 DEF Headed
    <3> QED BY <3>2
  <2>3. CASE m.prev[entry] \in Y
    <3> DEFINE Z == Y \cup {entry}
    <3>1. h.next[m.prev[entry]] = m.next[entry] /\ m.next[entry] \in Z
      BY <1>5, <1>7, <2>3
    <3>2. Z \in SUBSET N /\ Z # {}
      OBVIOUS
    <3>3. \A x \in Z : m.next[x] # nil /\ m.next[x] \in Z
      <4> SUFFICES ASSUME NEW x \in Z
                   PROVE  m.next[x] # nil /\ m.next[x] \in Z
        OBVIOUS
      <4>1. CASE x = entry
        BY <1>4, <3>1, <4>1
      <4>2. CASE x = m.prev[entry]
        BY <1>4, <4>2
      <4>3. CASE x # entry /\ x # m.prev[entry]
        BY <1>5, <1>7, <4>3
      <4> QED BY <4>1, <4>2, <4>3
    <3>4. \E x \in Z : label[x] = x
      <4> HIDE DEF Z
      <4> QED BY <1>1, <3>2, <3>3 DEF Headed
    <3> QED BY <3>4
  <2> QED BY <2>1, <2>2, <2>3
<1> QED BY <1>3, <1>7 DEF Tight, Headed, h

USE DEF NoNode, pcbFree_h, readyQueue, semdFree_h, semd_h, p_list, p_child, p_sib, s_link, s_procq

-----------------------------------------------------------------------------
(* The descriptor that has a for its key, if there is one.                 *)
SemdOf(key, a) == CHOOSE s \in Semd : key[s] = a

(* The head of the list each node is on, as ListOf tells it by the fields. *)
HomeOf(parent, semAdd, st, key) ==
  [n \in Node |->
     LET x == ContainerOf(n)
     IN  CASE n[1] = "s_link" -> IF key[x] = NULL THEN semdFree_h ELSE semd_h
           [] n[1] = "p_sib"  -> IF parent[x] = NULL THEN n ELSE p_child(parent[x])
           [] n[1] = "p_list" -> CASE st[x] = "free"    -> pcbFree_h
                                   [] st[x] = "ready"   -> readyQueue
                                   [] st[x] = "blocked" ->
                                        s_procq(SemdOf(key, semAdd[x]))
                                   [] OTHER -> n
           [] OTHER -> n]
Home == HomeOf(p_parent, p_semAdd, state, s_key)

\* The processes blocked on a semaphore and the one descriptor that has its key.
Blocked(semAdd, st, key) ==
  /\ \A s, t \in Semd : key[s] = key[t] /\ key[s] # NULL => s = t
  /\ \A p \in Pcb : st[p] = "blocked" => semAdd[p] # NULL /\ \E s \in Semd : key[s] = semAdd[p]
  /\ \A s \in Semd : key[s] # NULL => \E p \in Pcb : st[p] = "blocked" /\ semAdd[p] = key[s]

ListsInv == Tight(lists, Node, NoNode, Home) /\ Blocked(p_semAdd, state, s_key)

(* SemdOf finds a descriptor that has the key, when there is one.           *)
LEMMA SemdOfFinds ==
  ASSUME NEW key, NEW a, \E s \in Semd : key[s] = a
  PROVE  SemdOf(key, a) \in Semd /\ key[SemdOf(key, a)] = a
BY DEF SemdOf

(* Descriptors with the same keys are found for the same key.               *)
LEMMA SemdOfSame ==
  ASSUME NEW key, NEW key2, NEW a, \A s \in Semd : (key2[s] = a) <=> (key[s] = a)
  PROVE  SemdOf(key2, a) = SemdOf(key, a)
BY DEF SemdOf

(* The lists of the nodes, one kind of node after the other.               *)
LEMMA HomeAt ==
  ASSUME NEW parent, NEW semAdd, NEW st, NEW key
  PROVE  LET home == HomeOf(parent, semAdd, st, key)
         IN  /\ \A n \in Heads : home[n] = n
             /\ \A p \in Pcb :
                  /\ home[p_child(p)] = p_child(p)
                  /\ home[p_sib(p)] = IF parent[p] = NULL THEN p_sib(p) ELSE p_child(parent[p])
                  /\ st[p] = "free" => home[p_list(p)] = pcbFree_h
                  /\ st[p] = "ready" => home[p_list(p)] = readyQueue
                  /\ st[p] = "blocked" =>
                       home[p_list(p)] = s_procq(SemdOf(key, semAdd[p]))
                  /\ st[p] \in {"none", "held"} => home[p_list(p)] = p_list(p)
             /\ \A s \in Semd :
                  /\ home[s_procq(s)] = s_procq(s)
                  /\ home[s_link(s)] = IF key[s] = NULL THEN semdFree_h ELSE semd_h
<1> DEFINE home == HomeOf(parent, semAdd, st, key)
<1>1. \A n \in Heads : home[n] = n
  <2>1. /\ home[pcbFree_h] = pcbFree_h
        /\ home[readyQueue] = readyQueue
        /\ home[semdFree_h] = semdFree_h
        /\ home[semd_h] = semd_h
    BY Nodes DEF HomeOf
  <2> QED BY <2>1 DEF Heads
<1>2. ASSUME NEW p \in Pcb
      PROVE  /\ home[p_child(p)] = p_child(p)
             /\ home[p_sib(p)] = IF parent[p] = NULL THEN p_sib(p) ELSE p_child(parent[p])
             /\ st[p] = "free" => home[p_list(p)] = pcbFree_h
             /\ st[p] = "ready" => home[p_list(p)] = readyQueue
             /\ st[p] = "blocked" =>
                  home[p_list(p)] = s_procq(SemdOf(key, semAdd[p]))
             /\ st[p] \in {"none", "held"} => home[p_list(p)] = p_list(p)
  <2>1. home[p_child(p)] = p_child(p)
    BY Nodes DEF HomeOf
  <2>2. home[p_sib(p)] = IF parent[p] = NULL THEN p_sib(p) ELSE p_child(parent[p])
    BY Nodes DEF HomeOf, ContainerOf
  <2>3. st[p] = "free" => home[p_list(p)] = pcbFree_h
    BY Nodes DEF HomeOf, ContainerOf
  <2>4. st[p] = "ready" => home[p_list(p)] = readyQueue
    BY Nodes DEF HomeOf, ContainerOf
  <2>5. st[p] = "blocked" => home[p_list(p)] = s_procq(SemdOf(key, semAdd[p]))
    BY Nodes DEF HomeOf, ContainerOf
  <2>6. st[p] \in {"none", "held"} => home[p_list(p)] = p_list(p)
    BY Nodes DEF HomeOf, ContainerOf
  <2> QED BY <2>1, <2>2, <2>3, <2>4, <2>5, <2>6
<1>3. ASSUME NEW s \in Semd
      PROVE  /\ home[s_procq(s)] = s_procq(s)
             /\ home[s_link(s)] = IF key[s] = NULL THEN semdFree_h ELSE semd_h
  <2>1. home[s_procq(s)] = s_procq(s)
    BY Nodes DEF HomeOf
  <2>2. home[s_link(s)] = IF key[s] = NULL THEN semdFree_h ELSE semd_h
    BY Nodes DEF HomeOf, ContainerOf
  <2> QED BY <2>1, <2>2
<1> QED BY <1>1, <1>2, <1>3

LEMMA HomeOfSib ==
  ASSUME NEW parent, NEW semAdd, NEW st, NEW key, NEW p \in Pcb
  PROVE  HomeOf(parent, semAdd, st, key)[p_sib(p)] =
           IF parent[p] = NULL THEN p_sib(p) ELSE p_child(parent[p])
BY Nodes DEF HomeOf, ContainerOf

LEMMA HomeOfBlocked ==
  ASSUME NEW parent, NEW semAdd, NEW st, NEW key, NEW p \in Pcb, st[p] = "blocked"
  PROVE  HomeOf(parent, semAdd, st, key)[p_list(p)] =
           s_procq(SemdOf(key, semAdd[p]))
BY Nodes DEF HomeOf, ContainerOf

LEMMA HomeOfReady ==
  ASSUME NEW parent, NEW semAdd, NEW st, NEW key, NEW p \in Pcb, st[p] = "ready"
  PROVE  HomeOf(parent, semAdd, st, key)[p_list(p)] = readyQueue
BY Nodes DEF HomeOf, ContainerOf

LEMMA HomeOfUnblocked ==
  ASSUME NEW parent, NEW semAdd, NEW st, NEW key, NEW key2, NEW p \in Pcb,
         st[p] \in {"none", "free", "held", "ready"}
  PROVE  HomeOf(parent, semAdd, st, key2)[p_list(p)] = HomeOf(parent, semAdd, st, key)[p_list(p)]
BY Nodes DEF HomeOf, ContainerOf

(* Only p_list of the PCB whose state changes has another list.            *)
LEMMA HomeOfState ==
  ASSUME NEW parent, NEW key, NEW semAdd, NEW semAdd2, NEW st, NEW st2, NEW p \in Pcb,
         \A q \in Pcb \ {p} : semAdd2[q] = semAdd[q] /\ st2[q] = st[q]
  PROVE  \A k \in Node \ {p_list(p)} :
           HomeOf(parent, semAdd2, st2, key)[k] = HomeOf(parent, semAdd, st, key)[k]
BY DEF HomeOf, ContainerOf, Node, Heads, PcbNodes, SemdNodes

(* Only p_sib of the PCB whose parent changes has another list.            *)
LEMMA HomeOfParent ==
  ASSUME NEW parent, NEW parent2, NEW key, NEW semAdd, NEW st, NEW p \in Pcb,
         \A q \in Pcb \ {p} : parent2[q] = parent[q]
  PROVE  \A k \in Node \ {p_sib(p)} :
           HomeOf(parent2, semAdd, st, key)[k] = HomeOf(parent, semAdd, st, key)[k]
BY DEF HomeOf, ContainerOf, Node, Heads, PcbNodes, SemdNodes

(* No node is two nodes.                                                   *)
LEMMA NodesDiffer ==
  /\ \A p, q \in Pcb :
       /\ p_list(p) = p_list(q) => p = q
       /\ p_sib(p) = p_sib(q) => p = q
       /\ p_child(p) = p_child(q) => p = q
       /\ p_list(p) # p_child(q) /\ p_list(p) # p_sib(q) /\ p_child(p) # p_sib(q)
  /\ \A s, t \in Semd :
       /\ s_procq(s) = s_procq(t) => s = t
       /\ s_link(s) = s_link(t) => s = t
       /\ s_procq(s) # s_link(t)
  /\ \A p \in Pcb, s \in Semd :
       /\ p_list(p) # s_procq(s) /\ p_child(p) # s_procq(s) /\ p_sib(p) # s_procq(s)
       /\ p_list(p) # s_link(s) /\ p_child(p) # s_link(s) /\ p_sib(p) # s_link(s)
  /\ \A p \in Pcb : p_list(p) \notin Heads /\ p_child(p) \notin Heads /\ p_sib(p) \notin Heads
  /\ \A s \in Semd : s_procq(s) \notin Heads /\ s_link(s) \notin Heads
  /\ pcbFree_h \in Heads /\ readyQueue \in Heads /\ semdFree_h \in Heads /\ semd_h \in Heads
  /\ pcbFree_h # readyQueue /\ pcbFree_h # semdFree_h /\ pcbFree_h # semd_h
  /\ readyQueue # semdFree_h /\ readyQueue # semd_h /\ semdFree_h # semd_h
BY DEF Heads

(* Which nodes there are.                                                  *)
LEMMA NodeKinds ==
  \A n \in Node : \/ n \in Heads
                  \/ \E p \in Pcb : n = p_list(p) \/ n = p_child(p) \/ n = p_sib(p)
                  \/ \E s \in Semd : n = s_procq(s) \/ n = s_link(s)
BY DEF Node, PcbNodes, SemdNodes

HIDE DEF NoNode, pcbFree_h, readyQueue, semdFree_h, semd_h, p_list, p_child, p_sib, s_link, s_procq

(* Only s_link of the descriptor whose key changes has another list, when no *)
(* process is blocked on its old and its new key.                          *)
LEMMA HomeOfKey ==
  ASSUME NEW parent, NEW key, NEW key2, NEW semAdd, NEW s \in Semd,
         NEW st \in [Pcb -> {"none", "free", "held", "ready", "blocked"}],
         \A t \in Semd \ {s} : key2[t] = key[t],
         \A q \in Pcb : st[q] = "blocked" => semAdd[q] # key[s] /\ semAdd[q] # key2[s]
  PROVE  \A k \in Node \ {s_link(s)} :
           HomeOf(parent, semAdd, st, key2)[k] = HomeOf(parent, semAdd, st, key)[k]
<1> DEFINE home == HomeOf(parent, semAdd, st, key)
           home2 == HomeOf(parent, semAdd, st, key2)
<1>1. ASSUME NEW q \in Pcb, st[q] = "blocked"
      PROVE  SemdOf(key2, semAdd[q]) = SemdOf(key, semAdd[q])
  <2>1. \A t \in Semd : (key2[t] = semAdd[q]) <=> (key[t] = semAdd[q])
    BY <1>1
  <2> QED BY <2>1, SemdOfSame
<1>2. \A n \in Heads : home2[n] = home[n]
  BY HomeAt
<1>3. \A q \in Pcb : home2[p_child(q)] = home[p_child(q)] /\ home2[p_sib(q)] = home[p_sib(q)]
  BY HomeAt
<1>4. \A q \in Pcb : home2[p_list(q)] = home[p_list(q)]
  <2> SUFFICES ASSUME NEW q \in Pcb
               PROVE  home2[p_list(q)] = home[p_list(q)]
    OBVIOUS
  <2>1. CASE st[q] = "blocked"
    <3>1. home[p_list(q)] = s_procq(SemdOf(key, semAdd[q]))
      BY <2>1, HomeOfBlocked
    <3>2. home2[p_list(q)] = s_procq(SemdOf(key2, semAdd[q]))
      BY <2>1, HomeOfBlocked
    <3> HIDE DEF home, home2
    <3> QED BY <1>1, <2>1, <3>1, <3>2
  <2>2. CASE st[q] \in {"none", "free", "held", "ready"}
    BY <2>2, HomeOfUnblocked
  <2> QED BY <2>1, <2>2
<1>5. \A t \in Semd : home2[s_procq(t)] = home[s_procq(t)]
  BY HomeAt
<1>6. \A t \in Semd \ {s} : home2[s_link(t)] = home[s_link(t)]
  BY HomeAt
<1> HIDE DEF home, home2
<1>7. \A k \in Node \ {s_link(s)} : home2[k] = home[k]
  BY <1>2, <1>3, <1>4, <1>5, <1>6, NodeKinds
<1> QED BY <1>7 DEF home, home2

(* The nodes on the queue of a descriptor are those of the processes that  *)
(* are blocked on the semaphore it has the key of.                         *)
LEMMA OnQueue ==
  ASSUME NEW parent \in [Pcb -> Pcb \cup {NULL}], NEW semAdd, NEW key,
         NEW st \in [Pcb -> {"none", "free", "held", "ready", "blocked"}],
         Blocked(semAdd, st, key), NEW s \in Semd
  PROVE  /\ \A n \in Node \ {s_procq(s)} :
              HomeOf(parent, semAdd, st, key)[n] = s_procq(s) =>
                \E p \in Pcb : n = p_list(p) /\ st[p] = "blocked" /\ semAdd[p] = key[s]
         /\ \A p \in Pcb : st[p] = "blocked" /\ semAdd[p] = key[s] =>
              HomeOf(parent, semAdd, st, key)[p_list(p)] = s_procq(s)
<1> DEFINE home == HomeOf(parent, semAdd, st, key)
<1>1. ASSUME NEW p \in Pcb, st[p] = "blocked"
      PROVE  /\ SemdOf(key, semAdd[p]) \in Semd
             /\ key[SemdOf(key, semAdd[p])] = semAdd[p]
  <2>1. \E t \in Semd : key[t] = semAdd[p]
    BY <1>1 DEF Blocked
  <2> QED BY <2>1, SemdOfFinds
<1>2. ASSUME NEW n \in Node \ {s_procq(s)}, home[n] = s_procq(s)
      PROVE  \E p \in Pcb : n = p_list(p) /\ st[p] = "blocked" /\ semAdd[p] = key[s]
  <2>1. n \notin Heads
    BY <1>2, HomeAt, NodesDiffer
  <2>2. \A t \in Semd : n # s_procq(t) /\ n # s_link(t)
    BY <1>2, HomeAt, NodesDiffer
  <2>3. PICK p \in Pcb : n = p_list(p) \/ n = p_child(p) \/ n = p_sib(p)
    BY <2>1, <2>2, NodeKinds
  <2>4. n = p_list(p)
    <3>1. CASE n = p_child(p)
      BY <1>2, <3>1, HomeAt, NodesDiffer
    <3>2. CASE n = p_sib(p)
      <4>1. parent[p] = NULL \/ parent[p] \in Pcb
        OBVIOUS
      <4> QED BY <1>2, <3>2, <4>1, HomeAt, NodesDiffer
    <3> QED BY <2>3, <3>1, <3>2
  <2>5. st[p] = "blocked"
    <3>1. st[p] \in {"none", "free", "held", "ready", "blocked"}
      OBVIOUS
    <3> QED BY <1>2, <2>4, <3>1, HomeAt, NodesDiffer
  <2>6. s_procq(SemdOf(key, semAdd[p])) = s_procq(s)
    BY <1>2, <2>4, <2>5, HomeAt
  <2>7. SemdOf(key, semAdd[p]) = s
    <3> DEFINE c == SemdOf(key, semAdd[p])
    <3>1. s_procq(c) = s_procq(s) /\ c \in Semd
      BY <1>1, <2>5, <2>6
    <3> HIDE DEF c
    <3>2. c = s
      BY <3>1, NodesDiffer
    <3> QED BY <3>2 DEF c
  <2> QED BY <1>1, <2>4, <2>5, <2>7
<1>3. ASSUME NEW p \in Pcb, st[p] = "blocked", semAdd[p] = key[s]
      PROVE  home[p_list(p)] = s_procq(s)
  <2>1. SemdOf(key, semAdd[p]) = s
    BY <1>1, <1>3 DEF Blocked
  <2> QED BY <1>3, <2>1, HomeAt
<1> QED BY <1>2, <1>3

(* The node of a PCB joins the list of the node at.                        *)
LEMMA JoinTight ==
  ASSUME NEW m, NEW parent, NEW key, NEW semAdd, NEW semAdd2, NEW st, NEW st2, NEW p \in Pcb,
         Tight(m, Node, NoNode, HomeOf(parent, semAdd, st, key)),
         \A q \in Pcb \ {p} : semAdd2[q] = semAdd[q] /\ st2[q] = st[q],
         OnNone(m, p_list(p), NoNode), NEW at \in Node, Live(m, at, NoNode), at # p_list(p),
         HomeOf(parent, semAdd2, st2, key)[p_list(p)] = HomeOf(parent, semAdd, st, key)[at]
  PROVE  Tight(ListInsert(m, p_list(p), m.prev[at], at), Node, NoNode,
               HomeOf(parent, semAdd2, st2, key))
<1> DEFINE n == p_list(p)
           home == HomeOf(parent, semAdd, st, key)
           home2 == HomeOf(parent, semAdd2, st2, key)
<1>1. NoNode \notin Node /\ n \in Node /\ \A k \in Node \ {n} : home2[k] = home[k]
  BY Nodes, HomeOfState
<1> HIDE DEF n, home, home2, NoNode
<1> QED BY <1>1, TightInsert DEF n, home, home2

(* The node of a PCB leaves its list, for its caller.                      *)
LEMMA LeaveTight ==
  ASSUME NEW m, NEW parent, NEW key, NEW semAdd, NEW semAdd2, NEW st, NEW st2, NEW p \in Pcb,
         Tight(m, Node, NoNode, HomeOf(parent, semAdd, st, key)),
         \A q \in Pcb \ {p} : semAdd2[q] = semAdd[q] /\ st2[q] = st[q],
         Live(m, p_list(p), NoNode), st[p] \in {"free", "ready", "blocked"}, st2[p] = "held"
  PROVE  Tight(ListDel(m, p_list(p)), Node, NoNode, HomeOf(parent, semAdd2, st2, key))
<1> DEFINE n == p_list(p)
           home == HomeOf(parent, semAdd, st, key)
           home2 == HomeOf(parent, semAdd2, st2, key)
<1>1. NoNode \notin Node /\ n \in Node /\ \A k \in Node \ {n} : home2[k] = home[k]
  BY Nodes, HomeOfState
<1>2. home2[n] = n
  BY HomeAt
<1>3. home[n] # n
  <2>1. CASE st[p] = "free"
    BY <2>1, HomeAt, NodesDiffer
  <2>2. CASE st[p] = "ready"
    BY <2>2, HomeAt, NodesDiffer
  <2>3. CASE st[p] = "blocked"
    <3>1. home[n] = s_procq(SemdOf(key, semAdd[p]))
      BY <2>3, HomeAt
    <3> HIDE DEF home
    <3> QED BY <3>1 DEF p_list, s_procq
  <2> QED BY <2>1, <2>2, <2>3
<1> HIDE DEF n, home, home2, NoNode
<1> QED BY <1>1, <1>2, <1>3, TightDel DEF n, home, home2

(* The other nodes on the list of a head.                                  *)
LEMMA OnList ==
  ASSUME NEW parent \in [Pcb -> Pcb \cup {NULL}], NEW semAdd, NEW key,
         NEW st \in [Pcb -> {"none", "free", "held", "ready", "blocked"}],
         Blocked(semAdd, st, key), NEW n \in Node
  PROVE  LET home == HomeOf(parent, semAdd, st, key)
         IN  /\ n # pcbFree_h /\ home[n] = pcbFree_h => \E p \in Pcb : n = p_list(p) /\ st[p] = "free"
             /\ n # readyQueue /\ home[n] = readyQueue => \E p \in Pcb : n = p_list(p) /\ st[p] = "ready"
             /\ n # semdFree_h /\ home[n] = semdFree_h => \E s \in Semd : n = s_link(s) /\ key[s] = NULL
             /\ n # semd_h /\ home[n] = semd_h => \E s \in Semd : n = s_link(s) /\ key[s] # NULL
             /\ \A q \in Pcb : n # p_child(q) /\ home[n] = p_child(q) =>
                                 \E p \in Pcb : n = p_sib(p) /\ parent[p] = q
<1> DEFINE home == HomeOf(parent, semAdd, st, key)
<1>1. CASE n \in Heads
  <2>1. home[n] = n
    BY <1>1, HomeAt
  <2> QED BY <2>1
<1>2. ASSUME NEW p \in Pcb, n = p_list(p)
      PROVE  /\ home[n] = pcbFree_h => st[p] = "free"
             /\ home[n] = readyQueue => st[p] = "ready"
             /\ home[n] # semdFree_h /\ home[n] # semd_h /\ \A q \in Pcb : home[n] # p_child(q)
  <2>1. CASE st[p] = "blocked"
    <3>1. PICK s \in Semd : home[n] = s_procq(s)
      <4>1. \E s \in Semd : key[s] = semAdd[p]
        BY <2>1 DEF Blocked
      <4>2. SemdOf(key, semAdd[p]) \in Semd
        BY <4>1, SemdOfFinds
      <4>3. home[n] = s_procq(SemdOf(key, semAdd[p]))
        BY <1>2, <2>1, HomeOfBlocked
      <4> HIDE DEF home
      <4> QED BY <4>2, <4>3
    <3> HIDE DEF home
    <3> QED BY <3>1, NodesDiffer
  <2>2. CASE st[p] = "free"
    BY <1>2, <2>2, HomeAt, NodesDiffer
  <2>3. CASE st[p] = "ready"
    BY <1>2, <2>3, HomeAt, NodesDiffer
  <2>4. CASE st[p] \in {"none", "held"}
    BY <1>2, <2>4, HomeAt, NodesDiffer
  <2> QED BY <2>1, <2>2, <2>3, <2>4
<1>3. ASSUME NEW p \in Pcb, n = p_child(p)
      PROVE  home[n] = n /\ n \notin Heads /\ \A q \in Pcb : home[n] = p_child(q) => n = p_child(q)
  BY <1>3, HomeAt, NodesDiffer
<1>4. ASSUME NEW p \in Pcb, n = p_sib(p)
      PROVE  home[n] \notin Heads /\ \A q \in Pcb : home[n] = p_child(q) => parent[p] = q
  <2>1. parent[p] = NULL \/ (parent[p] \in Pcb /\ parent[p] # NULL)
    BY Phase1Assumption DEF Phase1Assumption
  <2>2. home[n] = IF parent[p] = NULL THEN p_sib(p) ELSE p_child(parent[p])
    BY <1>4, HomeOfSib
  <2> HIDE DEF home
  <2> QED BY <2>1, <2>2, NodesDiffer
<1>5. ASSUME NEW s \in Semd, n = s_procq(s)
      PROVE  home[n] \notin Heads /\ \A q \in Pcb : home[n] # p_child(q)
  BY <1>5, HomeAt, NodesDiffer
<1>6. ASSUME NEW s \in Semd, n = s_link(s)
      PROVE  /\ home[n] = semdFree_h => key[s] = NULL
             /\ home[n] = semd_h => key[s] # NULL
             /\ home[n] # pcbFree_h /\ home[n] # readyQueue /\ \A q \in Pcb : home[n] # p_child(q)
  BY <1>6, HomeAt, NodesDiffer
<1> DEFINE Told == /\ n # pcbFree_h /\ home[n] = pcbFree_h => \E p \in Pcb : n = p_list(p) /\ st[p] = "free"
                   /\ n # readyQueue /\ home[n] = readyQueue => \E p \in Pcb : n = p_list(p) /\ st[p] = "ready"
                   /\ n # semdFree_h /\ home[n] = semdFree_h => \E s \in Semd : n = s_link(s) /\ key[s] = NULL
                   /\ n # semd_h /\ home[n] = semd_h => \E s \in Semd : n = s_link(s) /\ key[s] # NULL
                   /\ \A q \in Pcb : n # p_child(q) /\ home[n] = p_child(q) =>
                                       \E p \in Pcb : n = p_sib(p) /\ parent[p] = q
<1> HIDE DEF home
<1>7. CASE n \notin Heads
  <2>1. ASSUME NEW p \in Pcb, n = p_list(p)
        PROVE  Told
    BY <1>2, <2>1
  <2>2. ASSUME NEW p \in Pcb, n = p_child(p)
        PROVE  Told
    BY <1>3, <2>2, NodesDiffer
  <2>3. ASSUME NEW p \in Pcb, n = p_sib(p)
        PROVE  Told
    BY <1>4, <2>3, NodesDiffer
  <2>4. ASSUME NEW s \in Semd, n = s_procq(s)
        PROVE  Told
    BY <1>5, <2>4, NodesDiffer
  <2>5. ASSUME NEW s \in Semd, n = s_link(s)
        PROVE  Told
    BY <1>6, <2>5
  <2> HIDE DEF Told
  <2>6. Told
    BY <1>7, <2>1, <2>2, <2>3, <2>4, <2>5, NodeKinds
  <2> QED BY <2>6 DEF Told, home
<1> QED BY <1>1, <1>7

(* The nodes are finitely many.                                            *)
LEMMA NodeFinite == IsFiniteSet(Node)
<1>1. IsFiniteSet({"p_list", "p_child", "p_sib"}) /\ IsFiniteSet({"s_procq", "s_link"})
  <2>1. IsFiniteSet({"p_list"}) /\ IsFiniteSet({"p_child"}) /\ IsFiniteSet({"p_sib"})
    BY FS_Singleton
  <2>2. IsFiniteSet({"p_list"} \cup {"p_child"})
    BY <2>1, FS_Union
  <2>3. IsFiniteSet(({"p_list"} \cup {"p_child"}) \cup {"p_sib"})
    BY <2>1, <2>2, FS_Union
  <2>4. ({"p_list"} \cup {"p_child"}) \cup {"p_sib"} = {"p_list", "p_child", "p_sib"}
    OBVIOUS
  <2>5. IsFiniteSet({"s_procq"} \cup {"s_link"})
    BY FS_Singleton, FS_Union
  <2>6. {"s_procq"} \cup {"s_link"} = {"s_procq", "s_link"}
    OBVIOUS
  <2>7. IsFiniteSet({"p_list", "p_child", "p_sib"})
    BY <2>3, <2>4, Zenon
  <2> QED BY <2>5, <2>6, <2>7, Zenon
<1>2. IsFiniteSet(PcbNodes) /\ IsFiniteSet(SemdNodes)
  BY <1>1, FS_Product, Phase1Assumption DEF PcbNodes, SemdNodes, Phase1Assumption
<1>3. IsFiniteSet(Heads)
  <2>1. Heads = (({pcbFree_h} \cup {readyQueue}) \cup {semdFree_h}) \cup {semd_h}
    BY DEF Heads
  <2> QED BY <2>1, FS_Singleton, FS_Union
<1> QED BY <1>2, <1>3, FS_Union DEF Node

(* The same processes are blocked, on the same semaphores.                 *)
LEMMA BlockedStays ==
  ASSUME NEW semAdd, NEW semAdd2, NEW st, NEW st2, NEW key, Blocked(semAdd, st, key),
         \A q \in Pcb : st2[q] = "blocked" <=> st[q] = "blocked",
         \A q \in Pcb : st[q] = "blocked" => semAdd2[q] = semAdd[q]
  PROVE  Blocked(semAdd2, st2, key)
BY DEF Blocked

(* list_for_each finds on the list of a head what the fields put there.    *)
LEMMA Finds ==
  ASSUME ListsInv, NEW h \in Node, Live(lists, h, NoNode), Home[h] = h
  PROVE  Range(ListForEach(lists, h)) = {n \in Node \ {h} : Live(lists, n, NoNode) /\ Home[n] = h}
<1> HIDE DEF Home
<1>1. NoNode \notin Node /\ Tight(lists, Node, NoNode, Home)
  BY Nodes DEF ListsInv
<1> QED BY <1>1, NodeFinite, ListForEachFinds

(* Before main, no node is on a list. *)
LEMMA InitLists == Init => ListsInv
<1> SUFFICES ASSUME Init
             PROVE  ListsInv
  OBVIOUS
<1> DEFINE zero == [n \in Node |-> NoNode]
           m == [next |-> zero, prev |-> zero]
<1>1. Tight(m, Node, NoNode, Home)
  BY DEF Tight, Headed, Good, Memory, WellLinked, SameLabel
<1>2. lists = InitListHead(m, pcbFree_h) /\ OnNone(m, pcbFree_h, NoNode)
  BY Nodes DEF Init, OnNone
<1>3. NoNode \notin Node /\ pcbFree_h \in Node /\ Home[pcbFree_h] = pcbFree_h
  BY Nodes, HomeAt, NodesDiffer DEF Home
<1>4. Tight(lists, Node, NoNode, Home)
  <2> HIDE DEF m, Home
  <2> QED BY <1>1, <1>2, <1>3, TightInit
<1>5. Blocked(p_semAdd, state, s_key)
  BY DEF Init, Blocked
<1> QED BY <1>4, <1>5 DEF ListsInv

(* initPcbs. *)
LEMMA InitPcbLists ==
  ASSUME IInv, ListsInv, NEW p \in Pcb, InitPcb(p)
  PROVE  ListsInv'
<1> DEFINE n == p_list(p)
           m == InitListHead(lists, n)
<1>1. /\ NoNode \notin Node /\ n \in Node /\ pcbFree_h \in Node /\ n # pcbFree_h
      /\ ~Live(lists, n, NoNode) /\ Live(lists, pcbFree_h, NoNode) /\ state[p] = "none"
  BY Nodes, NodesDiffer DEF IInv, Shape, PcbPlaced, PcbAt, Booted, InitPcb
<1>2. Home[n] = n /\ Home[pcbFree_h] = pcbFree_h /\ OnNone(lists, n, NoNode)
  BY <1>1, HomeAt, NodesDiffer DEF Home, OnNone, Live
<1>3. Good(lists, Node, NoNode, Home) /\ Tight(lists, Node, NoNode, Home)
  BY DEF ListsInv, Tight
<1>4. /\ Tight(m, Node, NoNode, Home) /\ Isolated(m, n)
      /\ Keeps(lists, m, Node, NoNode, {n})
  <2> HIDE DEF n, Home
  <2> QED BY <1>1, <1>2, <1>3, TightInit, InitListHeadLinks
<1>5. OnNone(m, n, NoNode) /\ Live(m, pcbFree_h, NoNode)
  BY <1>1, <1>4 DEF OnNone, Keeps
<1>6. /\ state' = [state EXCEPT ![p] = "free"]
      /\ lists' = ListInsert(m, n, m.prev[pcbFree_h], pcbFree_h)
      /\ UNCHANGED <<p_parent, p_semAdd, s_key>>
  BY DEF InitPcb, ListAddTail
<1>7. /\ \A q \in Pcb \ {p} : p_semAdd'[q] = p_semAdd[q] /\ state'[q] = state[q]
      /\ state'[p] = "free"
  BY <1>6 DEF IInv, FieldTypes
<1>8. HomeOf(p_parent, p_semAdd', state', s_key)[n] = pcbFree_h
  BY <1>7, HomeAt
<1>9. Tight(lists', Node, NoNode, HomeOf(p_parent, p_semAdd', state', s_key))
  <2>1. Tight(m, Node, NoNode, HomeOf(p_parent, p_semAdd, state, s_key))
    BY <1>4 DEF Home
  <2>2. HomeOf(p_parent, p_semAdd', state', s_key)[n] = HomeOf(p_parent, p_semAdd, state, s_key)[pcbFree_h]
    BY <1>2, <1>8 DEF Home
  <2>3. Tight(ListInsert(m, n, m.prev[pcbFree_h], pcbFree_h), Node, NoNode,
              HomeOf(p_parent, p_semAdd', state', s_key))
    <3> HIDE DEF m
    <3> QED BY <1>1, <1>5, <1>7, <2>1, <2>2, JoinTight
  <2> QED BY <1>6, <2>3
<1>10. Blocked(p_semAdd', state', s_key)
  BY <1>1, <1>7, BlockedStays DEF ListsInv
<1> QED BY <1>6, <1>9, <1>10 DEF ListsInv, Home

(* initASL, and mkEmptyProcQ. *)
LEMMA InitHeadsLists ==
  ASSUME IInv, ListsInv, InitASLHeads \/ MkEmptyProcQ
  PROVE  ListsInv'
<1> DEFINE m == InitListHead(lists, semdFree_h)
<1>1. /\ NoNode \notin Node /\ semdFree_h \in Node /\ semd_h \in Node /\ readyQueue \in Node
      /\ semd_h # semdFree_h
      /\ Home[semdFree_h] = semdFree_h /\ Home[semd_h] = semd_h /\ Home[readyQueue] = readyQueue
  BY Nodes, NodesDiffer, HomeAt DEF Home
<1>2. Good(lists, Node, NoNode, Home) /\ Tight(lists, Node, NoNode, Home)
  BY DEF ListsInv, Tight
<1>3. CASE InitASLHeads
  <2>1. OnNone(lists, semdFree_h, NoNode) /\ OnNone(lists, semd_h, NoNode)
    BY <1>3 DEF IInv, Shape, Booted, InitASLHeads, Initialised, OnNone, Live
  <2>2. Tight(m, Node, NoNode, Home) /\ Keeps(lists, m, Node, NoNode, {semdFree_h})
    <3> HIDE DEF Home
    <3> QED BY <1>1, <1>2, <2>1, TightInit, InitListHeadLinks
  <2>3. OnNone(m, semd_h, NoNode)
    <3> HIDE DEF m
    <3> QED BY <1>1, <2>1, <2>2 DEF Keeps, OnNone, Live
  <2>4. Tight(InitListHead(m, semd_h), Node, NoNode, Home)
    <3> HIDE DEF m, Home
    <3> QED BY <1>1, <2>2, <2>3, TightInit
  <2> QED BY <1>3, <2>4 DEF ListsInv, Home, InitASLHeads
<1>4. CASE MkEmptyProcQ
  <2>1. OnNone(lists, readyQueue, NoNode)
    BY <1>4 DEF MkEmptyProcQ, Initialised, OnNone
  <2>2. Tight(InitListHead(lists, readyQueue), Node, NoNode, Home)
    <3> HIDE DEF Home
    <3> QED BY <1>1, <1>2, <2>1, TightInit
  <2> QED BY <1>4, <2>2 DEF ListsInv, Home, MkEmptyProcQ
<1> QED BY <1>3, <1>4

(* An iteration of initASL. *)
LEMMA InitSemdLists ==
  ASSUME IInv, ListsInv, NEW s \in Semd, InitSemd(s)
  PROVE  ListsInv'
<1> DEFINE n == s_link(s)
           procq == s_procq(s)
           m == InitListHead(lists, procq)
<1>1. /\ NoNode \notin Node /\ n \in Node /\ procq \in Node /\ semdFree_h \in Node
      /\ n # semdFree_h /\ n # procq /\ procq # semdFree_h
  BY Nodes, NodesDiffer
<1>2. /\ OnNone(lists, n, NoNode) /\ OnNone(lists, procq, NoNode)
      /\ Live(lists, semdFree_h, NoNode) /\ ~Live(lists, readyQueue, NoNode)
  BY DEF IInv, Shape, Booted, InitSemd, Initialised, OnNone, Live
<1>3. s_key[s] = NULL /\ s_key' = s_key /\ UNCHANGED <<p_parent, p_semAdd, state>>
  <2>1. \A p \in Pcb : state[p] # "blocked"
    BY <1>2 DEF IInv, Shape, PcbPlaced, PcbAt
  <2>2. s_key[s] = NULL
    BY <2>1 DEF ListsInv, Blocked
  <2> QED BY <2>2 DEF InitSemd, IInv, FieldTypes
<1>4. Home[procq] = procq /\ Home[n] = semdFree_h /\ Home[semdFree_h] = semdFree_h
  BY <1>3, HomeAt, NodesDiffer DEF Home
<1>5. Good(lists, Node, NoNode, Home) /\ Tight(lists, Node, NoNode, Home)
  BY DEF ListsInv, Tight
<1>6. Tight(m, Node, NoNode, Home) /\ Keeps(lists, m, Node, NoNode, {procq})
  <2> HIDE DEF Home, procq
  <2> QED BY <1>1, <1>2, <1>4, <1>5, TightInit, InitListHeadLinks
<1>7. OnNone(m, n, NoNode) /\ Live(m, semdFree_h, NoNode)
  <2> HIDE DEF m
  <2> QED BY <1>1, <1>2, <1>6 DEF Keeps, OnNone, Live
<1>8. Tight(ListInsert(m, n, m.prev[semdFree_h], semdFree_h), Node, NoNode, Home)
  <2> HIDE DEF Home, n, m
  <2> QED BY <1>1, <1>4, <1>6, <1>7, TightInsert
<1>9. lists' = ListInsert(m, n, m.prev[semdFree_h], semdFree_h)
  BY DEF InitSemd, ListAddTail
<1> QED BY <1>3, <1>8, <1>9 DEF ListsInv, Home

(* allocPcb: list_del, then one INIT_LIST_HEAD after the other.             *)
LEMMA AllocPcbSteps ==
  ASSUME IInv, ListsInv, NEW prio \in Prio, AllocPcb(prio)
  PROVE  \E p \in Pcb :
           LET d  == ListDel(lists, p_list(p))
               d2 == InitListHead(d, p_child(p))
               home2 == HomeOf(p_parent, p_semAdd', state', s_key)
           IN  /\ lists.next[pcbFree_h] = p_list(p) /\ state[p] = "free" /\ p_parent[p] = NULL
               /\ lists' = InitListHead(d2, p_sib(p))
               /\ p_parent' = p_parent /\ s_key' = s_key
               /\ \A q \in Pcb \ {p} : p_semAdd'[q] = p_semAdd[q] /\ state'[q] = state[q]
               /\ state'[p] = "held"
               /\ p_prio' = [p_prio EXCEPT ![p] = prio]
               /\ Live(lists, p_list(p), NoNode) /\ Home[p_list(p)] = pcbFree_h
               /\ Tight(d, Node, NoNode, home2) /\ OnNone(d, p_child(p), NoNode)
               /\ Tight(d2, Node, NoNode, home2) /\ OnNone(d2, p_sib(p), NoNode)
               /\ home2[p_child(p)] = p_child(p) /\ home2[p_sib(p)] = p_sib(p)
               /\ Tight(lists', Node, NoNode, home2)
<1> DEFINE first == lists.next[pcbFree_h]
<1>1. /\ NoNode \notin Node /\ pcbFree_h \in Node /\ Live(lists, pcbFree_h, NoNode)
      /\ Home[pcbFree_h] = pcbFree_h /\ ~ListEmpty(lists, pcbFree_h)
  BY Nodes, NodesDiffer, HomeAt DEF IInv, Shape, Booted, Home, AllocPcb
<1>2. Good(lists, Node, NoNode, Home) /\ Tight(lists, Node, NoNode, Home)
  BY DEF ListsInv, Tight
<1>3. first \in Node /\ first # pcbFree_h /\ Home[first] = pcbFree_h
  <2> HIDE DEF Home
  <2> QED BY <1>1, <1>2, FirstOfList
<1>4. PICK p \in Pcb : first = p_list(p) /\ state[p] = "free"
  BY <1>3, OnList DEF IInv, FieldTypes, ListsInv, Home
<1> DEFINE n == p_list(p)
           d == ListDel(lists, n)
           d2 == InitListHead(d, p_child(p))
           home2 == HomeOf(p_parent, p_semAdd', state', s_key)
<1>5. /\ p_parent[p] = NULL /\ Live(lists, n, NoNode)
      /\ OnNone(lists, p_child(p), NoNode) /\ OnNone(lists, p_sib(p), NoNode)
  BY <1>4 DEF IInv, Shape, PcbPlaced, PcbAt
<1>6. /\ n \in Node /\ p_child(p) \in Node /\ p_sib(p) \in Node
      /\ n # p_child(p) /\ n # p_sib(p) /\ p_child(p) # p_sib(p)
  BY Nodes, NodesDiffer
<1>7. /\ lists' = InitListHead(InitListHead(InitListHead(d, n), p_child(p)), p_sib(p))
      /\ p_parent' = [p_parent EXCEPT ![p] = NULL]
      /\ p_semAdd' = [p_semAdd EXCEPT ![p] = NULL]
      /\ state' = [state EXCEPT ![p] = "held"]
      /\ s_key' = s_key
      /\ p_prio' = [p_prio EXCEPT ![p] = prio]
  <2>1. ContainerOf(first) = p
    BY <1>4 DEF ContainerOf, p_list
  <2> QED BY <1>4, <2>1 DEF AllocPcb, FreshLinks
<1>8. /\ \A q \in Pcb \ {p} : p_semAdd'[q] = p_semAdd[q] /\ state'[q] = state[q]
      /\ state'[p] = "held" /\ p_parent' = p_parent
  BY <1>5, <1>7 DEF IInv, FieldTypes
<1>9. /\ Tight(d, Node, NoNode, home2) /\ Isolated(d, n)
      /\ Keeps(lists, d, Node, NoNode, {})
  <2>1. Isolated(d, n) /\ Keeps(lists, d, Node, NoNode, {})
    <3> HIDE DEF n, Home
    <3> QED BY <1>1, <1>2, <1>5, <1>6, ListDelLinks
  <2>2. Tight(d, Node, NoNode, home2)
    BY <1>2, <1>4, <1>5, <1>8, LeaveTight DEF Home
  <2> QED BY <2>1, <2>2
<1>10. InitListHead(d, n) = d
  <2> HIDE DEF d, n, home2
  <2> QED BY <1>6, <1>9, InitIsolated DEF Tight, Good
<1>11. OnNone(d, p_child(p), NoNode) /\ OnNone(d, p_sib(p), NoNode)
  <2> HIDE DEF d
  <2> QED BY <1>5, <1>6, <1>9 DEF Keeps, OnNone, Live
<1>12. home2[p_child(p)] = p_child(p) /\ home2[p_sib(p)] = p_sib(p)
  BY <1>5, HomeAt
<1>13. Tight(d2, Node, NoNode, home2) /\ Keeps(d, d2, Node, NoNode, {p_child(p)})
  <2> HIDE DEF d, home2
  <2> QED BY <1>1, <1>6, <1>9, <1>11, <1>12, TightInit, InitListHeadLinks DEF Tight
<1>14. OnNone(d2, p_sib(p), NoNode)
  <2> HIDE DEF d, d2
  <2> QED BY <1>6, <1>11, <1>13 DEF Keeps, OnNone, Live
<1>15. lists' = InitListHead(d2, p_sib(p))
  <2> HIDE DEF d2
  <2> QED BY <1>7, <1>10 DEF d2
<1>16. Tight(lists', Node, NoNode, home2)
  <2> HIDE DEF d2, home2
  <2> QED BY <1>1, <1>6, <1>12, <1>13, <1>14, <1>15, TightInit
<1>17. Home[n] = pcbFree_h
  BY <1>3, <1>4
<1> HIDE DEF Home
<1> QED BY <1>4, <1>5, <1>7, <1>8, <1>9, <1>11, <1>12, <1>13, <1>14, <1>15, <1>16, <1>17

(* allocPcb. *)
LEMMA AllocPcbLists ==
  ASSUME IInv, ListsInv, NEW prio \in Prio, AllocPcb(prio)
  PROVE  ListsInv'
<1>1. PICK p \in Pcb : /\ state[p] = "free" /\ p_parent' = p_parent /\ s_key' = s_key
                       /\ \A q \in Pcb \ {p} : p_semAdd'[q] = p_semAdd[q] /\ state'[q] = state[q]
                       /\ state'[p] = "held"
                       /\ Tight(lists', Node, NoNode, HomeOf(p_parent, p_semAdd', state', s_key))
  BY AllocPcbSteps
<1>2. Blocked(p_semAdd', state', s_key)
  BY <1>1, BlockedStays DEF ListsInv
<1> QED BY <1>1, <1>2 DEF ListsInv, Home

(* freePcb, and insertProcQ. *)
LEMMA JoinLists ==
  ASSUME IInv, ListsInv, NEW p \in Pcb, FreePcb(p) \/ InsertProcQAhead(p) \/ InsertProcQLast(p)
  PROVE  ListsInv'
<1>1. /\ NoNode \notin Node /\ p_list(p) \in Node /\ pcbFree_h \in Node /\ readyQueue \in Node
      /\ state[p] = "held" /\ OnNone(lists, p_list(p), NoNode)
      /\ Live(lists, pcbFree_h, NoNode) /\ Live(lists, readyQueue, NoNode)
      /\ Home[pcbFree_h] = pcbFree_h /\ Home[readyQueue] = readyQueue
  BY Nodes, NodesDiffer, HomeAt
     DEF IInv, Shape, Booted, PcbPlaced, PcbAt, FreePcb, InsertProcQAhead, InsertProcQLast, Held,
         OnNone, Home
<1>2. /\ UNCHANGED <<p_parent, p_semAdd, s_key>> /\ state'[p] # "blocked"
      /\ \A q \in Pcb \ {p} : p_semAdd'[q] = p_semAdd[q] /\ state'[q] = state[q]
  BY DEF FreePcb, InsertProcQAhead, InsertProcQLast, Queue, IInv, FieldTypes
<1>3. \E at \in Node : /\ Live(lists, at, NoNode) /\ at # p_list(p)
                       /\ lists' = ListInsert(lists, p_list(p), lists.prev[at], at)
                       /\ HomeOf(p_parent, p_semAdd', state', s_key)[p_list(p)] = Home[at]
  <2>1. CASE FreePcb(p)
    <3>1. state'[p] = "free" /\ lists' = ListInsert(lists, p_list(p), lists.prev[pcbFree_h], pcbFree_h)
      BY <2>1 DEF FreePcb, ListAddTail, IInv, FieldTypes
    <3> QED BY <1>1, <3>1, HomeAt, NodesDiffer
  <2>2. CASE InsertProcQAhead(p)
    <3>1. PICK q \in Pcb : /\ state[q] = "ready"
                           /\ lists' = ListInsert(lists, p_list(p), lists.prev[p_list(q)], p_list(q))
      BY <2>2 DEF InsertProcQAhead
    <3>2. state'[p] = "ready"
      BY <2>2 DEF InsertProcQAhead, Queue, IInv, FieldTypes
    <3>3. Live(lists, p_list(q), NoNode) /\ p_list(q) \in Node /\ p_list(q) # p_list(p)
      BY <1>1, <3>1, Nodes, NodesDiffer DEF IInv, Shape, PcbPlaced, PcbAt
    <3>4. Home[p_list(q)] = readyQueue
      BY <3>1, HomeOfReady DEF Home
    <3>5. HomeOf(p_parent, p_semAdd', state', s_key)[p_list(p)] = readyQueue
      BY <3>2, HomeOfReady
    <3> QED BY <3>1, <3>3, <3>4, <3>5
  <2>3. CASE InsertProcQLast(p)
    <3>1. state'[p] = "ready" /\ lists' = ListInsert(lists, p_list(p), lists.prev[readyQueue], readyQueue)
      BY <2>3 DEF InsertProcQLast, Queue, ListAddTail, IInv, FieldTypes
    <3> QED BY <1>1, <3>1, HomeAt, NodesDiffer
  <2> QED BY <2>1, <2>2, <2>3
<1>4. Tight(lists', Node, NoNode, HomeOf(p_parent, p_semAdd', state', s_key))
  BY <1>1, <1>2, <1>3, JoinTight DEF ListsInv, Home
<1>5. Blocked(p_semAdd', state', s_key)
  BY <1>1, <1>2, BlockedStays DEF ListsInv
<1> QED BY <1>2, <1>4, <1>5 DEF ListsInv, Home

(* A PCB leaves the ready queue. *)
LEMMA LeaveReadyLists ==
  ASSUME IInv, ListsInv, NEW p \in Pcb, state[p] = "ready", lists' = ListDel(lists, p_list(p)),
         state' = [state EXCEPT ![p] = "held"], UNCHANGED <<p_parent, p_semAdd, s_key>>
  PROVE  ListsInv'
<1>1. /\ state'[p] = "held" /\ Live(lists, p_list(p), NoNode)
      /\ \A q \in Pcb \ {p} : p_semAdd'[q] = p_semAdd[q] /\ state'[q] = state[q]
  BY DEF IInv, FieldTypes, Shape, PcbPlaced, PcbAt
<1>2. Tight(lists', Node, NoNode, HomeOf(p_parent, p_semAdd', state', s_key))
  <2>1. Tight(lists, Node, NoNode, HomeOf(p_parent, p_semAdd, state, s_key))
    BY DEF ListsInv, Home
  <2>2. state[p] \in {"free", "ready", "blocked"}
    OBVIOUS
  <2> QED BY <1>1, <2>1, <2>2, LeaveTight
<1>3. Blocked(p_semAdd', state', s_key)
  <2>1. \A q \in Pcb : state'[q] = "blocked" <=> state[q] = "blocked"
    BY <1>1
  <2>2. \A q \in Pcb : state[q] = "blocked" => p_semAdd'[q] = p_semAdd[q]
    BY <1>1
  <2> QED BY <2>1, <2>2, BlockedStays DEF ListsInv
<1> QED BY <1>2, <1>3 DEF ListsInv, Home

(* list_del has made the entry a list of its own already. *)
LEMMA DelInit ==
  ASSUME NEW N, NEW nil, nil \notin N, NEW m, NEW label, Good(m, N, nil, label),
         NEW entry \in N, Live(m, entry, nil)
  PROVE  InitListHead(ListDel(m, entry), entry) = ListDel(m, entry)
<1>1. Good(ListDel(m, entry), N, nil, label) /\ Isolated(ListDel(m, entry), entry)
  BY ListDelLinks
<1> QED BY <1>1, InitIsolated DEF Good

(* removeProcQ takes a ready process. *)
LEMMA RemoveProcQTakes ==
  ASSUME IInv, ListsInv, RemoveProcQ
  PROVE  \E p \in Pcb : /\ lists.next[readyQueue] = p_list(p) /\ state[p] = "ready"
                        /\ lists' = ListDel(lists, p_list(p))
                        /\ state' = [state EXCEPT ![p] = "held"]
<1> DEFINE first == lists.next[readyQueue]
<1>1. /\ NoNode \notin Node /\ readyQueue \in Node /\ Live(lists, readyQueue, NoNode)
      /\ Home[readyQueue] = readyQueue /\ ~ListEmpty(lists, readyQueue)
  BY Nodes, NodesDiffer, HomeAt DEF Home, RemoveProcQ, Initialised, Live
<1>2. Good(lists, Node, NoNode, Home)
  BY DEF ListsInv, Tight
<1>3. first \in Node /\ first # readyQueue /\ Live(lists, first, NoNode) /\ Home[first] = readyQueue
  <2> HIDE DEF Home
  <2> QED BY <1>1, <1>2, FirstOfList
<1>4. PICK p \in Pcb : first = p_list(p) /\ state[p] = "ready"
  BY <1>3, OnList DEF IInv, FieldTypes, ListsInv, Home
<1>5. lists' = ListDel(lists, first)
  <2> HIDE DEF Home
  <2> QED BY <1>1, <1>2, <1>3, DelInit DEF RemoveProcQ
<1>6. state' = [state EXCEPT ![p] = "held"]
  BY <1>4 DEF RemoveProcQ, ContainerOf, p_list
<1> QED BY <1>4, <1>5, <1>6

LEMMA RemoveProcQLists ==
  ASSUME IInv, ListsInv, RemoveProcQ
  PROVE  ListsInv'
BY RemoveProcQTakes, LeaveReadyLists DEF RemoveProcQ

(* outProcQ finds p on the ready queue: it is ready. *)
LEMMA OutProcQReady ==
  ASSUME IInv, ListsInv, NEW p \in Pcb, OutProcQ(p)
  PROVE  state[p] = "ready"
<1>1. /\ readyQueue \in Node /\ p_list(p) # readyQueue /\ Live(lists, readyQueue, NoNode)
      /\ Home[readyQueue] = readyQueue
  BY Nodes, NodesDiffer, HomeAt DEF IInv, Shape, PcbPlaced, PcbAt, OutProcQ, Allocated, Home
<1>2. p_list(p) \in Node /\ Home[p_list(p)] = readyQueue
  BY <1>1, Finds DEF OutProcQ
<1>3. PICK q \in Pcb : p_list(p) = p_list(q) /\ state[q] = "ready"
  BY <1>1, <1>2, OnList DEF IInv, FieldTypes, ListsInv, Home
<1> QED BY <1>3, NodesDiffer

LEMMA OutProcQLists ==
  ASSUME IInv, ListsInv, NEW p \in Pcb, OutProcQ(p)
  PROVE  ListsInv'
BY OutProcQReady, LeaveReadyLists DEF OutProcQ

(* insertChild. *)
LEMMA InsertChildLists ==
  ASSUME IInv, ListsInv, NEW prnt \in Pcb, NEW p \in Pcb, InsertChild(prnt, p)
  PROVE  ListsInv'
<1> DEFINE n == p_sib(p)
           at == p_child(prnt)
           home2 == HomeOf(p_parent', p_semAdd, state, s_key)
<1>1. /\ NoNode \notin Node /\ n \in Node /\ at \in Node /\ n # at
      /\ OnNone(lists, n, NoNode) /\ Live(lists, at, NoNode)
  BY Nodes, NodesDiffer DEF IInv, Shape, PcbPlaced, PcbAt, InsertChild, Allocated, Held
<1>2. p_parent'[p] = prnt /\ prnt # NULL /\ \A q \in Pcb \ {p} : p_parent'[q] = p_parent[q]
  BY Phase1Assumption DEF IInv, FieldTypes, InsertChild, Phase1Assumption
<1>3. home2[n] = at /\ Home[at] = at /\ \A k \in Node \ {n} : home2[k] = Home[k]
  <2>1. home2[n] = at
    BY <1>2, HomeOfSib
  <2>2. Home[at] = at
    BY HomeAt DEF Home
  <2>3. \A k \in Node \ {n} : home2[k] = Home[k]
    BY <1>2, HomeOfParent DEF Home
  <2> QED BY <2>1, <2>2, <2>3
<1>4. Tight(ListInsert(lists, n, lists.prev[at], at), Node, NoNode, home2)
  <2> HIDE DEF n, at, home2, Home
  <2> QED BY <1>1, <1>3, TightInsert DEF ListsInv
<1> QED BY <1>4 DEF InsertChild, ListAddTail, ListsInv, Home

(* A process leaves the children of its parent. *)
LEMMA LeaveParentLists ==
  ASSUME IInv, ListsInv, NEW p \in Pcb, p_parent[p] # NULL,
         lists' = InitListHead(ListDel(lists, p_sib(p)), p_sib(p)),
         p_parent' = [p_parent EXCEPT ![p] = NULL], UNCHANGED <<p_semAdd, state, s_key>>
  PROVE  ListsInv'
<1> DEFINE n == p_sib(p)
           home2 == HomeOf(p_parent', p_semAdd, state, s_key)
<1>1. NoNode \notin Node /\ n \in Node /\ Live(lists, n, NoNode)
  BY Nodes DEF IInv, FieldTypes, Shape, PcbPlaced, PcbAt
<1>2. p_parent[p] \in Pcb /\ p_parent'[p] = NULL /\ \A q \in Pcb \ {p} : p_parent'[q] = p_parent[q]
  BY DEF IInv, FieldTypes
<1>3. Home[n] # n
  BY <1>2, HomeAt, NodesDiffer DEF Home
<1>4. home2[n] = n /\ \A k \in Node \ {n} : home2[k] = Home[k]
  <2>1. ASSUME NEW parent2, parent2[p] = NULL, \A q \in Pcb \ {p} : parent2[q] = p_parent[q]
        PROVE  LET home == HomeOf(parent2, p_semAdd, state, s_key)
               IN  home[n] = n /\ \A k \in Node \ {n} : home[k] = Home[k]
    <3>1. HomeOf(parent2, p_semAdd, state, s_key)[n] = n
      BY <2>1, HomeAt
    <3>2. \A k \in Node \ {n} : HomeOf(parent2, p_semAdd, state, s_key)[k] = Home[k]
      BY <2>1, HomeOfParent DEF Home
    <3> QED BY <3>1, <3>2
  <2> QED BY <1>2, <2>1
<1>5. Tight(ListDel(lists, n), Node, NoNode, home2)
  <2> HIDE DEF n, home2, Home
  <2> QED BY <1>1, <1>3, <1>4, TightDel DEF ListsInv
<1>6. lists' = ListDel(lists, n)
  <2> HIDE DEF n, Home
  <2> QED BY <1>1, DelInit DEF ListsInv, Tight, n
<1> QED BY <1>5, <1>6 DEF ListsInv, Home

(* removeChild takes a child of its PCB off. *)
LEMMA RemoveChildTakes ==
  ASSUME IInv, ListsInv, NEW p \in Pcb, RemoveChild(p)
  PROVE  \E c \in Pcb : /\ lists.next[p_child(p)] = p_sib(c) /\ p_parent[c] = p
                        /\ p_parent[c] # NULL /\ ContainerOf(p_sib(c)) = c
<1> DEFINE first == lists.next[p_child(p)]
<1>1. /\ NoNode \notin Node /\ p_child(p) \in Node /\ Live(lists, p_child(p), NoNode)
      /\ Home[p_child(p)] = p_child(p) /\ ~ListEmpty(lists, p_child(p))
  BY Nodes, HomeAt DEF RemoveChild, Allocated, IInv, Shape, PcbPlaced, PcbAt, Home
<1>2. first \in Node /\ first # p_child(p) /\ Home[first] = p_child(p)
  <2> HIDE DEF Home
  <2> QED BY <1>1, FirstOfList DEF ListsInv, Tight
<1>3. PICK c \in Pcb : first = p_sib(c) /\ p_parent[c] = p
  BY <1>2, OnList DEF IInv, FieldTypes, ListsInv, Home
<1>4. p_parent[c] # NULL /\ ContainerOf(first) = c
  BY <1>3, Phase1Assumption DEF Phase1Assumption, ContainerOf, p_sib
<1> QED BY <1>3, <1>4

LEMMA RemoveChildLists ==
  ASSUME IInv, ListsInv, NEW p \in Pcb, RemoveChild(p)
  PROVE  ListsInv'
BY RemoveChildTakes, LeaveParentLists DEF RemoveChild

-----------------------------------------------------------------------------
(* insertBlocked on an active semaphore. *)
LEMMA InsertBlockedActiveLists ==
  ASSUME IInv, ListsInv, NEW sem \in Sem, NEW p \in Pcb, InsertBlockedActive(sem, p)
  PROVE  ListsInv'
<1>1. PICK s \in Semd : /\ s_key[s] = sem
                        /\ lists' = ListInsert(lists, p_list(p), lists.prev[s_procq(s)], s_procq(s))
  BY DEF InsertBlockedActive, Found, ListAddTail
<1>2. /\ NoNode \notin Node /\ s_procq(s) \in Node /\ Live(lists, s_procq(s), NoNode)
      /\ s_procq(s) # p_list(p) /\ state[p] = "held" /\ OnNone(lists, p_list(p), NoNode)
  <2>1. state[p] = "held" /\ Live(lists, readyQueue, NoNode) /\ OnNone(lists, p_list(p), NoNode)
    BY DEF IInv, Shape, PcbPlaced, PcbAt, InsertBlockedActive, Held, OnNone
  <2> QED BY <2>1, Running, Nodes, NodesDiffer DEF IInv, FieldTypes
<1>3. /\ UNCHANGED <<p_parent, s_key>> /\ state'[p] = "blocked" /\ p_semAdd'[p] = sem /\ sem # NULL
      /\ \A q \in Pcb \ {p} : p_semAdd'[q] = p_semAdd[q] /\ state'[q] = state[q]
  BY Phase1Assumption DEF InsertBlockedActive, Block, pcbVars, IInv, FieldTypes, Phase1Assumption
<1>4. Blocked(p_semAdd', state', s_key)
  BY <1>1, <1>2, <1>3 DEF ListsInv, Blocked
<1>5. /\ HomeOf(p_parent, p_semAdd', state', s_key)[p_list(p)] = s_procq(s)
      /\ Home[s_procq(s)] = s_procq(s)
  <2>1. SemdOf(s_key, sem) = s
    <3>1. SemdOf(s_key, sem) \in Semd /\ s_key[SemdOf(s_key, sem)] = sem
      BY <1>1, SemdOfFinds
    <3> QED BY <1>1, <1>3, <3>1 DEF ListsInv, Blocked
  <2>2. HomeOf(p_parent, p_semAdd', state', s_key)[p_list(p)] = s_procq(s)
    BY <1>3, <2>1, HomeOfBlocked
  <2>3. Home[s_procq(s)] = s_procq(s)
    BY HomeAt DEF Home
  <2> QED BY <2>2, <2>3
<1>6. Tight(lists', Node, NoNode, HomeOf(p_parent, p_semAdd', state', s_key))
  <2> DEFINE at == s_procq(s)
  <2>1. Tight(lists, Node, NoNode, HomeOf(p_parent, p_semAdd, state, s_key))
    BY DEF ListsInv, Home
  <2>2. HomeOf(p_parent, p_semAdd', state', s_key)[p_list(p)] =
          HomeOf(p_parent, p_semAdd, state, s_key)[at]
    BY <1>5 DEF Home
  <2>3. at \in Node /\ Live(lists, at, NoNode) /\ at # p_list(p) /\ OnNone(lists, p_list(p), NoNode)
    BY <1>2
  <2>4. lists' = ListInsert(lists, p_list(p), lists.prev[at], at)
    BY <1>1
  <2> HIDE DEF at
  <2> QED BY <1>3, <2>1, <2>2, <2>3, <2>4, JoinTight
<1> QED BY <1>3, <1>4, <1>6 DEF ListsInv, Home

(* list_for_each_entry finds the descriptor that has the key, if one has.  *)
LEMMA NotFound ==
  ASSUME IInv, ListsInv, Live(lists, readyQueue, NoNode), NEW sem \in Sem, Found(sem) = {}
  PROVE  \A t \in Semd : s_key[t] # sem
<1> SUFFICES ASSUME NEW t \in Semd, s_key[t] = sem
             PROVE  FALSE
  OBVIOUS
<1>1. sem # NULL
  BY Phase1Assumption DEF Phase1Assumption
<1>2. /\ semd_h \in Node /\ Live(lists, semd_h, NoNode) /\ Home[semd_h] = semd_h
      /\ Home[s_link(t)] = semd_h /\ s_link(t) \in Node /\ s_link(t) # semd_h
      /\ Live(lists, s_link(t), NoNode)
  <2>0. semd_h \in Heads
    BY NodesDiffer
  <2>1. Live(lists, semd_h, NoNode) /\ Live(lists, s_link(t), NoNode)
    BY <2>0, Running DEF IInv, FieldTypes
  <2>2. Home[semd_h] = semd_h /\ Home[s_link(t)] = semd_h
    BY <1>1, HomeAt, NodesDiffer DEF Home
  <2> QED BY <2>1, <2>2, Nodes, NodesDiffer
<1>3. s_link(t) \in Range(ListForEach(lists, semd_h))
  BY <1>2, Finds
<1> QED BY <1>3 DEF Found

(* insertBlocked on a semaphore that had no process: the descriptor leaves  *)
(* semdFree_h, the process joins its queue and it joins semd_h.            *)
LEMMA InsertBlockedNewSteps ==
  ASSUME IInv, ListsInv, NEW sem \in Sem, NEW p \in Pcb, InsertBlockedNew(sem, p)
  PROVE  \E s \in Semd :
           LET n     == p_list(p)
               l     == s_link(s)
               at    == s_procq(s)
               d     == ListDel(lists, l)
               h     == ListInsert(d, n, d.prev[at], at)
               home1 == [Home EXCEPT ![l] = l]
               home2 == [home1 EXCEPT ![n] = at]
           IN  /\ s_key[s] = NULL /\ state[p] = "held"
               /\ lists' = ListInsert(h, l, h.prev[semd_h], semd_h)
               /\ s_key' = [s_key EXCEPT ![s] = sem]
               /\ OnNone(lists, at, NoNode) /\ Live(lists, readyQueue, NoNode)
               /\ Live(lists, l, NoNode) /\ Home[l] = semdFree_h
               /\ Tight(d, Node, NoNode, home1) /\ OnNone(d, n, NoNode) /\ Live(d, at, NoNode)
               /\ Tight(h, Node, NoNode, home2) /\ OnNone(h, l, NoNode) /\ Live(h, semd_h, NoNode)
<1> DEFINE first == lists.next[semdFree_h]
           n == p_list(p)
<1>1. /\ NoNode \notin Node /\ n \in Node /\ semdFree_h \in Node /\ semd_h \in Node
      /\ Live(lists, readyQueue, NoNode) /\ Live(lists, semdFree_h, NoNode) /\ Live(lists, semd_h, NoNode)
      /\ Home[semdFree_h] = semdFree_h /\ Home[semd_h] = semd_h
      /\ state[p] = "held" /\ Isolated(lists, n) /\ ~ListEmpty(lists, semdFree_h)
  <2>1. state[p] = "held" /\ Live(lists, readyQueue, NoNode) /\ Isolated(lists, n)
    BY DEF IInv, Shape, PcbPlaced, PcbAt, InsertBlockedNew, Held
  <2>2. Live(lists, semdFree_h, NoNode) /\ Live(lists, semd_h, NoNode)
    BY <2>1, Running, NodesDiffer DEF IInv, FieldTypes
  <2> QED BY <2>1, <2>2, Nodes, NodesDiffer, HomeAt DEF InsertBlockedNew, Home
<1>2. first \in Node /\ first # semdFree_h /\ Home[first] = semdFree_h
  <2> HIDE DEF Home
  <2> QED BY <1>1, FirstOfList DEF ListsInv, Tight
<1>3. PICK s \in Semd : first = s_link(s) /\ s_key[s] = NULL
  BY <1>2, OnList DEF IInv, FieldTypes, ListsInv, Home
<1> DEFINE l == s_link(s)
           at == s_procq(s)
           d == ListDel(lists, l)
           h == ListInsert(d, n, d.prev[at], at)
           home1 == [Home EXCEPT ![l] = l]
           home2 == [home1 EXCEPT ![n] = at]
<1>4. /\ l \in Node /\ at \in Node /\ l # at /\ n # l /\ n # at /\ semd_h # n /\ semd_h # l
      /\ Live(lists, l, NoNode) /\ Live(lists, at, NoNode) /\ Isolated(lists, at)
  <2>1. Live(lists, l, NoNode) /\ Live(lists, at, NoNode)
    BY <1>1, Running DEF IInv, FieldTypes
  <2>2. OnNone(lists, at, NoNode)
    BY <1>3 DEF IInv, Shape, SemdPlaced
  <2> QED BY <2>1, <2>2, Nodes, NodesDiffer DEF OnNone, Live
<1>5. DOMAIN Home = Node /\ Home[l] = semdFree_h /\ Home[l] # l /\ Home[at] = at
  <2>1. DOMAIN Home = Node
    BY DEF Home, HomeOf
  <2>2. Home[l] = semdFree_h /\ Home[at] = at
    BY <1>3, HomeAt DEF Home
  <2> QED BY <2>1, <2>2, NodesDiffer
<1>6. /\ Tight(d, Node, NoNode, home1) /\ Isolated(d, l)
      /\ Keeps(lists, d, Node, NoNode, {})
  <2>1. (\A k \in Node \ {l} : home1[k] = Home[k]) /\ home1[l] = l
    BY <1>4, <1>5
  <2> HIDE DEF l, home1, Home
  <2> QED BY <1>1, <1>4, <1>5, <2>1, TightDel, ListDelLinks DEF ListsInv, Tight
<1>7. /\ Isolated(d, at) /\ Live(d, at, NoNode) /\ Isolated(d, n) /\ Live(d, semd_h, NoNode)
  <2> HIDE DEF d
  <2> QED BY <1>1, <1>4, <1>6 DEF Keeps
<1>8. /\ Tight(h, Node, NoNode, home2) /\ Keeps(d, h, Node, NoNode, {n, at})
  <2>1. \A k \in Node \ {n} : home2[k] = home1[k]
    BY <1>5
  <2>2. home2[n] = home1[at] /\ home1[n] = n
    <3>1. Home[n] = n
      BY <1>1, HomeAt DEF Home
    <3> QED BY <1>1, <1>4, <1>5, <3>1
  <2>3. Good(d, Node, NoNode, home2)
    <3>1. Good(d, Node, NoNode, home1) /\ OnNone(d, n, NoNode)
      BY <1>6, <1>7 DEF Tight, OnNone
    <3> HIDE DEF home1, home2, d, n
    <3> QED BY <1>1, <2>1, <3>1, Relabel
  <2> HIDE DEF d, n, at, home1, home2
  <2>4. Tight(h, Node, NoNode, home2)
    BY <1>1, <1>4, <1>6, <1>7, <2>1, <2>2, TightInsert DEF OnNone
  <2>5. home2[n] = home2[at]
    BY <1>1, <1>4, <2>1, <2>2
  <2>6. Keeps(d, h, Node, NoNode, {n, at})
    BY <1>1, <1>4, <1>7, <2>3, <2>5, ListInsertLinks DEF OnNone
  <2> QED BY <2>4, <2>6
<1>9. Isolated(h, l) /\ Live(h, semd_h, NoNode)
  <2>1. semd_h # at
    BY NodesDiffer
  <2> HIDE DEF d, h
  <2> QED BY <1>1, <1>4, <1>6, <1>7, <1>8, <2>1 DEF Keeps
<1>10. /\ lists' = ListInsert(h, l, h.prev[semd_h], semd_h)
       /\ s_key' = [s_key EXCEPT ![s] = sem]
  <2>1. ContainerOf(first) = s
    BY <1>3 DEF ContainerOf, s_link
  <2>2. InitListHead(d, at) = d
    <3> HIDE DEF d, at, home1
    <3> QED BY <1>4, <1>6, <1>7, InitIsolated DEF Tight, Good
  <2>3. lists' = ListAddTail(ListAddTail(InitListHead(d, at), n, at), l, semd_h)
    BY <2>1 DEF InsertBlockedNew
  <2> HIDE DEF d
  <2> QED BY <2>1, <2>2, <2>3 DEF InsertBlockedNew, ListAddTail
<1> HIDE DEF Home
<1> QED BY <1>1, <1>3, <1>4, <1>5, <1>6, <1>7, <1>8, <1>9, <1>10 DEF OnNone

(* insertBlocked on a semaphore that had no process. *)
LEMMA InsertBlockedNewLists ==
  ASSUME IInv, ListsInv, NEW sem \in Sem, NEW p \in Pcb, InsertBlockedNew(sem, p)
  PROVE  ListsInv'
<1>1. PICK s \in Semd :
        LET n     == p_list(p)
            l     == s_link(s)
            at    == s_procq(s)
            d     == ListDel(lists, l)
            h     == ListInsert(d, n, d.prev[at], at)
            home2 == [[Home EXCEPT ![l] = l] EXCEPT ![n] = at]
        IN  /\ s_key[s] = NULL /\ state[p] = "held" /\ Live(lists, readyQueue, NoNode)
            /\ lists' = ListInsert(h, l, h.prev[semd_h], semd_h)
            /\ s_key' = [s_key EXCEPT ![s] = sem]
            /\ Tight(h, Node, NoNode, home2) /\ OnNone(h, l, NoNode) /\ Live(h, semd_h, NoNode)
  BY InsertBlockedNewSteps
<1> DEFINE n == p_list(p)
           l == s_link(s)
           at == s_procq(s)
           d == ListDel(lists, l)
           h == ListInsert(d, n, d.prev[at], at)
           home2 == [[Home EXCEPT ![l] = l] EXCEPT ![n] = at]
<1>2. /\ s_key[s] = NULL /\ state[p] = "held" /\ Live(lists, readyQueue, NoNode)
      /\ lists' = ListInsert(h, l, h.prev[semd_h], semd_h)
      /\ Tight(h, Node, NoNode, home2) /\ OnNone(h, l, NoNode) /\ Live(h, semd_h, NoNode)
      /\ s_key' = [s_key EXCEPT ![s] = sem]
  BY <1>1
<1>3. /\ NoNode \notin Node /\ n \in Node /\ l \in Node /\ at \in Node /\ semd_h \in Node
      /\ l # at /\ n # l /\ n # at /\ semd_h # n /\ semd_h # l
      /\ DOMAIN Home = Node /\ Home[at] = at /\ Home[semd_h] = semd_h /\ Live(lists, semd_h, NoNode)
  <2>1. Home[at] = at /\ Home[semd_h] = semd_h
    BY HomeAt, NodesDiffer DEF Home
  <2>2. DOMAIN Home = Node
    BY DEF Home, HomeOf
  <2>3. Live(lists, semd_h, NoNode)
    BY <1>2, Running, NodesDiffer DEF IInv, FieldTypes
  <2> QED BY <2>1, <2>2, <2>3, Nodes, NodesDiffer
<1>4. /\ p_parent' = p_parent /\ state'[p] = "blocked" /\ p_semAdd'[p] = sem /\ sem # NULL
      /\ \A q \in Pcb \ {p} : p_semAdd'[q] = p_semAdd[q] /\ state'[q] = state[q]
  BY Phase1Assumption DEF InsertBlockedNew, Block, pcbVars, IInv, FieldTypes, Phase1Assumption
<1>5. s_key'[s] = sem /\ \A t \in Semd \ {s} : s_key'[t] = s_key[t]
  BY <1>2 DEF IInv, FieldTypes
<1>6. \A t \in Semd : s_key[t] # sem
  BY <1>2, NotFound DEF InsertBlockedNew
<1>7. \A q \in Pcb : state[q] = "blocked" => p_semAdd[q] # NULL /\ p_semAdd[q] # sem
  BY <1>6 DEF ListsInv, Blocked
<1>8. Blocked(p_semAdd', state', s_key')
  <2>1. \A a, b \in Semd : s_key'[a] = s_key'[b] /\ s_key'[a] # NULL => a = b
    BY <1>5, <1>6 DEF ListsInv, Blocked
  <2>2. \A q \in Pcb : state'[q] = "blocked" => p_semAdd'[q] # NULL /\ \E t \in Semd : s_key'[t] = p_semAdd'[q]
    BY <1>2, <1>4, <1>5 DEF ListsInv, Blocked
  <2>3. \A t \in Semd : s_key'[t] # NULL => \E q \in Pcb : state'[q] = "blocked" /\ p_semAdd'[q] = s_key'[t]
    BY <1>2, <1>4, <1>5 DEF ListsInv, Blocked
  <2> QED BY <2>1, <2>2, <2>3 DEF Blocked
<1>9. /\ \A k \in Node \ {l, n} : Home'[k] = Home[k]
       /\ Home'[l] = semd_h /\ Home'[n] = at
  <2>1. \A k \in Node \ {l} : HomeOf(p_parent, p_semAdd, state, s_key')[k] = Home[k]
    <3>1. state \in [Pcb -> {"none", "free", "held", "ready", "blocked"}]
      BY DEF IInv, FieldTypes
    <3>2. \A q \in Pcb : state[q] = "blocked" => p_semAdd[q] # s_key[s] /\ p_semAdd[q] # s_key'[s]
      BY <1>2, <1>5, <1>7
    <3>3. \A t \in Semd \ {s} : s_key'[t] = s_key[t]
      BY <1>5
    <3> QED BY <3>1, <3>2, <3>3, HomeOfKey DEF Home
  <2>2. \A k \in Node \ {n} : Home'[k] = HomeOf(p_parent, p_semAdd, state, s_key')[k]
    BY <1>4, HomeOfState DEF Home
  <2>3. Home'[l] = semd_h
    BY <1>4, <1>5, HomeAt DEF Home
  <2>4. Home'[n] = at
    <3>1. SemdOf(s_key', sem) \in Semd /\ s_key'[SemdOf(s_key', sem)] = sem
      BY <1>5, SemdOfFinds
    <3>2. SemdOf(s_key', sem) = s
      BY <1>5, <1>6, <3>1
    <3> QED BY <1>4, <3>2, HomeOfBlocked DEF Home
  <2> QED BY <2>1, <2>2, <2>3, <2>4
<1>10. Tight(lists', Node, NoNode, Home')
  <2>1. \A k \in Node \ {l} : Home'[k] = home2[k]
    BY <1>3, <1>3, <1>3, <1>9
  <2>2. Home'[l] = home2[semd_h]
    BY <1>3, <1>3, <1>3, <1>9, NodesDiffer
  <2> HIDE DEF l, h, home2, Home
  <2> QED BY <1>3, <1>3, <1>2, <1>2, <1>2, <2>1, <2>2, TightInsert DEF OnNone
<1> QED BY <1>8, <1>10 DEF ListsInv

(* removeBlocked and outBlocked: the process leaves the queue and, with it  *)
(* the last one, the descriptor leaves semd_h.                             *)
LEMMA UnblockSteps ==
  ASSUME IInv, ListsInv, NEW s \in Semd, NEW p \in Pcb, s_key[s] # NULL,
         state[p] = "blocked", p_semAdd[p] = s_key[s], Unblock(s, p)
  PROVE  LET l     == s_link(s)
             at    == s_procq(s)
             m     == ListDel(lists, p_list(p))
             d     == ListDel(m, l)
             home1 == HomeOf(p_parent, p_semAdd', state', s_key)
             home2 == [home1 EXCEPT ![l] = l]
         IN  /\ Live(lists, p_list(p), NoNode)
             /\ Tight(m, Node, NoNode, home1) /\ home1[at] = at
             /\ \A k \in Node : Live(m, k, NoNode) <=> Live(lists, k, NoNode)
             /\ home1[l] = semd_h /\ DOMAIN home1 = Node /\ home1[semdFree_h] = semdFree_h
             /\ Tight(d, Node, NoNode, home2) /\ Isolated(d, l) /\ Live(d, semdFree_h, NoNode)
             /\ ListEmpty(m, at) => /\ s_key' = [s_key EXCEPT ![s] = NULL]
                                    /\ lists' = ListInsert(d, l, d.prev[semdFree_h], semdFree_h)
             /\ ~ListEmpty(m, at) => s_key' = s_key /\ lists' = m
<1> DEFINE n == p_list(p)
           l == s_link(s)
           at == s_procq(s)
           m == ListDel(lists, n)
           d == ListDel(m, l)
           home1 == HomeOf(p_parent, p_semAdd', state', s_key)
           home2 == [home1 EXCEPT ![l] = l]
<1>1. /\ NoNode \notin Node /\ n \in Node /\ l \in Node /\ at \in Node /\ semdFree_h \in Node
      /\ l # at /\ n # l /\ n # at /\ l # semdFree_h
      /\ Live(lists, readyQueue, NoNode) /\ Live(lists, n, NoNode) /\ Live(lists, l, NoNode)
      /\ Live(lists, at, NoNode) /\ Live(lists, semdFree_h, NoNode)
  <2>1. Live(lists, readyQueue, NoNode) /\ Live(lists, n, NoNode)
    BY DEF IInv, Shape, PcbPlaced, PcbAt
  <2> QED BY <2>1, Nodes, NodesDiffer, Running DEF IInv, FieldTypes
<1>2. /\ p_parent' = p_parent /\ state'[p] = "held"
      /\ \A q \in Pcb \ {p} : p_semAdd'[q] = p_semAdd[q] /\ state'[q] = state[q]
      /\ p_parent \in [Pcb -> Pcb \cup {NULL}]
      /\ state \in [Pcb -> {"none", "free", "held", "ready", "blocked"}]
      /\ state' \in [Pcb -> {"none", "free", "held", "ready", "blocked"}]
  BY DEF Unblock, pcbVars, IInv, FieldTypes
<1>3. Tight(m, Node, NoNode, home1)
  BY <1>1, <1>2, LeaveTight DEF ListsInv, Home
<1>4. \A k \in Node : Live(m, k, NoNode) <=> Live(lists, k, NoNode)
  <2> HIDE DEF n, Home
  <2>1. Keeps(lists, m, Node, NoNode, {})
    BY <1>1, ListDelLinks DEF ListsInv, Tight
  <2> HIDE DEF m
  <2> QED BY <2>1 DEF Keeps
<1>5. home1[at] = at
  BY HomeAt
<1>6. home1[l] = semd_h /\ DOMAIN home1 = Node /\ home1[semdFree_h] = semdFree_h /\ semd_h # l
  <2>1. DOMAIN home1 = Node
    BY DEF HomeOf
  <2>2. home1[l] = semd_h /\ home1[semdFree_h] = semdFree_h
    BY HomeAt, NodesDiffer
  <2> QED BY <2>1, <2>2, NodesDiffer
<1>7. Tight(d, Node, NoNode, home2) /\ Isolated(d, l) /\ Live(d, semdFree_h, NoNode)
  <2>1. (\A k \in Node \ {l} : home2[k] = home1[k]) /\ home2[l] = l
    BY <1>1, <1>6
  <2> HIDE DEF l, home1, home2, m
  <2>2. Tight(d, Node, NoNode, home2)
    BY <1>1, <1>3, <1>4, <1>6, <2>1, TightDel
  <2>3. Isolated(d, l) /\ Keeps(m, d, Node, NoNode, {})
    BY <1>1, <1>3, <1>4, ListDelLinks DEF Tight
  <2> HIDE DEF d
  <2> QED BY <1>1, <1>4, <2>2, <2>3 DEF Keeps
<1>8. /\ ListEmpty(m, at) => /\ s_key' = [s_key EXCEPT ![s] = NULL]
                             /\ lists' = ListInsert(d, l, d.prev[semdFree_h], semdFree_h)
      /\ ~ListEmpty(m, at) => s_key' = s_key /\ lists' = m
  BY DEF Unblock, Release, ReleasedKeys, ListAddTail
<1> QED BY <1>1, <1>3, <1>4, <1>5, <1>6, <1>7, <1>8

(* removeBlocked and outBlocked. *)
LEMMA UnblockLists ==
  ASSUME IInv, ListsInv, NEW s \in Semd, NEW p \in Pcb, s_key[s] # NULL,
         state[p] = "blocked", p_semAdd[p] = s_key[s], Unblock(s, p)
  PROVE  ListsInv'
<1> DEFINE n == p_list(p)
           l == s_link(s)
           at == s_procq(s)
           m == ListDel(lists, n)
           d == ListDel(m, l)
           home1 == HomeOf(p_parent, p_semAdd', state', s_key)
           home2 == [home1 EXCEPT ![l] = l]
<1>1. /\ NoNode \notin Node /\ n \in Node /\ l \in Node /\ at \in Node /\ semdFree_h \in Node
      /\ l # at /\ n # l /\ n # at /\ l # semdFree_h
      /\ Live(lists, readyQueue, NoNode) /\ Live(lists, n, NoNode) /\ Live(lists, l, NoNode)
      /\ Live(lists, at, NoNode) /\ Live(lists, semdFree_h, NoNode)
  <2>1. Live(lists, readyQueue, NoNode) /\ Live(lists, n, NoNode)
    BY DEF IInv, Shape, PcbPlaced, PcbAt
  <2> QED BY <2>1, Nodes, NodesDiffer, Running DEF IInv, FieldTypes
<1>2. /\ p_parent' = p_parent /\ state'[p] = "held"
      /\ \A q \in Pcb \ {p} : p_semAdd'[q] = p_semAdd[q] /\ state'[q] = state[q]
      /\ p_parent \in [Pcb -> Pcb \cup {NULL}]
      /\ state \in [Pcb -> {"none", "free", "held", "ready", "blocked"}]
      /\ state' \in [Pcb -> {"none", "free", "held", "ready", "blocked"}]
  BY DEF Unblock, pcbVars, IInv, FieldTypes
<1>3. Blocked(p_semAdd, state, s_key)
  BY DEF ListsInv
<1>4. Tight(m, Node, NoNode, home1)
  BY UnblockSteps
<1>5. \A k \in Node : Live(m, k, NoNode) <=> Live(lists, k, NoNode)
  BY UnblockSteps
<1>6. (\A k \in Node \ {n} : home1[k] = Home[k]) /\ home1[n] = n /\ home1[at] = at
  BY <1>2, HomeOfState, HomeAt DEF Home
<1>7. CASE ListEmpty(m, at)
  <2>1. \A q \in Pcb \ {p} : state[q] = "blocked" => p_semAdd[q] # s_key[s]
    <3> SUFFICES ASSUME NEW q \in Pcb \ {p}, state[q] = "blocked", p_semAdd[q] = s_key[s]
                 PROVE  FALSE
      OBVIOUS
    <3>1. Home[p_list(q)] = at
      BY <1>2, <1>3, OnQueue DEF Home
    <3>2. /\ p_list(q) \in Node /\ p_list(q) # n /\ p_list(q) # at
          /\ Live(lists, p_list(q), NoNode)
      BY <1>1, <1>2, Nodes, NodesDiffer DEF IInv, Shape, PcbPlaced, PcbAt
    <3>3. Isolated(m, at)
      <4> HIDE DEF m, home1
      <4> QED BY <1>1, <1>4, <1>7, EmptyIsolated DEF Tight
    <3>4. home1[p_list(q)] # at
      <4> HIDE DEF m, home1
      <4> QED BY <1>1, <1>4, <1>5, <1>6, <3>2, <3>3, IsolatedAlone
    <3> QED BY <1>6, <3>1, <3>2, <3>4
  <2>2. /\ s_key' = [s_key EXCEPT ![s] = NULL]
        /\ lists' = ListInsert(d, l, d.prev[semdFree_h], semdFree_h)
    BY <1>7, UnblockSteps
  <2>3. s_key'[s] = NULL /\ \A t \in Semd \ {s} : s_key'[t] = s_key[t]
    BY <2>2 DEF IInv, FieldTypes
  <2>4. home1[l] = semd_h /\ DOMAIN home1 = Node /\ home1[semdFree_h] = semdFree_h /\ semd_h # l
    BY NodesDiffer, UnblockSteps
  <2>5. Tight(d, Node, NoNode, home2) /\ Isolated(d, l) /\ Live(d, semdFree_h, NoNode)
    BY UnblockSteps
  <2>6. \A k \in Node \ {l} : Home'[k] = home1[k]
    <3>1. \A q \in Pcb : state'[q] = "blocked" => p_semAdd'[q] # s_key[s] /\ p_semAdd'[q] # NULL
      BY <1>2, <1>3, <2>1 DEF Blocked
    <3> QED BY <1>2, <2>3, <3>1, HomeOfKey DEF Home
  <2>7. Home'[l] = semdFree_h
    BY <2>3, HomeAt DEF Home
  <2>8. Tight(lists', Node, NoNode, Home')
    <3>1. \A k \in Node \ {l} : Home'[k] = home2[k]
      BY <1>1, <2>4, <2>6
    <3>2. Home'[l] = home2[semdFree_h]
      BY <1>1, <2>4, <2>7
    <3> HIDE DEF l, d, home2, Home
    <3> QED BY <1>1, <2>2, <2>5, <3>1, <3>2, TightInsert DEF OnNone
  <2>9. Blocked(p_semAdd', state', s_key')
    <3>1. \A a, b \in Semd : s_key'[a] = s_key'[b] /\ s_key'[a] # NULL => a = b
      BY <1>3, <2>3 DEF Blocked
    <3>2. \A q \in Pcb : state'[q] = "blocked" => p_semAdd'[q] # NULL /\ \E t \in Semd : s_key'[t] = p_semAdd'[q]
      BY <1>2, <1>3, <2>1, <2>3 DEF Blocked
    <3>3. \A t \in Semd : s_key'[t] # NULL => \E q \in Pcb : state'[q] = "blocked" /\ p_semAdd'[q] = s_key'[t]
      <4> SUFFICES ASSUME NEW t \in Semd, s_key'[t] # NULL
                   PROVE  \E q \in Pcb : state'[q] = "blocked" /\ p_semAdd'[q] = s_key'[t]
        OBVIOUS
      <4>1. t # s /\ s_key'[t] = s_key[t] /\ s_key[t] # s_key[s]
        BY <1>3, <2>3 DEF Blocked
      <4>2. PICK q \in Pcb : state[q] = "blocked" /\ p_semAdd[q] = s_key[t]
        BY <1>3, <4>1 DEF Blocked
      <4> QED BY <1>2, <4>1, <4>2
    <3> QED BY <3>1, <3>2, <3>3 DEF Blocked
  <2> QED BY <2>8, <2>9 DEF ListsInv
<1>8. CASE ~ListEmpty(m, at)
  <2>1. lists' = m /\ s_key' = s_key
    BY <1>8, UnblockSteps
  <2>2. m.next[at] \in Node /\ m.next[at] # at /\ home1[m.next[at]] = at
    <3> HIDE DEF m, home1
    <3> QED BY <1>1, <1>4, <1>5, <1>6, <1>8, FirstOfList DEF Tight
  <2>3. PICK q \in Pcb : m.next[at] = p_list(q) /\ state[q] = "blocked" /\ p_semAdd[q] = s_key[s]
    <3>1. m.next[at] # n /\ Home[m.next[at]] = at
      BY <1>1, <1>6, <2>2
    <3> HIDE DEF m
    <3> QED BY <1>2, <1>3, <2>2, <3>1, OnQueue DEF Home
  <2>4. q # p
    <3> HIDE DEF m, home1
    <3> QED BY <1>1, <1>6, <2>2, <2>3
  <2>5. Blocked(p_semAdd', state', s_key)
    <3>1. \A r \in Pcb : state'[r] = "blocked" => p_semAdd'[r] # NULL /\ \E t \in Semd : s_key[t] = p_semAdd'[r]
      BY <1>2, <1>3 DEF Blocked
    <3>2. \A t \in Semd : s_key[t] # NULL => \E r \in Pcb : state'[r] = "blocked" /\ p_semAdd'[r] = s_key[t]
      <4> SUFFICES ASSUME NEW t \in Semd, s_key[t] # NULL
                   PROVE  \E r \in Pcb : state'[r] = "blocked" /\ p_semAdd'[r] = s_key[t]
        OBVIOUS
      <4>1. CASE t = s
        BY <1>2, <2>3, <2>4, <4>1
      <4>2. CASE t # s
        <5>1. PICK r \in Pcb : state[r] = "blocked" /\ p_semAdd[r] = s_key[t]
          BY <1>3 DEF Blocked
        <5>2. r # p
          BY <1>3, <4>2, <5>1 DEF Blocked
        <5> QED BY <1>2, <5>1, <5>2
      <4> QED BY <4>1, <4>2
    <3> QED BY <1>3, <3>1, <3>2 DEF Blocked
  <2> QED BY <1>2, <1>4, <2>1, <2>5 DEF ListsInv, Home
<1> QED BY <1>7, <1>8

(* outChild. *)
LEMMA OutChildLists ==
  ASSUME IInv, ListsInv, NEW p \in Pcb, OutChild(p)
  PROVE  ListsInv'
BY LeaveParentLists DEF OutChild, LeavesParent

(* A node on the queue of a descriptor is p_list of a process blocked there. *)
LEMMA OnQueueBlocked ==
  ASSUME IInv, ListsInv, NEW s \in Semd, NEW p \in Pcb, Home[p_list(p)] = s_procq(s)
  PROVE  state[p] = "blocked" /\ p_semAdd[p] = s_key[s]
<1>1. p_list(p) \in Node \ {s_procq(s)}
  BY Nodes, NodesDiffer
<1>2. PICK q \in Pcb : p_list(p) = p_list(q) /\ state[q] = "blocked" /\ p_semAdd[q] = s_key[s]
  BY <1>1, OnQueue DEF IInv, FieldTypes, ListsInv, Home
<1> QED BY <1>2, NodesDiffer

(* removeBlocked takes the first process that is blocked on sem.            *)
LEMMA RemoveBlockedTakes ==
  ASSUME IInv, ListsInv, NEW sem \in Sem, RemoveBlocked(sem)
  PROVE  \E s \in Semd, p \in Pcb :
           /\ s_key[s] = sem /\ s_key[s] # NULL /\ lists.next[s_procq(s)] = p_list(p)
           /\ state[p] = "blocked" /\ p_semAdd[p] = s_key[s] /\ Unblock(s, p)
<1>1. PICK s \in Semd, p \in Pcb : /\ s_key[s] = sem
                                   /\ lists.next[s_procq(s)] = p_list(p)
                                   /\ Unblock(s, p)
  BY DEF RemoveBlocked, Found
<1>2. Live(lists, readyQueue, NoNode) /\ s_key[s] # NULL
  BY <1>1, Phase1Assumption DEF RemoveBlocked, Initialised, Live, Phase1Assumption
<1>3. Live(lists, s_procq(s), NoNode) /\ s_procq(s) \in Node
  BY <1>2, Running, Nodes DEF IInv, FieldTypes
<1>4. Home[p_list(p)] = s_procq(s)
  <2>1. Home[s_procq(s)] = s_procq(s)
    BY HomeAt DEF Home
  <2> HIDE DEF Home
  <2> QED BY <1>1, <1>3, <2>1 DEF ListsInv, Tight, Good, SameLabel, Live
<1>5. state[p] = "blocked" /\ p_semAdd[p] = s_key[s]
  BY <1>4, OnQueueBlocked
<1> QED BY <1>1, <1>2, <1>5

LEMMA RemoveBlockedLists ==
  ASSUME IInv, ListsInv, NEW sem \in Sem, RemoveBlocked(sem)
  PROVE  ListsInv'
BY RemoveBlockedTakes, UnblockLists

(* outBlocked finds p on the queue: p is blocked there. *)
LEMMA OutBlockedTakes ==
  ASSUME IInv, ListsInv, NEW p \in Pcb, OutBlocked(p)
  PROVE  \E s \in Semd : /\ s_key[s] = p_semAdd[p] /\ s_key[s] # NULL
                         /\ state[p] = "blocked" /\ Unblock(s, p)
<1>1. PICK s \in Semd : /\ s_key[s] = p_semAdd[p]
                        /\ p_list(p) \in Range(ListForEach(lists, s_procq(s)))
                        /\ Unblock(s, p)
  BY DEF OutBlocked, Found
<1>2. Live(lists, readyQueue, NoNode) /\ s_key[s] # NULL
  BY <1>1 DEF OutBlocked, Allocated, IInv, Shape, PcbPlaced, PcbAt
<1>3. /\ Live(lists, s_procq(s), NoNode) /\ s_procq(s) \in Node
      /\ Home[s_procq(s)] = s_procq(s)
  <2>1. Live(lists, s_procq(s), NoNode) /\ s_procq(s) \in Node
    BY <1>2, Running, Nodes DEF IInv, FieldTypes
  <2>2. Home[s_procq(s)] = s_procq(s)
    BY HomeAt DEF Home
  <2> QED BY <2>1, <2>2
<1>4. Home[p_list(p)] = s_procq(s)
  BY <1>1, <1>3, Finds
<1> QED BY <1>1, <1>2, <1>4, OnQueueBlocked

LEMMA OutBlockedLists ==
  ASSUME IInv, ListsInv, NEW p \in Pcb, OutBlocked(p)
  PROVE  ListsInv'
BY OutBlockedTakes, UnblockLists

(* Every call keeps the fields and the lists together. *)
LEMMA NextLists == IInv /\ ListsInv /\ [Next]_vars => ListsInv'
<1> SUFFICES ASSUME IInv, ListsInv, [Next]_vars
             PROVE  ListsInv'
  OBVIOUS
<1>1. CASE \E p \in Pcb : InitPcb(p)
  BY <1>1, InitPcbLists
<1>2. CASE InitASLHeads \/ MkEmptyProcQ
  BY <1>2, InitHeadsLists
<1>3. CASE \E s \in Semd : InitSemd(s)
  BY <1>3, InitSemdLists
<1>4. CASE \E prio \in Prio : AllocPcb(prio)
  BY <1>4, AllocPcbLists
<1>5. ASSUME NEW p \in Pcb, FreePcb(p) \/ InsertProcQAhead(p) \/ InsertProcQLast(p) \/ OutProcQ(p)
      PROVE  ListsInv'
  BY <1>5, JoinLists, OutProcQLists
<1>6. CASE RemoveProcQ
  BY <1>6, RemoveProcQLists
<1>7. ASSUME NEW prnt \in Pcb, NEW p \in Pcb, InsertChild(prnt, p)
      PROVE  ListsInv'
  BY <1>7, InsertChildLists
<1>8. ASSUME NEW p \in Pcb, RemoveChild(p) \/ OutChild(p)
      PROVE  ListsInv'
  BY <1>8, RemoveChildLists, OutChildLists
<1>9. ASSUME NEW sem \in Sem, NEW p \in Pcb,
             InsertBlockedActive(sem, p) \/ InsertBlockedNew(sem, p)
      PROVE  ListsInv'
  BY <1>9, InsertBlockedActiveLists, InsertBlockedNewLists
<1>10. CASE \E sem \in Sem : RemoveBlocked(sem)
  BY <1>10, RemoveBlockedLists
<1>11. CASE \E p \in Pcb : OutBlocked(p)
  BY <1>11, OutBlockedLists
<1>12. CASE UNCHANGED vars
  BY <1>12 DEF vars, ListsInv, Home
<1> QED BY <1>1, <1>2, <1>3, <1>4, <1>5, <1>6, <1>7, <1>8, <1>9, <1>10, <1>11, <1>12 DEF Next

(* After every sequence of calls, each node is on the list that the fields  *)
(* of its structure tell, and no list has lost a part.                     *)
LEMMA SpecLists == Spec => [](IInv /\ ListsInv)
<1>1. Init => IInv /\ ListsInv
  BY InitIInv, InitLists
<1>2. IInv /\ ListsInv /\ [Next]_vars => (IInv /\ ListsInv)'
  BY NextIInv, NextLists
<1> QED BY <1>1, <1>2, PTL DEF Spec

(* The list of each head is made of exactly the nodes that p_parent,        *)
(* p_semAdd, s_key and the callers' knowledge put there (pcb.c, asl.c).    *)
THEOREM FieldsTell == Spec => []FieldsTellTheList
<1>1. IInv /\ ListsInv => FieldsTellTheList
  <2> SUFFICES ASSUME IInv, ListsInv, NEW head \in Node, Initialised(head), ListOf(head) = head
               PROVE  Range(ListForEach(lists, head)) =
                        {n \in Node \ {head} : Initialised(n) /\ ListOf(n) = head}
    BY DEF FieldsTellTheList
  <2>1. \A n \in Node : ListOf(n) = Home[n]
    BY DEF ListOf, Home, HomeOf, SemdOf
  <2>2. \A n \in Node : Initialised(n) <=> Live(lists, n, NoNode)
    BY DEF Initialised, Live
  <2> HIDE DEF Home
  <2> QED BY <2>1, <2>2, Finds
<1> QED BY <1>1, SpecLists, PTL

(* The node of a process that is blocked is on the queue of its semaphore.  *)
LEMMA BlockedQueue ==
  ASSUME IInv, ListsInv, Live(lists, readyQueue, NoNode), NEW s \in Semd, s_key[s] # NULL
  PROVE  ~ListEmpty(lists, s_procq(s))
<1>1. PICK p \in Pcb : state[p] = "blocked" /\ p_semAdd[p] = s_key[s]
  BY DEF ListsInv, Blocked
<1>2. Home[p_list(p)] = s_procq(s) /\ Home[s_procq(s)] = s_procq(s)
  BY <1>1, OnQueue, HomeAt DEF IInv, FieldTypes, ListsInv, Home
<1>3. /\ NoNode \notin Node /\ p_list(p) \in Node /\ s_procq(s) \in Node /\ p_list(p) # s_procq(s)
      /\ Live(lists, p_list(p), NoNode) /\ Live(lists, s_procq(s), NoNode)
  BY <1>1, Nodes, NodesDiffer, Running DEF IInv, FieldTypes, Shape, PcbPlaced, PcbAt
<1> SUFFICES ASSUME ListEmpty(lists, s_procq(s))
             PROVE  FALSE
  OBVIOUS
<1> HIDE DEF Home
<1>4. Isolated(lists, s_procq(s))
  BY <1>3, EmptyIsolated DEF ListsInv, Tight
<1> QED BY <1>2, <1>3, <1>4, IsolatedAlone DEF ListsInv

(* A descriptor has a key only while processes are blocked on its semaphore, *)
(* and no two have the same (asl.c:54, 82).                                *)
THEOREM DescriptorsUsed == Spec => []DescriptorsInUse
<1>1. IInv /\ ListsInv => DescriptorsInUse
  <2> SUFFICES ASSUME IInv, ListsInv, Initialised(readyQueue), NEW s \in Semd, s_key[s] # NULL
               PROVE  /\ ~ListEmpty(lists, s_procq(s))
                      /\ \A t \in Semd : s_key[t] = s_key[s] => t = s
    BY DEF DescriptorsInUse
  <2>1. ~ListEmpty(lists, s_procq(s))
    BY BlockedQueue DEF Initialised, Live
  <2>2. \A t \in Semd : s_key[t] = s_key[s] => t = s
    BY DEF ListsInv, Blocked
  <2> QED BY <2>1, <2>2
<1> QED BY <1>1, SpecLists, PTL

(* With every descriptor in use, as many processes as there are PCBs would *)
(* be blocked, and none would be left to call insertBlocked.               *)
LEMMA DescriptorLeft ==
  ASSUME IInv, ListsInv, NEW p \in Pcb, state[p] # "blocked"
  PROVE  \E s \in Semd : s_key[s] = NULL
<1> SUFFICES ASSUME \A s \in Semd : s_key[s] # NULL
             PROVE  FALSE
  OBVIOUS
<1> DEFINE f == [s \in Semd |-> CHOOSE q \in Pcb : state[q] = "blocked" /\ p_semAdd[q] = s_key[s]]
           Others == Pcb \ {p}
<1>1. \A s \in Semd : /\ f[s] \in Pcb /\ state[f[s]] = "blocked" /\ p_semAdd[f[s]] = s_key[s]
  <2> SUFFICES ASSUME NEW s \in Semd
               PROVE  f[s] \in Pcb /\ state[f[s]] = "blocked" /\ p_semAdd[f[s]] = s_key[s]
    OBVIOUS
  <2>1. \E q \in Pcb : state[q] = "blocked" /\ p_semAdd[q] = s_key[s]
    BY DEF ListsInv, Blocked
  <2> QED BY <2>1
<1>2. f \in [Semd -> Others]
  BY <1>1
<1>3. IsFiniteSet(Semd) /\ IsFiniteSet(Others) /\ Cardinality(Others) < Cardinality(Semd)
  <2>1. /\ IsFiniteSet(Pcb) /\ IsFiniteSet(Semd) /\ Cardinality(Pcb) = Cardinality(Semd)
    BY Phase1Assumption DEF Phase1Assumption
  <2>2. IsFiniteSet(Others) /\ Cardinality(Others) = Cardinality(Pcb) - 1
    BY <2>1, FS_RemoveElement
  <2>3. Cardinality(Pcb) \in Nat
    BY <2>1, FS_CardinalityType
  <2> QED BY <2>1, <2>2, <2>3
<1>4. PICK s \in Semd, t \in Semd : s # t /\ f[s] = f[t]
  <2> HIDE DEF f, Others
  <2> QED BY <1>2, <1>3, FS_PigeonHole
<1>5. s_key[s] = s_key[t]
  <2> HIDE DEF f
  <2> QED BY <1>1, <1>4
<1> QED BY <1>4, <1>5 DEF ListsInv, Blocked

(* insertBlocked never runs out of descriptors, whose result the Nucleus    *)
(* does not look at (exceptions.c:125).                                    *)
THEOREM AlwaysCanBlock == Spec => []AlwaysBlocks
<1>1. IInv /\ ListsInv => AlwaysBlocks
  <2> SUFFICES ASSUME IInv, ListsInv, NEW p \in Pcb, Held(p), ListEmpty(lists, semdFree_h)
               PROVE  FALSE
    BY DEF AlwaysBlocks
  <2>1. PICK s \in Semd : s_key[s] = NULL
    BY DescriptorLeft DEF Held
  <2>2. Live(lists, readyQueue, NoNode)
    BY DEF Held, IInv, Shape, PcbPlaced, PcbAt
  <2>3. /\ NoNode \notin Node /\ s_link(s) \in Node /\ semdFree_h \in Node /\ s_link(s) # semdFree_h
        /\ Live(lists, s_link(s), NoNode) /\ Live(lists, semdFree_h, NoNode)
    BY <2>2, Nodes, NodesDiffer, Running DEF IInv, FieldTypes
  <2>4. Home[s_link(s)] = semdFree_h /\ Home[semdFree_h] = semdFree_h
    BY <2>1, HomeAt, NodesDiffer DEF Home
  <2> HIDE DEF Home
  <2>5. Isolated(lists, semdFree_h)
    BY <2>3, EmptyIsolated DEF ListsInv, Tight
  <2> QED BY <2>3, <2>4, <2>5, IsolatedAlone DEF ListsInv
<1> QED BY <1>1, SpecLists, PTL
=============================================================================
