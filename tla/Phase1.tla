------------------------------- MODULE Phase1 --------------------------------
(***************************************************************************)
(* phase1/pcb.c and phase1/asl.c on the memory they work on: the pointers  *)
(* of the list_heads inside the PCBs and the semaphore descriptors, and of *)
(* the heads of the lists.  A call of the Nucleus is an action, and so is  *)
(* an iteration of the loops of initPcbs and initASL.                      *)
(*                                                                         *)
(* The static variables are zero before main: NULL.  A PCB is of its       *)
(* caller from allocPcb to freePcb and between the call that takes it off  *)
(* a queue and the one that puts it on another: state keeps what the       *)
(* callers know, and they pass each function what they pass in phase2.     *)
(* next_pid is in Nucleus; the other fields of a PCB play no part here.    *)
(***************************************************************************)
EXTENDS ListX

CONSTANTS Pcb,    \* the entries of pcbFree_table
          Semd,   \* the entries of semd_table
          Sem,    \* the addresses of semaphores
          Prio,   \* the priorities
          NULL

ASSUME Phase1Assumption ==
  /\ IsFiniteSet(Pcb) /\ IsFiniteSet(Semd) /\ Semd # {}
  /\ Cardinality(Pcb) = Cardinality(Semd)      \* both are MAXPROC
  /\ Prio \subseteq Int /\ 0 \in Prio
  /\ NULL \notin Pcb \cup Semd \cup Sem
  /\ Pcb \cap Semd = {}

\* The list_heads: by field and structure, and the heads, which are variables.
pcbFree_h   == <<"pcbFree_h", NULL>>
readyQueue  == <<"readyQueue", NULL>>
semdFree_h  == <<"semdFree_h", NULL>>
semd_h      == <<"semd_h", NULL>>
p_list(p)   == <<"p_list", p>>
p_child(p)  == <<"p_child", p>>
p_sib(p)    == <<"p_sib", p>>
s_procq(s)  == <<"s_procq", s>>
s_link(s)   == <<"s_link", s>>
Heads == {pcbFree_h, readyQueue, semdFree_h, semd_h}
PcbNodes == {"p_list", "p_child", "p_sib"} \X Pcb
SemdNodes == {"s_procq", "s_link"} \X Semd
Node == Heads \cup PcbNodes \cup SemdNodes
NoNode == <<"NULL", NULL>>

\* container_of(pos, pcb_t, ...) and container_of(pos, semd_t, ...)
ContainerOf(pos) == pos[2]

VARIABLES
  lists,      \* next and prev of every list_head
  p_parent, p_semAdd, p_prio, s_key,
  state       \* "none" before initPcbs has it, "free", "held", "ready", "blocked"

pcbVars == <<p_parent, p_prio>>
vars == <<lists, p_parent, p_semAdd, p_prio, s_key, state>>

TypeOK ==
  /\ lists \in [next : [Node -> Node \cup {NoNode}], prev : [Node -> Node \cup {NoNode}]]
  /\ p_parent \in [Pcb -> Pcb \cup {NULL}]
  /\ p_semAdd \in [Pcb -> Sem \cup {NULL}]
  /\ p_prio \in [Pcb -> Prio]
  /\ s_key \in [Semd -> Sem \cup {NULL}]
  /\ state \in [Pcb -> {"none", "free", "held", "ready", "blocked"}]

Initialised(node) == lists.next[node] # NoNode
Held(p) == state[p] = "held"
Allocated(p) == state[p] \in {"held", "ready", "blocked"}

-----------------------------------------------------------------------------
(* main calls initPcbs, initASL and mkEmptyProcQ.  The entries of a table  *)
(* have no names of their own: the next one is any that is not yet linked. *)

\* INIT_LIST_HEAD(&pcbFree_h); everything else is still zero.
Init ==
  LET zero == [n \in Node |-> NoNode]
  IN  /\ lists = InitListHead([next |-> zero, prev |-> zero], pcbFree_h)
      /\ p_parent = [p \in Pcb |-> NULL]
      /\ p_semAdd = [p \in Pcb |-> NULL]
      /\ p_prio = [p \in Pcb |-> 0]
      /\ s_key = [s \in Semd |-> NULL]
      /\ state = [p \in Pcb |-> "none"]

\* An iteration of initPcbs.
InitPcb(p) ==
  /\ state[p] = "none"
  /\ lists' = ListAddTail(InitListHead(lists, p_list(p)), p_list(p), pcbFree_h)
  /\ state' = [state EXCEPT ![p] = "free"]
  /\ UNCHANGED <<p_parent, p_semAdd, p_prio, s_key>>

\* initASL up to its loop.
InitASLHeads ==
  /\ \A p \in Pcb : state[p] = "free"
  /\ ~Initialised(semd_h)
  /\ lists' = InitListHead(InitListHead(lists, semdFree_h), semd_h)
  /\ UNCHANGED <<p_parent, p_semAdd, p_prio, s_key, state>>

\* An iteration of initASL.
InitSemd(s) ==
  /\ Initialised(semd_h)
  /\ ~Initialised(s_link(s))
  /\ lists' = ListAddTail(InitListHead(lists, s_procq(s)), s_link(s), semdFree_h)
  /\ s_key' = [s_key EXCEPT ![s] = NULL]
  /\ UNCHANGED <<p_parent, p_semAdd, p_prio, state>>

\* mkEmptyProcQ(&readyQueue)
MkEmptyProcQ ==
  /\ \A s \in Semd : Initialised(s_link(s))
  /\ ~Initialised(readyQueue)
  /\ lists' = InitListHead(lists, readyQueue)
  /\ UNCHANGED <<p_parent, p_semAdd, p_prio, s_key, state>>

-----------------------------------------------------------------------------
(* pcb.c                                                                   *)

\* The three INIT_LIST_HEAD of allocPcb.
FreshLinks(m, p) ==
  InitListHead(InitListHead(InitListHead(m, p_list(p)), p_child(p)), p_sib(p))

\* allocPcb, and the priority its callers then give the PCB.
AllocPcb(prio) ==
  LET p == ContainerOf(lists.next[pcbFree_h])
  IN  /\ Initialised(readyQueue)
      /\ ~ListEmpty(lists, pcbFree_h)
      /\ lists' = FreshLinks(ListDel(lists, lists.next[pcbFree_h]), p)
      /\ p_parent' = [p_parent EXCEPT ![p] = NULL]
      /\ p_semAdd' = [p_semAdd EXCEPT ![p] = NULL]
      /\ p_prio' = [p_prio EXCEPT ![p] = prio]
      /\ state' = [state EXCEPT ![p] = "held"]
      /\ UNCHANGED s_key

\* freePcb, of a PCB its caller has taken off its queue and out of the tree.
FreePcb(p) ==
  /\ Held(p)
  /\ ListEmpty(lists, p_child(p))
  /\ p_parent[p] = NULL
  /\ lists' = ListAddTail(lists, p_list(p), pcbFree_h)
  /\ state' = [state EXCEPT ![p] = "free"]
  /\ UNCHANGED <<p_parent, p_semAdd, p_prio, s_key>>

\* Mutant of the comparison of insertProcQ: ahead of equals.
Precedes_OrEqual(p, pos) == p_prio[p] >= p_prio[ContainerOf(pos)]

\* p goes before the PCB at pos.
Precedes(p, pos) == p_prio[p] > p_prio[ContainerOf(pos)]

Queue(p) ==
  /\ state' = [state EXCEPT ![p] = "ready"]
  /\ UNCHANGED <<p_parent, p_semAdd, p_prio, s_key>>

\* insertProcQ on the ready queue, before the first PCB of lower priority (the
\* PCBs list_for_each finds there are the ready ones: FieldsTellTheList).
InsertProcQAhead(p) ==
  LET pos == ListForEach(lists, readyQueue)
  IN  /\ Held(p)
      /\ \E q \in Pcb, i \in DOMAIN pos :
           /\ state[q] = "ready" /\ pos[i] = p_list(q) /\ Precedes(p, pos[i])
           /\ \A j \in 1 .. i - 1 : ~Precedes(p, pos[j])
           /\ lists' = ListInsert(lists, p_list(p), lists.prev[p_list(q)], p_list(q))
      /\ Queue(p)

\* insertProcQ on the ready queue, when there is none.
InsertProcQLast(p) ==
  /\ Held(p)
  /\ \A pos \in Range(ListForEach(lists, readyQueue)) : ~Precedes(p, pos)
  /\ lists' = ListAddTail(lists, p_list(p), readyQueue)
  /\ Queue(p)

\* removeProcQ on the ready queue, which is not empty.
RemoveProcQ ==
  LET first == lists.next[readyQueue]
  IN  /\ Initialised(readyQueue)
      /\ ~ListEmpty(lists, readyQueue)
      /\ lists' = InitListHead(ListDel(lists, first), first)
      /\ state' = [state EXCEPT ![ContainerOf(first)] = "held"]
      /\ UNCHANGED <<p_parent, p_semAdd, p_prio, s_key>>

\* outProcQ on the ready queue, whichever queue p is on; NULL is returned,
\* and nothing is done, when it is not on that one.
OutProcQ(p) ==
  /\ Allocated(p)
  /\ p_list(p) \in Range(ListForEach(lists, readyQueue))
  /\ lists' = ListDel(lists, p_list(p))
  /\ state' = [state EXCEPT ![p] = "held"]
  /\ UNCHANGED <<p_parent, p_semAdd, p_prio, s_key>>

\* insertChild, of the PCB SYS1 has just allocated.
InsertChild(prnt, p) ==
  /\ Allocated(prnt) /\ prnt # p
  /\ Held(p)
  /\ p_parent[p] = NULL
  /\ ListEmpty(lists, p_child(p))
  /\ p_parent' = [p_parent EXCEPT ![p] = prnt]
  /\ lists' = ListAddTail(lists, p_sib(p), p_child(prnt))
  /\ UNCHANGED <<p_semAdd, p_prio, s_key, state>>

\* removeChild, of any process that has children.
RemoveChild(p) ==
  LET first == lists.next[p_child(p)]
  IN  /\ Allocated(p)
      /\ ~ListEmpty(lists, p_child(p))
      /\ lists' = InitListHead(ListDel(lists, first), first)
      /\ p_parent' = [p_parent EXCEPT ![ContainerOf(first)] = NULL]
      /\ UNCHANGED <<p_semAdd, p_prio, s_key, state>>

\* Mutant of outChild: p still points to its parent.
LeavesParent_Keeps(parent, p) == parent
LeavesParent(parent, p) == [parent EXCEPT ![p] = NULL]

\* outChild, of any process that has a parent.
OutChild(p) ==
  /\ Allocated(p)
  /\ p_parent[p] # NULL
  /\ lists' = InitListHead(ListDel(lists, p_sib(p)), p_sib(p))
  /\ p_parent' = LeavesParent(p_parent, p)
  /\ UNCHANGED <<p_semAdd, p_prio, s_key, state>>

-----------------------------------------------------------------------------
(* asl.c                                                                   *)

\* The descriptors list_for_each_entry finds on semd_h with key sem.
Found(sem) ==
  {s \in Semd : s_key[s] = sem /\ s_link(s) \in Range(ListForEach(lists, semd_h))}

Block(p, sem) ==
  /\ p_semAdd' = [p_semAdd EXCEPT ![p] = sem]
  /\ state' = [state EXCEPT ![p] = "blocked"]
  /\ UNCHANGED pcbVars

\* insertBlocked on a semaphore that has a descriptor.
InsertBlockedActive(sem, p) ==
  /\ Held(p)
  /\ \E s \in Found(sem) : lists' = ListAddTail(lists, p_list(p), s_procq(s))
  /\ Block(p, sem)
  /\ UNCHANGED s_key

\* insertBlocked on a semaphore that takes the first descriptor of semdFree_h.
InsertBlockedNew(sem, p) ==
  LET s == ContainerOf(lists.next[semdFree_h])
      taken == InitListHead(ListDel(lists, s_link(s)), s_procq(s))
  IN  /\ Held(p)
      /\ Found(sem) = {}
      /\ ~ListEmpty(lists, semdFree_h)
      /\ lists' = ListAddTail(ListAddTail(taken, p_list(p), s_procq(s)), s_link(s), semd_h)
      /\ s_key' = [s_key EXCEPT ![s] = sem]
      /\ Block(p, sem)

\* Mutants of the end of removeBlocked and outBlocked: the descriptor is not
\* given back; its key is not cleared.
Release_Leaks(m, s) == m
ReleasedKeys_Stale(m, s) == s_key

\* The descriptor s of an emptied queue goes back to semdFree_h.
Release(m, s) ==
  IF ListEmpty(m, s_procq(s)) THEN ListAddTail(ListDel(m, s_link(s)), s_link(s), semdFree_h) ELSE m
ReleasedKeys(m, s) ==
  IF ListEmpty(m, s_procq(s)) THEN [s_key EXCEPT ![s] = NULL] ELSE s_key

\* p leaves the queue of s, its only change of queue in asl.c.
Unblock(s, p) ==
  LET m == ListDel(lists, p_list(p))
  IN  /\ lists' = Release(m, s)
      /\ s_key' = ReleasedKeys(m, s)
      /\ p_semAdd' = [p_semAdd EXCEPT ![p] = NULL]
      /\ state' = [state EXCEPT ![p] = "held"]
      /\ UNCHANGED pcbVars

\* removeBlocked on a semaphore some process is blocked on.
RemoveBlocked(sem) ==
  /\ Initialised(readyQueue)
  /\ \E s \in Found(sem), p \in Pcb :
       /\ lists.next[s_procq(s)] = p_list(p)
       /\ Unblock(s, p)

\* outBlocked, which looks for p on the queue of the semaphore p_semAdd names.
OutBlocked(p) ==
  /\ Allocated(p)
  /\ p_semAdd[p] # NULL
  /\ \E s \in Found(p_semAdd[p]) :
       /\ p_list(p) \in Range(ListForEach(lists, s_procq(s)))
       /\ Unblock(s, p)

-----------------------------------------------------------------------------
Next ==
  \/ \E p \in Pcb : InitPcb(p)
  \/ InitASLHeads
  \/ \E s \in Semd : InitSemd(s)
  \/ MkEmptyProcQ
  \/ \E prio \in Prio : AllocPcb(prio)
  \/ \E p \in Pcb : FreePcb(p) \/ InsertProcQAhead(p) \/ InsertProcQLast(p) \/ OutProcQ(p)
  \/ RemoveProcQ
  \/ \E prnt, p \in Pcb : InsertChild(prnt, p)
  \/ \E p \in Pcb : RemoveChild(p) \/ OutChild(p)
  \/ \E sem \in Sem, p \in Pcb : InsertBlockedActive(sem, p) \/ InsertBlockedNew(sem, p)
  \/ \E sem \in Sem : RemoveBlocked(sem)
  \/ \E p \in Pcb : OutBlocked(p)

Spec == Init /\ [][Next]_vars
=============================================================================
