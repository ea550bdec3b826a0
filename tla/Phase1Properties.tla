--------------------------- MODULE Phase1Properties ---------------------------
(***************************************************************************)
(* What makes the lists of phase 1 correct: no call leaves a pointer       *)
(* behind, and the fields of the PCBs and of the descriptors say on which  *)
(* list each of them is.                                                   *)
(***************************************************************************)
EXTENDS Phase1

\* The head of the list a node is on according to those fields; a node on no
\* list is a list of its own.
ListOf(node) ==
  LET x == ContainerOf(node)
  IN  CASE node[1] = "s_link" -> IF s_key[x] = NULL THEN semdFree_h ELSE semd_h
        [] node[1] = "p_sib"  -> IF p_parent[x] = NULL THEN node ELSE p_child(p_parent[x])
        [] node[1] = "p_list" -> CASE state[x] = "free"    -> pcbFree_h
                                   [] state[x] = "ready"   -> readyQueue
                                   [] state[x] = "blocked" ->
                                        s_procq(CHOOSE s \in Semd : s_key[s] = p_semAdd[x])
                                   [] OTHER -> node
        [] OTHER -> node

\* next and prev are inverses of one another: every call mends both
\* neighbours of the node it links or unlinks (listx.h:104, 143, 155), and no
\* node is linked a second time while it is still on a list.
Linked ==
  \A n \in Node : Initialised(n) =>
    /\ lists.prev[lists.next[n]] = n
    /\ lists.next[lists.prev[n]] = n

\* A PCB is on the queue of the semaphore p_semAdd names, a process among the
\* children of p_parent, a descriptor on semd_h as long as it has a key: the
\* list of each head is made of exactly the nodes these fields put there.
\* outBlocked and outChild find their lists by them (asl.c:71, pcb.c:121).
FieldsTellTheList ==
  \A head \in Node : Initialised(head) /\ ListOf(head) = head =>
    Range(ListForEach(lists, head)) =
      {n \in Node \ {head} : Initialised(n) /\ ListOf(n) = head}

\* A semaphore has one descriptor, and only while processes are blocked on
\* it: removeBlocked and outBlocked give back the one they empty (asl.c:54,
\* 82), or insertBlocked would find it, or run out of descriptors, later.
DescriptorsInUse ==
  Initialised(readyQueue) =>
    \A s \in Semd : s_key[s] # NULL =>
      /\ ~ListEmpty(lists, s_procq(s))
      /\ \A t \in Semd : s_key[t] = s_key[s] => t = s

\* insertBlocked finds a descriptor for every process that has to block: the
\* Nucleus never looks at its result (exceptions.c:125).
AlwaysBlocks ==
  \A p \in Pcb, sem \in Sem : Held(p) =>
    Found(sem) # {} \/ ~ListEmpty(lists, semdFree_h)

\* The lists are the sequences that module Nucleus works on, and each call
\* changes them as its operators do.
Contents(head) ==
  LET pos == ListForEach(lists, head)
  IN  IF Initialised(head) THEN [i \in DOMAIN pos |-> ContainerOf(pos[i])] ELSE <<>>

QueueOf(sem) ==
  IF \E s \in Semd : s_key[s] = sem
  THEN Contents(s_procq(CHOOSE s \in Semd : s_key[s] = sem)) ELSE <<>>

Tables == INSTANCE ProcTables WITH
  free <- Contents(pcbFree_h), ready <- Contents(readyQueue),
  asl <- [sem \in Sem |-> QueueOf(sem)],
  children <- [p \in Pcb |-> Contents(p_child(p))],
  held <- {p \in Pcb : Held(p)}, prio <- p_prio

ImplementsProcTables == Tables!Spec
=============================================================================
