----------------------------- MODULE ProcTables ------------------------------
(***************************************************************************)
(* What phase 1 promises to the Nucleus: sequences of PCBs.  The queues    *)
(* change by the operators of ProcQ, which are the ones the handlers of    *)
(* module Nucleus use, the tree as it does there, and a PCB its caller     *)
(* holds is on no queue.  A process that has to block always can.          *)
(***************************************************************************)
EXTENDS ProcQ

CONSTANTS Pcb, Sem, Prio, NULL

VARIABLES
  free, ready,  \* pcbFree_h and the ready queue
  asl,          \* the queue of each semaphore
  children,     \* the children of each PCB
  held, prio

vars == <<free, ready, asl, children, held, prio>>

Semds == Cardinality(Pcb)
Idle(p) ==
  /\ p \notin held
  /\ \A queue \in {free, ready} \cup {asl[s] : s \in Sem} : p \notin Range(queue)
Orphan(p) == \A prnt \in Pcb : p \notin Range(children[prnt])

Init ==
  /\ free = <<>> /\ ready = <<>>
  /\ asl = [s \in Sem |-> <<>>]
  /\ children = [p \in Pcb |-> <<>>]
  /\ held = {}
  /\ prio = [p \in Pcb |-> 0]

Boot(p) ==
  /\ Idle(p)
  /\ free' = Append(free, p)
  /\ UNCHANGED <<ready, asl, children, held, prio>>

Alloc(v) ==
  /\ free # <<>>
  /\ children[Head(free)] = <<>> /\ Orphan(Head(free))
  /\ free' = Tail(free)
  /\ held' = held \cup {Head(free)}
  /\ prio' = [prio EXCEPT ![Head(free)] = v]
  /\ UNCHANGED <<ready, asl, children>>

Free(p) ==
  /\ p \in held /\ children[p] = <<>> /\ Orphan(p)
  /\ free' = Append(free, p)
  /\ held' = held \ {p}
  /\ UNCHANGED <<ready, asl, children, prio>>

Insert(p) ==
  /\ p \in held
  /\ ready' = InsertProcQ(prio, ready, p)
  /\ held' = held \ {p}
  /\ UNCHANGED <<free, asl, children, prio>>

Out(p) ==
  /\ p \in Range(ready)
  /\ ready' = OutProcQ(ready, p)
  /\ held' = held \cup {p}
  /\ UNCHANGED <<free, asl, children, prio>>

TakeFirst == ready # <<>> /\ Out(Head(ready))

Adopt(prnt, p) ==
  /\ p \in held /\ Orphan(p) /\ children[p] = <<>>
  /\ children' = [children EXCEPT ![prnt] = Append(@, p)]
  /\ UNCHANGED <<free, ready, asl, held, prio>>

Leave(prnt, p) ==
  /\ p \in Range(children[prnt])
  /\ children' = [children EXCEPT ![prnt] = RemoveFirst(@, p)]
  /\ UNCHANGED <<free, ready, asl, held, prio>>

Block(s, p) ==
  /\ p \in held
  /\ asl' = InsertBlocked(asl, s, p, Semds)
  /\ held' = held \ {p}
  /\ UNCHANGED <<free, ready, children, prio>>

Wake(s) ==
  /\ asl[s] # <<>>
  /\ asl' = RemoveBlocked(asl, s)
  /\ held' = held \cup {Head(asl[s])}
  /\ UNCHANGED <<free, ready, children, prio>>

Unblock(s, p) ==
  /\ p \in Range(asl[s])
  /\ asl' = OutBlocked(asl, s, p)
  /\ held' = held \cup {p}
  /\ UNCHANGED <<free, ready, children, prio>>

Next ==
  \/ \E p \in Pcb : Boot(p) \/ Free(p) \/ Insert(p) \/ Out(p)
  \/ \E v \in Prio : Alloc(v)
  \/ TakeFirst
  \/ \E prnt, p \in Pcb : Adopt(prnt, p) \/ Leave(prnt, p)
  \/ \E s \in Sem, p \in Pcb : Block(s, p) \/ Unblock(s, p)
  \/ \E s \in Sem : Wake(s)

Spec == Init /\ [][Next]_vars
=============================================================================
