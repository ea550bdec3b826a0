-------------------------------- MODULE ProcQ --------------------------------
(***************************************************************************)
(* The process queues of phase1/pcb.c and the semaphore queues of          *)
(* phase1/asl.c, as operators on values.                                   *)
(*                                                                         *)
(* A circular list threaded through p_list is the sequence of the PCBs on  *)
(* it.  headProcQ and removeProcQ are Head and Tail, list_add_tail is      *)
(* Append, mkEmptyProcQ and emptyProcQ are <<>> and the comparison with    *)
(* it.  The active semaphore list is the function from semaphore addresses *)
(* to their queues: a semaphore descriptor is in use exactly when its      *)
(* queue is not empty, because removeBlocked and outBlocked return an      *)
(* emptied descriptor to semdFree_h in the same call.                      *)
(***************************************************************************)
EXTENDS Integers, Sequences, FiniteSets, FiniteSetsExt, SequencesExt

\* Mutants of insertProcQ: priorities ignored; ahead of equals.
InsertProcQ_Fifo(prio, q, p) == Append(q, p)
InsertProcQ_AheadOfEquals(prio, q, p) ==
  LET lower == {i \in 1 .. Len(q) : prio[p] >= prio[q[i]]}
      at    == IF lower = {} THEN Len(q) + 1 ELSE Min(lower)
  IN  InsertAt(q, at, p)

\* insertProcQ: before the first PCB of strictly lower priority, or last.
InsertProcQ(prio, q, p) ==
  LET lower == {i \in 1 .. Len(q) : prio[p] > prio[q[i]]}
      at    == IF lower = {} THEN Len(q) + 1 ELSE Min(lower)
  IN  InsertAt(q, at, p)

\* Mutant of outProcQ: it finds the PCB and does not unlink it.
OutProcQ_Keeps(q, p) == q

\* outProcQ: remove p wherever it is; the queue is unchanged if it is not there.
OutProcQ(q, p) == RemoveFirst(q, p)

\* The semaphores that hold a descriptor of semd_table.
SemdInUse(asl) == {s \in DOMAIN asl : asl[s] # <<>>}

\* insertBlocked succeeds: s has a descriptor already or semdFree_h has one.
CanBlock(asl, s, semds) == asl[s] # <<>> \/ Cardinality(SemdInUse(asl)) < semds

\* insertBlocked: p joins the tail of s, or nothing happens and 1 is returned.
InsertBlocked(asl, s, p, semds) ==
  IF CanBlock(asl, s, semds) THEN [asl EXCEPT ![s] = Append(@, p)] ELSE asl

\* removeBlocked on a semaphore whose queue is not empty: its head leaves.
RemoveBlocked(asl, s) == [asl EXCEPT ![s] = Tail(@)]

\* outBlocked: p leaves the queue of the semaphore it is blocked on.
OutBlocked(asl, s, p) == [asl EXCEPT ![s] = RemoveFirst(@, p)]
=============================================================================
