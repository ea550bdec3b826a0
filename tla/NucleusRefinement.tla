-------------------------- MODULE NucleusRefinement --------------------------
(***************************************************************************)
(* The Nucleus implements ProcessSystem.  While terminateProcess recurses, *)
(* the processes it has still to terminate (those of its active calls and  *)
(* everything below them in the child lists) are dead already for the      *)
(* abstract system: its Kill happens when the recursion starts, and every  *)
(* step of the recursion is a stuttering step of it.                       *)
(***************************************************************************)
EXTENDS NucleusProperties, WaitQueues

\* The processes top and all that is below them in the child lists.
Below(child, top) ==
  LET below[n \in 0 .. MaxProc] ==
        IF n = 0 THEN top
                 ELSE below[n - 1] \cup UNION {Range(child[p]) : p \in below[n - 1]}
  IN  below[MaxProc]

Doomed == IF calls = <<>> THEN {} ELSE Below(p_child, Range(calls))

AbsLive   == activeProcs \ Doomed
AbsParent == LET dead == Doomed
             IN  [p \in Pcb |-> IF p \in dead THEN NoProc ELSE p_parent[p]]
AbsWaitq  == LET dead == Doomed
             IN  [s \in Sem |-> Without(s_procq[s], dead)]
AbsValue  == LET dead == Doomed
             IN  [s \in Normal |-> semVal[s] + Cardinality(Range(s_procq[s]) \cap dead)]

System == INSTANCE ProcessSystem
  WITH Process <- Pcb, NoProcess <- NoProc, ProcessSem <- Normal, EventSem <- Soft,
       live <- AbsLive, parent <- AbsParent, waitq <- AbsWaitq, value <- AbsValue

(* Every behaviour of the Nucleus is one of ProcessSystem: a termination   *)
(* removes exactly the subtree of its target and returns its units to the  *)
(* semaphores; P, V, DOIO, CLOCKWAIT and the interrupts touch the queues   *)
(* first-in first-out; scheduling decisions change nothing of the rest.    *)
ImplementsProcessSystem == System!PSSpec
=============================================================================
