------------------------- MODULE NucleusProperties -------------------------
(***************************************************************************)
(* What makes the Nucleus correct.                                         *)
(***************************************************************************)
EXTENDS Nucleus

(* Every variable has its type; the processor executes a process only if   *)
(* there is one to execute, and it is in terminateProcess exactly while    *)
(* one of its calls is active.                                             *)
TypeOK ==
  /\ pcbFree \in Seq(Pcb) /\ readyQueue \in Seq(Pcb) /\ calls \in Seq(Pcb)
  /\ p_parent \in [Pcb -> Pcb \cup {NoProc}]
  /\ p_child \in [Pcb -> Seq(Pcb)]
  /\ p_prio \in [Pcb -> Prio]
  /\ p_semAdd \in [Pcb -> Sem \cup {NoSem}]
  /\ p_supportStruct \in [Pcb -> BOOLEAN]
  /\ terminated \subseteq Pcb /\ activeProcs \subseteq Pcb
  /\ currentProcess \in Pcb \cup {NoProc}
  /\ processCount \in Int /\ softBlockCount \in Int
  /\ semVal \in [Sem -> Int]
  /\ s_procq \in [Sem -> Seq(Pcb)]
  /\ device \in [Dev -> {"idle", "busy", "done", "error"}]
  /\ issuer \in [Dev -> Pcb \cup {NoProc}]
  /\ cpu \in {"run", "wait", "terminate", "tick", "halt", "panic"}
  /\ cpu = "run" => currentProcess # NoProc
  /\ cpu = "terminate" <=> calls # <<>>

(* No PCB is ever lost or in two places: it is once on the free list, or   *)
(* live and either current, once in the ready queue, or once in the queue  *)
(* of the one semaphore its p_semAdd names.  In particular insertBlocked,  *)
(* whose result blockCurrentProcess ignores, never runs out of descriptors.*)
OnePlace ==
  /\ IsInjective(pcbFree) /\ IsInjective(readyQueue) /\ \A s \in Sem : IsInjective(s_procq[s])
  /\ Range(pcbFree) = Pcb \ activeProcs
  /\ \A p \in Pcb, s \in Sem : p \in Range(s_procq[s]) <=> p_semAdd[p] = s
  /\ \A p \in Pcb :
       /\ p = currentProcess => p \in activeProcs /\ p \notin Range(readyQueue)
       /\ p = currentProcess \/ p \in Range(readyQueue) => p_semAdd[p] = NoSem
       /\ p \in Range(readyQueue) => p \in activeProcs
       /\ p_semAdd[p] # NoSem => p \in activeProcs
       /\ p \in activeProcs => \/ p = currentProcess
                               \/ p \in Range(readyQueue)
                               \/ p_semAdd[p] # NoSem

(* The two counters the scheduler decides with are exact at every step,    *)
(* in the middle of a termination too.                                     *)
CountersExact ==
  /\ processCount = Cardinality(activeProcs)
  /\ softBlockCount = Cardinality({p \in Pcb : p_semAdd[p] \in Soft})

(* With no process to run the scheduler takes the right decision: HALT     *)
(* when none is left, WAIT when an interrupt will make one ready, PANIC    *)
(* only if every live process waits for a V no live process can do.        *)
IdleVerdict ==
  /\ cpu = "halt" => activeProcs = {}
  /\ cpu = "wait" => \E p \in activeProcs : p_semAdd[p] \in Soft
  /\ cpu = "panic" => activeProcs # {} /\ \A p \in activeProcs : p_semAdd[p] \in Normal

(* The value of a semaphore and its queue agree: a negative value of a     *)
(* process semaphore counts its waiters, whoever was killed among them. On *)
(* a device or the clock the waiters are at most what interrupts must add. *)
SemaphoreBalance ==
  /\ \A s \in Normal : Len(s_procq[s]) = IF semVal[s] < 0 THEN -semVal[s] ELSE 0
  /\ \A s \in Soft : Len(s_procq[s]) <= -semVal[s]

(* The two directions of the process tree agree, and both ends of an edge  *)
(* are live.                                                               *)
TreeLinks ==
  /\ \A p \in Pcb : IsInjective(p_child[p])
  /\ \A p, c \in Pcb : c \in Range(p_child[p]) <=> p_parent[c] = p
  /\ \A c \in Pcb : p_parent[c] # NoProc => {c, p_parent[c]} \subseteq activeProcs

(* The process tree is a tree at every step of a termination: p_parent and *)
(* the child lists agree on live processes only, and terminations leave no *)
(* orphan, that is, every live process but the first has a live parent     *)
(* unless it is being terminated itself.                                   *)
TreeConsistent ==
  /\ TreeLinks
  /\ Cardinality({p \in activeProcs : p_parent[p] = NoProc} \ Range(calls)) <= 1

(* The live processes whose p_pid is -1 are those in a call of             *)
(* terminateProcess that has not returned, and each is there once: no      *)
(* process is freed twice.                                                 *)
TerminationOnce ==
  /\ IsInjective(calls)
  /\ Range(calls) = terminated \cap activeProcs

(* The ready queue is sorted by priority. *)
ReadySorted ==
  \A i, j \in 1 .. Len(readyQueue) :
    i < j => p_prio[readyQueue[i]] >= p_prio[readyQueue[j]]

(* A process that gets the processor has the highest priority of those     *)
(* that are ready.                                                         *)
DispatchHighest ==
  [][currentProcess' \notin {currentProcess, NoProc} =>
       \A p \in Range(readyQueue') : p_prio'[p] <= p_prio'[currentProcess']]_vars

(* The interrupt that wakes a process waiting for a device reports the end *)
(* of that process' own command, so the status in its a0 is its own.       *)
OwnStatus ==
  [][\A d \in Dev, p \in Pcb :
       p_semAdd[p] = d /\ p_semAdd'[p] = NoSem /\ cpu # "terminate" => issuer[d] = p]_vars
=============================================================================
