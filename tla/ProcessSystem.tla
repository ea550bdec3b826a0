---------------------------- MODULE ProcessSystem ----------------------------
(***************************************************************************)
(* What the Nucleus promises to the processes, without its tables.  There  *)
(* is a tree of live processes and a set of semaphores with first-in       *)
(* first-out queues.  Every operation is one step: in particular a kill    *)
(* removes the whole subtree of the target at once, and gives back to each *)
(* semaphore of the processes the units its victims were waiting for.      *)
(* Which of the processes that are not waiting runs is not said.           *)
(***************************************************************************)
EXTENDS FiniteSets, WaitQueues

CONSTANTS Process, NoProcess, ProcessSem, EventSem

VARIABLES live, parent, waitq, value

psvars == <<live, parent, waitq, value>>

Waiting(p) == \E s \in ProcessSem \cup EventSem : \E i \in 1 .. Len(waitq[s]) : waitq[s][i] = p

Free == {p \in live : ~Waiting(p)}

\* The processes at depth at most n below t, t included.
Subtree(t) ==
  LET below[n \in 0 .. Cardinality(Process)] ==
        IF n = 0 THEN {t} ELSE below[n - 1] \cup {p \in live : parent[p] \in below[n - 1]}
  IN  below[Cardinality(Process)]

PSInit ==
  /\ \E p \in Process : live = {p}
  /\ parent = [p \in Process |-> NoProcess]
  /\ waitq = [s \in ProcessSem \cup EventSem |-> <<>>]
  /\ value \in [ProcessSem -> Nat]

\* A process that is not waiting starts another one.
Start(p, c) ==
  /\ p \in Free /\ c \in Process \ live
  /\ live' = live \cup {c}
  /\ parent' = [parent EXCEPT ![c] = p]
  /\ UNCHANGED <<waitq, value>>

\* The target dies with all its descendants, and nothing else does.
Kill(t) ==
  /\ Free # {} /\ t \in live
  /\ LET victims == Subtree(t) IN
     /\ live' = live \ victims
     /\ parent' = [p \in Process |-> IF p \in victims THEN NoProcess ELSE parent[p]]
     /\ waitq' = [s \in DOMAIN waitq |-> Without(waitq[s], victims)]
     /\ value' = [s \in ProcessSem |-> value[s] + Len(waitq[s]) - Len(Without(waitq[s], victims))]

\* P takes a unit, or waits for one behind those who wait already.
P(p, s) ==
  /\ p \in Free
  /\ value' = [value EXCEPT ![s] = @ - 1]
  /\ waitq' = IF value[s] > 0 THEN waitq ELSE [waitq EXCEPT ![s] = Append(@, p)]
  /\ UNCHANGED <<live, parent>>

\* V gives a unit back, to the first who waits if there is one.
V(s) ==
  /\ Free # {}
  /\ value' = [value EXCEPT ![s] = @ + 1]
  /\ waitq' = IF waitq[s] = <<>> THEN waitq ELSE [waitq EXCEPT ![s] = Tail(@)]
  /\ UNCHANGED <<live, parent>>

\* A process waits for the clock or for the end of an operation of a device.
Await(p, e) ==
  /\ p \in Free
  /\ waitq' = [waitq EXCEPT ![e] = Append(@, p)]
  /\ UNCHANGED <<live, parent, value>>

\* Events occur, and each lets its first waiter go on.
Happen(es) ==
  /\ \A e \in es : waitq[e] # <<>>
  /\ waitq' = [s \in DOMAIN waitq |-> IF s \in es THEN Tail(waitq[s]) ELSE waitq[s]]
  /\ UNCHANGED <<live, parent, value>>

PSNext ==
  \/ \E p, c \in Process : Start(p, c)
  \/ \E t \in Process : Kill(t)
  \/ \E p \in Process, s \in ProcessSem : P(p, s)
  \/ \E s \in ProcessSem : V(s)
  \/ \E p \in Process, e \in EventSem : Await(p, e)
  \/ \E es \in SUBSET EventSem : Happen(es)

PSSpec == PSInit /\ [][PSNext]_psvars
=============================================================================
