--------------------------- MODULE Nucleus_proofs ---------------------------
(***************************************************************************)
(* The safety of the Nucleus for every number of PCBs, set of priorities,  *)
(* set of devices and number of semaphores.  IInv is inductive: every      *)
(* handler keeps each PCB in one place, keeps the tree linked both ways,   *)
(* and terminates only live processes, once.  Two further invariants rest  *)
(* on it: the tree has one root, and the ready queue is sorted while       *)
(* nobody waits for a transmitter; and three more, at the end of the       *)
(* module, of the counters and the values of the semaphores.               *)
(***************************************************************************)
EXTENDS NucleusProperties, ProcQ_proofs, FunctionTheorems

-----------------------------------------------------------------------------
(* Placed is OnePlace, with the types it needs, as an operator of the free *)
(* list f, the live processes a, the current process c, the ready queue r, *)
(* the semaphore queues q and the p_semAdd fields b: a handler composes a  *)
(* few of the moves below, each of which keeps every PCB in one place.     *)

QueueTypes(f, a, c, r, q, b) ==
  /\ f \in Seq(Pcb) /\ a \subseteq Pcb /\ c \in Pcb \cup {NoProc} /\ r \in Seq(Pcb)
  /\ q \in [Sem -> Seq(Pcb)] /\ b \in [Pcb -> Sem \cup {NoSem}]

NoDuplicates(f, r, q) ==
  /\ IsInjective(f) /\ IsInjective(r) /\ \A s \in Sem : IsInjective(q[s])

FreeApart(f, a) == Range(f) = Pcb \ a

BlockedWhere(q, b) == \A p \in Pcb, s \in Sem : p \in Range(q[s]) <=> b[p] = s

Elsewhere(a, c, r, b) ==
  \A p \in Pcb :
    /\ p = c => p \in a /\ p \notin Range(r)
    /\ p = c \/ p \in Range(r) => b[p] = NoSem
    /\ p \in Range(r) => p \in a
    /\ b[p] # NoSem => p \in a
    /\ p \in a => p = c \/ p \in Range(r) \/ b[p] # NoSem

Placed(f, a, c, r, q, b) ==
  /\ QueueTypes(f, a, c, r, q, b)
  /\ NoDuplicates(f, r, q)
  /\ FreeApart(f, a)
  /\ BlockedWhere(q, b)
  /\ Elsewhere(a, c, r, b)

(* insertProcQ of a PCB that is not in the queue.                          *)
LEMMA Inserted ==
  ASSUME NEW prio, NEW q \in Seq(Pcb), NEW p \in Pcb, NEW r,
         r = InsertProcQ(prio, q, p), IsInjective(q)
  PROVE  /\ r \in Seq(Pcb) /\ Range(r) = Range(q) \cup {p}
         /\ p \notin Range(q) => IsInjective(r)
<1>1. r \in Seq(Pcb) /\ Range(r) = Range(q) \cup {p}
  BY InsertProcQProperties
<1>2. ASSUME p \notin Range(q)
      PROVE  IsInjective(r)
  BY <1>2, InsertProcQProperties
<1> QED BY <1>1, <1>2

(* Placed is OnePlace in a state of the right type. *)
LEMMA PlacedIsOnePlace ==
  TypeOK => (OnePlace <=> Placed(pcbFree, activeProcs, currentProcess, readyQueue, s_procq, p_semAdd))
BY DEF TypeOK, OnePlace, Placed, QueueTypes, NoDuplicates, FreeApart, BlockedWhere, Elsewhere

(* The scheduler's dispatch: the head of the ready queue becomes current. *)
LEMMA PlacedDispatch ==
  ASSUME NEW f, NEW a, NEW r, NEW q, NEW b,
         Placed(f, a, NoProc, r, q, b), r # <<>>
  PROVE  Placed(f, a, Head(r), Tail(r), q, b)
<1>1. r \in Seq(Pcb) /\ IsInjective(r)
  BY DEF Placed, QueueTypes, NoDuplicates
<1>2. /\ Head(r) \in Pcb /\ Tail(r) \in Seq(Pcb)
      /\ Range(r) = Range(Tail(r)) \cup {Head(r)}
      /\ IsInjective(Tail(r)) /\ Head(r) \notin Range(Tail(r))
  BY <1>1, TailProperties
<1>3. NoProc \notin Pcb
  BY PcbAssumption
<1>4. Elsewhere(a, Head(r), Tail(r), b)
  <2> DEFINE h == Head(r)
             t == Range(Tail(r))
  <2>1. h \in Pcb /\ Range(r) = t \cup {h} /\ h \notin t
    BY <1>2
  <2>2. Elsewhere(a, NoProc, r, b)
    BY DEF Placed
  <2> HIDE DEF h, t
  <2>3. \A p \in Pcb :
          /\ p = h => p \in a /\ p \notin t
          /\ p = h \/ p \in t => b[p] = NoSem
          /\ p \in t => p \in a
          /\ b[p] # NoSem => p \in a
          /\ p \in a => p = h \/ p \in t \/ b[p] # NoSem
    BY <1>3, <2>1, <2>2 DEF Elsewhere
  <2> QED BY <2>3 DEF Elsewhere, h, t
<1> QED BY <1>1, <1>2, <1>4 DEF Placed, QueueTypes, NoDuplicates

(* The current process goes back to the ready queue, wherever r1 puts it. *)
LEMMA PlacedRequeue ==
  ASSUME NEW f, NEW a, NEW c \in Pcb, NEW r, NEW q, NEW b, NEW r1 \in Seq(Pcb),
         Placed(f, a, c, r, q, b),
         Range(r1) = Range(r) \cup {c}, IsInjective(r1)
  PROVE  Placed(f, a, NoProc, r1, q, b)
<1>1. NoProc \notin Pcb
  BY PcbAssumption
<1>2. Elsewhere(a, NoProc, r1, b)
  BY <1>1 DEF Elsewhere, Placed
<1> QED BY <1>2 DEF Placed, QueueTypes, NoDuplicates

(* The current process blocks on semaphore s. *)
LEMMA PlacedBlock ==
  ASSUME NEW f, NEW a, NEW c \in Pcb, NEW r, NEW q, NEW b, NEW s \in Sem,
         Placed(f, a, c, r, q, b)
  PROVE  Placed(f, a, NoProc, r, [q EXCEPT ![s] = Append(@, c)], [b EXCEPT ![c] = s])
<1> DEFINE q1 == [q EXCEPT ![s] = Append(@, c)]
           b1 == [b EXCEPT ![c] = s]
<1>1. QueueTypes(f, a, c, r, q, b) /\ NoDuplicates(f, r, q) /\ BlockedWhere(q, b) /\ Elsewhere(a, c, r, b)
  BY DEF Placed
<1>2. NoProc \notin Pcb /\ NoSem \notin Sem
  BY PcbAssumption, NoSemAssumption
<1>3. q[s] \in Seq(Pcb) /\ IsInjective(q[s]) /\ c \notin Range(q[s]) /\ c \in a /\ b[c] = NoSem
  BY <1>1, <1>2 DEF QueueTypes, NoDuplicates, BlockedWhere, Elsewhere
<1>4. /\ Append(q[s], c) \in Seq(Pcb)
      /\ Range(Append(q[s], c)) = Range(q[s]) \cup {c}
      /\ IsInjective(Append(q[s], c))
  BY <1>3, AddTailProperties
<1>5. q1 \in [Sem -> Seq(Pcb)] /\ q1[s] = Append(q[s], c) /\ \A t \in Sem : t # s => q1[t] = q[t]
  BY <1>1, <1>4 DEF QueueTypes
<1>6. b1 \in [Pcb -> Sem \cup {NoSem}] /\ b1[c] = s /\ \A p \in Pcb : p # c => b1[p] = b[p]
  BY <1>1 DEF QueueTypes
<1> HIDE DEF q1, b1
<1>7. QueueTypes(f, a, NoProc, r, q1, b1)
  BY <1>1, <1>5, <1>6 DEF QueueTypes
<1>8. NoDuplicates(f, r, q1)
  BY <1>1, <1>4, <1>5 DEF NoDuplicates
<1>9. BlockedWhere(q1, b1)
  <2> SUFFICES ASSUME NEW p \in Pcb, NEW t \in Sem
               PROVE  p \in Range(q1[t]) <=> b1[p] = t
    BY DEF BlockedWhere
  <2>1. p \in Range(q[t]) <=> b[p] = t
    BY <1>1 DEF BlockedWhere
  <2>2. CASE t = s
    BY <1>3, <1>4, <1>5, <1>6, <2>1, <2>2, Zenon
  <2>3. CASE t # s
    BY <1>2, <1>3, <1>5, <1>6, <2>1, <2>3
  <2> QED BY <2>2, <2>3
<1>10. Elsewhere(a, NoProc, r, b1)
  BY <1>1, <1>2, <1>3, <1>6 DEF Elsewhere
<1>11. FreeApart(f, a)
  BY DEF Placed
<1> QED BY <1>7, <1>8, <1>9, <1>10, <1>11, Zenon DEF Placed, q1, b1

(* The head of the queue of s is woken, and enters the ready queue.        *)
LEMMA PlacedWake ==
  ASSUME NEW f, NEW a, NEW c, NEW r, NEW q, NEW b, NEW s \in Sem, NEW r1 \in Seq(Pcb),
         Placed(f, a, c, r, q, b), q[s] # <<>>,
         Range(r1) = Range(r) \cup {Head(q[s])},
         Head(q[s]) \notin Range(r) => IsInjective(r1)
  PROVE  Placed(f, a, c, r1, [q EXCEPT ![s] = Tail(@)], [b EXCEPT ![Head(q[s])] = NoSem])
<1> DEFINE h == Head(q[s])
           q1 == [q EXCEPT ![s] = Tail(@)]
           b1 == [b EXCEPT ![h] = NoSem]
<1>1. QueueTypes(f, a, c, r, q, b) /\ NoDuplicates(f, r, q) /\ BlockedWhere(q, b) /\ Elsewhere(a, c, r, b)
  BY DEF Placed
<1>2. NoProc \notin Pcb /\ NoSem \notin Sem
  BY PcbAssumption, NoSemAssumption
<1>3. q[s] \in Seq(Pcb) /\ IsInjective(q[s])
  BY <1>1 DEF QueueTypes, NoDuplicates
<1>4. /\ h \in Pcb /\ Tail(q[s]) \in Seq(Pcb)
      /\ Range(q[s]) = Range(Tail(q[s])) \cup {h}
      /\ IsInjective(Tail(q[s])) /\ h \notin Range(Tail(q[s]))
  BY <1>3, TailProperties
<1>5. q1 \in [Sem -> Seq(Pcb)] /\ q1[s] = Tail(q[s]) /\ \A t \in Sem : t # s => q1[t] = q[t]
  BY <1>1, <1>4 DEF QueueTypes
<1>6. b1 \in [Pcb -> Sem \cup {NoSem}] /\ b1[h] = NoSem /\ \A p \in Pcb : p # h => b1[p] = b[p]
  BY <1>1, <1>4 DEF QueueTypes
<1>7. b[h] = s
  BY <1>1, <1>4 DEF BlockedWhere
<1>8. h # c /\ h \notin Range(r) /\ h \in a
  BY <1>1, <1>2, <1>4, <1>7 DEF Elsewhere
<1> HIDE DEF q1, b1
<1>9. QueueTypes(f, a, c, r1, q1, b1)
  BY <1>1, <1>5, <1>6 DEF QueueTypes
<1>10. NoDuplicates(f, r1, q1)
  BY <1>1, <1>4, <1>5, <1>8 DEF NoDuplicates
<1>11. BlockedWhere(q1, b1)
  <2> SUFFICES ASSUME NEW p \in Pcb, NEW t \in Sem
               PROVE  p \in Range(q1[t]) <=> b1[p] = t
    BY DEF BlockedWhere
  <2> HIDE DEF h
  <2>1. p \in Range(q[t]) <=> b[p] = t
    BY <1>1 DEF BlockedWhere
  <2>2. CASE t = s
    BY <1>2, <1>4, <1>5, <1>6, <1>7, <2>1, <2>2
  <2>3. CASE t # s
    BY <1>2, <1>5, <1>6, <1>7, <2>1, <2>3
  <2> QED BY <2>2, <2>3
<1>12. Elsewhere(a, c, r1, b1)
  <2> HIDE DEF h
  <2>1. Range(r1) = Range(r) \cup {h}
    BY DEF h
  <2>2. Elsewhere(a, c, r, b)
    BY <1>1
  <2> QED BY <1>2, <1>4, <1>6, <1>7, <1>8, <2>1, <2>2 DEF Elsewhere
<1>13. FreeApart(f, a)
  BY DEF Placed
<1> QED BY <1>9, <1>10, <1>11, <1>12, <1>13, Zenon DEF Placed, q1, b1, h

(* CREATEPROCESS: the first free PCB and the current one become ready.     *)
LEMMA PlacedCreate ==
  ASSUME NEW f, NEW a, NEW c \in Pcb, NEW r, NEW q, NEW b, NEW r1 \in Seq(Pcb),
         Placed(f, a, c, r, q, b), f # <<>>,
         Range(r1) = Range(r) \cup {c, Head(f)},
         c \notin Range(r) /\ Head(f) \notin Range(r) /\ c # Head(f) => IsInjective(r1)
  PROVE  /\ Head(f) \in Pcb \ a
         /\ Placed(Tail(f), a \cup {Head(f)}, NoProc, r1, q, [b EXCEPT ![Head(f)] = NoSem])
<1> DEFINE h == Head(f)
           b1 == [b EXCEPT ![h] = NoSem]
<1>1. /\ QueueTypes(f, a, c, r, q, b) /\ NoDuplicates(f, r, q) /\ FreeApart(f, a)
      /\ BlockedWhere(q, b) /\ Elsewhere(a, c, r, b)
  BY DEF Placed
<1>2. NoProc \notin Pcb
  BY PcbAssumption
<1>3. f \in Seq(Pcb) /\ IsInjective(f) /\ Range(f) = Pcb \ a
  BY <1>1 DEF QueueTypes, NoDuplicates, FreeApart
<1>4. /\ h \in Pcb /\ Tail(f) \in Seq(Pcb)
      /\ Range(f) = Range(Tail(f)) \cup {h}
      /\ IsInjective(Tail(f)) /\ h \notin Range(Tail(f))
  BY <1>3, TailProperties
<1>5. h \in Pcb \ a
  BY <1>3, <1>4
<1> HIDE DEF h
<1>6. h # c /\ h \notin Range(r) /\ b[h] = NoSem /\ c \in a /\ c \notin Range(r)
  BY <1>1, <1>5 DEF Elsewhere
<1>7. b1 = b
  BY <1>1, <1>6 DEF QueueTypes
<1>8. QueueTypes(Tail(f), a \cup {h}, NoProc, r1, q, b)
  BY <1>1, <1>4 DEF QueueTypes
<1>9. NoDuplicates(Tail(f), r1, q)
  BY <1>1, <1>4, <1>6 DEF NoDuplicates, h
<1>10. FreeApart(Tail(f), a \cup {h})
  BY <1>3, <1>4, <1>5 DEF FreeApart
<1>11. Elsewhere(a \cup {h}, NoProc, r1, b)
  <2>1. Range(r1) = Range(r) \cup {c, h}
    BY DEF h
  <2> QED BY <1>1, <1>2, <1>5, <1>6, <2>1 DEF Elsewhere
<1> QED BY <1>1, <1>5, <1>7, <1>8, <1>9, <1>10, <1>11 DEF Placed, h

(* The end of terminateProcess(p) of a live process p, from wherever it is.*)
LEMMA PlacedFree ==
  ASSUME NEW f, NEW a, NEW c, NEW r, NEW q, NEW b, NEW p \in a, NEW q1,
         Placed(f, a, c, r, q, b),
         q1 = IF b[p] # NoSem /\ Contains(q[b[p]], p) THEN OutBlocked(q, b[p], p) ELSE q
  PROVE  Placed(Append(f, p), a \ {p}, IF p = c THEN NoProc ELSE c, OutProcQ(r, p), q1,
                [b EXCEPT ![p] = NoSem])
<1> DEFINE b1 == [b EXCEPT ![p] = NoSem]
           c1 == IF p = c THEN NoProc ELSE c
<1>1. /\ QueueTypes(f, a, c, r, q, b) /\ NoDuplicates(f, r, q) /\ FreeApart(f, a)
      /\ BlockedWhere(q, b) /\ Elsewhere(a, c, r, b)
  BY DEF Placed
<1>2. NoProc \notin Pcb /\ NoSem \notin Sem
  BY PcbAssumption, NoSemAssumption
<1>3. p \in Pcb /\ a \subseteq Pcb /\ Range(f) = Pcb \ a
  BY <1>1 DEF QueueTypes, FreeApart
<1>4. /\ Append(f, p) \in Seq(Pcb)
      /\ Range(Append(f, p)) = Range(f) \cup {p}
      /\ IsInjective(Append(f, p))
  <2>1. f \in Seq(Pcb) /\ IsInjective(f) /\ p \notin Range(f)
    BY <1>1, <1>3 DEF QueueTypes, NoDuplicates
  <2> QED BY <1>3, <2>1, AddTailProperties
<1>5. /\ OutProcQ(r, p) \in Seq(Pcb)
      /\ IsInjective(OutProcQ(r, p))
      /\ Range(OutProcQ(r, p)) = Range(r) \ {p}
  <2>1. r \in Seq(Pcb) /\ IsInjective(r)
    BY <1>1 DEF QueueTypes, NoDuplicates
  <2> QED BY <2>1, RemoveFirstProperties DEF OutProcQ
<1>6. b1 \in [Pcb -> Sem \cup {NoSem}] /\ b1[p] = NoSem /\ \A x \in Pcb : x # p => b1[x] = b[x]
  BY <1>1, <1>3 DEF QueueTypes
<1>7. /\ q1 \in [Sem -> Seq(Pcb)]
      /\ \A s \in Sem : IsInjective(q1[s]) /\ Range(q1[s]) = Range(q[s]) \ {p}
  <2>1. \A s \in Sem : q[s] \in Seq(Pcb) /\ IsInjective(q[s])
    BY <1>1 DEF QueueTypes, NoDuplicates
  <2>2. CASE b[p] \in Sem
    <3> DEFINE s == b[p]
    <3>1. p \in Range(q[s])
      BY <1>1, <1>3, <2>2 DEF BlockedWhere
    <3>2. Contains(q[s], p)
      BY <2>1, <2>2, <3>1, RangeEquality DEF Contains
    <3>3. q1 = [q EXCEPT ![s] = RemoveFirst(@, p)]
      BY <1>2, <2>2, <3>2 DEF OutBlocked
    <3>4. /\ RemoveFirst(q[s], p) \in Seq(Pcb)
          /\ IsInjective(RemoveFirst(q[s], p))
          /\ Range(RemoveFirst(q[s], p)) = Range(q[s]) \ {p}
      BY <2>1, <2>2, RemoveFirstProperties
    <3>5. /\ q1 \in [Sem -> Seq(Pcb)]
          /\ q1[s] = RemoveFirst(q[s], p)
          /\ \A t \in Sem : t # s => q1[t] = q[t]
      BY <1>1, <2>2, <3>3, <3>4 DEF QueueTypes
    <3>6. \A t \in Sem : t # s => p \notin Range(q[t])
      BY <1>1, <1>3 DEF BlockedWhere
    <3> HIDE DEF s
    <3>7. ASSUME NEW t \in Sem
          PROVE  IsInjective(q1[t]) /\ Range(q1[t]) = Range(q[t]) \ {p}
      <4>1. CASE t = s
        BY <3>4, <3>5, <4>1
      <4>2. CASE t # s
        BY <2>1, <3>5, <3>6, <4>2
      <4> QED BY <4>1, <4>2
    <3> QED BY <3>5, <3>7
  <2>3. CASE b[p] = NoSem
    <3>1. q1 = q
      BY <2>3
    <3>2. \A s \in Sem : p \notin Range(q[s])
      BY <1>1, <1>2, <1>3, <2>3 DEF BlockedWhere
    <3> QED BY <1>1, <2>1, <3>1, <3>2 DEF QueueTypes
  <2>4. b[p] \in Sem \/ b[p] = NoSem
    BY <1>1, <1>3 DEF QueueTypes
  <2> QED BY <2>2, <2>3, <2>4
<1>8. c1 \in Pcb \cup {NoProc} /\ c1 # p /\ (c1 # NoProc => c1 = c) /\ (p # c => c1 = c)
  BY <1>1, <1>2, <1>3 DEF QueueTypes
<1> HIDE DEF b1, c1
<1>9. QueueTypes(Append(f, p), a \ {p}, c1, OutProcQ(r, p), q1, b1)
  BY <1>3, <1>4, <1>5, <1>6, <1>7, <1>8 DEF QueueTypes
<1>10. NoDuplicates(Append(f, p), OutProcQ(r, p), q1)
  BY <1>4, <1>5, <1>7 DEF NoDuplicates
<1>11. FreeApart(Append(f, p), a \ {p})
  BY <1>3, <1>4 DEF FreeApart
<1>12. BlockedWhere(q1, b1)
  <2> SUFFICES ASSUME NEW x \in Pcb, NEW s \in Sem
               PROVE  x \in Range(q1[s]) <=> b1[x] = s
    BY DEF BlockedWhere
  <2>1. x \in Range(q[s]) <=> b[x] = s
    BY <1>1 DEF BlockedWhere
  <2>2. Range(q1[s]) = Range(q[s]) \ {p}
    BY <1>7
  <2> QED BY <1>2, <1>6, <2>1, <2>2
<1>13. Elsewhere(a \ {p}, c1, OutProcQ(r, p), b1)
  BY <1>1, <1>2, <1>3, <1>5, <1>6, <1>8 DEF Elsewhere
<1> QED BY <1>9, <1>10, <1>11, <1>12, <1>13, Zenon DEF Placed, b1, c1

(* insertBlocked never fails: each descriptor in use has a waiter of its   *)
(* own, and the process about to block is none of them.                    *)
LEMMA PlacedCanBlock ==
  ASSUME NEW f, NEW a, NEW c \in Pcb, NEW r, NEW q, NEW b, NEW s \in Sem,
         Placed(f, a, c, r, q, b)
  PROVE  CanBlock(q, s, MaxProc)
<1> DEFINE used == SemdInUse(q)
           first == [t \in used |-> Head(q[t])]
<1>1. QueueTypes(f, a, c, r, q, b) /\ BlockedWhere(q, b) /\ Elsewhere(a, c, r, b)
  BY DEF Placed
<1>2. NoSem \notin Sem /\ IsFiniteSet(Pcb)
  BY PcbAssumption, NoSemAssumption
<1>3. used \subseteq Sem /\ \A t \in used : q[t] \in Seq(Pcb) /\ q[t] # <<>>
  BY <1>1 DEF QueueTypes, SemdInUse
<1>4. ASSUME NEW t \in used
      PROVE  Head(q[t]) \in Pcb /\ b[Head(q[t])] = t
  <2>1. Head(q[t]) \in Pcb /\ Range(q[t]) = Range(Tail(q[t])) \cup {Head(q[t])}
    BY <1>3, TailProperties
  <2> QED BY <1>1, <1>3, <2>1 DEF BlockedWhere
<1>5. ASSUME NEW t \in used
      PROVE  Head(q[t]) # c
  BY <1>1, <1>2, <1>3, <1>4 DEF Elsewhere
<1> HIDE DEF used
<1>6. first \in Injection(used, Pcb \ {c})
  BY <1>4, <1>5 DEF Injection, IsInjective
<1> HIDE DEF first
<1>7. IsFiniteSet(Pcb \ {c}) /\ Cardinality(Pcb \ {c}) = Cardinality(Pcb) - 1
  BY <1>2, FS_RemoveElement
<1>8. IsFiniteSet(used) /\ Cardinality(used) <= Cardinality(Pcb) - 1
  BY <1>6, <1>7, FS_Injection
<1>9. Cardinality(used) \in Nat /\ Cardinality(Pcb) \in Nat
  BY <1>2, <1>8, FS_CardinalityType
<1>10. Cardinality(used) < Cardinality(Pcb)
  BY <1>8, <1>9
<1> QED BY <1>10 DEF CanBlock, MaxProc, used

-----------------------------------------------------------------------------
TreeTypes ==
  /\ p_parent \in [Pcb -> Pcb \cup {NoProc}]
  /\ p_child \in [Pcb -> Seq(Pcb)]

OtherTypes ==
  /\ p_prio \in [Pcb -> Prio]
  /\ p_supportStruct \in [Pcb -> BOOLEAN]
  /\ processCount \in Int /\ softBlockCount \in Int
  /\ semVal \in [Sem -> Int]
  /\ device \in [Dev -> {"idle", "busy", "done", "error"}]
  /\ issuer \in [Dev -> Pcb \cup {NoProc}]

CallTypes == terminated \subseteq Pcb /\ calls \in Seq(Pcb)

CpuTypes ==
  /\ cpu \in {"run", "wait", "terminate", "tick", "halt", "panic"}
  /\ cpu = "run" => currentProcess # NoProc
  /\ cpu = "terminate" <=> calls # <<>>

PlacedNow == Placed(pcbFree, activeProcs, currentProcess, readyQueue, s_procq, p_semAdd)

IInv ==
  /\ PlacedNow /\ TreeTypes /\ OtherTypes /\ CallTypes /\ CpuTypes
  /\ TreeLinks /\ TerminationOnce

(* IInv is the conjunction of the four invariants proved in this module. *)
LEMMA IInvIsInvariants ==
  IInv <=> TypeOK /\ OnePlace /\ TreeLinks /\ TerminationOnce
<1>1. TypeOK <=>
        /\ QueueTypes(pcbFree, activeProcs, currentProcess, readyQueue, s_procq, p_semAdd)
        /\ TreeTypes /\ OtherTypes /\ CallTypes /\ CpuTypes
  BY DEF TypeOK, QueueTypes, TreeTypes, OtherTypes, CallTypes, CpuTypes
<1>2. PlacedNow => QueueTypes(pcbFree, activeProcs, currentProcess, readyQueue, s_procq, p_semAdd)
  BY DEF PlacedNow, Placed
<1> QED BY <1>1, <1>2, PlacedIsOnePlace DEF IInv, PlacedNow

-----------------------------------------------------------------------------
(* The initial states.                                                     *)

(* pcbFree_table holds every PCB once. *)
LEMMA PcbTable ==
  ASSUME NEW table \in PcbTables
  PROVE  /\ table \in Seq(Pcb) /\ table # <<>>
         /\ IsInjective(table) /\ Range(table) = Pcb
<1>1. IsFiniteSet(Pcb) /\ Pcb # {}
  BY PcbAssumption
<1>2. MaxProc \in Nat /\ MaxProc # 0
  BY <1>1, FS_CardinalityType, FS_EmptySet DEF MaxProc
<1>3. /\ table \in [1 .. MaxProc -> Pcb]
      /\ \A p \in Pcb : \E i \in 1 .. MaxProc : table[i] = p
  BY Zenon DEF PcbTables
<1>4. table \in Seq(Pcb) /\ Len(table) = MaxProc
  BY <1>2, <1>3
<1>5. table \in Surjection(1 .. MaxProc, Pcb)
  BY <1>3, Fun_IsSurj
<1>6. Range(table) = Pcb
  BY <1>5, Fun_SurjectionProperties
<1>7. IsFiniteSet(1 .. MaxProc) /\ Cardinality(1 .. MaxProc) = MaxProc
  BY <1>2, FS_Interval
<1>8. table \in Injection(1 .. MaxProc, Pcb)
  BY <1>5, <1>7, FS_Surjection DEF MaxProc
<1>9. IsInjective(table)
  BY <1>8 DEF Injection
<1> QED BY <1>2, <1>4, <1>6, <1>9

(* The initial states satisfy the inductive invariant. *)
LEMMA InitIInv == Init => IInv
<1> SUFFICES ASSUME Init
             PROVE  IInv
  OBVIOUS
<1>1. NoProc \notin Pcb /\ NoSem \notin Sem
  BY PcbAssumption, NoSemAssumption
<1>2. PICK table \in PcbTables, values \in [Normal -> 0 .. MaxVal] : Boot(table, values)
  BY DEF Init
<1>3. table \in Seq(Pcb) /\ table # <<>> /\ IsInjective(table) /\ Range(table) = Pcb
  BY PcbTable
<1>4. /\ currentProcess \in Pcb /\ pcbFree \in Seq(Pcb)
      /\ Pcb = Range(pcbFree) \cup {currentProcess}
      /\ IsInjective(pcbFree) /\ currentProcess \notin Range(pcbFree)
  BY <1>2, <1>3, TailProperties DEF Boot
<1>5. /\ <<>> \in Seq(Pcb) /\ IsInjective(<<>>)
      /\ Range(<<>>) = {}
  BY DEF IsInjective, Range
<1>6. PlacedNow
  <2>1. QueueTypes(pcbFree, activeProcs, currentProcess, readyQueue, s_procq, p_semAdd)
    BY <1>4, <1>5, <1>2 DEF Boot, QueueTypes
  <2>2. NoDuplicates(pcbFree, readyQueue, s_procq)
    BY <1>4, <1>5, <1>2 DEF Boot, NoDuplicates
  <2>3. FreeApart(pcbFree, activeProcs)
    BY <1>4, <1>2 DEF Boot, FreeApart
  <2>4. BlockedWhere(s_procq, p_semAdd)
    BY <1>1, <1>5, <1>2 DEF Boot, BlockedWhere
  <2>5. Elsewhere(activeProcs, currentProcess, readyQueue, p_semAdd)
    BY <1>5, <1>2 DEF Boot, Elsewhere
  <2> QED BY <2>1, <2>2, <2>3, <2>4, <2>5 DEF PlacedNow, Placed
<1>7. TreeTypes /\ CallTypes
  BY <1>5, <1>2 DEF Boot, TreeTypes, CallTypes
<1>8. OtherTypes
  <2>1. semVal \in [Sem -> Int]
    <3>1. semVal \in [Sem -> 0 .. MaxVal]
      BY <1>2, BoundAssumption DEF Boot, Sem
    <3> QED BY <3>1, BoundAssumption
  <2> QED BY <2>1, PrioAssumption, <1>2 DEF Boot, OtherTypes
<1>9. CpuTypes
  BY <1>1, <1>4, <1>2 DEF Boot, CpuTypes
<1>10. TreeLinks
  BY <1>1, <1>5, <1>2 DEF Boot, TreeLinks
<1>11. TerminationOnce
  BY <1>5, <1>2 DEF Boot, TerminationOnce
<1> QED BY <1>6, <1>7, <1>8, <1>9, <1>10, <1>11 DEF IInv

-----------------------------------------------------------------------------
(* The parts handlers share.                                               *)

Scheduled ==
  /\ cpu \in {"run", "wait", "halt", "panic"}
  /\ cpu = "run" => currentProcess # NoProc

(* The scheduler moves at most the head of the ready queue.                *)
LEMMA SchedulerStep ==
  ASSUME NEW f, NEW a, NEW r, NEW q, NEW b, NEW live, NEW soft,
         Placed(f, a, NoProc, r, q, b),
         Scheduler(r, live, soft)
  PROVE  Placed(f, a, currentProcess', readyQueue', q, b) /\ Scheduled'
<1>1. CASE r # <<>>
  <2>1. currentProcess' = Head(r) /\ readyQueue' = Tail(r) /\ cpu' = "run"
    BY <1>1 DEF Scheduler
  <2>2. Placed(f, a, Head(r), Tail(r), q, b)
    BY <1>1, PlacedDispatch
  <2>3. r \in Seq(Pcb)
    BY DEF Placed, QueueTypes
  <2>4. Head(r) \in Pcb
    BY <1>1, <2>3, TailProperties
  <2> QED BY <2>1, <2>2, <2>4, PcbAssumption DEF Scheduled
<1>2. CASE r = <<>>
  BY <1>2 DEF Scheduler, Scheduled
<1> QED BY <1>1, <1>2

(* The end of a handler that may find a current process.                   *)
LEMMA ResumeStep ==
  ASSUME NEW f, NEW a, NEW c, NEW r, NEW q, NEW b, NEW live, NEW soft,
         Placed(f, a, c, r, q, b),
         ResumeOrSchedule(c, r, live, soft)
  PROVE  Placed(f, a, currentProcess', readyQueue', q, b) /\ Scheduled'
<1>1. CASE c # NoProc
  BY <1>1 DEF ResumeOrSchedule, Scheduled
<1>2. CASE c = NoProc
  BY <1>2, SchedulerStep DEF ResumeOrSchedule
<1> QED BY <1>1, <1>2

(* blockCurrentProcess always finds a descriptor, and the caller blocks.   *)
LEMMA BlockStep ==
  ASSUME PlacedNow, currentProcess # NoProc, NEW s \in Sem, NEW soft,
         BlockCurrentProcess(s, soft), UNCHANGED procs
  PROVE  PlacedNow' /\ Scheduled'
<1> DEFINE q1 == [s_procq EXCEPT ![s] = Append(@, currentProcess)]
           b1 == [p_semAdd EXCEPT ![currentProcess] = s]
<1>1. currentProcess \in Pcb
  BY DEF PlacedNow, Placed, QueueTypes
<1>2. CanBlock(s_procq, s, MaxProc)
  BY <1>1, PlacedCanBlock DEF PlacedNow
<1>3. s_procq' = q1 /\ p_semAdd' = b1
  BY <1>2 DEF BlockCurrentProcess, InsertBlocked
<1>4. Placed(pcbFree, activeProcs, NoProc, readyQueue, q1, b1)
  BY <1>1, PlacedBlock DEF PlacedNow
<1>5. Scheduler(readyQueue, processCount, soft)
  BY DEF BlockCurrentProcess
<1> HIDE DEF q1, b1
<1>6. Placed(pcbFree, activeProcs, currentProcess', readyQueue', q1, b1) /\ Scheduled'
  BY <1>4, <1>5, SchedulerStep
<1>7. pcbFree' = pcbFree /\ activeProcs' = activeProcs
  BY DEF procs
<1> QED BY <1>3, <1>6, <1>7 DEF PlacedNow

(* insertProcQ into the ready queue.                                       *)
LEMMA ReadyInsert ==
  ASSUME PlacedNow, NEW p \in Pcb, NEW r1, r1 = InsertProcQ(p_prio, readyQueue, p)
  PROVE  /\ r1 \in Seq(Pcb) /\ Range(r1) = Range(readyQueue) \cup {p}
         /\ p \notin Range(readyQueue) => IsInjective(r1)
<1>1. readyQueue \in Seq(Pcb) /\ IsInjective(readyQueue)
  BY DEF PlacedNow, Placed, QueueTypes, NoDuplicates
<1> QED BY <1>1, InsertProcQProperties

(* The head of s is woken into the ready queue by insertProcQ.             *)
LEMMA WakeStep ==
  ASSUME PlacedNow, NEW s \in Sem, s_procq[s] # <<>>, WakeOne(s),
         readyQueue' = InsertProcQ(p_prio, readyQueue, Head(s_procq[s])),
         UNCHANGED <<procs, currentProcess>>
  PROVE  PlacedNow'
<1> DEFINE h == Head(s_procq[s])
<1>1. s_procq[s] \in Seq(Pcb)
  BY DEF PlacedNow, Placed, QueueTypes
<1>2. h \in Pcb
  BY <1>1, TailProperties
<1>3. /\ readyQueue' \in Seq(Pcb) /\ Range(readyQueue') = Range(readyQueue) \cup {h}
      /\ h \notin Range(readyQueue) => IsInjective(readyQueue')
  BY <1>2, ReadyInsert
<1>4. Placed(pcbFree, activeProcs, currentProcess, readyQueue', [s_procq EXCEPT ![s] = Tail(@)],
             [p_semAdd EXCEPT ![h] = NoSem])
  BY <1>3, PlacedWake DEF PlacedNow
<1> QED BY <1>4 DEF PlacedNow, WakeOne, RemoveBlocked, procs

(* The current process goes back to the ready queue and the scheduler runs.*)
LEMMA RequeueStep ==
  ASSUME PlacedNow, currentProcess # NoProc, NEW live, NEW soft,
         Scheduler(InsertProcQ(p_prio, readyQueue, currentProcess), live, soft),
         UNCHANGED <<procs, s_procq, p_semAdd>>
  PROVE  PlacedNow' /\ Scheduled'
<1> DEFINE r1 == InsertProcQ(p_prio, readyQueue, currentProcess)
<1>1. currentProcess \in Pcb /\ currentProcess \notin Range(readyQueue)
  BY DEF PlacedNow, Placed, QueueTypes, Elsewhere
<1>2. r1 \in Seq(Pcb) /\ Range(r1) = Range(readyQueue) \cup {currentProcess} /\ IsInjective(r1)
  BY <1>1, ReadyInsert
<1>3. Scheduler(r1, live, soft)
  OBVIOUS
<1> HIDE DEF r1
<1>4. Placed(pcbFree, activeProcs, NoProc, r1, s_procq, p_semAdd)
  BY <1>1, <1>2, PlacedRequeue DEF PlacedNow
<1>5. Placed(pcbFree, activeProcs, currentProcess', readyQueue', s_procq, p_semAdd) /\ Scheduled'
  BY <1>3, <1>4, SchedulerStep
<1> QED BY <1>5 DEF PlacedNow, procs

(* A handler that leaves the process tree, the process table and the calls *)
(* of terminateProcess alone keeps what IInv says of them.                 *)
LEMMA FrameStep ==
  ASSUME IInv, PlacedNow', OtherTypes', CpuTypes', UNCHANGED <<tree, procs, calls>>
  PROVE  IInv'
<1>1. UNCHANGED <<p_parent, p_child, activeProcs, terminated, calls>>
  BY DEF tree, procs
<1>2. TreeTypes' /\ CallTypes'
  BY <1>1 DEF IInv, TreeTypes, CallTypes
<1>3. TreeLinks'
  BY <1>1 DEF IInv, TreeLinks
<1>4. TerminationOnce'
  BY <1>1 DEF IInv, TerminationOnce
<1> QED BY <1>2, <1>3, <1>4 DEF IInv

(* Changing the value of one semaphore.                                    *)
LEMMA SemValStep ==
  ASSUME IInv, NEW s \in Sem
  PROVE  /\ [semVal EXCEPT ![s] = @ - 1] \in [Sem -> Int]
         /\ [semVal EXCEPT ![s] = @ + 1] \in [Sem -> Int]
         /\ [semVal EXCEPT ![s] = 0] \in [Sem -> Int]
<1>1. semVal \in [Sem -> Int]
  BY DEF IInv, OtherTypes
<1>2. semVal[s] - 1 \in Int /\ semVal[s] + 1 \in Int /\ 0 \in Int
  BY <1>1
<1> QED BY <1>1, <1>2

(* No call of terminateProcess is active in any other handler.             *)
LEMMA NoCalls ==
  ASSUME IInv, cpu # "terminate"
  PROVE  calls = <<>>
BY DEF IInv, CpuTypes

(* What the scheduler leaves behind outside terminateProcess.              *)
LEMMA ScheduledTypes ==
  ASSUME Scheduled', calls' = <<>>
  PROVE  CpuTypes'
BY DEF Scheduled, CpuTypes

-----------------------------------------------------------------------------
(* One step per handler: those that leave the process tree alone.          *)

(* PASSEREN keeps the invariant, whether the caller blocks or goes on.     *)
LEMMA PasserenIInv ==
  ASSUME IInv, NEW s \in Normal, Passeren(s)
  PROVE  IInv'
<1>1. s \in Sem /\ UNCHANGED <<tree, procs, calls>> /\ PlacedNow /\ currentProcess # NoProc
  BY DEF Passeren, Sem, IInv, CpuTypes, Running
<1>2. calls' = <<>>
  BY <1>1, NoCalls DEF Passeren, Running
<1>3. softBlockCount' \in Int
  BY DEF Passeren, BlockCurrentProcess, IInv, OtherTypes
<1>4. OtherTypes'
  BY <1>1, <1>3, SemValStep DEF Passeren, IInv, OtherTypes, attrs, procs, devices
<1>5. CASE semVal[s] - 1 < 0
  BY <1>1, <1>2, <1>4, <1>5, BlockStep, ScheduledTypes, FrameStep DEF Passeren
<1>6. CASE ~(semVal[s] - 1 < 0)
  <2>1. PlacedNow' /\ CpuTypes'
    BY <1>1, <1>2, <1>6 DEF Passeren, PlacedNow, CpuTypes, procs, Running
  <2> QED BY <1>1, <1>4, <2>1, FrameStep
<1> QED BY <1>5, <1>6

(* VERHOGEN keeps it, whether it wakes a process or not.                   *)
LEMMA VerhogenIInv ==
  ASSUME IInv, NEW s \in Normal, Verhogen(s)
  PROVE  IInv'
<1>1. s \in Sem /\ UNCHANGED <<tree, procs, calls, currentProcess, cpu>> /\ PlacedNow
  BY DEF Verhogen, Sem, IInv
<1>2. CpuTypes'
  BY <1>1 DEF IInv, CpuTypes
<1>3. OtherTypes'
  BY <1>1, SemValStep DEF Verhogen, IInv, OtherTypes, attrs, procs, devices
<1>4. PlacedNow'
  <2>1. CASE semVal[s] + 1 <= 0 /\ s_procq[s] # <<>>
    BY <1>1, <2>1, WakeStep DEF Verhogen
  <2>2. CASE ~(semVal[s] + 1 <= 0 /\ s_procq[s] # <<>>)
    BY <1>1, <2>2 DEF Verhogen, PlacedNow, procs
  <2> QED BY <2>1, <2>2
<1> QED BY <1>1, <1>2, <1>3, <1>4, FrameStep

(* DOIO keeps it: its caller always blocks.                                *)
LEMMA DoIOIInv ==
  ASSUME IInv, NEW d \in Dev, DoIO(d)
  PROVE  IInv'
<1>1. d \in Sem /\ UNCHANGED <<tree, procs, calls>> /\ PlacedNow /\ currentProcess # NoProc
  BY DEF DoIO, Sem, Soft, IInv, CpuTypes, Running
<1>2. calls' = <<>>
  BY <1>1, NoCalls DEF DoIO, Running
<1>3. currentProcess \in Pcb
  BY <1>1 DEF PlacedNow, Placed, QueueTypes
<1>4. OtherTypes'
  <2>1. softBlockCount' \in Int /\ semVal' \in [Sem -> Int]
    BY <1>1, SemValStep DEF DoIO, BlockCurrentProcess, IInv, OtherTypes
  <2>2. device' \in [Dev -> {"idle", "busy", "done", "error"}]
    BY DEF DoIO, IInv, OtherTypes
  <2>3. issuer' \in [Dev -> Pcb \cup {NoProc}]
    BY <1>3 DEF DoIO, IInv, OtherTypes
  <2> QED BY <2>1, <2>2, <2>3 DEF DoIO, IInv, OtherTypes, attrs, procs
<1> QED BY <1>1, <1>2, <1>4, BlockStep, ScheduledTypes, FrameStep DEF DoIO

(* CLOCKWAIT keeps it: its caller always blocks.                           *)
LEMMA ClockWaitIInv ==
  ASSUME IInv, ClockWait
  PROVE  IInv'
<1>1. /\ Clock \in Sem /\ UNCHANGED <<tree, procs, calls>> /\ PlacedNow
      /\ currentProcess # NoProc
  BY DEF ClockWait, Sem, Soft, IInv, CpuTypes, Running
<1>2. calls' = <<>>
  BY <1>1, NoCalls DEF ClockWait, Running
<1>3. OtherTypes'
  <2>1. softBlockCount' \in Int /\ semVal' \in [Sem -> Int]
    BY <1>1, SemValStep DEF ClockWait, BlockCurrentProcess, IInv, OtherTypes
  <2> QED BY <2>1 DEF ClockWait, IInv, OtherTypes, attrs, procs, devices
<1> QED BY <1>1, <1>2, <1>3, BlockStep, ScheduledTypes, FrameStep DEF ClockWait

(* YIELD keeps it, whether the caller gives way or goes on.                *)
LEMMA YieldIInv ==
  ASSUME IInv, Yield
  PROVE  IInv'
<1>1. /\ UNCHANGED <<tree, procs, calls, s_procq, p_semAdd>> /\ PlacedNow
      /\ currentProcess # NoProc
  BY DEF Yield, sems, IInv, CpuTypes, Running
<1>2. calls' = <<>>
  BY <1>1, NoCalls DEF Yield, Running
<1>3. OtherTypes'
  BY DEF Yield, IInv, OtherTypes, attrs, procs, sems, devices
<1>4. CASE readyQueue # <<>> /\ p_prio[Head(readyQueue)] >= p_prio[currentProcess]
  BY <1>1, <1>2, <1>3, <1>4, RequeueStep, ScheduledTypes, FrameStep DEF Yield
<1>5. CASE ~(readyQueue # <<>> /\ p_prio[Head(readyQueue)] >= p_prio[currentProcess])
  <2>1. PlacedNow' /\ CpuTypes'
    BY <1>1, <1>2, <1>5 DEF Yield, PlacedNow, CpuTypes, procs, Running
  <2> QED BY <1>1, <1>3, <2>1, FrameStep
<1> QED BY <1>4, <1>5

(* The end of a time slice keeps it: the current process is requeued.      *)
LEMMA TimeSliceIInv ==
  ASSUME IInv, TimeSlice
  PROVE  IInv'
<1>1. /\ UNCHANGED <<tree, procs, calls, s_procq, p_semAdd>> /\ PlacedNow
      /\ currentProcess # NoProc
  BY DEF TimeSlice, sems, IInv, CpuTypes, Running
<1>2. calls' = <<>>
  BY <1>1, NoCalls DEF TimeSlice, Running
<1>3. OtherTypes'
  BY DEF TimeSlice, IInv, OtherTypes, attrs, procs, sems, devices
<1> QED BY <1>1, <1>2, <1>3, RequeueStep, ScheduledTypes, FrameStep DEF TimeSlice

(* The interval timer's handler starts, and moves no process.              *)
LEMMA IntervalTimerIInv ==
  ASSUME IInv, IntervalTimer
  PROVE  IInv'
<1>1. /\ UNCHANGED <<tree, procs, calls, s_procq, p_semAdd, readyQueue, currentProcess>>
      /\ cpu' = "tick"
  BY DEF IntervalTimer, sems
<1>2. calls' = <<>>
  BY <1>1, NoCalls DEF IntervalTimer, Interruptible
<1>3. OtherTypes'
  BY DEF IntervalTimer, IInv, OtherTypes, attrs, procs, sems, devices
<1>4. PlacedNow' /\ CpuTypes'
  BY <1>1, <1>2 DEF IInv, PlacedNow, CpuTypes, procs
<1> QED BY <1>1, <1>3, <1>4, FrameStep

(* One turn of the loop over the clock's waiters keeps it.                 *)
LEMMA TickWakeIInv ==
  ASSUME IInv, TickWake
  PROVE  IInv'
<1>1. /\ Clock \in Sem /\ UNCHANGED <<tree, procs, calls, currentProcess, cpu>> /\ PlacedNow
  BY DEF TickWake, Sem, Soft, IInv
<1>2. OtherTypes'
  BY DEF TickWake, IInv, OtherTypes, attrs, procs, devices
<1>3. CpuTypes'
  BY <1>1 DEF IInv, CpuTypes
<1>4. PlacedNow'
  BY <1>1, WakeStep DEF TickWake
<1> QED BY <1>1, <1>2, <1>3, <1>4, FrameStep

(* The end of that loop keeps it, with or without a current process.       *)
LEMMA TickEndIInv ==
  ASSUME IInv, TickEnd
  PROVE  IInv'
<1>1. /\ Clock \in Sem /\ UNCHANGED <<tree, procs, calls, s_procq, p_semAdd>> /\ PlacedNow
  BY DEF TickEnd, IInv, Sem, Soft
<1>2. calls' = <<>>
  BY <1>1, NoCalls DEF TickEnd
<1>3. OtherTypes'
  BY <1>1, SemValStep DEF TickEnd, IInv, OtherTypes, attrs, procs, devices
<1>4. Placed(pcbFree, activeProcs, currentProcess', readyQueue', s_procq, p_semAdd) /\ Scheduled'
  BY <1>1, ResumeStep DEF TickEnd, PlacedNow
<1>5. PlacedNow'
  BY <1>1, <1>4 DEF PlacedNow, procs
<1> QED BY <1>1, <1>2, <1>3, <1>4, <1>5, ScheduledTypes, FrameStep

(* A device that ends its operation moves no process.                      *)
LEMMA DeviceEndsIInv ==
  ASSUME IInv, NEW d \in Dev, DeviceDone(d) \/ DeviceError(d)
  PROVE  IInv'
<1>1. UNCHANGED <<tree, procs, calls, s_procq, p_semAdd, readyQueue, currentProcess, cpu>>
  BY DEF DeviceDone, DeviceError, sems
<1>2. device' \in [Dev -> {"idle", "busy", "done", "error"}]
  BY DEF DeviceDone, DeviceError, IInv, OtherTypes
<1>3. OtherTypes'
  BY <1>2 DEF DeviceDone, DeviceError, IInv, OtherTypes, attrs, procs, sems
<1>4. PlacedNow' /\ CpuTypes'
  BY <1>1 DEF IInv, PlacedNow, CpuTypes, procs
<1> QED BY <1>1, <1>3, <1>4, FrameStep

-----------------------------------------------------------------------------
(* The interrupts of devices and terminals: WokenQ and WokenB are what the *)
(* queues and p_semAdd become when the heads of the queues of W are woken. *)

WokenQ(W) == [s \in Sem |-> IF s \in W THEN Tail(s_procq[s]) ELSE s_procq[s]]
WokenB(W) == [p \in Pcb |-> IF \E d \in W : Head(s_procq[d]) = p THEN NoSem ELSE p_semAdd[p]]

(* An interrupt that finds nobody to wake moves no process.                *)
LEMMA WakeNone ==
  ASSUME PlacedNow
  PROVE  Placed(pcbFree, activeProcs, currentProcess, readyQueue, WokenQ({}), WokenB({}))
<1>1. s_procq \in [Sem -> Seq(Pcb)] /\ p_semAdd \in [Pcb -> Sem \cup {NoSem}]
  BY DEF PlacedNow, Placed, QueueTypes
<1>2. WokenQ({}) = s_procq /\ WokenB({}) = p_semAdd
  BY <1>1 DEF WokenQ, WokenB
<1> QED BY <1>2 DEF PlacedNow

(* One more waiter of an interrupt's sub-devices is woken.                 *)
LEMMA WakeMore ==
  ASSUME PlacedNow, NEW W \in SUBSET Sem, NEW s \in Sem, s \notin W, s_procq[s] # <<>>,
         NEW f, NEW a, NEW c, NEW r, NEW r1 \in Seq(Pcb),
         Placed(f, a, c, r, WokenQ(W), WokenB(W)),
         Range(r1) = Range(r) \cup {Head(s_procq[s])},
         Head(s_procq[s]) \notin Range(r) => IsInjective(r1)
  PROVE  Placed(f, a, c, r1, WokenQ(W \cup {s}), WokenB(W \cup {s}))
<1> DEFINE q == WokenQ(W)
           b == WokenB(W)
<1>1. q[s] = s_procq[s]
  BY DEF WokenQ
<1>2. WokenQ(W \cup {s}) = [q EXCEPT ![s] = Tail(@)]
  BY <1>1 DEF WokenQ
<1>3. WokenB(W \cup {s}) = [b EXCEPT ![Head(q[s])] = NoSem]
  BY <1>1 DEF WokenB
<1> HIDE DEF q, b
<1>4. Placed(f, a, c, r, q, b)
  BY DEF q, b
<1>5. q[s] # <<>> /\ Range(r1) = Range(r) \cup {Head(q[s])} /\ (Head(q[s]) \notin Range(r) => IsInjective(r1))
  BY <1>1
<1>6. Placed(f, a, c, r1, [q EXCEPT ![s] = Tail(@)], [b EXCEPT ![Head(q[s])] = NoSem])
  BY <1>4, <1>5, PlacedWake
<1> QED BY <1>2, <1>3, <1>6

(* Acknowledging sub-devices, once it is known where the waiters go.       *)
LEMMA AcknowledgeStep ==
  ASSUME IInv, Interruptible, NEW ds \in SUBSET Dev, IsFiniteSet(ds), NEW rq,
         Placed(pcbFree, activeProcs, currentProcess, rq, WokenQ(Woken(ds)), WokenB(Woken(ds))),
         Acknowledge(ds, rq)
  PROVE  IInv'
<1> DEFINE W == Woken(ds)
           soft == softBlockCount - Cardinality(W)
<1>1. UNCHANGED <<tree, procs, calls>> /\ calls' = <<>>
  BY NoCalls DEF Acknowledge, Interruptible
<1>2. Cardinality(W) \in Nat
  <2>1. W \in SUBSET ds
    BY DEF Woken, Completed
  <2> QED BY <2>1, FS_Subset, FS_CardinalityType
<1>3. ResumeOrSchedule(currentProcess, rq, processCount, soft)
  BY DEF Acknowledge
<1>4. Placed(pcbFree, activeProcs, currentProcess', readyQueue', WokenQ(W), WokenB(W)) /\ Scheduled'
  BY <1>3, ResumeStep
<1>5. PlacedNow'
  <2>1. s_procq' = WokenQ(W) /\ p_semAdd' = WokenB(W)
    BY DEF Acknowledge, WokenQ, WokenB
  <2>2. pcbFree' = pcbFree /\ activeProcs' = activeProcs
    BY <1>1 DEF procs
  <2> QED BY <1>4, <2>1, <2>2 DEF PlacedNow
<1>6. CpuTypes'
  BY <1>1, <1>4, ScheduledTypes
<1>7. OtherTypes'
  <2>1. softBlockCount' \in Int
    BY <1>2 DEF Acknowledge, IInv, OtherTypes
  <2>2. semVal' \in [Sem -> Int]
    BY DEF Acknowledge, IInv, OtherTypes
  <2>3. device' \in [Dev -> {"idle", "busy", "done", "error"}]
    BY DEF Acknowledge, IInv, OtherTypes
  <2>4. issuer' \in [Dev -> Pcb \cup {NoProc}]
    BY DEF Acknowledge, IInv, OtherTypes
  <2> QED BY <2>1, <2>2, <2>3, <2>4 DEF Acknowledge, IInv, OtherTypes, attrs, procs
<1> QED BY <1>1, <1>5, <1>6, <1>7, FrameStep

(* The interrupt of a device of lines 3 to 6 keeps it.                     *)
LEMMA DeviceInterruptIInv ==
  ASSUME IInv, NEW line \in PlainLine, NEW n \in DevNo, DeviceInterrupt(line, n)
  PROVE  IInv'
<1> DEFINE d == <<line, n>>
           rq == IF d \in Woken({d}) THEN InsertProcQ(p_prio, readyQueue, Head(s_procq[d]))
                                     ELSE readyQueue
<1>1. d \in Dev /\ d \in Sem
  BY DEF Dev, PlainDev, Sem, Soft
<1> HIDE DEF d
<1>2. Interruptible /\ Acknowledge({d}, rq)
  BY DEF DeviceInterrupt, d
<1>3. PlacedNow
  BY DEF IInv
<1>4. Placed(pcbFree, activeProcs, currentProcess, rq, WokenQ(Woken({d})), WokenB(Woken({d})))
  <2>1. CASE d \in Woken({d})
    <3> DEFINE h == Head(s_procq[d])
    <3>1. Woken({d}) = {} \cup {d} /\ s_procq[d] # <<>>
      BY <2>1 DEF Woken, Completed
    <3>2. s_procq[d] \in Seq(Pcb)
      BY <1>1, <1>3 DEF PlacedNow, Placed, QueueTypes
    <3>3. h \in Pcb
      BY <3>1, <3>2, TailProperties
    <3> HIDE DEF h
    <3>4. rq = InsertProcQ(p_prio, readyQueue, h)
      BY <2>1 DEF h
    <3> HIDE DEF rq
    <3>5. rq \in Seq(Pcb) /\ Range(rq) = Range(readyQueue) \cup {h}
          /\ (h \notin Range(readyQueue) => IsInjective(rq))
      BY <1>3, <3>3, <3>4, ReadyInsert
    <3> QED BY <1>1, <1>3, <3>1, <3>5, WakeNone, WakeMore DEF h
  <2>2. CASE d \notin Woken({d})
    <3>1. Woken({d}) = {}
      BY <2>2 DEF Woken, Completed
    <3> QED BY <1>3, <2>2, <3>1, WakeNone
  <2> QED BY <2>1, <2>2
<1>5. {d} \in SUBSET Dev /\ IsFiniteSet({d})
  BY <1>1, FS_Singleton
<1> HIDE DEF rq
<1> QED BY <1>2, <1>4, <1>5, AcknowledgeStep

(* The terminal interrupt keeps it, for none, one or both sub-devices.     *)
LEMMA TerminalInterruptIInv ==
  ASSUME IInv, NEW n \in TermNo, TerminalInterrupt(n)
  PROVE  IInv'
<1> DEFINE tx == <<"tx", n>>
           rx == <<"rx", n>>
           ds == {d \in {tx, rx} : device[d] = "done"}
           W  == Woken(ds)
           W1 == W \cap {tx}
           r1 == IF tx \in W THEN Append(readyQueue, Head(s_procq[tx])) ELSE readyQueue
           r2 == IF rx \in W THEN InsertProcQ(p_prio, r1, Head(s_procq[rx])) ELSE r1
<1>1. tx \in Dev /\ rx \in Dev /\ tx \in Sem /\ rx \in Sem /\ tx # rx
  BY DEF Dev, TxDev, RxDev, Sem, Soft
<1>2. Interruptible /\ Acknowledge(ds, r2)
  BY DEF TerminalInterrupt
<1>3. PlacedNow
  BY DEF IInv
<1> HIDE DEF tx, rx
<1>4. ds \in SUBSET Dev /\ IsFiniteSet(ds)
  <2>1. IsFiniteSet({tx, rx})
    <3>1. IsFiniteSet({tx})
      BY FS_Singleton
    <3>2. IsFiniteSet({tx} \cup {rx})
      BY <3>1, FS_AddElement
    <3>3. {tx, rx} = {tx} \cup {rx}
      OBVIOUS
    <3> QED BY <3>2, <3>3
  <2>2. ds \in SUBSET {tx, rx}
    OBVIOUS
  <2> HIDE DEF ds
  <2> QED BY <1>1, <2>1, <2>2, FS_Subset
<1>5. W \subseteq {tx, rx} /\ \A d \in W : s_procq[d] # <<>> /\ Head(s_procq[d]) \in Pcb
  <2>1. W \subseteq {tx, rx} /\ \A d \in W : s_procq[d] # <<>>
    BY DEF Woken, Completed
  <2>2. \A d \in W : s_procq[d] \in Seq(Pcb)
    BY <1>1, <1>3, <2>1 DEF PlacedNow, Placed, QueueTypes
  <2> QED BY <2>1, <2>2, TailProperties
<1> HIDE DEF ds, W
<1>6. Placed(pcbFree, activeProcs, currentProcess, r1, WokenQ(W1), WokenB(W1))
  <2>1. CASE tx \in W
    <3> DEFINE h == Head(s_procq[tx])
    <3>1. W1 = {} \cup {tx} /\ s_procq[tx] # <<>> /\ h \in Pcb
      BY <1>5, <2>1
    <3> HIDE DEF h
    <3>2. readyQueue \in Seq(Pcb) /\ IsInjective(readyQueue)
      BY <1>3 DEF PlacedNow, Placed, QueueTypes, NoDuplicates
    <3>3. r1 = Append(readyQueue, h)
      BY <2>1 DEF h
    <3> HIDE DEF r1
    <3>4. r1 \in Seq(Pcb) /\ Range(r1) = Range(readyQueue) \cup {h}
          /\ (h \notin Range(readyQueue) => IsInjective(r1))
      BY <3>1, <3>2, <3>3, AddTailProperties
    <3> QED BY <1>1, <1>3, <3>1, <3>4, WakeNone, WakeMore DEF h
  <2>2. CASE tx \notin W
    <3>1. W1 = {} /\ r1 = readyQueue
      BY <2>2
    <3> QED BY <1>3, <3>1, WakeNone
  <2> QED BY <2>1, <2>2
<1> HIDE DEF r1
<1>7. Placed(pcbFree, activeProcs, currentProcess, r2, WokenQ(W), WokenB(W))
  <2>1. CASE rx \in W
    <3> DEFINE h == Head(s_procq[rx])
    <3>1. W = W1 \cup {rx} /\ rx \notin W1 /\ W1 \in SUBSET Sem /\ s_procq[rx] # <<>> /\ h \in Pcb
      BY <1>1, <1>5, <2>1
    <3> HIDE DEF h, W1
    <3>2. r1 \in Seq(Pcb) /\ IsInjective(r1)
      BY <1>6 DEF Placed, QueueTypes, NoDuplicates
    <3>3. r2 = InsertProcQ(p_prio, r1, h)
      BY <2>1 DEF h
    <3> HIDE DEF r2
    <3>4. r2 \in Seq(Pcb) /\ Range(r2) = Range(r1) \cup {h}
          /\ (h \notin Range(r1) => IsInjective(r2))
      BY <3>1, <3>2, <3>3, InsertProcQProperties
    <3> QED BY <1>1, <1>3, <1>6, <3>1, <3>4, WakeMore DEF h
  <2>2. CASE rx \notin W
    <3>1. W = W1 /\ r2 = r1
      BY <1>5, <2>2
    <3> QED BY <1>6, <3>1
  <2> QED BY <2>1, <2>2
<1> HIDE DEF r2
<1> QED BY <1>2, <1>4, <1>7, AcknowledgeStep DEF W

-----------------------------------------------------------------------------
(* CREATEPROCESS.                                                          *)

(* CREATEPROCESS keeps it, and always finds a slot in activeProcs[].       *)
LEMMA CreateProcessIInv ==
  ASSUME IInv, NEW prio \in Prio, NEW support \in Support, CreateProcess(prio, support)
  PROVE  IInv'
<1> DEFINE child == Head(pcbFree)
           cur   == currentProcess
           prios == [p_prio EXCEPT ![child] = prio]
           r1    == InsertProcQ(prios, readyQueue, cur)
           r2    == InsertProcQ(prios, r1, child)
           b1    == [p_semAdd EXCEPT ![child] = NoSem]
<1>1. /\ PlacedNow /\ pcbFree # <<>> /\ cur # NoProc /\ cur \in Pcb /\ calls = <<>>
      /\ calls' = calls /\ s_procq' = s_procq
  BY NoCalls DEF CreateProcess, Running, IInv, CpuTypes, PlacedNow, Placed, QueueTypes
<1>2. pcbFree \in Seq(Pcb) /\ readyQueue \in Seq(Pcb) /\ IsInjective(readyQueue)
  BY <1>1 DEF PlacedNow, Placed, QueueTypes, NoDuplicates
<1>3. /\ child \in Pcb \ activeProcs
      /\ cur \in activeProcs /\ cur \notin Range(readyQueue)
      /\ child \notin Range(readyQueue) /\ cur # child
  <2>1. child \in Pcb /\ child \in Range(pcbFree)
    BY <1>1, <1>2, TailProperties
  <2>2. Range(pcbFree) = Pcb \ activeProcs /\ Elsewhere(activeProcs, cur, readyQueue, p_semAdd)
    BY <1>1 DEF PlacedNow, Placed, FreeApart
  <2> HIDE DEF child, cur
  <2>3. child \in Pcb \ activeProcs
    BY <2>1, <2>2
  <2> QED BY <1>1, <2>2, <2>3 DEF Elsewhere
<1>4. /\ p_parent' = [p_parent EXCEPT ![child] = cur]
      /\ p_child' = [p_child EXCEPT ![child] = <<>>, ![cur] = Append(@, child)]
      /\ activeProcs' = activeProcs \cup {child}
      /\ terminated' = terminated \ {child}
      /\ pcbFree' = Tail(pcbFree)
      /\ p_semAdd' = b1
      /\ p_prio' = prios
  BY DEF CreateProcess, AllocPcb
<1>5. activeProcs # Pcb => Scheduler(r2, processCount + 1, softBlockCount)
  BY DEF CreateProcess
<1>6. OtherTypes'
  <2>1. p_prio' \in [Pcb -> Prio] /\ p_supportStruct' \in [Pcb -> BOOLEAN]
    BY SupportAssumption DEF CreateProcess, IInv, OtherTypes
  <2> QED BY <2>1 DEF CreateProcess, IInv, OtherTypes, devices
<1>7. r1 = InsertProcQ(prios, readyQueue, cur) /\ r2 = InsertProcQ(prios, r1, child)
  OBVIOUS
<1> HIDE DEF child, cur, prios, r1, r2
<1>8. /\ r2 \in Seq(Pcb) /\ Range(r2) = Range(readyQueue) \cup {cur, child}
      /\ IsInjective(r2)
  <2>1. r1 \in Seq(Pcb) /\ Range(r1) = Range(readyQueue) \cup {cur}
    BY <1>1, <1>2, <1>7, Inserted
  <2>2. IsInjective(r1)
    BY <1>1, <1>2, <1>3, <1>7, Inserted
  <2>3. r2 \in Seq(Pcb) /\ Range(r2) = Range(r1) \cup {child}
    BY <1>3, <1>7, <2>1, <2>2, Inserted
  <2>4. IsInjective(r2)
    BY <1>3, <1>7, <2>1, <2>2, Inserted
  <2> QED BY <2>1, <2>3, <2>4
<1>9. Placed(Tail(pcbFree), activeProcs \cup {child}, NoProc, r2, s_procq, b1)
  BY <1>1, <1>8, PlacedCreate DEF PlacedNow, child, cur, b1
<1>10. Placed(Tail(pcbFree), activeProcs \cup {child}, currentProcess', readyQueue', s_procq, b1)
       /\ Scheduled'
  BY <1>3, <1>5, <1>9, SchedulerStep
<1>11. PlacedNow' /\ CpuTypes'
  BY <1>1, <1>4, <1>10, ScheduledTypes DEF PlacedNow
<1>12. TreeTypes /\ TreeLinks
  BY DEF IInv
<1>13. p_parent[child] = NoProc /\ \A x \in Pcb : p_parent[x] # child /\ child \notin Range(p_child[x])
  BY <1>3, <1>9, <1>12, PcbAssumption DEF TreeTypes, TreeLinks
<1>14. /\ Append(p_child[cur], child) \in Seq(Pcb)
       /\ Range(Append(p_child[cur], child)) = Range(p_child[cur]) \cup {child}
       /\ IsInjective(Append(p_child[cur], child))
  <2>1. p_child[cur] \in Seq(Pcb) /\ IsInjective(p_child[cur]) /\ child \notin Range(p_child[cur])
    BY <1>1, <1>12, <1>13 DEF TreeTypes, TreeLinks
  <2> QED BY <1>3, <2>1, AddTailProperties
<1>15. <<>> \in Seq(Pcb) /\ IsInjective(<<>>) /\ Range(<<>>) = {}
  BY DEF IsInjective, Range
<1>16. /\ p_child' \in [Pcb -> Seq(Pcb)]
       /\ p_child'[child] = <<>>
       /\ p_child'[cur] = Append(p_child[cur], child)
       /\ \A x \in Pcb : x # child /\ x # cur => p_child'[x] = p_child[x]
  BY <1>1, <1>3, <1>4, <1>12, <1>14, <1>15 DEF TreeTypes
<1>17. /\ p_parent' \in [Pcb -> Pcb \cup {NoProc}]
       /\ p_parent'[child] = cur
       /\ \A x \in Pcb : x # child => p_parent'[x] = p_parent[x]
  BY <1>1, <1>3, <1>4, <1>12 DEF TreeTypes
<1>18. TreeTypes'
  BY <1>16, <1>17 DEF TreeTypes
<1>19. TreeLinks'
  <2>1. ASSUME NEW x \in Pcb
        PROVE  IsInjective(p_child'[x])
    <3>1. IsInjective(p_child[x])
      BY <1>12 DEF TreeLinks
    <3>2. p_child'[x] \in {<<>>, Append(p_child[cur], child), p_child[x]}
      BY <1>16
    <3> QED BY <1>14, <1>15, <3>1, <3>2
  <2>2. ASSUME NEW x \in Pcb, NEW c \in Pcb
        PROVE  c \in Range(p_child'[x]) <=> p_parent'[c] = x
    <3>1. c \in Range(p_child[x]) <=> p_parent[c] = x
      BY <1>12 DEF TreeLinks
    <3>2. CASE x = child
      BY <1>3, <1>13, <1>15, <1>16, <1>17, <3>2
    <3>3. CASE x = cur
      BY <1>3, <1>13, <1>14, <1>16, <1>17, <3>1, <3>3
    <3>4. CASE x # child /\ x # cur
      BY <1>13, <1>16, <1>17, <3>1, <3>4
    <3> QED BY <3>2, <3>3, <3>4
  <2>3. ASSUME NEW c \in Pcb, p_parent'[c] # NoProc
        PROVE  {c, p_parent'[c]} \subseteq activeProcs'
    BY <1>4, <1>3, <1>12, <1>17, <2>3 DEF TreeLinks
  <2> QED BY <2>1, <2>2, <2>3 DEF TreeLinks
<1>20. TerminationOnce'
  <2>1. terminated \cap activeProcs = {}
    BY <1>1, <1>15 DEF IInv, TerminationOnce
  <2> QED BY <1>1, <1>4, <1>15, <2>1 DEF TerminationOnce
<1>21. CallTypes'
  BY <1>1, <1>4 DEF IInv, CallTypes
<1> QED BY <1>6, <1>11, <1>18, <1>19, <1>20, <1>21 DEF IInv

-----------------------------------------------------------------------------
(* Termination.                                                            *)

(* The outermost call of terminateProcess on a live process keeps it.      *)
LEMMA TerminateIInv ==
  ASSUME IInv, Running, NEW target \in activeProcs, Terminate(target)
  PROVE  IInv'
<1>1. /\ UNCHANGED <<pcbFree, activeProcs, currentProcess, readyQueue, s_procq, p_semAdd>>
      /\ UNCHANGED <<p_parent, p_child, p_prio, p_supportStruct, processCount, softBlockCount>>
      /\ UNCHANGED <<semVal, device, issuer>>
      /\ calls' = <<target>> /\ terminated' = terminated \cup {target} /\ cpu' = "terminate"
  BY DEF Terminate, tree, attrs, sems, devices
<1>2. calls = <<>> /\ target \in Pcb
  BY NoCalls DEF Running, IInv, PlacedNow, Placed, QueueTypes
<1>3. PlacedNow' /\ TreeTypes' /\ OtherTypes' /\ TreeLinks'
  BY <1>1 DEF IInv, PlacedNow, TreeTypes, OtherTypes, TreeLinks
<1>4. CallTypes' /\ CpuTypes'
  BY <1>1, <1>2 DEF IInv, CallTypes, CpuTypes
<1>5. Range(<<>>) = {} /\ Range(<<target>>) = {target} /\ IsInjective(<<target>>)
  BY DEF Range, IsInjective
<1>6. TerminationOnce'
  BY <1>1, <1>2, <1>5 DEF IInv, TerminationOnce
<1> QED BY <1>3, <1>4, <1>6 DEF IInv

(* TERMPROCESS keeps it, for the caller or any other process.              *)
LEMMA TermProcessIInv ==
  ASSUME IInv, NEW target \in Pcb, TermProcess(target)
  PROVE  IInv'
BY TerminateIInv DEF TermProcess

(* passUpOrDie of a process without a support structure keeps it.          *)
LEMMA PassUpOrDieIInv ==
  ASSUME IInv, PassUpOrDie
  PROVE  IInv'
<1>1. Running /\ Terminate(currentProcess)
  BY DEF PassUpOrDie
<1>2. currentProcess \in activeProcs
  BY <1>1 DEF Running, IInv, CpuTypes, PlacedNow, Placed, QueueTypes, Elsewhere
<1> QED BY <1>1, <1>2, TerminateIInv

(* One turn of the loop over removeChild keeps it.                         *)
LEMMA TerminateChildIInv ==
  ASSUME IInv, TerminateChild
  PROVE  IInv'
<1> DEFINE p     == Head(calls)
           child == Head(p_child[p])
           rest  == Tail(p_child[p])
<1>1. /\ UNCHANGED <<pcbFree, activeProcs, currentProcess, readyQueue, s_procq, p_semAdd>>
      /\ UNCHANGED <<p_prio, p_supportStruct, processCount, softBlockCount>>
      /\ UNCHANGED <<semVal, device, issuer, cpu>>
      /\ cpu = "terminate" /\ p_child[p] # <<>>
      /\ p_child' = [p_child EXCEPT ![p] = rest]
      /\ p_parent' = [p_parent EXCEPT ![child] = NoProc]
      /\ calls' = IF child \in terminated THEN calls ELSE <<child>> \o calls
      /\ terminated' = terminated \cup {child}
  BY DEF TerminateChild, attrs, sems, devices
<1>2. calls # <<>> /\ calls \in Seq(Pcb) /\ terminated \subseteq Pcb
  BY <1>1 DEF IInv, CpuTypes, CallTypes
<1>3. p \in Pcb
  BY <1>2, TailProperties
<1> HIDE DEF p
<1>4. TreeTypes /\ TreeLinks /\ NoProc \notin Pcb
  BY PcbAssumption DEF IInv
<1>5. p_child[p] \in Seq(Pcb) /\ IsInjective(p_child[p])
  BY <1>3, <1>4 DEF TreeTypes, TreeLinks
<1>6. /\ child \in Pcb /\ rest \in Seq(Pcb)
      /\ Range(p_child[p]) = Range(rest) \cup {child}
      /\ IsInjective(rest) /\ child \notin Range(rest)
  BY <1>1, <1>5, TailProperties
<1> HIDE DEF child, rest
<1>7. p_parent[child] = p /\ child \in activeProcs
  BY <1>3, <1>4, <1>6 DEF TreeLinks
<1>8. PlacedNow' /\ OtherTypes'
  BY <1>1 DEF IInv, PlacedNow, OtherTypes
<1>9. calls' \in Seq(Pcb) /\ calls' # <<>> /\ TerminationOnce'
  <2>1. IsInjective(calls) /\ Range(calls) = terminated \cap activeProcs
    BY DEF IInv, TerminationOnce
  <2>2. CASE child \in terminated
    <3>1. calls' = calls /\ terminated' = terminated /\ activeProcs' = activeProcs
      BY <1>1, <2>2
    <3> QED BY <1>2, <2>1, <3>1 DEF TerminationOnce
  <2>3. CASE child \notin terminated
    <3> DEFINE more == <<child>> \o calls
    <3>1. calls' = more
      BY <1>1, <2>3
    <3>2. more \in Seq(Pcb) /\ more # <<>> /\ Range(more) = Range(calls) \cup {child}
      BY <1>2, <1>6, PushProperties
    <3>3. child \notin Range(calls)
      BY <2>1, <2>3
    <3>4. IsInjective(more)
      BY <1>2, <1>6, <2>1, <3>3, PushProperties
    <3> HIDE DEF more
    <3>5. Range(more) = terminated' \cap activeProcs'
      BY <1>1, <1>7, <2>1, <3>2
    <3> QED BY <3>1, <3>2, <3>4, <3>5 DEF TerminationOnce
  <2> QED BY <2>2, <2>3
<1>10. CallTypes' /\ CpuTypes'
  BY <1>1, <1>2, <1>6, <1>9 DEF IInv, CallTypes, CpuTypes
<1>11. /\ p_child' \in [Pcb -> Seq(Pcb)] /\ p_child'[p] = rest
       /\ \A x \in Pcb : x # p => p_child'[x] = p_child[x]
  BY <1>1, <1>3, <1>4, <1>6 DEF TreeTypes
<1>12. /\ p_parent' \in [Pcb -> Pcb \cup {NoProc}] /\ p_parent'[child] = NoProc
       /\ \A x \in Pcb : x # child => p_parent'[x] = p_parent[x]
  BY <1>1, <1>4, <1>6 DEF TreeTypes
<1>13. TreeTypes'
  BY <1>11, <1>12 DEF TreeTypes
<1>14. TreeLinks'
  <2>1. \A x \in Pcb : IsInjective(p_child'[x])
    BY <1>4, <1>6, <1>11 DEF TreeLinks
  <2>2. ASSUME NEW x \in Pcb, NEW c \in Pcb
        PROVE  c \in Range(p_child'[x]) <=> p_parent'[c] = x
    <3>1. c \in Range(p_child[x]) <=> p_parent[c] = x
      BY <1>4 DEF TreeLinks
    <3>2. CASE x = p
      BY <1>4, <1>6, <1>11, <1>12, <3>1, <3>2
    <3>3. CASE x # p
      BY <1>4, <1>7, <1>11, <1>12, <3>1, <3>3
    <3> QED BY <3>2, <3>3
  <2>3. ASSUME NEW c \in Pcb, p_parent'[c] # NoProc
        PROVE  {c, p_parent'[c]} \subseteq activeProcs'
    BY <1>1, <1>4, <1>12, <2>3 DEF TreeLinks
  <2> QED BY <2>1, <2>2, <2>3 DEF TreeLinks
<1> QED BY <1>8, <1>9, <1>10, <1>13, <1>14 DEF IInv

(* The end of a call of terminateProcess keeps it, nested or outermost.    *)
LEMMA TerminateSelfIInv ==
  ASSUME IInv, TerminateSelf
  PROVE  IInv'
<1> DEFINE p   == Head(calls)
           rq  == OutProcQ(readyQueue, p)
           cur == IF p = currentProcess THEN NoProc ELSE currentProcess
           b1  == [p_semAdd EXCEPT ![p] = NoSem]
           up  == p_parent[p]
<1>1. /\ cpu = "terminate" /\ p_child[p] = <<>> /\ OutChild(p)
      /\ activeProcs' = activeProcs \ {p}
      /\ LeaveSemaphore(p)
      /\ pcbFree' = Append(pcbFree, p)
      /\ processCount' = processCount - 1
      /\ calls' = Tail(calls)
      /\ issuer' = [d \in Dev |-> IF issuer[d] = p THEN NoProc ELSE issuer[d]]
      /\ UNCHANGED <<p_prio, p_supportStruct, terminated, device>>
  BY DEF TerminateSelf, attrs
<1>2. IF Tail(calls) = <<>>
      THEN ResumeOrSchedule(cur, rq, processCount - 1, softBlockCount')
      ELSE readyQueue' = rq /\ currentProcess' = cur /\ UNCHANGED cpu
  BY DEF TerminateSelf
<1>3. calls # <<>> /\ calls \in Seq(Pcb) /\ terminated \subseteq Pcb
  BY <1>1 DEF IInv, CpuTypes, CallTypes
<1>4. IsInjective(calls) /\ Range(calls) = terminated \cap activeProcs
  BY DEF IInv, TerminationOnce
<1>5. /\ p \in Pcb /\ Tail(calls) \in Seq(Pcb)
      /\ Range(calls) = Range(Tail(calls)) \cup {p}
      /\ IsInjective(Tail(calls)) /\ p \notin Range(Tail(calls))
  BY <1>3, <1>4, TailProperties
<1> HIDE DEF p
<1>6. p \in activeProcs
  BY <1>4, <1>5
<1>7. TreeTypes /\ TreeLinks /\ PlacedNow /\ NoProc \notin Pcb /\ NoSem \notin Sem
  BY PcbAssumption, NoSemAssumption DEF IInv
<1>8. Placed(Append(pcbFree, p), activeProcs \ {p}, cur, rq, s_procq', b1)
  <2>1. s_procq' = IF p_semAdd[p] # NoSem /\ Contains(s_procq[p_semAdd[p]], p)
                   THEN OutBlocked(s_procq, p_semAdd[p], p) ELSE s_procq
    BY <1>1 DEF LeaveSemaphore
  <2> QED BY <1>6, <1>7, <2>1, PlacedFree DEF PlacedNow
<1> HIDE DEF rq, cur
<1>9. p_semAdd' = b1
  BY <1>1 DEF LeaveSemaphore
<1> HIDE DEF b1
<1>10. PlacedNow' /\ CpuTypes'
  <2>1. CASE Tail(calls) = <<>>
    <3>1. ResumeOrSchedule(cur, rq, processCount - 1, softBlockCount')
      BY <1>2, <2>1
    <3>2. /\ Placed(Append(pcbFree, p), activeProcs \ {p}, currentProcess', readyQueue', s_procq', b1)
          /\ Scheduled'
      BY <1>8, <3>1, ResumeStep
    <3> QED BY <1>1, <1>9, <2>1, <3>2, ScheduledTypes DEF PlacedNow
  <2>2. CASE Tail(calls) # <<>>
    BY <1>1, <1>2, <1>8, <1>9, <2>2 DEF PlacedNow, CpuTypes
  <2> QED BY <2>1, <2>2
<1>11. OtherTypes'
  <2> DEFINE s == p_semAdd[p]
  <2>1. s # NoSem => s \in Sem
    BY <1>5, <1>7 DEF PlacedNow, Placed, QueueTypes
  <2>2. semVal' \in [Sem -> Int]
    BY <1>1, <2>1, SemValStep DEF LeaveSemaphore, IInv, OtherTypes
  <2>3. softBlockCount' \in Int
    BY <1>1 DEF LeaveSemaphore, IInv, OtherTypes
  <2>4. issuer' \in [Dev -> Pcb \cup {NoProc}]
    BY <1>1 DEF IInv, OtherTypes
  <2> QED BY <1>1, <2>2, <2>3, <2>4 DEF IInv, OtherTypes
<1>12. CallTypes' /\ TerminationOnce'
  BY <1>1, <1>3, <1>4, <1>5 DEF CallTypes, TerminationOnce
<1>13. \A c \in Pcb : p_parent[c] # p
  <2>1. Range(p_child[p]) = {}
    BY <1>1 DEF Range
  <2> QED BY <1>5, <1>7, <2>1 DEF TreeLinks
<1>14. TreeTypes' /\ TreeLinks'
  <2>1. CASE up = NoProc
    <3>1. p_parent' = p_parent /\ p_child' = p_child
      BY <1>1, <2>1 DEF OutChild, tree
    <3>2. \A c \in Pcb : p_parent[c] # NoProc => c # p
      BY <2>1
    <3> QED BY <1>1, <1>7, <1>13, <3>1, <3>2 DEF TreeTypes, TreeLinks
  <2>2. CASE up # NoProc
    <3>1. up \in Pcb /\ up # p
      BY <1>5, <1>7, <1>13, <2>2 DEF TreeTypes
    <3>2. p_child[up] \in Seq(Pcb) /\ IsInjective(p_child[up])
      BY <1>7, <3>1 DEF TreeTypes, TreeLinks
    <3> DEFINE rest == RemoveFirst(p_child[up], p)
    <3>3. rest \in Seq(Pcb) /\ IsInjective(rest) /\ Range(rest) = Range(p_child[up]) \ {p}
      BY <3>2, RemoveFirstProperties
    <3>4. /\ p_parent' = [p_parent EXCEPT ![p] = NoProc]
          /\ p_child' = [p_child EXCEPT ![up] = rest]
      BY <1>1, <2>2 DEF OutChild
    <3> HIDE DEF rest
    <3>5. /\ p_child' \in [Pcb -> Seq(Pcb)] /\ p_child'[up] = rest
          /\ \A x \in Pcb : x # up => p_child'[x] = p_child[x]
      BY <1>7, <3>1, <3>3, <3>4 DEF TreeTypes
    <3>6. /\ p_parent' \in [Pcb -> Pcb \cup {NoProc}] /\ p_parent'[p] = NoProc
          /\ \A x \in Pcb : x # p => p_parent'[x] = p_parent[x]
      BY <1>5, <1>7, <3>4 DEF TreeTypes
    <3>7. \A x \in Pcb : IsInjective(p_child'[x])
      BY <1>7, <3>3, <3>5 DEF TreeLinks
    <3>8. ASSUME NEW x \in Pcb, NEW c \in Pcb
          PROVE  c \in Range(p_child'[x]) <=> p_parent'[c] = x
      <4>1. c \in Range(p_child[x]) <=> p_parent[c] = x
        BY <1>7 DEF TreeLinks
      <4>2. CASE x = up
        BY <1>7, <3>1, <3>3, <3>5, <3>6, <4>1, <4>2
      <4>3. CASE x # up
        BY <1>7, <3>1, <3>5, <3>6, <4>1, <4>3
      <4> QED BY <4>2, <4>3
    <3>9. ASSUME NEW c \in Pcb, p_parent'[c] # NoProc
          PROVE  {c, p_parent'[c]} \subseteq activeProcs'
      BY <1>1, <1>7, <1>13, <3>6, <3>9 DEF TreeLinks
    <3> QED BY <3>5, <3>6, <3>7, <3>8, <3>9 DEF TreeTypes, TreeLinks
  <2> QED BY <2>1, <2>2
<1> QED BY <1>10, <1>11, <1>12, <1>14 DEF IInv

-----------------------------------------------------------------------------
(* The theorems.                                                           *)

(* Every handler, and every step that changes nothing, preserves IInv.     *)
LEMMA NextIInv == IInv /\ [Next]_vars => IInv'
<1> SUFFICES ASSUME IInv, [Next]_vars
             PROVE  IInv'
  OBVIOUS
<1>1. CASE \E prio \in Prio, support \in Support : CreateProcess(prio, support)
  BY <1>1, CreateProcessIInv
<1>2. CASE \E s \in Normal : Passeren(s) \/ Verhogen(s)
  BY <1>2, PasserenIInv, VerhogenIInv
<1>3. CASE \E d \in Dev : DoIO(d)
  BY <1>3, DoIOIInv
<1>4. CASE ClockWait
  BY <1>4, ClockWaitIInv
<1>5. CASE Yield
  BY <1>5, YieldIInv
<1>6. CASE \E p \in Pcb : TermProcess(p)
  BY <1>6, TermProcessIInv
<1>7. CASE PassUpOrDie
  BY <1>7, PassUpOrDieIInv
<1>8. CASE TerminateChild
  BY <1>8, TerminateChildIInv
<1>9. CASE TerminateSelf
  BY <1>9, TerminateSelfIInv
<1>10. CASE TimeSlice
  BY <1>10, TimeSliceIInv
<1>11. CASE IntervalTimer
  BY <1>11, IntervalTimerIInv
<1>12. CASE TickWake
  BY <1>12, TickWakeIInv
<1>13. CASE TickEnd
  BY <1>13, TickEndIInv
<1>14. CASE \E line \in PlainLine, n \in DevNo : DeviceInterrupt(line, n)
  BY <1>14, DeviceInterruptIInv
<1>15. CASE \E n \in TermNo : TerminalInterrupt(n)
  BY <1>15, TerminalInterruptIInv
<1>16. CASE \E d \in Dev : DeviceDone(d) \/ DeviceError(d)
  BY <1>16, DeviceEndsIInv
<1>17. CASE UNCHANGED vars
  <2>1. UNCHANGED <<pcbFree, activeProcs, currentProcess, readyQueue, s_procq, p_semAdd, p_parent,
                    p_child, p_prio, p_supportStruct, processCount, softBlockCount, semVal,
                    device, issuer, terminated, calls, cpu>>
    BY <1>17 DEF vars, tree, attrs, sems, devices, procs
  <2> QED BY <2>1 DEF IInv, PlacedNow, TreeTypes, OtherTypes, CallTypes, CpuTypes, TreeLinks,
                      TerminationOnce
<1> QED BY <1>1, <1>2, <1>3, <1>4, <1>5, <1>6, <1>7, <1>8, <1>9, <1>10, <1>11, <1>12, <1>13,
           <1>14, <1>15, <1>16, <1>17 DEF Next

(* The inductive invariant holds in every reachable state.                 *)
THEOREM NucleusInvariant == Spec => []IInv
<1> QED BY InitIInv, NextIInv, PTL DEF Spec

(* Every variable keeps its type: among the consequences, the processor    *)
(* never executes without a current process, and no other handler runs     *)
(* while terminateProcess recurses.                                        *)
THEOREM TypeCorrect == Spec => []TypeOK
<1>1. IInv => TypeOK
  BY IInvIsInvariants
<1> QED BY <1>1, NucleusInvariant, PTL

(* However many processes, semaphores and devices there are, no handler    *)
(* loses a PCB or puts it in two places, and insertBlocked never fails.    *)
THEOREM EveryPcbInOnePlace == Spec => []OnePlace
<1>1. IInv => OnePlace
  BY IInvIsInvariants
<1> QED BY <1>1, NucleusInvariant, PTL

(* p_parent and the child lists agree, on live processes only, at every    *)
(* step of every termination.                                              *)
THEOREM TreeLinked == Spec => []TreeLinks
<1>1. IInv => TreeLinks
  BY IInvIsInvariants
<1> QED BY <1>1, NucleusInvariant, PTL

(* terminateProcess never runs twice for a process, whatever it meets in   *)
(* the tree: a PCB is freed once.                                          *)
THEOREM FreedOnce == Spec => []TerminationOnce
<1>1. IInv => TerminationOnce
  BY IInvIsInvariants
<1> QED BY <1>1, NucleusInvariant, PTL

-----------------------------------------------------------------------------
(* The tree has one root.                                                 *)

(* No orphan: of the live processes that have no parent, all but one are   *)
(* being terminated.                                                       *)
Roots == {p \in activeProcs : p_parent[p] = NoProc} \ Range(calls)
OneRoot == \A r, s \in Roots : r = s

(* A step after which no other process is a root keeps the one there is.   *)
LEMMA RootKept ==
  ASSUME OneRoot, Roots' \subseteq Roots
  PROVE  OneRoot'
<1>1. \A r, s \in Roots' : r = s
  BY DEF OneRoot
<1> QED BY <1>1 DEF OneRoot

(* At the start there is one process.                                      *)
LEMMA InitOneRoot == Init => OneRoot
<1> SUFFICES ASSUME Init
             PROVE  OneRoot
  OBVIOUS
<1>1. activeProcs = {currentProcess}
  BY DEF Init, Boot
<1> QED BY <1>1 DEF OneRoot, Roots

(* SYS1 gives the process it creates a parent.                             *)
LEMMA CreateOneRoot ==
  ASSUME IInv, OneRoot, NEW prio, NEW support, CreateProcess(prio, support)
  PROVE  OneRoot'
<1> DEFINE child == Head(pcbFree)
<1>1. /\ activeProcs' = activeProcs \cup {child} /\ calls' = calls
      /\ p_parent' = [p_parent EXCEPT ![child] = currentProcess] /\ pcbFree # <<>> /\ Running
  BY DEF CreateProcess
<1>2. pcbFree \in Seq(Pcb) /\ Range(pcbFree) = Pcb \ activeProcs
  BY DEF IInv, PlacedNow, Placed, QueueTypes, FreeApart
<1>3. child \in Pcb \ activeProcs
  BY <1>1, <1>2, TailProperties
<1> HIDE DEF child
<1>4. currentProcess # NoProc /\ activeProcs \subseteq Pcb /\ p_parent \in [Pcb -> Pcb \cup {NoProc}]
  BY <1>1 DEF IInv, CpuTypes, Running, TreeTypes, PlacedNow, Placed, QueueTypes
<1>5. p_parent'[child] # NoProc /\ \A x \in activeProcs : p_parent'[x] = p_parent[x]
  BY <1>1, <1>3, <1>4
<1>6. Roots' \subseteq Roots
  BY <1>1, <1>5 DEF Roots
<1> QED BY <1>6, RootKept

(* The process a termination starts with is in a call from then on.        *)
LEMMA TerminateOneRoot ==
  ASSUME IInv, OneRoot, Running, NEW target, Terminate(target)
  PROVE  OneRoot'
<1>1. calls = <<>>
  BY NoCalls DEF Running, IInv
<1>2. UNCHANGED <<activeProcs, p_parent>>
  BY DEF Terminate, tree
<1>3. Range(calls) = {}
  BY <1>1 DEF Range
<1>4. Roots' \subseteq Roots
  BY <1>2, <1>3 DEF Roots
<1> QED BY <1>4, RootKept

(* A child that loses its parent is in a call: one that has p_pid -1 was   *)
(* already, the others enter one.                                          *)
LEMMA TerminateChildOneRoot ==
  ASSUME IInv, OneRoot, TerminateChild
  PROVE  OneRoot'
<1> DEFINE p     == Head(calls)
           child == Head(p_child[p])
<1>1. /\ p_child[p] # <<>> /\ cpu = "terminate"
      /\ p_parent' = [p_parent EXCEPT ![child] = NoProc]
      /\ calls' = IF child \in terminated THEN calls ELSE <<child>> \o calls
      /\ activeProcs' = activeProcs
  BY DEF TerminateChild
<1>2. /\ calls # <<>> /\ calls \in Seq(Pcb) /\ Range(calls) = terminated \cap activeProcs
      /\ TreeTypes /\ TreeLinks /\ NoProc \notin Pcb /\ activeProcs \subseteq Pcb
  BY <1>1, PcbAssumption DEF IInv, CpuTypes, CallTypes, TerminationOnce, PlacedNow, Placed, QueueTypes
<1>3. p \in Pcb
  BY <1>2, TailProperties
<1> HIDE DEF p
<1>4. child \in Pcb /\ child \in Range(p_child[p])
  BY <1>1, <1>2, <1>3, TailProperties DEF TreeTypes
<1> HIDE DEF child
<1>5. child \in activeProcs
  BY <1>2, <1>3, <1>4 DEF TreeLinks
<1>6. Range(calls') = Range(calls) \cup {child}
  <2>1. CASE child \in terminated
    BY <1>1, <1>2, <1>5, <2>1
  <2>2. CASE child \notin terminated
    BY <1>1, <1>2, <1>4, <2>2, PushProperties
  <2> QED BY <2>1, <2>2
<1>7. \A x \in activeProcs : x # child => p_parent'[x] = p_parent[x]
  BY <1>1, <1>2 DEF TreeTypes
<1>8. Roots' \subseteq Roots
  BY <1>1, <1>6, <1>7 DEF Roots
<1> QED BY <1>8, RootKept

(* A process whose call ends has no children left to become orphans.       *)
LEMMA TerminateSelfOneRoot ==
  ASSUME IInv, OneRoot, TerminateSelf
  PROVE  OneRoot'
<1> DEFINE p == Head(calls)
<1>1. /\ OutChild(p) /\ cpu = "terminate"
      /\ activeProcs' = activeProcs \ {p} /\ calls' = Tail(calls)
  BY DEF TerminateSelf
<1>2. /\ calls # <<>> /\ calls \in Seq(Pcb) /\ TreeTypes /\ activeProcs \subseteq Pcb
  BY <1>1 DEF IInv, CpuTypes, CallTypes, PlacedNow, Placed, QueueTypes
<1>3. p \in Pcb /\ Range(calls) = Range(Tail(calls)) \cup {p}
  BY <1>2, TailProperties
<1> HIDE DEF p
<1>4. \A x \in activeProcs : x # p => p_parent'[x] = p_parent[x]
  BY <1>1, <1>2 DEF OutChild, TreeTypes, tree
<1>5. Roots' \subseteq Roots
  BY <1>1, <1>3, <1>4 DEF Roots
<1> QED BY <1>5, RootKept

(* No step makes an orphan.                                                *)
LEMMA NextOneRoot == IInv /\ OneRoot /\ [Next]_vars => OneRoot'
<1> SUFFICES ASSUME IInv, OneRoot, [Next]_vars
             PROVE  OneRoot'
  OBVIOUS
<1>a. ASSUME UNCHANGED <<p_parent, activeProcs, calls>>
      PROVE  OneRoot'
  BY <1>a DEF OneRoot, Roots
<1>1. ASSUME NEW prio \in Prio, NEW support \in Support, CreateProcess(prio, support)
      PROVE  OneRoot'
  BY <1>1, CreateOneRoot
<1>2. ASSUME NEW s \in Normal, Passeren(s) \/ Verhogen(s)
      PROVE  OneRoot'
  BY <1>2, <1>a DEF Passeren, Verhogen, tree, procs
<1>3. ASSUME NEW d \in Dev, DoIO(d)
      PROVE  OneRoot'
  BY <1>3, <1>a DEF DoIO, tree, procs
<1>4. CASE ClockWait \/ Yield \/ TimeSlice \/ IntervalTimer \/ TickWake \/ TickEnd
  BY <1>4, <1>a DEF ClockWait, Yield, TimeSlice, IntervalTimer, TickWake, TickEnd, tree, procs
<1>5. CASE (\E p \in Pcb : TermProcess(p)) \/ PassUpOrDie
  BY <1>5, TerminateOneRoot DEF TermProcess, PassUpOrDie
<1>6. CASE TerminateChild \/ TerminateSelf
  BY <1>6, TerminateChildOneRoot, TerminateSelfOneRoot
<1>7. ASSUME NEW ds, NEW rq, Acknowledge(ds, rq)
      PROVE  OneRoot'
  BY <1>7, <1>a DEF Acknowledge, tree, procs
<1>8. ASSUME NEW line \in PlainLine, NEW n \in DevNo, DeviceInterrupt(line, n)
      PROVE  OneRoot'
  BY <1>7, <1>8 DEF DeviceInterrupt
<1>9. ASSUME NEW n \in TermNo, TerminalInterrupt(n)
      PROVE  OneRoot'
  BY <1>7, <1>9 DEF TerminalInterrupt
<1>10. ASSUME NEW d \in Dev, DeviceDone(d) \/ DeviceError(d)
       PROVE  OneRoot'
  BY <1>10, <1>a DEF DeviceDone, DeviceError, tree, procs
<1>11. CASE UNCHANGED vars
  BY <1>11, <1>a DEF vars, tree, procs
<1> QED BY <1>1, <1>2, <1>3, <1>4, <1>5, <1>6, <1>8, <1>9, <1>10, <1>11 DEF Next

(* The process tree is one tree: p_parent and the child lists agree on     *)
(* live processes only, and whatever terminations do, of the processes     *)
(* without a parent all but one are being terminated.                      *)
THEOREM TreeStaysTree == Spec => []TreeConsistent
<1>1. IInv /\ OneRoot => TreeConsistent
  <2> SUFFICES ASSUME IInv, OneRoot
               PROVE  TreeConsistent
    OBVIOUS
  <2>1. Cardinality(Roots) <= 1
    <3>1. CASE Roots = {}
      BY <3>1, FS_EmptySet
    <3>2. ASSUME NEW r \in Roots
          PROVE  Cardinality(Roots) <= 1
      <4>1. Roots = {r}
        BY DEF OneRoot
      <4> QED BY <4>1, FS_Singleton
    <3> QED BY <3>1, <3>2
  <2> QED BY <2>1 DEF IInv, TreeConsistent, Roots
<1> QED BY <1>1, InitOneRoot, NextOneRoot, NucleusInvariant, PTL DEF Spec

-----------------------------------------------------------------------------
(* The ready queue, as long as nobody waits for a transmitter.             *)

(* What DispatchHighest says of one step. *)
DispatchStep ==
  currentProcess' \notin {currentProcess, NoProc} =>
    \A p \in Range(readyQueue') : p_prio'[p] <= p_prio'[currentProcess']

(* No process waits for a terminal to transmit. *)
NoTransmission == \A d \in TxDev : s_procq[d] = <<>>

(* Priorities are numbers.                                                 *)
LEMMA PrioTypes ==
  ASSUME IInv
  PROVE  p_prio \in [Pcb -> Int] /\ readyQueue \in Seq(Pcb) /\ IsInjective(readyQueue)
<1>1. p_prio \in [Pcb -> Prio]
  BY DEF IInv, OtherTypes
<1>2. p_prio \in [Pcb -> Int]
  BY <1>1, PrioAssumption
<1> QED BY <1>2 DEF IInv, PlacedNow, Placed, QueueTypes, NoDuplicates

(* ReadySorted is a sorted ready queue.                                    *)
LEMMA ReadySortedIsSorted == ReadySorted <=> Sorted(p_prio, readyQueue)
BY DEF ReadySorted, Sorted

(* A queue that is sorted by the priorities after the step stays so when   *)
(* the scheduler takes its head, and the head has the highest of them.     *)
LEMMA SchedulerSorted ==
  ASSUME NEW r \in Seq(Pcb), NEW prio \in [Pcb -> Int], p_prio' = prio,
         Sorted(prio, r), NEW live, NEW soft, Scheduler(r, live, soft)
  PROVE  ReadySorted' /\ DispatchStep
<1>1. CASE r # <<>>
  <2>1. currentProcess' = Head(r) /\ readyQueue' = Tail(r)
    BY <1>1 DEF Scheduler
  <2>2. Sorted(prio, Tail(r)) /\ \A p \in Range(Tail(r)) : prio[p] <= prio[Head(r)]
    BY <1>1, TailSorted
  <2> QED BY <2>1, <2>2 DEF ReadySorted, DispatchStep, Sorted
<1>2. CASE r = <<>>
  <2>1. currentProcess' = NoProc /\ readyQueue' = r
    BY <1>2 DEF Scheduler
  <2> QED BY <2>1 DEF ReadySorted, DispatchStep, Sorted
<1> QED BY <1>1, <1>2

(* The same at the end of a handler that may find a current process.       *)
LEMMA ResumeSorted ==
  ASSUME NEW r \in Seq(Pcb), NEW prio \in [Pcb -> Int], p_prio' = prio,
         Sorted(prio, r), NEW c \in {currentProcess, NoProc}, NEW live, NEW soft,
         ResumeOrSchedule(c, r, live, soft)
  PROVE  ReadySorted' /\ DispatchStep
<1>1. CASE c # NoProc
  BY <1>1 DEF ResumeOrSchedule, ReadySorted, DispatchStep, Sorted
<1>2. CASE c = NoProc
  BY <1>2, SchedulerSorted DEF ResumeOrSchedule
<1> QED BY <1>1, <1>2

(* A step that leaves the ready queue, the priorities and the current      *)
(* process alone.                                                          *)
LEMMA SameReady ==
  ASSUME ReadySorted, UNCHANGED <<readyQueue, p_prio, currentProcess>>
  PROVE  ReadySorted' /\ DispatchStep
BY DEF ReadySorted, DispatchStep

(* A PCB inserted by insertProcQ.                                          *)
LEMMA ReadyInsertSorted ==
  ASSUME IInv, ReadySorted, NEW p \in Pcb
  PROVE  /\ InsertProcQ(p_prio, readyQueue, p) \in Seq(Pcb)
         /\ Sorted(p_prio, InsertProcQ(p_prio, readyQueue, p))
<1>1. Sorted(p_prio, readyQueue)
  BY ReadySortedIsSorted
<1> QED BY <1>1, PrioTypes, InsertSorted, InsertProcQProperties

(* CREATEPROCESS: the priority of the child changes, but no process in the *)
(* ready queue is the child.                                               *)
LEMMA CreateSorted ==
  ASSUME IInv, ReadySorted, NEW prio \in Prio, NEW support, CreateProcess(prio, support)
  PROVE  ReadySorted' /\ DispatchStep
<1> DEFINE child == Head(pcbFree)
           prios == [p_prio EXCEPT ![child] = prio]
           r1 == InsertProcQ(prios, readyQueue, currentProcess)
           r2 == InsertProcQ(prios, r1, child)
<1>1. pcbFree \in Seq(Pcb) /\ pcbFree # <<>> /\ currentProcess \in Pcb
  BY DEF IInv, PlacedNow, Placed, QueueTypes, CreateProcess, Running, CpuTypes
<1>2. child \in Pcb /\ child \in Range(pcbFree)
  BY <1>1, TailProperties
<1>3. p_prio \in [Pcb -> Int] /\ readyQueue \in Seq(Pcb) /\ prio \in Int
  BY PrioTypes, PrioAssumption
<1>4. prios \in [Pcb -> Int]
  BY <1>2, <1>3
<1>5. child \notin Range(readyQueue)
  BY <1>2 DEF IInv, PlacedNow, Placed, FreeApart, Elsewhere
<1>6. Sorted(prios, readyQueue)
  <2>1. \A i \in 1 .. Len(readyQueue) : readyQueue[i] # child /\ readyQueue[i] \in Pcb
    BY <1>3, <1>5, RangeEquality, ElementOfSeq
  <2>2. \A i \in 1 .. Len(readyQueue) : prios[readyQueue[i]] = p_prio[readyQueue[i]]
    BY <1>2, <1>3, <2>1
  <2> HIDE DEF prios
  <2> QED BY <2>2 DEF ReadySorted, Sorted
<1>7. p_prio' = prios
  BY DEF CreateProcess
<1> HIDE DEF prios
<1>8. r1 \in Seq(Pcb) /\ Sorted(prios, r1)
  BY <1>1, <1>3, <1>4, <1>6, InsertSorted, InsertProcQProperties
<1> HIDE DEF r1
<1>9. r2 \in Seq(Pcb) /\ Sorted(prios, r2)
  BY <1>2, <1>4, <1>8, InsertSorted, InsertProcQProperties
<1>10. CASE activeProcs = Pcb
  <2>1. UNCHANGED <<readyQueue, currentProcess>>
    BY <1>10 DEF CreateProcess
  <2> QED BY <1>6, <1>7, <2>1 DEF ReadySorted, Sorted, DispatchStep
<1>11. CASE activeProcs # Pcb
  <2>1. Scheduler(r2, processCount + 1, softBlockCount)
    BY <1>11 DEF CreateProcess, r1, r2, prios
  <2> HIDE DEF r2
  <2> QED BY <1>4, <1>7, <1>9, <2>1, SchedulerSorted
<1> QED BY <1>10, <1>11

(* A caller that blocks leaves the ready queue to the scheduler.           *)
LEMMA BlockSorted ==
  ASSUME IInv, ReadySorted, UNCHANGED p_prio, NEW s, NEW soft, BlockCurrentProcess(s, soft)
  PROVE  ReadySorted' /\ DispatchStep
<1>1. Scheduler(readyQueue, processCount, soft)
  BY DEF BlockCurrentProcess
<1> QED BY <1>1, PrioTypes, ReadySortedIsSorted, SchedulerSorted

(* The system calls of a process that goes on, blocks or gives way.        *)
LEMMA CallsSorted ==
  ASSUME IInv, ReadySorted,
         \/ \E s \in Normal : Passeren(s) \/ Verhogen(s)
         \/ \E d \in Dev : DoIO(d)
         \/ ClockWait \/ Yield \/ TimeSlice
  PROVE  ReadySorted' /\ DispatchStep
<1>0. p_prio' = p_prio /\ cpu = "run" /\ currentProcess \in Pcb
  BY DEF Passeren, Verhogen, DoIO, ClockWait, Yield, TimeSlice, attrs, Running,
         IInv, PlacedNow, Placed, QueueTypes, CpuTypes
<1>1. ASSUME NEW s \in Normal, Passeren(s)
      PROVE  ReadySorted' /\ DispatchStep
  <2>1. CASE semVal[s] - 1 < 0
    BY <1>0, <1>1, <2>1, BlockSorted DEF Passeren
  <2>2. CASE ~(semVal[s] - 1 < 0)
    BY <1>0, <1>1, <2>2, SameReady DEF Passeren
  <2> QED BY <2>1, <2>2
<1>2. ASSUME NEW s \in Normal, Verhogen(s)
      PROVE  ReadySorted' /\ DispatchStep
  <2>0. currentProcess' = currentProcess
    BY <1>2 DEF Verhogen
  <2>1. CASE semVal[s] + 1 <= 0 /\ s_procq[s] # <<>>
    <3>1. readyQueue' = InsertProcQ(p_prio, readyQueue, Head(s_procq[s]))
      BY <1>2, <2>1 DEF Verhogen
    <3>2. s_procq[s] \in Seq(Pcb)
      BY DEF IInv, PlacedNow, Placed, QueueTypes, Sem
    <3>3. Head(s_procq[s]) \in Pcb
      BY <2>1, <3>2, TailProperties
    <3>4. Sorted(p_prio, InsertProcQ(p_prio, readyQueue, Head(s_procq[s])))
      BY <3>3, ReadyInsertSorted
    <3> QED BY <1>0, <2>0, <3>1, <3>4 DEF ReadySorted, Sorted, DispatchStep
  <2>2. CASE ~(semVal[s] + 1 <= 0 /\ s_procq[s] # <<>>)
    BY <1>0, <1>2, <2>0, <2>2, SameReady DEF Verhogen
  <2> QED BY <2>1, <2>2
<1>3. ASSUME NEW d \in Dev, DoIO(d)
      PROVE  ReadySorted' /\ DispatchStep
  BY <1>0, <1>3, BlockSorted DEF DoIO
<1>4. CASE ClockWait
  BY <1>0, <1>4, BlockSorted DEF ClockWait
<1>5. ASSUME Scheduler(InsertProcQ(p_prio, readyQueue, currentProcess), processCount, softBlockCount)
      PROVE  ReadySorted' /\ DispatchStep
  BY <1>0, <1>5, PrioTypes, ReadyInsertSorted, SchedulerSorted
<1>6. CASE Yield
  <2>1. CASE readyQueue # <<>> /\ p_prio[Head(readyQueue)] >= p_prio[currentProcess]
    BY <1>5, <1>6, <2>1 DEF Yield
  <2>2. CASE ~(readyQueue # <<>> /\ p_prio[Head(readyQueue)] >= p_prio[currentProcess])
    BY <1>0, <1>6, <2>2, SameReady DEF Yield
  <2> QED BY <2>1, <2>2
<1>7. CASE TimeSlice
  BY <1>5, <1>7 DEF TimeSlice
<1> QED BY <1>1, <1>2, <1>3, <1>4, <1>6, <1>7

(* Termination takes PCBs out of the ready queue.                          *)
LEMMA TerminationSorted ==
  ASSUME IInv, ReadySorted,
         \/ \E p \in Pcb : TermProcess(p)
         \/ PassUpOrDie \/ TerminateChild \/ TerminateSelf
  PROVE  ReadySorted' /\ DispatchStep
<1>0. p_prio' = p_prio
  BY DEF TermProcess, PassUpOrDie, Terminate, TerminateChild, TerminateSelf, attrs
<1>1. CASE TerminateSelf
  <2> DEFINE p == Head(calls)
             rq == OutProcQ(readyQueue, p)
             cur == IF p = currentProcess THEN NoProc ELSE currentProcess
  <2>1. IF Tail(calls) = <<>>
        THEN ResumeOrSchedule(cur, rq, processCount - 1, softBlockCount')
        ELSE readyQueue' = rq /\ currentProcess' = cur /\ UNCHANGED cpu
    BY <1>1 DEF TerminateSelf
  <2>2. readyQueue \in Seq(Pcb) /\ IsInjective(readyQueue) /\ p_prio \in [Pcb -> Int]
        /\ Sorted(p_prio, readyQueue)
    BY PrioTypes, ReadySortedIsSorted
  <2>3. rq \in Seq(Pcb) /\ Sorted(p_prio, rq)
    BY <2>2, RemoveSorted, RemoveFirstProperties DEF OutProcQ
  <2>4. cur \in {currentProcess, NoProc}
    OBVIOUS
  <2> HIDE DEF rq, cur
  <2>5. CASE Tail(calls) = <<>>
    <3>1. ResumeOrSchedule(cur, rq, processCount - 1, softBlockCount')
      BY <2>1, <2>5
    <3> DEFINE soft == softBlockCount'
    <3> HIDE DEF soft
    <3>2. ResumeOrSchedule(cur, rq, processCount - 1, soft)
      BY <3>1 DEF soft
    <3> QED BY <1>0, <2>2, <2>3, <2>4, <3>2, ResumeSorted
  <2>6. CASE Tail(calls) # <<>>
    BY <1>0, <2>1, <2>3, <2>4, <2>6 DEF ReadySorted, Sorted, DispatchStep
  <2> QED BY <2>5, <2>6
<1>2. CASE ~TerminateSelf
  BY <1>0, <1>2, SameReady DEF TermProcess, PassUpOrDie, Terminate, TerminateChild
<1> QED BY <1>1, <1>2

(* The interrupts that wake no transmitter's waiter.                       *)
LEMMA InterruptsSorted ==
  ASSUME IInv, ReadySorted, NoTransmission,
         \/ IntervalTimer \/ TickWake \/ TickEnd
         \/ \E line \in PlainLine, n \in DevNo : DeviceInterrupt(line, n)
         \/ \E n \in TermNo : TerminalInterrupt(n)
         \/ \E d \in Dev : DeviceDone(d) \/ DeviceError(d)
  PROVE  ReadySorted' /\ DispatchStep
<1>0. p_prio' = p_prio /\ p_prio \in [Pcb -> Int] /\ readyQueue \in Seq(Pcb)
      /\ Sorted(p_prio, readyQueue) /\ s_procq \in [Sem -> Seq(Pcb)]
  <2>1. p_prio' = p_prio
    BY DEF IntervalTimer, TickWake, TickEnd, DeviceInterrupt, TerminalInterrupt, Acknowledge,
           DeviceDone, DeviceError, attrs
  <2> QED BY <2>1, PrioTypes, ReadySortedIsSorted DEF IInv, PlacedNow, Placed, QueueTypes
<1>1. ASSUME NEW s \in Sem, s_procq[s] # <<>>
      PROVE  /\ InsertProcQ(p_prio, readyQueue, Head(s_procq[s])) \in Seq(Pcb)
             /\ Sorted(p_prio, InsertProcQ(p_prio, readyQueue, Head(s_procq[s])))
  <2>1. s_procq[s] \in Seq(Pcb)
    BY <1>0
  <2>2. Head(s_procq[s]) \in Pcb
    BY <1>1, <2>1, TailProperties
  <2> QED BY <2>2, ReadyInsertSorted
<1>2. ASSUME NEW ds, NEW rq, rq \in Seq(Pcb), Sorted(p_prio, rq), Acknowledge(ds, rq)
      PROVE  ReadySorted' /\ DispatchStep
  <2>1. ResumeOrSchedule(currentProcess, rq, processCount, softBlockCount - Cardinality(Woken(ds)))
    BY <1>2 DEF Acknowledge
  <2> QED BY <1>0, <1>2, <2>1, ResumeSorted
<1>3. CASE IntervalTimer
  BY <1>3, <1>0, SameReady DEF IntervalTimer
<1>4. CASE TickWake
  <2>1. Clock \in Sem
    BY DEF Sem, Soft
  <2>2. /\ s_procq[Clock] # <<>> /\ currentProcess' = currentProcess
        /\ readyQueue' = InsertProcQ(p_prio, readyQueue, Head(s_procq[Clock]))
    BY <1>4 DEF TickWake
  <2>3. Sorted(p_prio, InsertProcQ(p_prio, readyQueue, Head(s_procq[Clock])))
    BY <1>1, <2>1, <2>2
  <2> QED BY <1>0, <2>2, <2>3 DEF ReadySorted, Sorted, DispatchStep
<1>5. CASE TickEnd
  BY <1>5, <1>0, ResumeSorted DEF TickEnd
<1>6. ASSUME NEW line \in PlainLine, NEW n \in DevNo, DeviceInterrupt(line, n)
      PROVE  ReadySorted' /\ DispatchStep
  <2> DEFINE d == <<line, n>>
             rq == IF d \in Woken({d}) THEN InsertProcQ(p_prio, readyQueue, Head(s_procq[d]))
                                       ELSE readyQueue
  <2>1. Acknowledge({d}, rq)
    BY <1>6 DEF DeviceInterrupt
  <2>2. d \in Sem
    BY DEF Sem, Soft, Dev, PlainDev
  <2>3. rq \in Seq(Pcb) /\ Sorted(p_prio, rq)
    <3>1. CASE d \in Woken({d})
      BY <1>1, <2>2, <3>1 DEF Woken
    <3>2. CASE d \notin Woken({d})
      BY <1>0, <3>2
    <3> QED BY <3>1, <3>2
  <2> HIDE DEF rq, d
  <2> QED BY <1>2, <2>1, <2>3
<1>7. ASSUME NEW n \in TermNo, TerminalInterrupt(n)
      PROVE  ReadySorted' /\ DispatchStep
  <2> DEFINE tx == <<"tx", n>>
             rx == <<"rx", n>>
             ds == {d \in {tx, rx} : device[d] = "done"}
             rq == IF tx \in Woken(ds) THEN Append(readyQueue, Head(s_procq[tx])) ELSE readyQueue
             r1 == IF rx \in Woken(ds) THEN InsertProcQ(p_prio, rq, Head(s_procq[rx])) ELSE rq
  <2>1. Acknowledge(ds, r1)
    BY <1>7 DEF TerminalInterrupt
  <2>2. tx \in TxDev /\ rx \in Sem
    BY DEF Sem, Soft, Dev, TxDev, RxDev
  <2>3. tx \notin Woken(ds)
    BY <2>2 DEF NoTransmission, Woken
  <2>4. rq = readyQueue
    BY <2>3
  <2>5. r1 \in Seq(Pcb) /\ Sorted(p_prio, r1)
    <3>1. CASE rx \in Woken(ds)
      BY <1>1, <2>2, <2>4, <3>1 DEF Woken
    <3>2. CASE rx \notin Woken(ds)
      BY <1>0, <2>4, <3>2
    <3> QED BY <3>1, <3>2
  <2> HIDE DEF r1, ds
  <2> QED BY <1>2, <2>1, <2>5
<1>8. CASE \E d \in Dev : DeviceDone(d) \/ DeviceError(d)
  BY <1>8, <1>0, SameReady DEF DeviceDone, DeviceError
<1> QED BY <1>3, <1>4, <1>5, <1>6, <1>7, <1>8

(* Every step keeps the ready queue sorted and dispatches the highest.     *)
LEMMA NextSorted ==
  ASSUME IInv, ReadySorted, NoTransmission, [Next]_vars
  PROVE  ReadySorted' /\ DispatchStep
<1>1. ASSUME NEW prio \in Prio, NEW support \in Support, CreateProcess(prio, support)
      PROVE  ReadySorted' /\ DispatchStep
  BY <1>1, CreateSorted
<1>2. CASE UNCHANGED vars
  BY <1>2, SameReady DEF vars, attrs
<1> QED BY <1>1, <1>2, CallsSorted, TerminationSorted, InterruptsSorted DEF Next

(* The ready queue is sorted by priority for as long as no process waits   *)
(* for a transmitter, whose interrupt queues the waiter with list_add_tail *)
(* (interrupts.c): all the other handlers insert by priority.              *)
THEOREM ReadyQueueSorted == Spec => ([]NoTransmission => []ReadySorted)
<1>1. Init => ReadySorted
  BY DEF Init, Boot, ReadySorted
<1>2. IInv /\ ReadySorted /\ NoTransmission /\ [Next]_vars => ReadySorted'
  BY NextSorted
<1> QED BY <1>1, <1>2, NucleusInvariant, PTL DEF Spec

(* Under the same condition a process that gets the processor has the      *)
(* highest priority of those that are ready.                               *)
THEOREM HighestIsDispatched == Spec => ([]NoTransmission => DispatchHighest)
<1>1. IInv /\ ReadySorted /\ NoTransmission /\ [Next]_vars => [DispatchStep]_vars
  BY NextSorted
<1>2. DispatchHighest <=> [][DispatchStep]_vars
  BY PTL DEF DispatchHighest, DispatchStep
<1> QED BY <1>1, <1>2, NucleusInvariant, ReadyQueueSorted, PTL DEF Spec

-----------------------------------------------------------------------------
(* The counters the scheduler decides with are exact, so its decision is   *)
(* the right one.  Each handler changes softBlockCount by as much as it    *)
(* changes the set of processes blocked on a device or the clock.          *)

SoftBlocked(b) == {p \in Pcb : b[p] \in Soft}

(* The semaphores of processes are not those of devices and the clock.     *)
LEMMA NormalIsNotSoft == \A s \in Normal : s \notin Soft
<1>1. PlainLine \cap {"user", "tx", "rx", "clock"} = {}
  BY DevAssumption
<1>2. ASSUME NEW s \in Normal
      PROVE  s[1] = "user"
  BY DEF Normal
<1>3. ASSUME NEW s \in Soft
      PROVE  s[1] # "user"
  <2>1. CASE s \in PlainDev
    BY <1>1, <2>1 DEF PlainDev
  <2>2. CASE s \in TxDev
    BY <2>2 DEF TxDev
  <2>3. CASE s \in RxDev
    BY <2>3 DEF RxDev
  <2>4. CASE s = Clock
    BY <2>4 DEF Clock
  <2> QED BY <2>1, <2>2, <2>3, <2>4 DEF Soft, Dev
<1> QED BY <1>2, <1>3

(* Whatever the p_semAdd fields are, the soft-blocked PCBs can be counted. *)
LEMMA SoftBlockedFinite ==
  ASSUME NEW b
  PROVE  IsFiniteSet(SoftBlocked(b)) /\ Cardinality(SoftBlocked(b)) \in Nat
<1>1. SoftBlocked(b) \in SUBSET Pcb
  BY DEF SoftBlocked
<1>2. IsFiniteSet(SoftBlocked(b))
  BY <1>1, PcbAssumption, FS_Subset
<1> QED BY <1>2, FS_CardinalityType

(* A process that blocks on a device or the clock is one more.             *)
LEMMA CountBlocked ==
  ASSUME NEW b \in [Pcb -> Sem \cup {NoSem}], NEW c \in Pcb, b[c] = NoSem, NEW s \in Sem
  PROVE  Cardinality(SoftBlocked([b EXCEPT ![c] = s])) =
           IF s \in Soft THEN Cardinality(SoftBlocked(b)) + 1 ELSE Cardinality(SoftBlocked(b))
<1> DEFINE b1 == [b EXCEPT ![c] = s]
           n  == SoftBlocked(b)
<1>1. b1[c] = s /\ \A p \in Pcb : p # c => b1[p] = b[p]
  OBVIOUS
<1>2. NoSem \notin Soft
  BY NoSemAssumption DEF Sem
<1>3. IsFiniteSet(n) /\ c \notin n
  BY <1>2, SoftBlockedFinite DEF SoftBlocked
<1> HIDE DEF b1
<1>4. CASE s \in Soft
  <2>1. SoftBlocked(b1) = n \cup {c}
    BY <1>1, <1>4 DEF SoftBlocked
  <2>2. Cardinality(n \cup {c}) = Cardinality(n) + 1
    BY <1>3, FS_AddElement
  <2> QED BY <1>4, <2>1, <2>2 DEF b1
<1>5. CASE s \notin Soft
  <2>1. SoftBlocked(b1) = n
    BY <1>1, <1>2, <1>5 DEF SoftBlocked
  <2> QED BY <1>5, <2>1 DEF b1
<1> QED BY <1>4, <1>5

(* One that leaves a device's semaphore or the clock's is one less.        *)
LEMMA CountUnblocked ==
  ASSUME NEW b \in [Pcb -> Sem \cup {NoSem}], NEW p \in Pcb
  PROVE  Cardinality(SoftBlocked([b EXCEPT ![p] = NoSem])) =
           IF b[p] \in Soft THEN Cardinality(SoftBlocked(b)) - 1 ELSE Cardinality(SoftBlocked(b))
<1> DEFINE b1 == [b EXCEPT ![p] = NoSem]
           n  == SoftBlocked(b)
<1>1. b1[p] = NoSem /\ \A x \in Pcb : x # p => b1[x] = b[x]
  OBVIOUS
<1>2. NoSem \notin Soft
  BY NoSemAssumption DEF Sem
<1>3. IsFiniteSet(n) /\ (p \in n <=> b[p] \in Soft)
  BY SoftBlockedFinite DEF SoftBlocked
<1> HIDE DEF b1
<1>4. SoftBlocked(b1) = n \ {p}
  BY <1>1, <1>2 DEF SoftBlocked
<1>5. Cardinality(n \ {p}) = IF p \in n THEN Cardinality(n) - 1 ELSE Cardinality(n)
  BY <1>3, FS_RemoveElement
<1> QED BY <1>3, <1>4, <1>5 DEF b1

(* An interrupt that wakes the waiters of the sub-devices W wakes as many  *)
(* processes as W has members: each is the head of a queue of its own.     *)
LEMMA CountWoken ==
  ASSUME PlacedNow, NEW W \in SUBSET Dev, IsFiniteSet(W), \A d \in W : s_procq[d] # <<>>
  PROVE  Cardinality(SoftBlocked(WokenB(W))) = Cardinality(SoftBlocked(p_semAdd)) - Cardinality(W)
<1> DEFINE head  == [d \in W |-> Head(s_procq[d])]
           woken == {p \in Pcb : \E d \in W : head[d] = p}
           n     == SoftBlocked(p_semAdd)
<1>1. /\ s_procq \in [Sem -> Seq(Pcb)] /\ p_semAdd \in [Pcb -> Sem \cup {NoSem}]
      /\ BlockedWhere(s_procq, p_semAdd)
  BY DEF PlacedNow, Placed, QueueTypes
<1>2. W \subseteq Soft /\ W \subseteq Sem /\ NoSem \notin Soft
  BY NoSemAssumption DEF Sem, Soft
<1>3. ASSUME NEW d \in W
      PROVE  head[d] \in Pcb /\ p_semAdd[head[d]] = d
  <2>1. s_procq[d] \in Seq(Pcb) /\ s_procq[d] # <<>>
    BY <1>1, <1>2
  <2>2. Head(s_procq[d]) \in Pcb /\ Head(s_procq[d]) \in Range(s_procq[d])
    BY <2>1, TailProperties
  <2> QED BY <1>1, <1>2, <2>2 DEF BlockedWhere
<1> HIDE DEF head
<1>4. head \in Bijection(W, woken)
  <2>1. head \in [W -> woken]
    BY <1>3 DEF head
  <2>2. \A x, y \in W : head[x] = head[y] => x = y
    BY <1>3
  <2>3. \A p \in woken : \E d \in W : head[d] = p
    OBVIOUS
  <2>4. head \in Injection(W, woken)
    BY <2>1, <2>2, Fun_IsInj
  <2>5. head \in Surjection(W, woken)
    BY <2>1, <2>3, Fun_IsSurj
  <2> QED BY <2>4, <2>5 DEF Bijection
<1>5. Cardinality(woken) = Cardinality(W)
  BY <1>4, FS_Bijection DEF ExistsBijection
<1>6. woken \subseteq n
  BY <1>2, <1>3 DEF SoftBlocked
<1>7. SoftBlocked(WokenB(W)) = n \ woken
  <2>1. ASSUME NEW p \in Pcb
        PROVE  WokenB(W)[p] = IF p \in woken THEN NoSem ELSE p_semAdd[p]
    BY DEF WokenB, head
  <2> HIDE DEF woken
  <2> QED BY <1>2, <2>1 DEF SoftBlocked
<1>8. IsFiniteSet(n)
  BY SoftBlockedFinite
<1> HIDE DEF n, woken
<1>9. n \cap woken = woken
  BY <1>6
<1>10. Cardinality(n \ woken) = Cardinality(n) - Cardinality(n \cap woken)
  BY <1>8, FS_Difference
<1> QED BY <1>5, <1>7, <1>9, <1>10 DEF n

-----------------------------------------------------------------------------
(* CountersExact is kept by every handler.                                 *)

(* What the following lemmas use of IInv.                                  *)
LEMMA Facts ==
  ASSUME IInv
  PROVE  /\ p_semAdd \in [Pcb -> Sem \cup {NoSem}] /\ activeProcs \subseteq Pcb
         /\ processCount \in Int /\ softBlockCount \in Int
         /\ Elsewhere(activeProcs, currentProcess, readyQueue, p_semAdd)
         /\ BlockedWhere(s_procq, p_semAdd)
         /\ s_procq \in [Sem -> Seq(Pcb)]
         /\ currentProcess \in Pcb \cup {NoProc}
         /\ NoSem \notin Sem /\ NoSem \notin Soft /\ Soft \subseteq Sem
BY NoSemAssumption DEF IInv, PlacedNow, Placed, QueueTypes, OtherTypes, Sem

(* A handler that moves no process to or from a semaphore and neither      *)
(* creates nor frees one changes nothing that is counted.                  *)
LEMMA CountFrame ==
  ASSUME CountersExact, UNCHANGED <<procs, p_semAdd, softBlockCount>>
  PROVE  CountersExact'
BY DEF CountersExact, procs

(* blockCurrentProcess, told the right count.                              *)
LEMMA CountBlock ==
  ASSUME IInv, CountersExact, Running, NEW s \in Sem, NEW soft,
         soft = IF s \in Soft THEN softBlockCount + 1 ELSE softBlockCount,
         BlockCurrentProcess(s, soft), UNCHANGED procs
  PROVE  CountersExact'
<1> DEFINE b == p_semAdd
           c == currentProcess
<1>1. c \in Pcb /\ b \in [Pcb -> Sem \cup {NoSem}] /\ b[c] = NoSem
  BY Facts DEF IInv, CpuTypes, Running, Elsewhere
<1>2. p_semAdd' = [b EXCEPT ![c] = s] /\ softBlockCount' = soft
  BY DEF BlockCurrentProcess
<1>3. softBlockCount = Cardinality(SoftBlocked(b))
  BY DEF CountersExact, SoftBlocked
<1>4. Cardinality(SoftBlocked([b EXCEPT ![c] = s])) =
        IF s \in Soft THEN Cardinality(SoftBlocked(b)) + 1 ELSE Cardinality(SoftBlocked(b))
  BY <1>1, CountBlocked
<1>5. softBlockCount' = Cardinality(SoftBlocked(p_semAdd'))
  BY <1>2, <1>3, <1>4
<1>6. softBlockCount' = Cardinality({p \in Pcb : p_semAdd'[p] \in Soft})
  BY <1>5 DEF SoftBlocked
<1> QED BY <1>6 DEF CountersExact, procs

(* Waking the head of a queue, told the right count.                       *)
LEMMA CountWake ==
  ASSUME IInv, CountersExact, NEW s \in Sem, s_procq[s] # <<>>, WakeOne(s), UNCHANGED procs,
         softBlockCount' = IF s \in Soft THEN softBlockCount - 1 ELSE softBlockCount
  PROVE  CountersExact'
<1> DEFINE b == p_semAdd
           h == Head(s_procq[s])
<1>1. h \in Pcb /\ b \in [Pcb -> Sem \cup {NoSem}] /\ b[h] = s
  <2>1. s_procq[s] \in Seq(Pcb)
    BY Facts
  <2>2. h \in Pcb /\ h \in Range(s_procq[s])
    BY <2>1, TailProperties
  <2> QED BY <2>2, Facts DEF BlockedWhere
<1>2. p_semAdd' = [b EXCEPT ![h] = NoSem]
  BY DEF WakeOne
<1> HIDE DEF h
<1>3. softBlockCount = Cardinality(SoftBlocked(b))
  BY DEF CountersExact, SoftBlocked
<1>4. Cardinality(SoftBlocked([b EXCEPT ![h] = NoSem])) =
        IF b[h] \in Soft THEN Cardinality(SoftBlocked(b)) - 1 ELSE Cardinality(SoftBlocked(b))
  BY <1>1, CountUnblocked
<1>5. softBlockCount' = Cardinality(SoftBlocked(p_semAdd'))
  BY <1>1, <1>2, <1>3, <1>4
<1>6. softBlockCount' = Cardinality({p \in Pcb : p_semAdd'[p] \in Soft})
  BY <1>5 DEF SoftBlocked
<1> QED BY <1>6 DEF CountersExact, procs

(* Acknowledging any number of sub-devices.                                *)
LEMMA CountAcknowledge ==
  ASSUME IInv, CountersExact, NEW ds \in SUBSET Dev, IsFiniteSet(ds), NEW rq, Acknowledge(ds, rq)
  PROVE  CountersExact'
<1> DEFINE W == Woken(ds)
<1>1. /\ W \in SUBSET ds /\ W \in SUBSET Dev /\ \A d \in W : s_procq[d] # <<>>
  BY DEF Woken, Completed
<1>2. IsFiniteSet(W) /\ PlacedNow
  BY <1>1, FS_Subset DEF IInv
<1>3. p_semAdd' = WokenB(W) /\ softBlockCount' = softBlockCount - Cardinality(W) /\ UNCHANGED procs
  BY DEF Acknowledge, WokenB
<1> HIDE DEF W
<1>4. Cardinality(SoftBlocked(WokenB(W))) = Cardinality(SoftBlocked(p_semAdd)) - Cardinality(W)
  BY <1>1, <1>2, CountWoken
<1>5. softBlockCount = Cardinality(SoftBlocked(p_semAdd))
  BY DEF CountersExact, SoftBlocked
<1>6. softBlockCount' = Cardinality(SoftBlocked(p_semAdd'))
  BY <1>3, <1>4, <1>5
<1>7. softBlockCount' = Cardinality({p \in Pcb : p_semAdd'[p] \in Soft})
  BY <1>6 DEF SoftBlocked
<1> QED BY <1>3, <1>7 DEF CountersExact, procs

(* CREATEPROCESS adds one live process, and none that is blocked.          *)
LEMMA CountCreate ==
  ASSUME IInv, CountersExact, NEW prio, NEW support, CreateProcess(prio, support)
  PROVE  CountersExact'
<1> DEFINE child == Head(pcbFree)
<1>1. /\ activeProcs' = activeProcs \cup {child} /\ processCount' = processCount + 1
      /\ p_semAdd' = [p_semAdd EXCEPT ![child] = NoSem] /\ softBlockCount' = softBlockCount
      /\ pcbFree # <<>>
  BY DEF CreateProcess
<1>2. pcbFree \in Seq(Pcb) /\ Range(pcbFree) = Pcb \ activeProcs
  BY DEF IInv, PlacedNow, Placed, QueueTypes, FreeApart
<1>3. child \in Pcb \ activeProcs
  BY <1>1, <1>2, TailProperties
<1> HIDE DEF child
<1>4. p_semAdd[child] = NoSem
  BY <1>3, Facts DEF Elsewhere
<1>5. p_semAdd' = p_semAdd
  BY <1>1, <1>4, Facts
<1>6. activeProcs \in SUBSET Pcb
  BY Facts
<1>7. IsFiniteSet(activeProcs)
  BY <1>6, PcbAssumption, FS_Subset
<1>8. Cardinality(activeProcs \cup {child}) = Cardinality(activeProcs) + 1
  BY <1>3, <1>7, FS_AddElement
<1> QED BY <1>1, <1>5, <1>8 DEF CountersExact

(* The end of terminateProcess takes one live process away, and counts it  *)
(* as unblocked exactly if it was soft-blocked.                            *)
LEMMA CountTerminateSelf ==
  ASSUME IInv, CountersExact, TerminateSelf
  PROVE  CountersExact'
<1> DEFINE p == Head(calls)
           s == p_semAdd[p]
           removed == s # NoSem /\ Contains(s_procq[s], p)
<1>1. /\ cpu = "terminate" /\ activeProcs' = activeProcs \ {p} /\ processCount' = processCount - 1
      /\ LeaveSemaphore(p)
  BY DEF TerminateSelf
<1>2. p \in activeProcs /\ p \in Pcb
  <2>1. calls # <<>> /\ calls \in Seq(Pcb) /\ Range(calls) = terminated \cap activeProcs
    BY <1>1 DEF IInv, CpuTypes, CallTypes, TerminationOnce
  <2> QED BY <2>1, TailProperties
<1>3. /\ p_semAdd' = [p_semAdd EXCEPT ![p] = NoSem]
      /\ softBlockCount' = IF removed /\ s \in Soft THEN softBlockCount - 1 ELSE softBlockCount
  BY <1>1 DEF LeaveSemaphore
<1> HIDE DEF p
<1>4. s \in Soft => removed
  <2> SUFFICES ASSUME s \in Soft
               PROVE  removed
    OBVIOUS
  <2>1. s \in Sem /\ s # NoSem
    BY Facts
  <2>2. p \in Range(s_procq[s]) /\ s_procq[s] \in Seq(Pcb)
    BY <1>2, <2>1, Facts DEF BlockedWhere
  <2>3. Contains(s_procq[s], p)
    BY <2>2, RangeEquality DEF Contains
  <2> QED BY <2>1, <2>3
<1> HIDE DEF removed
<1>5. Cardinality(SoftBlocked([p_semAdd EXCEPT ![p] = NoSem])) =
        IF s \in Soft THEN Cardinality(SoftBlocked(p_semAdd)) - 1
                      ELSE Cardinality(SoftBlocked(p_semAdd))
  BY <1>2, Facts, CountUnblocked
<1>6. softBlockCount = Cardinality(SoftBlocked(p_semAdd))
  BY DEF CountersExact, SoftBlocked
<1>7. softBlockCount' = Cardinality(SoftBlocked(p_semAdd'))
  BY <1>3, <1>4, <1>5, <1>6
<1>8. softBlockCount' = Cardinality({x \in Pcb : p_semAdd'[x] \in Soft})
  BY <1>7 DEF SoftBlocked
<1>9. activeProcs \in SUBSET Pcb
  BY Facts
<1>10. IsFiniteSet(activeProcs)
  BY <1>9, PcbAssumption, FS_Subset
<1>11. Cardinality(activeProcs \ {p}) = Cardinality(activeProcs) - 1
  BY <1>2, <1>10, FS_RemoveElement
<1> QED BY <1>1, <1>8, <1>11 DEF CountersExact

(* Every step keeps the counters exact. *)
LEMMA NextCounters == IInv /\ CountersExact /\ [Next]_vars => CountersExact'
<1> SUFFICES ASSUME IInv, CountersExact, [Next]_vars
             PROVE  CountersExact'
  OBVIOUS
<1>1. ASSUME NEW prio \in Prio, NEW support \in Support, CreateProcess(prio, support)
      PROVE  CountersExact'
  BY <1>1, CountCreate
<1>2. ASSUME NEW s \in Normal, Passeren(s)
      PROVE  CountersExact'
  <2>1. s \in Sem /\ s \notin Soft
    BY NormalIsNotSoft DEF Sem
  <2>2. CASE semVal[s] - 1 < 0
    BY <1>2, <2>1, <2>2, CountBlock DEF Passeren
  <2>3. CASE ~(semVal[s] - 1 < 0)
    BY <1>2, <2>3, CountFrame DEF Passeren
  <2> QED BY <2>2, <2>3
<1>3. ASSUME NEW s \in Normal, Verhogen(s)
      PROVE  CountersExact'
  <2>1. s \in Sem /\ s \notin Soft
    BY NormalIsNotSoft DEF Sem
  <2>2. CASE semVal[s] + 1 <= 0 /\ s_procq[s] # <<>>
    BY <1>3, <2>1, <2>2, CountWake DEF Verhogen
  <2>3. CASE ~(semVal[s] + 1 <= 0 /\ s_procq[s] # <<>>)
    BY <1>3, <2>3, CountFrame DEF Verhogen
  <2> QED BY <2>2, <2>3
<1>4. ASSUME NEW d \in Dev, DoIO(d)
      PROVE  CountersExact'
  <2>1. d \in Sem /\ d \in Soft
    BY DEF Sem, Soft
  <2> QED BY <1>4, <2>1, CountBlock DEF DoIO
<1>5. CASE ClockWait
  <2>1. Clock \in Sem /\ Clock \in Soft
    BY DEF Sem, Soft
  <2> QED BY <1>5, <2>1, CountBlock DEF ClockWait
<1>6. CASE Yield
  BY <1>6, CountFrame DEF Yield, sems
<1>7. ASSUME NEW target, Terminate(target)
      PROVE  CountersExact'
  BY <1>7 DEF Terminate, sems, CountersExact
<1>8. CASE TerminateChild
  BY <1>8 DEF TerminateChild, sems, CountersExact
<1>9. CASE TerminateSelf
  BY <1>9, CountTerminateSelf
<1>10. CASE TimeSlice
  BY <1>10, CountFrame DEF TimeSlice, sems
<1>11. CASE IntervalTimer
  BY <1>11, CountFrame DEF IntervalTimer, sems
<1>12. CASE TickWake
  <2>1. Clock \in Sem /\ Clock \in Soft
    BY DEF Sem, Soft
  <2> QED BY <1>12, <2>1, CountWake DEF TickWake
<1>13. CASE TickEnd
  BY <1>13, CountFrame DEF TickEnd
<1>14. ASSUME NEW line \in PlainLine, NEW n \in DevNo, DeviceInterrupt(line, n)
       PROVE  CountersExact'
  <2> DEFINE d == <<line, n>>
  <2>1. d \in Dev
    BY DEF Dev, PlainDev
  <2>2. \E rq : Acknowledge({d}, rq)
    BY <1>14 DEF DeviceInterrupt
  <2> HIDE DEF d
  <2>3. {d} \in SUBSET Dev /\ IsFiniteSet({d})
    BY <2>1, FS_Singleton
  <2> QED BY <2>2, <2>3, CountAcknowledge
<1>15. ASSUME NEW n \in TermNo, TerminalInterrupt(n)
       PROVE  CountersExact'
  <2> DEFINE tx == <<"tx", n>>
             rx == <<"rx", n>>
             ds == {d \in {tx, rx} : device[d] = "done"}
  <2>1. tx \in Dev /\ rx \in Dev
    BY DEF Dev, TxDev, RxDev
  <2>2. \E rq : Acknowledge(ds, rq)
    BY <1>15 DEF TerminalInterrupt
  <2> HIDE DEF tx, rx
  <2>3. IsFiniteSet({tx} \cup {rx}) /\ {tx} \cup {rx} = {tx, rx}
    BY FS_Singleton, FS_Union
  <2>4. ds \in SUBSET {tx, rx} /\ ds \in SUBSET Dev
    BY <2>1
  <2>5. IsFiniteSet(ds)
    BY <2>3, <2>4, FS_Subset
  <2> HIDE DEF ds
  <2> QED BY <2>2, <2>4, <2>5, CountAcknowledge
<1>16. ASSUME NEW d \in Dev, DeviceDone(d) \/ DeviceError(d)
       PROVE  CountersExact'
  BY <1>16, CountFrame DEF DeviceDone, DeviceError, sems
<1>17. CASE UNCHANGED vars
  BY <1>17, CountFrame DEF vars, sems
<1> QED BY <1>1, <1>2, <1>3, <1>4, <1>5, <1>6, <1>7, <1>8, <1>9, <1>10, <1>11, <1>12, <1>13,
           <1>14, <1>15, <1>16, <1>17 DEF Next, TermProcess, PassUpOrDie

(* The first process is the only live one, and it is not blocked.          *)
LEMMA InitCounters == Init => CountersExact
<1> SUFFICES ASSUME Init
             PROVE  CountersExact
  OBVIOUS
<1> PICK table \in PcbTables, values \in [Normal -> 0 .. MaxVal] : Boot(table, values)
  BY DEF Init
<1>1. \A p \in Pcb : p_semAdd[p] \notin Soft
  BY NoSemAssumption DEF Boot, Sem
<1>2. {p \in Pcb : p_semAdd[p] \in Soft} = {}
  BY <1>1
<1>3. Cardinality({currentProcess}) = 1 /\ Cardinality({}) = 0
  BY FS_Singleton, FS_EmptySet
<1> QED BY <1>2, <1>3 DEF Boot, CountersExact

(* processCount and softBlockCount are exact in every reachable state,     *)
(* between two iterations of terminateProcess and of the tick loop too.    *)
THEOREM CountersAreExact == Spec => []CountersExact
<1>1. Init => IInv /\ CountersExact
  BY InitIInv, InitCounters
<1>2. IInv /\ CountersExact /\ [Next]_vars => (IInv /\ CountersExact)'
  BY NextIInv, NextCounters
<1> QED BY <1>1, <1>2, PTL DEF Spec

-----------------------------------------------------------------------------
(* What the scheduler decided with is still so while the processor idles.  *)

Decided ==
  /\ cpu \in {"halt", "wait", "panic"} => currentProcess = NoProc /\ readyQueue = <<>>
  /\ cpu = "halt" => processCount = 0
  /\ cpu = "wait" => processCount # 0 /\ softBlockCount > 0
  /\ cpu = "panic" => processCount # 0 /\ softBlockCount <= 0

(* The scheduler, called with the counters the handler leaves.             *)
LEMMA SchedulerDecides ==
  ASSUME NEW rq, NEW live \in Int, NEW soft \in Int, Scheduler(rq, live, soft),
         processCount' = live, softBlockCount' = soft
  PROVE  Decided'
BY DEF Scheduler, Decided

(* The end of a handler that may find a current process.                   *)
LEMMA ResumeDecides ==
  ASSUME NEW cur, NEW rq, NEW live \in Int, NEW soft \in Int, ResumeOrSchedule(cur, rq, live, soft),
         processCount' = live, softBlockCount' = soft
  PROVE  Decided'
<1>1. CASE cur # NoProc
  BY <1>1 DEF ResumeOrSchedule, Decided
<1>2. CASE cur = NoProc
  BY <1>2, SchedulerDecides DEF ResumeOrSchedule
<1> QED BY <1>1, <1>2

(* blockCurrentProcess ends in the scheduler.                              *)
LEMMA BlockDecides ==
  ASSUME IInv, NEW s, NEW soft \in Int, BlockCurrentProcess(s, soft), UNCHANGED procs
  PROVE  Decided'
BY SchedulerDecides, Facts DEF BlockCurrentProcess, procs

(* Every step leaves a decision that fits the counters. *)
LEMMA NextDecided == IInv /\ IInv' /\ Decided /\ [Next]_vars => Decided'
<1> SUFFICES ASSUME IInv, IInv', Decided, [Next]_vars
             PROVE  Decided'
  OBVIOUS
<1>0. /\ processCount \in Int /\ softBlockCount \in Int
      /\ processCount' \in Int /\ softBlockCount' \in Int
  BY DEF IInv, OtherTypes
<1>1. ASSUME NEW prio \in Prio, NEW support \in Support, CreateProcess(prio, support)
      PROVE  Decided'
  <2>1. pcbFree # <<>> /\ pcbFree \in Seq(Pcb) /\ Range(pcbFree) = Pcb \ activeProcs
    BY <1>1 DEF CreateProcess, IInv, PlacedNow, Placed, QueueTypes, FreeApart
  <2>2. activeProcs # Pcb
    <3>1. Head(pcbFree) \in Pcb /\ Head(pcbFree) \in Range(pcbFree)
      BY <2>1, TailProperties
    <3> QED BY <2>1, <3>1
  <2>3. /\ \E rq : Scheduler(rq, processCount + 1, softBlockCount)
        /\ processCount' = processCount + 1 /\ softBlockCount' = softBlockCount
    BY <1>1, <2>2 DEF CreateProcess
  <2> QED BY <1>0, <2>3, SchedulerDecides
<1>2. ASSUME NEW s \in Normal, Passeren(s)
      PROVE  Decided'
  <2>1. CASE semVal[s] - 1 < 0
    BY <1>0, <1>2, <2>1, BlockDecides DEF Passeren
  <2>2. CASE ~(semVal[s] - 1 < 0)
    BY <1>2, <2>2 DEF Passeren, Running, Decided
  <2> QED BY <2>1, <2>2
<1>3. ASSUME NEW s \in Normal, Verhogen(s)
      PROVE  Decided'
  BY <1>3 DEF Verhogen, Running, Decided
<1>4. ASSUME NEW d \in Dev, DoIO(d)
      PROVE  Decided'
  BY <1>0, <1>4, BlockDecides DEF DoIO
<1>5. CASE ClockWait
  BY <1>0, <1>5, BlockDecides DEF ClockWait
<1>6. CASE Yield
  <2>1. CASE UNCHANGED cpu
    BY <1>6, <2>1 DEF Yield, Running, Decided
  <2>2. CASE \E rq : Scheduler(rq, processCount, softBlockCount)
    BY <1>0, <1>6, <2>2, SchedulerDecides DEF Yield, procs
  <2> QED BY <1>6, <2>1, <2>2 DEF Yield
<1>7. ASSUME NEW target, Terminate(target)
      PROVE  Decided'
  BY <1>7 DEF Terminate, Decided
<1>8. CASE TerminateChild
  BY <1>8 DEF TerminateChild, Decided
<1>9. CASE TerminateSelf
  <2>1. CASE Tail(calls) = <<>>
    <3>1. \E cur, rq : ResumeOrSchedule(cur, rq, processCount - 1, softBlockCount')
      BY <1>9, <2>1 DEF TerminateSelf
    <3>2. processCount' = processCount - 1
      BY <1>9 DEF TerminateSelf
    <3> QED BY <1>0, <3>1, <3>2, ResumeDecides
  <2>2. CASE Tail(calls) # <<>>
    BY <1>9, <2>2 DEF TerminateSelf, Decided
  <2> QED BY <2>1, <2>2
<1>10. CASE TimeSlice
  BY <1>0, <1>10, SchedulerDecides DEF TimeSlice, procs
<1>11. CASE IntervalTimer
  BY <1>11 DEF IntervalTimer, Decided
<1>12. CASE TickWake
  BY <1>12 DEF TickWake, Decided
<1>13. CASE TickEnd
  BY <1>0, <1>13, ResumeDecides DEF TickEnd, procs
<1>14. ASSUME NEW ds, NEW rq, Acknowledge(ds, rq)
       PROVE  Decided'
  <2>1. /\ ResumeOrSchedule(currentProcess, rq, processCount, softBlockCount')
        /\ processCount' = processCount
    BY <1>14 DEF Acknowledge, procs
  <2> QED BY <1>0, <2>1, ResumeDecides
<1>15. ASSUME NEW d \in Dev, DeviceDone(d) \/ DeviceError(d)
       PROVE  Decided'
  BY <1>15 DEF DeviceDone, DeviceError, procs, Decided
<1>16. CASE UNCHANGED vars
  BY <1>16 DEF vars, procs, Decided
<1>17. /\ (\E line \in PlainLine, n \in DevNo : DeviceInterrupt(line, n)) => Decided'
       /\ (\E n \in TermNo : TerminalInterrupt(n)) => Decided'
  BY <1>14 DEF DeviceInterrupt, TerminalInterrupt
<1> QED BY <1>1, <1>2, <1>3, <1>4, <1>5, <1>6, <1>7, <1>8, <1>9, <1>10, <1>11, <1>12, <1>13,
           <1>15, <1>16, <1>17 DEF Next, TermProcess, PassUpOrDie

(* With exact counters and every PCB in one place, the verdict is right.   *)
LEMMA VerdictFromCounters == IInv /\ CountersExact /\ Decided => IdleVerdict
<1> SUFFICES ASSUME IInv, CountersExact, Decided
             PROVE  IdleVerdict
  OBVIOUS
<1> DEFINE soft == {p \in Pcb : p_semAdd[p] \in Soft}
<1>1. activeProcs \in SUBSET Pcb /\ soft \in SUBSET Pcb
  BY Facts
<1>2. IsFiniteSet(activeProcs) /\ IsFiniteSet(soft)
  BY <1>1, PcbAssumption, FS_Subset
<1>3. Cardinality(activeProcs) = 0 <=> activeProcs = {}
  BY <1>2, FS_EmptySet
<1>4. (Cardinality(soft) = 0 <=> soft = {}) /\ Cardinality(soft) \in Nat
  BY <1>2, FS_EmptySet, FS_CardinalityType
<1>5. softBlockCount = Cardinality(soft) /\ processCount = Cardinality(activeProcs)
  BY DEF CountersExact
<1>6. \A p \in soft : p \in activeProcs
  BY Facts DEF Elsewhere
<1>7. cpu = "halt" => activeProcs = {}
  BY <1>3, <1>5 DEF Decided
<1>8. cpu = "wait" => \E p \in activeProcs : p_semAdd[p] \in Soft
  <2>1. cpu = "wait" => soft # {}
    BY <1>4, <1>5 DEF Decided
  <2> QED BY <1>6, <2>1
<1>9. cpu = "panic" => activeProcs # {} /\ \A p \in activeProcs : p_semAdd[p] \in Normal
  <2> SUFFICES ASSUME cpu = "panic"
               PROVE  activeProcs # {} /\ \A p \in activeProcs : p_semAdd[p] \in Normal
    OBVIOUS
  <2>1. currentProcess = NoProc /\ readyQueue = <<>> /\ processCount # 0 /\ softBlockCount <= 0
    BY DEF Decided
  <2>2. activeProcs # {}
    BY <1>3, <1>5, <2>1
  <2>3. soft = {}
    BY <1>4, <1>5, <2>1
  <2>4. Range(readyQueue) = {}
    BY <2>1 DEF Range
  <2>5. ASSUME NEW p \in activeProcs
        PROVE  p_semAdd[p] \in Normal
    <3>1. p \in Pcb /\ p # NoProc
      BY <1>1, PcbAssumption
    <3>2. p_semAdd[p] # NoSem
      BY <2>1, <2>4, <3>1, Facts DEF Elsewhere
    <3>3. p_semAdd[p] \in Sem /\ p_semAdd[p] \notin Soft
      BY <2>3, <3>1, <3>2, Facts
    <3> QED BY <3>3 DEF Sem
  <2> QED BY <2>2, <2>5
<1> QED BY <1>7, <1>8, <1>9 DEF IdleVerdict

(* The scheduler halts only when no process is left, waits only when one   *)
(* waits for an interrupt, and panics only when every process waits for a  *)
(* V that none of them can do; CREATEPROCESS never panics.                 *)
THEOREM IdleVerdictSound == Spec => []IdleVerdict
<1>1. Init => Decided
  BY DEF Init, Boot, Decided
<1>2. Init => IInv /\ CountersExact /\ Decided
  BY <1>1, InitIInv, InitCounters
<1>3. IInv /\ CountersExact /\ Decided /\ [Next]_vars => (IInv /\ CountersExact /\ Decided)'
  BY NextIInv, NextCounters, NextDecided
<1>4. IInv /\ CountersExact /\ Decided => IdleVerdict
  BY VerdictFromCounters
<1> QED BY <1>2, <1>3, <1>4, PTL DEF Spec

-----------------------------------------------------------------------------
(* The value of a semaphore agrees with its queue.                         *)

Balanced(s, value, queue) ==
  IF s \in Soft THEN Len(queue) <= -value
                ELSE Len(queue) = IF value < 0 THEN -value ELSE 0

AllBalanced == \A s \in Sem : Balanced(s, semVal[s], s_procq[s])

(* SemaphoreBalance, one semaphore at a time. *)
LEMMA BalancedSems == SemaphoreBalance <=> AllBalanced
<1>1. \A s \in Sem : s \in Soft \/ s \in Normal
  BY DEF Sem
<1>2. Soft \subseteq Sem /\ Normal \subseteq Sem /\ \A s \in Normal : s \notin Soft
  BY NormalIsNotSoft DEF Sem
<1> QED BY <1>1, <1>2 DEF SemaphoreBalance, Balanced, AllBalanced

(* What the following lemmas use of IInv.                                  *)
LEMMA SemFacts ==
  ASSUME IInv
  PROVE  /\ semVal \in [Sem -> Int] /\ s_procq \in [Sem -> Seq(Pcb)]
         /\ \A s \in Sem : semVal[s] \in Int /\ s_procq[s] \in Seq(Pcb)
BY Facts DEF IInv, OtherTypes

(* A handler that touches no semaphore.                                    *)
LEMMA BalanceFrame ==
  ASSUME SemaphoreBalance, UNCHANGED <<semVal, s_procq>>
  PROVE  SemaphoreBalance'
BY DEF SemaphoreBalance

(* One semaphore changes, and stays balanced.                              *)
LEMMA BalanceOne ==
  ASSUME SemaphoreBalance, NEW s \in Sem,
         \A t \in Sem : t # s => semVal'[t] = semVal[t] /\ s_procq'[t] = s_procq[t],
         Balanced(s, semVal'[s], s_procq'[s])
  PROVE  SemaphoreBalance'
<1>1. \A t \in Sem : Balanced(t, semVal'[t], s_procq'[t])
  BY BalancedSems DEF AllBalanced
<1>2. SemaphoreBalance' <=> AllBalanced'
  BY BalancedSems, PTL
<1> QED BY <1>1, <1>2 DEF AllBalanced

(* A P whose caller blocks: one unit less, one waiter more.                *)
LEMMA BalanceBlock ==
  ASSUME IInv, SemaphoreBalance, Running, NEW s \in Sem, NEW soft,
         semVal' = [semVal EXCEPT ![s] = @ - 1],
         s \notin Soft => semVal[s] - 1 < 0,
         BlockCurrentProcess(s, soft)
  PROVE  SemaphoreBalance'
<1>1. currentProcess \in Pcb
  BY Facts DEF IInv, CpuTypes, Running
<1>2. CanBlock(s_procq, s, MaxProc)
  BY <1>1, PlacedCanBlock DEF IInv, PlacedNow
<1>3. s_procq' = [s_procq EXCEPT ![s] = Append(@, currentProcess)]
  BY <1>2 DEF BlockCurrentProcess, InsertBlocked
<1>4. Balanced(s, semVal[s], s_procq[s])
  BY BalancedSems DEF AllBalanced
<1>5. Len(Append(s_procq[s], currentProcess)) = Len(s_procq[s]) + 1 /\ Len(s_procq[s]) \in Nat
  BY <1>1, SemFacts
<1>6. Balanced(s, semVal[s] - 1, Append(s_procq[s], currentProcess))
  BY <1>4, <1>5, SemFacts DEF Balanced
<1>7. /\ semVal'[s] = semVal[s] - 1 /\ s_procq'[s] = Append(s_procq[s], currentProcess)
      /\ \A t \in Sem : t # s => semVal'[t] = semVal[t] /\ s_procq'[t] = s_procq[t]
  BY <1>3, SemFacts
<1> QED BY <1>6, <1>7, BalanceOne

(* VERHOGEN adds a unit, or gives it to the head of the queue.             *)
LEMMA BalanceVerhogen ==
  ASSUME IInv, SemaphoreBalance, NEW s \in Normal, Verhogen(s)
  PROVE  SemaphoreBalance'
<1>1. s \in Sem /\ s \notin Soft
  BY NormalIsNotSoft DEF Sem
<1>2. Balanced(s, semVal[s], s_procq[s]) /\ Len(s_procq[s]) \in Nat
  BY <1>1, BalancedSems, SemFacts DEF AllBalanced
<1>3. semVal' = [semVal EXCEPT ![s] = @ + 1]
  BY DEF Verhogen
<1>4. CASE semVal[s] + 1 <= 0 /\ s_procq[s] # <<>>
  <2>1. s_procq' = [s_procq EXCEPT ![s] = Tail(@)]
    BY <1>4 DEF Verhogen, WakeOne, RemoveBlocked
  <2>2. Len(Tail(s_procq[s])) = Len(s_procq[s]) - 1
    BY <1>1, <1>4, SemFacts
  <2>3. Balanced(s, semVal[s] + 1, Tail(s_procq[s]))
    BY <1>1, <1>2, <1>4, <2>2, SemFacts DEF Balanced
  <2>4. /\ semVal'[s] = semVal[s] + 1 /\ s_procq'[s] = Tail(s_procq[s])
        /\ \A t \in Sem : t # s => semVal'[t] = semVal[t] /\ s_procq'[t] = s_procq[t]
    BY <1>1, <1>3, <2>1, SemFacts
  <2> QED BY <1>1, <2>3, <2>4, BalanceOne
<1>5. CASE ~(semVal[s] + 1 <= 0 /\ s_procq[s] # <<>>)
  <2>1. s_procq' = s_procq
    BY <1>5 DEF Verhogen
  <2>2. s_procq[s] = <<>> <=> Len(s_procq[s]) = 0
    BY <1>1, SemFacts, EmptySeq
  <2>3. Balanced(s, semVal[s] + 1, s_procq[s])
    BY <1>1, <1>2, <1>5, <2>2, SemFacts DEF Balanced
  <2>4. /\ semVal'[s] = semVal[s] + 1 /\ s_procq'[s] = s_procq[s]
        /\ \A t \in Sem : t # s => semVal'[t] = semVal[t] /\ s_procq'[t] = s_procq[t]
    BY <1>1, <1>3, <2>1, SemFacts
  <2> QED BY <1>1, <2>3, <2>4, BalanceOne
<1> QED BY <1>4, <1>5

(* A blocked process that is terminated undoes its own P on a process      *)
(* semaphore, and leaves the unit for the interrupt on the others.         *)
LEMMA BalanceTerminateSelf ==
  ASSUME IInv, SemaphoreBalance, TerminateSelf
  PROVE  SemaphoreBalance'
<1> DEFINE p == Head(calls)
           s == p_semAdd[p]
<1>1. cpu = "terminate" /\ LeaveSemaphore(p)
  BY DEF TerminateSelf
<1>2. p \in Pcb
  <2>1. calls # <<>> /\ calls \in Seq(Pcb)
    BY <1>1 DEF IInv, CpuTypes, CallTypes
  <2> QED BY <2>1, TailProperties
<1> HIDE DEF p
<1>3. CASE ~(s # NoSem /\ Contains(s_procq[s], p))
  <2>1. semVal' = semVal /\ s_procq' = s_procq
    BY <1>1, <1>3 DEF LeaveSemaphore
  <2> QED BY <2>1, BalanceFrame
<1>4. CASE s # NoSem /\ Contains(s_procq[s], p)
  <2>1. /\ s_procq' = [s_procq EXCEPT ![s] = RemoveFirst(@, p)]
        /\ semVal' = IF s \notin Soft THEN [semVal EXCEPT ![s] = @ + 1] ELSE semVal
    BY <1>1, <1>4 DEF LeaveSemaphore, OutBlocked
  <2>2. s \in Sem
    BY <1>2, <1>4, Facts
  <2> HIDE DEF s
  <2>3. s_procq[s] \in Seq(Pcb) /\ IsInjective(s_procq[s]) /\ Len(s_procq[s]) \in Nat
    BY <2>2, SemFacts DEF IInv, PlacedNow, Placed, NoDuplicates
  <2>4. p \in Range(s_procq[s])
    BY <1>4, <2>3, RangeEquality DEF Contains
  <2>5. Len(RemoveFirst(s_procq[s], p)) = Len(s_procq[s]) - 1
    BY <2>3, <2>4, RemoveFirstProperties
  <2>6. Len(s_procq[s]) # 0
    <3>1. Range(s_procq[s]) = {s_procq[s][i] : i \in 1 .. Len(s_procq[s])}
      BY <2>3, RangeEquality
    <3> QED BY <2>3, <2>4, <3>1
  <2>7. Balanced(s, semVal[s], s_procq[s]) /\ semVal[s] \in Int
    BY <2>2, BalancedSems, SemFacts DEF AllBalanced
  <2>8. /\ s_procq'[s] = RemoveFirst(s_procq[s], p)
        /\ semVal'[s] = IF s \notin Soft THEN semVal[s] + 1 ELSE semVal[s]
        /\ \A t \in Sem : t # s => semVal'[t] = semVal[t] /\ s_procq'[t] = s_procq[t]
    BY <2>1, <2>2, SemFacts
  <2>9. Balanced(s, semVal'[s], s_procq'[s])
    BY <2>3, <2>5, <2>6, <2>7, <2>8 DEF Balanced
  <2> QED BY <2>2, <2>8, <2>9, BalanceOne
<1> QED BY <1>3, <1>4

(* An interrupt adds a unit where one is missing, and a waiter takes it.   *)
LEMMA BalanceAcknowledge ==
  ASSUME IInv, SemaphoreBalance, NEW ds \in SUBSET Dev, NEW rq, Acknowledge(ds, rq)
  PROVE  SemaphoreBalance'
<1>1. ASSUME NEW s \in Sem
      PROVE  Balanced(s, semVal'[s], s_procq'[s])
  <2>1. /\ semVal'[s] = IF s \in Completed(ds) THEN semVal[s] + 1 ELSE semVal[s]
        /\ s_procq'[s] = IF s \in Woken(ds) THEN Tail(s_procq[s]) ELSE s_procq[s]
    BY DEF Acknowledge
  <2>2. Balanced(s, semVal[s], s_procq[s]) /\ semVal[s] \in Int /\ s_procq[s] \in Seq(Pcb)
    BY BalancedSems, SemFacts DEF AllBalanced
  <2>3. /\ Len(s_procq[s]) \in Nat /\ (s_procq[s] = <<>> => Len(s_procq[s]) = 0)
        /\ s_procq[s] # <<>> => Len(Tail(s_procq[s])) = Len(s_procq[s]) - 1
    BY <2>2
  <2>4. CASE s \in Completed(ds)
    <3>1. s \in Soft /\ semVal[s] < 0
      BY <2>4 DEF Completed, Soft
    <3>2. CASE s_procq[s] # <<>>
      <4>1. s \in Woken(ds)
        BY <2>4, <3>2 DEF Woken
      <4> QED BY <2>1, <2>2, <2>3, <2>4, <3>1, <3>2, <4>1 DEF Balanced
    <3>3. CASE s_procq[s] = <<>>
      <4>1. s \notin Woken(ds)
        BY <3>3 DEF Woken
      <4> QED BY <2>1, <2>2, <2>3, <2>4, <3>1, <3>3, <4>1 DEF Balanced
    <3> QED BY <3>2, <3>3
  <2>5. CASE s \notin Completed(ds)
    <3>1. s \notin Woken(ds)
      BY <2>5 DEF Woken
    <3> QED BY <2>1, <2>2, <2>5, <3>1
  <2> QED BY <2>4, <2>5
<1>2. SemaphoreBalance' <=> AllBalanced'
  BY BalancedSems, PTL
<1> QED BY <1>1, <1>2 DEF AllBalanced

(* Every step keeps values and queues in agreement. *)
LEMMA NextBalance == IInv /\ SemaphoreBalance /\ [Next]_vars => SemaphoreBalance'
<1> SUFFICES ASSUME IInv, SemaphoreBalance, [Next]_vars
             PROVE  SemaphoreBalance'
  OBVIOUS
<1>1. ASSUME NEW prio \in Prio, NEW support \in Support, CreateProcess(prio, support)
      PROVE  SemaphoreBalance'
  BY <1>1, BalanceFrame DEF CreateProcess
<1>2. ASSUME NEW s \in Normal, Passeren(s)
      PROVE  SemaphoreBalance'
  <2>1. s \in Sem /\ s \notin Soft
    BY NormalIsNotSoft DEF Sem
  <2>2. CASE semVal[s] - 1 < 0
    BY <1>2, <2>1, <2>2, BalanceBlock DEF Passeren
  <2>3. CASE ~(semVal[s] - 1 < 0)
    <3>1. semVal' = [semVal EXCEPT ![s] = @ - 1] /\ s_procq' = s_procq
      BY <1>2, <2>3 DEF Passeren
    <3>2. Balanced(s, semVal[s], s_procq[s]) /\ semVal[s] \in Int
      BY <2>1, BalancedSems, SemFacts DEF AllBalanced
    <3>3. Balanced(s, semVal[s] - 1, s_procq[s])
      BY <2>1, <2>3, <3>2 DEF Balanced
    <3>4. /\ semVal'[s] = semVal[s] - 1 /\ s_procq'[s] = s_procq[s]
          /\ \A t \in Sem : t # s => semVal'[t] = semVal[t] /\ s_procq'[t] = s_procq[t]
      BY <2>1, <3>1, SemFacts
    <3> QED BY <2>1, <3>3, <3>4, BalanceOne
  <2> QED BY <2>2, <2>3
<1>3. ASSUME NEW s \in Normal, Verhogen(s)
      PROVE  SemaphoreBalance'
  BY <1>3, BalanceVerhogen
<1>4. ASSUME NEW d \in Dev, DoIO(d)
      PROVE  SemaphoreBalance'
  <2>1. d \in Sem /\ d \in Soft
    BY DEF Sem, Soft
  <2> QED BY <1>4, <2>1, BalanceBlock DEF DoIO
<1>5. CASE ClockWait
  <2>1. Clock \in Sem /\ Clock \in Soft
    BY DEF Sem, Soft
  <2> QED BY <1>5, <2>1, BalanceBlock DEF ClockWait
<1>6. CASE Yield
  BY <1>6, BalanceFrame DEF Yield, sems
<1>7. ASSUME NEW target, Terminate(target)
      PROVE  SemaphoreBalance'
  BY <1>7, BalanceFrame DEF Terminate, sems
<1>8. CASE TerminateChild
  BY <1>8, BalanceFrame DEF TerminateChild, sems
<1>9. CASE TerminateSelf
  BY <1>9, BalanceTerminateSelf
<1>10. CASE TimeSlice
  BY <1>10, BalanceFrame DEF TimeSlice, sems
<1>11. CASE IntervalTimer
  BY <1>11, BalanceFrame DEF IntervalTimer, sems
<1>12. Clock \in Sem /\ Clock \in Soft
  BY DEF Sem, Soft
<1>13. CASE TickWake
  <2>1. /\ s_procq' = [s_procq EXCEPT ![Clock] = Tail(@)] /\ semVal' = semVal
        /\ s_procq[Clock] # <<>>
    BY <1>13 DEF TickWake, WakeOne, RemoveBlocked
  <2>2. Balanced(Clock, semVal[Clock], s_procq[Clock]) /\ semVal[Clock] \in Int
    BY <1>12, BalancedSems, SemFacts DEF AllBalanced
  <2>3. Len(Tail(s_procq[Clock])) = Len(s_procq[Clock]) - 1 /\ Len(s_procq[Clock]) \in Nat
    BY <1>12, <2>1, SemFacts
  <2>4. Balanced(Clock, semVal[Clock], Tail(s_procq[Clock]))
    BY <1>12, <2>2, <2>3 DEF Balanced
  <2>5. /\ semVal'[Clock] = semVal[Clock] /\ s_procq'[Clock] = Tail(s_procq[Clock])
        /\ \A t \in Sem : t # Clock => semVal'[t] = semVal[t] /\ s_procq'[t] = s_procq[t]
    BY <1>12, <2>1, SemFacts
  <2> HIDE DEF Clock
  <2> QED BY <1>12, <2>4, <2>5, BalanceOne
<1>14. CASE TickEnd
  <2>1. /\ semVal' = [semVal EXCEPT ![Clock] = 0] /\ s_procq' = s_procq
        /\ s_procq[Clock] = <<>>
    BY <1>14 DEF TickEnd
  <2>2. Balanced(Clock, 0, s_procq[Clock])
    BY <1>12, <2>1 DEF Balanced
  <2>3. /\ semVal'[Clock] = 0 /\ s_procq'[Clock] = s_procq[Clock]
        /\ \A t \in Sem : t # Clock => semVal'[t] = semVal[t] /\ s_procq'[t] = s_procq[t]
    BY <1>12, <2>1, SemFacts
  <2> QED BY <1>12, <2>2, <2>3, BalanceOne
<1>15. ASSUME NEW line \in PlainLine, NEW n \in DevNo, DeviceInterrupt(line, n)
       PROVE  SemaphoreBalance'
  <2> DEFINE d == <<line, n>>
  <2>1. {d} \in SUBSET Dev
    BY DEF Dev, PlainDev
  <2>2. \E rq : Acknowledge({d}, rq)
    BY <1>15 DEF DeviceInterrupt
  <2> HIDE DEF d
  <2> QED BY <2>1, <2>2, BalanceAcknowledge
<1>16. ASSUME NEW n \in TermNo, TerminalInterrupt(n)
       PROVE  SemaphoreBalance'
  <2> DEFINE tx == <<"tx", n>>
             rx == <<"rx", n>>
             ds == {d \in {tx, rx} : device[d] = "done"}
  <2>1. ds \in SUBSET Dev
    BY DEF Dev, TxDev, RxDev
  <2>2. \E rq : Acknowledge(ds, rq)
    BY <1>16 DEF TerminalInterrupt
  <2> HIDE DEF ds
  <2> QED BY <2>1, <2>2, BalanceAcknowledge
<1>17. ASSUME NEW d \in Dev, DeviceDone(d) \/ DeviceError(d)
       PROVE  SemaphoreBalance'
  BY <1>17, BalanceFrame DEF DeviceDone, DeviceError, sems
<1>18. CASE UNCHANGED vars
  BY <1>18, BalanceFrame DEF vars, sems
<1> QED BY <1>1, <1>2, <1>3, <1>4, <1>5, <1>6, <1>7, <1>8, <1>9, <1>10, <1>11, <1>13, <1>14,
           <1>15, <1>16, <1>17, <1>18 DEF Next, TermProcess, PassUpOrDie

(* No semaphore has waiters, and none has a negative value, at the start.  *)
LEMMA InitBalance == Init => SemaphoreBalance
<1> SUFFICES ASSUME Init
             PROVE  SemaphoreBalance
  OBVIOUS
<1> PICK table \in PcbTables, values \in [Normal -> 0 .. MaxVal] : Boot(table, values)
  BY DEF Init
<1>1. semVal \in [Sem -> 0 .. MaxVal] /\ \A s \in Soft : semVal[s] = 0
  BY BoundAssumption DEF Boot, Sem
<1>2. \A s \in Sem : Len(s_procq[s]) = 0 /\ semVal[s] >= 0
  BY <1>1, BoundAssumption DEF Boot
<1>3. Soft \subseteq Sem
  BY DEF Sem
<1>4. \A s \in Sem : Balanced(s, semVal[s], s_procq[s])
  BY <1>1, <1>2, <1>3, BoundAssumption DEF Balanced
<1> QED BY <1>4, BalancedSems DEF AllBalanced

(* A negative process semaphore counts its waiters, whoever is killed      *)
(* among them; a device or clock semaphore never has more waiters than     *)
(* interrupts are going to wake.                                           *)
THEOREM SemaphoresBalance == Spec => []SemaphoreBalance
<1>1. Init => IInv /\ SemaphoreBalance
  BY InitIInv, InitBalance
<1>2. IInv /\ SemaphoreBalance /\ [Next]_vars => (IInv /\ SemaphoreBalance)'
  BY NextIInv, NextBalance
<1> QED BY <1>1, <1>2, PTL DEF Spec
=============================================================================
