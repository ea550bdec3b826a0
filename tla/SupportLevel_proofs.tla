------------------------ MODULE SupportLevel_proofs ------------------------
(***************************************************************************)
(* The support level keeps its mutexes, runs one program at a time and     *)
(* leaves no frame to a program that has ended, with any number of ASIDs,  *)
(* pages, frames and launches, whether or not the flash devices fail.      *)
(***************************************************************************)
EXTENDS SupportProperties, ProcQ_proofs

(* Which labels are whose.                                                 *)
LabelInv ==
  /\ pc[Instantiator] \in {"test", "end", "none"}
  /\ \A a \in Uproc : pc[a] \notin {"test", "end"} /\ (pc[a] = "execute" => a = Shell)

(* Where a process is that waits for a semaphore: nobody ever waits for a  *)
(* flash device, since the pool is locked first.                           *)
WaitsAt(s, l) ==
  \/ s = Pool /\ l \in {"pg_pick", "free"}
  \/ s = Tx /\ l = "tx_next"
  \/ s = Rx /\ l = "rx_receive"
  \/ s = Master /\ l = "end"
  \/ s = ShellSem /\ l = "prog"

QueueInv ==
  \A s \in Sem :
    /\ IsInjective(queue[s])
    /\ \A a \in Range(queue[s]) : WaitsAt(s, pc[a])

(* Balanced, and that one process at most is inside, one at least if       *)
(* another waits.                                                          *)
MutexOk(s) ==
  /\ \A x, y \in Inside(s) : x = y
  /\ sem[s] = (IF Inside(s) = {} THEN 1 ELSE 0) - Len(queue[s])
  /\ queue[s] # <<>> => Inside(s) # {}

FlashMutexInv == \A a \in Uproc : MutexOk(Flash(a))

(* The shell waits for the one program it launched, or is about to.        *)
Launched == {a \in Uproc \ {Shell} : pc[a] # "none"}
ShellWaits == Shell \in Range(queue[ShellSem])

ProgramInv ==
  /\ \A a, b \in Launched : a = b
  /\ Launched # {} => ShellWaits \/ pc[Shell] = "execute"
  /\ Range(queue[ShellSem]) \subseteq {Shell}
  /\ sem[ShellSem] = IF ShellWaits THEN -1 ELSE IF pc[Shell] = "execute" /\ Launched = {} THEN 1 ELSE 0

(* The instantiator waits for the shell, or is about to.                   *)
MasterInv ==
  /\ pc[Shell] # "none" => \/ pc[Instantiator] = "test" /\ sem[Master] = 0 /\ queue[Master] = <<>>
                           \/ pc[Instantiator] = "end" /\ Instantiator \in Range(queue[Master])
  /\ pc[Shell] = "none" => /\ queue[Master] = <<>>
                           /\ pc[Instantiator] = "test" => sem[Master] = 1
  /\ Shell \in leaving => pc[Shell] = "none"

(* The VPN that no page has never gets into the TLB, so the pager is never *)
(* entered for it; and what it writes out is the page of some program.     *)
PagerInv ==
  \A a \in Uproc :
    /\ tlb[a][HoleVpn] = Absent
    /\ pc[a] \in InPager => vpn[a] # HoleVpn
    /\ pc[a] = "pg_write" => swapPool[slot[a]] # Free

(* A frame with a page in it has been read into.                           *)
ContentInv ==
  /\ \A i \in Frame : swapPool[i] # Free => ram[i] \in Content
  /\ \A a \in Uproc : pc[a] = "pg_map" => ram[slot[a]] \in Content

OwnInv == \A i \in Frame : swapPool[i] # Free => Alive(swapPool[i][1])

IInv ==
  /\ SupportTypeOK /\ LabelInv /\ QueueInv /\ MutexOk(Pool) /\ FlashMutexInv
  /\ ProgramInv /\ MasterInv /\ PagerInv /\ ContentInv /\ OwnInv

-----------------------------------------------------------------------------
(* Constants.                                                              *)

(* The shell is one of the processes with an ASID, the instantiator is     *)
(* not.                                                                    *)
LEMMA Processes ==
  /\ Shell \in Uproc /\ Instantiator \notin Uproc /\ Shell # Instantiator
  /\ Process = Uproc \cup {Instantiator}
  /\ Shell \in Process /\ Instantiator \in Process /\ Uproc \subseteq Process
BY PagerAssumption DEF Shell, Instantiator, Uproc, Process

(* The semaphores, by name.                                                *)
LEMMA Semaphores ==
  /\ Pool \in Sem /\ Tx \in Sem /\ Rx \in Sem /\ Master \in Sem /\ ShellSem \in Sem
  /\ \A a \in Uproc : Flash(a) \in Sem
  /\ \A s \in Sem : \/ s \in {Pool, Tx, Rx, Master, ShellSem}
                    \/ \E a \in Uproc : s = Flash(a)
BY DEF Sem, Mutex

(* No two names mean the same semaphore.                                   *)
LEMMA Apart ==
  /\ Pool # Tx /\ Pool # Rx /\ Pool # Master /\ Pool # ShellSem
  /\ Tx # Rx /\ Tx # Master /\ Tx # ShellSem
  /\ Rx # Master /\ Rx # ShellSem /\ Master # ShellSem
BY DEF Pool, Tx, Rx, Master, ShellSem

(* Each flash device has a mutex of its own.                               *)
LEMMA FlashApart ==
  ASSUME NEW a
  PROVE  /\ Flash(a) # Pool /\ Flash(a) # Tx /\ Flash(a) # Rx
         /\ Flash(a) # Master /\ Flash(a) # ShellSem
         /\ \A b : Flash(a) = Flash(b) => a = b
BY DEF Pool, Tx, Rx, Master, ShellSem, Flash

(* Frames, pages and VPNs.                                                 *)
LEMMA Pages ==
  /\ 0 \in Frame /\ \A i \in Frame : NextFrame(i) \in Frame
  /\ Invalid \notin Frame /\ Absent \notin Frame /\ Invalid # Absent
  /\ HoleVpn \in Vpn /\ \A p \in Page : EntryVpn(p) \in Vpn /\ EntryVpn(p) # HoleVpn
  /\ \A v \in Vpn : RefillIndex(v) \in Page
  /\ \A v \in Vpn : v # HoleVpn => /\ VpnToIndex(v) \in Page /\ ~(VpnToIndex(v) < 0)
                                   /\ RefillIndex(v) = VpnToIndex(v)
                                   /\ EntryVpn(VpnToIndex(v)) = v
  /\ \A p \in Page : VpnToIndex(EntryVpn(p)) = p
<1>1. /\ 0 \in Frame /\ \A i \in Frame : NextFrame(i) \in Frame
  BY PagerAssumption DEF Frame, NextFrame
<1>2. Invalid \notin Frame /\ Absent \notin Frame /\ Invalid # Absent
  BY PagerAssumption DEF Frame, Invalid, Absent
<1> QED BY <1>1, <1>2, PagerAssumption DEF Page, Vpn, StackPage, StackVpn, HoleVpn, EntryVpn, RefillIndex, VpnToIndex

-----------------------------------------------------------------------------
(* Queues and semaphores.                                                  *)

(* A queue with nobody in it is empty.                                     *)
LEMMA EmptyRange ==
  ASSUME NEW S, NEW q \in Seq(S)
  PROVE  /\ Range(q) = {} <=> q = <<>>
         /\ Range(q) \subseteq S
<1>1. Range(q) = {q[i] : i \in 1 .. Len(q)} /\ Len(q) \in Nat
  BY RangeEquality
<1>2. q # <<>> => 1 \in 1 .. Len(q)
  OBVIOUS
<1>3. q = <<>> => 1 .. Len(q) = {}
  OBVIOUS
<1>4. \A i \in 1 .. Len(q) : q[i] \in S
  OBVIOUS
<1> QED BY <1>1, <1>2, <1>3, <1>4

(* Nobody waits for a flash device.                                        *)
LEMMA FlashQueues ==
  ASSUME SupportTypeOK, QueueInv, NEW a \in Uproc
  PROVE  queue[Flash(a)] = <<>>
<1>1. Flash(a) \in Sem /\ \A l : ~WaitsAt(Flash(a), l)
  BY Semaphores, FlashApart DEF WaitsAt
<1>2. queue[Flash(a)] \in Seq(Process) /\ Range(queue[Flash(a)]) = {}
  BY <1>1 DEF QueueInv, SupportTypeOK
<1> QED BY <1>2, EmptyRange

(* A P changes a value and perhaps the queue of one semaphore, and a V     *)
(* takes away the head of its queue.                                       *)
LEMMA PStep ==
  ASSUME SupportTypeOK, NEW a \in Process, NEW s \in Sem, P(a, s)
  PROVE  /\ sem' \in [Sem -> Int] /\ queue' \in [Sem -> Seq(Process)]
         /\ sem[s] \in Int /\ sem'[s] = sem[s] - 1
         /\ queue'[s] = IF sem[s] > 0 THEN queue[s] ELSE Append(queue[s], a)
         /\ \A t \in Sem : t # s => sem'[t] = sem[t] /\ queue'[t] = queue[t]
<1>1. sem[s] \in Int /\ queue[s] \in Seq(Process) /\ Append(queue[s], a) \in Seq(Process)
  BY AddTailProperties DEF SupportTypeOK
<1> QED BY <1>1 DEF P, SupportTypeOK

(* What V does to its semaphore and to the others.                         *)
LEMMA VStep ==
  ASSUME SupportTypeOK, NEW s \in Sem, V(s)
  PROVE  /\ sem' \in [Sem -> Int] /\ queue' \in [Sem -> Seq(Process)]
         /\ sem[s] \in Int /\ sem'[s] = sem[s] + 1
         /\ queue'[s] = IF queue[s] = <<>> THEN <<>> ELSE Tail(queue[s])
         /\ \A t \in Sem : t # s => sem'[t] = sem[t] /\ queue'[t] = queue[t]
<1>1. sem[s] \in Int /\ queue[s] \in Seq(Process)
  BY DEF SupportTypeOK
<1>2. queue[s] # <<>> => Tail(queue[s]) \in Seq(Process)
  BY <1>1, TailProperties
<1> QED BY <1>1, <1>2 DEF V, SupportTypeOK

(* A P or a V leaves all other semaphores alone.                           *)
LEMMA OtherSemaphores ==
  ASSUME SupportTypeOK, NEW s \in Sem, NEW t \in Sem, t # s,
         V(s) \/ \E a \in Process : P(a, s)
  PROVE  queue'[t] = queue[t] /\ sem'[t] = sem[t]
<1>1. CASE V(s)
  BY <1>1, VStep
<1>2. ASSUME NEW a \in Process, P(a, s)
      PROVE  queue'[t] = queue[t] /\ sem'[t] = sem[t]
  BY <1>2, PStep
<1> QED BY <1>1, <1>2

(* QueueInv depends on the places of those that wait, and they do not move. *)
LEMMA WaitersStay ==
  ASSUME SupportTypeOK, QueueInv, NEW a, Ready(a),
         \A x \in Process : x # a => pc'[x] = pc[x] \/ pc[x] = "none",
         NEW s \in Sem
  PROVE  /\ queue[s] \in Seq(Process) /\ IsInjective(queue[s])
         /\ a \notin Range(queue[s]) /\ Range(queue[s]) \subseteq Process
         /\ \A x \in Range(queue[s]) : WaitsAt(s, pc[x]) /\ WaitsAt(s, pc'[x])
<1>1. /\ queue[s] \in Seq(Process) /\ IsInjective(queue[s])
      /\ a \notin Range(queue[s]) /\ Range(queue[s]) \subseteq Process
  BY EmptyRange DEF SupportTypeOK, QueueInv, Ready
<1>2. ASSUME NEW x \in Range(queue[s])
      PROVE  WaitsAt(s, pc[x]) /\ WaitsAt(s, pc'[x])
  <2>1. WaitsAt(s, pc[x])
    BY DEF QueueInv
  <2>2. pc[x] # "none"
    BY <2>1 DEF WaitsAt
  <2>3. pc'[x] = pc[x]
    BY <1>1, <2>2
  <2> QED BY <2>1, <2>3
<1> QED BY <1>1, <1>2

(* A step of a process that waits nowhere, without P or V.                 *)
LEMMA QueueKept ==
  ASSUME SupportTypeOK, QueueInv, NEW a, Ready(a), UNCHANGED queue,
         \A x \in Process : x # a => pc'[x] = pc[x] \/ pc[x] = "none"
  PROVE  QueueInv'
BY WaitersStay DEF QueueInv

(* A P keeps queues in order if its caller waits where callers of it do.   *)
LEMMA QueueP ==
  ASSUME SupportTypeOK, QueueInv, NEW a \in Process, NEW s \in Sem, Ready(a), P(a, s),
         sem[s] > 0 \/ WaitsAt(s, pc'[a]),
         \A x \in Process : x # a => pc'[x] = pc[x]
  PROVE  QueueInv'
<1>1. ASSUME NEW t \in Sem, queue'[t] = queue[t]
      PROVE  IsInjective(queue'[t]) /\ \A x \in Range(queue'[t]) : WaitsAt(t, pc'[x])
  BY <1>1, WaitersStay
<1>2. CASE sem[s] > 0
  BY <1>1, <1>2, PStep DEF QueueInv
<1>3. CASE ~(sem[s] > 0)
  <2>1. queue'[s] = Append(queue[s], a)
    BY <1>3, PStep
  <2>2. IsInjective(queue'[s]) /\ Range(queue'[s]) = Range(queue[s]) \cup {a}
    BY <2>1, WaitersStay, AddTailProperties
  <2>3. \A x \in Range(queue'[s]) : WaitsAt(s, pc'[x])
    BY <1>3, <2>2, WaitersStay
  <2> QED BY <1>1, <2>2, <2>3, PStep DEF QueueInv
<1> QED BY <1>2, <1>3

(* So does a V: the one it takes off goes on where it was.                 *)
LEMMA QueueV ==
  ASSUME SupportTypeOK, QueueInv, NEW a \in Process, NEW s \in Sem, Ready(a), V(s),
         \A x \in Process : x # a => pc'[x] = pc[x]
  PROVE  QueueInv'
<1>1. ASSUME NEW t \in Sem, queue'[t] = queue[t]
      PROVE  IsInjective(queue'[t]) /\ \A x \in Range(queue'[t]) : WaitsAt(t, pc'[x])
  BY <1>1, WaitersStay
<1>2. CASE queue[s] = <<>>
  BY <1>1, <1>2, VStep DEF QueueInv
<1>3. CASE queue[s] # <<>>
  <2>1. queue'[s] = Tail(queue[s])
    BY <1>3, VStep
  <2>2. IsInjective(queue'[s]) /\ Range(queue'[s]) \subseteq Range(queue[s])
    BY <1>3, <2>1, WaitersStay, TailProperties
  <2>3. \A x \in Range(queue'[s]) : WaitsAt(s, pc'[x])
    BY <2>2, WaitersStay
  <2> QED BY <1>1, <2>2, <2>3, VStep DEF QueueInv
<1> QED BY <1>2, <1>3

(* A mutex nobody takes or gives back.                                     *)
LEMMA MutexKept ==
  ASSUME NEW s, MutexOk(s), queue'[s] = queue[s], sem'[s] = sem[s],
         \A x \in Uproc : Holds(x, s)' <=> Holds(x, s)
  PROVE  MutexOk(s)'
<1>1. Inside(s)' = Inside(s)
  BY DEF Inside
<1> QED BY <1>1 DEF MutexOk

(* A process takes a mutex: it is inside, or it waits.                     *)
LEMMA MutexP ==
  ASSUME SupportTypeOK, NEW s \in Sem, NEW a \in Uproc, MutexOk(s), P(a, s), Ready(a),
         ~Holds(a, s), Holds(a, s)',
         \A x \in Uproc : x # a => (Holds(x, s)' <=> Holds(x, s))
  PROVE  MutexOk(s)'
<1>1. /\ queue[s] \in Seq(Process) /\ a \notin Range(queue[s]) /\ a \in Process
      /\ Len(queue[s]) \in Nat /\ (queue[s] = <<>> => Len(queue[s]) = 0)
  BY Processes DEF SupportTypeOK, Ready
<1>2. CASE Inside(s) = {}
  <2>1. queue[s] = <<>> /\ sem[s] = 1
    BY <1>1, <1>2 DEF MutexOk
  <2>2. queue'[s] = queue[s] /\ sem'[s] = 0
    BY <1>1, <2>1, PStep
  <2>3. Inside(s)' = {a}
    BY <1>1, <1>2, <2>2 DEF Inside
  <2> QED BY <1>1, <2>1, <2>2, <2>3 DEF MutexOk
<1>3. CASE Inside(s) # {}
  <2>1. sem[s] = 0 - Len(queue[s])
    BY <1>3 DEF MutexOk
  <2>2. queue'[s] = Append(queue[s], a) /\ sem'[s] = sem[s] - 1
    <3>1. ~(sem[s] > 0)
      BY <1>1, <2>1
    <3> QED BY <1>1, <3>1, PStep
  <2>3. Range(queue'[s]) = Range(queue[s]) \cup {a} /\ Len(queue'[s]) = Len(queue[s]) + 1
    BY <1>1, <2>2, AddTailProperties
  <2>4. Inside(s)' = Inside(s)
    BY <1>1, <2>3 DEF Inside
  <2> QED BY <1>1, <1>3, <2>1, <2>2, <2>3, <2>4 DEF MutexOk
<1> QED BY <1>2, <1>3

(* A process gives a mutex back: the first that waits is inside.           *)
LEMMA MutexV ==
  ASSUME SupportTypeOK, NEW s \in Sem, NEW a \in Uproc, MutexOk(s), V(s), Ready(a),
         IsInjective(queue[s]), \A x \in Range(queue[s]) : x \in Uproc /\ Holds(x, s),
         Holds(a, s), ~Holds(a, s)',
         \A x \in Uproc : x # a => (Holds(x, s)' <=> Holds(x, s))
  PROVE  MutexOk(s)'
<1>1. /\ queue[s] \in Seq(Process) /\ a \notin Range(queue[s])
      /\ Len(queue[s]) \in Nat /\ (queue[s] = <<>> => Len(queue[s]) = 0)
  BY DEF SupportTypeOK, Ready
<1>2. Inside(s) = {a}
  BY <1>1 DEF Inside, MutexOk
<1>3. sem'[s] = 1 - Len(queue[s])
  <2>1. sem[s] = 0 - Len(queue[s])
    BY <1>2 DEF MutexOk
  <2> QED BY <1>1, <2>1, VStep
<1>4. CASE queue[s] = <<>>
  <2>1. queue'[s] = queue[s]
    BY <1>4, VStep
  <2>2. Inside(s)' = {}
    BY <1>2, <2>1 DEF Inside
  <2> QED BY <1>1, <1>3, <1>4, <2>1, <2>2 DEF MutexOk
<1>5. CASE queue[s] # <<>>
  <2>0. PICK h \in Process : h = Head(queue[s])
    BY <1>1, <1>5, TailProperties
  <2>1. queue'[s] = Tail(queue[s])
    BY <1>5, VStep
  <2>2. /\ Len(queue'[s]) = Len(queue[s]) - 1
        /\ Range(queue[s]) = Range(queue'[s]) \cup {h}
        /\ h \notin Range(queue'[s])
    BY <1>1, <1>5, <2>0, <2>1, TailProperties
  <2>3. h \in Uproc /\ h # a /\ Holds(h, s)'
    BY <1>1, <2>2
  <2>4. Inside(s)' = {h}
    BY <1>2, <2>2, <2>3 DEF Inside
  <2> QED BY <1>1, <1>3, <2>2, <2>4 DEF MutexOk
<1> QED BY <1>4, <1>5

-----------------------------------------------------------------------------
(* The end of the shell and of the system.                                 *)

(* Nobody is left of nobody.                                               *)
LEMMA NothingLeft ==
  ASSUME NEW S
  PROVE  Without(<<>>, S) = <<>>
<1> DEFINE Is(f) ==
      f = [i \in 0 .. Len(<<>>) |->
             IF i = 0 THEN <<>> ELSE IF <<>>[i] \in S THEN f[i - 1] ELSE Append(f[i - 1], <<>>[i])]
    w == [i \in 0 .. 0 |-> <<>>]
<1>1. Len(<<>>) = 0
  OBVIOUS
<1>2. Is(w)
  BY <1>1
<1>3. \A f : Is(f) => f[0] = <<>>
  BY <1>1
<1>4. Is(CHOOSE f : Is(f))
  BY <1>2
<1>5. (CHOOSE f : Is(f))[0] = <<>>
  BY <1>3, <1>4
<1> QED BY <1>1, <1>5 DEF Without

(* When the shell is gone so are all programs, and nobody waits.           *)
LEMMA AllEnded ==
  ASSUME IInv, pc[Shell] = "none"
  PROVE  /\ \A a \in Uproc : pc[a] = "none"
         /\ \A s \in Sem : queue[s] = <<>>
<1>1. ~ShellWaits
  <2>1. \A x \in Range(queue[ShellSem]) : pc[x] # "none"
    BY Semaphores DEF IInv, QueueInv, WaitsAt
  <2> QED BY <2>1 DEF ShellWaits
<1>2. ASSUME NEW a \in Uproc
      PROVE  pc[a] = "none"
  BY <1>1 DEF IInv, ProgramInv, Launched
<1>3. ASSUME NEW s \in Sem
      PROVE  queue[s] = <<>>
  <2>1. CASE s = Master
    BY <2>1 DEF IInv, MasterInv
  <2>2. CASE s # Master
    <3>1. queue[s] \in Seq(Process)
      BY DEF IInv, SupportTypeOK
    <3>2. ASSUME NEW x \in Range(queue[s])
          PROVE  FALSE
      <4>1. WaitsAt(s, pc[x]) /\ x \in Process
        BY <3>1, EmptyRange DEF IInv, QueueInv
      <4>2. pc[x] # "none" /\ pc[x] # "end" /\ pc[x] # "test"
        BY <2>2, <4>1 DEF WaitsAt
      <4> QED BY <1>2, <4>1, <4>2, Processes DEF IInv, LabelInv
    <3> QED BY <3>1, <3>2, EmptyRange
  <2> QED BY <2>1, <2>2
<1> QED BY <1>2, <1>3

(* A TERMPROCESS finds nobody left to kill but, at the end, its caller.    *)
LEMMA KillStep ==
  ASSUME IInv, pc[Shell] = "none", NEW S, Kill(S)
  PROVE  /\ UNCHANGED <<sem, queue>>
         /\ pc' = [a \in Process |-> IF a \in S THEN "none" ELSE pc[a]]
         /\ \A a \in Uproc : pc'[a] = pc[a]
<1>1. /\ queue' = [s \in Sem |-> Without(queue[s], S)]
      /\ sem' = [s \in Sem |-> sem[s] + Len(queue[s]) - Len(queue'[s])]
      /\ pc' = [a \in Process |-> IF a \in S THEN "none" ELSE pc[a]]
  BY DEF Kill
<1>2. queue \in [Sem -> Seq(Process)] /\ sem \in [Sem -> Int]
  BY DEF IInv, SupportTypeOK
<1>3. \A s \in Sem : queue[s] = <<>> /\ queue'[s] = <<>>
  BY <1>1, AllEnded, NothingLeft
<1>4. queue' = queue
  BY <1>1, <1>2, <1>3
<1>5. \A s \in Sem : sem[s] + Len(queue[s]) - Len(queue'[s]) = sem[s]
  BY <1>2, <1>3
<1>6. sem' = sem
  BY <1>1, <1>2, <1>5
<1>7. \A a \in Uproc : pc'[a] = pc[a]
  BY <1>1, AllEnded, Processes
<1> QED BY <1>1, <1>4, <1>6, <1>7

(* Exit and End take with them nobody who still has something to do.       *)
LEMMA Ending ==
  ASSUME IInv, Exit \/ End
  PROVE  /\ UNCHANGED <<sem, queue, vpn, ret, poolVars, mmVars, lives>>
         /\ \A a \in Uproc : pc'[a] = pc[a]
         /\ pc' \in [Process -> Labels]
         /\ \/ pc' = pc
            \/ pc[Shell] = "none" /\ pc'[Instantiator] \in {pc[Instantiator], "none"}
         /\ leaving' \subseteq leaving
<1>1. pc \in [Process -> Labels] /\ "none" \in Labels
  BY DEF IInv, SupportTypeOK, Labels
<1>2. CASE Exit
  <2>1. UNCHANGED <<vpn, ret, poolVars, mmVars, lives>>
    BY <1>2 DEF Exit
  <2>2. PICK a \in leaving :
          IF a = Shell THEN Kill(Uproc) /\ leaving' = {}
                       ELSE leaving' = leaving \ {a} /\ UNCHANGED <<pc, sem, queue>>
    BY <1>2 DEF Exit
  <2>3. CASE a = Shell
    <3>1. pc[Shell] = "none"
      BY <2>3 DEF IInv, MasterInv
    <3>2. leaving' = {} /\ Kill(Uproc)
      BY <2>2, <2>3
    <3>3. /\ UNCHANGED <<sem, queue>>
          /\ pc' = [x \in Process |-> IF x \in Uproc THEN "none" ELSE pc[x]]
          /\ \A x \in Uproc : pc'[x] = pc[x]
      BY <3>1, <3>2, KillStep
    <3> QED BY <1>1, <2>1, <3>1, <3>2, <3>3, Processes
  <2>4. CASE a # Shell
    BY <1>1, <2>1, <2>2, <2>4
  <2> QED BY <2>3, <2>4
<1>3. CASE End
  <2>1. /\ UNCHANGED <<vpn, ret, poolVars, mmVars, lives>>
        /\ leaving' = {} /\ Kill(Process) /\ At(Instantiator, "end")
    BY <1>3 DEF End
  <2>2. pc[Shell] = "none"
    BY <2>1, Semaphores DEF IInv, MasterInv, At, Ready
  <2>3. /\ UNCHANGED <<sem, queue>>
        /\ pc' = [x \in Process |-> IF x \in Process THEN "none" ELSE pc[x]]
        /\ \A x \in Uproc : pc'[x] = pc[x]
    BY <2>1, <2>2, KillStep
  <2> QED BY <1>1, <2>1, <2>2, <2>3, Processes
<1> QED BY <1>2, <1>3

-----------------------------------------------------------------------------
(* Types.                                                                  *)

(* What programs store, and what flash devices have at the start.          *)
LEMMA Contents ==
  /\ \A a \in Uproc, p \in Page, x \in Val : <<a, p, x>> \in Content
  /\ \A a \in Uproc, p \in Page : <<a, p, 0>> \in Content
BY PagerAssumption DEF Content

(* Types, at the start and after every step.                               *)
LEMMA InitTypes == Init => SupportTypeOK
<1> SUFFICES ASSUME Init
             PROVE  SupportTypeOK
  OBVIOUS
<1>1. /\ TlbClear \in [Uproc -> [Vpn -> Frame \cup {Invalid, Absent}]]
      /\ InvalidTable \in [Page -> Frame \cup {Invalid}]
  BY DEF TlbClear, InvalidTable
<1>2. 0 \in Vpn /\ 0 \in Frame
  BY Pages, PagerAssumption DEF Vpn, StackVpn
<1>3. /\ pc \in [Process -> Labels] /\ vpn \in [Uproc -> Vpn]
      /\ ret \in [Uproc -> {"prog", "tx_send", "rx_next"}] /\ slot \in [Uproc -> Frame]
      /\ sem \in [Sem -> Int] /\ queue \in [Sem -> Seq(Process)]
  BY <1>2 DEF Init, PagerInit, InitSwapStructs, Labels
<1>4. /\ swapPool \in [Frame -> {Free} \cup (Uproc \X Page)] /\ fifoNext \in Frame
      /\ pte \in [Uproc -> [Page -> Frame \cup {Invalid}]]
      /\ tlb \in [Uproc -> [Vpn -> Frame \cup {Invalid, Absent}]]
      /\ ram \in [Frame -> Content \cup {Blank}]
      /\ flash \in [Uproc -> [Page -> Content]]
  BY <1>1, <1>2, Contents DEF Init, PagerInit, InitSwapStructs
<1>5. leaving \subseteq Uproc /\ lives \in [Uproc -> 0 .. MaxLives]
  BY SupportAssumption DEF Init
<1> QED BY <1>3, <1>4, <1>5 DEF SupportTypeOK

(* What PgPick does: its caller has a page to bring in.                    *)
LEMMA PgPickStep ==
  ASSUME IInv, NEW a \in Uproc, PgPick(a)
  PROVE  /\ At(a, "pg_pick") /\ VpnToIndex(vpn[a]) \in Page
         /\ slot' = [slot EXCEPT ![a] = fifoNext] /\ fifoNext' = NextFrame(fifoNext)
         /\ \/ /\ swapPool[fifoNext] = Free
               /\ P(a, Flash(a)) /\ Goto(a, "pg_read") /\ UNCHANGED <<pte, tlb>>
            \/ \E b \in Uproc, p \in Page :
                 /\ swapPool[fifoNext] = <<b, p>> /\ MarkPageNotValid(b, p)
                 /\ P(a, Flash(b)) /\ Goto(a, "pg_write")
         /\ UNCHANGED <<vpn, ret, swapPool, ram, flash, port>>
<1>1. At(a, "pg_pick") /\ UNCHANGED <<vpn, ram, flash, port>>
  BY DEF PgPick
<1>2. VpnToIndex(vpn[a]) \in Page /\ ~(VpnToIndex(vpn[a]) < 0)
  BY <1>1, Pages DEF IInv, PagerInv, SupportTypeOK, InPager, At
<1>3. /\ slot' = [slot EXCEPT ![a] = fifoNext] /\ fifoNext' = NextFrame(fifoNext)
      /\ UNCHANGED <<ret, swapPool>>
  BY <1>2 DEF PgPick
<1>4. CASE swapPool[fifoNext] = Free
  BY <1>1, <1>2, <1>3, <1>4 DEF PgPick
<1>5. CASE swapPool[fifoNext] # Free
  <2>1. PICK b \in Uproc, p \in Page : swapPool[fifoNext] = <<b, p>>
    BY <1>5 DEF IInv, SupportTypeOK
  <2>2. MarkPageNotValid(b, p) /\ P(a, Flash(b)) /\ Goto(a, "pg_write")
    BY <1>2, <1>5, <2>1 DEF PgPick
  <2> QED BY <1>1, <1>2, <1>3, <2>1, <2>2
<1> QED BY <1>4, <1>5

(* Every step keeps the types.                                             *)
LEMMA NextTypes ==
  ASSUME IInv, [Next]_vars
  PROVE  SupportTypeOK'
<1> USE DEF SupportTypeOK, Goto, At, poolVars, mmVars
<1>0. /\ SupportTypeOK /\ PagerInv /\ ContentInv
      /\ \A a \in Uproc : a \in Process
      /\ Labels = {"pg_pick", "pg_write", "pg_own", "pg_read", "pg_map", "pg_fail",
                   "prog", "access", "tx_next", "tx_send", "rx_receive", "rx_next", "execute",
                   "die", "free", "wake", "test", "end", "none"}
  BY Processes DEF IInv, Labels, InPager
<1>1. ASSUME NEW v \in Address
      PROVE  v \in Vpn
  BY <1>1, Pages DEF Address
<1>2. ASSUME NEW a \in Uproc, Touch(a)
      PROVE  SupportTypeOK'
  BY <1>0, <1>1, <1>2 DEF Touch
<1>3. ASSUME NEW a \in Uproc, WriteTerminal(a)
      PROVE  SupportTypeOK'
  <2>1. sem' \in [Sem -> Int] /\ queue' \in [Sem -> Seq(Process)]
    BY <1>0, <1>3, Semaphores, PStep DEF WriteTerminal
  <2>2. vpn' \in [Uproc -> Vpn]
    BY <1>0, <1>1, <1>3 DEF WriteTerminal
  <2> QED BY <1>0, <1>3, <2>1, <2>2 DEF WriteTerminal
<1>4. ASSUME NEW a \in Uproc, ReadTerminal(a)
      PROVE  SupportTypeOK'
  <2>1. sem' \in [Sem -> Int] /\ queue' \in [Sem -> Seq(Process)]
    BY <1>0, <1>4, Semaphores, PStep DEF ReadTerminal
  <2>2. vpn' \in [Uproc -> Vpn]
    BY <1>0, <1>1, <1>4 DEF ReadTerminal
  <2> QED BY <1>0, <1>4, <2>1, <2>2 DEF ReadTerminal
<1>5. ASSUME NEW a \in Uproc, Trap(a) \/ TxNext(a) \/ TxSend(a) \/ RxReceive(a)
      PROVE  SupportTypeOK'
  <2>1. pc' \in [Process -> Labels] /\ ret' \in [Uproc -> {"prog", "tx_send", "rx_next"}]
    <3>1. /\ \E l \in {"die", "access", "tx_next"} : pc' = [pc EXCEPT ![a] = l]
          /\ \/ ret' = ret
             \/ \E l \in {"prog", "tx_send", "rx_next"} : ret' = [ret EXCEPT ![a] = l]
      BY <1>5 DEF Trap, TxNext, TxSend, RxReceive
    <3>2. pc' \in [Process -> Labels]
      BY <1>0, <3>1
    <3>3. ret' \in [Uproc -> {"prog", "tx_send", "rx_next"}]
      BY <1>0, <3>1
    <3> QED BY <3>2, <3>3
  <2>2. UNCHANGED <<vpn, slot, sem, queue, swapPool, fifoNext, pte, tlb, ram, flash, leaving, lives>>
    BY <1>5 DEF Trap, TxNext, TxSend, RxReceive
  <2> QED BY <1>0, <2>1, <2>2
<1>6. ASSUME NEW a \in Uproc, TxDone(a) \/ RxDone(a)
      PROVE  SupportTypeOK'
  <2>1. sem' \in [Sem -> Int] /\ queue' \in [Sem -> Seq(Process)]
    BY <1>0, <1>6, Semaphores, VStep DEF TxDone, RxDone
  <2>2. CASE TxDone(a)
    BY <1>0, <2>1, <2>2 DEF TxDone
  <2>3. CASE RxDone(a)
    BY <1>0, <2>1, <2>3 DEF RxDone
  <2> QED BY <1>6, <2>2, <2>3
<1>7. CASE Execute
  <2>1. InvalidTable \in [Page -> Frame \cup {Invalid}]
    BY DEF InvalidTable
  <2>2. PICK a \in Uproc \ {Shell} :
          /\ LaunchUproc(a)
          /\ pc' = [pc EXCEPT ![Shell] = "execute", ![a] = "prog"]
    BY <1>7 DEF Execute
  <2>3. pc' \in [Process -> Labels]
    BY <1>0, <2>2
  <2>4. lives' \in [Uproc -> 0 .. MaxLives]
    BY <2>2, <1>0, SupportAssumption DEF LaunchUproc
  <2>5. pte' \in [Uproc -> [Page -> Frame \cup {Invalid}]]
    BY <2>1, <2>2, <1>0 DEF LaunchUproc
  <2> QED BY <1>0, <1>7, <2>3, <2>4, <2>5 DEF Execute
<1>8. CASE ExecuteWait
  BY <1>0, <1>8, Semaphores, Processes, PStep DEF ExecuteWait
<1>9. ASSUME NEW a \in Uproc, SupTerminate(a)
      PROVE  SupportTypeOK'
  BY <1>0, <1>9, Semaphores, PStep DEF SupTerminate
<1>10. ASSUME NEW a \in Uproc, FreeFrames(a)
       PROVE  SupportTypeOK'
  BY <1>0, <1>10, Semaphores, VStep DEF FreeFrames, FreedFrames
<1>11. ASSUME NEW a \in Uproc, WakeWaiter(a)
       PROVE  SupportTypeOK'
  <2>1. Waiter(a) \in Sem
    BY Semaphores DEF Waiter
  <2>2. 0 \in Vpn
    BY PagerAssumption DEF Vpn, StackVpn
  <2> QED BY <1>0, <1>11, <2>1, <2>2, VStep DEF WakeWaiter
<1>12. CASE Exit \/ End
  BY <1>0, <1>12, Ending
<1>13. CASE Test
  BY <1>0, <1>13, Semaphores, Processes, PStep DEF Test
<1>14. ASSUME NEW a \in Uproc, Load(a), UNCHANGED <<leaving, lives>>
       PROVE  SupportTypeOK'
  <2>1. pc' = [pc EXCEPT ![a] = ret[a]] /\ ret[a] \in Labels
    BY <1>0, <1>14 DEF Load
  <2>2. pc' \in [Process -> Labels]
    BY <1>0, <2>1
  <2> QED BY <1>0, <1>14, <2>2 DEF Load
<1>15. ASSUME NEW a \in Uproc, Store(a), UNCHANGED <<leaving, lives>>
       PROVE  SupportTypeOK'
  <2>1. PICK x \in Val :
          ram' = [ram EXCEPT ![tlb[a][vpn[a]]] = <<a, VpnToIndex(vpn[a]), x>>]
    BY <1>15 DEF Store
  <2>2. VpnToIndex(vpn[a]) \in Page
    BY <1>0, <1>15, Pages DEF PagerInv, Store
  <2>3. ram' \in [Frame -> Content \cup {Blank}]
    BY <1>0, <1>15, <2>1, <2>2, Contents DEF Store
  <2> QED BY <1>0, <1>15, <2>3 DEF Store
<1>16. ASSUME NEW a \in Uproc, Refill(a), UNCHANGED <<leaving, lives>>
       PROVE  SupportTypeOK'
  BY <1>0, <1>16, Pages DEF Refill
<1>17. ASSUME TlbReplace, UNCHANGED <<leaving, lives>>
       PROVE  SupportTypeOK'
  BY <1>0, <1>17 DEF TlbReplace
<1>18. ASSUME NEW a \in Uproc, Fault(a), UNCHANGED <<leaving, lives>>
       PROVE  SupportTypeOK'
  BY <1>0, <1>18, Semaphores, PStep DEF Fault
<1>19. ASSUME NEW a \in Uproc, PgPick(a), UNCHANGED <<leaving, lives>>
       PROVE  SupportTypeOK'
  <2>1. /\ slot' = [slot EXCEPT ![a] = fifoNext] /\ fifoNext' = NextFrame(fifoNext)
        /\ UNCHANGED <<vpn, ret, swapPool, ram, flash, port>>
    BY <1>19, PgPickStep
  <2>2. slot' \in [Uproc -> Frame] /\ fifoNext' \in Frame
    BY <1>0, <2>1, Pages
  <2>3. CASE P(a, Flash(a)) /\ Goto(a, "pg_read") /\ UNCHANGED <<pte, tlb>>
    <3>1. sem' \in [Sem -> Int] /\ queue' \in [Sem -> Seq(Process)]
      BY <1>0, <2>3, Semaphores, PStep
    <3>2. pc' \in [Process -> Labels]
      BY <1>0, <2>3
    <3> QED BY <1>0, <1>19, <2>1, <2>2, <2>3, <3>1, <3>2
  <2>4. ASSUME NEW b \in Uproc, NEW p \in Page,
               MarkPageNotValid(b, p), P(a, Flash(b)), Goto(a, "pg_write")
        PROVE  SupportTypeOK'
    <3>1. tlb' = TlbClear /\ TlbClear \in [Uproc -> [Vpn -> Frame \cup {Invalid, Absent}]]
      BY <2>4 DEF MarkPageNotValid, TlbClear
    <3>2. pte' \in [Uproc -> [Page -> Frame \cup {Invalid}]]
      BY <1>0, <2>4 DEF MarkPageNotValid
    <3>3. sem' \in [Sem -> Int] /\ queue' \in [Sem -> Seq(Process)]
      BY <1>0, <2>4, Semaphores, PStep
    <3>4. pc' \in [Process -> Labels]
      BY <1>0, <2>4
    <3> QED BY <1>0, <1>19, <2>1, <2>2, <3>1, <3>2, <3>3, <3>4
  <2> QED BY <1>19, <2>3, <2>4, PgPickStep
<1>20. ASSUME NEW a \in Uproc, PgWrite(a), UNCHANGED <<leaving, lives>>
       PROVE  SupportTypeOK'
  <2>1. PICK b \in Uproc, p \in Page : swapPool[slot[a]] = <<b, p>>
    BY <1>0, <1>20 DEF PagerInv, PgWrite
  <2>2. V(Flash(b)) /\ Flash(b) \in Sem
    BY <1>20, <2>1, Semaphores DEF PgWrite
  <2>3. sem' \in [Sem -> Int] /\ queue' \in [Sem -> Seq(Process)]
    BY <1>0, <2>2, VStep
  <2>4. flash' \in [Uproc -> [Page -> Content]]
    <3>1. UNCHANGED flash \/ flash' = [flash EXCEPT ![b][p] = ram[slot[a]]]
      BY <1>20, <2>1 DEF PgWrite, FlashWrite
    <3>2. slot[a] \in Frame /\ swapPool[slot[a]] # Free
      BY <1>0, <1>20 DEF PagerInv, PgWrite
    <3>3. ram[slot[a]] \in Content
      BY <1>0, <3>2 DEF ContentInv
    <3>4. CASE flash' = [flash EXCEPT ![b][p] = ram[slot[a]]]
      BY <1>0, <3>3, <3>4
    <3>5. CASE UNCHANGED flash
      BY <1>0, <3>5
    <3> QED BY <3>1, <3>4, <3>5
  <2>5. pc' \in [Process -> Labels]
    BY <1>0, <1>20 DEF PgWrite
  <2> QED BY <1>0, <1>20, <2>3, <2>4, <2>5 DEF PgWrite
<1>21. ASSUME NEW a \in Uproc, PgOwn(a), UNCHANGED <<leaving, lives>>
       PROVE  SupportTypeOK'
  BY <1>0, <1>21, Semaphores, PStep DEF PgOwn
<1>22. ASSUME NEW a \in Uproc, PgRead(a), UNCHANGED <<leaving, lives>>
       PROVE  SupportTypeOK'
  <2>1. VpnToIndex(vpn[a]) \in Page
    BY <1>0, <1>22, Pages DEF PagerInv, PgRead, InPager
  <2>2. sem' \in [Sem -> Int] /\ queue' \in [Sem -> Seq(Process)]
    BY <1>0, <1>22, Semaphores, VStep DEF PgRead
  <2>3. ram' \in [Frame -> Content \cup {Blank}]
    <3>1. \/ ram' = [ram EXCEPT ![slot[a]] = flash[a][VpnToIndex(vpn[a])]]
          \/ UNCHANGED ram
      BY <1>22 DEF PgRead, FlashRead
    <3>2. flash[a][VpnToIndex(vpn[a])] \in Content
      BY <1>0, <2>1
    <3> QED BY <1>0, <3>1, <3>2
  <2>4. pc' \in [Process -> Labels]
    <3>1. \E l \in Labels : pc' = [pc EXCEPT ![a] = l]
      BY <1>0, <1>22 DEF PgRead
    <3> QED BY <1>0, <3>1
  <2> QED BY <1>0, <1>22, <2>2, <2>3, <2>4 DEF PgRead
<1>23. ASSUME NEW a \in Uproc, PgMap(a), UNCHANGED <<leaving, lives>>
       PROVE  SupportTypeOK'
  <2>1. VpnToIndex(vpn[a]) \in Page /\ 0 \in Frame
    BY <1>0, <1>23, Pages DEF PagerInv, PgMap, InPager
  <2>2. /\ pte' \in [Uproc -> [Page -> Frame \cup {Invalid}]]
        /\ tlb' \in [Uproc -> [Vpn -> Frame \cup {Invalid, Absent}]]
    BY <1>0, <1>23, <2>1, Pages DEF PgMap, MarkPagePresent, TlbClear
  <2>3. swapPool' \in [Frame -> {Free} \cup (Uproc \X Page)]
    BY <1>0, <1>23, <2>1 DEF PgMap
  <2> QED BY <1>0, <1>23, <2>1, <2>2, <2>3, Semaphores, VStep DEF PgMap
<1>24. ASSUME NEW a \in Uproc, PgFail(a), UNCHANGED <<leaving, lives>>
       PROVE  SupportTypeOK'
  BY <1>0, <1>24, Pages, Semaphores, VStep DEF PgFail
<1>25. CASE UNCHANGED vars
  BY <1>0, <1>25 DEF vars, pagerVars
<1> QED
  BY <1>2, <1>3, <1>4, <1>5, <1>6, <1>7, <1>8, <1>9, <1>10, <1>11, <1>12, <1>13, <1>14, <1>15,
     <1>16, <1>17, <1>18, <1>19, <1>20, <1>21, <1>22, <1>23, <1>24, <1>25
  DEF Next, Program, Proceeds, PagerSteps, Accesses, Access

-----------------------------------------------------------------------------
(* Labels and queues.                                                      *)

(* Nobody gets to a place that is not his.                                 *)
LEMMA NextLabels ==
  ASSUME IInv, [Next]_vars
  PROVE  LabelInv'
<1> USE DEF LabelInv, Goto, At, InPager
<1>0. /\ LabelInv /\ pc \in [Process -> Labels]
      /\ ret \in [Uproc -> {"prog", "tx_send", "rx_next"}]
      /\ \A a \in Uproc : a \in Process /\ a # Instantiator
      /\ Shell \in Uproc /\ Instantiator \in Process
  BY Processes DEF IInv, SupportTypeOK
<1>1. ASSUME NEW a \in Uproc, Program(a)
      PROVE  LabelInv'
  BY <1>0, <1>1 DEF Program, Touch, WriteTerminal, ReadTerminal, Trap
<1>2. ASSUME NEW a \in Uproc, Refill(a) \/ PgPick(a) \/ PgWrite(a) \/ PgOwn(a) \/ PgRead(a) \/ PgMap(a) \/ PgFail(a)
      PROVE  LabelInv'
  BY <1>0, <1>2 DEF Refill, PgPick, PgWrite, PgOwn, PgRead, PgMap, PgFail
<1>3. ASSUME NEW a \in Uproc, TxSend(a) \/ SupTerminate(a) \/ FreeFrames(a) \/ WakeWaiter(a)
      PROVE  LabelInv'
  BY <1>0, <1>3 DEF TxSend, SupTerminate, FreeFrames, WakeWaiter
<1>4. ASSUME NEW a \in Uproc, Load(a) \/ Store(a)
      PROVE  LabelInv'
  <2>1. pc' = [pc EXCEPT ![a] = ret[a]]
    BY <1>4 DEF Load, Store
  <2>2. ret[a] \notin {"test", "end", "execute"}
    BY <1>0
  <2> QED BY <1>0, <2>1, <2>2
<1>5. ASSUME NEW a \in Uproc, Fault(a)
      PROVE  LabelInv'
  BY <1>0, <1>5 DEF Fault
<1>6. ASSUME NEW a \in Uproc, TxNext(a) \/ TxDone(a) \/ RxReceive(a) \/ RxDone(a)
      PROVE  LabelInv'
  BY <1>0, <1>6 DEF TxNext, TxDone, RxReceive, RxDone
<1>7. CASE Execute \/ ExecuteWait \/ Test
  BY <1>0, <1>7 DEF Execute, ExecuteWait, Test
<1>8. CASE Exit \/ End
  BY <1>0, <1>8, Ending
<1>9. CASE TlbReplace \/ UNCHANGED vars
  BY <1>0, <1>9 DEF TlbReplace, vars, pagerVars
<1> QED
  BY <1>1, <1>2, <1>3, <1>4, <1>5, <1>6, <1>7, <1>8, <1>9
  DEF Next, Proceeds, PagerSteps, Accesses, Access

(* Whoever works with a frame is the one inside the lock of the pool.      *)
LEMMA OneWorks ==
  ASSUME IInv, NEW a \in Uproc, pc[a] \in InPager \cup {"free"}, a \notin Range(queue[Pool]),
         NEW x \in Uproc, pc[x] \in InPager \ {"pg_pick"}
  PROVE  x = a
<1>1. x \notin Range(queue[Pool])
  BY Semaphores, Apart DEF IInv, QueueInv, WaitsAt, InPager
<1>2. x \in Inside(Pool) /\ a \in Inside(Pool)
  BY <1>1 DEF Inside, Holds
<1> QED BY <1>2 DEF IInv, MutexOk

(* The process about to take the mutex of a flash device finds it free.    *)
LEMMA FlashFree ==
  ASSUME IInv, NEW a \in Uproc, At(a, "pg_pick") \/ At(a, "pg_own"), NEW b \in Uproc
  PROVE  /\ sem[Flash(b)] = 1 /\ queue[Flash(b)] = <<>>
         /\ \A x \in Uproc : ~Holds(x, Flash(b))
<1>1. a \notin Range(queue[Pool]) /\ pc[a] \in {"pg_pick", "pg_own"}
  BY Semaphores DEF At, Ready
<1>2. \A x \in Uproc : ~Holds(x, Flash(b))
  BY <1>1, OneWorks, FlashApart DEF Holds, InPager
<1>3. queue[Flash(b)] = <<>> /\ Len(<<>>) = 0
  BY FlashQueues DEF IInv
<1>4. Inside(Flash(b)) = {}
  BY <1>2 DEF Inside
<1>5. sem[Flash(b)] = 1
  <2>1. sem[Flash(b)] = (IF Inside(Flash(b)) = {} THEN 1 ELSE 0) - Len(queue[Flash(b)])
    BY DEF IInv, FlashMutexInv, MutexOk
  <2> QED BY <1>3, <1>4, <2>1
<1> QED BY <1>2, <1>3, <1>5

(* What PgWrite does: it is the mutex of its victim it gives back.         *)
LEMMA PgWriteStep ==
  ASSUME IInv, NEW a \in Uproc, PgWrite(a)
  PROVE  \E b \in Uproc, p \in Page :
           /\ At(a, "pg_write") /\ swapPool[slot[a]] = <<b, p>> /\ V(Flash(b))
           /\ \/ flash' = [flash EXCEPT ![b][p] = ram[slot[a]]] /\ Goto(a, "pg_own")
              \/ FlashErrors /\ UNCHANGED flash /\ Goto(a, "pg_fail")
           /\ UNCHANGED <<vpn, ret, poolVars, pte, tlb, ram, port>>
<1>1. swapPool[slot[a]] # Free /\ slot[a] \in Frame
  BY DEF IInv, PagerInv, PgWrite, At, SupportTypeOK
<1>2. PICK b \in Uproc, p \in Page : swapPool[slot[a]] = <<b, p>>
  BY <1>1 DEF IInv, SupportTypeOK
<1> QED BY <1>2 DEF PgWrite, FlashWrite

(* Every step keeps the queues in order.                                   *)
LEMMA NextQueues ==
  ASSUME IInv, [Next]_vars
  PROVE  QueueInv'
<1> USE DEF At, Goto
<1>0. /\ SupportTypeOK /\ QueueInv /\ pc \in [Process -> Labels]
      /\ \A a \in Uproc : a \in Process
      /\ Shell \in Process /\ Instantiator \in Process
  BY Processes DEF IInv, SupportTypeOK
<1>1. ASSUME NEW a \in Uproc,
             Touch(a) \/ Trap(a) \/ TxNext(a) \/ TxSend(a) \/ RxReceive(a) \/ Load(a) \/ Store(a)
      PROVE  QueueInv'
  BY <1>0, <1>1, QueueKept DEF Touch, Trap, TxNext, TxSend, RxReceive, Load, Store
<1>2. ASSUME NEW a \in Uproc,
             WriteTerminal(a) \/ ReadTerminal(a) \/ SupTerminate(a) \/ Fault(a)
      PROVE  QueueInv'
  BY <1>0, <1>2, QueueP, Semaphores DEF WriteTerminal, ReadTerminal, SupTerminate, Fault, WaitsAt
<1>3. ASSUME NEW a \in Uproc, TxDone(a) \/ RxDone(a) \/ FreeFrames(a) \/ WakeWaiter(a)
      PROVE  QueueInv'
  BY <1>0, <1>3, QueueV, Semaphores DEF TxDone, RxDone, FreeFrames, WakeWaiter, Waiter
<1>4. ASSUME NEW a \in Uproc, PgPick(a)
      PROVE  QueueInv'
  <2>1. PICK b \in Uproc : P(a, Flash(b)) /\ \E l : Goto(a, l)
    BY <1>4, PgPickStep
  <2>2. Ready(a) /\ sem[Flash(b)] > 0
    BY <1>4, PgPickStep, FlashFree
  <2> QED BY <1>0, <2>1, <2>2, QueueP, Semaphores
<1>5. ASSUME NEW a \in Uproc, PgOwn(a)
      PROVE  QueueInv'
  <2>1. Ready(a) /\ sem[Flash(a)] > 0
    BY <1>5, FlashFree DEF PgOwn
  <2> QED BY <1>0, <1>5, <2>1, QueueP, Semaphores DEF PgOwn
<1>6. ASSUME NEW a \in Uproc, PgWrite(a)
      PROVE  QueueInv'
  <2>1. PICK b \in Uproc : V(Flash(b)) /\ At(a, "pg_write") /\ \E l : Goto(a, l)
    BY <1>6, PgWriteStep
  <2> QED BY <1>0, <2>1, QueueV, Semaphores
<1>7. ASSUME NEW a \in Uproc, PgRead(a) \/ PgMap(a) \/ PgFail(a)
      PROVE  QueueInv'
  BY <1>0, <1>7, QueueV, Semaphores DEF PgRead, PgMap, PgFail
<1>8. CASE Execute
  BY <1>0, <1>8, QueueKept DEF Execute, LaunchUproc
<1>9. CASE ExecuteWait
  BY <1>0, <1>9, QueueP, Semaphores DEF ExecuteWait, WaitsAt
<1>10. CASE Test
  BY <1>0, <1>10, QueueP, Semaphores DEF Test, WaitsAt
<1>11. CASE Exit \/ End
  <2>1. CASE pc' = pc
    BY <1>0, <1>11, <2>1, Ending DEF QueueInv
  <2>2. CASE pc' # pc
    <3>1. UNCHANGED queue /\ pc[Shell] = "none"
      BY <1>11, <2>2, Ending
    <3>2. \A s \in Sem : queue[s] = <<>> /\ Range(queue[s]) = {}
      BY <1>0, <3>1, AllEnded, EmptyRange DEF SupportTypeOK
    <3> QED BY <1>0, <3>1, <3>2 DEF QueueInv
  <2> QED BY <2>1, <2>2
<1>12. ASSUME NEW a \in Uproc, Refill(a)
       PROVE  QueueInv'
  BY <1>0, <1>12 DEF Refill, QueueInv
<1>13. CASE TlbReplace \/ UNCHANGED vars
  BY <1>0, <1>13 DEF TlbReplace, vars, pagerVars, QueueInv
<1> QED
  BY <1>1, <1>2, <1>3, <1>4, <1>5, <1>6, <1>7, <1>8, <1>9, <1>10, <1>11, <1>12, <1>13
  DEF Next, Program, Proceeds, PagerSteps, Accesses, Access

-----------------------------------------------------------------------------
(* The mutex of the swap pool.                                             *)

(* Who is in the pager or frees frames has the swap pool.                  *)
LEMMA HoldsPool ==
  ASSUME NEW x
  PROVE  /\ Holds(x, Pool) <=> pc[x] \in InPager \cup {"free"}
         /\ Holds(x, Pool)' <=> pc'[x] \in InPager \cup {"free"}
<1>1. Pool # Tx /\ Pool # Rx /\ \A b : Pool # Flash(b)
  BY Apart, FlashApart
<1> QED BY <1>1 DEF Holds

(* Those that wait for the pool are past its P.                            *)
LEMMA PoolWaiters ==
  ASSUME IInv
  PROVE  /\ IsInjective(queue[Pool])
         /\ \A x \in Range(queue[Pool]) : x \in Uproc /\ Holds(x, Pool)
<1>1. queue[Pool] \in Seq(Process) /\ IsInjective(queue[Pool])
  BY Semaphores DEF IInv, SupportTypeOK, QueueInv
<1>2. \A x \in Range(queue[Pool]) : x \in Process /\ pc[x] \in {"pg_pick", "free"}
  BY <1>1, EmptyRange, Semaphores, Apart DEF IInv, QueueInv, WaitsAt
<1>3. \A x \in Range(queue[Pool]) : x \in Uproc
  BY <1>2, Processes DEF IInv, LabelInv
<1> QED BY <1>1, <1>2, <1>3, HoldsPool DEF InPager

(* Every step keeps the mutex of the swap pool in order.                   *)
LEMMA NextPool ==
  ASSUME IInv, [Next]_vars
  PROVE  MutexOk(Pool)'
<1> USE DEF At, Goto, InPager
<1>0. /\ SupportTypeOK /\ MutexOk(Pool) /\ pc \in [Process -> Labels]
      /\ \A a \in Uproc : a \in Process
      /\ Shell \in Uproc /\ Instantiator \in Process /\ Instantiator \notin Uproc
      /\ ret \in [Uproc -> {"prog", "tx_send", "rx_next"}]
  BY Processes DEF IInv, SupportTypeOK
\* Steps that leave the semaphore of the pool alone.
<1>a. ASSUME queue'[Pool] = queue[Pool], sem'[Pool] = sem[Pool],
             \A x \in Uproc : pc'[x] \in InPager \cup {"free"} <=> pc[x] \in InPager \cup {"free"}
      PROVE  MutexOk(Pool)'
  BY <1>0, <1>a, MutexKept, HoldsPool
<1> HIDE DEF InPager
<1>b. /\ "pg_pick" \in InPager /\ "pg_write" \in InPager /\ "pg_own" \in InPager
      /\ "pg_read" \in InPager /\ "pg_map" \in InPager /\ "pg_fail" \in InPager
      /\ \A l \in {"prog", "access", "tx_next", "tx_send", "rx_receive", "rx_next", "execute",
                   "die", "wake", "test", "end", "none"} : l \notin InPager \cup {"free"}
  BY DEF InPager
\* Steps that take it and that give it back.
<1>c. ASSUME NEW a \in Uproc, Ready(a), P(a, Pool), pc[a] \in {"access", "die"},
             pc' = [pc EXCEPT ![a] = "pg_pick"] \/ pc' = [pc EXCEPT ![a] = "free"]
      PROVE  MutexOk(Pool)'
  BY <1>0, <1>b, <1>c, MutexP, HoldsPool, Semaphores
<1>d. ASSUME NEW a \in Uproc, Ready(a), V(Pool), pc[a] \in {"pg_map", "pg_fail", "free"},
             NEW l \in {"access", "die", "wake"}, pc' = [pc EXCEPT ![a] = l]
      PROVE  MutexOk(Pool)'
  <2>1. Holds(a, Pool) /\ ~Holds(a, Pool)'
    BY <1>0, <1>b, <1>d, HoldsPool
  <2>2. \A x \in Uproc : x # a => (Holds(x, Pool)' <=> Holds(x, Pool))
    BY <1>0, <1>d, HoldsPool
  <2> QED BY <1>0, <1>d, <2>1, <2>2, MutexV, PoolWaiters, Semaphores
<1>1. ASSUME NEW a \in Uproc,
             Touch(a) \/ Trap(a) \/ TxNext(a) \/ TxSend(a) \/ RxReceive(a) \/ Load(a) \/ Store(a)
      PROVE  MutexOk(Pool)'
  BY <1>0, <1>1, <1>a, <1>b DEF Touch, Trap, TxNext, TxSend, RxReceive, Load, Store
<1>2. ASSUME NEW a \in Uproc, WriteTerminal(a) \/ ReadTerminal(a)
      PROVE  MutexOk(Pool)'
  <2>1. PICK s \in {Tx, Rx} : P(a, s)
    BY <1>2 DEF WriteTerminal, ReadTerminal
  <2>2. queue'[Pool] = queue[Pool] /\ sem'[Pool] = sem[Pool]
    <3>1. s \in Sem /\ Pool \in Sem /\ Pool # s
      BY Semaphores, Apart
    <3> QED BY <1>0, <2>1, <3>1, OtherSemaphores
  <2>3. pc[a] = "prog" /\ pc' = [pc EXCEPT ![a] = pc'[a]] /\ pc'[a] \in {"tx_next", "rx_receive"}
    BY <1>0, <1>2 DEF WriteTerminal, ReadTerminal
  <2>4. \A x \in Uproc : pc'[x] \in InPager \cup {"free"} <=> pc[x] \in InPager \cup {"free"}
    BY <1>0, <1>b, <2>3
  <2> QED BY <1>a, <2>2, <2>4
<1>3. ASSUME NEW a \in Uproc, SupTerminate(a) \/ Fault(a)
      PROVE  MutexOk(Pool)'
  BY <1>0, <1>3, <1>c DEF SupTerminate, Fault
<1>4. ASSUME NEW a \in Uproc, TxDone(a) \/ RxDone(a) \/ WakeWaiter(a)
      PROVE  MutexOk(Pool)'
  <2>1. PICK s \in {Tx, Rx, Master, ShellSem} : V(s)
    BY <1>4 DEF TxDone, RxDone, WakeWaiter, Waiter
  <2>2. queue'[Pool] = queue[Pool] /\ sem'[Pool] = sem[Pool]
    BY <1>0, <2>1, VStep, Semaphores, Apart
  <2>3. pc' = [pc EXCEPT ![a] = "prog"] \/ pc' = [pc EXCEPT ![a] = "none"]
    BY <1>4 DEF TxDone, RxDone, WakeWaiter
  <2>4. pc[a] \in {"tx_next", "rx_next", "wake"}
    BY <1>4 DEF TxDone, RxDone, WakeWaiter
  <2> QED BY <1>0, <1>a, <1>b, <2>2, <2>3, <2>4
<1>5. ASSUME NEW a \in Uproc, FreeFrames(a) \/ PgMap(a) \/ PgFail(a)
      PROVE  MutexOk(Pool)'
  BY <1>0, <1>5, <1>d DEF FreeFrames, PgMap, PgFail
<1>6. ASSUME NEW a \in Uproc, PgPick(a)
      PROVE  MutexOk(Pool)'
  <2>1. PICK b \in Uproc : P(a, Flash(b)) /\ \E l \in {"pg_read", "pg_write"} : Goto(a, l)
    BY <1>6, PgPickStep
  <2>2. pc[a] = "pg_pick"
    BY <1>6, PgPickStep
  <2>3. queue'[Pool] = queue[Pool] /\ sem'[Pool] = sem[Pool]
    <3>1. Flash(b) \in Sem /\ Pool \in Sem /\ Pool # Flash(b)
      BY Semaphores, FlashApart
    <3>2. V(Flash(b)) \/ \E y \in Process : P(y, Flash(b))
      BY <1>0, <2>1
    <3> QED BY <1>0, <3>1, <3>2, OtherSemaphores
  <2> QED BY <1>0, <1>a, <1>b, <2>1, <2>2, <2>3
<1>7. ASSUME NEW a \in Uproc, PgWrite(a)
      PROVE  MutexOk(Pool)'
  <2>1. PICK b \in Uproc : V(Flash(b)) /\ At(a, "pg_write") /\ \E l \in {"pg_own", "pg_fail"} : Goto(a, l)
    BY <1>7, PgWriteStep
  <2>2. queue'[Pool] = queue[Pool] /\ sem'[Pool] = sem[Pool]
    <3>1. Flash(b) \in Sem /\ Pool \in Sem /\ Pool # Flash(b)
      BY Semaphores, FlashApart
    <3>2. V(Flash(b)) \/ \E y \in Process : P(y, Flash(b))
      BY <1>0, <2>1
    <3> QED BY <1>0, <3>1, <3>2, OtherSemaphores
  <2> QED BY <1>0, <1>a, <1>b, <2>1, <2>2
<1>8. ASSUME NEW a \in Uproc, PgOwn(a)
      PROVE  MutexOk(Pool)'
  <2>1. queue'[Pool] = queue[Pool] /\ sem'[Pool] = sem[Pool]
    BY <1>0, <1>8, PStep, Semaphores, FlashApart DEF PgOwn
  <2> QED BY <1>0, <1>8, <1>a, <1>b, <2>1 DEF PgOwn
<1>9. ASSUME NEW a \in Uproc, PgRead(a)
      PROVE  MutexOk(Pool)'
  <2>1. queue'[Pool] = queue[Pool] /\ sem'[Pool] = sem[Pool]
    BY <1>0, <1>9, VStep, Semaphores, FlashApart DEF PgRead
  <2> QED BY <1>0, <1>9, <1>a, <1>b, <2>1 DEF PgRead
<1>10. CASE Execute
  BY <1>0, <1>10, <1>a, <1>b DEF Execute, LaunchUproc
<1>11. CASE ExecuteWait \/ Test
  <2>1. PICK s \in {Master, ShellSem}, a \in Process : P(a, s)
    BY <1>11, Processes DEF ExecuteWait, Test
  <2>2. queue'[Pool] = queue[Pool] /\ sem'[Pool] = sem[Pool]
    BY <1>0, <2>1, PStep, Semaphores, Apart
  <2>3. \/ pc[Shell] = "execute" /\ pc' = [pc EXCEPT ![Shell] = "prog"]
        \/ pc' = [pc EXCEPT ![Instantiator] = "end"]
    BY <1>11 DEF ExecuteWait, Test
  <2> QED BY <1>0, <1>a, <1>b, <2>2, <2>3
<1>12. CASE Exit \/ End
  BY <1>12, <1>a, Ending
<1>13. ASSUME NEW a \in Uproc, Refill(a)
       PROVE  MutexOk(Pool)'
  BY <1>13, <1>a DEF Refill
<1>14. CASE TlbReplace \/ UNCHANGED vars
  BY <1>14, <1>a DEF TlbReplace, vars, pagerVars
<1> QED
  BY <1>1, <1>2, <1>3, <1>4, <1>5, <1>6, <1>7, <1>8, <1>9, <1>10, <1>11, <1>12, <1>13, <1>14
  DEF Next, Program, Proceeds, PagerSteps, Accesses, Access

-----------------------------------------------------------------------------
(* The mutexes of the flash devices.                                       *)

(* Who reads or writes a page has its flash device.                        *)
LEMMA HoldsFlash ==
  ASSUME NEW x, NEW b
  PROVE  /\ Holds(x, Flash(b)) <=> \/ pc[x] = "pg_write" /\ swapPool[slot[x]][1] = b
                                   \/ pc[x] = "pg_read" /\ x = b
         /\ Holds(x, Flash(b))' <=> \/ pc'[x] = "pg_write" /\ swapPool'[slot'[x]][1] = b
                                    \/ pc'[x] = "pg_read" /\ x = b
<1>1. Flash(b) # Pool /\ Flash(b) # Tx /\ Flash(b) # Rx /\ \A c : Flash(b) = Flash(c) <=> b = c
  BY FlashApart
<1> QED BY <1>1 DEF Holds

(* The mutexes of the flash devices stay in order.                         *)
LEMMA NextFlash ==
  ASSUME IInv, [Next]_vars
  PROVE  FlashMutexInv'
<1> SUFFICES ASSUME NEW c \in Uproc
             PROVE  MutexOk(Flash(c))'
  BY DEF FlashMutexInv
<1> USE DEF At, Goto
<1>0. /\ SupportTypeOK /\ MutexOk(Flash(c)) /\ pc \in [Process -> Labels]
      /\ \A a \in Uproc : a \in Process
      /\ Shell \in Uproc /\ Instantiator \in Process /\ Instantiator \notin Uproc
      /\ Flash(c) \in Sem /\ queue[Flash(c)] = <<>>
      /\ slot \in [Uproc -> Frame]
  BY Processes, Semaphores, FlashQueues DEF IInv, SupportTypeOK, FlashMutexInv
<1>1. IsInjective(<<>>) /\ Range(<<>>) = {}
  <2>1. <<>> \in Seq(Process)
    OBVIOUS
  <2>2. IsInjective(queue[Flash(c)])
    BY <1>0 DEF IInv, QueueInv
  <2> QED BY <1>0, <2>1, <2>2, EmptyRange
\* Steps that leave the mutex alone.
<1>a. ASSUME queue'[Flash(c)] = queue[Flash(c)], sem'[Flash(c)] = sem[Flash(c)],
             \A x \in Uproc : \/ /\ pc'[x] = pc[x] /\ slot'[x] = slot[x]
                                 /\ swapPool'[slot[x]] = swapPool[slot[x]]
                              \/ /\ pc[x] \notin {"pg_write", "pg_read"}
                                 /\ pc'[x] \notin {"pg_write", "pg_read"}
      PROVE  MutexOk(Flash(c))'
  <2>1. \A x \in Uproc : Holds(x, Flash(c))' <=> Holds(x, Flash(c))
    BY <1>a, HoldsFlash
  <2> QED BY <1>0, <1>a, <2>1, MutexKept
\* Steps that take the mutex of b, and that give it back.
<1>b. ASSUME NEW a \in Uproc, NEW b \in Uproc, P(a, Flash(b)), At(a, "pg_pick") \/ At(a, "pg_own"),
             Holds(a, Flash(c))' <=> c = b,
             \A x \in Uproc : x # a => (Holds(x, Flash(c))' <=> Holds(x, Flash(c)))
      PROVE  MutexOk(Flash(c))'
  <2>1. \A x \in Uproc : ~Holds(x, Flash(c))
    BY <1>b, FlashFree
  <2>2. CASE b = c
    BY <1>0, <1>b, <2>1, <2>2, MutexP
  <2>3. CASE b # c
    <3>1. queue'[Flash(c)] = queue[Flash(c)] /\ sem'[Flash(c)] = sem[Flash(c)]
      <4>1. Flash(b) \in Sem /\ Flash(c) # Flash(b)
        BY <2>3, Semaphores, FlashApart
      <4>2. V(Flash(b)) \/ \E y \in Process : P(y, Flash(b))
        BY <1>0, <1>b
      <4> QED BY <1>0, <4>1, <4>2, OtherSemaphores
    <3> QED BY <1>0, <1>b, <2>1, <2>3, <3>1, MutexKept
  <2> QED BY <2>2, <2>3
<1>c. ASSUME NEW a \in Uproc, NEW b \in Uproc, V(Flash(b)), Ready(a),
             Holds(a, Flash(c)) <=> c = b, ~Holds(a, Flash(c))',
             \A x \in Uproc : x # a => (Holds(x, Flash(c))' <=> Holds(x, Flash(c)))
      PROVE  MutexOk(Flash(c))'
  <2>1. CASE b = c
    BY <1>0, <1>1, <1>c, <2>1, MutexV
  <2>2. CASE b # c
    <3>1. queue'[Flash(c)] = queue[Flash(c)] /\ sem'[Flash(c)] = sem[Flash(c)]
      <4>1. Flash(b) \in Sem /\ Flash(c) # Flash(b)
        BY <2>2, Semaphores, FlashApart
      <4>2. V(Flash(b)) \/ \E y \in Process : P(y, Flash(b))
        BY <1>0, <1>c
      <4> QED BY <1>0, <4>1, <4>2, OtherSemaphores
    <3> QED BY <1>0, <1>c, <2>2, <3>1, MutexKept
  <2> QED BY <2>1, <2>2
<1>2. ASSUME NEW a \in Uproc,
             Touch(a) \/ Trap(a) \/ TxNext(a) \/ TxSend(a) \/ RxReceive(a)
      PROVE  MutexOk(Flash(c))'
  BY <1>0, <1>2, <1>a DEF Touch, Trap, TxNext, TxSend, RxReceive, poolVars
<1>3. ASSUME NEW a \in Uproc, Load(a) \/ Store(a)
      PROVE  MutexOk(Flash(c))'
  <2>1. ret[a] \in {"prog", "tx_send", "rx_next"} /\ pc' = [pc EXCEPT ![a] = ret[a]]
    BY <1>0, <1>3 DEF SupportTypeOK, Load, Store
  <2> QED BY <1>0, <1>3, <1>a, <2>1 DEF Load, Store, poolVars
<1>4. ASSUME NEW a \in Uproc, WriteTerminal(a) \/ ReadTerminal(a) \/ SupTerminate(a) \/ Fault(a)
      PROVE  MutexOk(Flash(c))'
  <2>1. PICK s \in {Tx, Rx, Pool} : P(a, s)
    BY <1>4 DEF WriteTerminal, ReadTerminal, SupTerminate, Fault
  <2>2. queue'[Flash(c)] = queue[Flash(c)] /\ sem'[Flash(c)] = sem[Flash(c)]
    <3>1. s \in Sem /\ Flash(c) \in Sem /\ Flash(c) # s
      BY Semaphores, FlashApart
    <3>2. V(s) \/ \E y \in Process : P(y, s)
      BY <1>0, <2>1
    <3> QED BY <1>0, <3>1, <3>2, OtherSemaphores
  <2> QED BY <1>0, <1>4, <1>a, <2>2 DEF WriteTerminal, ReadTerminal, SupTerminate, Fault, poolVars
<1>5. ASSUME NEW a \in Uproc, TxDone(a) \/ RxDone(a) \/ WakeWaiter(a)
      PROVE  MutexOk(Flash(c))'
  <2>1. PICK s \in {Tx, Rx, Master, ShellSem} : V(s)
    BY <1>5 DEF TxDone, RxDone, WakeWaiter, Waiter
  <2>2. queue'[Flash(c)] = queue[Flash(c)] /\ sem'[Flash(c)] = sem[Flash(c)]
    <3>1. s \in Sem /\ Flash(c) \in Sem /\ Flash(c) # s
      BY Semaphores, FlashApart
    <3>2. V(s) \/ \E y \in Process : P(y, s)
      BY <1>0, <2>1
    <3> QED BY <1>0, <3>1, <3>2, OtherSemaphores
  <2> QED BY <1>0, <1>5, <1>a, <2>2 DEF TxDone, RxDone, WakeWaiter, poolVars
<1>6. ASSUME NEW a \in Uproc, FreeFrames(a) \/ PgMap(a) \/ PgFail(a)
      PROVE  MutexOk(Flash(c))'
  <2>1. V(Pool) /\ Ready(a) /\ pc[a] \in {"free", "pg_map", "pg_fail"}
    BY <1>6 DEF FreeFrames, PgMap, PgFail
  <2>2. queue'[Flash(c)] = queue[Flash(c)] /\ sem'[Flash(c)] = sem[Flash(c)]
    <3>1. Pool \in Sem /\ Flash(c) \in Sem /\ Flash(c) # Pool
      BY Semaphores, FlashApart
    <3>2. V(Pool) \/ \E y \in Process : P(y, Pool)
      BY <1>0, <2>1
    <3> QED BY <1>0, <3>1, <3>2, OtherSemaphores
  <2>3. \A x \in Uproc : x # a => pc[x] \notin {"pg_write", "pg_read"}
    BY <2>1, OneWorks, Semaphores DEF InPager, Ready
  <2>4. \A x \in Uproc : pc'[x] \notin {"pg_write", "pg_read"}
    BY <1>0, <1>6, <2>3 DEF FreeFrames, PgMap, PgFail
  <2> QED BY <1>a, <2>1, <2>2, <2>3, <2>4
<1>7. ASSUME NEW a \in Uproc, PgPick(a)
      PROVE  MutexOk(Flash(c))'
  <2>1. /\ At(a, "pg_pick") /\ slot' = [slot EXCEPT ![a] = fifoNext] /\ UNCHANGED swapPool
    BY <1>7, PgPickStep
  <2>2. CASE P(a, Flash(a)) /\ Goto(a, "pg_read")
    <3>1. \A x \in Uproc : x # a => (Holds(x, Flash(c))' <=> Holds(x, Flash(c)))
      BY <1>0, <2>1, <2>2, HoldsFlash
    <3>2. Holds(a, Flash(c))' <=> c = a
      BY <1>0, <2>2, HoldsFlash
    <3> QED BY <1>b, <2>1, <2>2, <3>1, <3>2
  <2>3. ASSUME NEW b \in Uproc, NEW p \in Page,
               swapPool[fifoNext] = <<b, p>>, P(a, Flash(b)), Goto(a, "pg_write")
        PROVE  MutexOk(Flash(c))'
    <3>1. \A x \in Uproc : x # a => (Holds(x, Flash(c))' <=> Holds(x, Flash(c)))
      BY <1>0, <2>1, <2>3, HoldsFlash
    <3>2. pc'[a] = "pg_write" /\ slot'[a] = fifoNext /\ swapPool'[fifoNext][1] = b
      BY <1>0, <2>1, <2>3
    <3>3. Holds(a, Flash(c))' <=> c = b
      BY <3>2, HoldsFlash
    <3> QED BY <1>b, <2>1, <2>3, <3>1, <3>3
  <2> QED BY <1>7, <2>2, <2>3, PgPickStep
<1>8. ASSUME NEW a \in Uproc, PgWrite(a)
      PROVE  MutexOk(Flash(c))'
  <2>1. PICK b \in Uproc, p \in Page :
          /\ At(a, "pg_write") /\ swapPool[slot[a]] = <<b, p>> /\ V(Flash(b))
          /\ Goto(a, "pg_own") \/ Goto(a, "pg_fail")
          /\ UNCHANGED poolVars
    BY <1>8, PgWriteStep
  <2>2. \A x \in Uproc : x # a => (Holds(x, Flash(c))' <=> Holds(x, Flash(c)))
    BY <1>0, <2>1, HoldsFlash DEF poolVars
  <2>3. (Holds(a, Flash(c)) <=> c = b) /\ ~Holds(a, Flash(c))'
    BY <1>0, <2>1, HoldsFlash
  <2> QED BY <1>c, <2>1, <2>2, <2>3
<1>9. ASSUME NEW a \in Uproc, PgOwn(a)
      PROVE  MutexOk(Flash(c))'
  <2>1. \A x \in Uproc : x # a => (Holds(x, Flash(c))' <=> Holds(x, Flash(c)))
    BY <1>0, <1>9, HoldsFlash DEF PgOwn, poolVars
  <2>2. Holds(a, Flash(c))' <=> c = a
    BY <1>0, <1>9, HoldsFlash DEF PgOwn
  <2> QED BY <1>b, <1>9, <2>1, <2>2 DEF PgOwn
<1>10. ASSUME NEW a \in Uproc, PgRead(a)
       PROVE  MutexOk(Flash(c))'
  <2>1. \A x \in Uproc : x # a => (Holds(x, Flash(c))' <=> Holds(x, Flash(c)))
    BY <1>0, <1>10, HoldsFlash DEF PgRead, poolVars
  <2>2. (Holds(a, Flash(c)) <=> c = a) /\ ~Holds(a, Flash(c))'
    BY <1>0, <1>10, HoldsFlash DEF PgRead
  <2> QED BY <1>c, <1>10, <2>1, <2>2 DEF PgRead
<1>11. CASE Execute
  BY <1>0, <1>11, <1>a DEF Execute, LaunchUproc, poolVars
<1>12. CASE ExecuteWait \/ Test
  <2>1. PICK s \in {Master, ShellSem}, a \in Process : P(a, s)
    BY <1>12, Processes DEF ExecuteWait, Test
  <2>2. queue'[Flash(c)] = queue[Flash(c)] /\ sem'[Flash(c)] = sem[Flash(c)]
    <3>1. s \in Sem /\ Flash(c) \in Sem /\ Flash(c) # s
      BY Semaphores, FlashApart
    <3>2. V(s) \/ \E y \in Process : P(y, s)
      BY <1>0, <2>1
    <3> QED BY <1>0, <3>1, <3>2, OtherSemaphores
  <2>3. \/ pc[Shell] = "execute" /\ pc' = [pc EXCEPT ![Shell] = "prog"]
        \/ pc' = [pc EXCEPT ![Instantiator] = "end"]
    BY <1>12 DEF ExecuteWait, Test
  <2>4. UNCHANGED <<slot, swapPool>>
    BY <1>12 DEF ExecuteWait, Test, poolVars
  <2> QED BY <1>0, <1>a, <2>2, <2>3, <2>4
<1>13. CASE Exit \/ End
  BY <1>13, <1>a, Ending DEF poolVars
<1>14. ASSUME NEW a \in Uproc, Refill(a)
       PROVE  MutexOk(Flash(c))'
  BY <1>14, <1>a DEF Refill, poolVars
<1>15. CASE TlbReplace \/ UNCHANGED vars
  BY <1>15, <1>a DEF TlbReplace, vars, pagerVars, poolVars
<1> QED
  BY <1>2, <1>3, <1>4, <1>5, <1>6, <1>7, <1>8, <1>9, <1>10, <1>11, <1>12, <1>13, <1>14, <1>15
  DEF Next, Program, Proceeds, PagerSteps, Accesses, Access

-----------------------------------------------------------------------------
(* Who waits for whom.                                                     *)

(* A queue of one, without its head.                                       *)
LEMMA TailOfOne ==
  ASSUME NEW S, NEW q \in Seq(S), NEW x, IsInjective(q), Range(q) \subseteq {x}, q # <<>>
  PROVE  Tail(q) = <<>>
<1>1. /\ Tail(q) \in Seq(S) /\ Range(q) = Range(Tail(q)) \cup {Head(q)}
      /\ Head(q) \notin Range(Tail(q))
  BY TailProperties
<1>2. Range(Tail(q)) = {}
  BY <1>1
<1> QED BY <1>1, <1>2, EmptyRange

\* ProgramInv and MasterInv, of the values they are about.
(* Steps that concern neither launched programs nor the one that waits for *)
(* the shell.                                                              *)
LEMMA ProgramKept ==
  ASSUME ProgramInv, queue'[ShellSem] = queue[ShellSem], sem'[ShellSem] = sem[ShellSem],
         \A x \in Uproc \ {Shell} : pc'[x] = "none" <=> pc[x] = "none",
         pc'[Shell] = "execute" <=> pc[Shell] = "execute"
  PROVE  ProgramInv'
<1>1. Launched' = Launched /\ (ShellWaits' <=> ShellWaits)
  BY DEF Launched, ShellWaits
<1> QED BY <1>1 DEF ProgramInv

(* Steps that concern neither the shell's end nor the one that waits for   *)
(* it.                                                                     *)
LEMMA MasterKept ==
  ASSUME MasterInv, queue'[Master] = queue[Master], sem'[Master] = sem[Master],
         pc'[Instantiator] = pc[Instantiator], pc'[Shell] = "none" <=> pc[Shell] = "none",
         Shell \in leaving' => Shell \in leaving
  PROVE  MasterInv'
BY DEF MasterInv

\* A program ends: the shell goes on, or will not have to wait.
(* A program that ends wakes the shell, or leaves a unit to it.            *)
LEMMA ProgramEnds ==
  ASSUME IInv, NEW a \in Uproc, WakeWaiter(a), a # Shell
  PROVE  ProgramInv'
<1>0. /\ SupportTypeOK /\ ProgramInv /\ QueueInv /\ ShellSem \in Sem /\ Shell \in Uproc
      /\ pc \in [Process -> Labels] /\ \A x \in Uproc : x \in Process
      /\ queue[ShellSem] \in Seq(Process) /\ IsInjective(queue[ShellSem])
      /\ pc[a] = "wake" /\ pc' = [pc EXCEPT ![a] = "none"] /\ V(ShellSem)
  BY Semaphores, Processes DEF IInv, SupportTypeOK, QueueInv, WakeWaiter, At, Goto, Waiter
<1>1. a \in Launched /\ Launched = {a} /\ Launched' = {}
  BY <1>0 DEF Launched, ProgramInv
<1>2. CASE ShellWaits
  <2>1. queue[ShellSem] # <<>>
    BY <1>0, <1>2, EmptyRange DEF ShellWaits
  <2>2. Range(queue[ShellSem]) \subseteq {Shell} /\ sem[ShellSem] = -1
    BY <1>0, <1>2 DEF ProgramInv
  <2>3. queue'[ShellSem] = <<>> /\ sem'[ShellSem] = 0 /\ Range(<<>>) = {}
    <3>1. Tail(queue[ShellSem]) = <<>>
      BY <1>0, <2>1, <2>2, TailOfOne
    <3>2. queue'[ShellSem] = <<>> /\ sem'[ShellSem] = 0
      <4>1. queue'[ShellSem] = Tail(queue[ShellSem]) /\ sem'[ShellSem] = sem[ShellSem] + 1
        BY <1>0, <2>1, VStep
      <4> QED BY <2>2, <3>1, <4>1
    <3>3. <<>> \in Seq(Process)
      OBVIOUS
    <3> QED BY <3>2, <3>3, EmptyRange
  <2>4. pc[Shell] = "prog"
    BY <1>0, <1>2, Apart DEF ShellWaits, QueueInv, WaitsAt
  <2>5. pc'[Shell] # "execute"
    BY <1>0, <2>4
  <2> QED BY <1>1, <2>3, <2>5 DEF ProgramInv, ShellWaits
<1>3. CASE ~ShellWaits
  <2>1. queue[ShellSem] = <<>> /\ sem[ShellSem] = 0 /\ pc[Shell] = "execute" /\ Range(<<>>) = {}
    BY <1>0, <1>1, <1>3, EmptyRange DEF ShellWaits, ProgramInv
  <2>2. queue'[ShellSem] = <<>> /\ sem'[ShellSem] = 1
    BY <1>0, <2>1, VStep
  <2>3. pc'[Shell] = "execute"
    BY <1>0, <2>1
  <2> QED BY <1>1, <2>1, <2>2, <2>3 DEF ProgramInv, ShellWaits
<1> QED BY <1>2, <1>3

(* The shell waits unless its program ended already.                       *)
LEMMA ShellWaitsOnce ==
  ASSUME IInv, ExecuteWait
  PROVE  ProgramInv'
<1>0. /\ SupportTypeOK /\ ProgramInv /\ ShellSem \in Sem /\ Shell \in Uproc /\ Shell \in Process
      /\ pc \in [Process -> Labels] /\ \A x \in Uproc : x \in Process
      /\ queue[ShellSem] \in Seq(Process) /\ ~ShellWaits
      /\ pc[Shell] = "execute" /\ pc' = [pc EXCEPT ![Shell] = "prog"] /\ P(Shell, ShellSem)
  BY Semaphores, Processes DEF IInv, SupportTypeOK, ExecuteWait, At, Goto, Ready, ShellWaits
<1>1. Launched' = Launched /\ pc'[Shell] # "execute"
  BY <1>0 DEF Launched
<1>2. CASE Launched = {}
  <2>1. queue'[ShellSem] = queue[ShellSem] /\ sem'[ShellSem] = 0
    BY <1>0, <1>2, PStep DEF ProgramInv
  <2> QED BY <1>0, <1>1, <1>2, <2>1 DEF ProgramInv, ShellWaits
<1>3. CASE Launched # {}
  <2>1. queue'[ShellSem] = Append(queue[ShellSem], Shell) /\ sem'[ShellSem] = -1
    <3>1. sem[ShellSem] = 0
      BY <1>0, <1>3 DEF ProgramInv
    <3>2. ~(sem[ShellSem] > 0) /\ sem[ShellSem] - 1 = -1
      BY <3>1
    <3> QED BY <1>0, <3>2, PStep
  <2>2. Range(queue'[ShellSem]) = Range(queue[ShellSem]) \cup {Shell}
    BY <1>0, <2>1, AddTailProperties
  <2> QED BY <1>0, <1>1, <1>3, <2>1, <2>2 DEF ProgramInv, ShellWaits
<1> QED BY <1>2, <1>3

(* The shell launches a program when there is none.                        *)
LEMMA ShellLaunches ==
  ASSUME IInv, Execute
  PROVE  ProgramInv'
<1>0. /\ ProgramInv /\ pc[Shell] = "prog" /\ ~ShellWaits /\ Shell \in Process
      /\ pc \in [Process -> Labels] /\ \A x \in Uproc : x \in Process /\ UNCHANGED <<sem, queue>>
  BY Semaphores, Processes DEF IInv, SupportTypeOK, Execute, At, Ready, ShellWaits
<1>1. PICK a \in Uproc \ {Shell} :
        pc[a] = "none" /\ pc' = [pc EXCEPT ![Shell] = "execute", ![a] = "prog"]
  BY DEF Execute, LaunchUproc
<1>2. Launched = {} /\ sem[ShellSem] = 0
  BY <1>0 DEF ProgramInv
<1>3. Launched' = {a} /\ pc'[Shell] = "execute"
  BY <1>0, <1>1, <1>2 DEF Launched
<1> QED BY <1>0, <1>2, <1>3 DEF ProgramInv, ShellWaits

\* The shell ends.
(* The shell that ends wakes the instantiator, or leaves a unit to it.     *)
LEMMA ShellEnds ==
  ASSUME IInv, WakeWaiter(Shell)
  PROVE  MasterInv'
<1>0. /\ SupportTypeOK /\ MasterInv /\ QueueInv /\ LabelInv /\ Master \in Sem
      /\ pc \in [Process -> Labels] /\ Shell \in Process /\ Instantiator # Shell
      /\ queue[Master] \in Seq(Process) /\ IsInjective(queue[Master])
      /\ pc[Shell] = "wake" /\ pc' = [pc EXCEPT ![Shell] = "none"] /\ V(Master)
  BY Semaphores, Processes DEF IInv, SupportTypeOK, QueueInv, WakeWaiter, At, Goto, Waiter
<1>1. pc'[Shell] = "none" /\ pc'[Instantiator] = pc[Instantiator]
  BY <1>0
<1>2. CASE pc[Instantiator] = "test" /\ sem[Master] = 0 /\ queue[Master] = <<>>
  <2>1. queue'[Master] = <<>> /\ sem'[Master] = 1
    BY <1>0, <1>2, VStep
  <2> QED BY <1>1, <2>1 DEF MasterInv
<1>3. CASE pc[Instantiator] = "end" /\ Instantiator \in Range(queue[Master])
  <2>1. Range(queue[Master]) \subseteq {Instantiator}
    <3>1. \A x \in Range(queue[Master]) : x \in Process /\ pc[x] = "end"
      BY <1>0, EmptyRange, Apart DEF QueueInv, WaitsAt
    <3> QED BY <1>0, <3>1, Processes DEF LabelInv
  <2>2. queue[Master] # <<>>
    BY <1>0, <1>3, EmptyRange
  <2>3. queue'[Master] = <<>>
    BY <1>0, <2>1, <2>2, TailOfOne, VStep
  <2> QED BY <1>1, <1>3, <2>3 DEF MasterInv
<1> QED BY <1>0, <1>2, <1>3 DEF MasterInv

\* The instantiator takes its place.
(* The instantiator waits unless the shell ended already.                  *)
LEMMA TestWaits ==
  ASSUME IInv, Test
  PROVE  MasterInv'
<1>0. /\ SupportTypeOK /\ MasterInv /\ Master \in Sem
      /\ pc \in [Process -> Labels] /\ Shell \in Process /\ Instantiator # Shell
      /\ Instantiator \in Process /\ queue[Master] \in Seq(Process)
      /\ pc[Instantiator] = "test" /\ pc' = [pc EXCEPT ![Instantiator] = "end"]
      /\ P(Instantiator, Master) /\ UNCHANGED leaving
  BY Semaphores, Processes DEF IInv, SupportTypeOK, Test, At, Goto
<1>1. pc'[Instantiator] = "end" /\ pc'[Shell] = pc[Shell]
  BY <1>0
<1>2. CASE pc[Shell] = "none"
  <2>1. queue'[Master] = <<>>
    BY <1>0, <1>2, PStep DEF MasterInv
  <2> QED BY <1>0, <1>1, <1>2, <2>1 DEF MasterInv
<1>3. CASE pc[Shell] # "none"
  <2>1. sem[Master] = 0
    BY <1>0, <1>3 DEF MasterInv
  <2>2. queue'[Master] = Append(queue[Master], Instantiator)
    <3>1. ~(sem[Master] > 0)
      BY <2>1
    <3> QED BY <1>0, <3>1, PStep
  <2>3. Instantiator \in Range(queue'[Master])
    BY <1>0, <2>2, AddTailProperties
  <2> QED BY <1>0, <1>1, <1>3, <2>3 DEF MasterInv
<1> QED BY <1>2, <1>3

(* So the waits of the shell and of the instantiator stay in order.        *)
LEMMA NextWaits ==
  ASSUME IInv, [Next]_vars
  PROVE  ProgramInv' /\ MasterInv'
<1> USE DEF At, Goto
<1>0. /\ SupportTypeOK /\ ProgramInv /\ MasterInv /\ pc \in [Process -> Labels]
      /\ \A a \in Uproc : a \in Process /\ a # Instantiator
      /\ Shell \in Uproc /\ Instantiator \in Process
      /\ \A a \in Uproc : ret[a] \in {"prog", "tx_send", "rx_next"}
  BY Processes DEF IInv, SupportTypeOK
\* Steps of a process that goes on, which use other semaphores.
<1>a. ASSUME \A s \in {ShellSem, Master} : queue'[s] = queue[s] /\ sem'[s] = sem[s],
             \E a \in Uproc : \E l :
               /\ pc' = [pc EXCEPT ![a] = l]
               /\ pc[a] \notin {"none", "execute"} /\ l \notin {"none", "execute"},
             UNCHANGED leaving
      PROVE  ProgramInv' /\ MasterInv'
  <2>1. \A x \in Uproc : /\ pc'[x] = "none" <=> pc[x] = "none"
                         /\ pc'[x] = "execute" <=> pc[x] = "execute"
    BY <1>0, <1>a
  <2>2. pc'[Instantiator] = pc[Instantiator]
    BY <1>0, <1>a
  <2> QED BY <1>0, <1>a, <2>1, <2>2, ProgramKept, MasterKept
<1>b. ASSUME NEW s \in Sem, s # ShellSem, s # Master, V(s) \/ \E a \in Process : P(a, s)
      PROVE  \A t \in {ShellSem, Master} : queue'[t] = queue[t] /\ sem'[t] = sem[t]
  BY <1>0, <1>b, OtherSemaphores, Semaphores
<1>1. ASSUME NEW a \in Uproc,
             Touch(a) \/ Trap(a) \/ TxNext(a) \/ TxSend(a) \/ RxReceive(a)
      PROVE  ProgramInv' /\ MasterInv'
  BY <1>0, <1>1, <1>a DEF Touch, Trap, TxNext, TxSend, RxReceive
<1>2. ASSUME NEW a \in Uproc, Load(a) \/ Store(a), UNCHANGED leaving
      PROVE  ProgramInv' /\ MasterInv'
  BY <1>0, <1>2, <1>a DEF Load, Store
<1>3. ASSUME NEW a \in Uproc,
             WriteTerminal(a) \/ ReadTerminal(a) \/ SupTerminate(a) \/ Fault(a), UNCHANGED leaving
      PROVE  ProgramInv' /\ MasterInv'
  <2>1. PICK s \in {Tx, Rx, Pool} : P(a, s)
    BY <1>3 DEF WriteTerminal, ReadTerminal, SupTerminate, Fault
  <2>2. \A t \in {ShellSem, Master} : queue'[t] = queue[t] /\ sem'[t] = sem[t]
    BY <1>0, <1>b, <2>1, Semaphores, Apart
  <2> QED BY <1>0, <1>3, <1>a, <2>2 DEF WriteTerminal, ReadTerminal, SupTerminate, Fault
<1>4. ASSUME NEW a \in Uproc,
             TxDone(a) \/ RxDone(a) \/ FreeFrames(a) \/ PgMap(a) \/ PgFail(a), UNCHANGED leaving
      PROVE  ProgramInv' /\ MasterInv'
  <2>1. PICK s \in {Tx, Rx, Pool} : V(s)
    BY <1>4 DEF TxDone, RxDone, FreeFrames, PgMap, PgFail
  <2>2. \A t \in {ShellSem, Master} : queue'[t] = queue[t] /\ sem'[t] = sem[t]
    BY <1>0, <1>b, <2>1, Semaphores, Apart
  <2> QED BY <1>0, <1>4, <1>a, <2>2 DEF TxDone, RxDone, FreeFrames, PgMap, PgFail
<1>5. ASSUME NEW a \in Uproc, PgPick(a), UNCHANGED leaving
      PROVE  ProgramInv' /\ MasterInv'
  <2>1. PICK b \in Uproc : P(a, Flash(b)) /\ \E l \in {"pg_read", "pg_write"} : Goto(a, l)
    BY <1>5, PgPickStep
  <2>2. pc[a] = "pg_pick"
    BY <1>5, PgPickStep
  <2>3. \A t \in {ShellSem, Master} : queue'[t] = queue[t] /\ sem'[t] = sem[t]
    BY <1>0, <1>b, <2>1, Semaphores, FlashApart
  <2> QED BY <1>0, <1>5, <1>a, <2>1, <2>2, <2>3
<1>6. ASSUME NEW a \in Uproc, PgWrite(a), UNCHANGED leaving
      PROVE  ProgramInv' /\ MasterInv'
  <2>1. PICK b \in Uproc : V(Flash(b)) /\ At(a, "pg_write") /\ \E l \in {"pg_own", "pg_fail"} : Goto(a, l)
    BY <1>6, PgWriteStep
  <2>2. \A t \in {ShellSem, Master} : queue'[t] = queue[t] /\ sem'[t] = sem[t]
    BY <1>b, <2>1, Semaphores, FlashApart
  <2> QED BY <1>0, <1>6, <1>a, <2>1, <2>2
<1>7. ASSUME NEW a \in Uproc, PgOwn(a) \/ PgRead(a), UNCHANGED leaving
      PROVE  ProgramInv' /\ MasterInv'
  <2>1. \A t \in {ShellSem, Master} : queue'[t] = queue[t] /\ sem'[t] = sem[t]
    BY <1>0, <1>7, <1>b, Semaphores, FlashApart DEF PgOwn, PgRead
  <2> QED BY <1>0, <1>7, <1>a, <2>1 DEF PgOwn, PgRead
<1>8. ASSUME NEW a \in Uproc, WakeWaiter(a)
      PROVE  ProgramInv' /\ MasterInv'
  <2>1. pc[a] = "wake" /\ pc' = [pc EXCEPT ![a] = "none"] /\ V(Waiter(a)) /\ leaving' = leaving \cup {a}
    BY <1>8 DEF WakeWaiter
  <2>2. CASE a = Shell
    <3>1. queue'[ShellSem] = queue[ShellSem] /\ sem'[ShellSem] = sem[ShellSem]
      BY <1>0, <2>1, <2>2, VStep, Semaphores, Apart DEF Waiter
    <3>2. pc'[Shell] # "execute" /\ pc[Shell] # "execute" /\ \A x \in Uproc \ {Shell} : pc'[x] = pc[x]
      BY <1>0, <2>1, <2>2
    <3> QED BY <1>0, <1>8, <2>2, <3>1, <3>2, ProgramKept, ShellEnds
  <2>3. CASE a # Shell
    <3>1. queue'[Master] = queue[Master] /\ sem'[Master] = sem[Master]
      BY <1>0, <2>1, <2>3, VStep, Semaphores, Apart DEF Waiter
    <3>2. pc'[Shell] = pc[Shell] /\ pc'[Instantiator] = pc[Instantiator]
      BY <1>0, <2>1, <2>3
    <3> QED BY <1>0, <1>8, <2>1, <2>3, <3>1, <3>2, MasterKept, ProgramEnds
  <2> QED BY <2>2, <2>3
<1>9. CASE Execute
  <2>1. /\ UNCHANGED <<sem, queue, leaving>> /\ pc[Shell] = "prog"
        /\ \E a \in Uproc \ {Shell} : pc' = [pc EXCEPT ![Shell] = "execute", ![a] = "prog"]
    BY <1>9 DEF Execute
  <2>2. pc'[Shell] = "execute" /\ pc'[Instantiator] = pc[Instantiator]
    BY <1>0, <2>1
  <2> QED BY <1>0, <1>9, <2>1, <2>2, MasterKept, ShellLaunches
<1>10. CASE ExecuteWait
  <2>1. /\ UNCHANGED leaving /\ pc[Shell] = "execute" /\ P(Shell, ShellSem)
        /\ pc' = [pc EXCEPT ![Shell] = "prog"]
    BY <1>10 DEF ExecuteWait
  <2>2. queue'[Master] = queue[Master] /\ sem'[Master] = sem[Master]
    BY <1>0, <2>1, PStep, Semaphores, Apart
  <2>3. pc'[Shell] = "prog" /\ pc'[Instantiator] = pc[Instantiator]
    BY <1>0, <2>1
  <2> QED BY <1>0, <1>10, <2>1, <2>2, <2>3, MasterKept, ShellWaitsOnce
<1>11. CASE Test
  <2>1. pc' = [pc EXCEPT ![Instantiator] = "end"] /\ P(Instantiator, Master)
    BY <1>11 DEF Test
  <2>2. queue'[ShellSem] = queue[ShellSem] /\ sem'[ShellSem] = sem[ShellSem]
    BY <1>0, <2>1, PStep, Semaphores, Apart
  <2>3. \A x \in Uproc : pc'[x] = pc[x]
    BY <1>0, <2>1
  <2> QED BY <1>0, <1>11, <2>2, <2>3, ProgramKept, TestWaits
<1>12. CASE Exit \/ End
  <2>1. /\ UNCHANGED <<sem, queue>> /\ (\A a \in Uproc : pc'[a] = pc[a]) /\ leaving' \subseteq leaving
        /\ \/ pc' = pc
           \/ pc[Shell] = "none" /\ pc'[Instantiator] \in {pc[Instantiator], "none"}
    BY <1>12, Ending
  <2>2. ProgramInv'
    BY <1>0, <2>1, ProgramKept
  <2>3. MasterInv'
    <3>1. CASE pc' = pc
      BY <1>0, <2>1, <3>1, MasterKept
    <3>2. CASE pc[Shell] = "none" /\ pc'[Instantiator] \in {pc[Instantiator], "none"}
      BY <1>0, <2>1, <3>2 DEF MasterInv
    <3> QED BY <2>1, <3>1, <3>2
  <2> QED BY <2>2, <2>3
<1>13. ASSUME NEW a \in Uproc, Refill(a), UNCHANGED leaving
       PROVE  ProgramInv' /\ MasterInv'
  BY <1>0, <1>13, ProgramKept, MasterKept DEF Refill
<1>14. ASSUME TlbReplace, UNCHANGED leaving
       PROVE  ProgramInv' /\ MasterInv'
  BY <1>0, <1>14, ProgramKept, MasterKept DEF TlbReplace
<1>15. CASE UNCHANGED vars
  BY <1>0, <1>15, ProgramKept, MasterKept DEF vars, pagerVars
<1> QED
  BY <1>1, <1>2, <1>3, <1>4, <1>5, <1>6, <1>7, <1>8, <1>9, <1>10, <1>11, <1>12, <1>13, <1>14, <1>15
  DEF Next, Program, Proceeds, PagerSteps, Accesses, Access, Touch, WriteTerminal, ReadTerminal,
      SupTerminate, TxDone, RxDone, FreeFrames

-----------------------------------------------------------------------------
(* Frames.                                                                 *)

(* The VPN that no page has stays out of the TLB.                          *)
LEMMA NextPager ==
  ASSUME IInv, [Next]_vars
  PROVE  PagerInv'
<1> USE DEF At, Goto, poolVars, mmVars
<1>0. /\ SupportTypeOK /\ PagerInv /\ pc \in [Process -> Labels] /\ vpn \in [Uproc -> Vpn]
      /\ \A a \in Uproc : a \in Process
      /\ Shell \in Uproc /\ Instantiator \notin Uproc
      /\ \A a \in Uproc : ret[a] \in {"prog", "tx_send", "rx_next"}
      /\ slot \in [Uproc -> Frame] /\ swapPool \in [Frame -> {Free} \cup (Uproc \X Page)]
      /\ tlb \in [Uproc -> [Vpn -> Frame \cup {Invalid, Absent}]]
  BY Processes DEF IInv, SupportTypeOK
<1>b. /\ "pg_pick" \in InPager /\ "pg_write" \in InPager /\ "pg_own" \in InPager
      /\ "pg_read" \in InPager /\ "pg_map" \in InPager /\ "pg_fail" \in InPager
      /\ \A l \in {"prog", "access", "tx_next", "tx_send", "rx_receive", "rx_next", "execute",
                   "die", "free", "wake", "none"} : l \notin InPager
  BY DEF InPager
<1>t. /\ \A x \in Uproc : TlbClear[x][HoleVpn] = Absent
      /\ \A x, b \in Uproc, p \in Page, i \in Frame : [TlbClear EXCEPT ![b][EntryVpn(p)] = i][x][HoleVpn] = Absent
  BY Pages DEF TlbClear
\* Steps that bring nobody into the pager.
<1>a. ASSUME \A x \in Uproc : tlb'[x][HoleVpn] = tlb[x][HoleVpn], UNCHANGED <<slot, swapPool>>,
             \A x \in Uproc : \/ pc'[x] = pc[x] /\ vpn'[x] = vpn[x]
                              \/ pc'[x] \notin InPager
                              \/ pc[x] \in InPager /\ pc'[x] # "pg_write" /\ vpn'[x] = vpn[x]
      PROVE  PagerInv'
  BY <1>0, <1>a, <1>b DEF PagerInv
<1>1. ASSUME NEW a \in Uproc,
             Touch(a) \/ WriteTerminal(a) \/ ReadTerminal(a) \/ WakeWaiter(a)
      PROVE  PagerInv'
  <2>1. UNCHANGED <<tlb, slot, swapPool>>
    BY <1>1 DEF Touch, WriteTerminal, ReadTerminal, WakeWaiter
  <2>2. /\ pc'[a] \notin InPager
        /\ \A x \in Uproc : x # a => pc'[x] = pc[x] /\ vpn'[x] = vpn[x]
    BY <1>0, <1>1, <1>b DEF Touch, WriteTerminal, ReadTerminal, WakeWaiter
  <2> QED BY <1>a, <2>1, <2>2
<1>2. ASSUME NEW a \in Uproc,
             Trap(a) \/ TxNext(a) \/ TxSend(a) \/ RxReceive(a) \/ TxDone(a) \/ RxDone(a)
             \/ SupTerminate(a) \/ Load(a) \/ Store(a)
      PROVE  PagerInv'
  <2>1. UNCHANGED <<tlb, slot, swapPool, vpn>>
    BY <1>2 DEF Trap, TxNext, TxSend, RxReceive, TxDone, RxDone, SupTerminate, Load, Store
  <2>2. /\ pc'[a] \notin InPager
        /\ \A x \in Uproc : x # a => pc'[x] = pc[x]
    BY <1>0, <1>2, <1>b DEF Trap, TxNext, TxSend, RxReceive, TxDone, RxDone, SupTerminate, Load, Store
  <2> QED BY <1>a, <2>1, <2>2
<1>3. CASE Execute
  <2>1. /\ UNCHANGED <<tlb, slot, swapPool, vpn>>
        /\ \E a \in Uproc : pc' = [pc EXCEPT ![Shell] = "execute", ![a] = "prog"]
    BY <1>3 DEF Execute
  <2>2. \A x \in Uproc : pc'[x] = pc[x] \/ pc'[x] \notin InPager
    BY <1>0, <1>b, <2>1
  <2> QED BY <1>a, <2>1, <2>2
<1>4. CASE ExecuteWait \/ Test
  <2>1. UNCHANGED <<tlb, slot, swapPool, vpn>>
    BY <1>4 DEF ExecuteWait, Test
  <2>2. \A x \in Uproc : pc'[x] = pc[x] \/ pc'[x] \notin InPager
    BY <1>0, <1>4, <1>b DEF ExecuteWait, Test
  <2> QED BY <1>a, <2>1, <2>2
<1>5. CASE Exit \/ End
  BY <1>a, <1>5, Ending
<1>6. ASSUME NEW a \in Uproc, FreeFrames(a)
      PROVE  PagerInv'
  <2>1. pc[a] = "free" /\ a \notin Range(queue[Pool])
    BY <1>6, Semaphores DEF FreeFrames, Ready
  <2>2. \A x \in Uproc : pc[x] # "pg_write"
    BY <2>1, OneWorks DEF InPager
  <2>3. \A x \in Uproc : pc'[x] = pc[x] \/ pc'[x] = "wake"
    BY <1>0, <1>6 DEF FreeFrames
  <2> QED BY <1>0, <1>6, <1>b, <2>2, <2>3 DEF PagerInv, FreeFrames
<1>7. ASSUME NEW a \in Uproc, Refill(a)
      PROVE  PagerInv'
  <2>1. \A x \in Uproc : tlb'[x][HoleVpn] = tlb[x][HoleVpn]
    BY <1>0, <1>7, Pages DEF Refill
  <2> QED BY <1>a, <1>7, <2>1 DEF Refill
<1>8. CASE TlbReplace
  <2>1. \A x \in Uproc : tlb'[x][HoleVpn] = Absent
    BY <1>0, <1>8, Pages DEF TlbReplace, PagerInv
  <2> QED BY <1>0, <1>8, <1>a, <2>1 DEF TlbReplace, PagerInv
<1>9. ASSUME NEW a \in Uproc, Fault(a)
      PROVE  PagerInv'
  <2>1. /\ tlb[a][vpn[a]] = Invalid /\ pc' = [pc EXCEPT ![a] = "pg_pick"]
        /\ UNCHANGED <<vpn, tlb, slot, swapPool>>
    BY <1>9 DEF Fault
  <2>2. vpn[a] # HoleVpn
    BY <1>0, <2>1, Pages DEF PagerInv
  <2> QED BY <1>0, <2>1, <2>2 DEF PagerInv
<1>10. ASSUME NEW a \in Uproc, PgPick(a)
       PROVE  PagerInv'
  <2>1. /\ pc[a] = "pg_pick" /\ slot' = [slot EXCEPT ![a] = fifoNext]
        /\ UNCHANGED <<vpn, swapPool>>
    BY <1>10, PgPickStep
  <2>2. /\ \/ pc' = [pc EXCEPT ![a] = "pg_read"] /\ UNCHANGED tlb
           \/ pc' = [pc EXCEPT ![a] = "pg_write"] /\ swapPool[fifoNext] # Free /\ tlb' = TlbClear
    BY <1>10, PgPickStep DEF MarkPageNotValid, Free
  <2>3. \A x \in Uproc : tlb'[x][HoleVpn] = Absent
    BY <1>0, <1>t, <2>2 DEF PagerInv
  <2> QED BY <1>0, <1>b, <2>1, <2>2, <2>3 DEF PagerInv
<1>11. ASSUME NEW a \in Uproc, PgWrite(a) \/ PgOwn(a) \/ PgRead(a)
       PROVE  PagerInv'
  <2>1. pc[a] \in InPager /\ pc'[a] # "pg_write" /\ UNCHANGED <<vpn, tlb, slot, swapPool>>
    BY <1>0, <1>11, <1>b DEF PgWrite, PgOwn, PgRead
  <2>2. \A x \in Uproc : x # a => pc'[x] = pc[x]
    BY <1>0, <1>11 DEF PgWrite, PgOwn, PgRead
  <2> QED BY <1>a, <2>1, <2>2
<1>12. ASSUME NEW a \in Uproc, PgMap(a) \/ PgFail(a)
       PROVE  PagerInv'
  <2>1. pc[a] \in {"pg_map", "pg_fail"} /\ a \notin Range(queue[Pool]) /\ UNCHANGED vpn
    BY <1>12, Semaphores DEF PgMap, PgFail, Ready
  <2>2. \A x \in Uproc : x # a => pc[x] # "pg_write"
    BY <2>1, OneWorks DEF InPager
  <2>3. pc'[a] \notin InPager /\ \A x \in Uproc : x # a => pc'[x] = pc[x]
    BY <1>0, <1>12, <1>b DEF PgMap, PgFail
  <2>4. CASE PgMap(a)
    <3>1. VpnToIndex(vpn[a]) \in Page /\ slot[a] \in Frame
      BY <1>0, <1>b, <2>4, Pages DEF PagerInv, PgMap
    <3>2. \A x \in Uproc : tlb'[x][HoleVpn] = Absent
      BY <1>t, <2>4, <3>1 DEF PgMap, MarkPagePresent
    <3> QED BY <1>0, <1>b, <2>1, <2>2, <2>3, <3>2 DEF PagerInv
  <2>5. CASE PgFail(a)
    BY <1>0, <1>b, <2>1, <2>2, <2>3, <2>5 DEF PagerInv, PgFail
  <2> QED BY <1>12, <2>4, <2>5
<1>13. CASE UNCHANGED vars
  BY <1>a, <1>13 DEF vars, pagerVars
<1> QED
  BY <1>1, <1>2, <1>3, <1>4, <1>5, <1>6, <1>7, <1>8, <1>9, <1>10, <1>11, <1>12, <1>13
  DEF Next, Program, Proceeds, PagerSteps, Accesses, Access

(* A frame is recorded for a page only after it was read into.             *)
LEMMA NextContent ==
  ASSUME IInv, [Next]_vars
  PROVE  ContentInv'
<1> USE DEF At, Goto, poolVars, mmVars
<1>0. /\ SupportTypeOK /\ ContentInv /\ pc \in [Process -> Labels]
      /\ \A a \in Uproc : a \in Process
      /\ Shell \in Uproc /\ Instantiator \notin Uproc
      /\ \A a \in Uproc : ret[a] \in {"prog", "tx_send", "rx_next"}
      /\ slot \in [Uproc -> Frame] /\ swapPool \in [Frame -> {Free} \cup (Uproc \X Page)]
      /\ ram \in [Frame -> Content \cup {Blank}]
      /\ flash \in [Uproc -> [Page -> Content]]
  BY Processes DEF IInv, SupportTypeOK
\* Steps that write only contents to frames and bring nobody to pg_map.
<1>a. ASSUME UNCHANGED swapPool,
             \A x \in Uproc : (pc'[x] = pc[x] /\ slot'[x] = slot[x]) \/ pc'[x] # "pg_map",
             \A i \in Frame : ram'[i] = ram[i] \/ ram'[i] \in Content
      PROVE  ContentInv'
  BY <1>0, <1>a DEF ContentInv
<1>1. ASSUME NEW a \in Uproc,
             Touch(a) \/ WriteTerminal(a) \/ ReadTerminal(a) \/ WakeWaiter(a) \/ Trap(a)
             \/ TxNext(a) \/ TxSend(a) \/ RxReceive(a) \/ TxDone(a) \/ RxDone(a)
      PROVE  ContentInv'
  <2>1. UNCHANGED <<slot, swapPool, ram>>
    BY <1>1 DEF Touch, WriteTerminal, ReadTerminal, WakeWaiter, Trap, TxNext, TxSend, RxReceive, TxDone, RxDone
  <2>2. \A x \in Uproc : pc'[x] = pc[x] \/ pc'[x] # "pg_map"
    BY <1>0, <1>1 DEF Touch, WriteTerminal, ReadTerminal, WakeWaiter, Trap, TxNext, TxSend, RxReceive, TxDone, RxDone
  <2> QED BY <1>a, <2>1, <2>2
<1>2. ASSUME NEW a \in Uproc,
             SupTerminate(a) \/ Fault(a) \/ Load(a) \/ Refill(a) \/ PgOwn(a) \/ PgWrite(a)
      PROVE  ContentInv'
  <2>1. UNCHANGED <<slot, swapPool, ram>>
    BY <1>2 DEF SupTerminate, Fault, Load, Refill, PgOwn, PgWrite
  <2>2. \A x \in Uproc : pc'[x] = pc[x] \/ pc'[x] # "pg_map"
    BY <1>0, <1>2 DEF SupTerminate, Fault, Load, Refill, PgOwn, PgWrite
  <2> QED BY <1>a, <2>1, <2>2
<1>3. ASSUME NEW a \in Uproc, Store(a)
      PROVE  ContentInv'
  <2>1. vpn[a] # HoleVpn /\ vpn[a] \in Vpn
    BY <1>3, Pages DEF IInv, PagerInv, SupportTypeOK, Store
  <2>2. VpnToIndex(vpn[a]) \in Page
    BY <2>1, Pages
  <2>3. \E x \in Val : ram' = [ram EXCEPT ![tlb[a][vpn[a]]] = <<a, VpnToIndex(vpn[a]), x>>]
    BY <1>3 DEF Store
  <2>4. \A i \in Frame : ram'[i] = ram[i] \/ ram'[i] \in Content
    BY <1>0, <2>2, <2>3, Contents
  <2>5. \A x \in Uproc : pc'[x] = pc[x] \/ pc'[x] # "pg_map"
    BY <1>0, <1>3 DEF Store
  <2> QED BY <1>3, <1>a, <2>4, <2>5 DEF Store
<1>4. CASE Execute \/ ExecuteWait \/ Test
  <2>1. UNCHANGED <<slot, swapPool, ram>>
    BY <1>4 DEF Execute, ExecuteWait, Test
  <2>2. \A x \in Uproc : pc'[x] = pc[x] \/ pc'[x] # "pg_map"
    BY <1>0, <1>4 DEF Execute, ExecuteWait, Test
  <2> QED BY <1>a, <2>1, <2>2
<1>5. CASE Exit \/ End
  BY <1>a, <1>5, Ending
<1>6. ASSUME NEW a \in Uproc, FreeFrames(a)
      PROVE  ContentInv'
  <2>1. \A i \in Frame : swapPool'[i] # Free => swapPool[i] # Free
    BY <1>6 DEF FreeFrames, FreedFrames
  <2>2. \A x \in Uproc : pc'[x] = pc[x] \/ pc'[x] # "pg_map"
    BY <1>0, <1>6 DEF FreeFrames
  <2> QED BY <1>0, <1>6, <2>1, <2>2 DEF ContentInv, FreeFrames
<1>7. ASSUME NEW a \in Uproc, PgPick(a)
      PROVE  ContentInv'
  <2>1. /\ slot' = [slot EXCEPT ![a] = fifoNext] /\ UNCHANGED <<swapPool, ram>>
        /\ \E l \in {"pg_read", "pg_write"} : Goto(a, l)
    BY <1>7, PgPickStep
  <2>2. \A x \in Uproc : (pc'[x] = pc[x] /\ slot'[x] = slot[x]) \/ pc'[x] # "pg_map"
    BY <1>0, <2>1
  <2> QED BY <1>a, <2>1, <2>2
<1>8. ASSUME NEW a \in Uproc, PgRead(a)
      PROVE  ContentInv'
  <2>1. UNCHANGED <<swapPool, slot>>
    BY <1>8 DEF PgRead
  <2>2. vpn[a] # HoleVpn /\ vpn[a] \in Vpn
    BY <1>8 DEF IInv, PagerInv, SupportTypeOK, PgRead, InPager
  <2>3. flash[a][VpnToIndex(vpn[a])] \in Content
    BY <1>0, <2>2, Pages
  <2>4. CASE ram' = [ram EXCEPT ![slot[a]] = flash[a][VpnToIndex(vpn[a])]] /\ pc' = [pc EXCEPT ![a] = "pg_map"]
    BY <1>0, <2>1, <2>3, <2>4 DEF ContentInv
  <2>5. CASE UNCHANGED ram /\ pc' = [pc EXCEPT ![a] = "pg_fail"]
    BY <1>0, <1>a, <2>1, <2>5
  <2> QED BY <1>8, <2>4, <2>5 DEF PgRead, FlashRead
<1>9. ASSUME NEW a \in Uproc, PgMap(a)
      PROVE  ContentInv'
  <2>1. /\ pc[a] = "pg_map" /\ pc' = [pc EXCEPT ![a] = "access"] /\ UNCHANGED ram
        /\ swapPool' = [swapPool EXCEPT ![slot[a]] = <<a, VpnToIndex(vpn[a])>>]
        /\ slot' = [slot EXCEPT ![a] = 0]
    BY <1>9 DEF PgMap
  <2>2. \A i \in Frame : swapPool'[i] = swapPool[i] \/ i = slot[a]
    BY <1>0, <2>1
  <2> QED BY <1>0, <2>1, <2>2 DEF ContentInv
<1>10. ASSUME NEW a \in Uproc, PgFail(a)
       PROVE  ContentInv'
  <2>1. /\ pc' = [pc EXCEPT ![a] = "die"] /\ slot' = [slot EXCEPT ![a] = 0] /\ UNCHANGED <<ram, swapPool>>
    BY <1>10 DEF PgFail
  <2>2. \A x \in Uproc : (pc'[x] = pc[x] /\ slot'[x] = slot[x]) \/ pc'[x] # "pg_map"
    BY <1>0, <2>1
  <2> QED BY <1>a, <2>1, <2>2
<1>11. CASE TlbReplace \/ UNCHANGED vars
  BY <1>a, <1>11 DEF TlbReplace, vars, pagerVars
<1> QED
  BY <1>1, <1>2, <1>3, <1>4, <1>5, <1>6, <1>7, <1>8, <1>9, <1>10, <1>11
  DEF Next, Program, Proceeds, PagerSteps, Accesses, Access

(* No frame is recorded for a program that has freed its own.              *)
LEMMA NextOwn ==
  ASSUME IInv, [Next]_vars
  PROVE  OwnInv'
<1> USE DEF At, Goto, poolVars, mmVars
<1>0. /\ OwnInv /\ pc \in [Process -> Labels] /\ \A a \in Uproc : a \in Process
      /\ Shell \in Uproc /\ Instantiator \notin Uproc
      /\ \A a \in Uproc : ret[a] \in {"prog", "tx_send", "rx_next"}
      /\ slot \in [Uproc -> Frame] /\ swapPool \in [Frame -> {Free} \cup (Uproc \X Page)]
  BY Processes DEF IInv, SupportTypeOK
\* Steps that give no frame away, of processes that stay alive.
<1>a. ASSUME UNCHANGED swapPool,
             \A x \in Uproc : pc[x] \notin {"wake", "none"} => pc'[x] \notin {"wake", "none"}
      PROVE  OwnInv'
  <2>1. \A i \in Frame : swapPool[i] # Free => swapPool[i][1] \in Uproc
    BY <1>0
  <2> QED BY <1>0, <1>a, <2>1 DEF OwnInv, Alive
<1>1. ASSUME NEW a \in Uproc,
             Touch(a) \/ WriteTerminal(a) \/ ReadTerminal(a) \/ WakeWaiter(a) \/ Trap(a)
             \/ TxNext(a) \/ TxSend(a) \/ RxReceive(a) \/ TxDone(a) \/ RxDone(a)
      PROVE  OwnInv'
  <2>1. UNCHANGED swapPool
    BY <1>1 DEF Touch, WriteTerminal, ReadTerminal, WakeWaiter, Trap, TxNext, TxSend, RxReceive, TxDone, RxDone
  <2>2. \A x \in Uproc : pc[x] \notin {"wake", "none"} => pc'[x] \notin {"wake", "none"}
    BY <1>0, <1>1 DEF Touch, WriteTerminal, ReadTerminal, WakeWaiter, Trap, TxNext, TxSend, RxReceive, TxDone, RxDone
  <2> QED BY <1>a, <2>1, <2>2
<1>2. ASSUME NEW a \in Uproc,
             SupTerminate(a) \/ Fault(a) \/ Load(a) \/ Store(a) \/ Refill(a) \/ PgOwn(a)
             \/ PgWrite(a) \/ PgRead(a) \/ PgFail(a)
      PROVE  OwnInv'
  <2>1. UNCHANGED swapPool
    BY <1>2 DEF SupTerminate, Fault, Load, Store, Refill, PgOwn, PgWrite, PgRead, PgFail
  <2>2. \A x \in Uproc : pc[x] \notin {"wake", "none"} => pc'[x] \notin {"wake", "none"}
    BY <1>0, <1>2 DEF SupTerminate, Fault, Load, Store, Refill, PgOwn, PgWrite, PgRead, PgFail
  <2> QED BY <1>a, <2>1, <2>2
<1>3. CASE Execute \/ ExecuteWait \/ Test
  <2>1. UNCHANGED swapPool
    BY <1>3 DEF Execute, ExecuteWait, Test
  <2>2. \A x \in Uproc : pc[x] \notin {"wake", "none"} => pc'[x] \notin {"wake", "none"}
    BY <1>0, <1>3 DEF Execute, ExecuteWait, Test
  <2> QED BY <1>a, <2>1, <2>2
<1>4. CASE Exit \/ End
  BY <1>a, <1>4, Ending
<1>5. ASSUME NEW a \in Uproc, PgPick(a)
      PROVE  OwnInv'
  <2>1. UNCHANGED swapPool /\ \E l \in {"pg_read", "pg_write"} : Goto(a, l)
    BY <1>5, PgPickStep
  <2> QED BY <1>0, <1>a, <2>1
<1>6. ASSUME NEW a \in Uproc, PgMap(a)
      PROVE  OwnInv'
  <2>1. /\ pc' = [pc EXCEPT ![a] = "access"]
        /\ swapPool' = [swapPool EXCEPT ![slot[a]] = <<a, VpnToIndex(vpn[a])>>]
    BY <1>6 DEF PgMap
  <2>2. \A i \in Frame : swapPool[i] # Free => swapPool[i][1] \in Uproc
    BY <1>0
  <2>3. ASSUME NEW i \in Frame, swapPool'[i] # Free
        PROVE  pc'[swapPool'[i][1]] \notin {"wake", "none"}
    <3>1. CASE i = slot[a]
      BY <1>0, <2>1, <3>1
    <3>2. CASE i # slot[a]
      <4>1. swapPool'[i] = swapPool[i] /\ Alive(swapPool[i][1])
        BY <1>0, <2>1, <2>3, <3>2 DEF OwnInv
      <4> QED BY <1>0, <2>1, <2>2, <4>1 DEF Alive
    <3> QED BY <3>1, <3>2
  <2> QED BY <2>3 DEF OwnInv, Alive
<1>7. ASSUME NEW a \in Uproc, FreeFrames(a)
      PROVE  OwnInv'
  <2>1. /\ pc' = [pc EXCEPT ![a] = "wake"]
        /\ swapPool' = [i \in Frame |-> IF swapPool[i] # Free /\ swapPool[i][1] = a THEN Free ELSE swapPool[i]]
    BY <1>7 DEF FreeFrames, FreedFrames
  <2>2. ASSUME NEW i \in Frame, swapPool'[i] # Free
        PROVE  pc'[swapPool'[i][1]] \notin {"wake", "none"}
    <3>1. swapPool'[i] = swapPool[i] /\ swapPool[i][1] # a /\ swapPool[i][1] \in Uproc
      BY <1>0, <2>1, <2>2
    <3>2. Alive(swapPool[i][1])
      BY <1>0, <2>2, <3>1 DEF OwnInv
    <3> QED BY <1>0, <2>1, <3>1, <3>2 DEF Alive
  <2> QED BY <2>2 DEF OwnInv, Alive
<1>8. CASE TlbReplace \/ UNCHANGED vars
  BY <1>a, <1>8 DEF TlbReplace, vars, pagerVars
<1> QED
  BY <1>1, <1>2, <1>3, <1>4, <1>5, <1>6, <1>7, <1>8
  DEF Next, Program, Proceeds, PagerSteps, Accesses, Access

-----------------------------------------------------------------------------
(* The inductive invariant.                                                *)

(* All of it holds at the start and is kept by every step.                 *)
LEMMA InitIInv == Init => IInv
<1> SUFFICES ASSUME Init
             PROVE  IInv
  OBVIOUS
<1>0. /\ Shell \in Uproc /\ Shell # Instantiator /\ Instantiator \in Process
      /\ \A a \in Uproc : a \in Process /\ a # Instantiator
      /\ Pool \in Sem /\ Master \in Sem /\ ShellSem \in Sem /\ \A a \in Uproc : Flash(a) \in Sem
  BY Processes, Semaphores
<1>1. SupportTypeOK
  BY InitTypes
<1>2. /\ \A a \in Process : pc[a] = IF a = Instantiator THEN "test" ELSE IF a = Shell THEN "prog" ELSE "none"
      /\ \A s \in Sem : queue[s] = <<>> /\ sem[s] = IF s \in Mutex THEN 1 ELSE 0
      /\ swapPool = [i \in Frame |-> Free] /\ tlb = TlbClear /\ leaving = {}
  BY DEF Init, PagerInit, InitSwapStructs
<1>3. Range(<<>>) = {} /\ IsInjective(<<>>) /\ Len(<<>>) = 0
  <2>1. <<>> \in Seq(Process) /\ DOMAIN <<>> = {}
    OBVIOUS
  <2> QED BY <2>1, EmptyRange DEF IsInjective
<1>4. LabelInv
  BY <1>0, <1>2 DEF LabelInv
<1>5. QueueInv
  BY <1>2, <1>3 DEF QueueInv
<1>6. Pool \in Mutex /\ Master \notin Mutex /\ ShellSem \notin Mutex /\ \A a \in Uproc : Flash(a) \in Mutex
  BY Apart, FlashApart DEF Mutex
<1>7. ASSUME NEW s \in Mutex, s \in Sem, \A a \in Uproc : ~Holds(a, s)
      PROVE  MutexOk(s)
  <2>1. Inside(s) = {} /\ sem[s] = 1 /\ queue[s] = <<>>
    BY <1>2, <1>7 DEF Inside
  <2> QED BY <1>3, <2>1 DEF MutexOk
<1>8. MutexOk(Pool)
  BY <1>0, <1>2, <1>6, <1>7, HoldsPool DEF InPager
<1>9. FlashMutexInv
  <2>1. \A a \in Uproc, b \in Uproc : ~Holds(a, Flash(b))
    BY <1>0, <1>2, HoldsFlash
  <2> QED BY <1>0, <1>6, <1>7, <2>1 DEF FlashMutexInv
<1>10. ProgramInv
  BY <1>0, <1>2, <1>3, <1>6 DEF ProgramInv, Launched, ShellWaits
<1>11. MasterInv
  BY <1>0, <1>2, <1>3, <1>6 DEF MasterInv
<1>12. PagerInv
  BY <1>0, <1>2, Pages DEF PagerInv, TlbClear, InPager
<1>13. ContentInv
  BY <1>0, <1>2 DEF ContentInv
<1>14. OwnInv
  BY <1>2 DEF OwnInv
<1> QED BY <1>1, <1>4, <1>5, <1>8, <1>9, <1>10, <1>11, <1>12, <1>13, <1>14 DEF IInv

(* Every step keeps all of it.                                             *)
LEMMA NextIInv == IInv /\ [Next]_vars => IInv'
BY NextTypes, NextLabels, NextQueues, NextPool, NextFlash, NextWaits, NextPager, NextContent, NextOwn DEF IInv

(* What holds in every state: where processes are and wait, who is inside  *)
(* which mutex, what is recorded for whom.                                 *)
THEOREM SupportInvariant == Spec => []IInv
<1> QED BY InitIInv, NextIInv, PTL DEF Spec

(* Every variable of the support level keeps its type.                     *)
THEOREM SupportTypes == Spec => []SupportTypeOK
<1>1. IInv => SupportTypeOK
  BY DEF IInv
<1> QED BY <1>1, SupportInvariant, PTL

(* A mutex that is in order is balanced.                                   *)
LEMMA BalancedMutex ==
  ASSUME NEW s, MutexOk(s)
  PROVE  Balanced(s)
<1>1. CASE Inside(s) = {}
  BY <1>1, FS_EmptySet DEF MutexOk, Balanced
<1>2. CASE Inside(s) # {}
  <2>1. PICK x \in Inside(s) : TRUE
    BY <1>2
  <2>2. Inside(s) = {x}
    BY <2>1 DEF MutexOk
  <2>3. Cardinality(Inside(s)) = 1
    BY <2>2, FS_Singleton
  <2> QED BY <1>2, <2>3 DEF MutexOk, Balanced
<1> QED BY <1>1, <1>2

(* However accesses, faults, flash errors and terminations interleave, the *)
(* mutexes of the swap pool and of the flash devices are given back once   *)
(* by whoever took them, and nobody ever waits for a flash device.         *)
THEOREM PagerMutexesHold == Spec => []PagerMutexes
<1>1. IInv => PagerMutexes
  BY BalancedMutex DEF IInv, FlashMutexInv, PagerMutexes
<1> QED BY <1>1, SupportInvariant, PTL

(* A frame never belongs to a program that has freed its frames.           *)
THEOREM DeadOwnNoFrame == Spec => []DeadOwnNothing
<1>1. IInv => DeadOwnNothing
  BY DEF IInv, OwnInv, DeadOwnNothing
<1> QED BY <1>1, SupportInvariant, PTL

(* One program at a time, which the shell waits for, and the units of      *)
(* shellSemaphore are the programs that ended before it waited.            *)
THEOREM OneProgramAtATime == Spec => []OneProgram
<1>1. ASSUME IInv
      PROVE  OneProgram
  <2>0. ProgramInv
    BY <1>1 DEF IInv
  <2>1. Launched = {} => Cardinality(Launched) = 0
    BY FS_EmptySet
  <2>2. Launched # {} => Cardinality(Launched) = 1
    <3>1. ASSUME NEW x \in Launched
          PROVE  Cardinality(Launched) = 1
      <4>1. Launched = {x}
        BY <2>0, <3>1 DEF ProgramInv
      <4> QED BY <4>1, FS_Singleton
    <3> QED BY <3>1
  <2>3. /\ Launched # {} => ShellWaits \/ pc[Shell] = "execute"
        /\ sem[ShellSem] = IF ShellWaits THEN -1 ELSE IF pc[Shell] = "execute" /\ Launched = {} THEN 1 ELSE 0
    BY <2>0 DEF ProgramInv
  <2>4. Cardinality(Launched) <= 1
    BY <2>1, <2>2
  <2>5. sem[ShellSem] = IF ShellWaits THEN -1
                        ELSE IF pc[Shell] = "execute" THEN 1 - Cardinality(Launched) ELSE 0
    BY <2>1, <2>2, <2>3
  <2> QED BY <2>3, <2>4, <2>5 DEF OneProgram, Launched, ShellWaits
<1>2. IInv => OneProgram
  BY <1>1
<1> QED BY <1>2, SupportInvariant, PTL
=============================================================================
