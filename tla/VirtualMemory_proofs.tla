------------------------- MODULE VirtualMemory_proofs -------------------------
(***************************************************************************)
(* The pager, for any number of ASIDs, pages, frames and values.  Errors   *)
(* or not, no frame is mapped for two pages (FramesApart).  While the      *)
(* flash devices report no error the mutexes of the terminal are balanced  *)
(* and the swap pool and the page tables agree.  The TLB is right about    *)
(* every program in its first life, and while no ASID is launched twice    *)
(* and there are no errors the support level implements VirtualMemory,     *)
(* step by step.  Without these two conditions the code does not keep this *)
(* up: the runs evict_error and stale_tlb show how.                        *)
(***************************************************************************)
EXTENDS SupportLevel_proofs

(* Nobody is on the way out of the pager after an error.                   *)
NoFail == \A a \in Uproc : pc[a] # "pg_fail"

(* Who has a frame in hand: it was chosen and is not recorded yet.         *)
Busy(a) == pc[a] \in InPager \ {"pg_pick"}

(* An invalid entry of the TLB is invalid in the table, and so is that of  *)
(* the page the pager brings in.                                           *)
MissingInv ==
  \A a \in Uproc :
    /\ \A p \in Page : tlb[a][EntryVpn(p)] = Invalid => pte[a][p] = Invalid
    /\ pc[a] \in InPager => pte[a][VpnToIndex(vpn[a])] = Invalid

(* No page of a program is in the frame in hand.                           *)
HandInv ==
  \A a, b \in Uproc : Busy(a) /\ Alive(b) => \A p \in Page : pte[b][p] # slot[a]

(* The frame a page of a program is in is recorded for it.                 *)
RecordedInv ==
  \A a \in Uproc, p \in Page :
    Alive(a) /\ pte[a][p] \in Frame => swapPool[pte[a][p]] = <<a, p>>

(* The page a frame is recorded for is in it.                              *)
MappedInv ==
  \A i \in Frame : ~Working(i) => \A a \in Uproc, p \in Page : swapPool[i] = <<a, p>> => pte[a][p] = i

TerminalInv == MutexOk(Tx) /\ MutexOk(Rx)

(* What holds with errors, and what holds without.                         *)
PInv == IInv /\ MissingInv /\ HandInv /\ RecordedInv
TInv == PInv /\ NoFail /\ TerminalInv /\ MappedInv

-----------------------------------------------------------------------------
(* Kinds of steps.                                                         *)

(* A step that leaves tables, frames and backing stores alone.  It may go  *)
(* on with a page that is to be brought in, but not start or end that, nor *)
(* start or end a program.                                                 *)
Quiet ==
  /\ UNCHANGED <<poolVars, pte, tlb, ram, flash, lives>>
  /\ \A x \in Uproc :
       \/ pc'[x] = pc[x] /\ vpn'[x] = vpn[x]
       \/ pc[x] = "pg_own" /\ pc'[x] = "pg_read" /\ vpn'[x] = vpn[x]
       \/ /\ pc[x] \notin InPager /\ pc'[x] \notin InPager
          /\ pc[x] \in {"wake", "none"} <=> pc'[x] \in {"wake", "none"}

(* The places outside the pager.                                           *)
LEMMA Outside ==
  /\ \A l \in {"prog", "access", "tx_next", "tx_send", "rx_receive", "rx_next", "execute",
               "die", "free", "wake", "test", "end", "none"} : l \notin InPager
  /\ "pg_pick" \in InPager /\ "pg_write" \in InPager /\ "pg_own" \in InPager
  /\ "pg_read" \in InPager /\ "pg_map" \in InPager /\ "pg_fail" \in InPager
BY DEF InPager

(* Steps are quiet, or of these kinds.                                     *)
LEMMA Kinds ==
  ASSUME IInv, [Next]_vars
  PROVE  \/ Quiet /\ UNCHANGED port
         \/ \E a \in Uproc : Load(a) /\ Quiet
         \/ \E a \in Uproc :
              /\ \/ Store(a) \/ Refill(a) \/ Fault(a) \/ PgPick(a) \/ PgWrite(a) \/ PgRead(a)
                 \/ PgMap(a) \/ PgFail(a)
              /\ UNCHANGED lives
         \/ \E a \in Uproc : FreeFrames(a)
         \/ Execute
         \/ TlbReplace /\ UNCHANGED lives
<1> USE DEF At, Goto, poolVars, mmVars
<1>0. /\ pc \in [Process -> Labels] /\ \A a \in Uproc : a \in Process
      /\ Shell \in Uproc /\ Instantiator \notin Uproc
      /\ \A a \in Uproc : ret[a] \in {"prog", "tx_send", "rx_next"}
      /\ vpn \in [Uproc -> Vpn]
  BY Processes DEF IInv, SupportTypeOK
<1>1. ASSUME NEW a \in Uproc,
             Touch(a) \/ WriteTerminal(a) \/ ReadTerminal(a) \/ WakeWaiter(a)
      PROVE  Quiet /\ UNCHANGED port
  <2>1. /\ pc' = [pc EXCEPT ![a] = pc'[a]] /\ pc[a] \in {"prog", "wake"}
        /\ pc[a] = "prog" => pc'[a] \in {"access", "tx_next", "rx_receive"}
        /\ pc[a] = "wake" => pc'[a] = "none"
    BY <1>0, <1>1 DEF Touch, WriteTerminal, ReadTerminal, WakeWaiter
  <2>2. \A x \in Uproc : x # a => vpn'[x] = vpn[x]
    BY <1>0, <1>1 DEF Touch, WriteTerminal, ReadTerminal, WakeWaiter
  <2>3. UNCHANGED <<poolVars, pte, tlb, ram, flash, lives, port>>
    BY <1>1 DEF Touch, WriteTerminal, ReadTerminal, WakeWaiter
  <2> QED BY <1>0, <2>1, <2>2, <2>3, Outside DEF Quiet
<1>2. ASSUME NEW a \in Uproc,
             Trap(a) \/ TxNext(a) \/ TxSend(a) \/ RxReceive(a) \/ TxDone(a) \/ RxDone(a) \/ SupTerminate(a)
      PROVE  Quiet /\ UNCHANGED port
  <2>1. /\ pc' = [pc EXCEPT ![a] = pc'[a]]
        /\ pc[a] \in {"prog", "tx_next", "tx_send", "rx_receive", "rx_next", "die"}
        /\ pc'[a] \in {"die", "access", "tx_next", "prog", "free"}
    BY <1>0, <1>2 DEF Trap, TxNext, TxSend, RxReceive, TxDone, RxDone, SupTerminate
  <2>2. UNCHANGED <<poolVars, pte, tlb, ram, flash, lives, port, vpn>>
    BY <1>2 DEF Trap, TxNext, TxSend, RxReceive, TxDone, RxDone, SupTerminate
  <2> QED BY <1>0, <2>1, <2>2, Outside DEF Quiet
<1>3. ASSUME NEW a \in Uproc, Load(a), UNCHANGED lives
      PROVE  Quiet
  BY <1>0, <1>3, Outside DEF Quiet, Load
<1>4. ASSUME NEW a \in Uproc, PgOwn(a), UNCHANGED lives
      PROVE  Quiet /\ UNCHANGED port
  BY <1>0, <1>4 DEF Quiet, PgOwn
<1>6. CASE ExecuteWait \/ Test
  <2>1. UNCHANGED <<poolVars, pte, tlb, ram, flash, lives, port, vpn>>
    BY <1>6 DEF ExecuteWait, Test
  <2>2. \A x \in Uproc : pc'[x] = pc[x] \/ (pc[x] = "execute" /\ pc'[x] = "prog")
    BY <1>0, <1>6 DEF ExecuteWait, Test
  <2> QED BY <2>1, <2>2, Outside DEF Quiet
<1>7. CASE Exit \/ End
  BY <1>7, Ending DEF Quiet
<1>8. CASE UNCHANGED vars
  BY <1>8 DEF Quiet, vars, pagerVars
<1>9. ASSUME NEW a \in Uproc, Proceeds(a)
      PROVE  \/ Quiet /\ UNCHANGED port
             \/ /\ Refill(a) \/ PgPick(a) \/ PgWrite(a) \/ PgRead(a) \/ PgMap(a) \/ PgFail(a)
                /\ UNCHANGED lives
             \/ FreeFrames(a)
  BY <1>1, <1>2, <1>4, <1>9 DEF Proceeds, PagerSteps
<1>10. ASSUME NEW a \in Uproc, Accesses(a)
       PROVE  (Load(a) /\ Quiet) \/ (Store(a) /\ UNCHANGED lives) \/ (Fault(a) /\ UNCHANGED lives)
  BY <1>3, <1>10 DEF Accesses, Access
<1>11. CASE Execute \/ (TlbReplace /\ UNCHANGED <<leaving, lives>>)
  BY <1>11
<1>12. ASSUME NEW a \in Uproc, Program(a)
       PROVE  Quiet /\ UNCHANGED port
  BY <1>1, <1>2, <1>12 DEF Program
<1>13. CASE \E a \in Uproc : Program(a) \/ Proceeds(a) \/ Accesses(a)
  BY <1>9, <1>10, <1>12, <1>13
<1>14. CASE \E a \in Uproc : TxNext(a) \/ TxDone(a) \/ RxReceive(a) \/ RxDone(a)
  BY <1>2, <1>14
<1> QED BY <1>6, <1>7, <1>8, <1>11, <1>13, <1>14 DEF Next

(* Without errors.                                                         *)
LEMMA CleanKinds ==
  ASSUME IInv, NoFail, [Next]_vars
  PROVE  \/ Quiet /\ UNCHANGED port
         \/ \E a \in Uproc : Load(a) /\ Quiet
         \/ \E a \in Uproc :
              /\ Store(a) \/ Refill(a) \/ Fault(a) \/ PgPick(a) \/ PgWrite(a) \/ PgRead(a) \/ PgMap(a)
              /\ UNCHANGED lives
         \/ \E a \in Uproc : FreeFrames(a)
         \/ Execute
         \/ TlbReplace /\ UNCHANGED lives
<1>1. \A a \in Uproc : ~PgFail(a)
  BY DEF NoFail, PgFail, At
<1> QED BY <1>1, Kinds

(* Without errors nobody gets to the way out.                              *)
LEMMA NextNoFail ==
  ASSUME FlashErrors = FALSE, IInv, NoFail, [Next]_vars
  PROVE  NoFail'
<1> USE DEF At, Goto
<1>0. /\ pc \in [Process -> Labels] /\ \A a \in Uproc : a \in Process
      /\ Shell \in Uproc /\ "pg_fail" \in InPager
      /\ \A a \in Uproc : ret[a] # "pg_fail"
  BY Processes DEF IInv, SupportTypeOK, InPager
<1>1. CASE Quiet
  BY <1>0, <1>1 DEF Quiet, NoFail
<1>2. ASSUME NEW a \in Uproc,
             Store(a) \/ Refill(a) \/ Fault(a) \/ PgRead(a) \/ PgMap(a) \/ FreeFrames(a)
      PROVE  NoFail'
  BY <1>0, <1>2 DEF NoFail, Store, Refill, Fault, PgRead, PgMap, FreeFrames
<1>3. ASSUME NEW a \in Uproc, PgPick(a)
      PROVE  NoFail'
  BY <1>0, <1>3, PgPickStep DEF NoFail
<1>4. ASSUME NEW a \in Uproc, PgWrite(a)
      PROVE  NoFail'
  BY <1>0, <1>4, PgWriteStep DEF NoFail
<1>5. CASE Execute
  BY <1>0, <1>5 DEF NoFail, Execute
<1>6. CASE TlbReplace
  BY <1>6 DEF NoFail, TlbReplace
<1> QED BY <1>1, <1>2, <1>3, <1>4, <1>5, <1>6, CleanKinds

-----------------------------------------------------------------------------
(* The mutexes of the terminal.                                            *)

(* Who is in a terminal operation, faults included.                        *)
LEMMA HoldsTerminal ==
  ASSUME NEW x
  PROVE  /\ Holds(x, Tx) <=> \/ pc[x] \in {"tx_next", "tx_send"}
                             \/ pc[x] \in InPager \cup {"access"} /\ ret[x] = "tx_send"
         /\ Holds(x, Tx)' <=> \/ pc'[x] \in {"tx_next", "tx_send"}
                              \/ pc'[x] \in InPager \cup {"access"} /\ ret'[x] = "tx_send"
         /\ Holds(x, Rx) <=> \/ pc[x] \in {"rx_receive", "rx_next"}
                             \/ pc[x] \in InPager \cup {"access"} /\ ret[x] = "rx_next"
         /\ Holds(x, Rx)' <=> \/ pc'[x] \in {"rx_receive", "rx_next"}
                              \/ pc'[x] \in InPager \cup {"access"} /\ ret'[x] = "rx_next"
<1>1. Tx # Pool /\ Rx # Pool /\ Tx # Rx /\ \A b : Tx # Flash(b) /\ Rx # Flash(b)
  BY Apart, FlashApart
<1> QED BY <1>1 DEF Holds

(* Who waits for the terminal is in its P.                                 *)
LEMMA TerminalWaiters ==
  ASSUME IInv, NEW s \in {Tx, Rx}
  PROVE  /\ IsInjective(queue[s])
         /\ \A x \in Range(queue[s]) : x \in Uproc /\ Holds(x, s)
<1>1. s \in Sem /\ queue[s] \in Seq(Process) /\ IsInjective(queue[s])
  BY Semaphores DEF IInv, SupportTypeOK, QueueInv
<1>2. ASSUME NEW x \in Range(queue[s])
      PROVE  x \in Uproc /\ Holds(x, s)
  <2>1. x \in Process /\ WaitsAt(s, pc[x])
    BY <1>1, EmptyRange DEF IInv, QueueInv
  <2>2. \/ s = Tx /\ pc[x] = "tx_next"
        \/ s = Rx /\ pc[x] = "rx_receive"
    BY <2>1, Apart DEF WaitsAt
  <2>3. x # Instantiator
    BY <2>2 DEF IInv, LabelInv
  <2> QED BY <2>1, <2>2, <2>3, Processes, HoldsTerminal
<1> QED BY <1>1, <1>2

(* The mutexes of the terminal stay in order: a process that is inside one *)
(* is there until it gives it back, through every fault in between.        *)
LEMMA NextTerminal ==
  ASSUME IInv, NoFail, TerminalInv, [Next]_vars
  PROVE  TerminalInv'
<1> USE DEF At, Goto
<1>0. /\ SupportTypeOK /\ pc \in [Process -> Labels] /\ ret \in [Uproc -> {"prog", "tx_send", "rx_next"}]
      /\ \A a \in Uproc : a \in Process
      /\ Shell \in Uproc /\ Instantiator \in Process /\ Instantiator \notin Uproc
      /\ Tx \in Sem /\ Rx \in Sem /\ Tx # Rx
  BY Processes, Semaphores, Apart DEF IInv, SupportTypeOK
\* Steps that leave both semaphores alone.
<1>a. ASSUME \A s \in {Tx, Rx} : queue'[s] = queue[s] /\ sem'[s] = sem[s],
             \A x \in Uproc : (Holds(x, Tx)' <=> Holds(x, Tx)) /\ (Holds(x, Rx)' <=> Holds(x, Rx))
      PROVE  TerminalInv'
  BY <1>a, MutexKept DEF TerminalInv
<1>b. ASSUME NEW s \in Sem, s \notin {Tx, Rx}, V(s) \/ \E a \in Process : P(a, s)
      PROVE  \A t \in {Tx, Rx} : queue'[t] = queue[t] /\ sem'[t] = sem[t]
  BY <1>0, <1>b, PStep, VStep
<1>c. \A x : (pc'[x] = pc[x] /\ ret'[x] = ret[x])
               => (Holds(x, Tx)' <=> Holds(x, Tx)) /\ (Holds(x, Rx)' <=> Holds(x, Rx))
  BY HoldsTerminal
\* Steps within the pager, or between it and the access that faulted.
<1>d. ASSUME UNCHANGED ret, NEW a \in Uproc,
             pc' = [pc EXCEPT ![a] = pc'[a]],
             {pc[a], pc'[a]} \subseteq InPager \cup {"access"}
      PROVE  \A x \in Uproc : (Holds(x, Tx)' <=> Holds(x, Tx)) /\ (Holds(x, Rx)' <=> Holds(x, Rx))
  <2>1. \A l \in {"tx_next", "tx_send", "rx_receive", "rx_next"} : l \notin InPager \cup {"access"}
    BY DEF InPager
  <2>2. /\ Holds(a, Tx)' <=> Holds(a, Tx)
        /\ Holds(a, Rx)' <=> Holds(a, Rx)
    BY <1>d, <2>1, HoldsTerminal
  <2>3. \A x \in Uproc : x # a => pc'[x] = pc[x] /\ ret'[x] = ret[x]
    BY <1>0, <1>d
  <2> QED BY <1>c, <2>2, <2>3
\* Steps outside terminal operations.
<1>e. ASSUME \A x \in Uproc :
               \/ pc'[x] = pc[x] /\ ret'[x] = ret[x]
               \/ /\ {pc[x], pc'[x]} \subseteq {"prog", "die", "free", "wake", "none", "execute", "access"}
                  /\ pc[x] = "access" => ret[x] = "prog"
                  /\ pc'[x] = "access" => ret'[x] = "prog"
      PROVE  \A x \in Uproc : (Holds(x, Tx)' <=> Holds(x, Tx)) /\ (Holds(x, Rx)' <=> Holds(x, Rx))
  <2>1. ASSUME NEW x \in Uproc,
               {pc[x], pc'[x]} \subseteq {"prog", "die", "free", "wake", "none", "execute", "access"},
               pc[x] = "access" => ret[x] = "prog", pc'[x] = "access" => ret'[x] = "prog"
        PROVE  ~Holds(x, Tx) /\ ~Holds(x, Tx)' /\ ~Holds(x, Rx) /\ ~Holds(x, Rx)'
    BY <2>1, HoldsTerminal, Outside
  <2> QED BY <1>c, <1>e, <2>1
<1>1. ASSUME NEW a \in Uproc, Touch(a) \/ Trap(a)
      PROVE  TerminalInv'
  <2>1. UNCHANGED <<sem, queue>>
    BY <1>1 DEF Touch, Trap
  <2>2. CASE Touch(a)
    BY <1>0, <1>a, <1>e, <2>1, <2>2 DEF Touch
  <2>3. CASE Trap(a)
    BY <1>0, <1>a, <1>e, <2>1, <2>3 DEF Trap
  <2> QED BY <1>1, <2>2, <2>3
<1>2. ASSUME NEW a \in Uproc, WriteTerminal(a)
      PROVE  TerminalInv'
  <2>1. /\ Ready(a) /\ P(a, Tx) /\ pc[a] = "prog" /\ pc' = [pc EXCEPT ![a] = "tx_next"] /\ UNCHANGED ret
    BY <1>2 DEF WriteTerminal
  <2>2. /\ ~Holds(a, Tx) /\ Holds(a, Tx)' /\ ~Holds(a, Rx) /\ ~Holds(a, Rx)'
    BY <1>0, <2>1, HoldsTerminal, Outside
  <2>3. \A x \in Uproc : x # a => (Holds(x, Tx)' <=> Holds(x, Tx)) /\ (Holds(x, Rx)' <=> Holds(x, Rx))
    BY <1>0, <1>c, <2>1
  <2>4. MutexOk(Tx)'
    BY <1>0, <2>1, <2>2, <2>3, MutexP DEF TerminalInv
  <2>5. queue'[Rx] = queue[Rx] /\ sem'[Rx] = sem[Rx]
    BY <1>0, <2>1, PStep
  <2>6. MutexOk(Rx)'
    BY <2>2, <2>3, <2>5, MutexKept DEF TerminalInv
  <2> QED BY <2>4, <2>6 DEF TerminalInv
<1>3. ASSUME NEW a \in Uproc, ReadTerminal(a)
      PROVE  TerminalInv'
  <2>1. /\ Ready(a) /\ P(a, Rx) /\ pc[a] = "prog" /\ pc' = [pc EXCEPT ![a] = "rx_receive"] /\ UNCHANGED ret
    BY <1>3 DEF ReadTerminal
  <2>2. /\ ~Holds(a, Rx) /\ Holds(a, Rx)' /\ ~Holds(a, Tx) /\ ~Holds(a, Tx)'
    BY <1>0, <2>1, HoldsTerminal, Outside
  <2>3. \A x \in Uproc : x # a => (Holds(x, Tx)' <=> Holds(x, Tx)) /\ (Holds(x, Rx)' <=> Holds(x, Rx))
    BY <1>0, <1>c, <2>1
  <2>4. MutexOk(Rx)'
    BY <1>0, <2>1, <2>2, <2>3, MutexP DEF TerminalInv
  <2>5. queue'[Tx] = queue[Tx] /\ sem'[Tx] = sem[Tx]
    BY <1>0, <2>1, PStep
  <2>6. MutexOk(Tx)'
    BY <2>2, <2>3, <2>5, MutexKept DEF TerminalInv
  <2> QED BY <2>4, <2>6 DEF TerminalInv
<1>4. ASSUME NEW a \in Uproc, TxDone(a)
      PROVE  TerminalInv'
  <2>1. /\ Ready(a) /\ V(Tx) /\ pc[a] = "tx_next" /\ pc' = [pc EXCEPT ![a] = "prog"] /\ UNCHANGED ret
    BY <1>4 DEF TxDone
  <2>2. /\ Holds(a, Tx) /\ ~Holds(a, Tx)' /\ ~Holds(a, Rx) /\ ~Holds(a, Rx)'
    BY <1>0, <2>1, HoldsTerminal, Outside
  <2>3. \A x \in Uproc : x # a => (Holds(x, Tx)' <=> Holds(x, Tx)) /\ (Holds(x, Rx)' <=> Holds(x, Rx))
    BY <1>0, <1>c, <2>1
  <2>4. MutexOk(Tx)'
    BY <1>0, <2>1, <2>2, <2>3, MutexV, TerminalWaiters DEF TerminalInv
  <2>5. queue'[Rx] = queue[Rx] /\ sem'[Rx] = sem[Rx]
    BY <1>0, <2>1, VStep
  <2>6. MutexOk(Rx)'
    BY <2>2, <2>3, <2>5, MutexKept DEF TerminalInv
  <2> QED BY <2>4, <2>6 DEF TerminalInv
<1>5. ASSUME NEW a \in Uproc, RxDone(a)
      PROVE  TerminalInv'
  <2>1. /\ Ready(a) /\ V(Rx) /\ pc[a] = "rx_next" /\ pc' = [pc EXCEPT ![a] = "prog"]
        /\ ret' = [ret EXCEPT ![a] = "prog"]
    BY <1>5 DEF RxDone
  <2>2. /\ Holds(a, Rx) /\ ~Holds(a, Rx)' /\ ~Holds(a, Tx) /\ ~Holds(a, Tx)'
    BY <1>0, <2>1, HoldsTerminal, Outside
  <2>3. \A x \in Uproc : x # a => (Holds(x, Tx)' <=> Holds(x, Tx)) /\ (Holds(x, Rx)' <=> Holds(x, Rx))
    BY <1>0, <1>c, <2>1
  <2>4. MutexOk(Rx)'
    BY <1>0, <2>1, <2>2, <2>3, MutexV, TerminalWaiters DEF TerminalInv
  <2>5. queue'[Tx] = queue[Tx] /\ sem'[Tx] = sem[Tx]
    BY <1>0, <2>1, VStep
  <2>6. MutexOk(Tx)'
    BY <2>2, <2>3, <2>5, MutexKept DEF TerminalInv
  <2> QED BY <2>4, <2>6 DEF TerminalInv
<1>6. ASSUME NEW a \in Uproc, TxNext(a) \/ TxSend(a) \/ RxReceive(a) \/ Load(a) \/ Store(a)
      PROVE  TerminalInv'
  <2>1. UNCHANGED <<sem, queue>>
    BY <1>6 DEF TxNext, TxSend, RxReceive, Load, Store
  <2>2. /\ pc' = [pc EXCEPT ![a] = pc'[a]] /\ ret' = [ret EXCEPT ![a] = ret'[a]]
        /\ \/ pc[a] = "tx_next" /\ pc'[a] = "access" /\ ret'[a] = "tx_send"
           \/ pc[a] = "tx_send" /\ pc'[a] = "tx_next"
           \/ pc[a] \in {"rx_receive", "rx_next"} /\ pc'[a] = "access" /\ ret'[a] = "rx_next"
           \/ pc[a] = "access" /\ pc'[a] = ret[a]
    BY <1>0, <1>6 DEF TxNext, TxSend, RxReceive, Load, Store
  <2>3. /\ Holds(a, Tx)' <=> Holds(a, Tx)
        /\ Holds(a, Rx)' <=> Holds(a, Rx)
    BY <1>0, <2>2, HoldsTerminal, Outside
  <2>4. \A x \in Uproc : x # a => pc'[x] = pc[x] /\ ret'[x] = ret[x]
    BY <1>0, <2>2
  <2> QED BY <1>a, <1>c, <2>1, <2>3, <2>4
<1>7. ASSUME NEW a \in Uproc, SupTerminate(a) \/ FreeFrames(a) \/ WakeWaiter(a)
      PROVE  TerminalInv'
  <2>1. PICK s \in Sem : s \notin {Tx, Rx} /\ (V(s) \/ P(a, s))
    BY <1>7, Semaphores, Apart DEF SupTerminate, FreeFrames, WakeWaiter, Waiter
  <2>2. \A x \in Uproc :
          \/ pc'[x] = pc[x] /\ ret'[x] = ret[x]
          \/ {pc[x], pc'[x]} \subseteq {"die", "free", "wake", "none"}
    BY <1>0, <1>7 DEF SupTerminate, FreeFrames, WakeWaiter
  <2>3. \A t \in {Tx, Rx} : queue'[t] = queue[t] /\ sem'[t] = sem[t]
    BY <1>0, <1>b, <2>1
  <2>4. \A x \in Uproc : (Holds(x, Tx)' <=> Holds(x, Tx)) /\ (Holds(x, Rx)' <=> Holds(x, Rx))
    BY <1>e, <2>2
  <2> QED BY <1>a, <2>3, <2>4
<1>8. ASSUME NEW a \in Uproc,
             Fault(a) \/ PgPick(a) \/ PgWrite(a) \/ PgOwn(a) \/ PgRead(a) \/ PgMap(a)
      PROVE  TerminalInv'
  <2>1. PICK s \in Sem : s \notin {Tx, Rx} /\ (V(s) \/ P(a, s))
    BY <1>8, Semaphores, Apart, FlashApart, PgPickStep, PgWriteStep DEF Fault, PgOwn, PgRead, PgMap
  <2>2. UNCHANGED ret /\ pc[a] \in InPager \cup {"access"}
        /\ \E l \in {"pg_pick", "pg_write", "pg_own", "pg_read", "pg_map", "pg_fail", "access"} :
             pc' = [pc EXCEPT ![a] = l]
    BY <1>8, PgPickStep, PgWriteStep DEF Fault, PgOwn, PgRead, PgMap, InPager
  <2>3. pc' = [pc EXCEPT ![a] = pc'[a]] /\ pc'[a] \in InPager \cup {"access"}
    BY <1>0, <2>2 DEF InPager
  <2>4. \A t \in {Tx, Rx} : queue'[t] = queue[t] /\ sem'[t] = sem[t]
    BY <1>0, <1>b, <2>1
  <2> QED BY <1>a, <1>d, <2>2, <2>3, <2>4
<1>9. ASSUME NEW a \in Uproc, Refill(a)
      PROVE  TerminalInv'
  BY <1>9, <1>a, <1>c DEF Refill
<1>10. CASE Execute
  <2>1. UNCHANGED <<sem, queue, ret>>
    BY <1>10 DEF Execute
  <2>2. \A x \in Uproc : pc'[x] = pc[x] \/ {pc[x], pc'[x]} \subseteq {"prog", "none", "execute"}
    BY <1>0, <1>10 DEF Execute, LaunchUproc
  <2> QED BY <1>a, <1>e, <2>1, <2>2
<1>11. CASE ExecuteWait \/ Test
  <2>1. PICK s \in Sem : s \notin {Tx, Rx} /\ \E a \in Process : P(a, s)
    BY <1>0, <1>11, Semaphores, Apart, Processes DEF ExecuteWait, Test
  <2>2. /\ \A x \in Uproc : pc'[x] = pc[x] \/ {pc[x], pc'[x]} \subseteq {"prog", "execute"}
        /\ UNCHANGED ret
    BY <1>0, <1>11 DEF ExecuteWait, Test
  <2> QED BY <1>a, <1>b, <1>e, <2>1, <2>2
<1>12. CASE Exit \/ End
  BY <1>12, <1>a, <1>c, Ending
<1>13. CASE TlbReplace \/ UNCHANGED vars
  BY <1>13, <1>a, <1>c DEF TlbReplace, vars, pagerVars
<1>14. \A a \in Uproc : ~PgFail(a)
  BY DEF NoFail, PgFail
<1> QED
  BY <1>1, <1>2, <1>3, <1>4, <1>5, <1>6, <1>7, <1>8, <1>9, <1>10, <1>11, <1>12, <1>13, <1>14
  DEF Next, Program, Proceeds, PagerSteps, Accesses, Access

-----------------------------------------------------------------------------
(* The swap pool, the page tables and the frame in hand.                   *)

(* One process at most has a frame in hand, and nobody has one when a      *)
(* process is about to choose one or frees its own.                        *)
LEMMA HandOfOne ==
  ASSUME IInv
  PROVE  /\ \A x, y \in Uproc : Busy(x) /\ Busy(y) => x = y
         /\ \A a, x \in Uproc : At(a, "pg_pick") \/ At(a, "free") => ~Busy(x)
<1>1. ASSUME NEW x \in Uproc, NEW y \in Uproc, Busy(x), Busy(y)
      PROVE  x = y
  <2>1. x \notin Range(queue[Pool])
    BY <1>1, Semaphores, Apart DEF IInv, QueueInv, WaitsAt, InPager, Busy
  <2> QED BY <1>1, <2>1, OneWorks DEF Busy
<1>2. ASSUME NEW a \in Uproc, NEW x \in Uproc, At(a, "pg_pick") \/ At(a, "free"), Busy(x)
      PROVE  FALSE
  <2>1. a \notin Range(queue[Pool]) /\ pc[a] \in InPager \cup {"free"} /\ ~Busy(a)
    BY <1>2, Semaphores DEF At, Ready, InPager, Busy
  <2> QED BY <1>2, <2>1, OneWorks DEF Busy
<1> QED BY <1>1, <1>2

(* An entry that the TLB or the pager has found invalid stays so until the *)
(* pager makes it valid.                                                   *)
LEMMA NextMissing ==
  ASSUME PInv, [Next]_vars
  PROVE  MissingInv'
<1> USE DEF At, Goto
<1>0. /\ IInv /\ MissingInv /\ pc \in [Process -> Labels] /\ \A a \in Uproc : a \in Process
      /\ Shell \in Uproc /\ \A a \in Uproc : ret[a] \in {"prog", "tx_send", "rx_next"}
      /\ vpn \in [Uproc -> Vpn]
      /\ pte \in [Uproc -> [Page -> Frame \cup {Invalid}]]
      /\ tlb \in [Uproc -> [Vpn -> Frame \cup {Invalid, Absent}]]
      /\ slot \in [Uproc -> Frame]
  BY Processes DEF PInv, IInv, SupportTypeOK
<1>1. CASE Quiet
  <2>1. UNCHANGED <<pte, tlb>>
    BY <1>1 DEF Quiet
  <2>2. \A x \in Uproc : pc'[x] \in InPager => pc[x] \in InPager /\ vpn'[x] = vpn[x]
    BY <1>1, Outside DEF Quiet
  <2> QED BY <1>0, <2>1, <2>2 DEF MissingInv
<1>2. ASSUME NEW a \in Uproc, Store(a) \/ FreeFrames(a)
      PROVE  MissingInv'
  <2>1. UNCHANGED <<pte, tlb, vpn>>
    BY <1>2 DEF Store, FreeFrames, mmVars
  <2>2. \A x \in Uproc : pc'[x] = pc[x] \/ pc'[x] \notin InPager
    BY <1>0, <1>2, Outside DEF Store, FreeFrames
  <2> QED BY <1>0, <2>1, <2>2 DEF MissingInv
<1>3. ASSUME NEW a \in Uproc, Refill(a)
      PROVE  MissingInv'
  <2>1. RefillIndex(vpn[a]) \in Page
    BY <1>0, Pages
  <2>2. /\ tlb' = [tlb EXCEPT ![a][EntryVpn(RefillIndex(vpn[a]))] = pte[a][RefillIndex(vpn[a])]]
        /\ UNCHANGED <<pc, vpn, pte>>
    BY <1>3 DEF Refill
  <2>3. ASSUME NEW x \in Uproc, NEW p \in Page, tlb'[x][EntryVpn(p)] = Invalid
        PROVE  pte[x][p] = Invalid
    <3>1. CASE x = a /\ p = RefillIndex(vpn[a])
      BY <1>0, <2>1, <2>2, <2>3, <3>1, Pages
    <3>2. CASE ~(x = a /\ p = RefillIndex(vpn[a]))
      <4>1. x = a => EntryVpn(p) # EntryVpn(RefillIndex(vpn[a]))
        BY <2>1, <3>2, Pages
      <4>2. tlb[x][EntryVpn(p)] = Invalid
        BY <1>0, <2>2, <2>3, <4>1
      <4> QED BY <1>0, <4>2 DEF MissingInv
    <3> QED BY <3>1, <3>2
  <2> QED BY <1>0, <2>2, <2>3 DEF MissingInv
<1>4. ASSUME NEW a \in Uproc, Fault(a)
      PROVE  MissingInv'
  <2>1. /\ tlb[a][vpn[a]] = Invalid /\ UNCHANGED <<pte, tlb, vpn>> /\ pc' = [pc EXCEPT ![a] = "pg_pick"]
    BY <1>4 DEF Fault, mmVars
  <2>2. vpn[a] # HoleVpn
    BY <1>0, <2>1, Pages DEF IInv, PagerInv
  <2>3. pte[a][VpnToIndex(vpn[a])] = Invalid
    BY <1>0, <2>1, <2>2, Pages DEF MissingInv
  <2> QED BY <1>0, <2>1, <2>3 DEF MissingInv
<1>5. ASSUME NEW a \in Uproc, PgPick(a)
      PROVE  MissingInv'
  <2>1. /\ UNCHANGED vpn /\ pc[a] \in InPager
        /\ \E l \in {"pg_read", "pg_write"} : Goto(a, l)
        /\ \/ UNCHANGED <<pte, tlb>>
           \/ \E b \in Uproc, p \in Page : MarkPageNotValid(b, p)
    BY <1>0, <1>5, PgPickStep, Outside
  <2>2. \A x \in Uproc : pc'[x] \in InPager => pc[x] \in InPager
    BY <1>0, <2>1
  <2>3. \A x \in Uproc, p \in Page : pte'[x][p] \in {pte[x][p], Invalid}
    <3>1. ASSUME NEW b \in Uproc, NEW q \in Page, pte' = [pte EXCEPT ![b][q] = Invalid],
                 NEW x \in Uproc, NEW p \in Page
          PROVE  pte'[x][p] \in {pte[x][p], Invalid}
      BY <1>0, <3>1
    <3> QED BY <2>1, <3>1 DEF MarkPageNotValid
  <2>4. \A x \in Uproc, v \in Vpn : tlb'[x][v] \in {tlb[x][v], Absent}
    BY <1>0, <2>1 DEF MarkPageNotValid, TlbClear
  <2>5. \A x \in Uproc : pc[x] \in InPager => VpnToIndex(vpn[x]) \in Page
    BY <1>0, Pages DEF IInv, PagerInv
  <2> QED BY <1>0, <2>1, <2>2, <2>3, <2>4, <2>5, Pages DEF MissingInv
<1>6. ASSUME NEW a \in Uproc, PgWrite(a) \/ PgRead(a)
      PROVE  MissingInv'
  <2>1. UNCHANGED <<pte, tlb, vpn>> /\ pc[a] \in InPager
    BY <1>0, <1>6, PgWriteStep, Outside DEF PgRead
  <2>2. \A x \in Uproc : pc'[x] \in InPager => pc[x] \in InPager
    BY <1>0, <1>6, <2>1, PgWriteStep DEF PgRead
  <2> QED BY <1>0, <2>1, <2>2 DEF MissingInv
<1>7. ASSUME NEW a \in Uproc, PgMap(a)
      PROVE  MissingInv'
  <2>1. /\ UNCHANGED vpn /\ pc' = [pc EXCEPT ![a] = "access"]
        /\ pte' = [pte EXCEPT ![a][VpnToIndex(vpn[a])] = slot[a]]
        /\ tlb' = [TlbClear EXCEPT ![a][EntryVpn(VpnToIndex(vpn[a]))] = slot[a]]
    BY <1>7 DEF PgMap, MarkPagePresent
  <2>2. \A x \in Uproc, v \in Vpn : tlb'[x][v] # Invalid
    BY <1>0, <2>1, Pages DEF TlbClear
  <2>3. \A x \in Uproc : pc'[x] \in InPager => x # a /\ pc[x] \in InPager
    BY <1>0, <2>1, Outside
  <2>4. \A x \in Uproc : x # a => pte'[x] = pte[x]
    BY <1>0, <2>1
  <2> QED BY <1>0, <2>1, <2>2, <2>3, <2>4, Pages DEF MissingInv
<1>8. CASE Execute
  <2>1. PICK a \in Uproc \ {Shell} :
          /\ LaunchUproc(a)
          /\ pc' = [pc EXCEPT ![Shell] = "execute", ![a] = "prog"]
    BY <1>8 DEF Execute
  <2>2. UNCHANGED <<tlb, vpn>> /\ pte' = [pte EXCEPT ![a] = InvalidTable]
    BY <1>8, <2>1 DEF Execute, LaunchUproc
  <2>3. \A x \in Uproc : pc'[x] \in InPager => x # a /\ pc[x] \in InPager
    BY <1>0, <2>1, Outside
  <2> QED BY <1>0, <2>2, <2>3 DEF MissingInv, InvalidTable
<1>9. CASE TlbReplace
  <2>1. /\ \A x \in Uproc, v \in Vpn : tlb'[x][v] \in {tlb[x][v], Absent}
        /\ UNCHANGED <<pc, vpn, pte>>
    BY <1>0, <1>9 DEF TlbReplace
  <2> QED BY <1>0, <2>1, Pages DEF MissingInv
<1>10. ASSUME NEW a \in Uproc, PgFail(a)
       PROVE  MissingInv'
  BY <1>0, <1>10, Outside DEF MissingInv, PgFail, mmVars
<1> QED BY <1>0, <1>1, <1>2, <1>3, <1>4, <1>5, <1>6, <1>7, <1>8, <1>9, <1>10, Kinds

(* Working, for the one that has a frame in hand.                          *)
LEMMA WorkingIs ==
  ASSUME NEW i
  PROVE  /\ Working(i) <=> \E a \in Uproc : Busy(a) /\ slot[a] = i
         /\ Working(i)' <=> \E a \in Uproc : Busy(a)' /\ slot'[a] = i
BY DEF Working, Busy

(* The frame in hand stays mapped for nobody.                              *)
LEMMA NextHand ==
  ASSUME PInv, [Next]_vars
  PROVE  HandInv'
<1> USE DEF At, Goto
<1>0. /\ IInv /\ HandInv /\ RecordedInv /\ pc \in [Process -> Labels] /\ \A a \in Uproc : a \in Process
      /\ Shell \in Uproc /\ \A a \in Uproc : ret[a] \in {"prog", "tx_send", "rx_next"}
      /\ fifoNext \in Frame /\ Invalid \notin Frame
      /\ pte \in [Uproc -> [Page -> Frame \cup {Invalid}]]
      /\ slot \in [Uproc -> Frame] /\ swapPool \in [Frame -> {Free} \cup (Uproc \X Page)]
  BY Processes, Pages DEF PInv, IInv, SupportTypeOK
\* Steps after which who has a frame in hand had it, and who is alive was.
<1>a. ASSUME UNCHANGED <<pte, slot>>,
             \A x \in Uproc : /\ pc'[x] \in InPager \ {"pg_pick"} => pc[x] \in InPager \ {"pg_pick"}
                              /\ pc[x] \in {"wake", "none"} => pc'[x] \in {"wake", "none"}
      PROVE  HandInv'
  BY <1>0, <1>a DEF HandInv, Busy, Alive
<1>1. CASE Quiet
  <2>1. \A x \in Uproc : /\ pc'[x] \in InPager \ {"pg_pick"} => pc[x] \in InPager \ {"pg_pick"}
                         /\ pc[x] \in {"wake", "none"} => pc'[x] \in {"wake", "none"}
    BY <1>1, Outside DEF Quiet
  <2> QED BY <1>1, <1>a, <2>1 DEF Quiet, poolVars
<1>2. ASSUME NEW a \in Uproc, Store(a) \/ FreeFrames(a) \/ Refill(a) \/ Fault(a) \/ PgRead(a)
      PROVE  HandInv'
  <2>1. UNCHANGED <<pte, slot>>
    BY <1>2 DEF Store, FreeFrames, Refill, Fault, PgRead, mmVars, poolVars
  <2>2. \A x \in Uproc : /\ pc'[x] \in InPager \ {"pg_pick"} => pc[x] \in InPager \ {"pg_pick"}
                         /\ pc[x] \in {"wake", "none"} => pc'[x] \in {"wake", "none"}
    BY <1>0, <1>2, Outside DEF Store, FreeFrames, Refill, Fault, PgRead
  <2> QED BY <1>a, <2>1, <2>2
<1>3. ASSUME NEW a \in Uproc, PgWrite(a)
      PROVE  HandInv'
  <2>1. UNCHANGED <<pte, slot>> /\ pc[a] = "pg_write" /\ \E l \in {"pg_own", "pg_fail"} : Goto(a, l)
    BY <1>0, <1>3, PgWriteStep DEF poolVars
  <2> QED BY <1>0, <1>a, <2>1, Outside
<1>4. ASSUME NEW a \in Uproc, PgPick(a)
      PROVE  HandInv'
  <2>1. /\ pc[a] = "pg_pick" /\ slot' = [slot EXCEPT ![a] = fifoNext]
        /\ \E l \in {"pg_read", "pg_write"} : Goto(a, l)
        /\ At(a, "pg_pick")
    BY <1>0, <1>4, PgPickStep
  <2>2. \A x \in Uproc : Busy(x)' => x = a
    BY <1>0, <2>1, HandOfOne DEF Busy
  <2>3. ASSUME NEW b \in Uproc, Alive(b), NEW p \in Page
        PROVE  pte'[b][p] # fifoNext
    <3>1. CASE pte[b][p] = fifoNext
      <4>1. swapPool[fifoNext] = <<b, p>> /\ swapPool[fifoNext] # Free
        <5>1. swapPool[fifoNext] = <<b, p>>
          BY <1>0, <2>3, <3>1 DEF RecordedInv
        <5> QED BY <5>1 DEF Free
      <4>2. PICK c \in Uproc, q \in Page : swapPool[fifoNext] = <<c, q>> /\ MarkPageNotValid(c, q)
        BY <1>0, <1>4, <4>1, PgPickStep
      <4>3. c = b /\ q = p
        BY <4>1, <4>2
      <4> QED BY <1>0, <4>2, <4>3 DEF MarkPageNotValid
    <3>2. CASE pte[b][p] # fifoNext
      <4>1. \/ UNCHANGED pte
            \/ \E c \in Uproc, q \in Page : pte' = [pte EXCEPT ![c][q] = Invalid]
        BY <1>0, <1>4, PgPickStep DEF MarkPageNotValid
      <4>2. ASSUME NEW c \in Uproc, NEW q \in Page, pte' = [pte EXCEPT ![c][q] = Invalid]
            PROVE  pte'[b][p] # fifoNext
        BY <1>0, <3>2, <4>2
      <4> QED BY <3>2, <4>1, <4>2
    <3> QED BY <3>1, <3>2
  <2>4. \A x \in Uproc : Alive(x)' => Alive(x)
    BY <1>0, <2>1 DEF Alive
  <2>5. slot'[a] = fifoNext
    BY <1>0, <2>1
  <2> QED BY <2>2, <2>3, <2>4, <2>5 DEF HandInv
<1>5. ASSUME NEW a \in Uproc, PgMap(a) \/ PgFail(a)
      PROVE  HandInv'
  <2>1. pc[a] \in {"pg_map", "pg_fail"} /\ (pc' = [pc EXCEPT ![a] = "access"] \/ pc' = [pc EXCEPT ![a] = "die"])
    BY <1>5 DEF PgMap, PgFail
  <2>2. \A x \in Uproc : ~Busy(x)'
    BY <1>0, <2>1, HandOfOne, Outside DEF Busy
  <2> QED BY <2>2 DEF HandInv
<1>6. CASE Execute
  <2>1. PICK a \in Uproc \ {Shell} :
          /\ pc[a] = "none" /\ pte' = [pte EXCEPT ![a] = InvalidTable]
          /\ pc' = [pc EXCEPT ![Shell] = "execute", ![a] = "prog"]
    BY <1>6 DEF Execute, LaunchUproc
  <2>2. UNCHANGED slot /\ pc[Shell] = "prog"
    BY <1>6 DEF Execute, poolVars
  <2>3. \A x \in Uproc : /\ Busy(x)' => Busy(x)
                         /\ x # a => (Alive(x)' => Alive(x)) /\ pte'[x] = pte[x]
    BY <1>0, <2>1, <2>2, Outside DEF Busy, Alive
  <2>4. \A p \in Page : pte'[a][p] = Invalid
    BY <1>0, <2>1 DEF InvalidTable
  <2> QED BY <1>0, <2>2, <2>3, <2>4 DEF HandInv
<1>7. CASE TlbReplace
  BY <1>7, <1>a DEF TlbReplace, poolVars
<1> QED BY <1>0, <1>1, <1>2, <1>3, <1>4, <1>5, <1>6, <1>7, Kinds

(* A frame that is mapped stays recorded for its page.                     *)
LEMMA NextRecorded ==
  ASSUME PInv, [Next]_vars
  PROVE  RecordedInv'
<1> USE DEF At, Goto
<1>0. /\ IInv /\ HandInv /\ RecordedInv
      /\ pc \in [Process -> Labels] /\ \A a \in Uproc : a \in Process
      /\ Shell \in Uproc /\ \A a \in Uproc : ret[a] \in {"prog", "tx_send", "rx_next"}
      /\ Invalid \notin Frame
      /\ pte \in [Uproc -> [Page -> Frame \cup {Invalid}]]
      /\ slot \in [Uproc -> Frame] /\ swapPool \in [Frame -> {Free} \cup (Uproc \X Page)]
  BY Processes, Pages DEF PInv, IInv, SupportTypeOK
\* Steps that at most make an entry invalid, and start no program.
<1>a. ASSUME UNCHANGED swapPool,
             \A x \in Uproc, p \in Page : pte'[x][p] \in {pte[x][p], Invalid},
             \A x \in Uproc : pc[x] \in {"wake", "none"} => pc'[x] \in {"wake", "none"}
      PROVE  RecordedInv'
  <2>1. \A x \in Uproc : Alive(x)' => Alive(x)
    BY <1>a DEF Alive
  <2> QED BY <1>0, <1>a, <2>1 DEF RecordedInv
<1>1. CASE Quiet
  <2>1. \A x \in Uproc : pc[x] \in {"wake", "none"} => pc'[x] \in {"wake", "none"}
    BY <1>1, Outside DEF Quiet
  <2> QED BY <1>1, <1>a, <2>1 DEF Quiet, poolVars
<1>2. ASSUME NEW a \in Uproc, Store(a) \/ Refill(a) \/ Fault(a) \/ PgWrite(a) \/ PgRead(a) \/ PgFail(a)
      PROVE  RecordedInv'
  <2>1. UNCHANGED <<pte, swapPool>>
    BY <1>2 DEF Store, Refill, Fault, PgWrite, PgRead, PgFail, mmVars, poolVars
  <2>2. \A x \in Uproc : pc[x] \in {"wake", "none"} => pc'[x] \in {"wake", "none"}
    BY <1>0, <1>2 DEF Store, Refill, Fault, PgWrite, PgRead, PgFail
  <2> QED BY <1>a, <2>1, <2>2
<1>3. ASSUME NEW a \in Uproc, PgPick(a)
      PROVE  RecordedInv'
  <2>1. /\ UNCHANGED swapPool /\ pc[a] = "pg_pick" /\ \E l \in {"pg_read", "pg_write"} : Goto(a, l)
        /\ UNCHANGED pte \/ \E b \in Uproc, q \in Page : pte' = [pte EXCEPT ![b][q] = Invalid]
    BY <1>0, <1>3, PgPickStep DEF MarkPageNotValid
  <2>2. \A x \in Uproc, p \in Page : pte'[x][p] \in {pte[x][p], Invalid}
    <3>1. ASSUME NEW b \in Uproc, NEW q \in Page, pte' = [pte EXCEPT ![b][q] = Invalid],
                 NEW x \in Uproc, NEW p \in Page
          PROVE  pte'[x][p] \in {pte[x][p], Invalid}
      BY <1>0, <3>1
    <3> QED BY <2>1, <3>1
  <2>3. \A x \in Uproc : pc[x] \in {"wake", "none"} => pc'[x] \in {"wake", "none"}
    BY <1>0, <2>1
  <2> QED BY <1>a, <2>1, <2>2, <2>3
<1>4. ASSUME NEW a \in Uproc, PgMap(a)
      PROVE  RecordedInv'
  <2>0. PICK p \in Page : p = VpnToIndex(vpn[a])
    BY <1>0, <1>4, Pages, Outside DEF PgMap, IInv, PagerInv, SupportTypeOK
  <2>1. /\ pc[a] = "pg_map" /\ pc' = [pc EXCEPT ![a] = "access"]
        /\ swapPool' = [swapPool EXCEPT ![slot[a]] = <<a, p>>]
        /\ pte' = [pte EXCEPT ![a][p] = slot[a]]
    BY <1>4, <2>0 DEF PgMap, MarkPagePresent
  <2>2. \A x \in Uproc : Alive(x)' => Alive(x)
    BY <1>0, <2>1 DEF Alive
  <2>3. ASSUME NEW b \in Uproc, NEW q \in Page, Alive(b), pte'[b][q] \in Frame
        PROVE  swapPool'[pte'[b][q]] = <<b, q>>
    <3>1. CASE b = a /\ q = p
      BY <1>0, <2>1, <3>1
    <3>2. CASE ~(b = a /\ q = p)
      <4>1. pte'[b][q] = pte[b][q]
        BY <1>0, <2>1, <3>2
      <4>2. pte[b][q] # slot[a]
        BY <1>0, <2>1, <2>3, Outside DEF HandInv, Busy
      <4> QED BY <1>0, <2>1, <2>3, <4>1, <4>2 DEF RecordedInv
    <3> QED BY <3>1, <3>2
  <2> QED BY <2>2, <2>3 DEF RecordedInv
<1>5. ASSUME NEW a \in Uproc, FreeFrames(a)
      PROVE  RecordedInv'
  <2>1. /\ pc[a] = "free" /\ pc' = [pc EXCEPT ![a] = "wake"] /\ UNCHANGED pte
        /\ swapPool' = [i \in Frame |-> IF swapPool[i] # Free /\ swapPool[i][1] = a THEN Free ELSE swapPool[i]]
    BY <1>5 DEF FreeFrames, FreedFrames, mmVars
  <2>2. \A x \in Uproc : Alive(x)' => Alive(x) /\ x # a
    BY <1>0, <2>1 DEF Alive
  <2>3. \A i \in Frame, b \in Uproc, q \in Page : b # a /\ swapPool[i] = <<b, q>> => swapPool'[i] = <<b, q>>
    BY <2>1
  <2> QED BY <1>0, <2>1, <2>2, <2>3 DEF RecordedInv
<1>6. CASE Execute
  <2>1. PICK a \in Uproc \ {Shell} :
          /\ pte' = [pte EXCEPT ![a] = InvalidTable]
          /\ pc' = [pc EXCEPT ![Shell] = "execute", ![a] = "prog"]
    BY <1>6 DEF Execute, LaunchUproc
  <2>2. UNCHANGED swapPool /\ pc[Shell] = "prog"
    BY <1>6 DEF Execute, poolVars
  <2>3. \A x \in Uproc : x # a => (Alive(x)' => Alive(x)) /\ pte'[x] = pte[x]
    BY <1>0, <2>1, <2>2 DEF Alive
  <2>4. \A p \in Page : pte'[a][p] \notin Frame
    BY <1>0, <2>1 DEF InvalidTable
  <2> QED BY <1>0, <2>2, <2>3, <2>4 DEF RecordedInv
<1>7. CASE TlbReplace
  BY <1>7, <1>a DEF TlbReplace, poolVars
<1> QED BY <1>0, <1>1, <1>2, <1>3, <1>4, <1>5, <1>6, <1>7, Kinds

(* A page that is recorded stays mapped, until its frame is in hand again. *)
LEMMA NextMapped ==
  ASSUME TInv, [Next]_vars
  PROVE  MappedInv'
<1> USE DEF At, Goto
<1>0. /\ IInv /\ NoFail /\ MissingInv /\ MappedInv
      /\ pc \in [Process -> Labels] /\ \A a \in Uproc : a \in Process
      /\ Shell \in Uproc /\ \A a \in Uproc : ret[a] \in {"prog", "tx_send", "rx_next"}
      /\ fifoNext \in Frame /\ Invalid \notin Frame
      /\ pte \in [Uproc -> [Page -> Frame \cup {Invalid}]]
      /\ slot \in [Uproc -> Frame] /\ swapPool \in [Frame -> {Free} \cup (Uproc \X Page)]
  BY Processes, Pages DEF TInv, PInv, IInv, SupportTypeOK
\* Steps that change neither the tables nor who has which frame in hand.
<1>a. ASSUME UNCHANGED <<pte, slot, swapPool>>,
             \A x \in Uproc : pc'[x] \in InPager \ {"pg_pick"} <=> pc[x] \in InPager \ {"pg_pick"}
      PROVE  MappedInv'
  <2>1. \A i \in Frame : Working(i)' <=> Working(i)
    BY <1>a, WorkingIs DEF Busy
  <2> QED BY <1>0, <1>a, <2>1 DEF MappedInv
<1>1. CASE Quiet
  <2>1. \A x \in Uproc : pc'[x] \in InPager \ {"pg_pick"} <=> pc[x] \in InPager \ {"pg_pick"}
    BY <1>1, Outside DEF Quiet
  <2> QED BY <1>1, <1>a, <2>1 DEF Quiet, poolVars
<1>2. ASSUME NEW a \in Uproc, Store(a) \/ Refill(a) \/ Fault(a) \/ PgRead(a)
      PROVE  MappedInv'
  <2>1. UNCHANGED <<pte, slot, swapPool>>
    BY <1>2 DEF Store, Refill, Fault, PgRead, mmVars, poolVars
  <2>2. \A x \in Uproc : pc'[x] \in InPager \ {"pg_pick"} <=> pc[x] \in InPager \ {"pg_pick"}
    <3>1. "pg_fail" \in InPager /\ \A l \in {"prog", "tx_send", "rx_next", "access"} : l \notin InPager
      BY Outside DEF InPager
    <3> QED BY <1>0, <1>2, <3>1, Outside DEF Store, Refill, Fault, PgRead
  <2> QED BY <1>a, <2>1, <2>2
<1>3. ASSUME NEW a \in Uproc, PgWrite(a)
      PROVE  MappedInv'
  <2>1. UNCHANGED <<pte, slot, swapPool>> /\ pc[a] = "pg_write" /\ \E l \in {"pg_own", "pg_fail"} : Goto(a, l)
    BY <1>0, <1>3, PgWriteStep DEF poolVars
  <2>2. "pg_fail" \in InPager
    BY DEF InPager
  <2> QED BY <1>0, <1>a, <2>1, <2>2, Outside
<1>4. ASSUME NEW a \in Uproc, PgPick(a)
      PROVE  MappedInv'
  <2>1. /\ pc[a] = "pg_pick" /\ slot' = [slot EXCEPT ![a] = fifoNext] /\ UNCHANGED swapPool
        /\ \E l \in {"pg_read", "pg_write"} : Goto(a, l)
        /\ At(a, "pg_pick")
        /\ \/ UNCHANGED pte
           \/ \E b \in Uproc, q \in Page :
                swapPool[fifoNext] = <<b, q>> /\ pte' = [pte EXCEPT ![b][q] = Invalid]
    BY <1>0, <1>4, PgPickStep DEF MarkPageNotValid
  <2>2. \A i \in Frame : (i = fifoNext => Working(i)') /\ ~Working(i)
    <3>1. Busy(a)' /\ slot'[a] = fifoNext
      BY <1>0, <2>1, Outside DEF Busy
    <3>2. \A i \in Frame : i = fifoNext => Working(i)'
      BY <3>1, WorkingIs
    <3>3. \A i \in Frame : ~Working(i)
      BY <1>0, <2>1, WorkingIs, HandOfOne
    <3> QED BY <3>2, <3>3
  <2>4. ASSUME NEW i \in Frame, i # fifoNext, NEW b \in Uproc, NEW p \in Page, swapPool[i] = <<b, p>>
        PROVE  pte'[b][p] = i
    <3>1. ASSUME NEW c \in Uproc, NEW q \in Page, swapPool[fifoNext] = <<c, q>>,
                 pte' = [pte EXCEPT ![c][q] = Invalid]
          PROVE  pte'[b][p] = i
      <4>1. pte[c][q] = fifoNext
        BY <1>0, <2>2, <3>1 DEF MappedInv
      <4>2. pte[b][p] = i
        BY <1>0, <2>2, <2>4 DEF MappedInv
      <4> QED BY <1>0, <2>4, <3>1, <4>1, <4>2
    <3>2. CASE UNCHANGED pte
      BY <1>0, <2>2, <2>4, <3>2 DEF MappedInv
    <3> QED BY <2>1, <3>1, <3>2
  <2> QED BY <1>0, <2>1, <2>2, <2>4 DEF MappedInv
<1>5. ASSUME NEW a \in Uproc, PgMap(a)
      PROVE  MappedInv'
  <2>0. PICK p \in Page : p = VpnToIndex(vpn[a])
    BY <1>0, <1>5, Pages, Outside DEF PgMap, IInv, PagerInv, SupportTypeOK
  <2>1. /\ pc[a] = "pg_map" /\ pc' = [pc EXCEPT ![a] = "access"]
        /\ swapPool' = [swapPool EXCEPT ![slot[a]] = <<a, p>>]
        /\ pte' = [pte EXCEPT ![a][p] = slot[a]]
        /\ pte[a][p] = Invalid
    BY <1>0, <1>5, <2>0, Outside DEF PgMap, MarkPagePresent, MissingInv
  <2>2. Busy(a) /\ slot[a] \in Frame /\ \A i \in Frame : i # slot[a] => ~Working(i)
    BY <1>0, <2>1, HandOfOne, WorkingIs, Outside DEF Busy
  <2>3. ASSUME NEW i \in Frame, NEW b \in Uproc, NEW q \in Page, swapPool'[i] = <<b, q>>
        PROVE  pte'[b][q] = i
    <3>1. CASE i = slot[a]
      <4>1. b = a /\ q = p
        BY <1>0, <2>1, <2>3, <3>1
      <4> QED BY <1>0, <2>1, <3>1, <4>1
    <3>2. CASE i # slot[a]
      <4>1. swapPool[i] = <<b, q>> /\ pte[b][q] = i
        BY <1>0, <2>1, <2>2, <2>3, <3>2 DEF MappedInv
      <4>2. ~(b = a /\ q = p)
        BY <1>0, <2>1, <4>1
      <4> QED BY <1>0, <2>1, <4>1, <4>2
    <3> QED BY <3>1, <3>2
  <2> QED BY <2>3 DEF MappedInv
<1>6. ASSUME NEW a \in Uproc, FreeFrames(a)
      PROVE  MappedInv'
  <2>1. /\ At(a, "free") /\ pc' = [pc EXCEPT ![a] = "wake"] /\ UNCHANGED pte
        /\ swapPool' = [i \in Frame |-> IF swapPool[i] # Free /\ swapPool[i][1] = a THEN Free ELSE swapPool[i]]
    BY <1>6 DEF FreeFrames, FreedFrames, mmVars
  <2>2. \A i \in Frame : ~Working(i)
    BY <2>1, HandOfOne, WorkingIs, <1>0
  <2>3. ASSUME NEW i \in Frame, NEW b \in Uproc, NEW p \in Page, swapPool'[i] = <<b, p>>
        PROVE  swapPool[i] = <<b, p>>
    <3>1. <<b, p>> # Free
      BY DEF Free
    <3>2. swapPool'[i] = IF swapPool[i] # Free /\ swapPool[i][1] = a THEN Free ELSE swapPool[i]
      BY <2>1
    <3> QED BY <2>3, <3>1, <3>2
  <2> QED BY <1>0, <2>1, <2>2, <2>3 DEF MappedInv
<1>7. CASE Execute
  <2>1. PICK a \in Uproc \ {Shell} :
          /\ pc[a] = "none" /\ pte' = [pte EXCEPT ![a] = InvalidTable]
          /\ pc' = [pc EXCEPT ![Shell] = "execute", ![a] = "prog"]
    BY <1>7 DEF Execute, LaunchUproc
  <2>2. UNCHANGED <<slot, swapPool>> /\ pc[Shell] = "prog"
    BY <1>7 DEF Execute, poolVars
  <2>3. \A x \in Uproc : (Busy(x)' <=> Busy(x)) /\ (x # a => pte'[x] = pte[x])
    BY <1>0, <2>1, <2>2, Outside DEF Busy
  <2>4. \A i \in Frame : Working(i)' <=> Working(i)
    BY <2>2, <2>3, WorkingIs
  <2>5. \A p \in Page, i \in Frame : swapPool[i] # <<a, p>>
    BY <1>0, <2>1 DEF IInv, OwnInv, Alive, Free
  <2> QED BY <1>0, <2>2, <2>3, <2>4, <2>5 DEF MappedInv
<1>8. CASE TlbReplace
  BY <1>8, <1>a DEF TlbReplace, poolVars
<1> QED BY <1>0, <1>1, <1>2, <1>3, <1>4, <1>5, <1>6, <1>7, <1>8, CleanKinds

(* At the start no page is in a frame.                                     *)
LEMMA InitPInv == Init => PInv
<1> SUFFICES ASSUME Init
             PROVE  PInv
  OBVIOUS
<1>0. IInv /\ \A a \in Uproc : a \in Process /\ a # Instantiator
  BY InitIInv, Processes
<1>1. /\ \A a \in Uproc : pc[a] \in {"prog", "none"}
      /\ tlb = TlbClear /\ pte = [a \in Uproc |-> InvalidTable]
  BY <1>0 DEF Init, PagerInit
<1>2. \A a \in Uproc : pc[a] \notin InPager
  BY <1>1, Outside
<1>3. \A a \in Uproc, p \in Page : pte[a][p] = Invalid
  BY <1>1 DEF InvalidTable
<1>4. MissingInv /\ HandInv /\ RecordedInv
  BY <1>1, <1>2, <1>3, Pages DEF MissingInv, HandInv, RecordedInv, Busy, TlbClear
<1> QED BY <1>0, <1>4 DEF PInv

(* So every step keeps the pager in order, errors or not.                  *)
LEMMA NextPInv == PInv /\ [Next]_vars => PInv'
<1> SUFFICES ASSUME PInv, [Next]_vars
             PROVE  PInv'
  OBVIOUS
<1>1. IInv'
  BY NextIInv DEF PInv
<1> QED BY <1>1, NextMissing, NextHand, NextRecorded DEF PInv

(* However faults, evictions, errors, launches and terminations            *)
(* interleave: an entry found invalid stays so until the pager brings the  *)
(* page in, the frame it has in hand is mapped for nobody, and a frame     *)
(* that is mapped is recorded for its page.                                *)
THEOREM PagerInvariant == Spec => []PInv
<1> QED BY InitPInv, NextPInv, PTL DEF Spec

(* Errors or not, and however often programs are launched: no frame is     *)
(* mapped for two pages, of one program or of two.                         *)
THEOREM FramesApart == Spec => []FrameOfOne
<1>1. PInv => FrameOfOne
  BY DEF PInv, RecordedInv, FrameOfOne
<1> QED BY <1>1, PagerInvariant, PTL

(* The same without errors.                                                *)
LEMMA InitTInv == Init => TInv
<1> SUFFICES ASSUME Init
             PROVE  TInv
  OBVIOUS
<1>0. PInv /\ \A a \in Uproc : a \in Process /\ a # Instantiator
  BY InitPInv, Processes
<1>1. /\ \A a \in Uproc : pc[a] \in {"prog", "none"}
      /\ \A s \in Sem : queue[s] = <<>> /\ sem[s] = IF s \in Mutex THEN 1 ELSE 0
      /\ swapPool = [i \in Frame |-> Free]
  BY <1>0 DEF Init, PagerInit, InitSwapStructs
<1>2. \A a \in Uproc : ~Holds(a, Tx) /\ ~Holds(a, Rx)
  BY <1>1, HoldsTerminal, Outside
<1>3. NoFail
  BY <1>1 DEF NoFail
<1>4. TerminalInv
  <2>1. Len(<<>>) = 0
    OBVIOUS
  <2>2. ASSUME NEW s \in {Tx, Rx}
        PROVE  MutexOk(s)
    <3>1. Inside(s) = {} /\ sem[s] = 1 /\ queue[s] = <<>>
      BY <1>1, <1>2, Semaphores DEF Inside, Mutex
    <3> QED BY <2>1, <3>1 DEF MutexOk
  <2> QED BY <2>2 DEF TerminalInv
<1>5. MappedInv
  BY <1>1 DEF MappedInv, Free
<1> QED BY <1>0, <1>3, <1>4, <1>5 DEF TInv

(* Every step that ends without an error keeps all of it.                  *)
LEMMA NextTInv ==
  ASSUME FlashErrors = FALSE
  PROVE  TInv /\ [Next]_vars => TInv'
<1> SUFFICES ASSUME TInv, [Next]_vars
             PROVE  TInv'
  OBVIOUS
<1>1. PInv /\ IInv /\ NoFail /\ TerminalInv
  BY DEF TInv, PInv
<1>2. PInv'
  BY <1>1, NextPInv
<1>3. NoFail' /\ TerminalInv'
  BY <1>1, NextNoFail, NextTerminal
<1>4. MappedInv'
  BY NextMapped
<1> QED BY <1>2, <1>3, <1>4 DEF TInv

(* Without errors, also: nobody gets to the way out of the pager, the page *)
(* a frame is recorded for is in it, and the mutexes of the terminal are   *)
(* in order.                                                               *)
THEOREM TablesInvariant ==
  ASSUME FlashErrors = FALSE
  PROVE  Spec => []TInv
<1>1. TInv /\ [Next]_vars => TInv'
  BY NextTInv
<1> QED BY <1>1, InitTInv, PTL DEF Spec

(* A process that faults within a terminal operation, waits for the pool   *)
(* and comes back has the mutex of the terminal still, and gives it back   *)
(* once.  (After a flash error it never does.)                             *)
THEOREM TerminalMutexesHold ==
  ASSUME FlashErrors = FALSE
  PROVE  Spec => []TerminalMutexes
<1>1. TInv => TerminalMutexes
  BY BalancedMutex DEF TInv, TerminalInv, TerminalMutexes
<1> QED BY <1>1, TablesInvariant, PTL

(* Wherever other programs fault, are evicted, launched or terminated in   *)
(* between, the frame recorded for a page is the one its entry maps.       *)
THEOREM TablesAgree ==
  ASSUME FlashErrors = FALSE
  PROVE  Spec => []TableAgrees
<1>1. TInv => TableAgrees
  BY DEF TInv, PInv, RecordedInv, MappedInv, TableAgrees
<1> QED BY <1>1, TablesInvariant, PTL

(* The TLB, of programs that run for the first time.                       *)

(* The TLB knows nothing of a program that was never launched.             *)
FreshInv ==
  \A a \in Uproc : lives[a] = 0 => ~Alive(a) /\ \A v \in Vpn : tlb[a][v] = Absent

(* The TLB says of a program in its first life what its table does.        *)
FirstLife ==
  \A a \in Uproc, p \in Page :
    Alive(a) /\ lives[a] <= 1 => tlb[a][EntryVpn(p)] \in {Absent, pte[a][p]}

TlbInv == IInv /\ FreshInv /\ FirstLife

(* Nothing gets into the TLB for a program before its launch.              *)
LEMMA NextFresh ==
  ASSUME TlbInv, [Next]_vars
  PROVE  FreshInv'
<1> USE DEF At, Goto, mmVars
<1>0. /\ IInv /\ FreshInv
      /\ pc \in [Process -> Labels] /\ \A a \in Uproc : a \in Process
      /\ Shell \in Uproc /\ \A a \in Uproc : ret[a] \in {"prog", "tx_send", "rx_next"}
      /\ tlb \in [Uproc -> [Vpn -> Frame \cup {Invalid, Absent}]]
      /\ lives \in [Uproc -> 0 .. MaxLives]
  BY Processes DEF TlbInv, IInv, SupportTypeOK
\* Steps that fill no entry of the TLB and start no program.
<1>a. ASSUME UNCHANGED lives,
             \A x \in Uproc : pc[x] \in {"wake", "none"} => pc'[x] \in {"wake", "none"},
             \A x \in Uproc, v \in Vpn : tlb'[x][v] \in {tlb[x][v], Absent}
      PROVE  FreshInv'
  BY <1>0, <1>a DEF FreshInv, Alive
<1>1. CASE Quiet
  <2>1. \A x \in Uproc : pc[x] \in {"wake", "none"} => pc'[x] \in {"wake", "none"}
    BY <1>1, Outside DEF Quiet
  <2> QED BY <1>1, <1>a, <2>1 DEF Quiet
<1>2. ASSUME NEW a \in Uproc, UNCHANGED lives, Store(a) \/ Fault(a) \/ PgWrite(a) \/ PgRead(a) \/ PgFail(a)
      PROVE  FreshInv'
  <2>1. UNCHANGED tlb
    BY <1>2 DEF Store, Fault, PgWrite, PgRead, PgFail
  <2>2. \A x \in Uproc : pc[x] \in {"wake", "none"} => pc'[x] \in {"wake", "none"}
    BY <1>0, <1>2 DEF Store, Fault, PgWrite, PgRead, PgFail
  <2> QED BY <1>2, <1>a, <2>1, <2>2
<1>3. ASSUME NEW a \in Uproc, UNCHANGED lives, PgPick(a)
      PROVE  FreshInv'
  <2>1. /\ pc[a] = "pg_pick" /\ \E l \in {"pg_read", "pg_write"} : Goto(a, l)
        /\ tlb' = tlb \/ tlb' = TlbClear
    BY <1>0, <1>3, PgPickStep DEF MarkPageNotValid
  <2>2. \A x \in Uproc, v \in Vpn : tlb'[x][v] \in {tlb[x][v], Absent}
    BY <2>1 DEF TlbClear
  <2>3. \A x \in Uproc : pc[x] \in {"wake", "none"} => pc'[x] \in {"wake", "none"}
    BY <1>0, <2>1
  <2> QED BY <1>3, <1>a, <2>2, <2>3
<1>4. ASSUME NEW a \in Uproc, UNCHANGED lives, Refill(a)
      PROVE  FreshInv'
  <2>1. lives[a] # 0 /\ UNCHANGED pc /\ \A x \in Uproc : x # a => tlb'[x] = tlb[x]
    BY <1>0, <1>4 DEF Refill, FreshInv, Alive
  <2> QED BY <1>0, <1>4, <2>1 DEF FreshInv, Alive
<1>5. ASSUME NEW a \in Uproc, UNCHANGED lives, PgMap(a)
      PROVE  FreshInv'
  <2>1. /\ pc[a] = "pg_map" /\ pc' = [pc EXCEPT ![a] = "access"]
        /\ tlb' = [TlbClear EXCEPT ![a][EntryVpn(VpnToIndex(vpn[a]))] = slot[a]]
    BY <1>5 DEF PgMap, MarkPagePresent
  <2>2. lives[a] # 0
    BY <2>1, <1>0 DEF FreshInv, Alive
  <2>3. \A x \in Uproc, v \in Vpn : x # a => tlb'[x][v] = Absent
    BY <2>1 DEF TlbClear
  <2> QED BY <1>0, <1>5, <2>1, <2>2, <2>3 DEF FreshInv, Alive
<1>6. ASSUME NEW a \in Uproc, FreeFrames(a)
      PROVE  FreshInv'
  <2>1. UNCHANGED <<tlb, lives>> /\ pc[a] = "free" /\ pc' = [pc EXCEPT ![a] = "wake"]
    BY <1>6 DEF FreeFrames
  <2> QED BY <1>0, <1>a, <2>1
<1>7. CASE Execute
  <2>1. PICK a \in Uproc \ {Shell} :
          /\ lives' = [lives EXCEPT ![a] = @ + 1]
          /\ pc' = [pc EXCEPT ![Shell] = "execute", ![a] = "prog"]
    BY <1>7 DEF Execute, LaunchUproc
  <2>2. UNCHANGED tlb /\ pc[Shell] = "prog"
    BY <1>7 DEF Execute
  <2>3. lives[a] \in Nat /\ lives'[a] # 0 /\ lives[Shell] # 0
    BY <1>0, <2>1, <2>2 DEF FreshInv, Alive
  <2>4. \A x \in Uproc : x # a => lives'[x] = lives[x]
    BY <1>0, <2>1
  <2>5. \A x \in Uproc : x # a /\ x # Shell => pc'[x] = pc[x]
    BY <1>0, <2>1
  <2> QED BY <1>0, <2>2, <2>3, <2>4, <2>5 DEF FreshInv, Alive
<1>8. CASE TlbReplace /\ UNCHANGED lives
  <2>1. UNCHANGED pc /\ \A x \in Uproc, v \in Vpn : tlb'[x][v] \in {tlb[x][v], Absent}
    BY <1>0, <1>8 DEF TlbReplace
  <2> QED BY <1>a, <1>8, <2>1
<1> QED BY <1>0, <1>1, <1>2, <1>3, <1>4, <1>5, <1>6, <1>7, <1>8, Kinds

(* No step leaves a translation of a program in its first life in the TLB  *)
(* that its page table has no longer.                                      *)
LEMMA NextTlb ==
  ASSUME TlbInv, [Next]_vars
  PROVE  FirstLife'
<1> USE DEF At, Goto, mmVars
<1>0. /\ IInv /\ FreshInv /\ FirstLife
      /\ pc \in [Process -> Labels] /\ \A a \in Uproc : a \in Process
      /\ Shell \in Uproc /\ \A a \in Uproc : ret[a] \in {"prog", "tx_send", "rx_next"}
      /\ vpn \in [Uproc -> Vpn]
      /\ pte \in [Uproc -> [Page -> Frame \cup {Invalid}]]
      /\ tlb \in [Uproc -> [Vpn -> Frame \cup {Invalid, Absent}]]
      /\ lives \in [Uproc -> 0 .. MaxLives]
  BY Processes DEF TlbInv, IInv, SupportTypeOK
\* Steps that only remove entries of the TLB and start no program.
<1>a. ASSUME UNCHANGED <<pte, lives>>,
             \A x \in Uproc : pc[x] \in {"wake", "none"} => pc'[x] \in {"wake", "none"},
             \A x \in Uproc, v \in Vpn : tlb'[x][v] \in {tlb[x][v], Absent}
      PROVE  FirstLife'
  BY <1>0, <1>a, Pages DEF FirstLife, Alive
<1>1. CASE Quiet
  <2>1. \A x \in Uproc : pc[x] \in {"wake", "none"} => pc'[x] \in {"wake", "none"}
    BY <1>1, Outside DEF Quiet
  <2> QED BY <1>1, <1>a, <2>1 DEF Quiet
<1>2. ASSUME NEW a \in Uproc, UNCHANGED lives,
             Store(a) \/ Fault(a) \/ PgWrite(a) \/ PgRead(a) \/ PgFail(a) \/ FreeFrames(a)
      PROVE  FirstLife'
  <2>1. UNCHANGED <<tlb, pte>>
    BY <1>2 DEF Store, Fault, PgWrite, PgRead, PgFail, FreeFrames
  <2>2. \A x \in Uproc : pc[x] \in {"wake", "none"} => pc'[x] \in {"wake", "none"}
    BY <1>0, <1>2 DEF Store, Fault, PgWrite, PgRead, PgFail, FreeFrames
  <2> QED BY <1>2, <1>a, <2>1, <2>2
<1>3. ASSUME NEW a \in Uproc, UNCHANGED lives, PgPick(a)
      PROVE  FirstLife'
  <2>1. /\ pc[a] = "pg_pick" /\ \E l \in {"pg_read", "pg_write"} : Goto(a, l)
        /\ UNCHANGED <<tlb, pte>> \/ tlb' = TlbClear
    BY <1>0, <1>3, PgPickStep DEF MarkPageNotValid
  <2>2. \A x \in Uproc : pc[x] \in {"wake", "none"} => pc'[x] \in {"wake", "none"}
    BY <1>0, <2>1
  <2>3. CASE tlb' = TlbClear
    BY <2>3, Pages DEF FirstLife, TlbClear
  <2>4. CASE UNCHANGED <<tlb, pte>>
    BY <1>3, <1>a, <2>2, <2>4
  <2> QED BY <2>1, <2>3, <2>4
<1>4. ASSUME NEW a \in Uproc, UNCHANGED lives, Refill(a)
      PROVE  FirstLife'
  <2>0. PICK q \in Page : q = RefillIndex(vpn[a])
    BY <1>0, Pages
  <2>1. tlb' = [tlb EXCEPT ![a][EntryVpn(q)] = pte[a][q]] /\ UNCHANGED <<pc, pte>>
    BY <1>4, <2>0 DEF Refill
  <2>2. ASSUME NEW x \in Uproc, NEW p \in Page, Alive(x), lives[x] <= 1
        PROVE  tlb'[x][EntryVpn(p)] \in {Absent, pte[x][p]}
    <3>1. CASE x = a /\ p = q
      BY <1>0, <2>1, <3>1, Pages
    <3>2. CASE ~(x = a /\ p = q)
      <4>1. x = a => EntryVpn(p) # EntryVpn(q)
        BY <3>2, Pages
      <4>2. tlb'[x][EntryVpn(p)] = tlb[x][EntryVpn(p)]
        BY <1>0, <2>1, <4>1
      <4> QED BY <1>0, <2>2, <4>2 DEF FirstLife
    <3> QED BY <3>1, <3>2
  <2> QED BY <1>4, <2>1, <2>2 DEF FirstLife, Alive
<1>5. ASSUME NEW a \in Uproc, UNCHANGED lives, PgMap(a)
      PROVE  FirstLife'
  <2>0. PICK q \in Page : q = VpnToIndex(vpn[a])
    BY <1>0, <1>5, Pages, Outside DEF PgMap, IInv, PagerInv, SupportTypeOK
  <2>1. /\ tlb' = [TlbClear EXCEPT ![a][EntryVpn(q)] = slot[a]]
        /\ pte' = [pte EXCEPT ![a][q] = slot[a]]
    BY <1>5, <2>0 DEF PgMap, MarkPagePresent
  <2>2. ASSUME NEW x \in Uproc, NEW p \in Page
        PROVE  tlb'[x][EntryVpn(p)] \in {Absent, pte'[x][p]}
    <3>1. CASE x = a /\ p = q
      BY <1>0, <2>1, <3>1, Pages DEF TlbClear
    <3>2. CASE ~(x = a /\ p = q)
      <4>1. x = a => EntryVpn(p) # EntryVpn(q)
        BY <3>2, Pages
      <4>2. tlb'[x][EntryVpn(p)] = Absent
        BY <2>1, <4>1, Pages DEF TlbClear
      <4> QED BY <4>2
    <3> QED BY <3>1, <3>2
  <2> QED BY <2>2 DEF FirstLife
<1>6. CASE Execute
  <2>1. PICK a \in Uproc \ {Shell} :
          /\ lives' = [lives EXCEPT ![a] = @ + 1] /\ pte' = [pte EXCEPT ![a] = InvalidTable]
          /\ pc' = [pc EXCEPT ![Shell] = "execute", ![a] = "prog"]
    BY <1>6 DEF Execute, LaunchUproc
  <2>2. UNCHANGED tlb /\ pc[Shell] = "prog"
    BY <1>6 DEF Execute
  <2>3. lives'[a] <= 1 => lives[a] = 0
    <3>1. lives[a] \in Nat /\ lives'[a] = lives[a] + 1
      BY <1>0, <2>1
    <3> QED BY <3>1
  <2>4. lives'[a] <= 1 => \A v \in Vpn : tlb[a][v] = Absent
    BY <1>0, <2>3 DEF FreshInv
  <2>5. \A x \in Uproc : x # a => pte'[x] = pte[x] /\ lives'[x] = lives[x] /\ (Alive(x)' => Alive(x))
    BY <1>0, <2>1, <2>2 DEF Alive
  <2> QED BY <1>0, <2>2, <2>4, <2>5, Pages DEF FirstLife
<1>7. CASE TlbReplace /\ UNCHANGED lives
  <2>1. UNCHANGED <<pc, pte>> /\ \A x \in Uproc, v \in Vpn : tlb'[x][v] \in {tlb[x][v], Absent}
    BY <1>0, <1>7 DEF TlbReplace
  <2> QED BY <1>7, <1>a, <2>1
<1>8. \A a \in Uproc : FreeFrames(a) => UNCHANGED lives
  BY DEF FreeFrames
<1> QED BY <1>0, <1>1, <1>2, <1>3, <1>4, <1>5, <1>6, <1>7, <1>8, Kinds

(* At the start the TLB is empty.                                          *)
LEMMA InitTlbInv == Init => TlbInv
<1> SUFFICES ASSUME Init
             PROVE  TlbInv
  OBVIOUS
<1>1. IInv /\ \A a \in Uproc : a \in Process /\ a # Instantiator
  BY InitIInv, Processes
<1>2. \A a \in Uproc, v \in Vpn : tlb[a][v] = Absent
  BY DEF Init, PagerInit, TlbClear
<1>3. \A a \in Uproc : lives[a] = 0 => pc[a] = "none"
  BY <1>1 DEF Init, PagerInit
<1>4. FreshInv /\ FirstLife
  BY <1>2, <1>3, Pages DEF FreshInv, FirstLife, Alive
<1> QED BY <1>1, <1>4 DEF TlbInv

(* Every step keeps the TLB right.                                         *)
LEMMA NextTlbInv == TlbInv /\ [Next]_vars => TlbInv'
<1> SUFFICES ASSUME TlbInv, [Next]_vars
             PROVE  TlbInv'
  OBVIOUS
<1>1. IInv /\ IInv'
  BY NextIInv DEF TlbInv
<1> QED BY <1>1, NextFresh, NextTlb DEF TlbInv

(* Whatever is evicted, refilled and brought in, and whether or not the    *)
(* flash devices fail, the TLB keeps no translation of a program in its    *)
(* first life that its page table has no longer.                           *)
THEOREM FirstLifeTlb == Spec => []FirstLife
<1>1. TlbInv => FirstLife
  BY DEF TlbInv
<1> QED BY <1>1, InitTlbInv, NextTlbInv, PTL DEF Spec

(* The TLB agrees with the page tables if no ASID is launched twice.       *)
THEOREM TlbAgreesWithTables ==
  ASSUME MaxLives = 1
  PROVE  Spec => []TlbAgrees
<1>1. ASSUME SupportTypeOK, FirstLife
      PROVE  TlbAgrees
  <2>1. \A a \in Uproc : lives[a] \in 0 .. 1
    BY <1>1 DEF SupportTypeOK
  <2>2. \A a \in Uproc : lives[a] <= 1
    BY <2>1
  <2> QED BY <1>1, <2>2 DEF FirstLife, TlbAgrees
<1> QED BY <1>1, SupportTypes, FirstLifeTlb, PTL

-----------------------------------------------------------------------------
(* The contents of pages, without errors and second launches.              *)

(* What may be in a page.                                                  *)
OwnContent(a, p) == {<<a, p, x>> : x \in Val}

(* The page last in the frame in hand is in no frame.                      *)
VictimInv ==
  \A x \in Uproc : Busy(x) =>
    \A b \in Uproc, p \in Page : swapPool[slot[x]] = <<b, p>> => pte[b][p] = Invalid

(* Contents are where they belong: on the flash devices, in the frames     *)
(* that are mapped, in the frame that is written out, and in the frame     *)
(* that was read.                                                          *)
DataInv ==
  /\ \A a \in Uproc, p \in Page :
       /\ flash[a][p] \in OwnContent(a, p)
       /\ Alive(a) /\ pte[a][p] \in Frame => ram[pte[a][p]] \in OwnContent(a, p)
  /\ \A x \in Uproc :
       /\ pc[x] = "pg_write" =>
            \A b \in Uproc, p \in Page : swapPool[slot[x]] = <<b, p>> => ram[slot[x]] \in OwnContent(b, p)
       /\ pc[x] = "pg_map" => ram[slot[x]] = flash[x][VpnToIndex(vpn[x])]

RInv == TInv /\ TlbAgrees /\ VictimInv /\ DataInv

(* A page that is evicted stays out of frames until its contents are on    *)
(* flash.                                                                  *)
LEMMA NextVictim ==
  ASSUME FlashErrors = FALSE, RInv, [Next]_vars
  PROVE  VictimInv'
<1> USE DEF At, Goto
<1>0. /\ IInv /\ NoFail /\ VictimInv
      /\ pc \in [Process -> Labels] /\ \A a \in Uproc : a \in Process
      /\ Shell \in Uproc /\ \A a \in Uproc : ret[a] \in {"prog", "tx_send", "rx_next"}
      /\ fifoNext \in Frame
      /\ pte \in [Uproc -> [Page -> Frame \cup {Invalid}]]
      /\ slot \in [Uproc -> Frame] /\ swapPool \in [Frame -> {Free} \cup (Uproc \X Page)]
  BY Processes DEF RInv, TInv, PInv, IInv, SupportTypeOK
\* Steps after which who has a frame in hand had it.
<1>a. ASSUME UNCHANGED <<slot, swapPool>>,
             \A x \in Uproc, p \in Page : pte'[x][p] \in {pte[x][p], Invalid},
             \A x \in Uproc : pc'[x] \in InPager \ {"pg_pick"} => pc[x] \in InPager \ {"pg_pick"}
      PROVE  VictimInv'
  BY <1>0, <1>a DEF VictimInv, Busy
<1>1. CASE Quiet
  <2>1. \A x \in Uproc : pc'[x] \in InPager \ {"pg_pick"} => pc[x] \in InPager \ {"pg_pick"}
    BY <1>1, Outside DEF Quiet
  <2> QED BY <1>1, <1>a, <2>1 DEF Quiet, poolVars
<1>2. ASSUME NEW a \in Uproc, Store(a) \/ Refill(a) \/ Fault(a) \/ PgWrite(a) \/ PgRead(a)
      PROVE  VictimInv'
  <2>1. UNCHANGED <<pte, slot, swapPool>>
    BY <1>2 DEF Store, Refill, Fault, PgWrite, PgRead, mmVars, poolVars
  <2>2. \A x \in Uproc : pc'[x] \in InPager \ {"pg_pick"} => pc[x] \in InPager \ {"pg_pick"}
    BY <1>0, <1>2, Outside DEF Store, Refill, Fault, PgWrite, PgRead
  <2> QED BY <1>a, <2>1, <2>2
<1>3. ASSUME NEW a \in Uproc, PgPick(a)
      PROVE  VictimInv'
  <2>1. /\ pc[a] = "pg_pick" /\ slot' = [slot EXCEPT ![a] = fifoNext] /\ UNCHANGED swapPool
        /\ \E l \in {"pg_read", "pg_write"} : Goto(a, l)
        /\ At(a, "pg_pick")
        /\ \/ swapPool[fifoNext] = Free
           \/ \E b \in Uproc, q \in Page :
                swapPool[fifoNext] = <<b, q>> /\ pte' = [pte EXCEPT ![b][q] = Invalid]
    BY <1>0, <1>3, PgPickStep DEF MarkPageNotValid
  <2>2. \A x \in Uproc : Busy(x)' => x = a
    BY <1>0, <2>1, HandOfOne DEF Busy
  <2>3. ASSUME NEW b \in Uproc, NEW p \in Page, swapPool[fifoNext] = <<b, p>>
        PROVE  pte'[b][p] = Invalid
    <3>1. swapPool[fifoNext] # Free
      BY <2>3 DEF Free
    <3>2. PICK c \in Uproc, q \in Page :
            swapPool[fifoNext] = <<c, q>> /\ pte' = [pte EXCEPT ![c][q] = Invalid]
      BY <2>1, <3>1
    <3>3. c = b /\ q = p
      BY <2>3, <3>2
    <3> QED BY <1>0, <3>2, <3>3
  <2>4. slot'[a] = fifoNext
    BY <1>0, <2>1
  <2> QED BY <2>1, <2>2, <2>3, <2>4 DEF VictimInv
<1>4. ASSUME NEW a \in Uproc, PgMap(a)
      PROVE  VictimInv'
  <2>1. pc[a] = "pg_map" /\ pc' = [pc EXCEPT ![a] = "access"]
    BY <1>4 DEF PgMap
  <2>2. \A x \in Uproc : ~Busy(x)'
    BY <1>0, <2>1, HandOfOne, Outside DEF Busy
  <2> QED BY <2>2 DEF VictimInv
<1>5. ASSUME NEW a \in Uproc, FreeFrames(a)
      PROVE  VictimInv'
  <2>1. At(a, "free") /\ pc' = [pc EXCEPT ![a] = "wake"]
    BY <1>5 DEF FreeFrames
  <2>2. \A x \in Uproc : ~Busy(x)'
    BY <1>0, <2>1, HandOfOne, Outside DEF Busy
  <2> QED BY <2>2 DEF VictimInv
<1>6. CASE Execute
  <2>1. PICK a \in Uproc \ {Shell} :
          /\ pte' = [pte EXCEPT ![a] = InvalidTable]
          /\ pc' = [pc EXCEPT ![Shell] = "execute", ![a] = "prog"]
    BY <1>6 DEF Execute, LaunchUproc
  <2>2. UNCHANGED <<slot, swapPool>>
    BY <1>6 DEF Execute, poolVars
  <2>3. \A x \in Uproc : pc'[x] \in InPager \ {"pg_pick"} => pc[x] \in InPager \ {"pg_pick"}
    BY <1>0, <2>1, Outside
  <2>4. \A x \in Uproc, p \in Page : pte'[x][p] \in {pte[x][p], Invalid}
    BY <1>0, <2>1 DEF InvalidTable
  <2> QED BY <1>a, <2>2, <2>3, <2>4
<1>7. CASE TlbReplace
  BY <1>7, <1>a DEF TlbReplace, poolVars
<1> QED BY <1>0, <1>1, <1>2, <1>3, <1>4, <1>5, <1>6, <1>7, CleanKinds

(* Where a store goes: the frame its page is in, which is in nobody's hand *)
(* and mapped for no other page of a program.                              *)
LEMMA StoreStep ==
  ASSUME RInv, NEW a \in Uproc, Load(a) \/ Store(a)
  PROVE  \E p \in Page, i \in Frame :
           /\ VpnToIndex(vpn[a]) = p /\ tlb[a][vpn[a]] = i /\ pte[a][p] = i /\ Alive(a)
           /\ \A x \in Uproc : Busy(x) => slot[x] # i
           /\ \A b \in Uproc, q \in Page : Alive(b) /\ pte[b][q] = i => b = a /\ q = p
<1>0. IInv /\ PInv /\ vpn[a] \in Vpn /\ pc[a] = "access" /\ tlb[a][vpn[a]] \in Frame
  BY DEF RInv, TInv, PInv, IInv, SupportTypeOK, Load, Store, At
<1>1. vpn[a] # HoleVpn
  BY <1>0, Pages DEF IInv, PagerInv
<1>2. PICK p \in Page : VpnToIndex(vpn[a]) = p /\ EntryVpn(p) = vpn[a]
  BY <1>0, <1>1, Pages
<1>3. Alive(a)
  BY <1>0 DEF Alive
<1>4. PICK i \in Frame : tlb[a][vpn[a]] = i
  BY <1>0
<1>5. pte[a][p] = i
  BY <1>2, <1>3, <1>4, Pages DEF RInv, TlbAgrees
<1>6. \A x \in Uproc : Busy(x) => slot[x] # i
  BY <1>0, <1>3, <1>5 DEF PInv, HandInv
<1>7. \A b \in Uproc, q \in Page : Alive(b) /\ pte[b][q] = i => b = a /\ q = p
  BY <1>0, <1>3, <1>5 DEF PInv, RecordedInv
<1> QED BY <1>2, <1>3, <1>4, <1>5, <1>6, <1>7

(* No step puts contents where they do not belong.                         *)
LEMMA NextData ==
  ASSUME FlashErrors = FALSE, RInv, [Next]_vars
  PROVE  DataInv'
<1> USE DEF At, Goto
<1>0. /\ IInv /\ NoFail /\ HandInv /\ MappedInv /\ DataInv
      /\ pc \in [Process -> Labels] /\ \A a \in Uproc : a \in Process
      /\ Shell \in Uproc /\ \A a \in Uproc : ret[a] \in {"prog", "tx_send", "rx_next"}
      /\ fifoNext \in Frame /\ Invalid \notin Frame
      /\ pte \in [Uproc -> [Page -> Frame \cup {Invalid}]]
      /\ flash \in [Uproc -> [Page -> Content]] /\ ram \in [Frame -> Content \cup {Blank}]
      /\ slot \in [Uproc -> Frame] /\ swapPool \in [Frame -> {Free} \cup (Uproc \X Page)]
  BY Processes, Pages DEF RInv, TInv, PInv, IInv, SupportTypeOK
\* Steps that move no contents and take no frame in hand.
<1>a. ASSUME UNCHANGED <<slot, swapPool, ram, flash>>,
             \A x \in Uproc, p \in Page : pte'[x][p] \in {pte[x][p], Invalid},
             \A x \in Uproc : pc[x] \in {"wake", "none"} => pc'[x] \in {"wake", "none"},
             \A x \in Uproc : \/ pc'[x] = pc[x] /\ vpn'[x] = vpn[x]
                              \/ pc'[x] \notin {"pg_write", "pg_map"}
      PROVE  DataInv'
  <2>1. \A x \in Uproc : Alive(x)' => Alive(x)
    BY <1>a DEF Alive
  <2>2. \A a \in Uproc, p \in Page :
          /\ flash'[a][p] \in OwnContent(a, p)
          /\ Alive(a)' /\ pte'[a][p] \in Frame => ram'[pte'[a][p]] \in OwnContent(a, p)
    BY <1>0, <1>a, <2>1 DEF DataInv
  <2>3. \A x \in Uproc :
          /\ pc'[x] = "pg_write" =>
               \A b \in Uproc, p \in Page : swapPool'[slot'[x]] = <<b, p>> => ram'[slot'[x]] \in OwnContent(b, p)
          /\ pc'[x] = "pg_map" => ram'[slot'[x]] = flash'[x][VpnToIndex(vpn'[x])]
    BY <1>0, <1>a DEF DataInv
  <2> QED BY <2>2, <2>3 DEF DataInv, OwnContent, VpnToIndex
<1>1. CASE Quiet
  <2>1. \A x \in Uproc : pc[x] \in {"wake", "none"} => pc'[x] \in {"wake", "none"}
    BY <1>1, Outside DEF Quiet
  <2>2. \A x \in Uproc : \/ pc'[x] = pc[x] /\ vpn'[x] = vpn[x]
                         \/ pc'[x] \notin {"pg_write", "pg_map"}
    BY <1>1, Outside DEF Quiet
  <2> QED BY <1>1, <1>a, <2>1, <2>2 DEF Quiet, poolVars
<1>2. ASSUME NEW a \in Uproc, Refill(a) \/ Fault(a)
      PROVE  DataInv'
  <2>1. UNCHANGED <<pte, slot, swapPool, ram, flash, vpn>>
    BY <1>2 DEF Refill, Fault, mmVars, poolVars
  <2>2. pc' = pc \/ (pc[a] = "access" /\ pc' = [pc EXCEPT ![a] = "pg_pick"])
    BY <1>2 DEF Refill, Fault
  <2> QED BY <1>0, <1>a, <2>1, <2>2
<1>3. ASSUME NEW a \in Uproc, Store(a)
      PROVE  DataInv'
  <2>1. PICK p \in Page, i \in Frame :
           /\ VpnToIndex(vpn[a]) = p /\ tlb[a][vpn[a]] = i /\ pte[a][p] = i /\ Alive(a)
           /\ \A x \in Uproc : Busy(x) => slot[x] # i
           /\ \A b \in Uproc, q \in Page : Alive(b) /\ pte[b][q] = i => b = a /\ q = p
    BY <1>3, StoreStep
  <2>2. PICK c \in OwnContent(a, p) : ram' = [ram EXCEPT ![i] = c]
    BY <1>3, <2>1 DEF Store, OwnContent
  <2>3. /\ UNCHANGED <<vpn, pte, slot, swapPool, flash>>
        /\ pc[a] = "access" /\ pc' = [pc EXCEPT ![a] = ret[a]]
    BY <1>3 DEF Store, poolVars
  <2>4. \A x \in Uproc : /\ Alive(x)' => Alive(x)
                         /\ pc'[x] \in {"pg_write", "pg_map"} => pc[x] = pc'[x] /\ Busy(x)
    BY <1>0, <2>3, Outside DEF Alive, Busy
  <2>5. \A j \in Frame : ram'[j] = IF j = i THEN c ELSE ram[j]
    BY <1>0, <2>2
  <2>6. ASSUME NEW b \in Uproc, NEW q \in Page
        PROVE  /\ flash'[b][q] \in OwnContent(b, q)
               /\ Alive(b)' /\ pte'[b][q] \in Frame => ram'[pte'[b][q]] \in OwnContent(b, q)
    BY <1>0, <2>1, <2>2, <2>3, <2>4, <2>5 DEF DataInv
  <2>7. ASSUME NEW x \in Uproc
        PROVE  /\ pc'[x] = "pg_write" =>
                    \A b \in Uproc, q \in Page : swapPool'[slot'[x]] = <<b, q>> => ram'[slot'[x]] \in OwnContent(b, q)
               /\ pc'[x] = "pg_map" => ram'[slot'[x]] = flash'[x][VpnToIndex(vpn'[x])]
    BY <1>0, <2>1, <2>3, <2>4, <2>5 DEF DataInv
  <2> QED BY <2>6, <2>7 DEF DataInv, OwnContent, VpnToIndex
<1>4. ASSUME NEW a \in Uproc, PgPick(a)
      PROVE  DataInv'
  <2>1. /\ pc[a] = "pg_pick" /\ slot' = [slot EXCEPT ![a] = fifoNext]
        /\ UNCHANGED <<swapPool, ram, flash, vpn>>
        /\ \E l \in {"pg_read", "pg_write"} : Goto(a, l)
        /\ At(a, "pg_pick")
        /\ UNCHANGED pte \/ \E b \in Uproc, q \in Page : pte' = [pte EXCEPT ![b][q] = Invalid]
    BY <1>0, <1>4, PgPickStep DEF MarkPageNotValid
  <2>2. \A x \in Uproc : Busy(x)' => x = a
    BY <1>0, <2>1, HandOfOne DEF Busy
  <2>3. \A x \in Uproc : pc'[x] \in {"pg_write", "pg_map"} => x = a /\ pc'[x] # "pg_map"
    BY <1>0, <2>1, <2>2, Outside DEF Busy
  <2>4. ASSUME NEW b \in Uproc, NEW q \in Page, swapPool[fifoNext] = <<b, q>>
        PROVE  ram[fifoNext] \in OwnContent(b, q)
    <3>1. \A i \in Frame : ~Working(i)
      BY <1>0, <2>1, HandOfOne, WorkingIs
    <3>2. pte[b][q] = fifoNext
      BY <1>0, <2>4, <3>1 DEF MappedInv
    <3>3. Alive(b)
      BY <1>0, <2>4 DEF IInv, OwnInv, Free
    <3> QED BY <1>0, <3>2, <3>3 DEF DataInv
  <2>5. \A x \in Uproc, p \in Page : pte'[x][p] \in {pte[x][p], Invalid}
    <3>1. ASSUME NEW b \in Uproc, NEW q \in Page, pte' = [pte EXCEPT ![b][q] = Invalid],
                 NEW x \in Uproc, NEW p \in Page
          PROVE  pte'[x][p] \in {pte[x][p], Invalid}
      BY <1>0, <3>1
    <3> QED BY <2>1, <3>1
  <2>6. \A x \in Uproc : Alive(x)' => Alive(x)
    BY <1>0, <2>1 DEF Alive
  <2>7. slot'[a] = fifoNext
    BY <1>0, <2>1
  <2>8. \A b \in Uproc, p \in Page :
          /\ flash'[b][p] \in OwnContent(b, p)
          /\ Alive(b)' /\ pte'[b][p] \in Frame => ram'[pte'[b][p]] \in OwnContent(b, p)
    BY <1>0, <2>1, <2>5, <2>6 DEF DataInv
  <2>9. \A x \in Uproc :
          /\ pc'[x] = "pg_write" =>
               \A b \in Uproc, p \in Page : swapPool'[slot'[x]] = <<b, p>> => ram'[slot'[x]] \in OwnContent(b, p)
          /\ pc'[x] # "pg_map"
    BY <2>1, <2>3, <2>4, <2>7
  <2> QED BY <2>8, <2>9 DEF DataInv, OwnContent
<1>5. ASSUME NEW a \in Uproc, PgWrite(a)
      PROVE  DataInv'
  <2>0. FlashErrors = FALSE
    OBVIOUS
  <2>1. PICK b \in Uproc, p \in Page :
           /\ pc[a] = "pg_write" /\ swapPool[slot[a]] = <<b, p>>
           /\ flash' = [flash EXCEPT ![b][p] = ram[slot[a]]] /\ pc' = [pc EXCEPT ![a] = "pg_own"]
           /\ UNCHANGED <<vpn, slot, swapPool, pte, ram>>
    <3>1. PICK b \in Uproc, p \in Page :
             /\ At(a, "pg_write") /\ swapPool[slot[a]] = <<b, p>> /\ V(Flash(b))
             /\ \/ flash' = [flash EXCEPT ![b][p] = ram[slot[a]]] /\ Goto(a, "pg_own")
                \/ FlashErrors /\ UNCHANGED flash /\ Goto(a, "pg_fail")
             /\ UNCHANGED <<vpn, ret, poolVars, pte, tlb, ram, port>>
      BY <1>0, <1>5, PgWriteStep, Zenon
    <3> QED BY <2>0, <3>1 DEF poolVars
  <2>2. ram[slot[a]] \in OwnContent(b, p)
    BY <1>0, <2>1 DEF DataInv
  <2>3. \A x \in Uproc : pc'[x] \notin {"pg_write", "pg_map"}
    BY <1>0, <2>1, HandOfOne, Outside DEF Busy
  <2>4. \A x \in Uproc : Alive(x)' => Alive(x)
    BY <1>0, <2>1 DEF Alive
  <2>5. ASSUME NEW c \in Uproc, NEW q \in Page
        PROVE  /\ flash'[c][q] \in OwnContent(c, q)
               /\ Alive(c)' /\ pte'[c][q] \in Frame => ram'[pte'[c][q]] \in OwnContent(c, q)
    <3>1. flash'[c][q] = IF c = b /\ q = p THEN ram[slot[a]] ELSE flash[c][q]
      BY <1>0, <2>1
    <3> QED BY <1>0, <2>1, <2>2, <2>4, <3>1 DEF DataInv
  <2> QED BY <2>3, <2>5 DEF DataInv, OwnContent
<1>6. ASSUME NEW a \in Uproc, PgRead(a)
      PROVE  DataInv'
  <2>0. FlashErrors = FALSE
    OBVIOUS
  <2>1. /\ pc[a] = "pg_read" /\ pc' = [pc EXCEPT ![a] = "pg_map"]
        /\ ram' = [ram EXCEPT ![slot[a]] = flash[a][VpnToIndex(vpn[a])]]
        /\ UNCHANGED <<vpn, slot, swapPool, pte, flash>>
    BY <1>6, <2>0 DEF PgRead, FlashRead, poolVars
  <2>2. Busy(a) /\ \A x \in Uproc : pc'[x] \in {"pg_write", "pg_map"} => x = a /\ pc'[x] # "pg_write"
    BY <1>0, <2>1, HandOfOne, Outside DEF Busy
  <2>3. \A x \in Uproc : Alive(x)' => Alive(x)
    BY <1>0, <2>1 DEF Alive
  <2>4. ASSUME NEW c \in Uproc, NEW q \in Page
        PROVE  /\ flash'[c][q] \in OwnContent(c, q)
               /\ Alive(c)' /\ pte'[c][q] \in Frame => ram'[pte'[c][q]] \in OwnContent(c, q)
    BY <1>0, <2>1, <2>2, <2>3 DEF DataInv, HandInv
  <2>5. ram'[slot'[a]] = flash'[a][VpnToIndex(vpn'[a])]
    BY <1>0, <2>1
  <2> QED BY <2>2, <2>4, <2>5 DEF DataInv, OwnContent, VpnToIndex
<1>7. ASSUME NEW a \in Uproc, PgMap(a)
      PROVE  DataInv'
  <2>0. PICK p \in Page : p = VpnToIndex(vpn[a])
    BY <1>0, <1>7, Pages, Outside DEF PgMap, IInv, PagerInv, SupportTypeOK
  <2>1. /\ pc[a] = "pg_map" /\ pc' = [pc EXCEPT ![a] = "access"]
        /\ pte' = [pte EXCEPT ![a][p] = slot[a]] /\ UNCHANGED <<ram, flash>>
    BY <1>7, <2>0 DEF PgMap, MarkPagePresent
  <2>2. \A x \in Uproc : pc'[x] \notin {"pg_write", "pg_map"}
    BY <1>0, <2>1, HandOfOne, Outside DEF Busy
  <2>3. \A x \in Uproc : Alive(x)' => Alive(x)
    BY <1>0, <2>1 DEF Alive
  <2>4. ram[slot[a]] \in OwnContent(a, p)
    BY <1>0, <2>0, <2>1 DEF DataInv
  <2>5. ASSUME NEW c \in Uproc, NEW q \in Page
        PROVE  /\ flash'[c][q] \in OwnContent(c, q)
               /\ Alive(c)' /\ pte'[c][q] \in Frame => ram'[pte'[c][q]] \in OwnContent(c, q)
    <3>1. pte'[c][q] = IF c = a /\ q = p THEN slot[a] ELSE pte[c][q]
      BY <1>0, <2>1
    <3> QED BY <1>0, <2>1, <2>3, <2>4, <3>1 DEF DataInv
  <2> QED BY <2>2, <2>5 DEF DataInv, OwnContent
<1>8. ASSUME NEW a \in Uproc, FreeFrames(a)
      PROVE  DataInv'
  <2>1. At(a, "free") /\ pc' = [pc EXCEPT ![a] = "wake"] /\ UNCHANGED <<pte, ram, flash>>
    BY <1>8 DEF FreeFrames, mmVars
  <2>2. \A x \in Uproc : pc'[x] \notin {"pg_write", "pg_map"}
    BY <1>0, <2>1, HandOfOne, Outside DEF Busy
  <2>3. \A x \in Uproc : Alive(x)' => Alive(x)
    BY <1>0, <2>1 DEF Alive
  <2>4. \A b \in Uproc, p \in Page :
          /\ flash'[b][p] \in OwnContent(b, p)
          /\ Alive(b)' /\ pte'[b][p] \in Frame => ram'[pte'[b][p]] \in OwnContent(b, p)
    BY <1>0, <2>1, <2>3 DEF DataInv
  <2> QED BY <2>2, <2>4 DEF DataInv, OwnContent
<1>9. CASE Execute
  <2>1. PICK a \in Uproc \ {Shell} :
          /\ pte' = [pte EXCEPT ![a] = InvalidTable]
          /\ pc' = [pc EXCEPT ![Shell] = "execute", ![a] = "prog"]
    BY <1>9 DEF Execute, LaunchUproc
  <2>2. UNCHANGED <<slot, swapPool, ram, flash, vpn>> /\ pc[Shell] = "prog"
    BY <1>9 DEF Execute, poolVars
  <2>3. \A x \in Uproc : /\ pc'[x] = pc[x] \/ pc'[x] \notin {"pg_write", "pg_map"}
                         /\ x # a => (Alive(x)' => Alive(x)) /\ pte'[x] = pte[x]
    BY <1>0, <2>1, <2>2 DEF Alive
  <2>4. \A p \in Page : pte'[a][p] \notin Frame
    BY <1>0, <2>1 DEF InvalidTable
  <2>5. \A b \in Uproc, p \in Page :
          /\ flash'[b][p] \in OwnContent(b, p)
          /\ Alive(b)' /\ pte'[b][p] \in Frame => ram'[pte'[b][p]] \in OwnContent(b, p)
    BY <1>0, <2>2, <2>3, <2>4 DEF DataInv
  <2>6. \A x \in Uproc :
          /\ pc'[x] = "pg_write" =>
               \A b \in Uproc, p \in Page : swapPool'[slot'[x]] = <<b, p>> => ram'[slot'[x]] \in OwnContent(b, p)
          /\ pc'[x] = "pg_map" => ram'[slot'[x]] = flash'[x][VpnToIndex(vpn'[x])]
    BY <1>0, <2>2, <2>3 DEF DataInv
  <2> QED BY <2>5, <2>6 DEF DataInv, OwnContent, VpnToIndex
<1>10. CASE TlbReplace
  BY <1>10, <1>a, <1>0 DEF TlbReplace, poolVars
<1> QED BY <1>0, <1>1, <1>2, <1>3, <1>4, <1>5, <1>6, <1>7, <1>8, <1>9, <1>10, CleanKinds

(* At the start all contents are on flash.                                 *)
LEMMA InitRInv == Init => RInv
<1> SUFFICES ASSUME Init
             PROVE  RInv
  OBVIOUS
<1>0. TInv /\ \A a \in Uproc : a \in Process /\ a # Instantiator
  BY InitTInv, Processes
<1>1. /\ \A a \in Uproc : pc[a] \in {"prog", "none"}
      /\ \A a \in Uproc, p \in Page : pte[a][p] = Invalid /\ flash[a][p] = <<a, p, 0>>
      /\ \A a \in Uproc, v \in Vpn : tlb[a][v] = Absent
  BY <1>0 DEF Init, PagerInit, InvalidTable, TlbClear
<1>2. \A a \in Uproc, p \in Page : <<a, p, 0>> \in OwnContent(a, p)
  BY PagerAssumption DEF OwnContent
<1>3. TlbAgrees /\ VictimInv /\ DataInv
  BY <1>1, <1>2, Pages, Outside DEF TlbAgrees, VictimInv, DataInv, Busy
<1> QED BY <1>0, <1>3 DEF RInv

(* Every step keeps the contents where they belong.                        *)
LEMMA NextRInv ==
  ASSUME FlashErrors = FALSE
  PROVE  RInv /\ [Next]_vars /\ TlbAgrees' => RInv'
<1> SUFFICES ASSUME RInv, [Next]_vars, TlbAgrees'
             PROVE  RInv'
  OBVIOUS
<1>1. TInv'
  BY NextTInv DEF RInv
<1> QED BY <1>1, NextVictim, NextData DEF RInv

(* Contents are where they belong: a page that is on flash, in its frame   *)
(* or being written out has what its own program stored there.             *)
THEOREM ContentsInvariant ==
  ASSUME FlashErrors = FALSE, MaxLives = 1
  PROVE  Spec => []RInv
<1>1. RInv /\ [Next]_vars /\ TlbAgrees' => RInv'
  BY NextRInv
<1> QED BY <1>1, InitRInv, TlbAgreesWithTables, PTL DEF Spec

-----------------------------------------------------------------------------
(* The refinement of VirtualMemory.                                        *)

(* The memory a program sees, as VM is given it.                           *)
Memory == [a \in Uproc |-> IF Alive(a) THEN [p \in Page |-> Located(a, p)] ELSE <<>>]

(* Where the contents of a page are.                                       *)
Location ==
  \A a \in Uproc, p \in Page :
    /\ pte[a][p] \in Frame => Located(a, p) = ram[pte[a][p]]
    /\ pte[a][p] \notin Frame =>
         /\ \A x \in Uproc : pc[x] = "pg_write" /\ swapPool[slot[x]] = <<a, p>> => Located(a, p) = ram[slot[x]]
         /\ (\A x \in Uproc : pc[x] = "pg_write" => swapPool[slot[x]] # <<a, p>>) => Located(a, p) = flash[a][p]

(* The definition of Located, case by case.                                *)
LEMMA Locate == IInv => Location
<1> SUFFICES ASSUME IInv, NEW a \in Uproc, NEW p \in Page, pte[a][p] \notin Frame
             PROVE  /\ \A x \in Uproc : pc[x] = "pg_write" /\ swapPool[slot[x]] = <<a, p>> => Located(a, p) = ram[slot[x]]
                    /\ (\A x \in Uproc : pc[x] = "pg_write" => swapPool[slot[x]] # <<a, p>>) => Located(a, p) = flash[a][p]
  BY DEF Location, Located
<1>0. slot \in [Uproc -> Frame]
  BY DEF IInv, SupportTypeOK
<1>1. ASSUME NEW x \in Uproc, pc[x] = "pg_write", swapPool[slot[x]] = <<a, p>>
      PROVE  Located(a, p) = ram[slot[x]]
  <2>1. \A y \in Uproc : pc[y] = "pg_write" => y = x
    BY <1>1, HandOfOne, Outside DEF Busy
  <2>2. WrittenOut(a, p) = {slot[x]}
    BY <1>0, <1>1, <2>1 DEF WrittenOut
  <2>3. (CHOOSE i \in WrittenOut(a, p) : TRUE) = slot[x]
    BY <2>2
  <2> QED BY <2>2, <2>3 DEF Located
<1>2. ASSUME \A x \in Uproc : pc[x] = "pg_write" => swapPool[slot[x]] # <<a, p>>
      PROVE  Located(a, p) = flash[a][p]
  <2>1. WrittenOut(a, p) = {}
    BY <1>2 DEF WrittenOut
  <2> QED BY <2>1 DEF Located
<1> QED BY <1>1, <1>2

(* The same after a step.                                                  *)
LEMMA LocateNext == IInv' => Location'
BY Locate, PTL

(* Steps that show in nobody's memory.                                     *)
LEMMA MemoryKept ==
  ASSUME \A x \in Uproc : Alive(x)' <=> Alive(x),
         \A x \in Uproc, p \in Page : Alive(x) => Located(x, p)' = Located(x, p)
  PROVE  UNCHANGED Memory
<1>1. \A x \in Uproc : (IF Alive(x)' THEN [p \in Page |-> Located(x, p)'] ELSE <<>>)
                     = (IF Alive(x) THEN [p \in Page |-> Located(x, p)] ELSE <<>>)
  OBVIOUS
<1> QED BY <1>1 DEF Memory

(* The memory of a program that runs, and of one that does not.            *)
LEMMA MemoryOf ==
  ASSUME NEW a \in Uproc
  PROVE  /\ Alive(a) => Memory[a] = [p \in Page |-> Located(a, p)] /\ Memory[a] # <<>>
         /\ ~Alive(a) => Memory[a] = <<>>
<1>1. 0 \in Page
  BY PagerAssumption DEF Page, StackPage
<1>2. DOMAIN [p \in Page |-> Located(a, p)] # DOMAIN <<>>
  BY <1>1
<1> QED BY <1>2 DEF Memory

(* Steps of the pager, the TLB and the programs that are no accesses.      *)
LEMMA MovesKeepMemory ==
  ASSUME RInv, RInv', NEW a \in Uproc,
         Quiet \/ Refill(a) \/ Fault(a) \/ PgPick(a) \/ PgWrite(a) \/ PgRead(a) \/ PgMap(a) \/ TlbReplace,
         FlashErrors = FALSE
  PROVE  UNCHANGED Memory
<1> USE DEF At, Goto
<1>0. /\ IInv /\ HandInv /\ MissingInv /\ MappedInv /\ VictimInv /\ DataInv /\ Location /\ Location'
      /\ pc \in [Process -> Labels] /\ \A x \in Uproc : x \in Process
      /\ fifoNext \in Frame /\ Invalid \notin Frame
      /\ pte \in [Uproc -> [Page -> Frame \cup {Invalid}]]
      /\ flash \in [Uproc -> [Page -> Content]] /\ ram \in [Frame -> Content \cup {Blank}]
      /\ slot \in [Uproc -> Frame] /\ swapPool \in [Frame -> {Free} \cup (Uproc \X Page)]
  BY Processes, Pages, Locate, LocateNext DEF RInv, TInv, PInv, IInv, SupportTypeOK
<1>here. Location
  BY <1>0
<1>next. Location'
  BY <1>0
\* Steps that move nothing.
<1>a. ASSUME UNCHANGED <<pte, ram, flash, slot, swapPool>>,
             \A x \in Uproc : pc[x] \in {"wake", "none"} <=> pc'[x] \in {"wake", "none"},
             \A x \in Uproc : pc[x] = "pg_write" <=> pc'[x] = "pg_write"
      PROVE  UNCHANGED Memory
  <2>1. \A x \in Uproc : Alive(x)' <=> Alive(x)
    BY <1>a DEF Alive
  <2>2. ASSUME NEW b \in Uproc, NEW p \in Page
        PROVE  Located(b, p)' = Located(b, p)
    <3>1. CASE pte[b][p] \in Frame
      BY <1>0, <1>a, <3>1 DEF Location
    <3>2. ASSUME pte[b][p] \notin Frame, NEW x \in Uproc, pc[x] = "pg_write", swapPool[slot[x]] = <<b, p>>
          PROVE  Located(b, p)' = Located(b, p)
      <4>1. Located(b, p) = ram[slot[x]]
        BY <1>here, <3>2 DEF Location
      <4>2. pte'[b][p] \notin Frame /\ pc'[x] = "pg_write" /\ swapPool'[slot'[x]] = <<b, p>>
        BY <1>a, <3>2
      <4>3. Located(b, p)' = ram'[slot'[x]]
        BY <1>next, <4>2 DEF Location
      <4> QED BY <1>a, <4>1, <4>3
    <3>3. CASE pte[b][p] \notin Frame /\ \A x \in Uproc : pc[x] = "pg_write" => swapPool[slot[x]] # <<b, p>>
      <4>1. Located(b, p) = flash[b][p]
        BY <1>here, <3>3 DEF Location
      <4>2. pte'[b][p] \notin Frame /\ \A x \in Uproc : pc'[x] = "pg_write" => swapPool'[slot'[x]] # <<b, p>>
        BY <1>a, <3>3
      <4>3. Located(b, p)' = flash'[b][p]
        BY <1>next, <4>2 DEF Location
      <4> QED BY <1>a, <4>1, <4>3
    <3> QED BY <3>1, <3>2, <3>3
  <2> QED BY <2>1, <2>2, MemoryKept
<1>1. CASE Quiet
  <2>1. \A x \in Uproc : /\ pc[x] \in {"wake", "none"} <=> pc'[x] \in {"wake", "none"}
                         /\ pc[x] = "pg_write" <=> pc'[x] = "pg_write"
    BY <1>1, Outside DEF Quiet
  <2> QED BY <1>1, <1>a, <2>1 DEF Quiet, poolVars
<1>2. CASE Refill(a) \/ TlbReplace
  BY <1>2, <1>a DEF Refill, TlbReplace, poolVars
<1>3. CASE Fault(a)
  BY <1>0, <1>3, <1>a DEF Fault, poolVars, mmVars
<1>4. CASE PgPick(a)
  <2>1. /\ pc[a] = "pg_pick" /\ slot' = [slot EXCEPT ![a] = fifoNext]
        /\ UNCHANGED <<swapPool, ram, flash>> /\ At(a, "pg_pick")
        /\ \/ UNCHANGED pte /\ pc' = [pc EXCEPT ![a] = "pg_read"]
           \/ \E b \in Uproc, q \in Page :
                /\ swapPool[fifoNext] = <<b, q>> /\ pte' = [pte EXCEPT ![b][q] = Invalid]
                /\ pc' = [pc EXCEPT ![a] = "pg_write"]
    BY <1>0, <1>4, PgPickStep DEF MarkPageNotValid
  <2>2. \A x \in Uproc : ~Busy(x) /\ pc[x] # "pg_write"
    BY <1>0, <2>1, HandOfOne, Outside DEF Busy
  <2>3. \A x \in Uproc : Alive(x)' <=> Alive(x)
    BY <1>0, <2>1 DEF Alive
  <2>4. ASSUME NEW c \in Uproc, NEW r \in Page
        PROVE  Located(c, r)' = Located(c, r)
    <3>1. CASE UNCHANGED pte /\ pc' = [pc EXCEPT ![a] = "pg_read"]
      <4>1. \A x \in Uproc : pc'[x] # "pg_write"
        BY <1>0, <2>2, <3>1
      <4>2. pte'[c][r] = pte[c][r] /\ ram' = ram /\ flash' = flash
        BY <2>1, <3>1
      <4>3. CASE pte[c][r] \in Frame
        BY <1>here, <1>next, <4>2, <4>3 DEF Location
      <4>4. CASE pte[c][r] \notin Frame
        <5>1. Located(c, r) = flash[c][r]
          BY <1>here, <2>2, <4>4 DEF Location
        <5>2. Located(c, r)' = flash'[c][r]
          BY <1>next, <4>1, <4>2, <4>4 DEF Location
        <5> QED BY <4>2, <5>1, <5>2
      <4> QED BY <4>3, <4>4
    <3>2. ASSUME NEW b \in Uproc, NEW q \in Page,
                 swapPool[fifoNext] = <<b, q>>, pte' = [pte EXCEPT ![b][q] = Invalid],
                 pc' = [pc EXCEPT ![a] = "pg_write"]
          PROVE  Located(c, r)' = Located(c, r)
      <4>1. /\ \A x \in Uproc : pc'[x] = "pg_write" => x = a
            /\ pc'[a] = "pg_write" /\ slot'[a] = fifoNext
        BY <1>0, <2>1, <2>2, <3>2
      <4>2. CASE c = b /\ r = q
        <5>1. \A i \in Frame : ~Working(i)
          BY <2>2, WorkingIs
        <5>2. pte[b][q] = fifoNext
          BY <1>0, <3>2, <5>1 DEF MappedInv
        <5>3. Located(b, q) = ram[fifoNext]
          BY <1>0, <5>2 DEF Location
        <5>4. pte'[b][q] \notin Frame
          BY <1>0, <3>2
        <5>5. Located(b, q)' = ram'[slot'[a]]
          BY <1>0, <2>1, <3>2, <4>1, <5>4 DEF Location
        <5> QED BY <2>1, <4>1, <4>2, <5>3, <5>5
      <4>3. CASE ~(c = b /\ r = q)
        <5>1. pte'[c][r] = pte[c][r]
          BY <1>0, <3>2, <4>3
        <5>2. swapPool[fifoNext] # <<c, r>>
          BY <3>2, <4>3
        <5>3. CASE pte[c][r] \in Frame
          BY <1>0, <2>1, <5>1, <5>3 DEF Location
        <5>4. CASE pte[c][r] \notin Frame
          <6>1. Located(c, r) = flash[c][r]
            BY <1>here, <2>2, <5>4 DEF Location
          <6>2. \A x \in Uproc : pc'[x] = "pg_write" => swapPool'[slot'[x]] # <<c, r>>
            BY <2>1, <4>1, <5>2
          <6>3. Located(c, r)' = flash'[c][r]
            BY <1>next, <5>1, <5>4, <6>2 DEF Location
          <6> QED BY <2>1, <6>1, <6>3
        <5> QED BY <5>3, <5>4
      <4> QED BY <4>2, <4>3
    <3> QED BY <2>1, <3>1, <3>2
  <2> QED BY <2>3, <2>4, MemoryKept
<1>5. CASE PgWrite(a)
  <2>0. FlashErrors = FALSE
    OBVIOUS
  <2>1. PICK b \in Uproc, q \in Page :
           /\ pc[a] = "pg_write" /\ swapPool[slot[a]] = <<b, q>>
           /\ flash' = [flash EXCEPT ![b][q] = ram[slot[a]]] /\ pc' = [pc EXCEPT ![a] = "pg_own"]
           /\ UNCHANGED <<vpn, slot, swapPool, pte, ram>>
    <3>1. PICK b \in Uproc, q \in Page :
             /\ At(a, "pg_write") /\ swapPool[slot[a]] = <<b, q>> /\ V(Flash(b))
             /\ \/ flash' = [flash EXCEPT ![b][q] = ram[slot[a]]] /\ Goto(a, "pg_own")
                \/ FlashErrors /\ UNCHANGED flash /\ Goto(a, "pg_fail")
             /\ UNCHANGED <<vpn, ret, poolVars, pte, tlb, ram, port>>
      BY <1>0, <1>5, PgWriteStep, Zenon
    <3> QED BY <2>0, <3>1 DEF poolVars
  <2>2. Busy(a) /\ \A x \in Uproc : pc[x] = "pg_write" => x = a
    BY <1>0, <2>1, HandOfOne, Outside DEF Busy
  <2>3. \A x \in Uproc : (Alive(x)' <=> Alive(x)) /\ pc'[x] # "pg_write"
    BY <1>0, <2>1, <2>2 DEF Alive
  <2>4. pte[b][q] = Invalid
    BY <1>0, <2>1, <2>2 DEF VictimInv
  <2>5. ASSUME NEW c \in Uproc, NEW r \in Page
        PROVE  Located(c, r)' = Located(c, r)
    <3>1. flash'[c][r] = IF c = b /\ r = q THEN ram[slot[a]] ELSE flash[c][r]
      BY <1>0, <2>1
    <3>2. CASE pte[c][r] \in Frame
      BY <1>0, <2>1, <3>2 DEF Location
    <3>3. CASE pte[c][r] \notin Frame
      <4>1. Located(c, r)' = flash'[c][r]
        BY <1>0, <2>1, <2>3, <3>3 DEF Location
      <4>2. CASE c = b /\ r = q
        <5>1. Located(c, r) = ram[slot[a]]
          BY <1>0, <2>1, <3>3, <4>2 DEF Location
        <5> QED BY <3>1, <4>1, <4>2, <5>1
      <4>3. CASE ~(c = b /\ r = q)
        <5>1. \A x \in Uproc : pc[x] = "pg_write" => swapPool[slot[x]] # <<c, r>>
          BY <2>1, <2>2, <4>3
        <5>2. Located(c, r) = flash[c][r]
          BY <1>here, <3>3, <5>1 DEF Location
        <5> QED BY <3>1, <4>1, <4>3, <5>2
      <4> QED BY <4>2, <4>3
    <3> QED BY <3>2, <3>3
  <2> QED BY <2>3, <2>5, MemoryKept
<1>6. CASE PgRead(a)
  <2>0. FlashErrors = FALSE
    OBVIOUS
  <2>1. /\ pc[a] = "pg_read" /\ pc' = [pc EXCEPT ![a] = "pg_map"]
        /\ ram' = [ram EXCEPT ![slot[a]] = flash[a][VpnToIndex(vpn[a])]]
        /\ UNCHANGED <<slot, swapPool, pte, flash>>
    BY <1>6, <2>0 DEF PgRead, FlashRead, poolVars
  <2>2. Busy(a) /\ \A x \in Uproc : pc[x] # "pg_write" /\ pc'[x] # "pg_write"
    BY <1>0, <2>1, HandOfOne, Outside DEF Busy
  <2>3. \A x \in Uproc : Alive(x)' <=> Alive(x)
    BY <1>0, <2>1 DEF Alive
  <2>4. ASSUME NEW c \in Uproc, NEW r \in Page, Alive(c)
        PROVE  Located(c, r)' = Located(c, r)
    <3>1. CASE pte[c][r] \in Frame
      <4>1. pte[c][r] # slot[a]
        BY <1>0, <2>2, <2>4 DEF HandInv
      <4> QED BY <1>0, <2>1, <3>1, <4>1 DEF Location
    <3>2. CASE pte[c][r] \notin Frame
      BY <1>0, <2>1, <2>2, <3>2 DEF Location
    <3> QED BY <3>1, <3>2
  <2> QED BY <2>3, <2>4, MemoryKept
<1>7. CASE PgMap(a)
  <2>0. PICK p \in Page : p = VpnToIndex(vpn[a])
    BY <1>0, <1>7, Pages, Outside DEF PgMap, IInv, PagerInv, SupportTypeOK
  <2>1. /\ pc[a] = "pg_map" /\ pc' = [pc EXCEPT ![a] = "access"]
        /\ pte' = [pte EXCEPT ![a][p] = slot[a]] /\ UNCHANGED <<ram, flash>>
    BY <1>7, <2>0 DEF PgMap, MarkPagePresent
  <2>2. \A x \in Uproc : pc[x] # "pg_write" /\ pc'[x] # "pg_write"
    BY <1>0, <2>1, HandOfOne, Outside DEF Busy
  <2>3. \A x \in Uproc : Alive(x)' <=> Alive(x)
    BY <1>0, <2>1 DEF Alive
  <2>4. pte[a][p] = Invalid /\ ram[slot[a]] = flash[a][p]
    BY <1>0, <2>0, <2>1, Outside DEF MissingInv, DataInv
  <2>5. ASSUME NEW c \in Uproc, NEW r \in Page
        PROVE  Located(c, r)' = Located(c, r)
    <3>1. pte'[c][r] = IF c = a /\ r = p THEN slot[a] ELSE pte[c][r]
      BY <1>0, <2>1
    <3>2. CASE c = a /\ r = p
      <4>1. Located(a, p) = flash[a][p]
        BY <1>0, <2>2, <2>4 DEF Location
      <4>2. Located(a, p)' = ram'[slot[a]]
        BY <1>0, <3>1, <3>2 DEF Location
      <4> QED BY <2>1, <2>4, <3>2, <4>1, <4>2
    <3>3. CASE ~(c = a /\ r = p)
      BY <1>0, <2>1, <2>2, <3>1, <3>3 DEF Location
    <3> QED BY <3>2, <3>3
  <2> QED BY <2>3, <2>5, MemoryKept
<1> QED BY <1>1, <1>2, <1>3, <1>4, <1>5, <1>6, <1>7

(* What the actions of VirtualMemory say of Memory.                        *)
LEMMA VMActions ==
  ASSUME NEW a \in Uproc
  PROVE  /\ Memory[a] = <<>> /\ (\E m \in VM!Contents(a) : Memory' = [Memory EXCEPT ![a] = m]) /\ UNCHANGED port
              => VM!VMNext
         /\ Memory[a] # <<>> /\ Memory' = [Memory EXCEPT ![a] = <<>>] /\ UNCHANGED port => VM!VMNext
         /\ \A p \in Page : Memory[a] # <<>> /\ port' = <<a, p, Memory[a][p]>> /\ UNCHANGED Memory => VM!VMNext
         /\ \A p \in Page, x \in Val :
              Memory[a] # <<>> /\ Memory' = [Memory EXCEPT ![a][p] = <<a, p, x>>] /\ port' = <<a, p, <<a, p, x>>>>
                => VM!VMNext
<1>1. Memory[a] = <<>> /\ (\E m \in VM!Contents(a) : Memory' = [Memory EXCEPT ![a] = m]) /\ UNCHANGED port => VM!Start(a)
  BY DEF Memory, VM!Start
<1>2. Memory[a] # <<>> /\ Memory' = [Memory EXCEPT ![a] = <<>>] /\ UNCHANGED port => VM!Stop(a)
  BY DEF Memory, VM!Stop
<1>3. ASSUME NEW p \in Page
      PROVE  Memory[a] # <<>> /\ port' = <<a, p, Memory[a][p]>> /\ UNCHANGED Memory => VM!Read(a, p)
  BY DEF Memory, VM!Read
<1>4. ASSUME NEW p \in Page, NEW x \in Val
      PROVE  Memory[a] # <<>> /\ Memory' = [Memory EXCEPT ![a][p] = <<a, p, x>>] /\ port' = <<a, p, <<a, p, x>>>>
               => VM!Write(a, p, x)
  BY DEF Memory, VM!Write
<1>5. VM!Start(a) \/ VM!Stop(a) => VM!VMNext
  BY DEF VM!VMNext
<1>6. \A p \in Page : VM!Read(a, p) => VM!VMNext
  BY DEF VM!VMNext
<1>7. \A p \in Page, x \in Val : VM!Write(a, p, x) => VM!VMNext
  BY DEF VM!VMNext
<1>8. \A p \in Page : Memory[a] # <<>> /\ port' = <<a, p, Memory[a][p]>> /\ UNCHANGED Memory => VM!VMNext
  BY <1>3, <1>6
<1>9. \A p \in Page, x \in Val :
         Memory[a] # <<>> /\ Memory' = [Memory EXCEPT ![a][p] = <<a, p, x>>] /\ port' = <<a, p, <<a, p, x>>>>
           => VM!VMNext
  BY <1>4, <1>7
<1>10. Memory[a] = <<>> /\ (\E m \in VM!Contents(a) : Memory' = [Memory EXCEPT ![a] = m]) /\ UNCHANGED port
         => VM!VMNext
  BY <1>1, <1>5
<1>11. Memory[a] # <<>> /\ Memory' = [Memory EXCEPT ![a] = <<>>] /\ UNCHANGED port => VM!VMNext
  BY <1>2, <1>5
<1> QED BY <1>8, <1>9, <1>10, <1>11

(* Contents of one's own pages are contents as VirtualMemory has them.     *)
LEMMA OwnContents ==
  ASSUME NEW a \in Uproc, NEW m, m = [p \in Page |-> m[p]], \A p \in Page : m[p] \in OwnContent(a, p)
  PROVE  m \in VM!Contents(a)
<1>1. \A p \in Page : m[p] \in {a} \X Page \X Val /\ m[p][2] = p
  BY DEF OwnContent
<1> QED BY <1>1 DEF VM!Contents, VM!Blocks

(* A load reads what is in memory.                                         *)
LEMMA LoadReads ==
  ASSUME RInv, RInv', NEW a \in Uproc, Load(a), Quiet, FlashErrors = FALSE
  PROVE  VM!VMNext
<1>1. PICK p \in Page, i \in Frame :
        VpnToIndex(vpn[a]) = p /\ tlb[a][vpn[a]] = i /\ pte[a][p] = i /\ Alive(a)
  BY StoreStep
<1>2. Located(a, p) = ram[i]
  BY <1>1, Locate DEF Location, RInv, TInv, PInv
<1>3. Memory[a] # <<>> /\ Memory[a][p] = ram[i]
  BY <1>1, <1>2, MemoryOf
<1>4. port' = <<a, p, Memory[a][p]>>
  BY <1>1, <1>3 DEF Load
<1>5. UNCHANGED Memory
  BY MovesKeepMemory
<1> QED BY <1>3, <1>4, <1>5, VMActions

(* A store writes to memory, in the page it is for and in no other.        *)
LEMMA StoreWrites ==
  ASSUME RInv, RInv', NEW a \in Uproc, Store(a)
  PROVE  VM!VMNext
<1> USE DEF At, Goto
<1>0. /\ IInv /\ Location /\ Location'
      /\ pc \in [Process -> Labels] /\ \A x \in Uproc : x \in Process
      /\ \A x \in Uproc : ret[x] \in {"prog", "tx_send", "rx_next"}
      /\ ram \in [Frame -> Content \cup {Blank}]
  BY Processes, Locate, LocateNext DEF RInv, TInv, PInv, IInv, SupportTypeOK
<1>here. Location
  BY <1>0
<1>next. Location'
  BY <1>0
<1>1. PICK p \in Page, i \in Frame :
         /\ VpnToIndex(vpn[a]) = p /\ tlb[a][vpn[a]] = i /\ pte[a][p] = i /\ Alive(a)
         /\ \A x \in Uproc : Busy(x) => slot[x] # i
         /\ \A b \in Uproc, q \in Page : Alive(b) /\ pte[b][q] = i => b = a /\ q = p
  BY StoreStep
<1>2. PICK x \in Val : ram' = [ram EXCEPT ![i] = <<a, p, x>>] /\ port' = <<a, p, <<a, p, x>>>>
  BY <1>1 DEF Store
<1>3. /\ UNCHANGED <<pte, slot, swapPool, flash>>
      /\ pc[a] = "access" /\ pc' = [pc EXCEPT ![a] = ret[a]]
  BY DEF Store, poolVars
<1>4. \A y \in Uproc : /\ Alive(y)' <=> Alive(y)
                       /\ pc'[y] = "pg_write" <=> pc[y] = "pg_write"
                       /\ pc[y] = "pg_write" => slot[y] # i
  BY <1>0, <1>1, <1>3, Outside DEF Alive, Busy
<1>5. \A j : j \in Frame => ram'[j] = IF j = i THEN <<a, p, x>> ELSE ram[j]
  BY <1>0, <1>2
<1>6. Located(a, p)' = <<a, p, x>>
  BY <1>0, <1>1, <1>3, <1>5 DEF Location
<1>7. ASSUME NEW b \in Uproc, NEW q \in Page, Alive(b), ~(b = a /\ q = p)
      PROVE  Located(b, q)' = Located(b, q)
  <2>1. pte[b][q] # i
    BY <1>1, <1>7
  <2>2. CASE pte[b][q] \in Frame
    BY <1>0, <1>3, <1>5, <2>1, <2>2 DEF Location
  <2>3. ASSUME pte[b][q] \notin Frame, NEW y \in Uproc, pc[y] = "pg_write", swapPool[slot[y]] = <<b, q>>
        PROVE  Located(b, q)' = Located(b, q)
    <3>1. slot[y] \in Frame /\ slot[y] # i
      BY <1>0, <1>4, <2>3 DEF IInv, SupportTypeOK
    <3>2. Located(b, q) = ram[slot[y]]
      BY <1>here, <2>3 DEF Location
    <3>3. pte'[b][q] \notin Frame /\ pc'[y] = "pg_write" /\ swapPool'[slot'[y]] = <<b, q>>
      BY <1>3, <1>4, <2>3
    <3>4. Located(b, q)' = ram'[slot'[y]]
      BY <1>next, <3>3 DEF Location
    <3> QED BY <1>3, <1>5, <3>1, <3>2, <3>4
  <2>4. CASE pte[b][q] \notin Frame /\ \A y \in Uproc : pc[y] = "pg_write" => swapPool[slot[y]] # <<b, q>>
    <3>1. Located(b, q) = flash[b][q]
      BY <1>here, <2>4 DEF Location
    <3>2. pte'[b][q] \notin Frame /\ \A y \in Uproc : pc'[y] = "pg_write" => swapPool'[slot'[y]] # <<b, q>>
      BY <1>3, <1>4, <2>4
    <3>3. Located(b, q)' = flash'[b][q]
      BY <1>next, <3>2 DEF Location
    <3> QED BY <1>3, <3>1, <3>3
  <2> QED BY <2>2, <2>3, <2>4
<1>8. Memory' = [Memory EXCEPT ![a][p] = <<a, p, x>>]
  <2>1. Memory = [b \in Uproc |-> Memory[b]] /\ Memory' = [b \in Uproc |-> Memory'[b]]
    BY DEF Memory
  <2>2. /\ Memory[a] = [q \in Page |-> Located(a, q)]
        /\ Memory'[a] = [q \in Page |-> Located(a, q)']
    BY <1>1, <1>4 DEF Memory
  <2>3. Memory'[a] = [Memory[a] EXCEPT ![p] = <<a, p, x>>]
    BY <1>1, <1>6, <1>7, <2>2
  <2>4. ASSUME NEW b \in Uproc, b # a
        PROVE  Memory'[b] = Memory[b]
    <3>1. CASE Alive(b)
      <4>1. \A q \in Page : Located(b, q)' = Located(b, q)
        BY <1>7, <2>4, <3>1
      <4>2. /\ Memory[b] = [q \in Page |-> Located(b, q)]
            /\ Memory'[b] = [q \in Page |-> Located(b, q)']
        BY <1>4, <3>1 DEF Memory
      <4> QED BY <4>1, <4>2
    <3>2. CASE ~Alive(b)
      BY <1>4, <3>2 DEF Memory
    <3> QED BY <3>1, <3>2
  <2> QED BY <2>1, <2>3, <2>4
<1> QED BY <1>1, <1>2, <1>8, MemoryOf, VMActions

(* A program that is launched starts with what its backing store has.      *)
LEMMA ExecuteStarts ==
  ASSUME RInv, RInv', Execute
  PROVE  VM!VMNext
<1>0. /\ IInv /\ Location /\ Location'
      /\ pc \in [Process -> Labels] /\ \A x \in Uproc : x \in Process
      /\ Shell \in Uproc /\ Invalid \notin Frame
      /\ pte \in [Uproc -> [Page -> Frame \cup {Invalid}]]
      /\ slot \in [Uproc -> Frame] /\ swapPool \in [Frame -> {Free} \cup (Uproc \X Page)]
  BY Processes, Pages, Locate, LocateNext DEF RInv, TInv, PInv, IInv, SupportTypeOK
<1>here. Location
  BY <1>0
<1>next. Location'
  BY <1>0
<1>1. PICK a \in Uproc \ {Shell} :
        /\ pc[a] = "none" /\ pte' = [pte EXCEPT ![a] = InvalidTable]
        /\ pc' = [pc EXCEPT ![Shell] = "execute", ![a] = "prog"]
  BY DEF Execute, LaunchUproc
<1>2. pc[Shell] = "prog" /\ UNCHANGED <<slot, swapPool, ram, flash, port>>
  BY DEF Execute, At, poolVars
<1>3. \A x \in Uproc : /\ x # a => (Alive(x)' <=> Alive(x)) /\ pte'[x] = pte[x]
                       /\ pc'[x] = "pg_write" <=> pc[x] = "pg_write"
  BY <1>0, <1>1, <1>2 DEF Alive
<1>4. ~Alive(a) /\ Alive(a)'
  BY <1>0, <1>1 DEF Alive
<1>5. ASSUME NEW b \in Uproc, b # a, NEW q \in Page
      PROVE  Located(b, q)' = Located(b, q)
  <2>0. pte'[b][q] = pte[b][q]
    BY <1>3, <1>5
  <2>1. CASE pte[b][q] \in Frame
    BY <1>0, <1>2, <2>0, <2>1 DEF Location
  <2>2. ASSUME pte[b][q] \notin Frame, NEW y \in Uproc, pc[y] = "pg_write", swapPool[slot[y]] = <<b, q>>
        PROVE  Located(b, q)' = Located(b, q)
    <3>1. Located(b, q) = ram[slot[y]]
      BY <1>here, <2>2 DEF Location
    <3>2. pte'[b][q] \notin Frame /\ pc'[y] = "pg_write" /\ swapPool'[slot'[y]] = <<b, q>>
      BY <1>2, <1>3, <2>0, <2>2
    <3>3. Located(b, q)' = ram'[slot'[y]]
      BY <1>next, <3>2 DEF Location
    <3> QED BY <1>2, <3>1, <3>3
  <2>3. CASE pte[b][q] \notin Frame /\ \A y \in Uproc : pc[y] = "pg_write" => swapPool[slot[y]] # <<b, q>>
    <3>1. Located(b, q) = flash[b][q]
      BY <1>here, <2>3 DEF Location
    <3>2. pte'[b][q] \notin Frame /\ \A y \in Uproc : pc'[y] = "pg_write" => swapPool'[slot'[y]] # <<b, q>>
      BY <1>2, <1>3, <2>0, <2>3
    <3>3. Located(b, q)' = flash'[b][q]
      BY <1>next, <3>2 DEF Location
    <3> QED BY <1>2, <3>1, <3>3
  <2> QED BY <2>1, <2>2, <2>3
<1>6. ASSUME NEW q \in Page
      PROVE  Located(a, q)' \in OwnContent(a, q)
  <2>1. pte'[a][q] \notin Frame
    BY <1>0, <1>1 DEF InvalidTable
  <2>2. \A i \in Frame : swapPool[i] # <<a, q>>
    BY <1>0, <1>4 DEF IInv, OwnInv, Free
  <2>3. pte'[a][q] \notin Frame /\ \A x \in Uproc : pc'[x] = "pg_write" => swapPool'[slot'[x]] # <<a, q>>
    BY <1>0, <1>2, <2>1, <2>2
  <2>4. Located(a, q)' = flash'[a][q]
    BY <1>next, <2>3 DEF Location
  <2> QED BY <1>2, <2>4 DEF RInv, DataInv
<1>7. Memory'[a] \in VM!Contents(a)
  <2>1. Memory'[a] = [q \in Page |-> Located(a, q)']
    BY <1>4 DEF Memory
  <2>2. Memory'[a] = [q \in Page |-> Memory'[a][q]] /\ \A q \in Page : Memory'[a][q] \in OwnContent(a, q)
    BY <1>6, <2>1
  <2> QED BY <2>2, OwnContents
<1>8. Memory' = [Memory EXCEPT ![a] = Memory'[a]]
  <2>1. Memory = [b \in Uproc |-> Memory[b]] /\ Memory' = [b \in Uproc |-> Memory'[b]]
    BY DEF Memory
  <2>2. ASSUME NEW b \in Uproc, b # a
        PROVE  Memory'[b] = Memory[b]
    <3>1. (IF Alive(b)' THEN [q \in Page |-> Located(b, q)'] ELSE <<>>)
            = (IF Alive(b) THEN [q \in Page |-> Located(b, q)] ELSE <<>>)
      BY <1>3, <1>5, <2>2
    <3> QED BY <3>1 DEF Memory
  <2> QED BY <2>1, <2>2
<1>9. Memory[a] = <<>> /\ \E m \in VM!Contents(a) : Memory' = [Memory EXCEPT ![a] = m]
  BY <1>4, <1>7, <1>8, MemoryOf
<1> QED BY <1>2, <1>9, VMActions

(* A program that freed its frames has no memory any more.                 *)
LEMMA FreeFramesStops ==
  ASSUME RInv, RInv', NEW a \in Uproc, FreeFrames(a)
  PROVE  VM!VMNext
<1> USE DEF At, Goto
<1>0. /\ IInv /\ HandInv /\ Location /\ Location'
      /\ pc \in [Process -> Labels] /\ \A x \in Uproc : x \in Process
  BY Processes, Locate, LocateNext DEF RInv, TInv, PInv, IInv, SupportTypeOK
<1>1. /\ pc[a] = "free" /\ At(a, "free") /\ pc' = [pc EXCEPT ![a] = "wake"]
      /\ UNCHANGED <<pte, ram, flash, port>>
  BY DEF FreeFrames, mmVars
<1>2. \A x \in Uproc : pc[x] # "pg_write" /\ pc'[x] # "pg_write"
  BY <1>0, <1>1, HandOfOne, Outside DEF Busy
<1>3. /\ Alive(a) /\ ~Alive(a)' /\ \A x \in Uproc : x # a => (Alive(x)' <=> Alive(x))
  BY <1>0, <1>1 DEF Alive
<1>4. \A b \in Uproc, q \in Page : Located(b, q)' = Located(b, q)
  BY <1>0, <1>1, <1>2 DEF Location
<1>5. Memory' = [Memory EXCEPT ![a] = <<>>]
  <2>1. Memory = [b \in Uproc |-> Memory[b]] /\ Memory' = [b \in Uproc |-> Memory'[b]]
    BY DEF Memory
  <2>2. Memory'[a] = <<>>
    BY <1>3 DEF Memory
  <2>3. ASSUME NEW b \in Uproc, b # a
        PROVE  Memory'[b] = Memory[b]
    <3>1. (IF Alive(b)' THEN [q \in Page |-> Located(b, q)'] ELSE <<>>)
            = (IF Alive(b) THEN [q \in Page |-> Located(b, q)] ELSE <<>>)
      BY <1>3, <1>4, <2>3
    <3> QED BY <3>1 DEF Memory
  <2> QED BY <2>1, <2>2, <2>3
<1> QED BY <1>1, <1>3, <1>5, MemoryOf, VMActions

(* At the start the shell is there with the contents of its flash.         *)
LEMMA InitMemory == Init => VM!VMInit
<1> SUFFICES ASSUME Init
             PROVE  VM!VMInit
  OBVIOUS
<1>0. /\ IInv /\ Location /\ \A x \in Uproc : x \in Process /\ x # Instantiator
      /\ Shell \in Uproc /\ Invalid \notin Frame
  BY InitRInv, Processes, Pages, Locate DEF RInv, TInv, PInv
<1>1. /\ pc[Shell] = "prog" /\ \A x \in Uproc \ {Shell} : pc[x] = "none"
      /\ pte[Shell] = InvalidTable /\ port = <<>>
      /\ \A q \in Page : flash[Shell][q] = <<Shell, q, 0>>
  BY <1>0 DEF Init, PagerInit
<1>2. Alive(Shell) /\ \A x \in Uproc \ {Shell} : ~Alive(x)
  BY <1>1 DEF Alive
<1>3. ASSUME NEW q \in Page
      PROVE  Located(Shell, q) \in OwnContent(Shell, q)
  <2>1. pte[Shell][q] \notin Frame /\ \A x \in Uproc : pc[x] # "pg_write"
    BY <1>0, <1>1 DEF InvalidTable
  <2>2. Located(Shell, q) = <<Shell, q, 0>>
    BY <1>0, <1>1, <2>1 DEF Location
  <2> QED BY <2>2, PagerAssumption DEF OwnContent
<1>4. Memory[Shell] \in VM!Contents(Shell)
  <2>1. Memory[Shell] = [q \in Page |-> Located(Shell, q)]
    BY <1>0, <1>2 DEF Memory
  <2>2. Memory[Shell] = [q \in Page |-> Memory[Shell][q]] /\ \A q \in Page : Memory[Shell][q] \in OwnContent(Shell, q)
    BY <1>3, <2>1
  <2> QED BY <1>0, <2>2, OwnContents
<1>5. \A x \in Uproc : Memory[x] \in {<<>>} \cup UNION {VM!Contents(a) : a \in Uproc}
  <2>1. \A x \in Uproc \ {Shell} : Memory[x] = <<>>
    BY <1>2, MemoryOf
  <2> QED BY <1>0, <1>4, <2>1
<1>6. Memory \in [Uproc -> {<<>>} \cup UNION {VM!Contents(a) : a \in Uproc}]
  <2>1. Memory = [x \in Uproc |-> Memory[x]]
    BY DEF Memory
  <2> QED BY <1>5, <2>1
<1> QED BY <1>1, <1>6 DEF VM!VMInit, Memory

(* Every step is one of VirtualMemory, or does not show.                   *)
LEMMA StepMemory ==
  ASSUME FlashErrors = FALSE, RInv, RInv', [Next]_vars
  PROVE  VM!VMNext \/ UNCHANGED <<Memory, port>>
<1>0. IInv /\ NoFail /\ Shell \in Uproc
  BY Processes DEF RInv, TInv, PInv
<1>1. CASE Quiet /\ UNCHANGED port
  BY <1>0, <1>1, MovesKeepMemory
<1>2. ASSUME NEW a \in Uproc, Load(a) /\ Quiet
      PROVE  VM!VMNext
  BY <1>2, LoadReads
<1>3. ASSUME NEW a \in Uproc, Store(a)
      PROVE  VM!VMNext
  BY <1>3, StoreWrites
<1>4. ASSUME NEW a \in Uproc,
             Refill(a) \/ Fault(a) \/ PgPick(a) \/ PgWrite(a) \/ PgRead(a) \/ PgMap(a)
      PROVE  UNCHANGED <<Memory, port>>
  <2>1. UNCHANGED Memory
    BY <1>4, MovesKeepMemory
  <2>2. UNCHANGED port
    BY <1>4 DEF Refill, Fault, PgPick, PgWrite, PgRead, PgMap, mmVars
  <2> QED BY <2>1, <2>2
<1>5. ASSUME NEW a \in Uproc, FreeFrames(a)
      PROVE  VM!VMNext
  BY <1>5, FreeFramesStops
<1>6. CASE Execute
  BY <1>6, ExecuteStarts
<1>7. CASE TlbReplace
  <2>1. UNCHANGED Memory
    BY <1>0, <1>7, MovesKeepMemory
  <2> QED BY <1>7, <2>1 DEF TlbReplace
<1> QED BY <1>0, <1>1, <1>2, <1>3, <1>4, <1>5, <1>6, <1>7, CleanKinds

(* The virtual memory keeps its promise for any number of programs, pages, *)
(* frames and values: what a program stores stays in its page through      *)
(* every eviction and refill, and in no other page, as long as the flash   *)
(* devices report no error and no ASID is launched twice.                  *)
THEOREM VirtualMemoryImplemented ==
  ASSUME FlashErrors = FALSE, MaxLives = 1
  PROVE  Spec => ImplementsVirtualMemory
<1>1. Init => VM!VMInit
  BY InitMemory
<1>2. RInv /\ RInv' /\ [Next]_vars => [VM!VMNext]_<<Memory, port>>
  BY StepMemory
<1>3. RInv /\ RInv' /\ [Next]_vars
        => [VM!VMNext]_<<[a \in Uproc |-> IF Alive(a) THEN [p \in Page |-> Located(a, p)] ELSE <<>>], port>>
  BY <1>2 DEF Memory
<1> QED BY <1>1, <1>3, ContentsInvariant, PTL DEF ImplementsVirtualMemory, VM!VMSpec, Spec
=============================================================================
