-------------------------- MODULE SupportProperties --------------------------
(***************************************************************************)
(* What makes the support level correct.                                   *)
(***************************************************************************)
EXTENDS SupportLevel

InPager == {"pg_pick", "pg_write", "pg_own", "pg_read", "pg_map", "pg_fail"}

(* A process still has its frames until FreeFrames.                        *)
Alive(a) == pc[a] \notin {"wake", "none"}

(* The code between the P and the V of a mutex.  An access made by a       *)
(* terminal call is made with its mutex held.                              *)
Holds(a, s) ==
  \/ s = Pool /\ pc[a] \in InPager \cup {"free"}
  \/ s = Tx /\ \/ pc[a] \in {"tx_next", "tx_send"}
               \/ pc[a] \in InPager \cup {"access"} /\ ret[a] = "tx_send"
  \/ s = Rx /\ \/ pc[a] \in {"rx_receive", "rx_next"}
               \/ pc[a] \in InPager \cup {"access"} /\ ret[a] = "rx_next"
  \/ pc[a] = "pg_write" /\ s = Flash(swapPool[slot[a]][1])
  \/ pc[a] = "pg_read" /\ s = Flash(a)

(* The processes inside it: those that do not wait at its P any more.      *)
Inside(s) == {a \in Uproc : Holds(a, s) /\ a \notin Range(queue[s])}

(* A mutex is 1 less the processes inside and the processes that wait: on  *)
(* every way out of a critical section, errors included, it is given back  *)
(* once.                                                                   *)
Balanced(s) == sem[s] = 1 - Cardinality(Inside(s)) - Len(queue[s])

Labels ==
  InPager \cup {"prog", "access", "tx_next", "tx_send", "rx_receive", "rx_next", "execute",
                "die", "free", "wake", "test", "end", "none"}

(* Every variable has its type.                                            *)
SupportTypeOK ==
  /\ pc \in [Process -> Labels]
  /\ vpn \in [Uproc -> Vpn]
  /\ ret \in [Uproc -> {"prog", "tx_send", "rx_next"}]
  /\ slot \in [Uproc -> Frame]
  /\ sem \in [Sem -> Int]
  /\ queue \in [Sem -> Seq(Process)]
  /\ swapPool \in [Frame -> {Free} \cup (Uproc \X Page)]
  /\ fifoNext \in Frame
  /\ pte \in [Uproc -> [Page -> Frame \cup {Invalid}]]
  /\ tlb \in [Uproc -> [Vpn -> Frame \cup {Invalid, Absent}]]
  /\ ram \in [Frame -> Content \cup {Blank}]
  /\ flash \in [Uproc -> [Page -> Content]]
  /\ leaving \subseteq Uproc
  /\ lives \in [Uproc -> 0 .. MaxLives]

(* The mutexes of the pager and of the flash devices are balanced.         *)
PagerMutexes == \A s \in {Pool} \cup {Flash(a) : a \in Uproc} : Balanced(s)

(* The mutexes of the terminal are balanced, although a process may fault  *)
(* while it holds them.                                                    *)
TerminalMutexes == Balanced(Tx) /\ Balanced(Rx)

(* The frame the pager is working on: between the choice of a frame and    *)
(* its new entry in the table, the entry is of the page just evicted.      *)
Working(i) == \E a \in Uproc : pc[a] \in InPager \ {"pg_pick"} /\ slot[a] = i

(* The swap pool and the page tables say the same: the frame recorded for  *)
(* a page is the one its entry maps, and a valid entry of a program maps   *)
(* the frame that is recorded for it.                                      *)
TableAgrees ==
  \A i \in Frame : ~Working(i) =>
    \A a \in Uproc, p \in Page :
      /\ swapPool[i] = <<a, p>> => pte[a][p] = i
      /\ Alive(a) /\ pte[a][p] = i => swapPool[i] = <<a, p>>

(* No frame is mapped for two pages of programs, not even after a flash    *)
(* error, which may leave the swap pool wrong.                             *)
FrameOfOne ==
  \A a, b \in Uproc : Alive(a) /\ Alive(b) =>
    \A p, q \in Page : pte[a][p] \in Frame /\ pte[b][q] = pte[a][p] => a = b /\ p = q

(* The TLB never says of a page of a program what its table does not.      *)
TlbAgrees ==
  \A a \in Uproc, p \in Page :
    Alive(a) => tlb[a][EntryVpn(p)] \in {Absent, pte[a][p]}

(* A frame is of a program that has not terminated: after supTerminate     *)
(* freed its frames a program gets no other, and nothing of it is written  *)
(* to its flash any more.                                                  *)
DeadOwnNothing ==
  \A i \in Frame : swapPool[i] # Free /\ ~Working(i) => Alive(swapPool[i][1])

(* One program at a time: while the shell proceeds no program it launched  *)
(* does, and the units of shellSemaphore are the programs that ended.      *)
OneProgram ==
  LET launched == {a \in Uproc \ {Shell} : pc[a] # "none"}
      waits == Shell \in Range(queue[ShellSem])
  IN  /\ Cardinality(launched) <= 1
      /\ launched # {} => waits \/ pc[Shell] \in {"execute", "none"}
      /\ sem[ShellSem] = IF waits THEN -1 ELSE IF pc[Shell] = "execute" THEN 1 - Cardinality(launched) ELSE 0

(* The contents of a page: in its frame if its entry is valid or it is     *)
(* being written out, else on its flash.                                   *)
WrittenOut(a, p) ==
  {i \in Frame : \E b \in Uproc : pc[b] = "pg_write" /\ slot[b] = i /\ swapPool[i] = <<a, p>>}

Located(a, p) ==
  IF pte[a][p] \in Frame THEN ram[pte[a][p]]
  ELSE IF WrittenOut(a, p) # {} THEN ram[CHOOSE i \in WrittenOut(a, p) : TRUE]
  ELSE flash[a][p]

VM == INSTANCE VirtualMemory WITH
        Owner <- Uproc, VPage <- Page, Word <- Val, NoMemory <- <<>>,
        memory <- [a \in Uproc |-> IF Alive(a) THEN [p \in Page |-> Located(a, p)] ELSE <<>>]

(* The support level implements VirtualMemory: what a program stores stays *)
(* in its page, through every eviction, and in no other page.              *)
ImplementsVirtualMemory == VM!VMSpec

(***************************************************************************)
(* What must happen.  A process that is ready runs in turn, flash and      *)
(* terminal operations end, and an access that is tried again and again    *)
(* with its translation present is done.  Programs may do anything, or     *)
(* nothing, between their accesses and calls.                              *)
(***************************************************************************)
FairSpec ==
  /\ Spec
  /\ \A a \in Uproc : WF_vars(Proceeds(a)) /\ SF_vars(Accesses(a))
  /\ WF_vars(ExecuteWait) /\ WF_vars(Exit) /\ WF_vars(Test) /\ WF_vars(End)

(* An access is done, or ends its program.                                 *)
AccessEnds == \A a \in Uproc : pc[a] = "access" ~> pc[a] \in {"prog", "tx_send", "rx_next", "none"}

(* When a program terminates the shell gets the processor back.            *)
ShellResumes ==
  \A a \in Uproc \ {Shell} : pc[a] = "die" ~> pc[a] = "none" /\ At(Shell, "prog")

(* When the shell terminates, whatever else is still there, the system     *)
(* halts: no process is left.                                              *)
SystemHalts == pc[Shell] = "die" ~> \A a \in Process : pc[a] = "none"
=============================================================================
