------------------------------- MODULE Pager -------------------------------
(***************************************************************************)
(* The virtual memory of the support level: the pager and its swap pool,   *)
(* the page tables, the TLB and the handler that refills it, frames and    *)
(* backing store (phase3/vmSupport.c, uTLB_RefillHandler).                 *)
(*                                                                         *)
(* A step of a process goes from one Nucleus call to the next: in between  *)
(* it touches only its own data or what the semaphore it holds protects.   *)
(* DOIO is one step, its end, together with the V of the device mutex that *)
(* follows it.  A process that waits in a P is in the queue of the         *)
(* semaphore, and its pc is already where it goes on.                      *)
(***************************************************************************)
EXTENDS Integers, Sequences, FiniteSets, Functions

CONSTANTS
  UPROCMAX,     \* the number of ASIDs
  TextPages,    \* UPROC_TEXTPAGES: the pages from the start of the logical space
  PoolSize,     \* SWAP_POOL_SIZE
  Val,          \* what a program may store in a page
  FlashErrors   \* whether a flash operation may end with a status other than READY

ASSUME PagerAssumption ==
  /\ UPROCMAX \in Nat \ {0} /\ TextPages \in Nat \ {0} /\ PoolSize \in Nat \ {0}
  /\ 0 \in Val /\ FlashErrors \in BOOLEAN

Uproc == 1 .. UPROCMAX      \* by ASID
Shell == 1
Instantiator == 0
Process == Uproc \cup {Instantiator}

(* Pages are indices of the page table, the last one for the stack.  A VPN *)
(* is counted from KUSEG_VPN_START; the stack has one of its own, beyond   *)
(* the first VPN that no page has.                                         *)
StackPage == TextPages
Page == 0 .. StackPage
HoleVpn == TextPages
StackVpn == TextPages + 1
Vpn == 0 .. StackVpn

Frame == 0 .. PoolSize - 1
Free == <<>>                \* SWAP_FRAME_FREE
Invalid == -1               \* an EntryLO without VALIDON
Absent == -2                \* no entry in the TLB

Pool == <<"swapPool", 0>>
Master == <<"master", 0>>
ShellSem == <<"shell", 0>>
Tx == <<"tx", 0>>
Rx == <<"rx", 0>>
Flash(a) == <<"flash", a>>
Mutex == {Pool, Tx, Rx} \cup {Flash(a) : a \in Uproc}
Sem == Mutex \cup {Master, ShellSem}

VARIABLES
  pc,        \* where each process is; "none" if there is no such process
  vpn,       \* the address a process accesses, or the buffer of its call
  ret,       \* where a process goes on after its access
  slot,      \* the local variable i of pager()
  sem,       \* the values of the semaphores
  queue,     \* who waits on them, in order
  swapPool,  \* for each frame Free or <<asid, page>>
  fifoNext,  \* the next frame to replace
  pte,       \* for each page of each process its frame, or Invalid
  tlb,       \* for each process and VPN a copy of the entry, or Absent
  ram,       \* the contents of the frames
  flash,     \* the contents of the backing stores
  port       \* the last access: who loaded or stored what, at which page

mmVars == <<pte, tlb, ram, flash, port>>
poolVars == <<swapPool, fifoNext, slot>>
pagerVars == <<pc, vpn, ret, slot, sem, queue, swapPool, fifoNext, pte, tlb, ram, flash, port>>

Content == {<<a, p, x>> : a \in Uproc, p \in Page, x \in Val}
Blank == <<0, 0, 0>>        \* a frame nothing was read into yet

Ready(a) == \A s \in Sem : a \notin Range(queue[s])

At(a, l) == pc[a] = l /\ Ready(a)

Goto(a, l) == pc' = [pc EXCEPT ![a] = l]

(* PASSEREN and VERHOGEN, as the Nucleus does them.                        *)
P(a, s) ==
  /\ sem' = [sem EXCEPT ![s] = @ - 1]
  /\ queue' = IF sem[s] - 1 < 0 THEN [queue EXCEPT ![s] = Append(@, a)] ELSE queue

V(s) ==
  /\ sem' = [sem EXCEPT ![s] = @ + 1]
  /\ queue' = IF queue[s] = <<>> THEN queue ELSE [queue EXCEPT ![s] = Tail(@)]

(* The two ways the code goes from a VPN to an index of the page table,    *)
(* and the VPN an entry of the table is for (its EntryHI).                 *)
RefillIndex_OffByOne(v) == IF v = StackVpn THEN StackPage - 1 ELSE v
RefillIndex(v) == IF v = StackVpn THEN StackPage ELSE v
VpnToIndex(v) == IF v = StackVpn THEN StackPage ELSE IF v < TextPages THEN v ELSE -1
EntryVpn(p) == IF p = StackPage THEN StackVpn ELSE p

TlbClear == [a \in Uproc |-> [v \in Vpn |-> Absent]]

InvalidTable == [p \in Page |-> Invalid]

(* An entry made invalid, with every TLB entry gone; and an entry made     *)
(* valid, the only one in the TLB.  Neither can be interrupted.            *)
MarkPageNotValid_KeepsTlb(a, p) ==
  pte' = [pte EXCEPT ![a][p] = Invalid] /\ UNCHANGED tlb

MarkPageNotValid_KeepsEntry(a, p) ==
  UNCHANGED pte /\ tlb' = TlbClear

MarkPageNotValid(a, p) ==
  pte' = [pte EXCEPT ![a][p] = Invalid] /\ tlb' = TlbClear

MarkPagePresent(a, p, i) ==
  /\ pte' = [pte EXCEPT ![a][p] = i]
  /\ tlb' = [TlbClear EXCEPT ![a][EntryVpn(p)] = i]

NextFrame_NoWrap(i) == i + 1
NextFrame(i) == (i + 1) % PoolSize

(* FLASHWRITE and FLASHREAD of block p of a process, from or to frame i.   *)
FlashWrite_FirstBlock(a, p, i) == flash' = [flash EXCEPT ![a][0] = ram[i]]
FlashWrite(a, p, i) == flash' = [flash EXCEPT ![a][p] = ram[i]]
FlashRead(a, p, i) == ram' = [ram EXCEPT ![i] = flash[a][p]]

InitSwapStructs ==
  /\ swapPool = [i \in Frame |-> Free]
  /\ fifoNext = 0
  /\ sem = [s \in Sem |-> IF s \in Mutex THEN 1 ELSE 0]

PagerInit ==
  /\ InitSwapStructs
  /\ pc = [a \in Process |-> IF a = Instantiator THEN "test" ELSE IF a = Shell THEN "prog" ELSE "none"]
  /\ vpn = [a \in Uproc |-> 0]
  /\ ret = [a \in Uproc |-> "prog"]
  /\ slot = [a \in Uproc |-> 0]
  /\ queue = [s \in Sem |-> <<>>]
  /\ pte = [a \in Uproc |-> InvalidTable]
  /\ tlb = TlbClear
  /\ ram = [i \in Frame |-> Blank]
  /\ flash = [a \in Uproc |-> [p \in Page |-> <<a, p, 0>>]]
  /\ port = <<>>

(* An access that finds its translation.  SYS4 only reads its buffer and   *)
(* SYS5 only writes it.                                                    *)
Load(a) ==
  /\ At(a, "access") /\ tlb[a][vpn[a]] \in Frame /\ ret[a] \in {"prog", "tx_send"}
  /\ port' = <<a, VpnToIndex(vpn[a]), ram[tlb[a][vpn[a]]]>>
  /\ Goto(a, ret[a])
  /\ UNCHANGED <<vpn, ret, sem, queue, poolVars, pte, tlb, ram, flash>>

Store(a) ==
  /\ At(a, "access") /\ tlb[a][vpn[a]] \in Frame /\ ret[a] \in {"prog", "rx_next"}
  /\ \E x \in Val :
       LET p == VpnToIndex(vpn[a])
       IN  /\ ram' = [ram EXCEPT ![tlb[a][vpn[a]]] = <<a, p, x>>]
           /\ port' = <<a, p, <<a, p, x>>>>
  /\ Goto(a, ret[a])
  /\ UNCHANGED <<vpn, ret, sem, queue, poolVars, pte, tlb, flash>>

(* A miss: the handler loads an entry of the page table, valid or not.     *)
Refill(a) ==
  /\ At(a, "access") /\ tlb[a][vpn[a]] = Absent
  /\ LET p == RefillIndex(vpn[a])
     IN  tlb' = [tlb EXCEPT ![a][EntryVpn(p)] = pte[a][p]]
  /\ UNCHANGED <<pc, vpn, ret, sem, queue, poolVars, pte, ram, flash, port>>

(* The TLB is small: an entry may be replaced by another one.              *)
TlbReplace ==
  /\ \E a \in Uproc, v \in Vpn :
       /\ tlb[a][v] # Absent
       /\ tlb' = [tlb EXCEPT ![a][v] = Absent]
  /\ UNCHANGED <<pc, vpn, ret, sem, queue, poolVars, pte, ram, flash, port>>

(* An invalid entry: the exception is passed up to the pager.              *)
Fault(a) ==
  /\ At(a, "access") /\ tlb[a][vpn[a]] = Invalid
  /\ P(a, Pool) /\ Goto(a, "pg_pick")
  /\ UNCHANGED <<vpn, ret, poolVars, mmVars>>

(* The frame is chosen and its page, if any, made invalid.                 *)
PgPick(a) ==
  /\ At(a, "pg_pick")
  /\ LET i == fifoNext
         victim == swapPool[i]
     IN  IF VpnToIndex(vpn[a]) < 0
         THEN /\ V(Pool) /\ Goto(a, "die")
              /\ ret' = [ret EXCEPT ![a] = "prog"]
              /\ UNCHANGED <<poolVars, pte, tlb>>
         ELSE /\ slot' = [slot EXCEPT ![a] = i]
              /\ fifoNext' = NextFrame(i)
              /\ IF victim = Free
                 THEN /\ P(a, Flash(a)) /\ Goto(a, "pg_read")
                      /\ UNCHANGED <<pte, tlb>>
                 ELSE /\ MarkPageNotValid(victim[1], victim[2])
                      /\ P(a, Flash(victim[1])) /\ Goto(a, "pg_write")
              /\ UNCHANGED <<ret, swapPool>>
  /\ UNCHANGED <<vpn, ram, flash, port>>

(* The victim's page is written to its flash, or the device reports an     *)
(* error.                                                                  *)
PgWrite(a) ==
  /\ At(a, "pg_write")
  /\ LET victim == swapPool[slot[a]]
     IN  /\ V(Flash(victim[1]))
         /\ \/ /\ FlashWrite(victim[1], victim[2], slot[a])
               /\ Goto(a, "pg_own")
            \/ /\ FlashErrors
               /\ Goto(a, "pg_fail")
               /\ UNCHANGED flash
  /\ UNCHANGED <<vpn, ret, poolVars, pte, tlb, ram, port>>

PgOwn(a) ==
  /\ At(a, "pg_own")
  /\ P(a, Flash(a)) /\ Goto(a, "pg_read")
  /\ UNCHANGED <<vpn, ret, poolVars, mmVars>>

PgRead(a) ==
  /\ At(a, "pg_read")
  /\ V(Flash(a))
  /\ \/ /\ FlashRead(a, VpnToIndex(vpn[a]), slot[a])
        /\ Goto(a, "pg_map")
     \/ /\ FlashErrors
        /\ Goto(a, "pg_fail")
        /\ UNCHANGED ram
  /\ UNCHANGED <<vpn, ret, poolVars, pte, tlb, flash, port>>

(* The frame is recorded, the entry made valid in the table and in a TLB   *)
(* that is otherwise empty, and the access is tried again.                 *)
PgMap(a) ==
  /\ At(a, "pg_map")
  /\ LET p == VpnToIndex(vpn[a])
     IN  /\ swapPool' = [swapPool EXCEPT ![slot[a]] = <<a, p>>]
         /\ MarkPagePresent(a, p, slot[a])
  /\ V(Pool) /\ Goto(a, "access")
  /\ slot' = [slot EXCEPT ![a] = 0]
  /\ UNCHANGED <<vpn, ret, fifoNext, ram, flash, port>>

PgFail_KeepsPool(a) ==
  /\ At(a, "pg_fail")
  /\ Goto(a, "die")
  /\ ret' = [ret EXCEPT ![a] = "prog"]
  /\ slot' = [slot EXCEPT ![a] = 0]
  /\ UNCHANGED <<vpn, sem, queue, swapPool, fifoNext, mmVars>>

(* After an error the pager gives the pool back and terminates its caller. *)
PgFail(a) ==
  /\ At(a, "pg_fail")
  /\ V(Pool) /\ Goto(a, "die")
  /\ ret' = [ret EXCEPT ![a] = "prog"]
  /\ slot' = [slot EXCEPT ![a] = 0]
  /\ UNCHANGED <<vpn, swapPool, fifoNext, mmVars>>

(* An access that the TLB has an entry for, and the steps around it.       *)
Access(a) == Load(a) \/ Store(a) \/ Fault(a)

PagerSteps(a) ==
  \/ Refill(a)
  \/ PgPick(a) \/ PgWrite(a) \/ PgOwn(a) \/ PgRead(a) \/ PgMap(a) \/ PgFail(a)
=============================================================================
