---------------------------- MODULE SupportLevel ----------------------------
(***************************************************************************)
(* The support level: the instantiator, the shell and the programs it      *)
(* starts, their system calls and their orderly termination                *)
(* (phase3/initProc.c, phase3/sysSupport.c), over the pager.               *)
(*                                                                         *)
(* As in the repository, only the shell executes programs, and never one   *)
(* that is running.  A terminal operation that ends is one that succeeded: *)
(* the Nucleus wakes nobody after an error.                                *)
(***************************************************************************)
EXTENDS Pager

CONSTANTS
  MaxLives,   \* how often each ASID is launched: a bound of the model
  HoleUsed    \* whether programs use the first VPN that no page has

ASSUME SupportAssumption == MaxLives \in Nat \ {0} /\ HoleUsed \in BOOLEAN

VARIABLES
  leaving,    \* processes that woke their waiter but did not terminate yet
  lives       \* how often each ASID was launched

vars == <<pagerVars, leaving, lives>>

Address == {EntryVpn(p) : p \in Page} \cup IF HoleUsed THEN {HoleVpn} ELSE {}

Init ==
  /\ PagerInit
  /\ leaving = {}
  /\ lives = [a \in Uproc |-> IF a = Shell THEN 1 ELSE 0]

(* A program touches its memory.                                           *)
Touch(a) ==
  /\ At(a, "prog")
  /\ Goto(a, "access")
  /\ \E v \in Address : vpn' = [vpn EXCEPT ![a] = v]
  /\ ret' = [ret EXCEPT ![a] = "prog"]
  /\ UNCHANGED <<sem, queue, poolVars, mmVars, leaving, lives>>

(* SYS4: the characters are read from the buffer one at a time.            *)
WriteTerminal(a) ==
  /\ At(a, "prog")
  /\ P(a, Tx) /\ Goto(a, "tx_next")
  /\ \E v \in Address : vpn' = [vpn EXCEPT ![a] = v]
  /\ UNCHANGED <<ret, poolVars, mmVars, leaving, lives>>

TxNext(a) ==
  /\ At(a, "tx_next")
  /\ Goto(a, "access") /\ ret' = [ret EXCEPT ![a] = "tx_send"]
  /\ UNCHANGED <<vpn, sem, queue, poolVars, mmVars, leaving, lives>>

TxSend(a) ==
  /\ At(a, "tx_send")
  /\ Goto(a, "tx_next") /\ ret' = [ret EXCEPT ![a] = "prog"]
  /\ UNCHANGED <<vpn, sem, queue, poolVars, mmVars, leaving, lives>>

TxDone_KeepsMutex(a) ==
  /\ At(a, "tx_next")
  /\ Goto(a, "prog")
  /\ UNCHANGED <<vpn, ret, sem, queue, poolVars, mmVars, leaving, lives>>

TxDone(a) ==
  /\ At(a, "tx_next")
  /\ V(Tx) /\ Goto(a, "prog")
  /\ UNCHANGED <<vpn, ret, poolVars, mmVars, leaving, lives>>

(* SYS5: at least one character is received and stored.                    *)
ReadTerminal(a) ==
  /\ At(a, "prog")
  /\ P(a, Rx) /\ Goto(a, "rx_receive")
  /\ \E v \in Address : vpn' = [vpn EXCEPT ![a] = v]
  /\ UNCHANGED <<ret, poolVars, mmVars, leaving, lives>>

RxReceive(a) ==
  /\ At(a, "rx_receive") \/ At(a, "rx_next")
  /\ Goto(a, "access") /\ ret' = [ret EXCEPT ![a] = "rx_next"]
  /\ UNCHANGED <<vpn, sem, queue, poolVars, mmVars, leaving, lives>>

RxDone(a) ==
  /\ At(a, "rx_next")
  /\ V(Rx) /\ Goto(a, "prog") /\ ret' = [ret EXCEPT ![a] = "prog"]
  /\ UNCHANGED <<vpn, poolVars, mmVars, leaving, lives>>

(* SYS6: launchUproc, up to CREATEPROCESS, and then the P of doExecute.    *)
LaunchUproc(a) ==
  /\ pc[a] = "none" /\ lives[a] < MaxLives
  /\ pte' = [pte EXCEPT ![a] = InvalidTable]
  /\ lives' = [lives EXCEPT ![a] = @ + 1]

Execute ==
  /\ At(Shell, "prog")
  /\ \E a \in Uproc \ {Shell} :
       /\ LaunchUproc(a)
       /\ pc' = [pc EXCEPT ![Shell] = "execute", ![a] = "prog"]
  /\ UNCHANGED <<vpn, ret, sem, queue, poolVars, tlb, ram, flash, port, leaving>>

ExecuteWait_NoWait ==
  /\ At(Shell, "execute")
  /\ Goto(Shell, "prog")
  /\ UNCHANGED <<vpn, ret, sem, queue, poolVars, mmVars, leaving, lives>>

ExecuteWait ==
  /\ At(Shell, "execute")
  /\ P(Shell, ShellSem) /\ Goto(Shell, "prog")
  /\ UNCHANGED <<vpn, ret, poolVars, mmVars, leaving, lives>>

(* SYS2, a program trap, a malformed request: supTerminate is entered.     *)
Trap(a) ==
  /\ At(a, "prog")
  /\ Goto(a, "die")
  /\ UNCHANGED <<vpn, ret, sem, queue, poolVars, mmVars, leaving, lives>>

(* supTerminate: the frames are freed under the lock of the pool, then the *)
(* process that waits for this one is woken, then the process terminates.  *)
SupTerminate(a) ==
  /\ At(a, "die")
  /\ P(a, Pool) /\ Goto(a, "free")
  /\ UNCHANGED <<vpn, ret, poolVars, mmVars, leaving, lives>>

FreedFrames_OffByOne(a) ==
  [i \in Frame |-> IF i > 0 /\ swapPool[i] # Free /\ swapPool[i][1] = a THEN Free ELSE swapPool[i]]

FreedFrames(a) ==
  [i \in Frame |-> IF swapPool[i] # Free /\ swapPool[i][1] = a THEN Free ELSE swapPool[i]]

FreeFrames(a) ==
  /\ At(a, "free")
  /\ swapPool' = FreedFrames(a)
  /\ V(Pool) /\ Goto(a, "wake")
  /\ UNCHANGED <<vpn, ret, slot, fifoNext, mmVars, leaving, lives>>

Waiter_Swapped(a) == IF a = Shell THEN ShellSem ELSE Master
Waiter_AlwaysShell(a) == ShellSem
Waiter(a) == IF a = Shell THEN Master ELSE ShellSem

WakeWaiter(a) ==
  /\ At(a, "wake")
  /\ V(Waiter(a))
  /\ Goto(a, "none")
  /\ vpn' = [vpn EXCEPT ![a] = 0]
  /\ leaving' = leaving \cup {a}
  /\ UNCHANGED <<ret, poolVars, mmVars, lives>>

(* TERMPROCESS kills the caller and its descendants; a victim that waits   *)
(* on a semaphore gives its unit back.  The programs are children of the   *)
(* shell, which is a child of the instantiator.                            *)
Without(q, S) ==
  LET rest[i \in 0 .. Len(q)] ==
        IF i = 0 THEN <<>> ELSE IF q[i] \in S THEN rest[i - 1] ELSE Append(rest[i - 1], q[i])
  IN  rest[Len(q)]

Kill(S) ==
  /\ pc' = [a \in Process |-> IF a \in S THEN "none" ELSE pc[a]]
  /\ queue' = [s \in Sem |-> Without(queue[s], S)]
  /\ sem' = [s \in Sem |-> sem[s] + Len(queue[s]) - Len(queue'[s])]

Exit ==
  /\ \E a \in leaving :
       IF a = Shell
       THEN Kill(Uproc) /\ leaving' = {}
       ELSE leaving' = leaving \ {a} /\ UNCHANGED <<pc, sem, queue>>
  /\ UNCHANGED <<vpn, ret, poolVars, mmVars, lives>>

(* test: the instantiator waits for the shell and then ends with all that  *)
(* is left, which halts the system.                                        *)
Test ==
  /\ At(Instantiator, "test")
  /\ P(Instantiator, Master) /\ Goto(Instantiator, "end")
  /\ UNCHANGED <<vpn, ret, poolVars, mmVars, leaving, lives>>

End ==
  /\ At(Instantiator, "end")
  /\ Kill(Process) /\ leaving' = {}
  /\ UNCHANGED <<vpn, ret, poolVars, mmVars, lives>>

(* What a program decides to do, and what goes on by itself.               *)
Program(a) == Touch(a) \/ WriteTerminal(a) \/ ReadTerminal(a) \/ Trap(a)

Proceeds(a) ==
  \/ PagerSteps(a) /\ UNCHANGED <<leaving, lives>>
  \/ TxSend(a)
  \/ SupTerminate(a) \/ FreeFrames(a) \/ WakeWaiter(a)

Accesses(a) == Access(a) /\ UNCHANGED <<leaving, lives>>

Next ==
  \/ \E a \in Uproc : Program(a) \/ Proceeds(a) \/ Accesses(a)
  \/ \E a \in Uproc : TxNext(a) \/ TxDone(a) \/ RxReceive(a) \/ RxDone(a)
  \/ Execute \/ ExecuteWait \/ Exit \/ Test \/ End
  \/ TlbReplace /\ UNCHANGED <<leaving, lives>>

Spec == Init /\ [][Next]_vars
=============================================================================
