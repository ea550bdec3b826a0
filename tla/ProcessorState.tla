--------------------------- MODULE ProcessorState ---------------------------
(***************************************************************************)
(* The states of the processor under the Nucleus: what a trap leaves in    *)
(* BIOSDATAPAGE, what the handlers save in p_s, write into it while the    *)
(* process waits and load again, what is passed up to the support level    *)
(* and loaded back by it, and the CPU time that is charged on the way.     *)
(*                                                                         *)
(* Each action is an action of Nucleus together with what its handler does *)
(* to these states; the calls that leave the tables alone (GETTIME, a full *)
(* table, a passed-up exception) are actions here.  A handler takes no     *)
(* time, except the two that loop: the clock may advance between two turns *)
(* of them.  Two charges of CPU time in one handler are therefore one.     *)
(*                                                                         *)
(* "used" and "contexts" are history: the time a process was the current   *)
(* one, and the states it has to go on in, one for the program and one for *)
(* each exception handler of the support level it is in.                   *)
(*                                                                         *)
(* A state in memory that will be written before it is read again (p_s of  *)
(* the process that executes or is dead, BIOSDATAPAGE when its handler is  *)
(* over, a passed-up state when it has been loaded back) is NoState: what  *)
(* reads it too late or writes it too early then loads no process at all.  *)
(***************************************************************************)
EXTENDS Nucleus, DeviceAddress

CONSTANT
  MaxTime     \* bound: how far the time-of-day clock advances

\* The devices of the machine, of which terminals are no plain ones.
LineNumber == [disk |-> 3, flash |-> 4, ether |-> 5, printer |-> 6, tx |-> 7, rx |-> 7]

ASSUME DeviceAssumption ==
  /\ MaxTime \in Nat
  /\ PlainLine \subseteq DOMAIN LineNumber \ {"tx", "rx"}
  /\ DevNo \subseteq Number /\ TermNo \subseteq Number

\* The command register of a (sub-)device, and the index of the semaphore that
\* its interrupt raises.
HalfOf(d)       == IF d[1] = "tx" THEN "tx" ELSE "rx"
CommandOf(d)    == CommandAddr(LineNumber[d[1]], d[2], HalfOf(d))
SemRaisedFor(d) == HandlerSem(LineNumber[d[1]], d[2], HalfOf(d))

VARIABLES
  reg,              \* the state the processor executes a process in
  savedState,       \* BIOSDATAPAGE, while a handler that loops runs
  p_s,              \* the saved state of each PCB
  sup_exceptState,  \* the states passed up to each support structure
  p_time,           \* the CPU time of each PCB
  startTOD,         \* the time of the last charge or dispatch
  clock,            \* external: the time-of-day clock
  used,             \* history: the time each PCB was currentProcess
  contexts          \* history: the states each process has to go on in

states    == <<reg, savedState, p_s, sup_exceptState>>
times     == <<p_time, startTOD, clock, used>>
stateVars == <<states, times, contexts>>
allVars   == <<vars, stateVars>>

\* A state: whose it is, whether it executes the program or a handler, register
\* a0, and the program counter, counted in words from the instruction that the
\* process has to go on with.
State(p, level, pc, a0) == [owner |-> p, level |-> level, pc |-> pc, a0 |-> a0]

\* The processor executes no process.
NoState == State(NoProc, "none", 0, <<"none">>)

\* What CREATEPROCESS is given for a new process, and what main() builds.
StartState(p) == State(p, "program", 0, <<"none">>)

\* The handlers of the support level, GENERALEXCEPT and PGFAULTEXCEPT.
Handler == {"general", "pager"}

\* Processes with a support structure execute their program in user mode.
UserMode == p_supportStruct[currentProcess] /\ reg.level = "program"

-----------------------------------------------------------------------------
(* CPU time.                                                               *)

\* startTOD after a charge.  Mutant: the charge does not reset it.
ChargedUntil_Kept == startTOD
ChargedUntil == clock

UpdateCPUTime ==
  p_time' = IF currentProcess = NoProc THEN p_time
            ELSE [p_time EXCEPT ![currentProcess] = @ + clock - startTOD]

-----------------------------------------------------------------------------
(* Traps and LDST.                                                         *)

\* A process that traps with an ecall is one word before the instruction it has
\* to go on with, and the number of the call is in a0.
AtEcall == [reg EXCEPT !.pc = -1, !.a0 = <<"call">>]

\* exceptionHandler advances the program counter of every ecall.
Ecall == [AtEcall EXCEPT !.pc = @ + 1]

\* The states saved once the current process is saved in state s.
Saved(s) == [p_s EXCEPT ![currentProcess] = s]

\* The current process goes on in state s.
Load(s) == reg' = s /\ startTOD' = ChargedUntil

\* The scheduler has run, with these states saved: the process it chose, if
\* any, goes on in its own.
Dispatch(saved) ==
  IF cpu' = "run"
  THEN /\ reg' = saved[currentProcess']
       /\ p_s' = [saved EXCEPT ![currentProcess'] = NoState]
       /\ startTOD' = clock
  ELSE /\ reg' = NoState
       /\ p_s' = saved
       /\ startTOD' = ChargedUntil

\* The history of a system call of the current process: it has to go on with
\* the next instruction and the result in a0.
Returns(result) ==
  contexts' = [contexts EXCEPT ![currentProcess] =
                 Append(Front(@), [Last(@) EXCEPT !.pc = 0, !.a0 = result])]

\* A system call that has to return result.
Call(result) ==
  /\ Running /\ ~UserMode
  /\ UpdateCPUTime /\ Returns(result)
  /\ UNCHANGED <<clock, used, sup_exceptState, savedState>>

-----------------------------------------------------------------------------
(* System calls of processes in kernel mode.                               *)

\* CREATEPROCESS: the caller goes on with the p_pid of its child, which has a
\* state and a CPU time of its own.
CreateCall(prio, support) ==
  /\ Running /\ ~UserMode /\ pcbFree # <<>>
  /\ CreateProcess(prio, support)
  /\ LET child == Head(pcbFree)
         caller == [Ecall EXCEPT !.a0 = <<"child", child>>]
         saved == [p_s EXCEPT ![child] = StartState(child), ![currentProcess] = caller]
     IN  /\ Dispatch(saved)
         /\ p_time' = [p_time EXCEPT ![currentProcess] = @ + clock - startTOD, ![child] = 0]
         /\ used' = [used EXCEPT ![child] = 0]
         /\ contexts' = [contexts EXCEPT
              ![child] = <<StartState(child)>>,
              ![currentProcess] = Append(Front(@), [Last(@) EXCEPT !.pc = 0, !.a0 = <<"child", child>>])]
  /\ UNCHANGED <<clock, sup_exceptState, savedState>>

\* CREATEPROCESS without a free PCB.
CreateFails ==
  /\ Call(<<"answer">>) /\ pcbFree = <<>>
  /\ Load([Ecall EXCEPT !.a0 = <<"answer">>])
  /\ UNCHANGED <<vars, p_s>>

\* GETTIME, GETSUPPORTPTR and GETPROCESSID go on in savedState.
GetCall ==
  /\ Call(<<"answer">>)
  /\ Load([Ecall EXCEPT !.a0 = <<"answer">>])
  /\ UNCHANGED <<vars, p_s>>

\* TERMPROCESS of a pid that no process has goes on in savedState.
TermFails ==
  /\ Call(<<"call">>)
  /\ Load(Ecall)
  /\ UNCHANGED <<vars, p_s>>

PasserenCall(s) ==
  /\ Call(<<"call">>) /\ Passeren(s)
  /\ IF semVal'[s] < 0 THEN Dispatch(Saved(Ecall)) ELSE Load(Ecall) /\ UNCHANGED p_s

VerhogenCall(s) ==
  /\ Call(<<"call">>) /\ Verhogen(s)
  /\ Load(Ecall)
  /\ UNCHANGED p_s

\* The status of a device is named by the (sub-)device it is read from.
DoIOCall(d) ==
  /\ Call(d) /\ DoIO(d)
  /\ Dispatch(Saved(Ecall))

ClockWaitCall ==
  /\ Call(<<"zero">>) /\ ClockWait
  /\ Dispatch(Saved(Ecall))

\* A yielder that goes on at once does so from the scheduler, too.
YieldCall ==
  /\ Call(<<"call">>) /\ Yield
  /\ Dispatch(Saved(Ecall))

TermProcessCall(target) ==
  /\ Running /\ ~UserMode /\ TermProcess(target)
  /\ UpdateCPUTime /\ Returns(<<"call">>)
  /\ savedState' = Ecall
  /\ reg' = NoState /\ startTOD' = ChargedUntil
  /\ UNCHANGED <<clock, used, sup_exceptState, p_s>>

-----------------------------------------------------------------------------
(* Exceptions that are passed up, and terminations.                        *)

\* Mutant: both types of exception are saved in the same place.
Slot_One(type) == "general"

\* The place in sup_exceptState, and in sup_exceptContext.
Slot(type) == type

\* passUpOrDie with a support structure: state s of the process is saved there
\* and the context of the handler is loaded.
PassUp(type, s) ==
  LET handler == State(currentProcess, type, 0, <<"none">>) IN
  /\ p_supportStruct[currentProcess]
  /\ sup_exceptState' = [sup_exceptState EXCEPT ![currentProcess][Slot(type)] = s]
  /\ UpdateCPUTime
  /\ Load(handler)
  /\ contexts' = [contexts EXCEPT ![currentProcess] = Append(@, handler)]
  /\ UNCHANGED <<vars, clock, used, p_s, savedState>>

\* A call of the support level, by a program.
SupportCall == Running /\ UserMode /\ PassUp("general", Ecall)

\* A page fault, of a program or of the handler of its call.
PageFault == Running /\ reg.level # "pager" /\ PassUp("pager", reg)

\* The end of supSyscallHandler: the program goes on with the result, one more
\* word behind its ecall.  It has to go on with the next instruction.
SupportReturn ==
  /\ Running /\ reg.level = "general"
  /\ reg' = [sup_exceptState[currentProcess][Slot("general")] EXCEPT
               !.a0 = <<"result">>, !.pc = @ + 1]
  /\ contexts' = [contexts EXCEPT ![currentProcess] =
                    <<[Head(@) EXCEPT !.a0 = <<"result">>, !.pc = 0]>>]
  /\ sup_exceptState' = [sup_exceptState EXCEPT ![currentProcess][Slot("general")] = NoState]
  /\ UNCHANGED <<vars, times, savedState, p_s>>

\* The end of pager.
PagerReturn ==
  /\ Running /\ reg.level = "pager"
  /\ reg' = sup_exceptState[currentProcess][Slot("pager")]
  /\ sup_exceptState' = [sup_exceptState EXCEPT ![currentProcess][Slot("pager")] = NoState]
  /\ contexts' = [contexts EXCEPT ![currentProcess] = Front(@)]
  /\ UNCHANGED <<vars, times, savedState, p_s>>

\* An exception of a process without a support structure.
Die ==
  /\ PassUpOrDie
  /\ UpdateCPUTime
  /\ savedState' = reg
  /\ reg' = NoState /\ startTOD' = ChargedUntil
  /\ UNCHANGED <<clock, used, contexts, p_s, sup_exceptState>>

TerminateChildCall ==
  /\ TerminateChild
  /\ UNCHANGED stateVars

\* A handler that looped ends: the process it interrupted, or that called it,
\* goes on in savedState; otherwise the scheduler has chosen one.
EndLoop(saved) ==
  /\ IF currentProcess' = currentProcess /\ currentProcess # NoProc
     THEN reg' = savedState /\ p_s' = saved /\ UNCHANGED startTOD
     ELSE /\ reg' = IF cpu' = "run" THEN saved[currentProcess'] ELSE NoState
          /\ p_s' = IF cpu' = "run" THEN [saved EXCEPT ![currentProcess'] = NoState] ELSE saved
          /\ startTOD' = IF cpu' = "run" THEN clock ELSE startTOD
  /\ savedState' = NoState

\* The return of a call of terminateProcess, and of TERMPROCESS.
TerminateSelfCall ==
  LET p     == Head(calls)
      saved == [p_s EXCEPT ![p] = NoState]
  IN
  /\ TerminateSelf
  /\ IF cpu' = "terminate" THEN p_s' = saved /\ UNCHANGED <<reg, savedState, startTOD>>
                           ELSE EndLoop(saved)
  /\ contexts' = [contexts EXCEPT ![p] = <<StartState(p)>>]
  /\ sup_exceptState' = [sup_exceptState EXCEPT ![p] = [type \in Handler |-> NoState]]
  /\ UNCHANGED <<p_time, clock, used>>

-----------------------------------------------------------------------------
(* Interrupts.                                                             *)

TimeSliceCall ==
  /\ TimeSlice
  /\ UpdateCPUTime
  /\ Dispatch(Saved(reg))
  /\ UNCHANGED <<clock, used, contexts, savedState, sup_exceptState>>

IntervalTimerCall ==
  /\ IntervalTimer
  /\ UpdateCPUTime
  /\ savedState' = reg
  /\ reg' = NoState /\ startTOD' = ChargedUntil
  /\ UNCHANGED <<clock, used, contexts, p_s, sup_exceptState>>

TickWakeCall ==
  /\ TickWake
  /\ p_s' = [p_s EXCEPT ![Head(s_procq[Clock])].a0 = <<"zero">>]
  /\ UNCHANGED <<reg, savedState, sup_exceptState, times, contexts>>

TickEndCall ==
  /\ TickEnd
  /\ EndLoop(p_s)
  /\ UNCHANGED <<sup_exceptState, p_time, clock, used, contexts>>

\* The processes woken by sub-devices ds find the status of theirs in a0.
Answered(ds) ==
  [p \in Pcb |-> IF \E d \in Woken(ds) : Head(s_procq[d]) = p
                 THEN [p_s[p] EXCEPT !.a0 = CHOOSE d \in Woken(ds) : Head(s_procq[d]) = p]
                 ELSE p_s[p]]

\* The handler of sub-devices ds: the process that was interrupted goes on as
\* it was; otherwise the scheduler chooses one.
Answer(ds) ==
  /\ UpdateCPUTime
  /\ IF currentProcess # NoProc
     THEN Load(reg) /\ p_s' = Answered(ds)
     ELSE Dispatch(Answered(ds))
  /\ UNCHANGED <<clock, used, contexts, savedState, sup_exceptState>>

DeviceCall(line, n) == DeviceInterrupt(line, n) /\ Answer({<<line, n>>})

TerminalCall(n) ==
  /\ TerminalInterrupt(n)
  /\ Answer({d \in {<<"tx", n>>, <<"rx", n>>} : device[d] = "done"})

\* An interrupt with an empty bit map or an unknown code: back to where it came
\* from, which without a current process is the same WAIT.
Spurious ==
  /\ Interruptible
  /\ UpdateCPUTime
  /\ startTOD' = ChargedUntil
  /\ UNCHANGED <<vars, clock, used, contexts, states>>

DeviceEnds(d) == (DeviceDone(d) \/ DeviceError(d)) /\ UNCHANGED stateVars

\* External: time passes.
TimePasses ==
  /\ cpu \notin {"halt", "panic"}
  /\ clock < MaxTime
  /\ clock' = clock + 1
  /\ used' = IF currentProcess = NoProc THEN used
             ELSE [used EXCEPT ![currentProcess] = @ + 1]
  /\ UNCHANGED <<vars, states, p_time, startTOD, contexts>>

-----------------------------------------------------------------------------
PSInit ==
  /\ Init
  /\ reg = StartState(currentProcess)
  /\ savedState = NoState
  /\ p_s = [p \in Pcb |-> NoState]
  /\ sup_exceptState = [p \in Pcb |-> [type \in Handler |-> NoState]]
  /\ p_time = [p \in Pcb |-> 0]
  /\ startTOD = 0
  /\ clock = 0
  /\ used = [p \in Pcb |-> 0]
  /\ contexts = [p \in Pcb |-> <<StartState(p)>>]

PSNext ==
  \/ \E prio \in Prio, support \in Support : CreateCall(prio, support)
  \/ CreateFails
  \/ GetCall
  \/ TermFails
  \/ \E s \in Normal : PasserenCall(s) \/ VerhogenCall(s)
  \/ \E d \in Dev : DoIOCall(d)
  \/ ClockWaitCall
  \/ YieldCall
  \/ \E p \in Pcb : TermProcessCall(p)
  \/ SupportCall
  \/ PageFault
  \/ SupportReturn
  \/ PagerReturn
  \/ Die
  \/ TerminateChildCall
  \/ TerminateSelfCall
  \/ TimeSliceCall
  \/ IntervalTimerCall
  \/ TickWakeCall
  \/ TickEndCall
  \/ \E line \in PlainLine, n \in DevNo : DeviceCall(line, n)
  \/ \E n \in TermNo : TerminalCall(n)
  \/ \E d \in Dev : DeviceEnds(d)
  \/ Spurious
  \/ TimePasses

PSSpec == PSInit /\ [][PSNext]_allVars

-----------------------------------------------------------------------------
(* What the Nucleus owes to a process.                                     *)

(* A process executes in the state it has to go on in, whatever ran in     *)
(* between and however deep it is in the handlers of the support level     *)
(* (copyState and LDST in exceptions.c, interrupts.c and scheduler.c): it  *)
(* is its own, at the instruction that follows its last system call or     *)
(* where it was interrupted, with the result of that call in a0.  The      *)
(* exception is a program with the result of a support call: its program   *)
(* counter is advanced by exceptionHandler (exceptions.c:248) and again by *)
(* supSyscallHandler (sysSupport.c:137), so that it leaves out the next    *)
(* instruction, which scelte_implementativ2.md:78 says is executed.  Then  *)
(* and only then a process may be further than it should, by one word.     *)
ResumesButForAWord ==
  Running =>
    LET owed == Last(contexts[currentProcess])
    IN  \/ reg = owed
        \/ owed.a0 = <<"result">> /\ reg = [owed EXCEPT !.pc = @ + 1]

(* Every instant during which a process is current is charged to it, once, *)
(* at the latest when it is next charged; the time the processor idles and *)
(* the time of others is not (exceptions.c:84, 111, interrupts.c:76,       *)
(* scheduler.c:45).                                                        *)
TimeChargedOnce ==
  \A p \in activeProcs :
    used[p] = p_time[p] + (IF p = currentProcess THEN clock - startTOD ELSE 0)

(* A process that DOIO has blocked is on the queue of the semaphore that   *)
(* the interrupt handler raises for its (sub-)device, and for no other:    *)
(* both compute an index of devSems, the one from the address of the       *)
(* command register (exceptions.c:409), the other from the line and the    *)
(* number of the device (interrupts.c:163, 189, 212).                      *)
OwnSemaphore ==
  \A p \in Pcb : p_semAdd[p] \in Dev =>
    \A d \in Dev : SemRaisedFor(d) = DoIOSem(CommandOf(p_semAdd[p])) <=> d = p_semAdd[p]
=============================================================================
