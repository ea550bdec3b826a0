------------------------ MODULE ProcessorState_proofs ------------------------
(***************************************************************************)
(* What ProcessorState promises, for every number of processes and devices *)
(* and however long the machine runs.  Its steps are steps of Nucleus, so  *)
(* that the inductive invariant of Nucleus_proofs holds beside the states. *)
(***************************************************************************)
EXTENDS ProcessorState, Nucleus_proofs

-----------------------------------------------------------------------------
(* The index arithmetic of DOIO and of the interrupt handler agrees.       *)

(* DOIO recovers line, number and register from the address of a register. *)
LEMMA Decoded ==
  ASSUME NEW line \in Line, NEW dev \in Number, NEW half \in Half
  PROVE  LET offset == CommandAddr(line, dev, half) - START_DEVREG IN
         /\ offset \div 128 = line - 3
         /\ (offset % 128) \div 16 = dev
         /\ (offset % 16) \div WORDLEN = CommandWord(half)
  BY SMTT(30) DEF Line, Number, Half, CommandAddr, DEV_REG_BASE, CommandWord, START_DEVREG, WORDLEN

(* The semaphore that DOIO chooses is the one of the interrupt handler.    *)
LEMMA SameSemaphore ==
  ASSUME NEW s \in SubDevice
  PROVE  DoIOSem(CommandAddr(s[1], s[2], s[3])) = HandlerSem(s[1], s[2], s[3])
<1>1. s[1] \in Line /\ s[2] \in Number /\ s[3] \in Half
  BY DEF SubDevice
<1>2. (s[1] - 3) + 3 = s[1]
  BY <1>1 DEF Line
<1>3. CommandWord(s[3]) = 3 <=> s[3] = "tx"
  BY <1>1 DEF CommandWord, Half
<1> QED
  BY <1>1, <1>2, <1>3, Decoded DEF DoIOSem, HandlerSem

(* Every sub-device of every line has one semaphore of devSems for itself, *)
(* on which its commands block and its interrupts wake.                    *)
THEOREM SemaphoresApart == OneSemaphoreEach
<1> SUFFICES ASSUME NEW s \in SubDevice, NEW t \in SubDevice
             PROVE  LET sem == HandlerSem(s[1], s[2], s[3]) IN
                    /\ sem \in 0 .. TOT_SEMS - 1 /\ sem # PSEUDOCLK_SEM
                    /\ HandlerSem(t[1], t[2], t[3]) = sem => t = s
  BY SameSemaphore DEF OneSemaphoreEach
<1>1. /\ s[1] \in Line /\ s[2] \in Number /\ s[3] \in Half
      /\ t[1] \in Line /\ t[2] \in Number /\ t[3] \in Half
      /\ s[1] # 7 => s[3] = "rx"
      /\ t[1] # 7 => t[3] = "rx"
      /\ s = <<s[1], s[2], s[3]>> /\ t = <<t[1], t[2], t[3]>>
  BY DEF SubDevice
<1>2. HandlerSem(s[1], s[2], s[3]) \in 0 .. 47
  BY <1>1 DEF HandlerSem, DEV_SEM_BASE, TERM_TX_SEM, TERM_RX_SEM, Line, Number
<1>3. ASSUME HandlerSem(t[1], t[2], t[3]) = HandlerSem(s[1], s[2], s[3])
      PROVE  t[1] = s[1] /\ t[2] = s[2] /\ t[3] = s[3]
  BY <1>1, <1>3 DEF HandlerSem, DEV_SEM_BASE, TERM_TX_SEM, TERM_RX_SEM, Line, Number, Half
<1> QED
  BY <1>1, <1>2, <1>3 DEF TOT_SEMS, PSEUDOCLK_SEM

-----------------------------------------------------------------------------
(* The states.                                                             *)

(* Each action is an action of Nucleus or leaves its variables alone.      *)
LEMMA StepIsNext == [PSNext]_allVars => [Next]_vars
<1> SUFFICES ASSUME [PSNext]_allVars
             PROVE  [Next]_vars
  OBVIOUS
<1>1. CASE \E prio \in Prio, support \in Support : CreateCall(prio, support)
  BY <1>1 DEF CreateCall, Next
<1>2. CASE CreateFails \/ GetCall \/ TermFails
  BY <1>2 DEF CreateFails, GetCall, TermFails
<1>3. CASE \E s \in Normal : PasserenCall(s) \/ VerhogenCall(s)
  BY <1>3 DEF PasserenCall, VerhogenCall, Next
<1>4. CASE \E d \in Dev : DoIOCall(d)
  BY <1>4 DEF DoIOCall, Next
<1>5. CASE ClockWaitCall \/ YieldCall
  BY <1>5 DEF ClockWaitCall, YieldCall, Next
<1>6. CASE \E p \in Pcb : TermProcessCall(p)
  BY <1>6 DEF TermProcessCall, Next
<1>7. CASE SupportCall \/ PageFault
  BY <1>7 DEF SupportCall, PageFault, PassUp
<1>8. CASE SupportReturn \/ PagerReturn
  BY <1>8 DEF SupportReturn, PagerReturn
<1>9. CASE Die \/ TerminateChildCall \/ TerminateSelfCall
  BY <1>9 DEF Die, TerminateChildCall, TerminateSelfCall, Next
<1>10. CASE TimeSliceCall \/ IntervalTimerCall \/ TickWakeCall \/ TickEndCall
  BY <1>10 DEF TimeSliceCall, IntervalTimerCall, TickWakeCall, TickEndCall, Next
<1>11. CASE \E line \in PlainLine, n \in DevNo : DeviceCall(line, n)
  BY <1>11 DEF DeviceCall, Next
<1>12. CASE \E n \in TermNo : TerminalCall(n)
  BY <1>12 DEF TerminalCall, Next
<1>13. CASE \E d \in Dev : DeviceEnds(d)
  BY <1>13 DEF DeviceEnds, Next
<1>14. CASE Spurious \/ TimePasses
  BY <1>14 DEF Spurious, TimePasses
<1>15. CASE UNCHANGED allVars
  BY <1>15 DEF allVars
<1> QED
  BY <1>1, <1>2, <1>3, <1>4, <1>5, <1>6, <1>7, <1>8, <1>9, <1>10, <1>11, <1>12, <1>13, <1>14,
     <1>15 DEF PSNext

LEMMA PSKeepsIInv == PSSpec => []IInv
<1>1. PSInit => IInv
  BY InitIInv DEF PSInit
<1>2. IInv /\ [PSNext]_allVars => IInv'
  BY StepIsNext, NextIInv
<1> QED BY <1>1, <1>2, PTL DEF PSSpec

-----------------------------------------------------------------------------
(* The semaphore of a device.                                              *)

(* The semaphore that the interrupt handler raises for a device is the one *)
(* DOIO blocks its caller on, whatever devices the machine has.            *)
LEMMA DevicesApart ==
  ASSUME NEW d \in Dev, NEW e \in Dev
  PROVE  SemRaisedFor(d) = DoIOSem(CommandOf(e)) <=> d = e
<1> DEFINE place(x) == <<LineNumber[x[1]], x[2], HalfOf(x)>>
<1>1. ASSUME NEW x \in Dev
      PROVE  /\ x = <<x[1], x[2]>> /\ x[2] \in Number
             /\ x[1] \in {"disk", "flash", "ether", "printer", "tx", "rx"}
  <2>1. PlainLine \subseteq {"disk", "flash", "ether", "printer"}
    BY DeviceAssumption DEF LineNumber
  <2>2. x \in {"disk", "flash", "ether", "printer", "tx", "rx"} \X Number
    BY <2>1, DeviceAssumption DEF Dev, PlainDev, TxDev, RxDev
  <2> QED BY <2>2
<1>2. /\ LineNumber["disk"] = 3 /\ LineNumber["flash"] = 4 /\ LineNumber["ether"] = 5
      /\ LineNumber["printer"] = 6 /\ LineNumber["tx"] = 7 /\ LineNumber["rx"] = 7
  BY DEF LineNumber
<1>3. ASSUME NEW x \in Dev
      PROVE  place(x) \in SubDevice
  <2>1. LineNumber[x[1]] \in Line /\ x[2] \in Number /\ HalfOf(x) \in Half
    BY <1>1, <1>2 DEF HalfOf, Line, Half
  <2>2. LineNumber[x[1]] # 7 => HalfOf(x) = "rx"
    BY <1>1, <1>2 DEF HalfOf
  <2> QED BY <2>1, <2>2 DEF SubDevice
<1>4. place(d) = place(e) => d = e
  <2> SUFFICES ASSUME LineNumber[d[1]] = LineNumber[e[1]], d[2] = e[2], HalfOf(d) = HalfOf(e)
               PROVE  d = e
    OBVIOUS
  <2>1. d[1] = e[1]
    BY <1>1, <1>2 DEF HalfOf
  <2> QED BY <1>1, <2>1
<1>5. /\ SemRaisedFor(d) = HandlerSem(place(d)[1], place(d)[2], place(d)[3])
      /\ DoIOSem(CommandOf(e)) = DoIOSem(CommandAddr(place(e)[1], place(e)[2], place(e)[3]))
  BY DEF SemRaisedFor, CommandOf
<1> HIDE DEF place
<1>6. /\ DoIOSem(CommandOf(e)) = HandlerSem(place(e)[1], place(e)[2], place(e)[3])
      /\ SemRaisedFor(d) = DoIOSem(CommandOf(e)) => place(d) = place(e)
  BY <1>3, <1>5, SemaphoresApart DEF OneSemaphoreEach
<1>7. d = e => SemRaisedFor(d) = DoIOSem(CommandOf(e))
  BY <1>5, <1>6
<1> QED BY <1>4, <1>6, <1>7

(* Whoever waits for a device waits where its interrupt wakes.             *)
THEOREM DevicesWakeTheirOwn == PSSpec => []OwnSemaphore
<1>1. OwnSemaphore
  BY DevicesApart DEF OwnSemaphore
<1> QED BY <1>1, PTL

-----------------------------------------------------------------------------
(* CPU time.                                                               *)

TimeTypes ==
  /\ clock \in Int /\ startTOD \in Int
  /\ p_time \in [Pcb -> Int] /\ used \in [Pcb -> Int]

TimeInv == TimeTypes /\ TimeChargedOnce

LEMMA Processes ==
  ASSUME IInv
  PROVE  /\ activeProcs \subseteq Pcb /\ NoProc \notin Pcb
         /\ currentProcess \in Pcb \cup {NoProc}
         /\ Running => currentProcess \in Pcb
         /\ pcbFree \in Seq(Pcb)
  BY PcbAssumption DEF IInv, PlacedNow, Placed, QueueTypes, CpuTypes, Running

(* After a charge nothing is owed to anyone, whoever is dispatched.        *)
LEMMA Charged ==
  ASSUME IInv, TimeInv, UpdateCPUTime, startTOD' = ChargedUntil,
         UNCHANGED <<clock, used>>, activeProcs' \subseteq activeProcs
  PROVE  TimeInv'
<1>1. p_time' = [p \in Pcb |-> p_time[p] + (IF p = currentProcess THEN clock - startTOD ELSE 0)]
  <2>1. CASE currentProcess = NoProc
    <3>1. \A p \in Pcb : p # currentProcess /\ p_time[p] + 0 = p_time[p]
      BY <2>1, Processes DEF TimeInv, TimeTypes
    <3>2. p_time' = p_time /\ p_time = [p \in Pcb |-> p_time[p]]
      BY <2>1 DEF UpdateCPUTime, TimeInv, TimeTypes
    <3> QED BY <3>1, <3>2
  <2>2. CASE currentProcess # NoProc
    <3>1. p_time' = [p_time EXCEPT ![currentProcess] = @ + clock - startTOD]
      BY <2>2 DEF UpdateCPUTime
    <3>2. \A p \in Pcb : p_time[p] + 0 = p_time[p] /\ p_time[p] + clock - startTOD = p_time[p] + (clock - startTOD)
      BY DEF TimeInv, TimeTypes
    <3> QED BY <3>1, <3>2 DEF TimeInv, TimeTypes
  <2> QED BY <2>1, <2>2
<1>2. TimeTypes'
  BY <1>1 DEF TimeInv, TimeTypes, ChargedUntil
<1>3. ASSUME NEW p \in activeProcs'
      PROVE  used'[p] = p_time'[p] + (IF p = currentProcess' THEN clock' - startTOD' ELSE 0)
  <2>1. p \in activeProcs /\ p \in Pcb
    BY <1>3, Processes
  <2>2. p_time'[p] = used'[p]
    BY <1>1, <2>1 DEF TimeInv, TimeChargedOnce
  <2>3. clock' - startTOD' = 0 /\ used'[p] \in Int
    BY <2>1 DEF TimeInv, TimeTypes, ChargedUntil
  <2> QED BY <2>2, <2>3
<1> QED BY <1>2, <1>3 DEF TimeInv, TimeChargedOnce

(* Nothing changes while the same processes are live and current.          *)
LEMMA TimeFrame ==
  ASSUME TimeInv, UNCHANGED <<times, activeProcs, currentProcess>>
  PROVE  TimeInv'
  BY DEF TimeInv, TimeTypes, TimeChargedOnce, times

LEMMA DispatchCharges ==
  ASSUME NEW saved, Dispatch(saved)
  PROVE  startTOD' = ChargedUntil
  BY DEF Dispatch, ChargedUntil

(* The end of a loop charges nothing: it has been charged, and only a      *)
(* process that becomes current then needs a new start.                    *)
LEMMA EndLoopTimes ==
  ASSUME IInv, TimeInv, NEW saved, EndLoop(saved),
         UNCHANGED <<p_time, clock, used>>, activeProcs' \subseteq activeProcs,
         \/ currentProcess' = currentProcess
         \/ currentProcess \notin activeProcs'
         \/ currentProcess = NoProc,
         cpu' = "run" \/ currentProcess' = NoProc \/ currentProcess' = currentProcess
  PROVE  TimeInv'
<1>1. TimeTypes'
  BY DEF TimeInv, TimeTypes, EndLoop
<1>2. ASSUME NEW p \in activeProcs'
      PROVE  used'[p] = p_time'[p] + (IF p = currentProcess' THEN clock' - startTOD' ELSE 0)
  <2>1. /\ p \in activeProcs /\ p \in Pcb /\ p # NoProc
        /\ used[p] \in Int /\ p_time[p] \in Int
        /\ used[p] = p_time[p] + (IF p = currentProcess THEN clock - startTOD ELSE 0)
    BY <1>2, Processes DEF TimeInv, TimeTypes, TimeChargedOnce
  <2>2. CASE currentProcess' = currentProcess /\ currentProcess # NoProc
    BY <2>1, <2>2 DEF EndLoop
  <2>3. CASE ~(currentProcess' = currentProcess /\ currentProcess # NoProc)
    <3>1. p # currentProcess /\ used[p] = p_time[p]
      BY <1>2, <2>1, <2>3
    <3>2. p = currentProcess' => cpu' = "run"
      BY <2>1, <3>1
    <3>3. cpu' = "run" => startTOD' = clock'
      BY <2>3 DEF EndLoop
    <3>4. clock' \in Int
      BY DEF TimeInv, TimeTypes
    <3> QED BY <2>1, <3>1, <3>2, <3>3, <3>4
  <2> QED BY <2>2, <2>3
<1> QED BY <1>1, <1>2 DEF TimeInv, TimeChargedOnce

LEMMA NextTimeInv == IInv /\ TimeInv /\ [PSNext]_allVars => TimeInv'
<1> SUFFICES ASSUME IInv, TimeInv, [PSNext]_allVars
             PROVE  TimeInv'
  OBVIOUS
<1>1. ASSUME NEW prio \in Prio, NEW support \in Support, CreateCall(prio, support)
      PROVE  TimeInv'
  <2> DEFINE child == Head(pcbFree)
  <2>1. /\ child \in Pcb /\ currentProcess \in Pcb
        /\ activeProcs' = activeProcs \cup {child}
    BY <1>1, Processes DEF CreateCall, CreateProcess
  <2>2. /\ p_time' = [p_time EXCEPT ![currentProcess] = @ + clock - startTOD, ![child] = 0]
        /\ used' = [used EXCEPT ![child] = 0]
        /\ clock' = clock /\ startTOD' = clock
    BY <1>1, DispatchCharges DEF CreateCall, ChargedUntil
  <2> HIDE DEF child
  <2>3. TimeTypes'
    BY <2>1, <2>2 DEF TimeInv, TimeTypes
  <2>4. ASSUME NEW p \in activeProcs'
        PROVE  used'[p] = p_time'[p] + (IF p = currentProcess' THEN clock' - startTOD' ELSE 0)
    <3>1. p \in Pcb /\ (p = child \/ p \in activeProcs)
      BY <2>1, <2>4, Processes
    <3>2. used'[p] = p_time'[p] /\ used'[p] \in Int /\ clock' - startTOD' = 0
      BY <2>1, <2>2, <2>3, <3>1 DEF TimeInv, TimeTypes, TimeChargedOnce
    <3> QED BY <3>2
  <2> QED BY <2>3, <2>4 DEF TimeInv, TimeChargedOnce
<1>2. CASE CreateFails \/ GetCall \/ TermFails
  BY <1>2, Charged DEF CreateFails, GetCall, TermFails, Call, Load, vars, procs
<1>3. ASSUME NEW s \in Normal, PasserenCall(s) \/ VerhogenCall(s)
      PROVE  TimeInv'
  BY <1>3, Charged, DispatchCharges
     DEF PasserenCall, VerhogenCall, Passeren, Verhogen, Call, Load, procs
<1>4. ASSUME NEW d \in Dev, DoIOCall(d)
      PROVE  TimeInv'
  BY <1>4, Charged, DispatchCharges DEF DoIOCall, DoIO, Call, procs
<1>5. CASE ClockWaitCall \/ YieldCall
  BY <1>5, Charged, DispatchCharges DEF ClockWaitCall, YieldCall, ClockWait, Yield, Call, procs
<1>6. ASSUME NEW p \in Pcb, TermProcessCall(p)
      PROVE  TimeInv'
  BY <1>6, Charged DEF TermProcessCall, TermProcess, Terminate
<1>7. CASE SupportCall \/ PageFault
  BY <1>7, Charged DEF SupportCall, PageFault, PassUp, Load, vars, procs
<1>8. CASE SupportReturn \/ PagerReturn
  BY <1>8, TimeFrame DEF SupportReturn, PagerReturn, vars, procs
<1>9. CASE Die
  BY <1>9, Charged DEF Die, PassUpOrDie, Terminate
<1>10. CASE TerminateChildCall
  BY <1>10, TimeFrame DEF TerminateChildCall, TerminateChild, stateVars
<1>11. CASE TerminateSelfCall
  <2> DEFINE p == Head(calls)
             cur == IF p = currentProcess THEN NoProc ELSE currentProcess
  <2>1. /\ activeProcs' = activeProcs \ {p}
        /\ UNCHANGED <<p_time, clock, used>>
    BY <1>11 DEF TerminateSelfCall, TerminateSelf
  <2>2. CASE Tail(calls) = <<>>
    <3>1. PICK rq, live, soft : ResumeOrSchedule(cur, rq, live, soft)
      BY <1>11, <2>2 DEF TerminateSelfCall, TerminateSelf
    <3>2. cpu' # "terminate"
      BY <3>1 DEF ResumeOrSchedule, Scheduler
    <3>3. EndLoop([p_s EXCEPT ![p] = NoState])
      BY <1>11, <3>2 DEF TerminateSelfCall
    <3>4. \/ currentProcess' = currentProcess
          \/ currentProcess = p
          \/ currentProcess = NoProc
      BY <3>1 DEF ResumeOrSchedule
    <3>5. cpu' = "run" \/ currentProcess' = NoProc
      BY <3>1 DEF ResumeOrSchedule, Scheduler
    <3> QED BY <2>1, <3>3, <3>4, <3>5, EndLoopTimes
  <2>3. CASE Tail(calls) # <<>>
    <3>1. currentProcess' = cur /\ cpu' = "terminate" /\ startTOD' = startTOD
      BY <1>11, <2>3 DEF TerminateSelfCall, TerminateSelf
    <3> QED BY <2>1, <3>1, Processes DEF TimeInv, TimeTypes, TimeChargedOnce
  <2> QED BY <2>2, <2>3
<1>12. CASE TimeSliceCall
  BY <1>12, Charged, DispatchCharges DEF TimeSliceCall, TimeSlice, procs
<1>13. CASE IntervalTimerCall
  BY <1>13, Charged DEF IntervalTimerCall, IntervalTimer, procs
<1>14. CASE TickWakeCall
  BY <1>14, TimeFrame DEF TickWakeCall, TickWake, procs
<1>15. CASE TickEndCall
  <2>1. PICK rq, live, soft : ResumeOrSchedule(currentProcess, rq, live, soft)
    BY <1>15 DEF TickEndCall, TickEnd
  <2>2. /\ EndLoop(p_s) /\ UNCHANGED <<p_time, clock, used, activeProcs>>
    BY <1>15 DEF TickEndCall, TickEnd, procs
  <2>3. /\ currentProcess' = currentProcess \/ currentProcess = NoProc
        /\ cpu' = "run" \/ currentProcess' = NoProc
    BY <2>1 DEF ResumeOrSchedule, Scheduler
  <2> QED BY <2>2, <2>3, EndLoopTimes
<1>16. ASSUME NEW ds, Answer(ds), UNCHANGED activeProcs
       PROVE  TimeInv'
  BY <1>16, Charged, DispatchCharges DEF Answer, Load
<1>17. ASSUME NEW line \in PlainLine, NEW n \in DevNo, DeviceCall(line, n)
       PROVE  TimeInv'
  BY <1>16, <1>17 DEF DeviceCall, DeviceInterrupt, Acknowledge, procs
<1>18. ASSUME NEW n \in TermNo, TerminalCall(n)
       PROVE  TimeInv'
  BY <1>16, <1>18 DEF TerminalCall, TerminalInterrupt, Acknowledge, procs
<1>19. ASSUME NEW d \in Dev, DeviceEnds(d)
       PROVE  TimeInv'
  BY <1>19, TimeFrame DEF DeviceEnds, DeviceDone, DeviceError, stateVars, procs
<1>20. CASE Spurious
  BY <1>20, Charged DEF Spurious, vars, procs
<1>21. CASE TimePasses
  <2>1. /\ UNCHANGED <<activeProcs, currentProcess, p_time, startTOD>>
        /\ clock' = clock + 1
        /\ used' = [p \in Pcb |-> used[p] + (IF p = currentProcess THEN 1 ELSE 0)]
    <3>1. \A p \in Pcb : used[p] + 0 = used[p] /\ (currentProcess = NoProc => p # currentProcess)
      BY Processes DEF TimeInv, TimeTypes
    <3>2. used = [p \in Pcb |-> used[p]]
      BY DEF TimeInv, TimeTypes
    <3> QED BY <1>21, <3>1, <3>2 DEF TimePasses, vars, procs
  <2>2. TimeTypes'
    BY <2>1 DEF TimeInv, TimeTypes
  <2>3. ASSUME NEW p \in activeProcs
        PROVE  used'[p] = p_time[p] + (IF p = currentProcess THEN clock' - startTOD ELSE 0)
    BY <2>1, <2>3, Processes DEF TimeInv, TimeTypes, TimeChargedOnce
  <2> QED BY <2>1, <2>2, <2>3 DEF TimeInv, TimeChargedOnce
<1>22. CASE UNCHANGED allVars
  BY <1>22, TimeFrame DEF allVars, vars, stateVars, procs
<1> QED
  BY <1>1, <1>2, <1>3, <1>4, <1>5, <1>6, <1>7, <1>8, <1>9, <1>10, <1>11, <1>12, <1>13, <1>14,
     <1>15, <1>17, <1>18, <1>19, <1>20, <1>21, <1>22 DEF PSNext

(* However long the machine runs, the CPU time of a live process is the    *)
(* time it was current, less what has passed since it was last charged.    *)
THEOREM TimesAreExact == PSSpec => []TimeChargedOnce
<1>1. PSInit => TimeInv
  <2> SUFFICES ASSUME PSInit
               PROVE  TimeInv
    OBVIOUS
  <2>1. activeProcs \subseteq Pcb
    BY InitIInv, Processes DEF PSInit
  <2>2. /\ clock = 0 /\ startTOD = 0
        /\ p_time = [p \in Pcb |-> 0] /\ used = [p \in Pcb |-> 0]
    BY DEF PSInit
  <2> QED BY <2>1, <2>2 DEF TimeInv, TimeTypes, TimeChargedOnce
<1>2. TimeInv => TimeChargedOnce
  BY DEF TimeInv
<1> QED BY <1>1, <1>2, PSKeepsIInv, NextTimeInv, PTL DEF PSSpec
-----------------------------------------------------------------------------
(* The states a process goes on in.                                        *)

Result ==
  {<<"none">>, <<"call">>, <<"answer">>, <<"zero">>, <<"result">>} \cup ({"child"} \X Pcb) \cup Dev

PState ==
  [owner : Pcb \cup {NoProc}, level : {"none", "program", "general", "pager"}, pc : Int, a0 : Result]

\* What a system call of the Nucleus leaves in a0: support calls do that.
CallResult == Result \ {<<"result">>}

StateTypes ==
  /\ reg \in PState /\ savedState \in PState
  /\ p_s \in [Pcb -> PState]
  /\ sup_exceptState \in [Pcb -> [Handler -> PState]]
  /\ contexts \in [Pcb -> Seq(PState)]

\* The state a process goes on in, where it has to go on in s: a program with the
\* result of a support call is one word further.
Found(s) == IF s.a0 = <<"result">> THEN [s EXCEPT !.pc = @ + 1] ELSE s

\* A process is in its program, in a call of the support level, or in the pager
\* because of one of the two; s is what has been passed up for it.
Nested(c, s) ==
  /\ Len(c) \in 1 .. 3
  /\ c[1].level = "program"
  /\ Len(c) = 2 => c[2].level \in Handler
  /\ Len(c) = 3 => c[2].level = "general" /\ c[3].level = "pager"
  /\ Len(c) >= 2 /\ c[2].level = "general" =>
       /\ s["general"].owner = c[1].owner /\ s["general"].level = c[1].level
       /\ s["general"].pc = 0
  /\ Last(c).level = "pager" => s["pager"] = Found(c[Len(c) - 1])

AllNested == \A p \in Pcb : Nested(contexts[p], sup_exceptState[p])

\* State s of a process blocked on sem, once its interrupt has answered.
Owed(sem, s) ==
  IF sem \in Dev THEN [s EXCEPT !.a0 = sem]
  ELSE IF sem = Clock THEN [s EXCEPT !.a0 = <<"zero">>]
  ELSE s

\* The states saved are right for the processes that do not execute.
SavedRight(saved, cur, live, b, cs) ==
  \A p \in live : p # cur => Owed(b[p], saved[p]) = Found(Last(cs[p]))

SavedNow == SavedRight(p_s, currentProcess, activeProcs, p_semAdd, contexts)

\* The state a handler that loops ends with is right for the process it found.
LoopRight ==
  cpu \in {"tick", "terminate"} /\ currentProcess # NoProc =>
    savedState = Found(Last(contexts[currentProcess]))

\* The state the processor executes a process in is right up to that word.
ResumesFound == Running => reg = Found(Last(contexts[currentProcess]))

StatesInv == StateTypes /\ AllNested /\ SavedNow /\ LoopRight /\ ResumesFound

(* The results the handlers put in a0.                                     *)
LEMMA Results ==
  /\ CallResult \subseteq Result /\ <<"result">> \in Result /\ <<"none">> \in CallResult
  /\ <<"call">> \in CallResult /\ <<"answer">> \in CallResult /\ <<"zero">> \in CallResult
  /\ \A p \in Pcb : <<"child", p>> \in CallResult
  /\ \A d \in Dev : d \in CallResult
<1>1. \A a, b : <<a, b>> # <<"result">>
  OBVIOUS
<1>2. /\ <<"none">> # <<"result">> /\ <<"call">> # <<"result">>
      /\ <<"answer">> # <<"result">> /\ <<"zero">> # <<"result">>
  OBVIOUS
<1>3. \A d \in Dev : d # <<"result">>
  BY <1>1 DEF Dev, PlainDev, TxDev, RxDev
<1> QED BY <1>1, <1>2, <1>3 DEF Result, CallResult

(* The states the handlers build have their types.                         *)
LEMMA StateValues ==
  /\ NoState \in PState
  /\ \A p \in Pcb : StartState(p) \in PState
  /\ \A p \in Pcb, type \in Handler : State(p, type, 0, <<"none">>) \in PState
BY Results DEF NoState, StartState, State, PState, Handler

LEMMA SameState ==
  ASSUME NEW s \in PState, NEW t \in PState,
         s.owner = t.owner, s.level = t.level, s.pc = t.pc, s.a0 = t.a0
  PROVE  s = t
BY DEF PState

LEMMA NewResult ==
  ASSUME NEW s \in PState, NEW r \in Result
  PROVE  LET t == [s EXCEPT !.a0 = r] IN
         /\ t \in PState
         /\ t.owner = s.owner /\ t.level = s.level /\ t.pc = s.pc /\ t.a0 = r
BY DEF PState

LEMMA NewState ==
  ASSUME NEW s \in PState, NEW r \in Result, NEW n \in Int
  PROVE  LET t == [s EXCEPT !.pc = n, !.a0 = r] IN
         /\ t \in PState
         /\ t.owner = s.owner /\ t.level = s.level /\ t.pc = n /\ t.a0 = r
BY DEF PState

(* The state a process goes on in is its own, with the result it is owed.  *)
LEMMA FoundState ==
  ASSUME NEW s \in PState
  PROVE  /\ Found(s) \in PState
         /\ Found(s).owner = s.owner /\ Found(s).level = s.level /\ Found(s).a0 = s.a0
         /\ s.a0 # <<"result">> => Found(s) = s
<1>1. CASE s.a0 = <<"result">>
  <2> DEFINE n == s.pc + 1
             t == [s EXCEPT !.pc = n]
  <2>1. n \in Int
    BY DEF PState
  <2> HIDE DEF n
  <2>2. t \in PState /\ t.owner = s.owner /\ t.level = s.level /\ t.a0 = s.a0
    BY <2>1 DEF PState
  <2> QED BY <1>1, <2>2 DEF Found, n
<1> QED BY <1>1 DEF Found

(* The state of a process after a system call.                             *)
LEMMA EcallValue ==
  ASSUME reg \in PState
  PROVE  /\ Ecall \in PState
         /\ Ecall.owner = reg.owner /\ Ecall.level = reg.level
         /\ Ecall.pc = 0 /\ Ecall.a0 = <<"call">>
<1> DEFINE t == AtEcall
           before == -1
<1>0. t = [reg EXCEPT !.pc = before, !.a0 = <<"call">>] /\ before \in Int
  BY DEF AtEcall
<1> HIDE DEF t, before
<1>1. /\ t \in PState
      /\ t.owner = reg.owner /\ t.level = reg.level /\ t.pc = before /\ t.a0 = <<"call">>
  <2>1. <<"call">> \in Result
    BY Results
  <2> QED BY <1>0, <2>1 DEF PState
<1>2. Ecall = [t EXCEPT !.pc = t.pc + 1]
  BY DEF Ecall, t
<1>3. /\ Ecall \in PState
      /\ Ecall.owner = t.owner /\ Ecall.level = t.level /\ Ecall.pc = t.pc + 1 /\ Ecall.a0 = t.a0
  BY <1>1, <1>2 DEF PState
<1> QED BY <1>1, <1>3 DEF before

(* A context that is left.                                                 *)
LEMMA FrontOf ==
  ASSUME NEW S, NEW c \in Seq(S), c # <<>>
  PROVE  /\ Front(c) \in Seq(S) /\ Len(Front(c)) = Len(c) - 1
         /\ \A i \in 1 .. Len(c) - 1 : Front(c)[i] = c[i]
<1>1. Len(c) \in Nat /\ Len(c) # 0
  OBVIOUS
<1>2. 1 \in 1 .. Len(c) + 1 /\ Len(c) - 1 \in 1 - 1 .. Len(c)
  BY <1>1
<1>3. /\ SubSeq(c, 1, Len(c) - 1) \in Seq(S)
      /\ Len(SubSeq(c, 1, Len(c) - 1)) = Len(c) - 1 - 1 + 1
      /\ \A i \in 1 .. Len(c) - 1 - 1 + 1 : SubSeq(c, 1, Len(c) - 1)[i] = c[1 + i - 1]
  BY <1>2, SubSeqElem
<1> QED BY <1>1, <1>3 DEF Front

(* A context that is changed.                                              *)
LEMMA LastChanged ==
  ASSUME NEW S, NEW c \in Seq(S), c # <<>>, NEW x \in S
  PROVE  LET b == Append(Front(c), x) IN
         /\ b \in Seq(S) /\ Len(b) = Len(c) /\ Last(b) = x
         /\ \A i \in 1 .. Len(c) - 1 : b[i] = c[i]
<1> DEFINE f == Front(c)
           b == Append(f, x)
<1>1. f \in Seq(S) /\ Len(f) = Len(c) - 1 /\ \A i \in 1 .. Len(c) - 1 : f[i] = c[i]
  BY FrontOf
<1>2. Len(c) \in Nat
  OBVIOUS
<1> HIDE DEF f
<1>3. /\ b \in Seq(S) /\ Len(b) = Len(f) + 1 /\ b[Len(f) + 1] = x
      /\ \A i \in 1 .. Len(f) : b[i] = f[i]
  BY <1>1, <1>2, AppendProperties
<1> HIDE DEF b
<1>4. /\ b \in Seq(S) /\ Len(b) = Len(c) /\ Last(b) = x
      /\ \A i \in 1 .. Len(c) - 1 : b[i] = c[i]
  BY <1>1, <1>2, <1>3 DEF Last
<1> QED BY <1>4 DEF b, f

(* A system call of a process leaves it as deep in the handlers as it was. *)
LEMMA NestedCall ==
  ASSUME NEW c \in Seq(PState), NEW s, Nested(c, s), NEW x \in PState,
         x.owner = Last(c).owner, x.level = Last(c).level,
         NEW b, b = Append(Front(c), x)
  PROVE  b \in Seq(PState) /\ Nested(b, s) /\ Last(b) = x
<1>1. Len(c) \in 1 .. 3 /\ Last(c) = c[Len(c)] /\ c # <<>>
  BY DEF Nested, Last
<1>2. /\ b \in Seq(PState) /\ Len(b) = Len(c) /\ Last(b) = x
      /\ \A i \in 1 .. Len(c) - 1 : b[i] = c[i]
  BY <1>1, LastChanged
<1>3. \A i \in 1 .. Len(c) : b[i].owner = c[i].owner /\ b[i].level = c[i].level
  BY <1>1, <1>2 DEF Last
<1>4. Last(b).level = "pager" => b[Len(b) - 1] = c[Len(c) - 1]
  BY <1>1, <1>2 DEF Nested
<1>5. Nested(b, s)
  BY <1>1, <1>2, <1>3, <1>4 DEF Nested
<1> QED BY <1>2, <1>5

-----------------------------------------------------------------------------
(* What IInv and Decided say of the processes whose states are saved.      *)
LEMMA Places ==
  ASSUME IInv
  PROVE  /\ activeProcs \subseteq Pcb /\ NoProc \notin Pcb
         /\ currentProcess \in Pcb \cup {NoProc}
         /\ currentProcess # NoProc => currentProcess \in activeProcs /\ p_semAdd[currentProcess] = NoSem
         /\ Running => currentProcess # NoProc
         /\ p_semAdd \in [Pcb -> Sem \cup {NoSem}]
         /\ s_procq \in [Sem -> Seq(Pcb)]
         /\ \A s \in Sem : s_procq[s] # <<>> =>
              Head(s_procq[s]) \in Pcb /\ p_semAdd[Head(s_procq[s])] = s
<1>1. /\ BlockedWhere(s_procq, p_semAdd) /\ s_procq \in [Sem -> Seq(Pcb)]
      /\ Elsewhere(activeProcs, currentProcess, readyQueue, p_semAdd)
      /\ p_semAdd \in [Pcb -> Sem \cup {NoSem}]
  BY Facts
<1>2. ASSUME NEW s \in Sem, s_procq[s] # <<>>
      PROVE  Head(s_procq[s]) \in Pcb /\ Head(s_procq[s]) \in Range(s_procq[s])
  <2>1. s_procq[s] \in Seq(Pcb)
    BY <1>1
  <2> QED BY <1>2, <2>1 DEF Range
<1> QED BY <1>1, <1>2, Processes DEF BlockedWhere, Elsewhere, Running

(* What a process is owed where it may wait.                               *)
LEMMA OwedWhere ==
  /\ \A s : Owed(NoSem, s) = s
  /\ \A sem \in Normal : \A s : Owed(sem, s) = s
  /\ \A d \in Dev : \A s : Owed(d, s) = [s EXCEPT !.a0 = d]
  /\ \A s : Owed(Clock, s) = [s EXCEPT !.a0 = <<"zero">>]
<1>1. NoSem \notin Dev /\ NoSem # Clock
  BY NoSemAssumption DEF Sem, Soft
<1>2. \A sem \in Normal : sem \notin Dev /\ sem # Clock
  BY NormalIsNotSoft DEF Soft
<1>3. Clock \notin Dev
  BY DevAssumption DEF Clock, Dev, PlainDev, TxDev, RxDev
<1> QED BY <1>1, <1>2, <1>3 DEF Owed

(* The scheduler, with the right states saved.                             *)
LEMMA DispatchRight ==
  ASSUME IInv', Decided', StateTypes, NEW saved \in [Pcb -> PState], Dispatch(saved),
         SavedRight(saved, NoProc, activeProcs', p_semAdd', contexts'),
         cpu' \notin {"tick", "terminate"}
  PROVE  /\ reg' \in PState /\ p_s' \in [Pcb -> PState]
         /\ SavedNow' /\ LoopRight' /\ ResumesFound'
<1>1. NoState \in PState
  BY StateValues
<1>2. LoopRight'
  BY DEF LoopRight
<1>3. /\ activeProcs' \subseteq Pcb /\ NoProc \notin Pcb
      /\ cpu' = "run" => currentProcess' \in activeProcs' /\ p_semAdd'[currentProcess'] = NoSem
  BY PcbAssumption DEF IInv, PlacedNow, Placed, QueueTypes, Elsewhere, CpuTypes
<1>4. CASE cpu' = "run"
  <2>1. /\ reg' = saved[currentProcess']
        /\ p_s' = [saved EXCEPT ![currentProcess'] = NoState]
    BY <1>4 DEF Dispatch
  <2>2. Owed(p_semAdd'[currentProcess'], saved[currentProcess']) = Found(Last(contexts'[currentProcess']))
    BY <1>3, <1>4 DEF SavedRight
  <2>3. reg' = Found(Last(contexts'[currentProcess']))
    BY <1>3, <1>4, <2>1, <2>2, OwedWhere
  <2>4. SavedNow'
    BY <1>3, <2>1 DEF SavedNow, SavedRight
  <2>5. reg' \in PState /\ p_s' \in [Pcb -> PState]
    BY <1>1, <1>3, <1>4, <2>1
  <2> QED BY <1>2, <2>3, <2>4, <2>5 DEF ResumesFound
<1>5. CASE cpu' # "run"
  <2>1. reg' = NoState /\ p_s' = saved
    BY <1>5 DEF Dispatch
  <2>2. SavedNow'
    BY <1>3, <2>1 DEF SavedNow, SavedRight
  <2> QED BY <1>1, <1>2, <1>5, <2>1, <2>2 DEF ResumesFound, Running
<1> QED BY <1>4, <1>5

(* The end of a handler that looped, with the right states saved: the one  *)
(* in savedState, too, if the process it belongs to goes on.               *)
LEMMA EndLoopRight ==
  ASSUME IInv', Decided', StateTypes, NEW saved \in [Pcb -> PState], EndLoop(saved),
         SavedRight(saved, currentProcess, activeProcs', p_semAdd', contexts'),
         currentProcess' # currentProcess => currentProcess \notin activeProcs',
         currentProcess' = currentProcess /\ currentProcess # NoProc =>
           savedState = Found(Last(contexts'[currentProcess])),
         cpu' \notin {"tick", "terminate"}
  PROVE  /\ reg' \in PState /\ p_s' \in [Pcb -> PState] /\ savedState' \in PState
         /\ SavedNow' /\ LoopRight' /\ ResumesFound'
<1>1. NoState \in PState
  BY StateValues
<1>2. LoopRight'
  BY DEF LoopRight
<1>3. /\ activeProcs' \subseteq Pcb /\ NoProc \notin Pcb
      /\ cpu' = "run" => currentProcess' \in activeProcs' /\ p_semAdd'[currentProcess'] = NoSem
  BY PcbAssumption DEF IInv, PlacedNow, Placed, QueueTypes, Elsewhere, CpuTypes
<1>4. savedState' = NoState
  BY DEF EndLoop
<1>5. CASE currentProcess' = currentProcess /\ currentProcess # NoProc
  <2>1. reg' = savedState /\ p_s' = saved
    BY <1>5 DEF EndLoop
  <2>2. SavedNow'
    BY <1>5, <2>1 DEF SavedNow, SavedRight
  <2>3. savedState \in PState
    BY DEF StateTypes
  <2> QED BY <1>1, <1>2, <1>4, <1>5, <2>1, <2>2, <2>3 DEF ResumesFound
<1>6. CASE ~(currentProcess' = currentProcess /\ currentProcess # NoProc)
  <2>1. Dispatch(saved) \/ (cpu' # "run" /\ reg' = NoState /\ p_s' = saved)
    BY <1>6 DEF EndLoop, Dispatch
  <2>2. currentProcess \notin activeProcs'
    BY <1>3, <1>6
  <2>3. SavedRight(saved, NoProc, activeProcs', p_semAdd', contexts')
    BY <2>2 DEF SavedRight
  <2>4. CASE Dispatch(saved)
    BY <1>1, <1>4, <2>3, <2>4, DispatchRight
  <2>5. CASE cpu' # "run" /\ reg' = NoState /\ p_s' = saved
    <3>1. SavedNow'
      BY <1>3, <2>3, <2>5 DEF SavedNow, SavedRight
    <3> QED BY <1>1, <1>2, <1>4, <2>5, <3>1 DEF ResumesFound, Running
  <2> QED BY <2>1, <2>4, <2>5
<1> QED BY <1>5, <1>6


-----------------------------------------------------------------------------
(* System calls.                                                           *)

(* What a system call with result r leaves its caller to go on in.         *)
LEMMA CallValue ==
  ASSUME IInv, StatesInv, Running, NEW r \in CallResult
  PROVE  LET c == contexts[currentProcess]
             b == Append(Front(c), [Last(c) EXCEPT !.pc = 0, !.a0 = r])
         IN  /\ b \in Seq(PState) /\ Nested(b, sup_exceptState[currentProcess])
             /\ Found(Last(b)) = [Ecall EXCEPT !.a0 = r]
<1> DEFINE c == contexts[currentProcess]
           x == [Last(c) EXCEPT !.pc = 0, !.a0 = r]
<1>1. currentProcess \in Pcb /\ reg \in PState /\ contexts \in [Pcb -> Seq(PState)]
  BY Processes DEF StatesInv, StateTypes
<1>2. c \in Seq(PState) /\ Nested(c, sup_exceptState[currentProcess])
  BY <1>1 DEF StatesInv, AllNested
<1>3. /\ Last(c) \in PState /\ r \in Result /\ r # <<"result">>
      /\ Last(c).owner = reg.owner /\ Last(c).level = reg.level
  <2>1. Last(c) \in PState
    <3>1. Len(c) \in 1 .. Len(c)
      BY <1>2 DEF Nested
    <3> QED BY <1>2, <3>1 DEF Last
  <2>2. reg = Found(Last(c))
    BY DEF StatesInv, ResumesFound
  <2> QED BY <2>1, <2>2, FoundState, Results DEF CallResult
<1>4. /\ x \in PState
      /\ x.owner = reg.owner /\ x.level = reg.level /\ x.pc = 0 /\ x.a0 = r
  <2> DEFINE n == 0
             l == Last(c)
  <2>1. x = [l EXCEPT !.pc = n, !.a0 = r] /\ n \in Int
    OBVIOUS
  <2>2. l \in PState /\ l.owner = reg.owner /\ l.level = reg.level
    BY <1>3
  <2> HIDE DEF x, n, l
  <2>3. /\ x \in PState
        /\ x.owner = l.owner /\ x.level = l.level /\ x.pc = n /\ x.a0 = r
    BY <1>3, <2>1, <2>2 DEF PState
  <2> QED BY <2>2, <2>3 DEF n
<1>5. x = [Ecall EXCEPT !.a0 = r]
  <2> DEFINE y == [Ecall EXCEPT !.a0 = r]
  <2>1. /\ Ecall \in PState
        /\ Ecall.owner = reg.owner /\ Ecall.level = reg.level /\ Ecall.pc = 0
    BY <1>1, EcallValue
  <2>2. /\ y \in PState
        /\ y.owner = Ecall.owner /\ y.level = Ecall.level /\ y.pc = Ecall.pc /\ y.a0 = r
    BY <1>3, <2>1, NewResult
  <2> HIDE DEF x, y
  <2>3. x = y
    BY <1>4, <2>1, <2>2, SameState
  <2> QED BY <2>3 DEF y
<1> HIDE DEF x
<1>6. LET b == Append(Front(c), x) IN
      b \in Seq(PState) /\ Nested(b, sup_exceptState[currentProcess]) /\ Last(b) = x
  BY <1>2, <1>3, <1>4, NestedCall
<1>7. Found(x) = x
  BY <1>3, <1>4, FoundState
<1> QED BY <1>5, <1>6, <1>7 DEF x

(* A system call changes the context of its caller only.                   *)
LEMMA CallReturns ==
  ASSUME IInv, StatesInv, Running, NEW r \in CallResult, Returns(r)
  PROVE  /\ contexts' \in [Pcb -> Seq(PState)]
         /\ Found(Last(contexts'[currentProcess])) = [Ecall EXCEPT !.a0 = r]
         /\ \A p \in Pcb : p # currentProcess => contexts'[p] = contexts[p]
         /\ \A p \in Pcb : Nested(contexts'[p], sup_exceptState[p])
<1> DEFINE c == contexts[currentProcess]
           b == Append(Front(c), [Last(c) EXCEPT !.pc = 0, !.a0 = r])
<1>1. currentProcess \in Pcb /\ contexts \in [Pcb -> Seq(PState)]
  BY Processes DEF StatesInv, StateTypes
<1>2. contexts' = [contexts EXCEPT ![currentProcess] = b]
  BY DEF Returns
<1>3. /\ b \in Seq(PState) /\ Nested(b, sup_exceptState[currentProcess])
      /\ Found(Last(b)) = [Ecall EXCEPT !.a0 = r]
  BY CallValue
<1> HIDE DEF b
<1>4. \A p \in Pcb : contexts'[p] = IF p = currentProcess THEN b ELSE contexts[p]
  BY <1>1, <1>2
<1>5. contexts' \in [Pcb -> Seq(PState)]
  BY <1>1, <1>2, <1>3
<1>6. \A p \in Pcb : Nested(contexts'[p], sup_exceptState[p])
  BY <1>3, <1>4 DEF StatesInv, AllNested
<1> QED BY <1>1, <1>3, <1>4, <1>5, <1>6

(* A call whose caller goes on at once.                                    *)
LEMMA CallLoads ==
  ASSUME IInv, StatesInv, Running, NEW r \in CallResult, Returns(r),
         reg' = [Ecall EXCEPT !.a0 = r],
         UNCHANGED <<savedState, sup_exceptState, p_s, activeProcs, currentProcess, cpu>>,
         \A p \in Pcb : Owed(p_semAdd'[p], p_s[p]) = Owed(p_semAdd[p], p_s[p])
  PROVE  StatesInv'
<1>1. /\ contexts' \in [Pcb -> Seq(PState)]
      /\ Found(Last(contexts'[currentProcess])) = [Ecall EXCEPT !.a0 = r]
      /\ \A p \in Pcb : p # currentProcess => contexts'[p] = contexts[p]
      /\ \A p \in Pcb : Nested(contexts'[p], sup_exceptState[p])
  BY CallReturns
<1>2. [Ecall EXCEPT !.a0 = r] \in PState
  BY EcallValue, NewResult, Results DEF StatesInv, StateTypes
<1>3. StateTypes'
  BY <1>1, <1>2 DEF StatesInv, StateTypes
<1>4. SavedNow'
  BY <1>1, Processes DEF StatesInv, SavedNow, SavedRight
<1>5. LoopRight' /\ ResumesFound'
  BY <1>1 DEF LoopRight, ResumesFound, Running
<1> QED BY <1>1, <1>3, <1>4, <1>5 DEF StatesInv, AllNested

(* A call that saves the state of its caller and calls the scheduler.      *)
LEMMA CallDispatches ==
  ASSUME IInv, IInv', Decided', StatesInv, Running, NEW r \in CallResult, Returns(r),
         Dispatch(Saved(Ecall)), UNCHANGED <<savedState, sup_exceptState, activeProcs>>,
         \A p \in Pcb : p # currentProcess => p_semAdd'[p] = p_semAdd[p],
         Owed(p_semAdd'[currentProcess], Ecall) = [Ecall EXCEPT !.a0 = r],
         cpu' \notin {"tick", "terminate"}
  PROVE  StatesInv'
<1>1. /\ contexts' \in [Pcb -> Seq(PState)]
      /\ Found(Last(contexts'[currentProcess])) = [Ecall EXCEPT !.a0 = r]
      /\ \A p \in Pcb : p # currentProcess => contexts'[p] = contexts[p]
      /\ \A p \in Pcb : Nested(contexts'[p], sup_exceptState[p])
  BY CallReturns
<1>2. Ecall \in PState /\ currentProcess \in Pcb /\ activeProcs \subseteq Pcb
  BY EcallValue, Processes DEF StatesInv, StateTypes
<1>3. /\ Saved(Ecall) \in [Pcb -> PState]
      /\ \A p \in Pcb : Saved(Ecall)[p] = IF p = currentProcess THEN Ecall ELSE p_s[p]
  BY <1>2 DEF Saved, StatesInv, StateTypes
<1>4. SavedRight(Saved(Ecall), NoProc, activeProcs', p_semAdd', contexts')
  BY <1>1, <1>2, <1>3 DEF StatesInv, SavedNow, SavedRight
<1>5. StateTypes
  BY DEF StatesInv
<1>6. /\ reg' \in PState /\ p_s' \in [Pcb -> PState]
      /\ SavedNow' /\ LoopRight' /\ ResumesFound'
  BY <1>3, <1>4, <1>5, DispatchRight
<1>7. StateTypes' /\ AllNested'
  BY <1>1, <1>5, <1>6 DEF StateTypes, AllNested
<1> QED BY <1>6, <1>7 DEF StatesInv

(* The result of a call that gives none is the number of the call.         *)
LEMMA NoResult ==
  ASSUME StatesInv
  PROVE  [Ecall EXCEPT !.a0 = <<"call">>] = Ecall
<1> DEFINE y == [Ecall EXCEPT !.a0 = <<"call">>]
<1>1. Ecall \in PState /\ Ecall.a0 = <<"call">>
  BY EcallValue DEF StatesInv, StateTypes
<1>2. /\ y \in PState
      /\ y.owner = Ecall.owner /\ y.level = Ecall.level /\ y.pc = Ecall.pc /\ y.a0 = <<"call">>
  BY <1>1, Results, NewResult
<1> HIDE DEF y
<1>3. y = Ecall
  BY <1>1, <1>2, SameState
<1> QED BY <1>3 DEF y

(* scheduler() ends no other way than by LDST, HALT, WAIT or PANIC.        *)
LEMMA SchedulerEnds ==
  ASSUME NEW rq, NEW live, NEW soft, Scheduler(rq, live, soft)
  PROVE  cpu' \notin {"tick", "terminate"}
BY DEF Scheduler

LEMMA GetCallStates ==
  ASSUME IInv, StatesInv, CreateFails \/ GetCall \/ TermFails
  PROVE  StatesInv'
<1>1. UNCHANGED <<activeProcs, currentProcess, cpu, p_semAdd>>
  BY DEF CreateFails, GetCall, TermFails, vars, procs, sems
<1>2. CASE CreateFails \/ GetCall
  BY <1>1, <1>2, CallLoads, Results DEF CreateFails, GetCall, Call, Load
<1>3. CASE TermFails
  BY <1>1, <1>3, CallLoads, NoResult, Results DEF TermFails, Call, Load
<1> QED BY <1>2, <1>3

LEMMA PasserenCallStates ==
  ASSUME IInv, IInv', Decided', StatesInv, NEW s \in Normal, PasserenCall(s)
  PROVE  StatesInv'
<1>1. /\ Running /\ Returns(<<"call">>) /\ <<"call">> \in CallResult /\ Passeren(s)
      /\ UNCHANGED <<savedState, sup_exceptState, activeProcs>>
  BY Results DEF PasserenCall, Call, Passeren, procs
<1>2. s \in Sem /\ semVal \in [Sem -> Int] /\ p_semAdd \in [Pcb -> Sem \cup {NoSem}]
  BY Places DEF Sem, IInv, OtherTypes
<1>3. semVal'[s] = semVal[s] - 1
  BY <1>1, <1>2 DEF Passeren
<1>4. CASE semVal'[s] < 0
  <2>1. BlockCurrentProcess(s, softBlockCount) /\ Dispatch(Saved(Ecall))
    BY <1>1, <1>3, <1>4 DEF PasserenCall, Passeren
  <2>2. /\ \A p \in Pcb : p # currentProcess => p_semAdd'[p] = p_semAdd[p]
        /\ p_semAdd'[currentProcess] = s
    BY <1>1, <1>2, <2>1, Processes DEF BlockCurrentProcess
  <2>3. Owed(p_semAdd'[currentProcess], Ecall) = [Ecall EXCEPT !.a0 = <<"call">>]
    BY <2>2, OwedWhere, NoResult
  <2>4. cpu' \notin {"tick", "terminate"}
    BY <2>1, SchedulerEnds DEF BlockCurrentProcess
  <2> QED BY <1>1, <2>1, <2>2, <2>3, <2>4, CallDispatches
<1>5. CASE ~(semVal'[s] < 0)
  <2>1. /\ reg' = [Ecall EXCEPT !.a0 = <<"call">>]
        /\ UNCHANGED <<p_s, currentProcess, cpu, p_semAdd>>
    BY <1>1, <1>3, <1>5, NoResult DEF PasserenCall, Passeren, Load
  <2> QED BY <1>1, <2>1, CallLoads
<1> QED BY <1>4, <1>5

(* A process that a V wakes is owed nothing that it has not.               *)
LEMMA VerhogenCallStates ==
  ASSUME IInv, StatesInv, NEW s \in Normal, VerhogenCall(s)
  PROVE  StatesInv'
<1>1. /\ Running /\ Returns(<<"call">>) /\ <<"call">> \in CallResult /\ Verhogen(s)
      /\ reg' = [Ecall EXCEPT !.a0 = <<"call">>]
      /\ UNCHANGED <<savedState, sup_exceptState, activeProcs, currentProcess, cpu, p_s>>
  BY Results, NoResult DEF VerhogenCall, Call, Load, Verhogen, procs
<1>2. ASSUME NEW p \in Pcb
      PROVE  Owed(p_semAdd'[p], p_s[p]) = Owed(p_semAdd[p], p_s[p])
  <2>1. CASE s_procq[s] # <<>> /\ p = Head(s_procq[s]) /\ WakeOne(s)
    <3>1. p_semAdd[p] = s /\ p_semAdd \in [Pcb -> Sem \cup {NoSem}]
      BY <2>1, Places DEF Sem
    <3>2. p_semAdd'[p] = NoSem
      BY <2>1, <3>1 DEF WakeOne
    <3> QED BY <3>1, <3>2, OwedWhere
  <2>2. CASE ~(s_procq[s] # <<>> /\ p = Head(s_procq[s]) /\ WakeOne(s))
    BY <1>1, <2>2, Places DEF Verhogen, WakeOne
  <2> QED BY <2>1, <2>2
<1> QED BY <1>1, <1>2, CallLoads

LEMMA WaitCallStates ==
  ASSUME IInv, IInv', Decided', StatesInv, ClockWaitCall \/ \E d \in Dev : DoIOCall(d)
  PROVE  StatesInv'
<1>1. CASE ClockWaitCall
  <2>1. /\ Running /\ Returns(<<"zero">>) /\ <<"zero">> \in CallResult
        /\ BlockCurrentProcess(Clock, softBlockCount + 1) /\ Dispatch(Saved(Ecall))
        /\ UNCHANGED <<savedState, sup_exceptState, activeProcs>>
    BY <1>1, Results DEF ClockWaitCall, Call, ClockWait, procs
  <2>2. /\ \A p \in Pcb : p # currentProcess => p_semAdd'[p] = p_semAdd[p]
        /\ p_semAdd'[currentProcess] = Clock
    BY <2>1, Processes, Places DEF BlockCurrentProcess
  <2>3. Owed(p_semAdd'[currentProcess], Ecall) = [Ecall EXCEPT !.a0 = <<"zero">>]
    BY <2>2, OwedWhere
  <2>4. cpu' \notin {"tick", "terminate"}
    BY <2>1, SchedulerEnds DEF BlockCurrentProcess
  <2> QED BY <2>1, <2>2, <2>3, <2>4, CallDispatches
<1>2. ASSUME NEW d \in Dev, DoIOCall(d)
      PROVE  StatesInv'
  <2>1. /\ Running /\ Returns(d) /\ d \in CallResult
        /\ BlockCurrentProcess(d, softBlockCount + 1) /\ Dispatch(Saved(Ecall))
        /\ UNCHANGED <<savedState, sup_exceptState, activeProcs>>
    BY <1>2, Results DEF DoIOCall, Call, DoIO, procs
  <2>2. /\ \A p \in Pcb : p # currentProcess => p_semAdd'[p] = p_semAdd[p]
        /\ p_semAdd'[currentProcess] = d
    BY <2>1, Processes, Places DEF BlockCurrentProcess
  <2>3. Owed(p_semAdd'[currentProcess], Ecall) = [Ecall EXCEPT !.a0 = d]
    BY <2>2, OwedWhere
  <2>4. cpu' \notin {"tick", "terminate"}
    BY <2>1, SchedulerEnds DEF BlockCurrentProcess
  <2> QED BY <2>1, <2>2, <2>3, <2>4, CallDispatches
<1> QED BY <1>1, <1>2

LEMMA YieldCallStates ==
  ASSUME IInv, IInv', Decided', StatesInv, YieldCall
  PROVE  StatesInv'
<1>1. /\ Running /\ Returns(<<"call">>) /\ <<"call">> \in CallResult
      /\ Dispatch(Saved(Ecall))
      /\ UNCHANGED <<savedState, sup_exceptState, activeProcs, p_semAdd>>
  BY Results DEF YieldCall, Call, Yield, procs, sems
<1>2. p_semAdd[currentProcess] = NoSem
  BY <1>1, Places
<1>3. Owed(p_semAdd'[currentProcess], Ecall) = [Ecall EXCEPT !.a0 = <<"call">>]
  BY <1>1, <1>2, OwedWhere, NoResult
<1>4. cpu' \notin {"tick", "terminate"}
  BY SchedulerEnds DEF YieldCall, Yield, Running
<1> QED BY <1>1, <1>3, <1>4, CallDispatches

(* A single context, of a process that has just been created or has died.  *)
LEMMA Started ==
  ASSUME NEW p \in Pcb, NEW s
  PROVE  /\ <<StartState(p)>> \in Seq(PState)
         /\ Found(Last(<<StartState(p)>>)) = StartState(p)
         /\ Nested(<<StartState(p)>>, s)
<1>1. /\ StartState(p) \in PState /\ StartState(p).level = "program"
      /\ Found(StartState(p)) = StartState(p)
  BY StateValues, Results DEF StartState, State, Found, CallResult
<1> HIDE DEF StartState
<1>2. LET c == <<StartState(p)>> IN Len(c) = 1 /\ c[1] = StartState(p) /\ c \in Seq(PState)
  BY <1>1
<1> QED BY <1>1, <1>2 DEF Nested, Last

LEMMA CreateCallStates ==
  ASSUME IInv, IInv', Decided', StatesInv, NEW prio \in Prio, NEW support \in Support,
         CreateCall(prio, support)
  PROVE  StatesInv'
<1> DEFINE child == Head(pcbFree)
           r == <<"child", child>>
           caller == [Ecall EXCEPT !.a0 = r]
           saved == [p_s EXCEPT ![child] = StartState(child), ![currentProcess] = caller]
           c == contexts[currentProcess]
           b == Append(Front(c), [Last(c) EXCEPT !.pc = 0, !.a0 = r])
           cs == [contexts EXCEPT ![child] = <<StartState(child)>>,
                    ![currentProcess] = Append(Front(@), [Last(@) EXCEPT !.pc = 0, !.a0 = r])]
<1>1. /\ Running /\ CreateProcess(prio, support) /\ Dispatch(saved) /\ pcbFree # <<>>
      /\ contexts' = cs
      /\ UNCHANGED <<savedState, sup_exceptState>>
  BY DEF CreateCall
<1>2. /\ activeProcs' = activeProcs \cup {child}
      /\ p_semAdd' = [p_semAdd EXCEPT ![child] = NoSem]
  BY <1>1 DEF CreateProcess
<1>3. cpu' \notin {"tick", "terminate"}
  BY <1>1, SchedulerEnds DEF CreateProcess
<1>4. child \in Pcb \ activeProcs
  <2>1. pcbFree \in Seq(Pcb) /\ Range(pcbFree) = Pcb \ activeProcs
    BY DEF IInv, PlacedNow, Placed, QueueTypes, FreeApart
  <2> QED BY <1>1, <2>1, TailProperties
<1> HIDE DEF child
<1>5. /\ currentProcess \in Pcb /\ currentProcess # child /\ p_semAdd[currentProcess] = NoSem
      /\ p_semAdd \in [Pcb -> Sem \cup {NoSem}] /\ activeProcs \subseteq Pcb /\ NoProc \notin Pcb
  BY <1>1, <1>4, Places
<1>6. r \in CallResult /\ r \in Result /\ Ecall \in PState /\ StateTypes
  BY <1>4, Results, EcallValue DEF StatesInv, StateTypes
<1> HIDE DEF r
<1>7. caller \in PState
  BY <1>6, NewResult
<1>8. /\ b \in Seq(PState) /\ Nested(b, sup_exceptState[currentProcess]) /\ Found(Last(b)) = caller
  BY <1>1, <1>6, CallValue
<1>9. \A p \in Pcb : cs[p] = IF p = currentProcess THEN b
                              ELSE IF p = child THEN <<StartState(child)>> ELSE contexts[p]
  BY <1>4, <1>5, <1>6 DEF StateTypes
<1> HIDE DEF b, caller
<1>10. /\ StartState(child) \in PState /\ <<StartState(child)>> \in Seq(PState)
       /\ Found(Last(<<StartState(child)>>)) = StartState(child)
       /\ Nested(<<StartState(child)>>, sup_exceptState[child])
  BY <1>4, Started, StateValues
<1>11. cs \in [Pcb -> Seq(PState)]
  <2>1. \A p \in Pcb : cs[p] \in Seq(PState)
    BY <1>6, <1>8, <1>9, <1>10 DEF StateTypes
  <2>2. cs = [p \in Pcb |-> cs[p]]
    BY <1>6 DEF StateTypes
  <2> HIDE DEF cs
  <2> QED BY <2>1, <2>2
<1> HIDE DEF cs
<1>12. \A p \in Pcb : Nested(cs[p], sup_exceptState[p])
  BY <1>8, <1>9, <1>10 DEF StatesInv, AllNested
<1>13. /\ saved \in [Pcb -> PState]
       /\ \A p \in Pcb : saved[p] = IF p = currentProcess THEN caller
                                     ELSE IF p = child THEN StartState(child) ELSE p_s[p]
  BY <1>4, <1>5, <1>6, <1>7, <1>10 DEF StateTypes
<1> HIDE DEF saved
<1>14. ASSUME NEW p \in activeProcs'
       PROVE  Owed(p_semAdd'[p], saved[p]) = Found(Last(cs[p]))
  <2>1. p \in Pcb
    BY <1>2, <1>4, <1>5, <1>14
  <2>2. CASE p = currentProcess
    BY <1>2, <1>4, <1>5, <1>8, <1>9, <1>13, <2>2, OwedWhere
  <2>3. CASE p = child
    BY <1>2, <1>4, <1>5, <1>9, <1>10, <1>13, <2>3, OwedWhere
  <2>4. CASE p # currentProcess /\ p # child
    BY <1>2, <1>9, <1>13, <1>14, <2>1, <2>4 DEF StatesInv, SavedNow, SavedRight
  <2> QED BY <2>2, <2>3, <2>4
<1>15. SavedRight(saved, NoProc, activeProcs', p_semAdd', contexts')
  BY <1>1, <1>14 DEF SavedRight
<1>16. /\ reg' \in PState /\ p_s' \in [Pcb -> PState]
       /\ SavedNow' /\ LoopRight' /\ ResumesFound'
  BY <1>1, <1>3, <1>6, <1>13, <1>15, DispatchRight
<1>17. StateTypes' /\ AllNested'
  BY <1>1, <1>6, <1>11, <1>12, <1>16 DEF StateTypes, AllNested
<1> QED BY <1>16, <1>17 DEF StatesInv

-----------------------------------------------------------------------------
(* Terminations and exceptions that are passed up.                         *)

(* The state of the process that terminates one, or dies, waits in         *)
(* BIOSDATAPAGE while terminateProcess recurses.                           *)
LEMMA TermProcessCallStates ==
  ASSUME IInv, StatesInv, NEW target \in Pcb, TermProcessCall(target)
  PROVE  StatesInv'
<1>1. /\ Running /\ Returns(<<"call">>) /\ <<"call">> \in CallResult
      /\ savedState' = Ecall /\ reg' = NoState /\ cpu' = "terminate"
      /\ UNCHANGED <<sup_exceptState, p_s, activeProcs, currentProcess, p_semAdd>>
  BY Results DEF TermProcessCall, TermProcess, Terminate, sems
<1>2. /\ contexts' \in [Pcb -> Seq(PState)]
      /\ Found(Last(contexts'[currentProcess])) = Ecall
      /\ \A p \in Pcb : p # currentProcess => contexts'[p] = contexts[p]
      /\ \A p \in Pcb : Nested(contexts'[p], sup_exceptState[p])
  BY <1>1, CallReturns, NoResult
<1>3. StateTypes'
  BY <1>1, <1>2, EcallValue, StateValues DEF StatesInv, StateTypes
<1>4. SavedNow'
  BY <1>1, <1>2, Processes DEF StatesInv, SavedNow, SavedRight
<1>5. LoopRight' /\ ResumesFound'
  BY <1>1, <1>2 DEF LoopRight, ResumesFound, Running
<1> QED BY <1>1, <1>2, <1>3, <1>4, <1>5 DEF StatesInv, AllNested

(* The state that a handler that loops finds goes to BIOSDATAPAGE.         *)
LEMMA LoopStates ==
  ASSUME IInv, Decided, StatesInv, Interruptible, cpu' \in {"tick", "terminate"},
         savedState' = reg, reg' = NoState,
         UNCHANGED <<sup_exceptState, p_s, contexts, activeProcs, currentProcess, p_semAdd>>
  PROVE  StatesInv'
<1>1. StateTypes'
  BY StateValues DEF StatesInv, StateTypes
<1>2. SavedNow' /\ AllNested'
  BY DEF StatesInv, SavedNow, AllNested
<1>3. currentProcess # NoProc => Running
  BY DEF Interruptible, Decided, Running
<1>4. LoopRight' /\ ResumesFound'
  BY <1>3 DEF StatesInv, LoopRight, ResumesFound, Running
<1> QED BY <1>1, <1>2, <1>4 DEF StatesInv

(* The current process goes on in another state, in context b with the     *)
(* states e passed up for it.                                              *)
LEMMA ContextStates ==
  ASSUME IInv, StatesInv, Running, reg' \in PState,
         NEW b \in Seq(PState), NEW e \in [Handler -> PState], Nested(b, e), Found(Last(b)) = reg',
         contexts' = [contexts EXCEPT ![currentProcess] = b],
         sup_exceptState' = [sup_exceptState EXCEPT ![currentProcess] = e],
         UNCHANGED <<savedState, p_s, activeProcs, currentProcess, p_semAdd, cpu>>
  PROVE  StatesInv'
<1>1. currentProcess \in Pcb /\ StateTypes
  BY Processes DEF StatesInv
<1>2. StateTypes'
  BY <1>1 DEF StateTypes
<1>3. AllNested'
  BY <1>1 DEF StatesInv, StateTypes, AllNested
<1>4. SavedNow'
  BY <1>1, Processes DEF StatesInv, StateTypes, SavedNow, SavedRight
<1>5. LoopRight' /\ ResumesFound'
  BY <1>1 DEF StateTypes, LoopRight, ResumesFound, Running
<1> QED BY <1>2, <1>3, <1>4, <1>5 DEF StatesInv

(* An exception that is passed up.                                         *)
LEMMA PassUpStates ==
  ASSUME IInv, StatesInv, Running, NEW type \in Handler, NEW s \in PState, PassUp(type, s),
         Nested(Append(contexts[currentProcess], State(currentProcess, type, 0, <<"none">>)),
                [sup_exceptState[currentProcess] EXCEPT ![type] = s])
  PROVE  StatesInv'
<1> DEFINE handler == State(currentProcess, type, 0, <<"none">>)
           c == contexts[currentProcess]
           e == [sup_exceptState[currentProcess] EXCEPT ![type] = s]
<1>1. /\ currentProcess \in Pcb /\ handler \in PState /\ StateTypes
      /\ c \in Seq(PState) /\ sup_exceptState[currentProcess] \in [Handler -> PState]
  BY Processes, StateValues DEF StatesInv, StateTypes
<1>2. /\ sup_exceptState' = [sup_exceptState EXCEPT ![currentProcess] = e]
      /\ contexts' = [contexts EXCEPT ![currentProcess] = Append(c, handler)]
      /\ reg' = handler
      /\ UNCHANGED <<savedState, p_s, activeProcs, currentProcess, p_semAdd, cpu>>
  BY <1>1 DEF PassUp, Load, Slot, StateTypes, vars, procs, sems
<1>3. e \in [Handler -> PState]
  BY <1>1
<1>4. Found(handler) = handler
  BY <1>1, FoundState, Results DEF State, CallResult
<1> HIDE DEF handler
<1>5. Append(c, handler) \in Seq(PState) /\ Found(Last(Append(c, handler))) = handler
  BY <1>1, <1>4, AppendProperties DEF Last
<1>6. Nested(Append(c, handler), e)
  BY DEF handler
<1> HIDE DEF e, c
<1> QED BY <1>1, <1>2, <1>3, <1>5, <1>6, ContextStates

(* The innermost context is that of the code that executes.                *)
LEMMA LastFound ==
  ASSUME NEW c \in Seq(PState), NEW s, Nested(c, s)
  PROVE  /\ Last(c) \in PState
         /\ Found(Last(c)).owner = Last(c).owner /\ Found(Last(c)).level = Last(c).level
<1>1. Len(c) \in 1 .. Len(c)
  BY DEF Nested
<1>2. Last(c) \in PState
  BY <1>1 DEF Last
<1> QED BY <1>2, FoundState

LEMMA SupportCallStates ==
  ASSUME IInv, StatesInv, SupportCall \/ PageFault
  PROVE  StatesInv'
<1> DEFINE c == contexts[currentProcess]
           e == sup_exceptState[currentProcess]
<1>1. Running
  BY DEF SupportCall, PageFault
<1>2. /\ reg \in PState /\ c \in Seq(PState) /\ e \in [Handler -> PState]
      /\ Nested(c, e) /\ Found(Last(c)) = reg
  BY <1>1, Processes DEF StatesInv, StateTypes, AllNested, ResumesFound
<1>3. /\ Ecall \in PState /\ Ecall.owner = Last(c).owner /\ Ecall.level = Last(c).level
      /\ Ecall.pc = 0 /\ reg.level = Last(c).level
  BY <1>2, EcallValue, LastFound
<1>4. ASSUME NEW type \in Handler
      PROVE  LET h == State(currentProcess, type, 0, <<"none">>)
                 b == Append(c, h)
             IN  /\ h.level = type /\ Len(b) = Len(c) + 1 /\ b[Len(c) + 1] = h /\ Last(b) = h
                 /\ \A i \in 1 .. Len(c) : b[i] = c[i]
  <2> DEFINE h == State(currentProcess, type, 0, <<"none">>)
  <2>1. h \in PState /\ h.level = type
    BY <1>1, <1>4, Processes, StateValues DEF State
  <2> HIDE DEF h
  <2>2. LET b == Append(c, h) IN
        /\ Len(b) = Len(c) + 1 /\ b[Len(c) + 1] = h /\ Last(b) = h
        /\ \A i \in 1 .. Len(c) : b[i] = c[i]
    BY <1>2, <2>1, AppendProperties DEF Last
  <2> QED BY <2>1, <2>2 DEF h
<1> HIDE DEF c, e
<1>5. CASE SupportCall
  <2> DEFINE h == State(currentProcess, "general", 0, <<"none">>)
             b == Append(c, h)
             d == [e EXCEPT !["general"] = Ecall]
  <2>1. reg.level = "program" /\ PassUp("general", Ecall) /\ "general" \in Handler
    BY <1>5 DEF SupportCall, UserMode, Handler
  <2>2. Len(c) = 1 /\ c[1] = Last(c) /\ c[1].level = "program"
    <3>1. Last(c).level = "program" /\ Last(c) = c[Len(c)]
      BY <1>3, <2>1 DEF Last
    <3>2. Len(c) = 1 \/ c[Len(c)].level # "program"
      BY <1>2 DEF Nested, Handler
    <3> QED BY <3>1, <3>2
  <2>3. h.level = "general" /\ Len(b) = 2 /\ b[2] = h /\ Last(b) = h /\ b[1] = c[1]
    BY <1>4, <2>1, <2>2
  <2>4. d["general"] = Ecall
    BY <1>2, <2>1
  <2> HIDE DEF h, b, d
  <2>5. Nested(b, d)
    BY <1>3, <2>1, <2>2, <2>3, <2>4 DEF Nested
  <2> QED BY <1>1, <1>3, <2>1, <2>5, PassUpStates DEF b, d, h, c, e
<1>6. CASE PageFault
  <2> DEFINE h == State(currentProcess, "pager", 0, <<"none">>)
             b == Append(c, h)
             d == [e EXCEPT !["pager"] = reg]
  <2>1. reg.level # "pager" /\ PassUp("pager", reg) /\ "pager" \in Handler /\ "general" \in Handler
    BY <1>6 DEF PageFault, Handler
  <2>2. /\ Len(c) \in {1, 2} /\ Found(c[Len(c)]) = reg
        /\ Len(c) = 2 => c[2].level = "general"
    BY <1>2, <1>3, <2>1 DEF Nested, Handler, Last
  <2>3. /\ h.level = "pager" /\ Len(b) = Len(c) + 1 /\ b[Len(c) + 1] = h /\ Last(b) = h
        /\ \A i \in 1 .. Len(c) : b[i] = c[i]
    BY <1>4, <2>1
  <2>4. d["pager"] = reg /\ d["general"] = e["general"]
    BY <1>2, <2>1
  <2> HIDE DEF h, b, d
  <2>5. Nested(b, d)
    <3>1. CASE Len(c) = 1
      BY <1>2, <2>1, <2>2, <2>3, <2>4, <3>1 DEF Nested
    <3>2. CASE Len(c) = 2
      BY <1>2, <2>1, <2>2, <2>3, <2>4, <3>2 DEF Nested
    <3> QED BY <2>2, <3>1, <3>2
  <2> QED BY <1>1, <1>2, <2>1, <2>5, PassUpStates DEF b, d, h, c, e
<1> QED BY <1>5, <1>6

(* supSyscallHandler and pager load what has been passed up.               *)
LEMMA SupportReturnStates ==
  ASSUME IInv, StatesInv, SupportReturn
  PROVE  StatesInv'
<1> DEFINE c == contexts[currentProcess]
           e == sup_exceptState[currentProcess]
           g == e["general"]
           x == [c[1] EXCEPT !.a0 = <<"result">>, !.pc = 0]
           d == [e EXCEPT !["general"] = NoState]
<1>1. Running /\ reg.level = "general" /\ "general" \in Handler
  BY DEF SupportReturn, Handler
<1>2. /\ currentProcess \in Pcb /\ c \in Seq(PState) /\ e \in [Handler -> PState]
      /\ Nested(c, e) /\ Last(c).level = reg.level /\ <<"result">> \in Result
  BY <1>1, Processes, Results, LastFound DEF StatesInv, StateTypes, AllNested, ResumesFound
<1>3. /\ reg' = [g EXCEPT !.a0 = <<"result">>, !.pc = g.pc + 1]
      /\ contexts' = [contexts EXCEPT ![currentProcess] = <<x>>]
      /\ sup_exceptState' = [sup_exceptState EXCEPT ![currentProcess] = d]
      /\ UNCHANGED <<savedState, p_s, activeProcs, currentProcess, p_semAdd, cpu>>
  BY <1>1, <1>2 DEF SupportReturn, Slot, StatesInv, StateTypes, vars, procs, sems
<1>4. d \in [Handler -> PState]
  BY <1>2, StateValues
<1>5. g \in PState
  BY <1>1, <1>2
<1> HIDE DEF c, e, d
<1>6. Len(c) = 2 /\ c[2].level = "general"
  BY <1>1, <1>2 DEF Nested, Last
<1>7. /\ c[1] \in PState /\ c[1].level = "program"
      /\ g.owner = c[1].owner /\ g.level = c[1].level /\ g.pc = 0
  <2>1. c[2].level = "general" /\ Len(c) >= 2
    BY <1>1, <1>6
  <2>2. c[1] \in PState
    <3>1. c \in Seq(PState) /\ 1 \in 1 .. Len(c)
      BY <1>2, <1>6
    <3> QED BY <3>1
  <2> QED BY <1>2, <2>1, <2>2 DEF Nested
<1> HIDE DEF g
<1>8. /\ reg' \in PState /\ reg'.a0 = <<"result">>
      /\ reg'.owner = g.owner /\ reg'.level = g.level /\ reg'.pc = 1
  <2> DEFINE n == g.pc + 1
  <2>1. reg' = [g EXCEPT !.a0 = <<"result">>, !.pc = n] /\ n \in Int
    BY <1>3, <1>5 DEF PState
  <2>2. n = 1
    BY <1>7
  <2> HIDE DEF n
  <2> QED BY <1>2, <1>5, <2>1, <2>2 DEF PState
<1>9. /\ x \in PState /\ x.a0 = <<"result">> /\ x.pc = 0
      /\ x.owner = c[1].owner /\ x.level = c[1].level
  <2> DEFINE n == 0
             y == c[1]
  <2>1. n \in Int /\ y \in PState
    BY <1>7
  <2> HIDE DEF n, y
  <2>2. LET z == [y EXCEPT !.a0 = <<"result">>, !.pc = n] IN
        /\ z \in PState /\ z.a0 = <<"result">> /\ z.pc = n
        /\ z.owner = y.owner /\ z.level = y.level
    BY <1>2, <2>1 DEF PState
  <2> QED BY <2>2 DEF n, y
<1> HIDE DEF x
<1>10. Found(x) = reg'
  <2> DEFINE n == x.pc + 1
             y == [x EXCEPT !.pc = n]
  <2>1. n = 1 /\ n \in Int
    BY <1>9
  <2>2. Found(x) = y
    BY <1>9 DEF Found
  <2> HIDE DEF n
  <2>3. y \in PState /\ y.owner = x.owner /\ y.level = x.level /\ y.pc = 1 /\ y.a0 = <<"result">>
    BY <1>9, <2>1 DEF PState
  <2> HIDE DEF y
  <2> QED BY <1>7, <1>8, <1>9, <2>2, <2>3, SameState
<1>11. <<x>> \in Seq(PState) /\ Found(Last(<<x>>)) = reg' /\ Nested(<<x>>, d)
  BY <1>7, <1>9, <1>10 DEF Nested, Last
<1> QED BY <1>1, <1>3, <1>4, <1>8, <1>11, ContextStates

LEMMA PagerReturnStates ==
  ASSUME IInv, StatesInv, PagerReturn
  PROVE  StatesInv'
<1> DEFINE c == contexts[currentProcess]
           e == sup_exceptState[currentProcess]
           d == [e EXCEPT !["pager"] = NoState]
<1>1. Running /\ reg.level = "pager" /\ "pager" \in Handler
  BY DEF PagerReturn, Handler
<1>2. /\ currentProcess \in Pcb /\ c \in Seq(PState) /\ e \in [Handler -> PState]
      /\ Nested(c, e) /\ Last(c).level = reg.level
  BY <1>1, Processes, LastFound DEF StatesInv, StateTypes, AllNested, ResumesFound
<1>3. /\ reg' = e["pager"]
      /\ contexts' = [contexts EXCEPT ![currentProcess] = Front(c)]
      /\ sup_exceptState' = [sup_exceptState EXCEPT ![currentProcess] = d]
      /\ UNCHANGED <<savedState, p_s, activeProcs, currentProcess, p_semAdd, cpu>>
  BY <1>1, <1>2 DEF PagerReturn, Slot, StatesInv, StateTypes, vars, procs, sems
<1>4. d \in [Handler -> PState] /\ d["general"] = e["general"]
  <2>1. "general" \in Handler /\ NoState \in PState
    BY StateValues DEF Handler
  <2> QED BY <1>2, <2>1
<1> HIDE DEF c, e, d
<1>5. /\ Len(c) \in {2, 3} /\ c[1].level = "program" /\ e["pager"] = Found(c[Len(c) - 1])
      /\ Len(c) = 3 => c[2].level = "general"
      /\ c[2].level = "general" =>
           e["general"].owner = c[1].owner /\ e["general"].level = c[1].level /\ e["general"].pc = 0
  BY <1>1, <1>2 DEF Nested, Last
<1> DEFINE b == Front(c)
<1>6. /\ b \in Seq(PState) /\ Len(b) = Len(c) - 1
      /\ \A i \in 1 .. Len(c) - 1 : b[i] = c[i]
  BY <1>2, <1>5, FrontOf
<1> HIDE DEF b
<1>7. Found(Last(b)) = e["pager"] /\ Nested(b, d)
  <2>1. CASE Len(c) = 2
    BY <1>4, <1>5, <1>6, <2>1 DEF Nested, Last
  <2>2. CASE Len(c) = 3
    BY <1>4, <1>5, <1>6, <2>2, "general" \in Handler DEF Nested, Last, Handler
  <2> QED BY <1>5, <2>1, <2>2
<1>8. e["pager"] \in PState
  BY <1>1, <1>2
<1> QED BY <1>1, <1>3, <1>4, <1>6, <1>7, <1>8, ContextStates DEF b

(* A step that leaves the states and what is said of them alone.           *)
LEMMA SameStates ==
  ASSUME StatesInv, UNCHANGED <<states, contexts, activeProcs, currentProcess, p_semAdd, cpu>>
  PROVE  StatesInv'
BY DEF StatesInv, states, StateTypes, AllNested, SavedNow, LoopRight, ResumesFound, Running

(* The end of a call of terminateProcess.                                  *)
LEMMA TerminateSelfCallStates ==
  ASSUME IInv, IInv', Decided', StatesInv, TerminateSelfCall
  PROVE  StatesInv'
<1> DEFINE p == Head(calls)
           rest == IF p = currentProcess THEN NoProc ELSE currentProcess
           saved == [p_s EXCEPT ![p] = NoState]
           none == [type \in Handler |-> NoState]
<1>1. /\ TerminateSelf /\ LeaveSemaphore(p)
      /\ activeProcs' = activeProcs \ {p}
      /\ contexts' = [contexts EXCEPT ![p] = <<StartState(p)>>]
      /\ sup_exceptState' = [sup_exceptState EXCEPT ![p] = none]
      /\ cpu = "terminate"
  BY DEF TerminateSelfCall, TerminateSelf
<1>2. p \in Pcb
  <2>1. calls # <<>> /\ calls \in Seq(Pcb)
    BY <1>1 DEF IInv, CpuTypes, CallTypes
  <2> QED BY <2>1, TailProperties
<1>3. p_semAdd' = [p_semAdd EXCEPT ![p] = NoSem]
  BY <1>1 DEF LeaveSemaphore
<1>4. IF Tail(calls) = <<>>
      THEN /\ \E rq : ResumeOrSchedule(rest, rq, processCount - 1, softBlockCount')
           /\ EndLoop(saved)
      ELSE /\ currentProcess' = rest /\ cpu' = cpu
           /\ p_s' = saved /\ UNCHANGED <<reg, savedState>>
  <2>1. CASE Tail(calls) = <<>>
    <3>1. PICK rq : ResumeOrSchedule(rest, rq, processCount - 1, softBlockCount')
      BY <1>1, <2>1 DEF TerminateSelf
    <3>2. cpu' # "terminate"
      BY <3>1, SchedulerEnds DEF ResumeOrSchedule
    <3> QED BY <2>1, <3>1, <3>2 DEF TerminateSelfCall
  <2>2. CASE Tail(calls) # <<>>
    BY <1>1, <2>2 DEF TerminateSelf, TerminateSelfCall
  <2> QED BY <2>1, <2>2
<1> HIDE DEF p
<1>5. /\ StateTypes /\ activeProcs \subseteq Pcb /\ p_semAdd \in [Pcb -> Sem \cup {NoSem}]
      /\ NoProc \notin Pcb /\ currentProcess \in Pcb \cup {NoProc}
  BY Places DEF StatesInv
<1>6. saved \in [Pcb -> PState] /\ none \in [Handler -> PState]
  BY <1>5, StateValues DEF StateTypes
<1>7. /\ contexts' \in [Pcb -> Seq(PState)]
      /\ sup_exceptState' \in [Pcb -> [Handler -> PState]]
      /\ AllNested'
  <2>1. <<StartState(p)>> \in Seq(PState) /\ Nested(<<StartState(p)>>, none)
    BY <1>2, Started
  <2> HIDE DEF none
  <2> QED BY <1>1, <1>2, <1>5, <1>6, <2>1 DEF StatesInv, StateTypes, AllNested
<1>8. SavedRight(saved, currentProcess, activeProcs', p_semAdd', contexts')
  BY <1>1, <1>2, <1>3, <1>5 DEF StatesInv, StateTypes, SavedNow, SavedRight
<1>9. currentProcess # NoProc /\ currentProcess # p =>
        savedState = Found(Last(contexts'[currentProcess]))
  BY <1>1, <1>2, <1>5 DEF StatesInv, StateTypes, LoopRight
<1> HIDE DEF saved, none
<1>10. CASE Tail(calls) = <<>>
  <2>1. PICK rq : ResumeOrSchedule(rest, rq, processCount - 1, softBlockCount')
    BY <1>4, <1>10
  <2>2. EndLoop(saved) /\ cpu' \notin {"tick", "terminate"}
    BY <1>4, <1>10, <2>1, SchedulerEnds DEF ResumeOrSchedule
  <2>3. currentProcess' # currentProcess => currentProcess \notin activeProcs'
    BY <1>1, <1>5, <2>1 DEF ResumeOrSchedule
  <2>4. currentProcess' # NoProc => currentProcess' \in activeProcs'
    BY PcbAssumption DEF IInv, PlacedNow, Placed, QueueTypes, Elsewhere
  <2>5. currentProcess' = currentProcess /\ currentProcess # NoProc =>
          savedState = Found(Last(contexts'[currentProcess]))
    BY <1>1, <1>9, <2>4
  <2>6. /\ reg' \in PState /\ p_s' \in [Pcb -> PState] /\ savedState' \in PState
        /\ SavedNow' /\ LoopRight' /\ ResumesFound'
    BY <1>5, <1>6, <1>8, <2>2, <2>3, <2>5, EndLoopRight
  <2> QED BY <1>7, <2>6 DEF StatesInv, StateTypes
<1>11. CASE Tail(calls) # <<>>
  <2>1. /\ currentProcess' = rest /\ cpu' = "terminate"
        /\ p_s' = saved /\ UNCHANGED <<reg, savedState>>
    BY <1>1, <1>4, <1>11
  <2>2. StateTypes'
    BY <1>5, <1>6, <1>7, <2>1 DEF StateTypes
  <2>3. \A q \in activeProcs' : q # currentProcess' => q # currentProcess
    BY <1>1, <2>1
  <2>4. SavedNow'
    BY <1>8, <2>1, <2>3 DEF SavedNow, SavedRight
  <2>5. LoopRight' /\ ResumesFound'
    BY <1>9, <2>1 DEF LoopRight, ResumesFound, Running
  <2> QED BY <1>7, <2>2, <2>4, <2>5 DEF StatesInv
<1> QED BY <1>10, <1>11

-----------------------------------------------------------------------------
(* Interrupts.                                                             *)

LEMMA TimeSliceCallStates ==
  ASSUME IInv, IInv', Decided', StatesInv, TimeSliceCall
  PROVE  StatesInv'
<1>1. /\ Running /\ Dispatch(Saved(reg))
      /\ UNCHANGED <<savedState, sup_exceptState, contexts, activeProcs, p_semAdd>>
      /\ cpu' \notin {"tick", "terminate"}
  BY SchedulerEnds DEF TimeSliceCall, TimeSlice, procs, sems
<1>2. /\ currentProcess \in Pcb /\ activeProcs \subseteq Pcb /\ p_semAdd[currentProcess] = NoSem
      /\ StateTypes /\ reg = Found(Last(contexts[currentProcess]))
  BY <1>1, Places, Processes DEF StatesInv, ResumesFound
<1>3. /\ Saved(reg) \in [Pcb -> PState]
      /\ \A p \in Pcb : Saved(reg)[p] = IF p = currentProcess THEN reg ELSE p_s[p]
  BY <1>2 DEF Saved, StateTypes
<1>4. SavedRight(Saved(reg), NoProc, activeProcs', p_semAdd', contexts')
  BY <1>1, <1>2, <1>3, OwedWhere DEF StatesInv, SavedNow, SavedRight
<1>5. /\ reg' \in PState /\ p_s' \in [Pcb -> PState]
      /\ SavedNow' /\ LoopRight' /\ ResumesFound'
  BY <1>1, <1>2, <1>3, <1>4, DispatchRight
<1> QED BY <1>1, <1>2, <1>5 DEF StatesInv, StateTypes, AllNested

(* A process woken by the interval timer has its result.                   *)
LEMMA TickWakeCallStates ==
  ASSUME IInv, StatesInv, TickWakeCall
  PROVE  StatesInv'
<1> DEFINE q == Head(s_procq[Clock])
<1>1. /\ cpu = "tick" /\ s_procq[Clock] # <<>>
      /\ p_semAdd' = [p_semAdd EXCEPT ![q] = NoSem]
      /\ p_s' = [p_s EXCEPT ![q].a0 = <<"zero">>]
      /\ UNCHANGED <<reg, savedState, sup_exceptState, contexts, activeProcs, currentProcess, cpu>>
  BY DEF TickWakeCall, TickWake, WakeOne, procs
<1>2. Clock \in Sem
  BY DEF Sem, Soft
<1>3. q \in Pcb /\ p_semAdd[q] = Clock /\ p_semAdd \in [Pcb -> Sem \cup {NoSem}] /\ activeProcs \subseteq Pcb
  BY <1>1, <1>2, Places
<1> HIDE DEF q
<1>4. StateTypes
  BY DEF StatesInv
<1> DEFINE t == [p_s[q] EXCEPT !.a0 = <<"zero">>]
<1>5. t \in PState /\ p_s' = [p_s EXCEPT ![q] = t]
  <2>1. p_s[q] \in PState /\ <<"zero">> \in Result
    BY <1>3, <1>4, Results DEF StateTypes
  <2>2. t \in PState
    BY <2>1, NewResult
  <2> QED BY <1>1, <1>3, <1>4, <2>2 DEF StateTypes
<1>6. t = Owed(p_semAdd[q], p_s[q])
  BY <1>3, OwedWhere
<1> HIDE DEF t
<1>7. StateTypes'
  <2>1. p_s' \in [Pcb -> PState]
    BY <1>3, <1>4, <1>5 DEF StateTypes
  <2>2. UNCHANGED <<reg, savedState, sup_exceptState, contexts>>
    BY <1>1
  <2> QED BY <1>4, <2>1, <2>2 DEF StateTypes
<1>8. \A p \in Pcb : Owed(p_semAdd'[p], p_s'[p]) = Owed(p_semAdd[p], p_s[p])
  <2> TAKE p \in Pcb
  <2>1. CASE p = q
    <3>1. p_semAdd'[p] = NoSem /\ p_s'[p] = t
      BY <1>1, <1>3, <1>4, <1>5, <2>1 DEF StateTypes
    <3> QED BY <1>6, <2>1, <3>1, OwedWhere
  <2>2. CASE p # q
    BY <1>1, <1>3, <1>4, <1>5, <2>2 DEF StateTypes
  <2> QED BY <2>1, <2>2
<1>9. SavedNow'
  BY <1>1, <1>3, <1>8 DEF StatesInv, SavedNow, SavedRight
<1> QED BY <1>1, <1>7, <1>9 DEF StatesInv, AllNested, LoopRight, ResumesFound, Running

LEMMA TickEndCallStates ==
  ASSUME IInv, IInv', Decided', StatesInv, TickEndCall
  PROVE  StatesInv'
<1>1. /\ EndLoop(p_s) /\ cpu = "tick"
      /\ UNCHANGED <<sup_exceptState, contexts, activeProcs, p_semAdd>>
  BY DEF TickEndCall, TickEnd, procs
<1>2. ResumeOrSchedule(currentProcess, readyQueue, processCount, softBlockCount)
  BY DEF TickEndCall, TickEnd
<1>3. cpu' \notin {"tick", "terminate"} /\ (currentProcess' # currentProcess => currentProcess = NoProc)
  BY <1>2, SchedulerEnds DEF ResumeOrSchedule
<1>4. activeProcs \subseteq Pcb /\ NoProc \notin Pcb /\ StateTypes /\ p_s \in [Pcb -> PState]
  BY Places DEF StatesInv, StateTypes
<1>5. SavedRight(p_s, currentProcess, activeProcs', p_semAdd', contexts')
  BY <1>1 DEF StatesInv, SavedNow
<1>6. currentProcess # NoProc => savedState = Found(Last(contexts'[currentProcess]))
  BY <1>1 DEF StatesInv, LoopRight
<1>7. currentProcess' # currentProcess => currentProcess \notin activeProcs'
  BY <1>1, <1>3, <1>4
<1>8. /\ reg' \in PState /\ p_s' \in [Pcb -> PState] /\ savedState' \in PState
      /\ SavedNow' /\ LoopRight' /\ ResumesFound'
  BY <1>1, <1>3, <1>4, <1>5, <1>6, <1>7, EndLoopRight
<1> QED BY <1>1, <1>4, <1>8 DEF StatesInv, StateTypes, AllNested

(* The processes woken by devices ds find the status of their own.         *)
LEMMA AnsweredRight ==
  ASSUME IInv, StatesInv, NEW ds \in SUBSET Dev,
         p_semAdd' = [p \in Pcb |-> IF \E d \in Woken(ds) : Head(s_procq[d]) = p
                                    THEN NoSem ELSE p_semAdd[p]]
  PROVE  /\ Answered(ds) \in [Pcb -> PState]
         /\ \A p \in Pcb : Owed(p_semAdd'[p], Answered(ds)[p]) = Owed(p_semAdd[p], p_s[p])
<1>1. \A d \in Woken(ds) : d \in Dev /\ p_semAdd[Head(s_procq[d])] = d
  BY Places DEF Woken, Completed, Sem, Soft
<1>2. ASSUME NEW p \in Pcb
      PROVE  /\ Answered(ds)[p] \in PState
             /\ Owed(p_semAdd'[p], Answered(ds)[p]) = Owed(p_semAdd[p], p_s[p])
  <2>1. p_s[p] \in PState
    BY DEF StatesInv, StateTypes
  <2>2. ASSUME NEW d \in Woken(ds), Head(s_procq[d]) = p
        PROVE  /\ Answered(ds)[p] \in PState
               /\ Owed(p_semAdd'[p], Answered(ds)[p]) = Owed(p_semAdd[p], p_s[p])
    <3>1. d \in Dev /\ p_semAdd[p] = d /\ d \in Result
      BY <1>1, <2>2, Results
    <3>2. (CHOOSE x \in Woken(ds) : Head(s_procq[x]) = p) = d
      <4>1. \A x \in Woken(ds) : Head(s_procq[x]) = p => x = d
        BY <1>1, <3>1
      <4> QED BY <2>2, <4>1
    <3>3. Answered(ds)[p] = [p_s[p] EXCEPT !.a0 = d]
      BY <2>2, <3>2 DEF Answered
    <3>4. Answered(ds)[p] = Owed(p_semAdd[p], p_s[p])
      BY <3>1, <3>3, OwedWhere
    <3>5. p_semAdd'[p] = NoSem
      BY <2>2
    <3>6. Answered(ds)[p] \in PState
      BY <2>1, <3>1, <3>3, NewResult
    <3> QED BY <3>4, <3>5, <3>6, OwedWhere
  <2>3. CASE ~ \E d \in Woken(ds) : Head(s_procq[d]) = p
    BY <2>1, <2>3 DEF Answered
  <2> QED BY <2>2, <2>3
<1> QED BY <1>2 DEF Answered

(* The end of a device handler: the process it has interrupted goes on, or *)
(* the scheduler chooses one, maybe one that has just been woken.          *)
LEMMA AnswerStates ==
  ASSUME IInv, IInv', Decided, Decided', StatesInv, Interruptible, NEW ds \in SUBSET Dev, NEW rq,
         Acknowledge(ds, rq), Answer(ds)
  PROVE  StatesInv'
<1>1. /\ ResumeOrSchedule(currentProcess, rq, processCount, softBlockCount')
      /\ UNCHANGED <<savedState, sup_exceptState, contexts, activeProcs>>
  BY DEF Acknowledge, Answer, procs
<1>2. /\ Answered(ds) \in [Pcb -> PState]
      /\ \A p \in Pcb : Owed(p_semAdd'[p], Answered(ds)[p]) = Owed(p_semAdd[p], p_s[p])
  BY AnsweredRight DEF Acknowledge
<1>3. SavedRight(Answered(ds), currentProcess, activeProcs', p_semAdd', contexts')
  BY <1>1, <1>2, Processes DEF StatesInv, SavedNow, SavedRight
<1>4. cpu' \notin {"tick", "terminate"}
  BY <1>1, SchedulerEnds DEF ResumeOrSchedule
<1>5. StateTypes
  BY DEF StatesInv
<1>6. CASE currentProcess # NoProc
  <2>1. Running /\ reg = Found(Last(contexts[currentProcess]))
    BY <1>6 DEF Interruptible, Decided, Running, StatesInv, ResumesFound
  <2>2. reg' = reg /\ p_s' = Answered(ds) /\ currentProcess' = currentProcess
    BY <1>1, <1>6 DEF Answer, Load, ResumeOrSchedule
  <2>3. StateTypes'
    BY <1>1, <1>2, <1>5, <2>2 DEF StateTypes
  <2>4. SavedNow' /\ LoopRight' /\ ResumesFound'
    BY <1>1, <1>3, <1>4, <2>1, <2>2 DEF SavedNow, LoopRight, ResumesFound
  <2> QED BY <1>1, <2>3, <2>4 DEF StatesInv, AllNested
<1>7. CASE currentProcess = NoProc
  <2>1. Dispatch(Answered(ds))
    BY <1>7 DEF Answer
  <2>2. /\ reg' \in PState /\ p_s' \in [Pcb -> PState]
        /\ SavedNow' /\ LoopRight' /\ ResumesFound'
    BY <1>2, <1>3, <1>4, <1>5, <1>7, <2>1, DispatchRight
  <2> QED BY <1>1, <1>5, <2>2 DEF StatesInv, StateTypes, AllNested
<1> QED BY <1>6, <1>7

-----------------------------------------------------------------------------
(* Every handler leaves every process in the state it has to go on in.     *)
LEMMA NextStates == IInv /\ IInv' /\ Decided /\ Decided' /\ StatesInv /\ [PSNext]_allVars => StatesInv'
<1> SUFFICES ASSUME IInv, IInv', Decided, Decided', StatesInv, [PSNext]_allVars
             PROVE  StatesInv'
  OBVIOUS
<1>1. CASE \E prio \in Prio, support \in Support : CreateCall(prio, support)
  BY <1>1, CreateCallStates
<1>2. CASE CreateFails \/ GetCall \/ TermFails
  BY <1>2, GetCallStates
<1>3. CASE \E s \in Normal : PasserenCall(s) \/ VerhogenCall(s)
  BY <1>3, PasserenCallStates, VerhogenCallStates
<1>4. CASE ClockWaitCall \/ \E d \in Dev : DoIOCall(d)
  BY <1>4, WaitCallStates
<1>5. CASE YieldCall
  BY <1>5, YieldCallStates
<1>6. CASE \E p \in Pcb : TermProcessCall(p)
  BY <1>6, TermProcessCallStates
<1>7. CASE SupportCall \/ PageFault
  BY <1>7, SupportCallStates
<1>8. CASE SupportReturn \/ PagerReturn
  BY <1>8, SupportReturnStates, PagerReturnStates
<1>9. CASE Die
  <2>1. /\ Interruptible /\ cpu' = "terminate" /\ savedState' = reg /\ reg' = NoState
        /\ UNCHANGED <<sup_exceptState, p_s, contexts, activeProcs, currentProcess, p_semAdd>>
    BY <1>9 DEF Die, PassUpOrDie, Terminate, Running, Interruptible, sems
  <2> QED BY <2>1, LoopStates
<1>10. CASE TerminateSelfCall
  BY <1>10, TerminateSelfCallStates
<1>11. CASE TimeSliceCall
  BY <1>11, TimeSliceCallStates
<1>12. CASE IntervalTimerCall
  <2>1. /\ Interruptible /\ cpu' = "tick" /\ savedState' = reg /\ reg' = NoState
        /\ UNCHANGED <<sup_exceptState, p_s, contexts, activeProcs, currentProcess, p_semAdd>>
    BY <1>12 DEF IntervalTimerCall, IntervalTimer, procs, sems
  <2> QED BY <2>1, LoopStates
<1>13. CASE TickWakeCall
  BY <1>13, TickWakeCallStates
<1>14. CASE TickEndCall
  BY <1>14, TickEndCallStates
<1>15. ASSUME NEW line \in PlainLine, NEW n \in DevNo, DeviceCall(line, n)
       PROVE  StatesInv'
  <2> DEFINE d == <<line, n>>
  <2>1. {d} \in SUBSET Dev
    BY DEF Dev, PlainDev
  <2>2. Interruptible /\ Answer({d}) /\ \E rq : Acknowledge({d}, rq)
    BY <1>15 DEF DeviceCall, DeviceInterrupt
  <2> QED BY <2>1, <2>2, AnswerStates
<1>16. ASSUME NEW n \in TermNo, TerminalCall(n)
       PROVE  StatesInv'
  <2> DEFINE ds == {d \in {<<"tx", n>>, <<"rx", n>>} : device[d] = "done"}
  <2>1. ds \in SUBSET Dev
    BY DEF Dev, TxDev, RxDev
  <2>2. Interruptible /\ Answer(ds) /\ \E rq : Acknowledge(ds, rq)
    BY <1>16 DEF TerminalCall, TerminalInterrupt
  <2> QED BY <2>1, <2>2, AnswerStates
<1>17. CASE TerminateChildCall \/ \E d \in Dev : DeviceEnds(d)
  <2>1. UNCHANGED <<states, contexts, activeProcs, currentProcess, p_semAdd, cpu>>
    BY <1>17 DEF TerminateChildCall, TerminateChild, DeviceEnds, DeviceDone, DeviceError, stateVars,
       procs, sems
  <2> QED BY <2>1, SameStates
<1>18. CASE Spurious \/ TimePasses \/ UNCHANGED allVars
  <2>1. UNCHANGED <<states, contexts, activeProcs, currentProcess, p_semAdd, cpu>>
    BY <1>18 DEF Spurious, TimePasses, allVars, vars, stateVars, procs, sems
  <2> QED BY <2>1, SameStates
<1> QED
  BY <1>1, <1>2, <1>3, <1>4, <1>5, <1>6, <1>7, <1>8, <1>9, <1>10, <1>11, <1>12, <1>13, <1>14,
     <1>15, <1>16, <1>17, <1>18 DEF PSNext

(* test is dispatched in the state main() has given it.                    *)
LEMMA InitStates == PSInit => IInv /\ Decided /\ StatesInv
<1> SUFFICES ASSUME PSInit
             PROVE  IInv /\ Decided /\ StatesInv
  OBVIOUS
<1>1. IInv
  BY InitIInv DEF PSInit
<1>2. Decided /\ Running /\ activeProcs = {currentProcess}
  BY DEF PSInit, Init, Boot, Decided, Running
<1>3. currentProcess \in Pcb
  BY <1>1, <1>2, Processes
<1>4. /\ reg = StartState(currentProcess) /\ savedState = NoState
      /\ p_s = [p \in Pcb |-> NoState]
      /\ sup_exceptState = [p \in Pcb |-> [type \in Handler |-> NoState]]
      /\ contexts = [p \in Pcb |-> <<StartState(p)>>]
  BY DEF PSInit
<1>5. \A p \in Pcb : <<StartState(p)>> \in Seq(PState) /\ Found(Last(<<StartState(p)>>)) = StartState(p)
  BY Started
<1>6. StateTypes
  BY <1>3, <1>4, <1>5, StateValues DEF StateTypes
<1>7. AllNested
  BY <1>4, Started DEF AllNested
<1>8. SavedNow /\ LoopRight /\ ResumesFound
  BY <1>2, <1>3, <1>4, <1>5 DEF SavedNow, SavedRight, LoopRight, ResumesFound, Running
<1> QED BY <1>1, <1>2, <1>6, <1>7, <1>8 DEF StatesInv

(* However many processes and devices there are and however the processes  *)
(* call, trap, are interrupted and are passed up, a process that executes  *)
(* does so in its own state, at the instruction it is owed and with the    *)
(* result of its call in a0; only a program with the result of a support   *)
(* call may be one word further.                                           *)
THEOREM ProcessesResume == PSSpec => []ResumesButForAWord
<1>1. IInv /\ Decided /\ StatesInv /\ [PSNext]_allVars => (IInv /\ Decided /\ StatesInv)'
  BY StepIsNext, NextIInv, NextDecided, NextStates
<1>2. StatesInv => ResumesButForAWord
  BY DEF StatesInv, ResumesFound, Found, ResumesButForAWord
<1> QED BY InitStates, <1>1, <1>2, PTL DEF PSSpec

=============================================================================
