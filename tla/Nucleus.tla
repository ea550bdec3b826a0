------------------------------- MODULE Nucleus -------------------------------
(***************************************************************************)
(* The Nucleus of PandOSsh (phase1/pcb.c, phase1/asl.c and phase2/): the   *)
(* process table and process tree, the semaphores, the scheduler, the      *)
(* system calls, process termination, and the interrupt handlers.          *)
(*                                                                         *)
(* The Nucleus runs with interrupts disabled, so a handler is one action.  *)
(* Two handlers contain a loop over processes: the recursion of            *)
(* terminateProcess and the wake-up loop of the interval timer.  Their     *)
(* iterations are one step each; until the loop ends "cpu" names it and no *)
(* other handler is enabled, so that nothing but the devices, which run    *)
(* beside the processor, can move between two iterations.                  *)
(*                                                                         *)
(* GETTIME, GETSUPPORTPTR, GETPROCESSID, a CREATEPROCESS that finds no     *)
(* free PCB, a TERMPROCESS that finds no target and an exception passed up *)
(* to a support structure leave every variable below alone: they are       *)
(* stuttering steps.                                                       *)
(***************************************************************************)
EXTENDS ProcQ

CONSTANTS
  Pcb,          \* the PCBs of pcbFree_table (MAXPROC of them)
  NoProc,       \* the NULL pcb_t pointer
  NoSem,        \* the NULL semaphore address
  Prio,         \* the priorities processes ask for
  LowPrio,      \* PROCESS_PRIO_LOW, the priority of the first process
  Support,      \* with and without a support structure, or only one of them
  UserSem,      \* how many semaphores processes use with PASSEREN and VERHOGEN
  PlainLine,    \* the device lines whose devices have one semaphore each
  DevNo,        \* the device numbers of a line
  TermNo,       \* the device numbers of the terminals (line 7)
  Faulty,       \* TRUE if a terminal operation may end in an error status
  OneWaiter,    \* TRUE if processes never share a device (see DoIO)
  MaxVal,       \* bound: a semaphore is not raised above MaxVal
  MaxBacklog    \* bound: a device or clock semaphore stays >= -MaxBacklog

ASSUME PcbAssumption == IsFiniteSet(Pcb) /\ Pcb # {} /\ NoProc \notin Pcb
ASSUME PrioAssumption == Prio \subseteq Int /\ LowPrio \in Prio
ASSUME SupportAssumption == Support \subseteq BOOLEAN
ASSUME DevAssumption ==
  /\ UserSem \in Nat
  /\ DevNo \subseteq Nat /\ TermNo \subseteq Nat
  /\ PlainLine \cap {"user", "tx", "rx", "clock"} = {}
ASSUME FlagAssumption == Faulty \in BOOLEAN /\ OneWaiter \in BOOLEAN
ASSUME BoundAssumption == MaxVal \in Nat /\ MaxBacklog \in Nat

-----------------------------------------------------------------------------
(* Semaphore addresses.  devSems has one semaphore per device of lines 3   *)
(* to 6, two per terminal, and the pseudo-clock's.                         *)

MaxProc == Cardinality(Pcb)

PlainDev == PlainLine \X DevNo
TxDev    == {"tx"} \X TermNo
RxDev    == {"rx"} \X TermNo
Dev      == PlainDev \cup TxDev \cup RxDev

Clock    == <<"clock", 0>>
Normal   == {"user"} \X (1 .. UserSem)
Soft     == Dev \cup {Clock}
Sem      == Normal \cup Soft

ASSUME NoSemAssumption == NoSem \notin Sem

VARIABLES
  pcbFree,          \* pcbFree_h
  p_parent,         \* the parent of each PCB
  p_child,          \* its children, in list order
  p_prio,           \* its priority
  p_semAdd,         \* the semaphore it is blocked on
  p_supportStruct,  \* whether it has a support structure
  terminated,       \* the PCBs whose p_pid is -1
  activeProcs,      \* the PCBs with a slot in activeProcs[]
  readyQueue,
  currentProcess,
  processCount,
  softBlockCount,
  semVal,           \* the integer at each semaphore address
  s_procq,          \* the queue of each semaphore (the ASL)
  device,           \* external: what each (sub-)device is doing
  issuer,           \* history: whose command each (sub-)device is executing
  calls,            \* the active calls of terminateProcess, innermost first
  cpu               \* what the processor is doing

tree    == <<p_parent, p_child>>
attrs   == <<p_prio, p_supportStruct>>
sems    == <<semVal, s_procq, p_semAdd>>
devices == <<device, issuer>>
procs   == <<pcbFree, terminated, activeProcs, processCount>>
vars    == <<tree, attrs, sems, devices, procs, readyQueue, currentProcess,
             softBlockCount, calls, cpu>>

\* A process is executing and may trap or be interrupted.
Running == cpu = "run"

\* Interrupts are enabled: a process executes, or the scheduler has called WAIT.
Interruptible == cpu \in {"run", "wait"}

-----------------------------------------------------------------------------
(* scheduler(), called with ready queue rq and the two counters.           *)

Scheduler(rq, live, soft) ==
  IF rq # <<>>
  THEN /\ currentProcess' = Head(rq)
       /\ readyQueue' = Tail(rq)
       /\ cpu' = "run"
  ELSE /\ currentProcess' = NoProc
       /\ readyQueue' = rq
       /\ cpu' = IF live = 0 THEN "halt" ELSE IF soft > 0 THEN "wait" ELSE "panic"

\* Mutant: resumes without looking whether a process is left.
ResumeOrSchedule_Always(cur, rq, live, soft) ==
  currentProcess' = cur /\ readyQueue' = rq /\ cpu' = "run"

\* The end of every interrupt handler and of TERMPROCESS: LDST the current
\* process if there is one, otherwise call the scheduler.
ResumeOrSchedule(cur, rq, live, soft) ==
  IF cur # NoProc
  THEN currentProcess' = cur /\ readyQueue' = rq /\ cpu' = "run"
  ELSE Scheduler(rq, live, soft)

-----------------------------------------------------------------------------
(* Initialisation: main() up to and including its call of the scheduler,   *)
(* which dispatches the only process, test.                                *)

PcbTables == {t \in [1 .. MaxProc -> Pcb] : \A p \in Pcb : \E i \in 1 .. MaxProc : t[i] = p}

\* With the PCBs at the places table gives them and process semaphores at values.
Boot(table, values) ==
  /\ currentProcess = Head(table)
  /\ pcbFree = Tail(table)
  /\ p_parent = [p \in Pcb |-> NoProc]
  /\ p_child = [p \in Pcb |-> <<>>]
  /\ p_prio = [p \in Pcb |-> LowPrio]
  /\ p_semAdd = [p \in Pcb |-> NoSem]
  /\ p_supportStruct = [p \in Pcb |-> FALSE]
  /\ terminated = {}
  /\ activeProcs = {currentProcess}
  /\ readyQueue = <<>>
  /\ processCount = 1
  /\ softBlockCount = 0
  /\ semVal = [s \in Sem |-> IF s \in Soft THEN 0 ELSE values[s]]
  /\ s_procq = [s \in Sem |-> <<>>]
  /\ device = [d \in Dev |-> "idle"]
  /\ issuer = [d \in Dev |-> NoProc]
  /\ calls = <<>>
  /\ cpu = "run"

Init == \E table \in PcbTables, values \in [Normal -> 0 .. MaxVal] : Boot(table, values)

-----------------------------------------------------------------------------
(* System calls.                                                           *)

\* allocPcb takes the PCB off the free list and gives it a new p_pid.
\* Mutant: the p_pid of the process that had the PCB before stays.
AllocPcb_KeepsPid(p) == pcbFree' = Tail(pcbFree) /\ UNCHANGED terminated

AllocPcb(p) == pcbFree' = Tail(pcbFree) /\ terminated' = terminated \ {p}

\* CREATEPROCESS with priority prio and a support structure or not: parent and
\* child both enter the ready queue.  activeProcs_add panics if it finds no slot.
CreateProcess(prio, support) ==
  /\ Running /\ pcbFree # <<>>
  /\ LET child == Head(pcbFree)
         prios == [p_prio EXCEPT ![child] = prio]
     IN  /\ AllocPcb(child)
         /\ p_prio' = prios
         /\ p_supportStruct' = [p_supportStruct EXCEPT ![child] = support]
         /\ p_semAdd' = [p_semAdd EXCEPT ![child] = NoSem]
         /\ p_parent' = [p_parent EXCEPT ![child] = currentProcess]
         /\ p_child' = [p_child EXCEPT ![child] = <<>>,
                                       ![currentProcess] = Append(@, child)]
         /\ activeProcs' = activeProcs \cup {child}
         /\ processCount' = processCount + 1
         /\ IF activeProcs = Pcb
            THEN cpu' = "panic" /\ UNCHANGED <<readyQueue, currentProcess>>
            ELSE Scheduler(InsertProcQ(prios, InsertProcQ(prios, readyQueue, currentProcess), child),
                           processCount + 1, softBlockCount)
  /\ UNCHANGED <<softBlockCount, semVal, s_procq, devices, calls>>

\* blockCurrentProcess on semaphore s, whose value is already decremented.
\* The result of insertBlocked is not looked at.
BlockCurrentProcess(s, soft) ==
  /\ p_semAdd' = [p_semAdd EXCEPT ![currentProcess] = s]
  /\ s_procq' = InsertBlocked(s_procq, s, currentProcess, MaxProc)
  /\ softBlockCount' = soft
  /\ Scheduler(readyQueue, processCount, soft)

\* PASSEREN on a semaphore that is not one of devSems.
Passeren(s) ==
  /\ Running /\ s \in Normal
  /\ semVal' = [semVal EXCEPT ![s] = @ - 1]
  /\ IF semVal[s] - 1 < 0
     THEN BlockCurrentProcess(s, softBlockCount)
     ELSE UNCHANGED <<s_procq, p_semAdd, softBlockCount, readyQueue, currentProcess, cpu>>
  /\ UNCHANGED <<tree, attrs, devices, procs, calls>>

\* The V half of VERHOGEN and of the device handlers: wake the head of s.
WakeOne(s) ==
  /\ s_procq' = RemoveBlocked(s_procq, s)
  /\ p_semAdd' = [p_semAdd EXCEPT ![Head(s_procq[s])] = NoSem]

\* VERHOGEN: the caller keeps the processor whatever it wakes.
Verhogen(s) ==
  /\ Running /\ s \in Normal
  /\ semVal[s] < MaxVal
  /\ semVal' = [semVal EXCEPT ![s] = @ + 1]
  /\ IF semVal[s] + 1 <= 0 /\ s_procq[s] # <<>>
     THEN /\ WakeOne(s)
          /\ readyQueue' = InsertProcQ(p_prio, readyQueue, Head(s_procq[s]))
     ELSE UNCHANGED <<s_procq, p_semAdd, readyQueue>>
  /\ UNCHANGED <<tree, attrs, devices, procs, currentProcess, softBlockCount, calls, cpu>>

\* DOIO: the command is written to the device register, and the caller always
\* blocks.  A device ignores a command while it is busy (external: uRISCV).
\* With OneWaiter, processes take turns on a device, as the ones of phase 3 do
\* with its mutex: no DOIO while another process waits for the same device.
DoIO(d) ==
  /\ Running /\ d \in Dev
  /\ semVal[d] > -MaxBacklog
  /\ OneWaiter => s_procq[d] = <<>>
  /\ device' = [device EXCEPT ![d] = "busy"]
  /\ issuer' = IF device[d] = "busy" THEN issuer ELSE [issuer EXCEPT ![d] = currentProcess]
  /\ semVal' = [semVal EXCEPT ![d] = @ - 1]
  /\ BlockCurrentProcess(d, softBlockCount + 1)
  /\ UNCHANGED <<tree, attrs, procs, calls>>

\* Mutant: left to blockCurrentProcess, which does not count the clock's waiters.
ClockWait_Uncounted ==
  /\ Running
  /\ semVal[Clock] > -MaxBacklog
  /\ semVal' = [semVal EXCEPT ![Clock] = @ - 1]
  /\ BlockCurrentProcess(Clock, softBlockCount)
  /\ UNCHANGED <<tree, attrs, devices, procs, calls>>

\* CLOCKWAIT: counts the caller as soft-blocked itself, since
\* blockCurrentProcess only does so for the semaphores of devices.
ClockWait ==
  /\ Running
  /\ semVal[Clock] > -MaxBacklog
  /\ semVal' = [semVal EXCEPT ![Clock] = @ - 1]
  /\ BlockCurrentProcess(Clock, softBlockCount + 1)
  /\ UNCHANGED <<tree, attrs, devices, procs, calls>>

\* YIELD: the scheduler queues the yielder behind its equals only if a process
\* of the same or a higher priority is ready; otherwise it goes on at once.
Yield ==
  /\ Running
  /\ IF readyQueue # <<>> /\ p_prio[Head(readyQueue)] >= p_prio[currentProcess]
     THEN Scheduler(InsertProcQ(p_prio, readyQueue, currentProcess), processCount, softBlockCount)
     ELSE UNCHANGED <<readyQueue, currentProcess, cpu>>
  /\ UNCHANGED <<tree, attrs, sems, devices, procs, softBlockCount, calls>>

-----------------------------------------------------------------------------
(* Termination.                                                            *)

\* The outermost call of terminateProcess.
Terminate(target) ==
  /\ calls' = <<target>>
  /\ terminated' = terminated \cup {target}
  /\ cpu' = "terminate"
  /\ UNCHANGED <<tree, attrs, sems, devices, pcbFree, activeProcs, processCount,
                 readyQueue, currentProcess, softBlockCount>>

\* TERMPROCESS of the caller (pid 0) or of any process found by its pid.
TermProcess(target) ==
  /\ Running /\ target \in activeProcs
  /\ Terminate(target)

\* An exception of a process that has no support structure (passUpOrDie).
PassUpOrDie ==
  /\ Running /\ ~p_supportStruct[currentProcess]
  /\ Terminate(currentProcess)

\* Mutant: removeChild returns the child without unlinking it.
TerminateChild_Linked ==
  /\ cpu = "terminate"
  /\ LET p == Head(calls) IN
     /\ p_child[p] # <<>>
     /\ LET child == Head(p_child[p]) IN
        /\ p_parent' = [p_parent EXCEPT ![child] = NoProc]
        /\ calls' = IF child \in terminated THEN calls ELSE <<child>> \o calls
        /\ terminated' = terminated \cup {child}
  /\ UNCHANGED <<p_child, attrs, sems, devices, pcbFree, activeProcs, processCount,
                 readyQueue, currentProcess, softBlockCount, cpu>>

\* One turn of the loop over removeChild: the first child is detached, and
\* terminated in turn unless its p_pid is -1 already.
TerminateChild ==
  /\ cpu = "terminate"
  /\ LET p == Head(calls) IN
     /\ p_child[p] # <<>>
     /\ LET child == Head(p_child[p]) IN
        /\ p_child' = [p_child EXCEPT ![p] = Tail(@)]
        /\ p_parent' = [p_parent EXCEPT ![child] = NoProc]
        /\ calls' = IF child \in terminated THEN calls ELSE <<child>> \o calls
        /\ terminated' = terminated \cup {child}
  /\ UNCHANGED <<attrs, sems, devices, pcbFree, activeProcs, processCount,
                 readyQueue, currentProcess, softBlockCount, cpu>>

\* Mutant: a process that terminates itself stays in its parent's list.
OutChild_Missing(p) == UNCHANGED tree

\* outChild.
OutChild(p) ==
  IF p_parent[p] = NoProc
  THEN UNCHANGED tree
  ELSE /\ p_parent' = [p_parent EXCEPT ![p] = NoProc]
       /\ p_child' = [p_child EXCEPT ![p_parent[p]] = RemoveFirst(@, p)]

\* Mutants: a killed soft-blocked process stays counted; the P of a killed
\* process is not undone.
LeaveSemaphore_StaysCounted(p) ==
  LET s       == p_semAdd[p]
      removed == s # NoSem /\ Contains(s_procq[s], p)
  IN  /\ p_semAdd' = [p_semAdd EXCEPT ![p] = NoSem]
      /\ s_procq' = IF removed THEN OutBlocked(s_procq, s, p) ELSE s_procq
      /\ semVal' = IF removed /\ s \notin Soft THEN [semVal EXCEPT ![s] = @ + 1] ELSE semVal
      /\ UNCHANGED softBlockCount

LeaveSemaphore_KeepsUnit(p) ==
  LET s       == p_semAdd[p]
      removed == s # NoSem /\ Contains(s_procq[s], p)
  IN  /\ p_semAdd' = [p_semAdd EXCEPT ![p] = NoSem]
      /\ s_procq' = IF removed THEN OutBlocked(s_procq, s, p) ELSE s_procq
      /\ softBlockCount' = IF removed /\ s \in Soft THEN softBlockCount - 1 ELSE softBlockCount
      /\ UNCHANGED semVal

\* A process that was blocked leaves its semaphore.  On a device or the clock
\* the value stays for the interrupt to raise; elsewhere the P is undone.
LeaveSemaphore(p) ==
  LET s       == p_semAdd[p]
      removed == s # NoSem /\ Contains(s_procq[s], p)
  IN  /\ p_semAdd' = [p_semAdd EXCEPT ![p] = NoSem]
      /\ s_procq' = IF removed THEN OutBlocked(s_procq, s, p) ELSE s_procq
      /\ semVal' = IF removed /\ s \notin Soft THEN [semVal EXCEPT ![s] = @ + 1] ELSE semVal
      /\ softBlockCount' = IF removed /\ s \in Soft THEN softBlockCount - 1 ELSE softBlockCount

\* The rest of terminateProcess once p has no children, its return, and when
\* the outermost call returns the end of the system call or of passUpOrDie.
\* (History: a dead process has issued no command.)
TerminateSelf ==
  /\ cpu = "terminate"
  /\ LET p   == Head(calls)
         rq  == OutProcQ(readyQueue, p)
         cur == IF p = currentProcess THEN NoProc ELSE currentProcess
     IN  /\ p_child[p] = <<>>
         /\ OutChild(p)
         /\ activeProcs' = activeProcs \ {p}
         /\ LeaveSemaphore(p)
         /\ pcbFree' = Append(pcbFree, p)
         /\ processCount' = processCount - 1
         /\ calls' = Tail(calls)
         /\ IF Tail(calls) = <<>>
            THEN ResumeOrSchedule(cur, rq, processCount - 1, softBlockCount')
            ELSE readyQueue' = rq /\ currentProcess' = cur /\ UNCHANGED cpu
         /\ issuer' = [d \in Dev |-> IF issuer[d] = p THEN NoProc ELSE issuer[d]]
  /\ UNCHANGED <<attrs, terminated, device>>

-----------------------------------------------------------------------------
(* Interrupts.                                                             *)

\* The processor local timer: the time slice is over.  It is masked in WAIT.
TimeSlice ==
  /\ Running
  /\ Scheduler(InsertProcQ(p_prio, readyQueue, currentProcess), processCount, softBlockCount)
  /\ UNCHANGED <<tree, attrs, sems, devices, procs, softBlockCount, calls>>

\* Mutant: the interval timer interrupts only when the processor waits.
IntervalTimer_OnlyInWait ==
  /\ cpu = "wait"
  /\ cpu' = "tick"
  /\ UNCHANGED <<tree, attrs, sems, devices, procs, readyQueue, currentProcess,
                 softBlockCount, calls>>

\* The interval timer: its handler starts waking the clock's waiters.
IntervalTimer ==
  /\ Interruptible
  /\ cpu' = "tick"
  /\ UNCHANGED <<tree, attrs, sems, devices, procs, readyQueue, currentProcess,
                 softBlockCount, calls>>

\* One turn of its loop.
TickWake ==
  /\ cpu = "tick" /\ s_procq[Clock] # <<>>
  /\ WakeOne(Clock)
  /\ readyQueue' = InsertProcQ(p_prio, readyQueue, Head(s_procq[Clock]))
  /\ softBlockCount' = softBlockCount - 1
  /\ UNCHANGED <<tree, attrs, semVal, devices, procs, currentProcess, calls, cpu>>

\* Mutant: the semaphore is cleared before the queue is empty.
TickEnd_Early ==
  /\ cpu = "tick"
  /\ semVal' = [semVal EXCEPT ![Clock] = 0]
  /\ ResumeOrSchedule(currentProcess, readyQueue, processCount, softBlockCount)
  /\ UNCHANGED <<tree, attrs, s_procq, p_semAdd, devices, procs, softBlockCount, calls>>

\* The end of the loop: the clock semaphore is cleared.
TickEnd ==
  /\ cpu = "tick" /\ s_procq[Clock] = <<>>
  /\ semVal' = [semVal EXCEPT ![Clock] = 0]
  /\ ResumeOrSchedule(currentProcess, readyQueue, processCount, softBlockCount)
  /\ UNCHANGED <<tree, attrs, s_procq, p_semAdd, devices, procs, softBlockCount, calls>>

\* A device interrupts: its operation is over and not acknowledged.
Pending(d) == device[d] \in {"done", "error"}

\* Mutant: the V is done only for two waiters.
Completed_OffByOne(ds) == {d \in ds : semVal[d] < -1}

\* The V of a device handler on a set of sub-devices, each with a waiter.
Completed(ds) == {d \in ds : semVal[d] < 0}
Woken(ds) == {d \in Completed(ds) : s_procq[d] # <<>>}

\* A handler acknowledges the sub-devices ds, wakes their waiters and leaves
\* ready queue rq.
Acknowledge(ds, rq) ==
  LET soft == softBlockCount - Cardinality(Woken(ds)) IN
  /\ device' = [d \in Dev |-> IF d \in ds THEN "idle" ELSE device[d]]
  /\ issuer' = [d \in Dev |-> IF d \in ds THEN NoProc ELSE issuer[d]]
  /\ semVal' = [s \in Sem |-> IF s \in Completed(ds) THEN semVal[s] + 1 ELSE semVal[s]]
  /\ s_procq' = [s \in Sem |-> IF s \in Woken(ds) THEN Tail(s_procq[s]) ELSE s_procq[s]]
  /\ p_semAdd' = [p \in Pcb |-> IF \E d \in Woken(ds) : Head(s_procq[d]) = p
                                THEN NoSem ELSE p_semAdd[p]]
  /\ softBlockCount' = soft
  /\ ResumeOrSchedule(currentProcess, rq, processCount, soft)
  /\ UNCHANGED <<tree, attrs, procs, calls>>

\* A device of lines 3 to 6, the lowest-numbered that interrupts on its line.
DeviceInterrupt(line, n) ==
  LET d == <<line, n>> IN
  /\ Interruptible
  /\ Pending(d) /\ \A m \in DevNo : m < n => ~Pending(<<line, m>>)
  /\ Acknowledge({d}, IF d \in Woken({d})
                      THEN InsertProcQ(p_prio, readyQueue, Head(s_procq[d]))
                      ELSE readyQueue)

\* The lowest-numbered terminal that interrupts: the transmitter first, then
\* the receiver, each only if its status is the successful one.  The waiter
\* of the transmitter goes to the tail of the ready queue whatever its priority.
TerminalInterrupt(n) ==
  LET tx == <<"tx", n>>
      rx == <<"rx", n>>
      ds == {d \in {tx, rx} : device[d] = "done"}
      rq == IF tx \in Woken(ds) THEN Append(readyQueue, Head(s_procq[tx])) ELSE readyQueue
  IN
  /\ Interruptible
  /\ Pending(tx) \/ Pending(rx)
  /\ \A m \in TermNo : m < n => ~Pending(<<"tx", m>>) /\ ~Pending(<<"rx", m>>)
  /\ Acknowledge(ds, IF rx \in Woken(ds)
                     THEN InsertProcQ(p_prio, rq, Head(s_procq[rx]))
                     ELSE rq)

\* External: a device ends its operation.  An error status of a device of
\* lines 3 to 6 is handled like a success, so only terminals tell them apart.
DeviceDone(d) ==
  /\ device[d] = "busy"
  /\ device' = [device EXCEPT ![d] = "done"]
  /\ UNCHANGED <<tree, attrs, sems, issuer, procs, readyQueue, currentProcess,
                 softBlockCount, calls, cpu>>

DeviceError(d) ==
  /\ Faulty /\ d \notin PlainDev
  /\ device[d] = "busy"
  /\ device' = [device EXCEPT ![d] = "error"]
  /\ UNCHANGED <<tree, attrs, sems, issuer, procs, readyQueue, currentProcess,
                 softBlockCount, calls, cpu>>

-----------------------------------------------------------------------------
Next ==
  \/ \E prio \in Prio, support \in Support : CreateProcess(prio, support)
  \/ \E s \in Normal : Passeren(s) \/ Verhogen(s)
  \/ \E d \in Dev : DoIO(d)
  \/ ClockWait
  \/ Yield
  \/ \E p \in Pcb : TermProcess(p)
  \/ PassUpOrDie
  \/ TerminateChild
  \/ TerminateSelf
  \/ TimeSlice
  \/ IntervalTimer
  \/ TickWake
  \/ TickEnd
  \/ \E line \in PlainLine, n \in DevNo : DeviceInterrupt(line, n)
  \/ \E n \in TermNo : TerminalInterrupt(n)
  \/ \E d \in Dev : DeviceDone(d) \/ DeviceError(d)

Spec == Init /\ [][Next]_vars
=============================================================================
