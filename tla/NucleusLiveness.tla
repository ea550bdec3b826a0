--------------------------- MODULE NucleusLiveness ---------------------------
(***************************************************************************)
(* What must eventually happen, under the fairness of the machine.         *)
(***************************************************************************)
EXTENDS NucleusProperties

(* The loops of the handlers run to their end: nothing interrupts them.    *)
LoopFairness ==
  /\ WF_vars(TerminateChild) /\ WF_vars(TerminateSelf)
  /\ WF_vars(TickWake) /\ WF_vars(TickEnd)

(* Each dispatch loads the time slice into the local timer, which counts   *)
(* down whatever the process does.  So if again and again a process of the *)
(* same or a higher priority than the current one is ready, then again and *)
(* again the processor passes to another process: because a slice ends, or *)
(* because the current process gives the processor away before, or dies.   *)
SliceMatters ==
  /\ Running
  /\ readyQueue # <<>> /\ p_prio[Head(readyQueue)] >= p_prio[currentProcess]

Rescheduled ==
  /\ SliceMatters \/ cpu = "terminate"
  /\ Next
  /\ currentProcess' \notin {currentProcess, NoProc}

SliceFairness == SF_vars(Rescheduled)

(* An interrupt stays pending until it is acknowledged, and processes run  *)
(* with interrupts enabled, so it is taken if interrupts are enabled again *)
(* and again (IntervalTimer, DeviceInterrupt, TerminalInterrupt).          *)
InterruptFairness ==
  /\ SF_vars(IntervalTimer)
  /\ \A line \in PlainLine, n \in DevNo : SF_vars(DeviceInterrupt(line, n))
  /\ \A n \in TermNo : SF_vars(TerminalInterrupt(n))

(* Devices end their operations, well or not. *)
DeviceFairness == \A d \in Dev : WF_vars(DeviceDone(d) \/ DeviceError(d))

FairSpec ==
  /\ Spec
  /\ LoopFairness /\ SliceFairness /\ InterruptFairness /\ DeviceFairness

(* A process starves in the ready queue only if processes of higher        *)
(* priority keep the processor: equals share it.                           *)
NoStarvation ==
  \A p \in Pcb :
    <>[](p \in Range(readyQueue)) =>
      []<>(currentProcess # NoProc /\ p_prio[currentProcess] > p_prio[p])

(* A process that waits for the clock does not wait for ever. *)
ClockWakes == \A p \in Pcb : p_semAdd[p] = Clock ~> p_semAdd[p] # Clock

(* A process that started an operation on a device does not wait for ever, *)
(* whatever happened to the processes that used the device before, unless  *)
(* its terminal reports an error, which nobody acknowledges; an error of   *)
(* one half of a terminal does not keep the other from its waiter          *)
(* (interrupts.c:158, 184).                                                *)
IOCompletes ==
  \A p \in Pcb, d \in Dev : p_semAdd[p] = d ~> p_semAdd[p] # d \/ device[d] = "error"

(* Every termination ends, and the processor then goes on or stops. *)
TerminationEnds == cpu = "terminate" ~> cpu # "terminate"
=============================================================================
