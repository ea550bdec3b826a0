------------------------------- MODULE P2Test -------------------------------
(***************************************************************************)
(* The Nucleus running the test program of phase 2 (phase2/p2test.c):      *)
(* which calls each process makes, in which order, and what it checks.     *)
(*                                                                         *)
(* A program is the sequence of what it asks of the Nucleus and of its     *)
(* accesses to the variables that processes share.  Between two such       *)
(* points a process works on its own data; CPU times are left out.         *)
(*                                                                         *)
(* No time slice ends: one lasts TIMESLICE, five seconds (const.h:182),    *)
(* and no process of the test computes for as long without a call that     *)
(* blocks it.  What is left open is when the terminal and the interval     *)
(* timer interrupt.                                                        *)
(***************************************************************************)
EXTENDS NucleusLiveness

CONSTANTS
  P8Rounds,      \* how often p1 starts p8
  YieldTimes,    \* how often hp_p1 yields
  ClockLoop,     \* CLOCKLOOP, how often p3 waits for the clock
  Characters     \* bound: the characters of a message

ASSUME LoopAssumption ==
  P8Rounds \in Nat /\ YieldTimes \in Nat /\ ClockLoop \in Nat /\ Characters \in Nat

\* The semaphores of the test, of which s stands for any one of s[].
Semaphores == <<"term_mut", "testsem", "startp2", "endp2", "endp3", "blkp4", "synp4", "endp4",
                "endp5", "endp8", "endcreate0", "endcreate1", "endcreate2", "endcreate3",
                "blkp8", "blkp9", "s">>

ASSUME SemaphoreAssumption == UserSem = Len(Semaphores)

Address(name) == <<"user", CHOOSE i \in 1 .. UserSem : Semaphores[i] = name>>

InitialValue == [s \in Normal |-> IF Semaphores[s[2]] \in {"term_mut", "blkp4"} THEN 1 ELSE 0]

-----------------------------------------------------------------------------
(* Instructions.                                                           *)

P(s)         == <<"P", s>>
V(s)         == <<"V", s>>
DOIO         == <<"DOIO">>
CLOCKWAIT    == <<"CLOCKWAIT">>
ClockAgain   == <<"ClockAgain">>        \* another CLOCKWAIT, or not
YIELD        == <<"YIELD">>
Terminate0   == <<"TERMPROCESS">>
KillParent   == <<"KillParent">>        \* TERMPROCESS of the pid last asked for
Trap         == <<"Trap">>              \* an exception that is not the Nucleus' own call
Expect(s, n) == <<"Expect", s, n>>      \* an error unless semaphore s is n
Self(v)      == <<"Self", v>>           \* an error unless GETPROCESSID(0) is the pid in v
Parent(v)    == <<"Parent", v>>         \* the same of GETPROCESSID(1)
Assign(v)    == <<"Assign", v>>         \* v := the pid that CREATEPROCESS returned
Synch        == <<"Synch">>             \* p1p2synch = 1
Synched      == <<"Synched">>           \* an error unless p1p2synch is 1
Reset        == <<"Reset">>             \* the semaphores of p8 are set to 0
Error        == <<"Error">>             \* a message "error", PANIC, or the end of the code
Create(program, prio, support) == <<"CREATEPROCESS", program, prio, support>>

Repeat(n, instructions) == FlattenSeq([i \in 1 .. n |-> instructions])

\* print(): the terminal is held while the characters are sent one by one.
Message == <<P("term_mut")>> \o Repeat(Characters, <<DOIO>>) \o <<V("term_mut")>>

-----------------------------------------------------------------------------
(* The programs.  Each ends in Error: where it would be after its last     *)
(* call if that call returned.                                             *)

HighPrio == 1       \* PROCESS_PRIO_HIGH

P1Semaphores ==
  <<V("testsem"), V("testsem"), V("testsem"), Expect("testsem", 3),
    P("testsem"), P("testsem"), P("testsem"), Expect("testsem", 0)>> \o Message

P1Starts ==
  <<Create("p2", LowPrio, FALSE), Assign("p2")>> \o Message \o
  <<V("startp2"), P("endp2"), Synched, Create("p3", LowPrio, FALSE), Assign("p3")>> \o Message \o
  <<P("endp3"),
    Create("hp_p1", 10, FALSE), Create("hp_p2", HighPrio, FALSE),
    Create("p4", LowPrio, FALSE), Assign("p4"),
    Create("p5", LowPrio, TRUE), Create("p6", LowPrio, FALSE), Create("p7", LowPrio, FALSE),
    Create("p9", LowPrio, FALSE), Assign("p9")>>

P1Ends ==
  <<P("endp5")>> \o Message \o <<P("blkp4")>> \o
  Repeat(P8Rounds, <<Reset, Create("p8root", LowPrio, FALSE), Assign("p8"), P("endp8")>>) \o
  Message \o <<Trap, Error>>

P2 ==
  <<P("startp2")>> \o Message \o <<Self("p2")>> \o
  <<V("s"), P("s"), Expect("s", 0)>> \o Message \o Message \o
  <<Synch, V("endp2"), Terminate0, Error>>

P3 ==
  <<CLOCKWAIT, ClockAgain>> \o Message \o Repeat(ClockLoop, <<CLOCKWAIT>>) \o Message \o
  <<Self("p3"), V("endp3"), Terminate0, Error>>

P4 ==
  Message \o <<Self("p4"), V("synp4"), P("blkp4"), P("synp4"),
             Create("p4", LowPrio, FALSE), Assign("p4"), P("synp4")>> \o
  Message \o <<V("endp4"), Terminate0, Error>>

\* p5 and the handlers that take it from one part to the next: a bus error goes
\* through p5gen to p5a, a page fault through p5mm to p5b in user mode, where
\* its code is out of reach, so through p5gen to p5b again; SYSCALL(1), p5sys.
P5gen == Message
P5mm  == Message \o Message
P5sys == Message
P5a   == <<Trap>>
P5b   ==
  <<Trap>> \o P5sys \o
  <<P("endp4"), CLOCKWAIT, ClockAgain, V("blkp4"), V("endp5"), Terminate0, Error>>
P5    == Message \o <<Trap>> \o P5gen \o P5a \o P5mm \o <<Trap>> \o P5gen \o P5b

P6 == Message \o <<Trap, Error>>
P7 == Message \o <<Trap, Error>>

P8root ==
  Message \o
  <<Create("child1", LowPrio, FALSE), Create("child2", LowPrio, FALSE),
    P("endcreate0"), P("endcreate1"), P("endcreate2"), P("endcreate3"),
    V("endp8"), Terminate0, Error>>

Child(leaf, other) ==
  Message \o <<Parent("p8"), Create(leaf, LowPrio, FALSE), Create(other, LowPrio, FALSE),
             P("blkp8"), Error>>

P8leaf(created) == Message \o <<V(created), P("blkp8"), Error>>

P9  == Message \o <<Create("p10", LowPrio, FALSE), P("blkp9"), Error>>
P10 == Message \o <<Parent("p9"), KillParent, Error>>

Hp_p1 == Message \o Repeat(YieldTimes, <<YIELD>>) \o Message \o <<Terminate0, Error>>
Hp_p2 == Message \o <<YIELD>> \o Message \o <<Terminate0, Error>>

Program ==
  [test |-> P1Semaphores \o P1Starts \o P1Ends,
   p2 |-> P2, p3 |-> P3, p4 |-> P4, p5 |-> P5, p6 |-> P6, p7 |-> P7, p9 |-> P9, p10 |-> P10,
   p8root |-> P8root,
   child1 |-> Child("leaf1", "leaf2"), child2 |-> Child("leaf3", "leaf4"),
   leaf1 |-> P8leaf("endcreate0"), leaf2 |-> P8leaf("endcreate1"),
   leaf3 |-> P8leaf("endcreate2"), leaf4 |-> P8leaf("endcreate3"),
   hp_p1 |-> Hp_p1, hp_p2 |-> Hp_p2]

-----------------------------------------------------------------------------
VARIABLES
  program,     \* the program of each PCB
  pc,          \* where it is in its program
  reg_a0,      \* the pid its last call returned
  p_pid,       \* its identifier
  next_pid,
  pid,         \* the variables p2pid, p3pid, p4pid, p8pid and p9pid
  p1p2synch

places == <<program, pc>>
pids   == <<reg_a0, p_pid, next_pid, pid>>
p2vars == <<vars, places, pids, p1p2synch>>

P2Init ==
  /\ Boot([i \in 1 .. MaxProc |-> i], InitialValue)
  /\ program = [p \in Pcb |-> "test"]
  /\ pc = [p \in Pcb |-> 1]
  /\ reg_a0 = [p \in Pcb |-> 0]
  /\ p_pid = [p \in Pcb |-> IF p = currentProcess THEN 1 ELSE 0]
  /\ next_pid = 2
  /\ pid = [v \in {"p2", "p3", "p4", "p8", "p9"} |-> 0]
  /\ p1p2synch = 0

Instruction(p) == Program[program[p]][pc[p]]

\* The current process executes an instruction of kind op.
Executes(op) == Running /\ Instruction(currentProcess)[1] = op

Arg(i) == Instruction(currentProcess)[i]

Advance == pc' = [pc EXCEPT ![currentProcess] = @ + 1] /\ UNCHANGED program

\* The current process finds cond, or it is in error.
Check(cond) ==
  /\ pc' = [pc EXCEPT ![currentProcess] = IF cond THEN @ + 1 ELSE Len(Program[program[currentProcess]])]
  /\ UNCHANGED <<vars, program>>

-----------------------------------------------------------------------------
(* Calls that only move the program of their caller on.                    *)
Call ==
  /\ \/ Executes("P") /\ Passeren(Address(Arg(2)))
     \/ Executes("V") /\ Verhogen(Address(Arg(2)))
     \/ Executes("DOIO") /\ DoIO(<<"tx", 0>>)
     \/ Executes("CLOCKWAIT") /\ ClockWait
     \/ Executes("ClockAgain") /\ (ClockWait \/ UNCHANGED vars)
     \/ Executes("YIELD") /\ Yield
     \/ Executes("TERMPROCESS") /\ TermProcess(currentProcess)
     \/ /\ Executes("Trap")
        /\ IF p_supportStruct[currentProcess] THEN UNCHANGED vars ELSE PassUpOrDie
  /\ Advance
  /\ UNCHANGED <<pids, p1p2synch>>

\* The child starts its program with the next pid, which its parent is given.
Creation ==
  /\ Executes("CREATEPROCESS")
  /\ CreateProcess(Arg(3), Arg(4))
  /\ LET child == Head(pcbFree) IN
     /\ program' = [program EXCEPT ![child] = Arg(2)]
     /\ pc' = [pc EXCEPT ![child] = 1, ![currentProcess] = @ + 1]
     /\ p_pid' = [p_pid EXCEPT ![child] = next_pid]
     /\ reg_a0' = [reg_a0 EXCEPT ![currentProcess] = next_pid]
  /\ next_pid' = next_pid + 1
  /\ UNCHANGED <<pid, p1p2synch>>

Assignment ==
  /\ Executes("Assign")
  /\ pid' = [pid EXCEPT ![Arg(2)] = reg_a0[currentProcess]]
  /\ Advance
  /\ UNCHANGED <<vars, reg_a0, p_pid, next_pid, p1p2synch>>

\* GETPROCESSID(1), and the comparison with what the parent's creator stored.
AskParent ==
  LET parent == p_parent[currentProcess]
      ppid   == IF parent = NoProc THEN 0 ELSE p_pid[parent]
  IN  /\ Executes("Parent")
      /\ reg_a0' = [reg_a0 EXCEPT ![currentProcess] = ppid]
      /\ Check(ppid = pid[Arg(2)])
      /\ UNCHANGED <<p_pid, next_pid, pid, p1p2synch>>

\* TERMPROCESS of a pid: findProcessByPid, and nothing if there is none.
Kill ==
  LET found == {p \in activeProcs \ terminated : p_pid[p] = reg_a0[currentProcess]}
  IN  /\ Executes("KillParent")
      /\ IF found = {} THEN UNCHANGED vars ELSE \E p \in found : TermProcess(p)
      /\ Advance
      /\ UNCHANGED <<pids, p1p2synch>>

Test ==
  /\ \/ Executes("Self") /\ Check(p_pid[currentProcess] = pid[Arg(2)])
     \/ Executes("Expect") /\ Check(semVal[Address(Arg(2))] = Arg(3))
     \/ Executes("Synched") /\ Check(p1p2synch = 1)
  /\ UNCHANGED <<pids, p1p2synch>>

SetSynch ==
  /\ Executes("Synch")
  /\ p1p2synch' = 1
  /\ Advance
  /\ UNCHANGED <<vars, pids>>

\* p1 sets the semaphores of p8 to 0 without a call.
ResetP8 ==
  /\ Executes("Reset")
  /\ LET reset == {Address(s) : s \in {"blkp8", "endp8", "endcreate0", "endcreate1",
                                       "endcreate2", "endcreate3"}}
     IN  semVal' = [s \in Sem |-> IF s \in reset THEN 0 ELSE semVal[s]]
  /\ Advance
  /\ UNCHANGED <<tree, attrs, s_procq, p_semAdd, devices, procs, readyQueue, currentProcess,
                 softBlockCount, calls, cpu, pids, p1p2synch>>

ProgramStep ==
  Call \/ Creation \/ Assignment \/ AskParent \/ Kill \/ Test \/ SetSynch \/ ResetP8

\* The rest of the system goes on as in Next.
SystemStep ==
  /\ \/ TerminateChild
     \/ TerminateSelf
     \/ IntervalTimer
     \/ TickWake
     \/ TickEnd
     \/ \E n \in TermNo : TerminalInterrupt(n)
     \/ \E d \in Dev : DeviceDone(d)
  /\ UNCHANGED <<places, pids, p1p2synch>>

P2Next == ProgramStep \/ SystemStep

P2Spec ==
  /\ P2Init /\ [][P2Next]_p2vars
  /\ SF_p2vars(ProgramStep)
  /\ LoopFairness /\ InterruptFairness /\ DeviceFairness

-----------------------------------------------------------------------------
(* No check of the test fails and no process survives its own end, however *)
(* the interrupts fall: a parent knows the pid of its child before the     *)
(* child asks for it, a P that must block does, a trap without a support   *)
(* structure kills, and with a process die all its descendants.            *)
TestPasses ==
  /\ cpu # "panic"
  /\ ~Executes("Error")

(* The test comes to its end, and the system halts: no process is left,    *)
(* and none waits for what nobody will do.                                 *)
TestEnds == <>(cpu = "halt")
=============================================================================
