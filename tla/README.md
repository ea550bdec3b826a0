# A formal model of PandOSsh

PandOSsh is a small operating system for the uRISCV machine, built in levels:
process and semaphore lists (phase 1), a Nucleus with a scheduler, ten system
calls and interrupt handlers (phase 2), and a support level with virtual memory
and a shell (phase 3). This directory models the three levels and the test
program of phase 2 in TLA+, checks them with TLC on small machines, and proves
their main invariants, and that the pager implements a plain memory, with TLAPS
for machines of any size. Paths below are relative to `src/`.

## 1. Inventory

| component | state it keeps | operations | correct when |
|---|---|---|---|
| PCB queues and tree, `phase1/pcb.c` | `pcbFree_h`, links `p_list`, `p_child`, `p_sib`, `p_parent`, `next_pid` | allocPcb, freePcb, insertProcQ, removeProcQ, outProcQ, insertChild, removeChild, outChild | a PCB is in one queue, once; the two directions of the tree agree; queues are sorted by priority |
| semaphore list, `phase1/asl.c` | `semd_table`, `semdFree_h`, `semd_h` | insertBlocked, removeBlocked, outBlocked | queues are FIFO and there is always a descriptor left |
| initialisation, `phase2/initial.c` | all of the above and the globals | main | the first dispatch finds every table consistent |
| scheduler, `phase2/scheduler.c` | `readyQueue`, `currentProcess`, `yieldedProcess` | scheduler | highest priority first, equals in turn, HALT, WAIT and PANIC when they are due |
| exceptions, `phase2/exceptions.c` | `processCount`, `softBlockCount`, `activeProcs`, `devSems`, `p_s`, `p_time`, `startTOD` | the ten system calls, passUpOrDie, terminateProcess | counters are exact, a kill takes the whole subtree and undoes its waits, a process resumes where it left off, CPU time is charged once |
| interrupts, `phase2/interrupts.c` | `devSems`, device registers | local timer, interval timer, devices, terminals | every operation wakes its caller, with its own status; the interrupted process notices nothing |
| TLB refill, `phase2/exceptions.c` 50-74 | the TLB | uTLB_RefillHandler | an address outside the logical space is refused |
| pager, `phase3/vmSupport.c` | `swapPool`, `fifoNext`, page tables, TLB, `swapPoolSem` | pager, flashOperation, initUprocPageTable | a frame belongs to one page, a valid entry to its frame, an evicted page is on flash |
| support calls, `phase3/sysSupport.c` | `devMutex`, `shellSemaphore` | supTerminate, SYS4, SYS5, SYS6 | mutexes are released, the shell resumes when its child is gone |
| instantiator, `phase3/initProc.c` | `masterSemaphore`, `supportPool` | test, launchUproc | the system halts when the shell ends |
| lists, `headers/listx.h` | pointers | list_add, list_del, ... | the pointers are circular and stand for a sequence |
| test program, `phase2/p2test.c` | semaphores and pids its processes share | eighteen programs of calls and checks | no check fails, whatever the interrupts do; the system halts |
| constants and types, `headers/` | none | the layout of device registers and of `devSems` | DOIO and the interrupt handler mean the same semaphore |
| `klog.c`, `phase2/debug.h`, other tests, `build/`, `documentazione/` | none that the system depends on | | |

**How they interact.** Everything in phases 1 and 2 runs in kernel mode with
interrupts disabled, on one processor, and shares the global variables above: a
process traps into `exceptionHandler`, which calls one system call; a handler
ends by resuming the current process or by calling `scheduler()`, which never
returns. Devices run beside the processor and interrupt it when a process
executes or the scheduler has called WAIT. Phase 3 runs as process code, with
interrupts enabled, and uses the Nucleus only through its calls and the pass-up
of exceptions through a support structure.

**What is hard here.** Not data races: handlers are atomic. It is the sequences
of handlers: kills that reach a process in any of its places (ready, blocked on
a mutex, a device or the clock, current, or in the middle of another kill),
counters that four files maintain by hand, device answers that arrive after
their process died, one interrupt that completes two operations, saved states
that are written while their process sleeps, and the order in which woken
processes reach the processor. Phase 3 can be interrupted anywhere: two page
faults meet in the pager, a program faults while it holds a mutex or ends while
others wait, a page is on its way to flash while its program goes on.
`PROJECT.json` lists each hazard at the line where it bites.

## 2. Modules

| module | what it is |
|---|---|
| `ListX` | the circular lists of `listx.h`: `next`, `prev` and the updates of each function |
| `Phase1` | the state machine of `pcb.c` and `asl.c` on these pointers, from the zeroed tables on |
| `ProcTables` | what phase 1 promises to the Nucleus: sequences and a tree |
| `Phase1Properties` | safety invariants of phase 1, and the mapping to `ProcTables` |
| `ProcQ` | the list operations of `pcb.c` and `asl.c` on sequences |
| `Nucleus` | the state machine: `Init`, one action per handler |
| `NucleusProperties` | type invariant, safety invariants, action properties |
| `NucleusLiveness` | fairness and what must eventually happen |
| `WaitQueues` | what processes that leave do to a queue |
| `ProcessSystem` | what the Nucleus promises to processes, without its tables |
| `NucleusRefinement` | the mapping under which `Nucleus` implements `ProcessSystem` |
| `DeviceAddress` | register addresses, and the index of `devSems` DOIO and the handler compute |
| `ProcessorState` | `Nucleus` with the states handlers save and load, and the CPU times |
| `P2Test` | the processes of `p2test.c`, as what they ask of the Nucleus and check |
| `Pager` | the virtual memory of phase 3: pager, page tables, TLB, frames, flash |
| `SupportLevel` | the state machine of phase 3: shell, programs and instantiator over `Pager` |
| `VirtualMemory` | what a program may expect of its memory |
| `SupportProperties` | type invariant, safety, refinement, fairness and liveness of phase 3 |
| `MC_Phase1`, `MC_Nucleus`, `MC_NucleusLive`, `MC_Processor`, `MC_P2Test`, `MC_Support` | instances for TLC |
| `Phase1_proofs` | the pointers: what linking and unlinking preserve, and that phase 1 does it on the right nodes; each list has the nodes the fields put on it; descriptors in use and left |
| `ProcTables_proofs` | the lists implement `ProcTables` |
| `ProcQ_proofs` | lemmas: what the list operations preserve |
| `Nucleus_proofs` | the inductive invariant and its consequences, the one root of the tree, the sorted ready queue; the counters, the decision to halt, wait or panic, the semaphore values |
| `NucleusRefinement_proofs` | the Nucleus implements `ProcessSystem` |
| `ProcessorState_proofs` | one semaphore for each (sub-)device, CPU times, and the state each process goes on in |
| `SupportLevel_proofs` | the support level: its mutexes, one program at a time, what an ended program leaves behind |
| `VirtualMemory_proofs` | the pager: frames, tables, TLB, contents, and the refinement of `VirtualMemory` |

**Phase 1** (`ListX`, `Phase1`). `lists.next` and `lists.prev` map each
`list_head` (a field of a PCB or a descriptor, or a head) to the one it points
to, or to NULL before it is initialised. A function of `listx.h` is the `EXCEPT`
of its assignments, in their order. An action of `Phase1` is one call of
`pcb.c` or `asl.c`, or an iteration of the loops that fill the two tables, with
the arguments phase 2 gives it: `state` keeps what the callers know of a PCB
(theirs, ready, blocked, free). The mapping to `ProcTables` reads each list off
its pointers; `ProcTables` changes the sequences with the operators of `ProcQ`,
so that the Nucleus, which uses the same operators, rests on the pointers.

**State of the Nucleus.** A list threaded through `p_list` is the sequence of
PCBs on it. The ASL is the function `s_procq` from semaphore addresses to queues: a
descriptor is in use exactly when its queue is not empty, since `removeBlocked`
and `outBlocked` free an emptied one at once. `semVal` is the integer at each
address. Semaphore addresses are `Normal` (the ones processes use) and `Soft`
(`devSems`: one per device, two per terminal, the clock). `terminated` is the
set of PCBs whose `p_pid` is -1; other pids only matter by being distinct.
`cpu` says what the processor does: execute a process (`run`), sit in WAIT
(`wait`), be inside `terminateProcess` or the loop of the interval timer
(`terminate`, `tick`), or be stopped (`halt`, `panic`). `device` and `issuer`
stand for the device hardware: what a (sub-)device does and, as history, for
whom.

**Actions.** One per handler, including the call of the scheduler that ends it.
The two handlers that loop over processes take one step per turn, so that the
invariants also hold between two turns of a termination; `calls` is the stack
of active calls of `terminateProcess`. `yieldedProcess` is never set between
handlers, so `Yield` is the first part of `scheduler()`. Calls that change no
table (GETTIME, GETSUPPORTPTR, GETPROCESSID, failing CREATEPROCESS and
TERMPROCESS, passing an exception up) are stuttering steps of `Nucleus` and
actions of `ProcessorState`.

**Processor states** (`ProcessorState`). Each action of `Nucleus` is given the
states its handler saves, changes and loads. A state is the process it belongs
to, the level it executes at (its program, or a handler of the support level
that an exception was passed up to), `pc_epc`, counted in words from the
instruction the process has to go on with, and what is in `reg_a0`.
`BIOSDATAPAGE` is a variable only while a handler that loops runs; otherwise it
is read in the step that wrote it. A state that must not be read again is
`NoState`, so that a handler that reads it too late resumes nobody. `contexts`
is history: per process, what it has to go on in, one entry for each level. It
is kept from what a call promises, the next instruction and the result, and
never read from what a handler loads.
Handlers take no time, except the two that loop, and `used` is history: the time
each process was current. A program with a support structure runs in user mode,
and so cannot make a call of the Nucleus; its ecall is passed up.

**The test program** (`P2Test`). A program is the sequence of its calls, of its
accesses to shared variables and of its checks; any outcome a check does not
expect, and any call that returns and should not, leads to `Error`. `print`
takes the mutex and sends characters one by one. An exception of `p5` goes on
in the handler its support structure names; an exception of a process without
one kills it. There are no time slices: one lasts five seconds (`const.h:182`),
longer than anything the test computes between two calls that block.

**The support level** (`Pager`, `SupportLevel`) is process code, so a step is
the code from one Nucleus call to the next: within it a process touches its own
data or what the semaphore it holds protects, and interrupts are disabled where
the page table and the TLB change together. PASSEREN and VERHOGEN are the
operators `P` and `V`; any process that is not in a queue may take the next
step, which allows every order the scheduler has and more. A DOIO is one step,
its end, together with the V of the flash mutex after it. `pc` names the place
of a process, `ret` where it goes on after an access, so that a page fault in
the middle of SYS4 or SYS5 comes back there. A page is its index in the page
table, a VPN is counted from `KUSEG_VPN_START`. A block is marked with the
program and page it belongs to, so that one that turns up elsewhere is seen.
`port` is the last access, the only thing of the machine a program sees, and
`VirtualMemory` says what it may be: a program reads from a page what it last
stored there. Under the mapping of `SupportProperties` a page is where its
table entry says, in the frame being written out, or on flash. `leaving` holds
the processes between the V that wakes their waiter and their TERMPROCESS.

**Assumptions made.** A device ignores a command while it is busy and reports
the end of each command by one interrupt. Processes use PASSEREN and VERHOGEN on
addresses outside `devSems`, as all the clients in the repository do. In the
liveness runs `OneWaiter` holds: a process does not start an operation on a
device another process waits for, which is what the mutexes of phase 3 and the
tests of phase 2 ensure.

## 3. Runs

| run | machine | checks |
|---|---|---|
| lists | 3 PCBs, 3 descriptors, 2 semaphores, 2 priorities | `Linked`, `FieldsTellTheList`, `DescriptorsInUse`, `AlwaysBlocks`, `ImplementsProcTables` |
| core | 3 PCBs, priorities 0 and 1, with and without support, 1 semaphore, 1 disk | the invariants of the Nucleus, `DispatchHighest`, `ImplementsProcessSystem` |
| devices | 2 PCBs with processor states, 1 disk, 1 terminal, errors | `CountersExact`, `IdleVerdict`, `SemaphoreBalance`, `ResumesButForAWord`, `TimeChargedOnce`, `OwnSemaphore` |
| share | 3 PCBs, 2 priorities, 1 disk, fair | `IOCompletes`, `NoStarvation`, `ClockWakes`, `TerminationEnds` |
| io | 2 PCBs, 1 terminal with errors, fair | `IOCompletes` |
| p2test | `p2test.c` on 20 PCBs and 1 terminal, fair | `TestPasses`, `TestEnds` |
| memory | shell and 1 program, 2 pages each, 2 frames, 2 values, each launched once | `SupportTypeOK`, `TableAgrees`, `TlbAgrees`, `TerminalMutexes`, `ImplementsVirtualMemory` |
| ends | the same with 1 frame, 1 value, flash errors, a program launched twice, fair | `PagerMutexes`, `DeadOwnNothing`, `FrameOfOne`, `OneProgram`, `AccessEnds`, `ShellResumes`, `SystemHalts` |

`lists` shows that each call mends every pointer it has to, that the fields by
which `outBlocked` and `outChild` find a list always name it, and that the lists
are the sequences `Nucleus` works on. `core` shows the tables consistent at
every step of every termination, and that to processes a termination is one
step that takes a whole subtree and undoes its waits (`ProcessSystem`).
`devices` adds what the tables do not show: whoever executes does so in its own
state, at the instruction it is owed and with the result of its call, through
page faults inside support calls, kills and late answers; and no time is charged
twice or to another. The exception is a program with the result of a support
call, which `ResumesButForAWord` allows to be one word further and no more: that
is where the code takes it, and not where it has to go on (see below). `p2test` runs the repository's own test under every timing
of the terminal and the interval timer, where the machine shows one.

**Bounds.** `MaxVal` caps a semaphore in VERHOGEN (1: enough for a V nobody
waits for). `MaxBacklog` caps how far DOIO and CLOCKWAIT lower a soft semaphore
(2: two waiters, or one waiter and one debt left by a killed process; 1 in
`devices`, where the answer to a killed waiter comes when nobody waits). They
are guards of the model only; all the rest is finite by the number of PCBs.
Three PCBs give a parent, a child and a grandchild, a caller and two waiters,
and a free list that runs out; the proofs cover more. A semaphore per kind
suffices because the code treats all of a kind alike, and `OnePlace` covers the
exhaustion of descriptors, and terminals, through the proof. Runs with symmetry use only
invariants and step properties. Deadlock is not checked: HALT and PANIC stop
the machine.

In `devices` two processes are enough for a state to be mistaken for another's,
and `MaxTime` 1 lets an instant fall into any interval between two charges; the
theorems of section 4 have neither bound. In `lists` three nodes make a list
whose middle is unlinked, and two semaphores make `semd_h` a list of two; there
are as many descriptors as PCBs, as in the code. Phase 1 never deadlocks, which
that run checks.

`P8Rounds` (4), `YieldTimes` (100) and `ClockLoop` (10) in `p2test` are the
numbers of the source. `Characters` (2) is how long a message is: all that
matters is whether another process can get at the terminal in between. `MaxVal`
and `MaxBacklog` (10) are never reached there.

For the support level, two frames and four pages make every replacement happen:
of a page of one's own, of another program, and into a frame freed by a
termination; one frame is enough for `ends`, where contents do not matter. More
programs at once are not possible (`OneProgram`), so one beside the shell is
enough; `MaxLives` bounds how often it is launched. Deadlock is not checked
because the system halts.

**Fairness** (`NucleusLiveness`). The loops of handlers run to their end (WF):
nothing can interrupt them. Devices end their operations (WF). A pending
interrupt is taken if interrupts are enabled again and again (SF): it stays
pending in hardware until acknowledged, and every process runs with interrupts
enabled. The processor passes to another process again and again if a process
of at least the current priority is ready again and again (`Rescheduled`, SF):
each dispatch loads the local timer, which counts down whatever the process
does. Nothing is assumed of processes: they may never block, yield or end.

In `P2Spec` the process that executes takes its next step if it can again and
again (`SF` of `ProgramStep`): interrupts may interpose, but the processor
executes it as soon as the handler ends. The rest is the fairness of loops,
interrupts and devices above.

In `FairSpec` (`SupportProperties`) a process that is ready takes its next step
(WF): that is what `NoStarvation`, `IOCompletes` and the fairness of the
Nucleus give to processes of one priority. An access that has its translation
again and again is done or faults (SF): the access is retried right after the
refill, and an entry is only replaced by other refills. Programs may compute
for ever.

**What the failing runs show.** Each checks one statement of the documentation
or of a comment that the code does not keep (`findings` in `PROJECT.json`):

- `dead_waiter`: the answer to the command of a killed process wakes the next
  process that waits for the device, with a status that is not its own
  (`exceptions.c:189`).
- `stale_tlb`: `initUprocPageTable` invalidates the entries of an ASID that is
  launched again but not their copies in the TLB (`vmSupport.c:80`); what the
  program stores through them is lost.
- `evict_error`: after a flash error the swap pool still records the page that
  was evicted (`vmSupport.c:158`).
- `hole`: the refill handler loads the entry of the stack for the first VPN
  after the text pages, again and again (`exceptions.c:60`).

The machines of the passing runs leave these cases out where they break a
property: `ReadySorted`, `DispatchHighest` and `NoStarvation` are checked without
terminals, since the waiter of a transmitter is queued with `list_add_tail`
(`interrupts.c:178`) and not by priority as `scelte_implementativ2.md:48` says,
and a lower priority may then be dispatched first (YIELD looks at the head of
the queue only, so an unsorted queue can also starve an equal); `IOCompletes`
excepts the half of a terminal that is in error, whose operation is not
acknowledged and wakes nobody (`interrupts.c:158`, `184`), and `io` has one
terminal, since the interrupt of the first one in error then hides those of
the others (`interrupts.c:139`); `TlbAgrees` and `ImplementsVirtualMemory` with each
program launched once; `TableAgrees` and `TerminalMutexes` without flash errors,
since a program that the pager ends in the middle of a terminal call keeps the
mutex of the terminal (`sysSupport.c:50`, `85`). What holds in spite of errors
and relaunches is in `ends`, above all that no frame is ever mapped for two
pages (`FrameOfOne`), although the swap pool may then be wrong. `TestPasses` is checked without time slices: if the
one of `p8root` ended between its V on `sem_endp8` and its TERMPROCESS, `p1`
would reset the semaphores of `p8` (`p2test.c:311`) while the old children are
blocked on one of them. Three further differences from the documentation
can be read off the models. After a support call a program does not go on with the
next instruction, as `scelte_implementativ2.md:78` says of every system call:
`exceptionHandler` advances `pc_epc` by a word before it knows who serves the
call (`exceptions.c:248`), and `supSyscallHandler` advances the copy it was
passed by another (`sysSupport.c:137`). Without its exception
`ResumesButForAWord` fails after one `SupportCall` and one `SupportReturn`.
Whether the word left out matters depends on the SYSCALL of the library, which
is not in the repository. The scheduler panics without looking at `activeProcs`
(`scheduler.c:71`), and the shell is woken before the process it waits for is
gone (`sysSupport.c:28`).

## 4. Proofs

Everything here holds for every set of PCBs, priorities, devices and
semaphores, and of ASIDs, pages and frames, under the assumptions named in
`Nucleus` (a finite non-empty set of PCBs, NULL values that are none of the real
ones, integer priorities), in `Phase1` (as many descriptors as PCBs), in
`ProcessorState` (the devices are some of those of the machine, and `MaxTime` is
any number), and in `Pager` and `SupportLevel` (two pages and one frame at
least, at least the ASID of the shell, 0 among the values a program can store,
and each ASID can be launched once or more). Where a theorem needs
more it says so in its statement.

`Phase1_proofs` proves `Linked` and the types of the pointers. `Linked` is not
inductive: to put a node between two others keeps `next` and `prev` inverse
only if the node is not on a list already and the two are on one, and nothing in
the pointers alone says so without following a list to its end. The invariant
labels each node with the list, or the kind of list, it is on, computed from
`p_parent`, `state` and `s_key` (`Label`); there is one lemma for each
function of `listx.h`, which says that it keeps the links good and what it does
to the label; and `PcbPlaced`, `SemdPlaced` and `Booted` say which nodes are on
no list, what is initialised, and that a queue without a key is empty. It
follows that no call dereferences NULL and none links a node twice.

The rest of `Phase1_proofs` shows what is on each list. Labels that neighbours share do not
exclude a ring of free PCBs that `pcbFree_h` is not on; that would be a property
of paths, which needs induction along them. `Headed` says it without one: a set
of nodes that one cannot leave along `next` has the head of a list in it. Each
function of `listx.h` keeps that (`Tight`, one lemma each), with the exact list
as the label (`Home`) in place of the kind of list. `list_for_each` is followed
once, in `ListForEachFinds`: the nodes a walk passes until it comes back form
such a set, and it comes back after a least number of steps, of which there are
no more than nodes. `Blocked` adds what `asl.c` keeps about keys: no two
descriptors have the same one, and each is the `p_semAdd` of a blocked process.
The results are `FieldsTell`, `DescriptorsUsed` and `AlwaysCanBlock`; the last by
the pigeonhole principle: were every descriptor in use, each would have a process
of its own, and the one about to block is none of these.

`ProcTables_proofs` shows the refinement, `ProcTablesImplemented`: what
`list_for_each` finds, in its order, is a sequence of `ProcTables`, and every
call changes it as the operators of `ProcQ` do. The chain of a head is unique
(`ChainUnique`), so that it is enough to show that the sequence with a node
inserted or left out is a chain after the call (`InsertSequences`,
`DelSequences`), and that all other lists are the same. `insertProcQ` stops at
the position the operator computes as a minimum (`InsertPlace`). There is one
lemma for each call and each branch (`InsertProcQAheadStep`, ...,
`OutBlockedStep`); the iterations that fill the table of descriptors are
stutters. So `Nucleus` may work on sequences: what is proved of it does not rest
on the pointers being right by assumption.

`Nucleus_proofs` proves `IInv`, the conjunction of `TypeOK`, `OnePlace`,
`TreeLinks` and `TerminationOnce`, inductive. None of the four is inductive
alone: the last step of a termination frees a PCB and needs to know that it is
live (`TerminationOnce`); a child met in the list of its parent is live because
of `TreeLinks`; `TerminationOnce` needs CREATEPROCESS to take a PCB that is not
live, which is `OnePlace`; and the type of a queue after an `outProcQ` needs
that nothing is on it twice. `OnePlace` is proved as a statement about values
(`Placed`): six lemmas say that dispatching, requeueing,
blocking, waking, creating and freeing keep it, and each handler composes a few
of them. `insertBlocked` never fails (`PlacedCanBlock`) by a counting argument:
each descriptor in use has a first waiter of its own, and the process about to
block is none of them, so fewer than `MAXPROC` are in use. The results are
`TypeCorrect`, `EveryPcbInOnePlace`, `TreeLinked` and `FreedOnce`.

Two invariants are proved on top of `IInv`. `OneRoot` says that two live
processes without a parent that no call of `terminateProcess` has reached are
the same: a child is cut off from its parent in the step that starts its own
call, and a process that ends has no child left, so no step makes a root of a
process that is not being terminated. With `TreeLinks` that is `TreeConsistent`
(`TreeStaysTree`); the step to `Cardinality` is a set of which all elements are
equal. `ReadySorted` is kept by `insertProcQ`, `removeProcQ` and `outProcQ`
(`InsertSorted`, `TailSorted`, `RemoveSorted`); CREATEPROCESS sets a priority,
but of a PCB that is in no queue, which is `OnePlace`. Only the handler of a
terminal can break it, when a process waits for the transmitter. So
`ReadyQueueSorted` and `HighestIsDispatched` have `[]NoTransmission` as a
hypothesis, which holds in particular of a machine without terminals, the one
of `core`.

Three more rest on `IInv`. `processCount` and
`softBlockCount` equal the numbers of live and of soft-blocked processes at
every step (`CountersAreExact`): each handler changes a counter by as much as
it changes the set that is counted, and an interrupt that wakes the waiters of
several sub-devices wakes as many processes as sub-devices (`CountWoken`, since
the heads of different queues are different). From that, and from `Decided`
(what the scheduler decided with stays so while the processor idles), HALT,
WAIT and PANIC are chosen when they should be, and the panic of
`activeProcs_add` is never reached (`IdleVerdictSound`). `SemaphoresBalance`
shows that values and queues agree, one semaphore at a time (`BalanceOne`); it
is inductive given `IInv`, which it needs for `insertBlocked` to succeed and
for a killed process to be on the queue its `p_semAdd` names.

`NucleusRefinement_proofs` shows that the Nucleus implements `ProcessSystem`
(`ProcessSystemImplemented`). The mapping takes away the doomed: the processes
of the active calls of `terminateProcess` and everything below them in the child
lists. `Below` goes down `MaxProc` levels; a level that adds nobody is the last
one, and there are at most `MaxProc` levels that add somebody, so the doomed are
closed downwards (`BelowClosed`), and they are the least such set that has the
active calls in it (`BelowLeast`). The outermost call of `terminateProcess` is the
`Kill` of `ProcessSystem` (`KillStep`); that its subtree is read from child lists
here and from parents there is `SubtreeBelow`, by `TreeLinks`. A turn of the loop
dooms nobody new and the end of a call lets one process leave the doomed and its
semaphore at once, so both stutter (`TerminateChildStutters`,
`TerminateSelfStutters`); what a queue is without the doomed is the same before
and after (`WithoutRemoved`, `WithoutLen`). All other handlers run when nobody is
doomed, and each is the action of `ProcessSystem` it maps to; a V needs
`SemaphoreBalance`, by which somebody waits only on a negative semaphore.

`ProcessorState_proofs` shows by arithmetic that for every line, device number
and half of a terminal, DOIO computes from the command register the index the
interrupt handler computes from line and number, and that no two (sub-)devices
share one (`SemaphoresApart`), and applies it to the queues
(`DevicesWakeTheirOwn`): an action of `ProcessorState` is one of `Nucleus` or
leaves its variables alone, so `IInv` and `Decided` come for free. It also shows
that the CPU time of a live process is exact at every instant (`TimesAreExact`)
and that whoever executes does so in its own state (`ProcessesResume`, which
states `ResumesButForAWord`). The latter needs five strengthenings: the word is
there exactly when `a0` has the result of a support call, however often the
state has been saved and loaded since (`ResumesFound`, with `Found`); the state
saved for a process that does not execute is right up to what its semaphore is
going to write into `a0` (`SavedNow`, with `Owed` by `p_semAdd`), which is what a
handler that wakes it completes; a handler that loops ends with the right state,
also when it killed its own caller (`LoopRight`); what was passed up is the state
one level below, for at most two levels, and that of a support call is right
behind its ecall (`AllNested`); and the types (`StateTypes`).

`SupportLevel_proofs` proves `IInv` of the support level inductive, whether or
not the flash devices fail and however often a program is launched. That a mutex
is given back on every way out (`Balanced`) is not inductive, since a V is right
only if somebody is inside; `MutexOk` adds that at most one process is, and that
one is if another waits. Who is inside is read off `pc`, so `QueueInv` says at
which labels a process may wait, and for what. It also says that nobody ever
waits for a flash device: the pool is locked first. The processes of a subtree
that the end of the shell takes along must hold and own nothing; `ProgramInv`
and `MasterInv` say that by then there is none, since the shell goes on only
after the last V of the one program it launched. The types need
one more fact, that a recorded frame and one that was read are not blank
(`ContentInv`); `DeadOwnNothing` is proved in the stronger form that makes no
exception for the frame being worked on (`OwnInv`). The results are
`SupportTypes`, `PagerMutexesHold`, `DeadOwnNoFrame` and `OneProgramAtATime`.

`VirtualMemory_proofs` is about the frame the pager has in hand between its
choice and its new entry. `PagerInvariant` needs no assumption: no page of a
program is in the frame in hand (`HandInv`), a page is brought in only while its
entry is invalid, and an invalid entry in the TLB is invalid in the table too
(`MissingInv`), and an entry that maps a frame is the one the
frame is recorded for (`RecordedInv`); so no frame is mapped for two pages
(`FramesApart`). Without flash errors the converse holds too (`MappedInv`), so that the
swap pool and the tables agree (`TablesAgree`), and no program is ended inside a
terminal call by the pager (`TerminalMutexesHold`). The TLB agrees with the
table of every program in its first life, errors or not (`FirstLifeTlb`: before
that the TLB holds nothing of its ASID, and the pager and the refill change both
together); with `MaxLives = 1` that is `TlbAgrees`. Under both assumptions,
`FlashErrors = FALSE` and `MaxLives = 1`, the contents are right at every step of
an eviction (`ContentsInvariant`: a frame being written out has the contents of its
victim until the flash has them, a frame that was read has those of its page),
and the support level implements `VirtualMemory` (`VirtualMemoryImplemented`).
That proof goes by steps: the steps of the pager move a page and leave
`memory` as it is (`MovesKeepMemory`), a load reads and a store writes the page
of the access and no other (`LoadReads`, `StoreWrites`), `ExecuteStarts` and
`FreeFramesStops` give and take the memory of a program. Neither assumption can
be dropped: `evict_error` and `stale_tlb` violate what the proof uses.

**Only model-checked**: the test program (`TestPasses`, one fixed set of
processes with their program counters), and liveness (under fairness, out of
reach of the prover).

## 5. Not modelled, and what remains

- The kernel log and the debug printing: text for a person, which nothing in the
  system reads. Build files and machine configurations have no behaviour.
- `p1test.c` and `test_asl_manuale.c`: sequential programs with one execution
  each, whose calls are those of `Phase1` in one order out of all that run
  `lists` tries. `p2test_OLD.c` is an earlier `p2test.c` that no build file names.
- What follows the `ecall` in the SYSCALL of the library, which is not in the
  repository: how much the word that a support call leaves out matters (section 3)
  depends on it.
- `headBlocked`, which the Nucleus does not call, and the functions of `listx.h`
  that nothing uses.
- Refills of VPNs beyond the first one after the text pages: the handler then
  reads beyond the page table, whatever the memory there holds.
- Program traps of a process with a support structure are in `SupportLevel`, not
  in `ProcessorState`; terminal operations that end in an error are in `Nucleus`,
  not in `SupportLevel`, since DOIO does not return from them; so are programs
  other than the shell that execute programs, and executing one that runs.
- Time slices in `P2Test` (see section 3) and the length of one anywhere.

A step that remains: programs that execute programs, with the tree of the Nucleus
under them.
