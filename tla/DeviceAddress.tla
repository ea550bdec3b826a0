---------------------------- MODULE DeviceAddress ----------------------------
(***************************************************************************)
(* Three files compute with the place of a device: a caller of DOIO names  *)
(* the command register it writes (phase 3), DOIO derives from that        *)
(* address the semaphore it blocks the caller on (exceptions.c), and the   *)
(* interrupt handler derives from the line and the number of the device    *)
(* the registers it reads and the semaphore it raises (interrupts.c).      *)
(* This module has the three computations.  The addresses are those of     *)
(* device registers, all above START_DEVREG: the unsigned subtraction of   *)
(* DOIO does not wrap, and nothing exceeds a 32-bit word.                  *)
(***************************************************************************)
EXTENDS Integers

Line   == 3 .. 7          \* the interrupt lines of devices
Number == 0 .. 7          \* the devices of a line
Half   == {"tx", "rx"}    \* the sub-devices of a terminal

WORDLEN      == 4
START_DEVREG == 268435540          \* 0x10000054

\* The base of the registers of a device, and its command registers: word 1 of
\* a device and of a receiver, word 3 of a transmitter.
DEV_REG_BASE(line, dev) == START_DEVREG + (line - 3) * 128 + dev * 16
CommandWord(half)       == IF half = "tx" THEN 3 ELSE 1

CommandAddr(line, dev, half) == DEV_REG_BASE(line, dev) + CommandWord(half) * WORDLEN

\* The indices of devSems.
DEV_SEM_BASE(line, dev) == (line - 3) * 8 + dev
TERM_TX_SEM(dev)        == 32 + dev
TERM_RX_SEM(dev)        == 40 + dev
PSEUDOCLK_SEM           == 48
TOT_SEMS                == 49

\* The semaphore the interrupt handler raises for a device.
HandlerSem(line, dev, half) ==
  IF line # 7 THEN DEV_SEM_BASE(line, dev)
  ELSE IF half = "tx" THEN TERM_TX_SEM(dev) ELSE TERM_RX_SEM(dev)

\* The semaphore DOIO blocks its caller on.  Mutant: the halves of a terminal
\* are told apart by the status registers.
DoIOSem_StatusWord(commandAddr) ==
  LET offset  == commandAddr - START_DEVREG
      line    == (offset \div 128) + 3
      dev     == (offset % 128) \div 16
      subword == (offset % 16) \div WORDLEN
  IN  IF line # 7 THEN DEV_SEM_BASE(line, dev)
      ELSE IF subword = 2 THEN TERM_TX_SEM(dev) ELSE TERM_RX_SEM(dev)

DoIOSem(commandAddr) ==
  LET offset  == commandAddr - START_DEVREG
      line    == (offset \div 128) + 3
      dev     == (offset % 128) \div 16
      subword == (offset % 16) \div WORDLEN
  IN  IF line # 7 THEN DEV_SEM_BASE(line, dev)
      ELSE IF subword = 3 THEN TERM_TX_SEM(dev) ELSE TERM_RX_SEM(dev)

\* Only terminals have two halves.
SubDevice == {s \in Line \X Number \X Half : s[1] # 7 => s[3] = "rx"}

\* The P of DOIO and the V of the interrupt meet on one semaphore, which no
\* other sub-device and not the clock uses, inside devSems (exceptions.c:409,
\* interrupts.c:163, 189, 212, globals.h:60).
OneSemaphoreEach ==
  \A s, t \in SubDevice :
    LET sem == DoIOSem(CommandAddr(s[1], s[2], s[3])) IN
    /\ sem = HandlerSem(s[1], s[2], s[3])
    /\ sem \in 0 .. TOT_SEMS - 1 /\ sem # PSEUDOCLK_SEM
    /\ HandlerSem(t[1], t[2], t[3]) = sem => t = s
=============================================================================
