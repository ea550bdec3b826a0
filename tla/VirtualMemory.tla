---------------------------- MODULE VirtualMemory ----------------------------
(***************************************************************************)
(* What the virtual memory promises to programs: each has pages of its     *)
(* own, and reads from a page what it last stored in it.  Frames, page     *)
(* tables, the TLB and the flash devices do not show.  A program starts    *)
(* with any contents its backing store may have.                           *)
(***************************************************************************)
CONSTANTS Owner, VPage, Word, NoMemory

VARIABLES
  memory,    \* for each program its pages, or NoMemory if it does not run
  port       \* the last access: <<program, page, block>>

Blocks(a) == [VPage -> {a} \X VPage \X Word]

\* The contents of page p are marked as such: a block never turns up elsewhere.
Contents(a) == {m \in Blocks(a) : \A p \in VPage : m[p][2] = p}

VMInit == memory \in [Owner -> {NoMemory} \cup UNION {Contents(a) : a \in Owner}] /\ port = <<>>

Start(a) ==
  /\ memory[a] = NoMemory
  /\ \E m \in Contents(a) : memory' = [memory EXCEPT ![a] = m]
  /\ UNCHANGED port

Write(a, p, x) ==
  /\ memory[a] # NoMemory
  /\ memory' = [memory EXCEPT ![a][p] = <<a, p, x>>]
  /\ port' = <<a, p, <<a, p, x>>>>

Read(a, p) ==
  /\ memory[a] # NoMemory
  /\ port' = <<a, p, memory[a][p]>>
  /\ UNCHANGED memory

Stop(a) ==
  /\ memory[a] # NoMemory
  /\ memory' = [memory EXCEPT ![a] = NoMemory]
  /\ UNCHANGED port

VMNext ==
  \E a \in Owner :
    \/ Start(a) \/ Stop(a)
    \/ \E p \in VPage : Read(a, p) \/ \E x \in Word : Write(a, p, x)

VMSpec == VMInit /\ [][VMNext]_<<memory, port>>
=============================================================================
