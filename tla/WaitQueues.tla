----------------------------- MODULE WaitQueues -----------------------------
(***************************************************************************)
(* What processes that leave do to a queue they wait in.                   *)
(***************************************************************************)
EXTENDS Integers, Sequences

\* The queue q once the processes in S have left it.
Without(q, S) ==
  LET kept[i \in 0 .. Len(q)] ==
        IF i = 0 THEN <<>>
        ELSE IF q[i] \in S THEN kept[i - 1] ELSE Append(kept[i - 1], q[i])
  IN  kept[Len(q)]
=============================================================================
