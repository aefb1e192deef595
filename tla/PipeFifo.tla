------------------------------ MODULE PipeFifo ------------------------------
(***************************************************************************)
(* What a scull pipe promises to the programs that use it: one bounded     *)
(* first-in first-out queue of bytes.  A write appends bytes at the back,  *)
(* a read is given bytes taken from the front, in order and each one once, *)
(* and an open of the device throws away whatever was still unread.        *)
(***************************************************************************)
EXTENDS Integers, Sequences

CONSTANTS
  Procs,    \* the processes that use the pipe
  Byte,     \* the bytes that can be written
  MaxSize   \* the largest buffer, a positive number

VARIABLES
  q,        \* the unread bytes, oldest first
  got       \* got[p]: the bytes handed over by p's read until it returns

fifoVars == <<q, got>>

Init ==
  /\ q = <<>>
  /\ got = [p \in Procs |-> <<>>]

\* A buffer of n slots holds n - 1 bytes: one slot tells full from empty.
Put ==
  /\ q' \in Seq(Byte)
  /\ Len(q) <= Len(q') /\ Len(q') < MaxSize
  /\ q = SubSeq(q', 1, Len(q))
  /\ got' = got

Get(p) ==
  \E n \in 0..Len(q) :
    /\ got' = [got EXCEPT ![p] = SubSeq(q, 1, n)]
    /\ q' = SubSeq(q, n + 1, Len(q))

Return(p) ==
  /\ got' = [got EXCEPT ![p] = <<>>]
  /\ q' = q

Clear ==
  /\ q' = <<>>
  /\ got' = got

Next ==
  \/ Put
  \/ Clear
  \/ \E p \in Procs : Get(p) \/ Return(p)

Fifo == Init /\ [][Next]_fifoVars
=============================================================================
