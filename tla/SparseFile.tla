----------------------------- MODULE SparseFile -----------------------------
(***************************************************************************)
(* What a bare scull device promises to the programs that use it: one file *)
(* of bytes with a size.  What was never written reads as zero, a write    *)
(* and a read are at the position of the caller's own file and move it,    *)
(* and a read stays below the size.                                        *)
(***************************************************************************)
EXTENDS Integers, Sequences

CONSTANTS
  Procs,    \* the programs, each with one file
  Byte,     \* values of a byte
  Zero,     \* the value of what was never written
  MaxPos    \* positions go up to here

VARIABLES
  bytes,    \* bytes[i]: the byte at position i
  size,
  pos,      \* pos[p]: the position of p's file
  got       \* got[p]: what p's read hands over

fileVars == <<bytes, size, pos, got>>

Blank == [i \in 0..(MaxPos - 1) |-> Zero]

\* bytes with s stored from position i on
Overlaid(i, s) ==
  LET old == bytes
  IN  [k \in DOMAIN old |-> IF k \in i..(i + Len(s) - 1) THEN s[k - i + 1] ELSE old[k]]

Init ==
  /\ bytes = Blank
  /\ size = 0
  /\ pos = [p \in Procs |-> 0]
  /\ got = [p \in Procs |-> <<>>]

\* An open for writing only: the bytes go first, then the size.
Erase == UNCHANGED <<size, pos, got>> /\ bytes' = Blank
Truncate == size' = 0 /\ UNCHANGED <<bytes, pos, got>>

Move(p) ==
  /\ \E i \in 0..MaxPos : pos' = [pos EXCEPT ![p] = i]
  /\ UNCHANGED <<bytes, size, got>>

Write(p) ==
  \E i \in pos[p]..MaxPos :
    /\ pos' = [pos EXCEPT ![p] = i]
    /\ size' = IF size < i THEN i ELSE size
    /\ got' = got
    /\ \E s \in [1..(i - pos[p]) -> Byte] : bytes' = Overlaid(pos[p], s)

\* The user's page faulted half way.
WriteFails(p) ==
  /\ UNCHANGED <<size, pos, got>>
  /\ \E i \in pos[p]..MaxPos : \E s \in [1..(i - pos[p]) -> Byte] : bytes' = Overlaid(pos[p], s)

Read(p) ==
  \E i \in pos[p]..size :
    /\ pos' = [pos EXCEPT ![p] = i]
    /\ UNCHANGED <<bytes, size>>
    /\ got' = [got EXCEPT ![p] = [k \in 1..(i - pos[p]) |-> bytes[pos[p] + k - 1]]]

Return(p) ==
  /\ got' = [got EXCEPT ![p] = <<>>]
  /\ UNCHANGED <<bytes, size, pos>>

Next ==
  \/ Erase \/ Truncate
  \/ \E p \in Procs : Move(p) \/ Write(p) \/ WriteFails(p) \/ Read(p) \/ Return(p)

File == Init /\ [][Next]_fileVars
=============================================================================
