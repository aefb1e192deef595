------------------------------ MODULE ScullDev ------------------------------
(***************************************************************************)
(* The bare scull device, src/ATS/scull/main.c and ATS/scull.dats: a list  *)
(* of quantum sets, each an array of m_qset quanta of n_quantum bytes, all *)
(* allocated on the first write that needs them.                           *)
(*                                                                         *)
(* dev->sem guards the list.  What the code does outside it is a step of   *)
(* its own here: a read or a write takes m_qset and then n_quantum before  *)
(* it takes the semaphore, a trim stores them one after the other, llseek  *)
(* looks at size.                                                          *)
(***************************************************************************)
EXTENDS Integers, Sequences, FiniteSets

CONSTANTS
  Procs,      \* processes, each with at most one open file on the device
  NoProc,     \* value of sem when the semaphore is free
  Byte, Zero, \* values of a byte, and the one memset stores
  Null,       \* the null pointer
  QSets,      \* the values scull_qset can be given
  Quanta,     \* the values scull_quantum can be given
  MaxPos,     \* bound of the model: the largest file position
  MaxCount    \* bound of the model: the largest count a program asks for

ASSUME DevAssumption ==
  /\ NoProc \notin Procs
  /\ Zero \in Byte
  /\ QSets \subseteq Nat \ {0} /\ Quanta \subseteq Nat \ {0}
  /\ MaxPos \in Nat /\ MaxCount \in Nat

VARIABLES
  scull_qset, scull_quantum,  \* module parameters: the shape of the next trim
  m_qset, n_quantum,          \* the shape of the list
  data, ln_qlst,              \* the list of quantum sets and its length
  size,
  sem,                        \* the process that holds dev->sem, or NoProc
  mode,                       \* mode[p]: how p's file is open, or "none"
  f_pos,
  pc,
  call,                       \* call[p]: the m, n and count p's call has taken
  got                         \* got[p]: bytes p's read has copied to the user

param == <<scull_qset, scull_quantum>>
shape == <<m_qset, n_quantum>>
store == <<data, ln_qlst, size>>
fds   == <<mode, f_pos>>
vars  == <<param, shape, store, sem, fds, pc, call, got>>

NoCall == [m |-> 0, n |-> 0, count |-> 0]

Goto(p, l) == pc' = [pc EXCEPT ![p] = l]
From(p, l) == pc[p] = l

down(p, from, to) ==
  /\ From(p, from)
  /\ sem = NoProc
  /\ sem' = p
  /\ Goto(p, to)
  /\ UNCHANGED <<param, shape, store, fds, call, got>>

up == sem' = NoProc

\* The end of a call: let go of the semaphore and forget the locals.
Leave(p) ==
  /\ up
  /\ Goto(p, "idle")
  /\ call' = [call EXCEPT ![p] = NoCall]

Init ==
  /\ scull_qset \in QSets /\ scull_quantum \in Quanta
  /\ m_qset = scull_qset /\ n_quantum = scull_quantum
  /\ data = <<>> /\ ln_qlst = 0 /\ size = 0
  /\ sem = NoProc
  /\ mode = [p \in Procs |-> "none"]
  /\ f_pos = [p \in Procs |-> 0]
  /\ pc = [p \in Procs |-> "idle"]
  /\ call = [p \in Procs |-> NoCall]
  /\ got = [p \in Procs |-> <<>>]

-----------------------------------------------------------------------------
(* Where a position is: list item ln, quantum i of it, byte j of that, all   *)
(* computed from the m and n the call has read.                              *)

Smaller(a, b) == IF a < b THEN a ELSE b

nm(p) == call[p].n * call[p].m
ln(p) == f_pos[p] \div nm(p)
rest(p) == f_pos[p] % nm(p)
s_pos(p) == rest(p) \div call[p].n
q_pos(p) == rest(p) % call[p].n

\* The part of a transfer that stays in one quantum.
Piece(p, cnt) == Smaller(cnt, call[p].n - q_pos(p))

\* What scull.sats asks of the caller of read_main and write_main: m and n
\* are the shape of the list.
ShapeKnown(p) == call[p].m = m_qset /\ call[p].n = n_quantum

-----------------------------------------------------------------------------
(* scull_ioctl, scull_open, scull_trim, scull_release, scull_llseek *)

SetQset ==
  /\ scull_qset' \in QSets
  /\ UNCHANGED <<scull_quantum, shape, store, sem, fds, pc, call, got>>

SetQuantum ==
  /\ scull_quantum' \in Quanta
  /\ UNCHANGED <<scull_qset, shape, store, sem, fds, pc, call, got>>

CallOpen(p) ==
  /\ From(p, "idle") /\ mode[p] = "none"
  /\ \/ mode' = [mode EXCEPT ![p] = "w"] /\ Goto(p, "o_down")
     \/ \E m \in {"r", "rw"} : mode' = [mode EXCEPT ![p] = m] /\ UNCHANGED pc
  /\ UNCHANGED <<param, shape, store, sem, f_pos, call, got>>

OpenDown(p) == down(p, "o_down", "o_trim")

\* scull_trim takes the two parameters; scull_trim_main frees the list and
\* stores the new shape, then the rest.
TrimQset(p) ==
  /\ From(p, "o_trim")
  /\ call' = [call EXCEPT ![p].n = scull_quantum]
  /\ data' = <<>>
  /\ m_qset' = scull_qset
  /\ Goto(p, "o_quantum")
  /\ UNCHANGED <<param, n_quantum, ln_qlst, size, sem, fds, got>>

TrimQuantum(p) ==
  /\ From(p, "o_quantum")
  /\ n_quantum' = call[p].n
  /\ Goto(p, "o_rest")
  /\ UNCHANGED <<param, m_qset, store, sem, fds, call, got>>

TrimRest(p) ==
  /\ From(p, "o_rest")
  /\ ln_qlst' = 0 /\ size' = 0
  /\ Leave(p)
  /\ UNCHANGED <<param, shape, data, fds, got>>

Close(p) ==
  /\ From(p, "idle") /\ mode[p] # "none"
  /\ mode' = [mode EXCEPT ![p] = "none"]
  /\ f_pos' = [f_pos EXCEPT ![p] = 0]
  /\ UNCHANGED <<param, shape, store, sem, pc, call, got>>

\* SEEK_SET, SEEK_CUR, and SEEK_END with a size another call may be changing.
Seek(p) ==
  /\ From(p, "idle") /\ mode[p] # "none"
  /\ \E off \in (-MaxPos)..MaxPos : \E newpos \in {off, f_pos[p] + off, size + off} :
       /\ newpos \in 0..MaxPos
       /\ f_pos' = [f_pos EXCEPT ![p] = newpos]
  /\ UNCHANGED <<param, shape, store, sem, mode, pc, call, got>>

-----------------------------------------------------------------------------
(* scull_read and scull_read_main *)

CallRead(p) ==
  /\ From(p, "idle") /\ mode[p] \in {"r", "rw"}
  /\ \E count \in 0..MaxCount :
       call' = [call EXCEPT ![p] = [m |-> m_qset, n |-> 0, count |-> count]]
  /\ Goto(p, "r_look")
  /\ UNCHANGED <<param, shape, store, sem, fds, got>>

ReadLook(p) ==
  /\ From(p, "r_look")
  /\ call' = [call EXCEPT ![p].n = n_quantum]
  /\ Goto(p, "r_down")
  /\ UNCHANGED <<param, shape, store, sem, fds, got>>

ReadDown(p) == down(p, "r_down", "r_main")

AtEnd(p) == f_pos[p] >= size

\* At or beyond the size there is nothing to read.
ReadAtEnd(p) ==
  /\ From(p, "r_main")
  /\ AtEnd(p)
  /\ Leave(p)
  /\ UNCHANGED <<param, shape, store, fds, got>>

\* The quantum a read finds, or Null: then the user's buffer is cleared.
Found(p) ==
  IF data[ln(p) + 1] = Null THEN Null ELSE data[ln(p) + 1][s_pos(p)]

\* scull_follow_lessthan and the copy, where their preconditions hold.
ReadMain(p) ==
  /\ From(p, "r_main")
  /\ ~AtEnd(p)
  /\ ShapeKnown(p) /\ ln(p) < ln_qlst
  /\ LET cnt == Piece(p, Smaller(call[p].count, size - f_pos[p])) IN
       /\ got' = [got EXCEPT ![p] =
                    [k \in 1..cnt |-> IF Found(p) = Null THEN Zero
                                      ELSE Found(p)[q_pos(p) + k - 1]]]
       /\ f_pos' = [f_pos EXCEPT ![p] = @ + cnt]
  /\ up
  /\ Goto(p, "r_ret")
  /\ call' = [call EXCEPT ![p] = NoCall]
  /\ UNCHANGED <<param, shape, store, mode>>

ReadFault(p) ==
  /\ From(p, "r_main")
  /\ ~AtEnd(p)
  /\ ShapeKnown(p) /\ ln(p) < ln_qlst
  /\ Leave(p)
  /\ UNCHANGED <<param, shape, store, fds, got>>

ReadReturn(p) ==
  /\ From(p, "r_ret")
  /\ got' = [got EXCEPT ![p] = <<>>]
  /\ Goto(p, "idle")
  /\ UNCHANGED <<param, shape, store, sem, fds, call>>

-----------------------------------------------------------------------------
(* scull_write and scull_write_main *)

CallWrite(p) ==
  /\ From(p, "idle") /\ mode[p] \in {"w", "rw"}
  /\ \E count \in 0..Smaller(MaxCount, MaxPos - f_pos[p]) :
       call' = [call EXCEPT ![p] = [m |-> m_qset, n |-> 0, count |-> count]]
  /\ Goto(p, "w_look")
  /\ UNCHANGED <<param, shape, store, sem, fds, got>>

WriteLook(p) ==
  /\ From(p, "w_look")
  /\ call' = [call EXCEPT ![p].n = n_quantum]
  /\ Goto(p, "w_down")
  /\ UNCHANGED <<param, shape, store, sem, fds, got>>

WriteDown_Unlocked(p) ==
  /\ From(p, "w_down")
  /\ Goto(p, "w_main")
  /\ UNCHANGED <<param, shape, store, sem, fds, call, got>>

WriteDown(p) == down(p, "w_down", "w_main")

\* The list with k new items at its end, none of which has an array yet.
Grown(k) == data \o [i \in 1..k |-> Null]

Missing(p) == IF ln(p) < ln_qlst THEN 0 ELSE ln(p) - ln_qlst + 1

\* The list once scull_follow_main has found item ln, the item in it, and
\* the quantum that is there or that a write allocates, full of zeros.
Reached(p) == Grown(Missing(p))
Item(p) == Reached(p)[ln(p) + 1]
NewArray(p) == [i \in 0..(call[p].m - 1) |-> Null]
NewQuantum(p) == [j \in 0..(call[p].n - 1) |-> Zero]
Array(p) == IF Item(p) = Null THEN NewArray(p) ELSE Item(p)
Quantum(p) == IF Array(p)[s_pos(p)] = Null THEN NewQuantum(p) ELSE Array(p)[s_pos(p)]

\* The list with array a, or with quantum q, where p writes.
WithArray(p, a) == [Reached(p) EXCEPT ![ln(p) + 1] = a]
WithQuantum(p, q) == WithArray(p, [Array(p) EXCEPT ![s_pos(p)] = q])

\* The quantum with s stored from q_pos on.
Patched_Start(p, s) ==
  [j \in DOMAIN Quantum(p) |-> IF j < Len(s) THEN s[j + 1] ELSE Quantum(p)[j]]

Patched(p, s) ==
  [j \in DOMAIN Quantum(p) |->
     IF j \in q_pos(p)..(q_pos(p) + Len(s) - 1) THEN s[j - q_pos(p) + 1] ELSE Quantum(p)[j]]

\* Out of memory: a list item, the array or the quantum cannot be allocated.
\* What was allocated before it stays.
WriteNoMemory(p) ==
  /\ From(p, "w_main")
  /\ ShapeKnown(p)
  /\ \/ \E k \in 0..(Missing(p) - 1) : data' = Grown(k) /\ ln_qlst' = ln_qlst + k
     \/ Item(p) = Null /\ data' = Reached(p) /\ ln_qlst' = ln_qlst + Missing(p)
     \/ /\ Array(p)[s_pos(p)] = Null
        /\ data' = WithArray(p, Array(p))
        /\ ln_qlst' = ln_qlst + Missing(p)
  /\ Leave(p)
  /\ UNCHANGED <<param, shape, size, fds, got>>

\* The user's page faults after k bytes; the kernel may clear the others.
WriteFault(p) ==
  /\ From(p, "w_main")
  /\ ShapeKnown(p)
  /\ LET cnt == Piece(p, call[p].count) IN
       \E k \in 0..(cnt - 1) : \E s \in [1..k -> Byte], z \in {0, cnt - k} :
         data' = WithQuantum(p, Patched(p, s \o [i \in 1..z |-> Zero]))
  /\ ln_qlst' = ln_qlst + Missing(p)
  /\ Leave(p)
  /\ UNCHANGED <<param, shape, size, fds, got>>

NewSize(pos) == IF size < pos THEN pos ELSE size

WriteMain(p) ==
  /\ From(p, "w_main")
  /\ ShapeKnown(p)
  /\ \E s \in [1..Piece(p, call[p].count) -> Byte] :
       /\ data' = WithQuantum(p, Patched(p, s))
       /\ f_pos' = [f_pos EXCEPT ![p] = @ + Len(s)]
       /\ size' = NewSize(f_pos'[p])
  /\ ln_qlst' = ln_qlst + Missing(p)
  /\ Leave(p)
  /\ UNCHANGED <<param, shape, mode, got>>

-----------------------------------------------------------------------------
InterruptedDown(p) ==
  /\ pc[p] \in {"o_down", "r_down", "w_down"}
  /\ sem # NoProc
  /\ mode' = IF From(p, "o_down") THEN [mode EXCEPT ![p] = "none"] ELSE mode
  /\ Goto(p, "idle")
  /\ call' = [call EXCEPT ![p] = NoCall]
  /\ UNCHANGED <<param, shape, store, sem, f_pos, got>>

OpenStep(p) ==
  \/ CallOpen(p) \/ OpenDown(p) \/ TrimQset(p) \/ TrimQuantum(p) \/ TrimRest(p)
  \/ Close(p) \/ Seek(p)

ReadStep(p) ==
  \/ CallRead(p) \/ ReadLook(p) \/ ReadDown(p) \/ ReadAtEnd(p)
  \/ ReadMain(p) \/ ReadFault(p) \/ ReadReturn(p)

WriteStep(p) ==
  \/ CallWrite(p) \/ WriteLook(p) \/ WriteDown(p)
  \/ WriteNoMemory(p) \/ WriteFault(p) \/ WriteMain(p)

Next ==
  \/ SetQset \/ SetQuantum
  \/ \E p \in Procs : OpenStep(p) \/ ReadStep(p) \/ WriteStep(p) \/ InterruptedDown(p)

Spec == Init /\ [][Next]_vars

-----------------------------------------------------------------------------
(* Runs in which no change of the shape falls between the moment a call      *)
(* looks at it and the moment it has the semaphore.  Nothing in the driver   *)
(* sees to that; beyond it ReadMain and WriteMain say nothing.               *)

Looking == \E p \in Procs : pc[p] \in {"r_look", "r_down", "w_look", "w_down"}

StableTrim == shape' # shape => ~Looking

StableLook ==
  (\E p \in Procs : CallRead(p) \/ CallWrite(p)) => \A q \in Procs : ~From(q, "o_quantum")

StableNext == Next /\ StableTrim /\ StableLook

StableSpec == Init /\ [][StableNext]_vars

-----------------------------------------------------------------------------
(* Properties *)

Labels == {"idle", "o_down", "o_trim", "o_quantum", "o_rest",
           "r_look", "r_down", "r_main", "r_ret", "w_look", "w_down", "w_main"}

QuantumOf(n) == [0..(n - 1) -> Byte] \cup {Null}
ItemOf(m, n) == [0..(m - 1) -> QuantumOf(n)] \cup {Null}

\* The null pointer is neither a quantum nor an array of them.
ASSUME NullAssumption ==
  \A m \in QSets, n \in Quanta :
    /\ Null \notin [0..(n - 1) -> Byte]
    /\ Null \notin [0..(m - 1) -> QuantumOf(n)]

\* The variables keep their types; the list has the device's own shape.
TypeOK ==
  /\ scull_qset \in QSets /\ scull_quantum \in Quanta
  /\ m_qset \in QSets /\ n_quantum \in Quanta
  /\ data \in Seq(ItemOf(m_qset, n_quantum))
  /\ ln_qlst \in Nat /\ size \in 0..MaxPos
  /\ sem \in Procs \cup {NoProc}
  /\ mode \in [Procs -> {"none", "r", "w", "rw"}]
  /\ f_pos \in [Procs -> 0..MaxPos]
  /\ pc \in [Procs -> Labels]
  /\ call \in [Procs -> [m : QSets \cup {0}, n : Quanta \cup {0}, count : 0..MaxCount]]
  /\ got \in [Procs -> Seq(Byte)]

\* A call reaches the list only with the shape the list has.
\* Not kept: README, "Where the code and its words differ".
KnowsShape ==
  \A p \in Procs : pc[p] \in {"r_main", "w_main"} => ShapeKnown(p)

\* A position below the size is in the list, so a read that is not at the
\* end finds its item, whatever trims and failed writes came before.
InList ==
  \A p \in Procs : From(p, "r_main") /\ ~AtEnd(p) => ln(p) < ln_qlst

Trimming == \E p \in Procs : pc[p] \in {"o_quantum", "o_rest"}

\* ln_qlst is the length of the list, and the list covers the size.
Covered ==
  ~Trimming => ln_qlst = Len(data) /\ size <= ln_qlst * m_qset * n_quantum

\* Whatever trims, failed writes and failed allocations came before: the list
\* has the shape, the length and the extent that reads and writes rely on.
ListRight == TypeOK /\ InList /\ Covered

\* Why it holds.  The semaphore is held by who is in the list; a call knows the
\* shape from its second look on; a write has room; and a trim has emptied the
\* list before it changes its shape.
Holding ==
  \A p \in Procs :
    pc[p] \in {"o_trim", "o_quantum", "o_rest", "r_main", "w_main"} <=> sem = p

ShapeKept ==
  \A p \in Procs :
    /\ pc[p] \in {"r_look", "w_look"} => call[p].m = m_qset
    /\ pc[p] \in {"r_down", "w_down", "r_main", "w_main"} => ShapeKnown(p)

Room ==
  \A p \in Procs :
    pc[p] \in {"w_look", "w_down", "w_main"} => f_pos[p] + call[p].count <= MaxPos

Emptied ==
  \A p \in Procs :
    /\ pc[p] \in {"o_quantum", "o_rest"} => data = <<>>
    /\ From(p, "o_quantum") => call[p].n \in Quanta

DevInv == TypeOK /\ Covered /\ Holding /\ ShapeKept /\ Room /\ Emptied

\* The byte at position i: zero where nothing is allocated.
ByteAt(i) ==
  LET nmi == m_qset * n_quantum
      item == i \div nmi
      s == (i % nmi) \div n_quantum
      q == (i % nmi) % n_quantum
  IN  IF item >= Len(data) THEN Zero
      ELSE IF data[item + 1] = Null THEN Zero
      ELSE IF data[item + 1][s] = Null THEN Zero
      ELSE data[item + 1][s][q]

Content == [i \in 0..(MaxPos - 1) |-> ByteAt(i)]

SF == INSTANCE SparseFile WITH bytes <- Content, pos <- f_pos

\* The list of quanta is one sparse file: reads return what was written.
File == SF!File
=============================================================================
