------------------------------ MODULE ScullPipe ------------------------------
(***************************************************************************)
(* The scull pipe driver, src/ATS/scull/pipe.c: one device shared by the   *)
(* processes that open it, a circular buffer guarded by a semaphore, and   *)
(* the two wait queues on which readers wait for data and writers for      *)
(* space.                                                                  *)
(*                                                                         *)
(* A process is in one file operation at a time and pc[p] says where.  A   *)
(* step is what one process does between two points at which another one   *)
(* can see a difference: the wait-queue conditions are evaluated without   *)
(* the semaphore, so they are steps of their own, and so are the two       *)
(* halves of every pointer update they can read in between.                *)
(*                                                                         *)
(* Pointers are offsets from dev->buffer.  A signal, a non-blocking file   *)
(* and a faulting user page are choices of the environment.                *)
(***************************************************************************)
EXTENDS Integers, Sequences, FiniteSets

CONSTANTS
  Procs,      \* processes, each with at most one open file on the device
  Byte,       \* byte values a program can write
  Garbage,    \* what kmalloc leaves in memory, or lies beyond the allocation
  NoProc,     \* value of sem when the semaphore is free
  Modes,      \* the f_mode values processes open the device with
  BufSizes,   \* the values scull_p_buffer can be given
  MaxSize,    \* bound of the model: the largest of BufSizes
  MaxCount    \* bound of the model: the largest count a program asks for

ASSUME PipeAssumption ==
  /\ IsFiniteSet(Procs)
  /\ Garbage \notin Byte
  /\ NoProc \notin Procs
  /\ Modes \subseteq SUBSET {"r", "w"}
  /\ MaxSize \in Nat \ {0}
  /\ BufSizes \subseteq 1..MaxSize
  /\ MaxCount \in Nat

VARIABLES
  scull_p_buffer,         \* module parameter: size of the next allocation
  alloc,                  \* bytes allocated behind dev->buffer, 0 when it is NULL
  mem,                    \* the bytes at dev->buffer
  buffersize, rp, wp,
  nreaders, nwriters,
  sem,                    \* the process that holds dev->sem, or NoProc
  inq, outq,              \* processes queued on dev->inq and dev->outq
  files,                  \* processes whose open has succeeded
  mode,                   \* mode[p]: f_mode of p's file
  pc,
  chunk                   \* chunk[p]: the bytes p's call is moving

param == <<scull_p_buffer>>
buf   == <<alloc, mem, buffersize>>
ptrs  == <<rp, wp>>
opens == <<nreaders, nwriters>>
queue == <<inq, outq>>
fds   == <<files, mode>>
vars  == <<param, buf, ptrs, opens, sem, queue, fds, pc, chunk>>

Labels == {"idle", "o_down", "o_alloc", "o_size", "o_reset", "c_down", "c_crit",
           "r_down", "r_crit", "r_wait", "r_check", "r_sleep", "r_adv",
           "r_wrap", "r_wake",
           "w_down", "w_crit", "w_prep", "w_check", "w_sleep", "w_adv",
           "w_wrap", "w_wake",
           "p_down", "p_crit", "p_sleep"}

-----------------------------------------------------------------------------
(* Helpers *)

\* dev->end is assigned together with buffersize and is that many bytes on.
end == buffersize

Least(a, b) == IF a < b THEN a ELSE b

\* The remainder of C, which takes the sign of the dividend.
CRem(a, b) == IF a >= 0 THEN a % b ELSE -((-a) % b)

spacefree ==
  IF rp = wp THEN buffersize - 1
             ELSE CRem(rp + buffersize - wp, buffersize) - 1

\* How far a read and a write may go in one piece.
Readable == IF wp > rp THEN wp - rp ELSE end - rp
Writable == Least(spacefree, IF wp >= rp THEN end - wp ELSE rp - wp - 1)

Fresh == [i \in 0..(MaxSize - 1) |-> Garbage]

\* copy_from_user(dev->wp, ...): bytes beyond the allocation land elsewhere.
Stored(s) ==
  [i \in 0..(MaxSize - 1) |->
     IF i \in wp..(wp + Len(s) - 1) /\ i < alloc THEN s[i - wp + 1] ELSE mem[i]]

Goto(p, l) == pc' = [pc EXCEPT ![p] = l]
From(p, l) == pc[p] = l

down(p, from, to) ==
  /\ From(p, from)
  /\ sem = NoProc
  /\ sem' = p
  /\ Goto(p, to)
  /\ UNCHANGED <<param, buf, ptrs, opens, queue, fds, chunk>>

up == sem' = NoProc

Init ==
  /\ scull_p_buffer \in BufSizes
  /\ alloc = 0
  /\ mem = Fresh
  /\ buffersize = 0 /\ rp = 0 /\ wp = 0
  /\ nreaders = 0 /\ nwriters = 0
  /\ sem = NoProc
  /\ inq = {} /\ outq = {}
  /\ files = {}
  /\ mode = [p \in Procs |-> {}]
  /\ pc = [p \in Procs |-> "idle"]
  /\ chunk = [p \in Procs |-> <<>>]

-----------------------------------------------------------------------------
(* System calls begin, and SCULL_P_IOCTSIZE *)

CallOpen(p) ==
  /\ From(p, "idle") /\ p \notin files
  /\ \E m \in Modes : mode' = [mode EXCEPT ![p] = m]
  /\ Goto(p, "o_down")
  /\ UNCHANGED <<param, buf, ptrs, opens, sem, queue, files, chunk>>

\* The kernel lets a file be read or written only if its mode allows it.
CallFile(p) ==
  /\ From(p, "idle") /\ p \in files
  /\ \/ Goto(p, "c_down")
     \/ Goto(p, "p_down")
     \/ "r" \in mode[p] /\ Goto(p, "r_down")
     \/ "w" \in mode[p] /\ Goto(p, "w_down")
  /\ UNCHANGED <<param, buf, ptrs, opens, sem, queue, fds, chunk>>

\* Through any scull device, so also by a process that has no pipe open.
SetSize ==
  /\ scull_p_buffer' \in BufSizes
  /\ UNCHANGED <<buf, ptrs, opens, sem, queue, fds, pc, chunk>>

-----------------------------------------------------------------------------
(* scull_p_open *)

OpenDown(p) == down(p, "o_down", "o_alloc")

OpenAlloc(p) ==
  /\ From(p, "o_alloc")
  /\ IF alloc = 0
     THEN alloc' = scull_p_buffer /\ mem' = Fresh
     ELSE UNCHANGED <<alloc, mem>>
  /\ Goto(p, "o_size")
  /\ UNCHANGED <<param, buffersize, ptrs, opens, sem, queue, fds, chunk>>

OpenNoMemory(p) ==
  /\ From(p, "o_alloc")
  /\ alloc = 0
  /\ up
  /\ Goto(p, "idle")
  /\ mode' = [mode EXCEPT ![p] = {}]
  /\ UNCHANGED <<param, buf, ptrs, opens, queue, files, chunk>>

\* scull_p_buffer is read a second time, and nothing guards it.
OpenSize(p) ==
  /\ From(p, "o_size")
  /\ buffersize' = scull_p_buffer
  /\ Goto(p, "o_reset")
  /\ UNCHANGED <<param, alloc, mem, ptrs, opens, sem, queue, fds, chunk>>

OpenReset_KeepsWp(p) ==
  /\ From(p, "o_reset")
  /\ rp' = 0
  /\ nreaders' = nreaders + (IF "r" \in mode[p] THEN 1 ELSE 0)
  /\ nwriters' = nwriters + (IF "w" \in mode[p] THEN 1 ELSE 0)
  /\ up
  /\ files' = files \cup {p}
  /\ Goto(p, "idle")
  /\ UNCHANGED <<param, buf, wp, queue, mode, chunk>>

OpenReset(p) ==
  /\ From(p, "o_reset")
  /\ rp' = 0 /\ wp' = 0
  /\ nreaders' = nreaders + (IF "r" \in mode[p] THEN 1 ELSE 0)
  /\ nwriters' = nwriters + (IF "w" \in mode[p] THEN 1 ELSE 0)
  /\ up
  /\ files' = files \cup {p}
  /\ Goto(p, "idle")
  /\ UNCHANGED <<param, buf, queue, mode, chunk>>

(* scull_p_release *)

ReleaseDown(p) == down(p, "c_down", "c_crit")

LastClose_Readers == nreaders' = 0
LastClose == nreaders' + nwriters' = 0

Release(p) ==
  /\ From(p, "c_crit")
  /\ nreaders' = nreaders - (IF "r" \in mode[p] THEN 1 ELSE 0)
  /\ nwriters' = nwriters - (IF "w" \in mode[p] THEN 1 ELSE 0)
  /\ IF LastClose
     THEN alloc' = 0 /\ mem' = Fresh
     ELSE UNCHANGED <<alloc, mem>>
  /\ up
  /\ files' = files \ {p}
  /\ mode' = [mode EXCEPT ![p] = {}]
  /\ Goto(p, "idle")
  /\ UNCHANGED <<param, buffersize, ptrs, queue, chunk>>

-----------------------------------------------------------------------------
(* scull_p_read *)

ReadDown(p) == down(p, "r_down", "r_crit")

\* Nothing to read: let go of the semaphore, then fail (O_NONBLOCK) or wait.
ReadEmpty(p) ==
  /\ From(p, "r_crit")
  /\ rp = wp
  /\ up
  /\ Goto(p, "idle") \/ Goto(p, "r_wait")
  /\ UNCHANGED <<param, buf, ptrs, opens, queue, fds, chunk>>

\* wait_event_interruptible(inq, rp != wp): a first look at the condition,
\* then enqueue, look again and sleep, over and over.  A signal that is
\* pending when there is still nothing to read ends the call.
ReadWait(p) ==
  /\ From(p, "r_wait")
  /\ IF rp # wp
     THEN Goto(p, "r_down") /\ UNCHANGED inq
     ELSE Goto(p, "r_check") /\ inq' = inq \cup {p}
  /\ UNCHANGED <<param, buf, ptrs, opens, sem, outq, fds, chunk>>

ReadCheck_Blind(p) ==
  /\ From(p, "r_check")
  /\ Goto(p, "r_sleep")
  /\ UNCHANGED <<param, buf, ptrs, opens, sem, queue, fds, chunk>>

ReadCheck(p) ==
  /\ From(p, "r_check")
  /\ IF rp # wp
     THEN Goto(p, "r_down") /\ inq' = inq \ {p}
     ELSE \/ Goto(p, "r_sleep") /\ UNCHANGED inq
          \/ Goto(p, "idle") /\ inq' = inq \ {p}
  /\ UNCHANGED <<param, buf, ptrs, opens, sem, outq, fds, chunk>>

ReadAwake(p) ==
  /\ From(p, "r_sleep")
  /\ p \notin inq
  /\ inq' = inq \cup {p}
  /\ Goto(p, "r_check")
  /\ UNCHANGED <<param, buf, ptrs, opens, sem, outq, fds, chunk>>

ReadCopy(p) ==
  /\ From(p, "r_crit")
  /\ rp # wp
  /\ \E n \in 0..MaxCount :
       chunk' = [chunk EXCEPT ![p] = [i \in 1..Least(n, Readable) |-> mem[rp + i - 1]]]
  /\ Goto(p, "r_adv")
  /\ UNCHANGED <<param, buf, ptrs, opens, sem, queue, fds>>

ReadFault_KeepsSem(p) ==
  /\ From(p, "r_crit")
  /\ rp # wp
  /\ Goto(p, "idle")
  /\ UNCHANGED <<param, buf, ptrs, opens, sem, queue, fds, chunk>>

ReadFault(p) ==
  /\ From(p, "r_crit")
  /\ rp # wp
  /\ up
  /\ Goto(p, "idle")
  /\ UNCHANGED <<param, buf, ptrs, opens, queue, fds, chunk>>

ReadAdvance(p) ==
  /\ From(p, "r_adv")
  /\ rp' = rp + Len(chunk[p])
  /\ Goto(p, "r_wrap")
  /\ UNCHANGED <<param, buf, wp, opens, sem, queue, fds, chunk>>

ReadWrap(p) ==
  /\ From(p, "r_wrap")
  /\ rp' = IF rp = end THEN 0 ELSE rp
  /\ up
  /\ Goto(p, "r_wake")
  /\ UNCHANGED <<param, buf, wp, opens, queue, fds, chunk>>

ReadWake(p) ==
  /\ From(p, "r_wake")
  /\ outq' = {}
  /\ chunk' = [chunk EXCEPT ![p] = <<>>]
  /\ Goto(p, "idle")
  /\ UNCHANGED <<param, buf, ptrs, opens, sem, inq, fds>>

-----------------------------------------------------------------------------
(* scull_p_write, with scull_getwritespace *)

WriteDown(p) == down(p, "w_down", "w_crit")

WriteFull(p) ==
  /\ From(p, "w_crit")
  /\ spacefree = 0
  /\ up
  /\ Goto(p, "idle") \/ Goto(p, "w_prep")
  /\ UNCHANGED <<param, buf, ptrs, opens, queue, fds, chunk>>

WritePrepare(p) ==
  /\ From(p, "w_prep")
  /\ outq' = outq \cup {p}
  /\ Goto(p, "w_check")
  /\ UNCHANGED <<param, buf, ptrs, opens, sem, inq, fds, chunk>>

WriteCheck_Blind(p) ==
  /\ From(p, "w_check")
  /\ Goto(p, "w_sleep")
  /\ UNCHANGED <<param, buf, ptrs, opens, sem, queue, fds, chunk>>

\* A signal that is pending by now ends the call instead of taking the lock.
WriteCheck(p) ==
  /\ From(p, "w_check")
  /\ IF spacefree = 0
     THEN Goto(p, "w_sleep") /\ UNCHANGED outq
     ELSE /\ Goto(p, "w_down") \/ Goto(p, "idle")
          /\ outq' = outq \ {p}
  /\ UNCHANGED <<param, buf, ptrs, opens, sem, inq, fds, chunk>>

WriteAwake(p) ==
  /\ From(p, "w_sleep")
  /\ p \notin outq
  /\ Goto(p, "w_down") \/ Goto(p, "idle")
  /\ UNCHANGED <<param, buf, ptrs, opens, sem, queue, fds, chunk>>

WriteCopy(p) ==
  /\ From(p, "w_crit")
  /\ spacefree # 0
  /\ \E n \in 0..MaxCount : \E s \in [1..Least(n, Writable) -> Byte] :
       /\ chunk' = [chunk EXCEPT ![p] = s]
       /\ mem' = Stored(s)
  /\ Goto(p, "w_adv")
  /\ UNCHANGED <<param, alloc, buffersize, ptrs, opens, sem, queue, fds>>

WriteFault(p) ==
  /\ From(p, "w_crit")
  /\ spacefree # 0
  /\ up
  /\ Goto(p, "idle")
  /\ UNCHANGED <<param, buf, ptrs, opens, queue, fds, chunk>>

WriteAdvance(p) ==
  /\ From(p, "w_adv")
  /\ wp' = wp + Len(chunk[p])
  /\ chunk' = [chunk EXCEPT ![p] = <<>>]
  /\ Goto(p, "w_wrap")
  /\ UNCHANGED <<param, buf, rp, opens, sem, queue, fds>>

WriteWrap(p) ==
  /\ From(p, "w_wrap")
  /\ wp' = IF wp = end THEN 0 ELSE wp
  /\ up
  /\ Goto(p, "w_wake")
  /\ UNCHANGED <<param, buf, rp, opens, queue, fds, chunk>>

WriteWake_Forgotten(p) ==
  /\ From(p, "w_wake")
  /\ Goto(p, "idle")
  /\ UNCHANGED <<param, buf, ptrs, opens, sem, queue, fds, chunk>>

WriteWake(p) ==
  /\ From(p, "w_wake")
  /\ inq' = {}
  /\ Goto(p, "idle")
  /\ UNCHANGED <<param, buf, ptrs, opens, sem, outq, fds, chunk>>

-----------------------------------------------------------------------------
(* scull_p_poll, called by the kernel's poll loop until an event p's file is *)
(* open for is ready.  A wake-up on either queue ends the sleep.             *)

PollDown(p) == down(p, "p_down", "p_crit")

PollReady(p) ==
  \/ "r" \in mode[p] /\ rp # wp
  \/ "w" \in mode[p] /\ spacefree # 0

PollMask(p) ==
  /\ From(p, "p_crit")
  /\ up
  /\ IF PollReady(p)
     THEN Goto(p, "idle") /\ inq' = inq \ {p} /\ outq' = outq \ {p}
     ELSE Goto(p, "p_sleep") /\ inq' = inq \cup {p} /\ outq' = outq \cup {p}
  /\ UNCHANGED <<param, buf, ptrs, opens, fds, chunk>>

PollAwake(p) ==
  /\ From(p, "p_sleep")
  /\ p \notin inq \cap outq
  /\ inq' = inq \cup {p} /\ outq' = outq \cup {p}
  /\ Goto(p, "p_down")
  /\ UNCHANGED <<param, buf, ptrs, opens, sem, fds, chunk>>

-----------------------------------------------------------------------------
(* Signals: every interruptible wait may end early *)

\* down_interruptible looks at signals only if it has to wait.
InterruptedDown(p) ==
  /\ pc[p] \in {"o_down", "r_down", "w_down"}
  /\ sem # NoProc
  /\ mode' = IF p \in files THEN mode ELSE [mode EXCEPT ![p] = {}]
  /\ Goto(p, "idle")
  /\ UNCHANGED <<param, buf, ptrs, opens, sem, queue, files, chunk>>

\* A reader goes round its loop again and sees the signal in ReadCheck.
ReadSignal(p) ==
  /\ From(p, "r_sleep")
  /\ inq' = inq \cup {p}
  /\ Goto(p, "r_check")
  /\ UNCHANGED <<param, buf, ptrs, opens, sem, outq, fds, chunk>>

InterruptedSleep(p) ==
  /\ pc[p] \in {"w_sleep", "p_sleep"}
  /\ inq' = inq \ {p} /\ outq' = outq \ {p}
  /\ Goto(p, "idle")
  /\ UNCHANGED <<param, buf, ptrs, opens, sem, fds, chunk>>

-----------------------------------------------------------------------------
Acquire(p) ==
  OpenDown(p) \/ ReleaseDown(p) \/ ReadDown(p) \/ WriteDown(p) \/ PollDown(p)

OpenStep(p) ==
  OpenAlloc(p) \/ OpenNoMemory(p) \/ OpenSize(p) \/ OpenReset(p) \/ Release(p)

ReadStep(p) ==
  \/ ReadEmpty(p) \/ ReadWait(p) \/ ReadCheck(p) \/ ReadAwake(p)
  \/ ReadCopy(p) \/ ReadFault(p) \/ ReadAdvance(p) \/ ReadWrap(p) \/ ReadWake(p)

WriteStep(p) ==
  \/ WriteFull(p) \/ WritePrepare(p) \/ WriteCheck(p) \/ WriteAwake(p)
  \/ WriteCopy(p) \/ WriteFault(p) \/ WriteAdvance(p) \/ WriteWrap(p) \/ WriteWake(p)

PollStep(p) == PollMask(p) \/ PollAwake(p)

\* What a process does on its own once it is in a call and scheduled.
Run(p) == OpenStep(p) \/ ReadStep(p) \/ WriteStep(p) \/ PollStep(p)

Next ==
  \/ SetSize
  \/ \E p \in Procs :
       \/ CallOpen(p) \/ CallFile(p)
       \/ InterruptedDown(p) \/ ReadSignal(p) \/ InterruptedSleep(p)
       \/ Acquire(p) \/ Run(p)

Spec == Init /\ [][Next]_vars

\* A process in the kernel keeps running, and the semaphore is handed to its
\* waiters first come first served.
Fairness == \A p \in Procs : WF_vars(Run(p)) /\ SF_vars(Acquire(p))

FairSpec == Spec /\ Fairness

-----------------------------------------------------------------------------
(* Two rules for the programs that use the driver.  Nothing in the driver   *)
(* enforces them; with them it keeps promises that it breaks without them.  *)

\* Queued, and blocked unless a wake-up takes the process off the queue.
AsleepForData(p) ==
  /\ p \in inq
  /\ \/ From(p, "r_sleep")
     \/ From(p, "p_sleep") /\ p \in outq /\ "r" \in mode[p]

AsleepForSpace(p) ==
  /\ p \in outq
  /\ \/ From(p, "w_sleep")
     \/ From(p, "p_sleep") /\ p \in inq /\ "w" \in mode[p]

\* No process is going to sleep, or asleep, waiting for space.
NoneWaitForSpace ==
  \A p \in Procs : pc[p] \notin {"w_prep", "w_check", "w_sleep"} /\ ~AsleepForSpace(p)

CarefulOpen == \A p \in Procs : OpenDown(p) => NoneWaitForSpace

CarefulSetSize == scull_p_buffer' # scull_p_buffer => alloc = 0

CarefulNext == Next /\ CarefulOpen /\ CarefulSetSize

CarefulSpec == Init /\ [][CarefulNext]_vars

CarefulFairness ==
  \A p \in Procs :
    /\ WF_vars(Run(p))
    /\ SF_vars(Acquire(p) /\ (From(p, "o_down") => NoneWaitForSpace))

CarefulFairSpec == CarefulSpec /\ CarefulFairness

-----------------------------------------------------------------------------
(* Properties *)

\* The variables keep their types.
TypeOK ==
  /\ scull_p_buffer \in BufSizes
  /\ alloc \in BufSizes \cup {0}
  /\ mem \in [0..(MaxSize - 1) -> Byte \cup {Garbage}]
  /\ buffersize \in BufSizes \cup {0}
  /\ rp \in 0..MaxSize /\ wp \in 0..MaxSize
  /\ nreaders \in Int /\ nwriters \in Int
  /\ sem \in Procs \cup {NoProc}
  /\ inq \subseteq Procs /\ outq \subseteq Procs
  /\ files \subseteq Procs
  /\ mode \in [Procs -> Modes \cup {{}}]
  /\ pc \in [Procs -> Labels]
  /\ chunk \in [Procs -> Seq(Byte \cup {Garbage})]

Critical == {"o_alloc", "o_size", "o_reset", "c_crit", "r_crit", "r_adv", "r_wrap",
             "w_crit", "w_adv", "w_wrap", "p_crit"}

\* The semaphore belongs to the one process between a down and its up, and
\* every way out of an operation, the failing ones too, has let go of it.
SemHeld == \A p \in Procs : pc[p] \in Critical <=> sem = p

Reading == {"r_down", "r_crit", "r_wait", "r_check", "r_sleep", "r_adv", "r_wrap", "r_wake"}
Writing == {"w_down", "w_crit", "w_prep", "w_check", "w_sleep", "w_adv", "w_wrap", "w_wake"}

\* The release of the last reader and writer frees the buffer; no process
\* that is reading or writing, even asleep, can find it gone.
NoUseAfterFree == \A p \in Procs : pc[p] \in Reading \cup Writing => alloc # 0

\* No lost wake-up of readers: while a process sleeps for data and there is
\* data, some writer is still on its way to the wake_up of dev->inq.
ReadersNotStranded ==
  (\E p \in Procs : AsleepForData(p)) /\ rp # wp
    => \E w \in Procs : pc[w] \in {"w_wrap", "w_wake"}

\* The same for writers, with readers on their way to the wake_up of outq.
WritersNotStranded ==
  (\E p \in Procs : AsleepForSpace(p)) /\ spacefree # 0
    => \E r \in Procs : pc[r] \in {"r_wrap", "r_wake"}

\* dev->end is the end of the buffer that was allocated.
EndOfBuffer ==
  alloc # 0 /\ (\A p \in Procs : ~From(p, "o_size")) => end = alloc

\* A process in a read returns unless the pipe runs empty.
ReadProgress ==
  \A p \in Procs : (pc[p] \in Reading /\ rp # wp) ~> (pc[p] \notin Reading \/ rp = wp)

\* A process in a write returns unless the pipe runs full.
WriteProgress ==
  \A p \in Procs :
    (pc[p] \in Writing /\ spacefree # 0) ~> (pc[p] \notin Writing \/ spacefree = 0)

\* Nobody waits for ever for what is there.
Progress == ReadProgress /\ WriteProgress

Slot(i) == IF rp + i < end THEN rp + i ELSE rp + i - end

Used == IF wp >= rp THEN wp - rp ELSE wp - rp + end

\* The pointers mean something: there is a buffer and no open is resetting it.
Usable == alloc # 0 /\ \A p \in Procs : pc[p] \notin {"o_size", "o_reset"}

\* The unread bytes.  A new open discards them as soon as it sets the size.
Contents == IF Usable THEN [i \in 1..Used |-> mem[Slot(i - 1)]] ELSE <<>>

Delivered == [p \in Procs |-> IF pc[p] \in {"r_wrap", "r_wake"} THEN chunk[p] ELSE <<>>]

PF == INSTANCE PipeFifo WITH q <- Contents, got <- Delivered

\* Bytes come out in the order they went in, each once and none invented.
Fifo == PF!Fifo

-----------------------------------------------------------------------------
(* Inductive invariants, for the proofs *)

Openers(m) == {p \in files : m \in mode[p]}

FileUse ==
  \A p \in Procs :
    /\ pc[p] \in {"o_down", "o_alloc", "o_size", "o_reset"} => p \notin files
    /\ pc[p] \in {"c_down", "c_crit", "p_down", "p_crit", "p_sleep"} => p \in files
    /\ pc[p] \in Reading => p \in Openers("r")
    /\ pc[p] \in Writing => p \in Openers("w")

OpenCounts ==
  /\ nreaders = Cardinality(Openers("r"))
  /\ nwriters = Cardinality(Openers("w"))

Allocated ==
  /\ Openers("r") \cup Openers("w") # {} => alloc # 0
  /\ \A p \in Procs : pc[p] \in {"o_size", "o_reset"} => alloc # 0
  /\ \A p \in Procs : From(p, "o_reset") => buffersize # 0

\* One slot stays free, and a pointer is at the end only until it is wrapped.
Pointers ==
  Usable =>
    /\ buffersize > 0
    /\ rp <= buffersize /\ wp <= buffersize
    /\ rp = buffersize => wp < buffersize /\ \E p \in Procs : From(p, "r_wrap")
    /\ wp = buffersize => 0 < rp /\ \E p \in Procs : From(p, "w_wrap")

\* What a copy has set up for the pointer update that follows it.
Transfers ==
  \A p \in Procs :
    /\ From(p, "r_adv") =>
         /\ rp # wp
         /\ Len(chunk[p]) <= Readable
    /\ From(p, "w_adv") =>
         /\ spacefree # 0
         /\ Len(chunk[p]) <= Writable

IInv ==
  /\ TypeOK /\ SemHeld /\ FileUse /\ OpenCounts /\ Allocated
  /\ Pointers /\ Transfers /\ ReadersNotStranded

\* With the two rules obeyed: sizes agree, nobody who opens leaves a writer
\* behind, and the slots in use hold the bytes that were written.
SizesAgree == alloc # 0 => alloc = scull_p_buffer

OpensAreQuiet ==
  (\E p \in Procs : pc[p] \in {"o_alloc", "o_size", "o_reset"}) => NoneWaitForSpace

Copied ==
  \A p \in Procs :
    /\ From(p, "r_adv") =>
         \A i \in 1..Len(chunk[p]) : chunk[p][i] = mem[rp + i - 1]
    /\ From(p, "w_adv") =>
         \A i \in 1..Len(chunk[p]) : chunk[p][i] \in Byte /\ mem[wp + i - 1] = chunk[p][i]

CarefulInv ==
  /\ IInv /\ SizesAgree /\ EndOfBuffer /\ OpensAreQuiet
  /\ WritersNotStranded /\ Copied /\ Contents \in Seq(Byte)
=============================================================================
