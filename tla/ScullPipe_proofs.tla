-------------------------- MODULE ScullPipe_proofs --------------------------
(***************************************************************************)
(* Proofs about the scull pipe.  IInv is shown to be inductive one conjunct *)
(* at a time: a lemma per conjunct, and in it a step per group of actions.  *)
(* The second half is what holds in addition when the users of the pipe     *)
(* obey the two rules of ScullPipe: CarefulInv is inductive for CarefulSpec. *)
(***************************************************************************)
EXTENDS ScullPipe, FiniteSetTheorems, SequenceTheorems, TLAPS

LEMMA UsersFinite ==
  ASSUME NEW S \in SUBSET Procs
  PROVE  /\ IsFiniteSet(S) /\ Cardinality(S) \in Nat
         /\ Cardinality(S) = 0 <=> S = {}
         /\ \A p \in Procs :
              /\ p \notin S => Cardinality(S \cup {p}) = Cardinality(S) + 1
              /\ p \in S => Cardinality(S \ {p}) = Cardinality(S) - 1
BY PipeAssumption, FS_Subset, FS_CardinalityType, FS_EmptySet, FS_AddElement, FS_RemoveElement

LEMMA SemStep == IInv /\ [Next]_vars => SemHeld'
<1> SUFFICES ASSUME pc \in [Procs -> Labels], SemHeld, [Next]_vars
             PROVE  SemHeld'
  BY DEF IInv, TypeOK
<1> USE PipeAssumption DEF SemHeld, Critical, Goto, From, down, up,
        param, buf, ptrs, opens, queue, fds, vars
<1>1. ASSUME SetSize PROVE SemHeld'
  BY <1>1 DEF SetSize
<1>2. ASSUME NEW p \in Procs, CallOpen(p) \/ CallFile(p) PROVE SemHeld'
  BY <1>2 DEF CallOpen, CallFile
<1>3. ASSUME NEW p \in Procs, InterruptedDown(p) \/ ReadSignal(p) \/ InterruptedSleep(p) PROVE SemHeld'
  BY <1>3 DEF InterruptedDown, ReadSignal, InterruptedSleep
<1>4. ASSUME NEW p \in Procs, Acquire(p) PROVE SemHeld'
  BY <1>4 DEF Acquire, OpenDown, ReleaseDown, ReadDown, WriteDown, PollDown
<1>5. ASSUME NEW p \in Procs, OpenStep(p) PROVE SemHeld'
  BY <1>5 DEF OpenStep, OpenAlloc, OpenNoMemory, OpenSize, OpenReset, Release, LastClose
<1>6. ASSUME NEW p \in Procs, ReadStep(p) PROVE SemHeld'
  BY <1>6 DEF ReadStep, ReadEmpty, ReadWait, ReadCheck, ReadAwake, ReadCopy, ReadFault,
              ReadAdvance, ReadWrap, ReadWake
<1>7. ASSUME NEW p \in Procs, WriteStep(p) PROVE SemHeld'
  BY <1>7 DEF WriteStep, WriteFull, WritePrepare, WriteCheck, WriteAwake, WriteCopy,
              WriteFault, WriteAdvance, WriteWrap, WriteWake
<1>8. ASSUME NEW p \in Procs, PollStep(p) PROVE SemHeld'
  BY <1>8 DEF PollStep, PollMask, PollAwake
<1>9. CASE UNCHANGED vars
  BY <1>9
<1> QED
  BY <1>1, <1>2, <1>3, <1>4, <1>5, <1>6, <1>7, <1>8, <1>9 DEF Next, Run

LEMMA FileStep == IInv /\ [Next]_vars => FileUse'
<1> SUFFICES ASSUME pc \in [Procs -> Labels], mode \in [Procs -> Modes \cup {{}}], files \subseteq Procs, FileUse, [Next]_vars
             PROVE  FileUse'
  BY DEF IInv, TypeOK
<1> USE PipeAssumption DEF FileUse, Reading, Writing, Openers, Goto, From, down, up,
        param, buf, ptrs, opens, queue, fds, vars
<1>1. ASSUME SetSize PROVE FileUse'
  BY <1>1 DEF SetSize
<1>2. ASSUME NEW p \in Procs, CallOpen(p) \/ CallFile(p) PROVE FileUse'
  BY <1>2 DEF CallOpen, CallFile
<1>3. ASSUME NEW p \in Procs, InterruptedDown(p) \/ ReadSignal(p) \/ InterruptedSleep(p) PROVE FileUse'
  BY <1>3 DEF InterruptedDown, ReadSignal, InterruptedSleep
<1>4. ASSUME NEW p \in Procs, Acquire(p) PROVE FileUse'
  BY <1>4 DEF Acquire, OpenDown, ReleaseDown, ReadDown, WriteDown, PollDown
<1>5. ASSUME NEW p \in Procs, OpenStep(p) PROVE FileUse'
  BY <1>5 DEF OpenStep, OpenAlloc, OpenNoMemory, OpenSize, OpenReset, Release, LastClose
<1>6. ASSUME NEW p \in Procs, ReadStep(p) PROVE FileUse'
  BY <1>6 DEF ReadStep, ReadEmpty, ReadWait, ReadCheck, ReadAwake, ReadCopy, ReadFault,
              ReadAdvance, ReadWrap, ReadWake
<1>7. ASSUME NEW p \in Procs, WriteStep(p) PROVE FileUse'
  BY <1>7 DEF WriteStep, WriteFull, WritePrepare, WriteCheck, WriteAwake, WriteCopy,
              WriteFault, WriteAdvance, WriteWrap, WriteWake
<1>8. ASSUME NEW p \in Procs, PollStep(p) PROVE FileUse'
  BY <1>8 DEF PollStep, PollMask, PollAwake
<1>9. CASE UNCHANGED vars
  BY <1>9
<1> QED
  BY <1>1, <1>2, <1>3, <1>4, <1>5, <1>6, <1>7, <1>8, <1>9 DEF Next, Run

LEMMA CountStep == IInv /\ [Next]_vars => OpenCounts'
<1> SUFFICES ASSUME pc \in [Procs -> Labels], mode \in [Procs -> Modes \cup {{}}],
                    files \subseteq Procs, FileUse, OpenCounts, [Next]_vars
             PROVE  OpenCounts'
  BY DEF IInv, TypeOK
<1> USE PipeAssumption DEF Goto, From, down, up,
        param, buf, ptrs, opens, queue, fds, vars
<1>1. ASSUME SetSize PROVE OpenCounts'
  <2>1. UNCHANGED <<nreaders, nwriters>> /\ Openers("r")' = Openers("r") /\ Openers("w")' = Openers("w")
    BY <1>1 DEF SetSize, Openers, FileUse
  <2> QED
    BY <2>1 DEF OpenCounts
<1>2. ASSUME NEW p \in Procs, CallOpen(p) \/ CallFile(p) PROVE OpenCounts'
  <2>1. UNCHANGED <<nreaders, nwriters>> /\ Openers("r")' = Openers("r") /\ Openers("w")' = Openers("w")
    BY <1>2 DEF CallOpen, CallFile, Openers, FileUse
  <2> QED
    BY <2>1 DEF OpenCounts
<1>3. ASSUME NEW p \in Procs, InterruptedDown(p) \/ ReadSignal(p) \/ InterruptedSleep(p) PROVE OpenCounts'
  <2>1. UNCHANGED <<nreaders, nwriters>> /\ Openers("r")' = Openers("r") /\ Openers("w")' = Openers("w")
    BY <1>3 DEF InterruptedDown, ReadSignal, InterruptedSleep, Openers, FileUse
  <2> QED
    BY <2>1 DEF OpenCounts
<1>4. ASSUME NEW p \in Procs, Acquire(p) PROVE OpenCounts'
  <2>1. UNCHANGED <<nreaders, nwriters>> /\ Openers("r")' = Openers("r") /\ Openers("w")' = Openers("w")
    BY <1>4 DEF Acquire, OpenDown, ReleaseDown, ReadDown, WriteDown, PollDown, Openers, FileUse
  <2> QED
    BY <2>1 DEF OpenCounts
<1>5. ASSUME NEW p \in Procs, OpenStep(p) PROVE OpenCounts'
  <2>1. ASSUME OpenAlloc(p) \/ OpenNoMemory(p) \/ OpenSize(p) PROVE OpenCounts'
    <3>1. UNCHANGED <<nreaders, nwriters>> /\ Openers("r")' = Openers("r") /\ Openers("w")' = Openers("w")
      BY <2>1 DEF OpenAlloc, OpenNoMemory, OpenSize, Openers, FileUse
    <3> QED
      BY <3>1 DEF OpenCounts
  <2>2. ASSUME OpenReset(p) PROVE OpenCounts'
    <3>1. p \notin files /\ mode' = mode /\ files' = files \cup {p}
      BY <2>2 DEF OpenReset, FileUse
    <3>2. ASSUME NEW m
          PROVE  Cardinality(Openers(m)') = Cardinality(Openers(m)) + (IF m \in mode[p] THEN 1 ELSE 0)
      <4>1. Openers(m)' = IF m \in mode[p] THEN Openers(m) \cup {p} ELSE Openers(m)
        BY <3>1 DEF Openers
      <4>2. Openers(m) \in SUBSET Procs /\ p \notin Openers(m)
        BY <3>1 DEF Openers
      <4>3. Cardinality(Openers(m)) \in Nat /\ Cardinality(Openers(m) \cup {p}) = Cardinality(Openers(m)) + 1
        BY <4>2, UsersFinite
      <4> QED
        BY <4>1, <4>3
    <3>3. /\ nreaders' = nreaders + (IF "r" \in mode[p] THEN 1 ELSE 0)
          /\ nwriters' = nwriters + (IF "w" \in mode[p] THEN 1 ELSE 0)
      BY <2>2 DEF OpenReset
    <3> QED
      BY <3>2, <3>3 DEF OpenCounts
  <2>3. ASSUME Release(p) PROVE OpenCounts'
    <3>1. p \in files /\ files' = files \ {p} /\ \A q \in files' : mode'[q] = mode[q]
      BY <2>3 DEF Release, FileUse
    <3>2. ASSUME NEW m
          PROVE  Cardinality(Openers(m)') = Cardinality(Openers(m)) - (IF m \in mode[p] THEN 1 ELSE 0)
      <4>1. Openers(m)' = IF m \in mode[p] THEN Openers(m) \ {p} ELSE Openers(m)
        BY <3>1 DEF Openers
      <4>2. Openers(m) \in SUBSET Procs /\ (m \in mode[p] => p \in Openers(m))
        BY <3>1 DEF Openers
      <4>3. /\ Cardinality(Openers(m)) \in Nat
            /\ m \in mode[p] => Cardinality(Openers(m) \ {p}) = Cardinality(Openers(m)) - 1
        BY <4>2, UsersFinite
      <4> QED
        BY <4>1, <4>3
    <3>3. /\ nreaders' = nreaders - (IF "r" \in mode[p] THEN 1 ELSE 0)
          /\ nwriters' = nwriters - (IF "w" \in mode[p] THEN 1 ELSE 0)
      BY <2>3 DEF Release
    <3> QED
      BY <3>2, <3>3 DEF OpenCounts
  <2> QED
    BY <1>5, <2>1, <2>2, <2>3 DEF OpenStep
<1>6. ASSUME NEW p \in Procs, ReadStep(p) PROVE OpenCounts'
  <2>1. UNCHANGED <<nreaders, nwriters>> /\ Openers("r")' = Openers("r") /\ Openers("w")' = Openers("w")
    BY <1>6 DEF ReadStep, ReadEmpty, ReadWait, ReadCheck, ReadAwake, ReadCopy, ReadFault,
              ReadAdvance, ReadWrap, ReadWake, Openers, FileUse
  <2> QED
    BY <2>1 DEF OpenCounts
<1>7. ASSUME NEW p \in Procs, WriteStep(p) PROVE OpenCounts'
  <2>1. UNCHANGED <<nreaders, nwriters>> /\ Openers("r")' = Openers("r") /\ Openers("w")' = Openers("w")
    BY <1>7 DEF WriteStep, WriteFull, WritePrepare, WriteCheck, WriteAwake, WriteCopy,
              WriteFault, WriteAdvance, WriteWrap, WriteWake, Openers, FileUse
  <2> QED
    BY <2>1 DEF OpenCounts
<1>8. ASSUME NEW p \in Procs, PollStep(p) PROVE OpenCounts'
  <2>1. UNCHANGED <<nreaders, nwriters>> /\ Openers("r")' = Openers("r") /\ Openers("w")' = Openers("w")
    BY <1>8 DEF PollStep, PollMask, PollAwake, Openers, FileUse
  <2> QED
    BY <2>1 DEF OpenCounts
<1>9. CASE UNCHANGED vars
  BY <1>9 DEF OpenCounts, Openers
<1> QED
  BY <1>1, <1>2, <1>3, <1>4, <1>5, <1>6, <1>7, <1>8, <1>9 DEF Next, Run

LEMMA AllocStep == IInv /\ [Next]_vars => Allocated'
<1> SUFFICES ASSUME pc \in [Procs -> Labels], mode \in [Procs -> Modes \cup {{}}],
                    files \subseteq Procs, scull_p_buffer \in BufSizes,
                    SemHeld, FileUse, OpenCounts', Allocated, [Next]_vars
             PROVE  Allocated'
  BY CountStep DEF IInv, TypeOK
<1> USE PipeAssumption DEF SemHeld, Critical, FileUse, Goto, From, down, up,
        param, buf, ptrs, opens, queue, fds, vars
<1>1. ASSUME SetSize PROVE Allocated'
  BY <1>1 DEF SetSize, Allocated, Openers
<1>2. ASSUME NEW p \in Procs, CallOpen(p) \/ CallFile(p) PROVE Allocated'
  BY <1>2 DEF CallOpen, CallFile, Allocated, Openers
<1>3. ASSUME NEW p \in Procs, InterruptedDown(p) \/ ReadSignal(p) \/ InterruptedSleep(p) PROVE Allocated'
  BY <1>3 DEF InterruptedDown, ReadSignal, InterruptedSleep, Allocated, Openers
<1>4. ASSUME NEW p \in Procs, Acquire(p) PROVE Allocated'
  BY <1>4 DEF Acquire, OpenDown, ReleaseDown, ReadDown, WriteDown, PollDown, Allocated, Openers
<1>5. ASSUME NEW p \in Procs, OpenStep(p) PROVE Allocated'
  <2>1. ASSUME OpenAlloc(p) \/ OpenNoMemory(p) \/ OpenSize(p) \/ OpenReset(p)
        PROVE  Allocated'
    BY <2>1 DEF OpenAlloc, OpenNoMemory, OpenSize, OpenReset, Allocated, Openers
  <2>2. ASSUME Release(p) PROVE Allocated'
    <3>1. /\ Openers("r")' \in SUBSET Procs /\ Openers("w")' \in SUBSET Procs
          /\ Openers("r")' \subseteq Openers("r") /\ Openers("w")' \subseteq Openers("w")
      BY <2>2 DEF Release, Openers
    <3>2. /\ nreaders' \in Nat /\ (nreaders' = 0 <=> Openers("r")' = {})
          /\ nwriters' \in Nat /\ (nwriters' = 0 <=> Openers("w")' = {})
      BY <3>1, UsersFinite DEF OpenCounts
    <3>3. \A q \in Procs : pc'[q] \notin {"o_size", "o_reset"}
      BY <2>2 DEF Release
    <3>4. nreaders' + nwriters' # 0 => alloc' = alloc
      BY <2>2 DEF Release, LastClose
    <3> QED
      <4>0. nreaders' + nwriters' = 0 => nreaders' = 0 /\ nwriters' = 0
        <5> HIDE DEF Openers
        <5>1. \A a, b \in Nat : a + b = 0 => a = 0 /\ b = 0
          OBVIOUS
        <5> QED
          BY <3>2, <5>1
      <4>1. Openers("r")' \cup Openers("w")' # {} => nreaders' + nwriters' # 0
        BY <3>2, <4>0, Zenon
      <4>2. Openers("r")' \cup Openers("w")' # {} => alloc # 0
        BY <3>1 DEF Allocated
      <4> QED
        BY <3>3, <3>4, <4>1, <4>2 DEF Allocated
  <2> QED
    BY <1>5, <2>1, <2>2 DEF OpenStep
<1>6. ASSUME NEW p \in Procs, ReadStep(p) PROVE Allocated'
  BY <1>6 DEF ReadStep, ReadEmpty, ReadWait, ReadCheck, ReadAwake, ReadCopy, ReadFault,
              ReadAdvance, ReadWrap, ReadWake, Allocated, Openers
<1>7. ASSUME NEW p \in Procs, WriteStep(p) PROVE Allocated'
  BY <1>7 DEF WriteStep, WriteFull, WritePrepare, WriteCheck, WriteAwake, WriteCopy,
              WriteFault, WriteAdvance, WriteWrap, WriteWake, Allocated, Openers
<1>8. ASSUME NEW p \in Procs, PollStep(p) PROVE Allocated'
  BY <1>8 DEF PollStep, PollMask, PollAwake, Allocated, Openers
<1>9. CASE UNCHANGED vars
  BY <1>9 DEF Allocated, Openers
<1> QED
  BY <1>1, <1>2, <1>3, <1>4, <1>5, <1>6, <1>7, <1>8, <1>9 DEF Next, Run

-----------------------------------------------------------------------------
(* Arithmetic and sequences *)

LEMMA RemFacts ==
  ASSUME NEW b \in Nat \ {0}, NEW a \in 0..(2 * b)
  PROVE  CRem(a, b) = IF a < b THEN a ELSE IF a < 2 * b THEN a - b ELSE 0
<1>1. CASE a < b
  BY <1>1 DEF CRem
<1>2. CASE a \in b..(2 * b - 1)
  BY <1>2 DEF CRem
<1>3. CASE a = 2 * b
  BY <1>3 DEF CRem
<1> QED
  BY <1>1, <1>2, <1>3

LEMMA MakeSeq ==
  ASSUME NEW S, NEW k \in Int, NEW f \in [1..k -> S]
  PROVE  f \in Seq(S) /\ Len(f) = IF k > 0 THEN k ELSE 0
<1>1. CASE k > 0
  BY <1>1
<1>2. CASE k <= 0
  <2>1. f \in [1..0 -> S]
    BY <1>2
  <2> QED
    BY <1>2, <2>1
<1> QED
  BY <1>1, <1>2

\* What the holder of the semaphore may rely on in a read or a write.
Moving == {"r_crit", "r_adv", "r_wrap", "w_crit", "w_adv", "w_wrap"}

LEMMA InBuffer ==
  ASSUME IInv, NEW p \in Procs, pc[p] \in Moving
  PROVE  /\ Usable
         /\ alloc \in BufSizes /\ buffersize \in 1..MaxSize
         /\ rp \in 0..buffersize /\ wp \in 0..buffersize
         /\ rp = buffersize => pc[p] = "r_wrap" /\ wp < buffersize
         /\ wp = buffersize => pc[p] = "w_wrap" /\ 0 < rp /\ rp < buffersize
<1>1. sem = p /\ \A q \in Procs : q # p => pc[q] \notin Critical
  BY DEF IInv, SemHeld, Moving, Critical
<1>2. alloc # 0
  BY DEF IInv, FileUse, Allocated, Moving, Reading, Writing
<1>3. Usable
  BY <1>1, <1>2 DEF Usable, Moving, Critical
<1>4. \A q \in Procs : pc[q] \in {"r_wrap", "w_wrap"} => q = p
  BY <1>1 DEF Critical
<1> QED
  BY <1>3, <1>4, PipeAssumption DEF IInv, TypeOK, Pointers, From, Usable
-----------------------------------------------------------------------------
LEMMA ReaderStep == IInv /\ [Next]_vars => ReadersNotStranded'
<1> SUFFICES ASSUME pc \in [Procs -> Labels], mode \in [Procs -> Modes \cup {{}}],
                    files \subseteq Procs,
                    inq \subseteq Procs, IInv, ReadersNotStranded, [Next]_vars
             PROVE  ReadersNotStranded'
  BY DEF IInv, TypeOK
<1> USE PipeAssumption DEF ReadersNotStranded, AsleepForData, PollReady, Goto, From, down, up,
        param, buf, ptrs, opens, queue, fds, vars
<1>1. ASSUME SetSize PROVE ReadersNotStranded'
  BY <1>1 DEF SetSize
<1>2. ASSUME NEW p \in Procs, CallOpen(p) \/ CallFile(p) PROVE ReadersNotStranded'
  BY <1>2 DEF CallOpen, CallFile
<1>3. ASSUME NEW p \in Procs, InterruptedDown(p) \/ ReadSignal(p) \/ InterruptedSleep(p) PROVE ReadersNotStranded'
  BY <1>3 DEF InterruptedDown, ReadSignal, InterruptedSleep
<1>4. ASSUME NEW p \in Procs, Acquire(p) PROVE ReadersNotStranded'
  BY <1>4 DEF Acquire, OpenDown, ReleaseDown, ReadDown, WriteDown, PollDown
<1>5. ASSUME NEW p \in Procs, OpenStep(p) PROVE ReadersNotStranded'
  BY <1>5 DEF OpenStep, OpenAlloc, OpenNoMemory, OpenSize, OpenReset, Release, LastClose
<1>6. ASSUME NEW p \in Procs, ReadStep(p) PROVE ReadersNotStranded'
  <2>1. CASE ReadAdvance(p)
    <3>1. rp # wp
      BY <2>1 DEF IInv, Transfers, ReadAdvance
    <3> QED
      BY <2>1, <3>1 DEF ReadAdvance
  <2>2. CASE ReadWrap(p)
    <3>1. rp' # wp' => rp # wp
      BY <2>2, InBuffer DEF ReadWrap, Moving, end
    <3> QED
      BY <2>2, <3>1 DEF ReadWrap
  <2>3. CASE ReadEmpty(p) \/ ReadWait(p) \/ ReadCheck(p) \/ ReadAwake(p)
    BY <2>3 DEF ReadEmpty, ReadWait, ReadCheck, ReadAwake
  <2>4. CASE ReadCopy(p) \/ ReadFault(p) \/ ReadWake(p)
    BY <2>4 DEF ReadCopy, ReadFault, ReadWake
  <2> QED
    BY <1>6, <2>1, <2>2, <2>3, <2>4 DEF ReadStep
<1>7. ASSUME NEW p \in Procs, WriteStep(p) PROVE ReadersNotStranded'
  BY <1>7 DEF WriteStep, WriteFull, WritePrepare, WriteCheck, WriteAwake, WriteCopy,
              WriteFault, WriteAdvance, WriteWrap, WriteWake
<1>8. ASSUME NEW p \in Procs, PollStep(p) PROVE ReadersNotStranded'
  BY <1>8 DEF PollStep, PollMask, PollAwake
<1>9. CASE UNCHANGED vars
  BY <1>9
<1> QED
  BY <1>1, <1>2, <1>3, <1>4, <1>5, <1>6, <1>7, <1>8, <1>9 DEF Next, Run

LEMMA WritableBound ==
  ASSUME buffersize \in Nat \ {0}, rp \in 0..(buffersize - 1), wp \in 0..(buffersize - 1)
  PROVE  /\ spacefree = IF wp >= rp THEN buffersize - 1 - (wp - rp) ELSE rp - wp - 1
         /\ Writable \in Nat
         /\ Writable <= spacefree
         /\ Writable <= (IF wp >= rp THEN buffersize - wp ELSE rp - wp - 1)
<1>1. rp + buffersize - wp \in 0..(2 * buffersize)
  OBVIOUS
<1>2. CRem(rp + buffersize - wp, buffersize) =
        IF rp < wp THEN rp + buffersize - wp ELSE rp - wp
  BY <1>1, RemFacts
<1>3. spacefree = IF wp >= rp THEN buffersize - 1 - (wp - rp) ELSE rp - wp - 1
  BY <1>2 DEF spacefree
<1> QED
  BY <1>3 DEF Writable, Least, end

LEMMA LabelStep == IInv /\ [Next]_vars => pc' \in [Procs -> Labels]
<1> SUFFICES ASSUME pc \in [Procs -> Labels], [Next]_vars
             PROVE  pc' \in [Procs -> Labels]
  BY DEF IInv, TypeOK
<1> USE PipeAssumption DEF Labels, Goto, From, down, up,
        param, buf, ptrs, opens, queue, fds, vars
<1>1. ASSUME SetSize PROVE pc' \in [Procs -> Labels]
  BY <1>1 DEF SetSize
<1>2. ASSUME NEW p \in Procs, CallOpen(p) \/ CallFile(p) PROVE pc' \in [Procs -> Labels]
  BY <1>2 DEF CallOpen, CallFile
<1>3. ASSUME NEW p \in Procs, InterruptedDown(p) \/ ReadSignal(p) \/ InterruptedSleep(p) PROVE pc' \in [Procs -> Labels]
  BY <1>3 DEF InterruptedDown, ReadSignal, InterruptedSleep
<1>4. ASSUME NEW p \in Procs, Acquire(p) PROVE pc' \in [Procs -> Labels]
  BY <1>4 DEF Acquire, OpenDown, ReleaseDown, ReadDown, WriteDown, PollDown
<1>5. ASSUME NEW p \in Procs, OpenStep(p) PROVE pc' \in [Procs -> Labels]
  BY <1>5 DEF OpenStep, OpenAlloc, OpenNoMemory, OpenSize, OpenReset, Release, LastClose
<1>6. ASSUME NEW p \in Procs, ReadStep(p) PROVE pc' \in [Procs -> Labels]
  BY <1>6 DEF ReadStep, ReadEmpty, ReadWait, ReadCheck, ReadAwake, ReadCopy, ReadFault,
              ReadAdvance, ReadWrap, ReadWake
<1>7. ASSUME NEW p \in Procs, WriteStep(p) PROVE pc' \in [Procs -> Labels]
  BY <1>7 DEF WriteStep, WriteFull, WritePrepare, WriteCheck, WriteAwake, WriteCopy,
              WriteFault, WriteAdvance, WriteWrap, WriteWake
<1>8. ASSUME NEW p \in Procs, PollStep(p) PROVE pc' \in [Procs -> Labels]
  BY <1>8 DEF PollStep, PollMask, PollAwake
<1>9. CASE UNCHANGED vars
  BY <1>9
<1> QED
  BY <1>1, <1>2, <1>3, <1>4, <1>5, <1>6, <1>7, <1>8, <1>9 DEF Next, Run

(* Steps that change only labels, the semaphore and the queues.               *)
LEMMA PlainType ==
  ASSUME TypeOK, pc' \in [Procs -> Labels], sem' \in Procs \cup {NoProc},
         inq' \subseteq Procs, outq' \subseteq Procs,
         UNCHANGED <<param, buf, ptrs, opens, fds, chunk>>
  PROVE  TypeOK'
BY DEF TypeOK, param, buf, ptrs, opens, fds

LEMMA TypeStep == IInv /\ [Next]_vars => TypeOK'
<1> SUFFICES ASSUME IInv, TypeOK, [Next]_vars
             PROVE  TypeOK'
  BY DEF IInv
<1>0. pc' \in [Procs -> Labels]
  BY LabelStep
<1>t. sem \in Procs \cup {NoProc} /\ inq \subseteq Procs /\ outq \subseteq Procs
  BY DEF TypeOK
<1> DEFINE Plain == /\ sem' \in Procs \cup {NoProc} /\ inq' \subseteq Procs /\ outq' \subseteq Procs
                    /\ UNCHANGED <<param, buf, ptrs, opens, fds, chunk>>
<1>p. ASSUME Plain PROVE TypeOK'
  BY <1>0, <1>p, PlainType
<1> USE <1>0, PipeAssumption DEF Goto, From, down, up,
        param, buf, ptrs, opens, queue, fds, vars
<1>1. ASSUME SetSize PROVE TypeOK'
  BY <1>1 DEF SetSize, TypeOK
<1>2. ASSUME NEW p \in Procs, CallOpen(p) \/ CallFile(p) PROVE TypeOK'
  <2>1. ASSUME CallOpen(p) PROVE TypeOK'
    BY <2>1 DEF CallOpen, TypeOK
  <2>2. ASSUME CallFile(p) PROVE TypeOK'
    BY <2>2 DEF CallFile, TypeOK
  <2> QED
    BY <1>2, <2>1, <2>2
<1>3. ASSUME NEW p \in Procs, InterruptedDown(p) \/ ReadSignal(p) \/ InterruptedSleep(p) PROVE TypeOK'
  <2>1. ASSUME InterruptedDown(p) PROVE TypeOK'
    <3>1. mode' \in [Procs -> Modes \cup {{}}]
      BY <2>1 DEF InterruptedDown, TypeOK
    <3> QED
      BY <2>1, <3>1 DEF InterruptedDown, TypeOK
  <2>2. ASSUME ReadSignal(p) \/ InterruptedSleep(p) PROVE TypeOK'
    <3>1. ASSUME ReadSignal(p) PROVE Plain
      BY <1>t, <3>1 DEF ReadSignal
    <3>2. ASSUME InterruptedSleep(p) PROVE Plain
      BY <1>t, <3>2 DEF InterruptedSleep
    <3> QED
      BY <1>p, <2>2, <3>1, <3>2
  <2> QED
    BY <1>3, <2>1, <2>2
<1>4. ASSUME NEW p \in Procs, Acquire(p) PROVE TypeOK'
  <2>1. ASSUME OpenDown(p) PROVE Plain
    BY <1>t, <2>1 DEF OpenDown
  <2>2. ASSUME ReleaseDown(p) PROVE Plain
    BY <1>t, <2>2 DEF ReleaseDown
  <2>3. ASSUME ReadDown(p) PROVE Plain
    BY <1>t, <2>3 DEF ReadDown
  <2>4. ASSUME WriteDown(p) PROVE Plain
    BY <1>t, <2>4 DEF WriteDown
  <2>5. ASSUME PollDown(p) PROVE Plain
    BY <1>t, <2>5 DEF PollDown
  <2> QED
    BY <1>p, <1>4, <2>1, <2>2, <2>3, <2>4, <2>5 DEF Acquire
<1>5. ASSUME NEW p \in Procs, OpenStep(p) PROVE TypeOK'
  <2>1. ASSUME OpenAlloc(p) \/ OpenNoMemory(p) \/ OpenSize(p) PROVE TypeOK'
    <3>1. ASSUME OpenAlloc(p) PROVE TypeOK'
      BY <3>1 DEF OpenAlloc, Fresh, TypeOK
    <3>2. ASSUME OpenNoMemory(p) PROVE TypeOK'
      BY <3>2 DEF OpenNoMemory, TypeOK
    <3>3. ASSUME OpenSize(p) PROVE TypeOK'
      BY <3>3 DEF OpenSize, TypeOK
    <3> QED
      BY <2>1, <3>1, <3>2, <3>3
  <2>2. ASSUME OpenReset(p) PROVE TypeOK'
    BY <2>2 DEF OpenReset, TypeOK
  <2>3. ASSUME Release(p) PROVE TypeOK'
    BY <2>3 DEF Release, Fresh, TypeOK
  <2> QED
    BY <1>5, <2>1, <2>2, <2>3 DEF OpenStep
<1>6. ASSUME NEW p \in Procs, ReadStep(p) PROVE TypeOK'
  <2>1. ASSUME ReadCopy(p) PROVE TypeOK'
    <3>1. PICK n \in 0..MaxCount :
            chunk' = [chunk EXCEPT ![p] = [i \in 1..Least(n, Readable) |-> mem[rp + i - 1]]]
      BY <2>1 DEF ReadCopy
    <3>2. /\ buffersize \in 1..MaxSize
          /\ rp \in 0..(buffersize - 1) /\ wp \in 0..(buffersize - 1)
      BY <2>1, InBuffer DEF ReadCopy, Moving
    <3>3. Least(n, Readable) \in Int /\ rp + Least(n, Readable) <= buffersize
      BY <3>2 DEF Least, Readable, end
    <3>4. \A i \in 1..Least(n, Readable) : mem[rp + i - 1] \in Byte \cup {Garbage}
      BY <3>2, <3>3 DEF TypeOK
    <3>5. [i \in 1..Least(n, Readable) |-> mem[rp + i - 1]] \in Seq(Byte \cup {Garbage})
      BY <3>3, <3>4, MakeSeq
    <3> QED
      BY <2>1, <3>1, <3>5 DEF ReadCopy, TypeOK
  <2>2. ASSUME ReadAdvance(p) PROVE TypeOK'
    <3>1. /\ buffersize \in 1..MaxSize
          /\ rp \in 0..(buffersize - 1) /\ wp \in 0..(buffersize - 1)
      BY <2>2, InBuffer DEF ReadAdvance, Moving
    <3>2. Len(chunk[p]) \in Nat /\ Len(chunk[p]) <= Readable
      BY <2>2 DEF IInv, TypeOK, Transfers, ReadAdvance
    <3>3. rp' \in 0..MaxSize
      BY <2>2, <3>1, <3>2 DEF ReadAdvance, Readable, end
    <3> QED
      BY <2>2, <3>3 DEF ReadAdvance, TypeOK
  <2>3. ASSUME ReadEmpty(p) \/ ReadWait(p) \/ ReadCheck(p) \/ ReadAwake(p) \/ ReadFault(p)
        PROVE  TypeOK'
    <3>1. ASSUME ReadEmpty(p) PROVE Plain
      BY <1>t, <3>1 DEF ReadEmpty
    <3>2. ASSUME ReadWait(p) PROVE Plain
      BY <1>t, <3>2 DEF ReadWait
    <3>3. ASSUME ReadCheck(p) PROVE Plain
      BY <1>t, <3>3 DEF ReadCheck
    <3>4. ASSUME ReadAwake(p) PROVE Plain
      BY <1>t, <3>4 DEF ReadAwake
    <3>5. ASSUME ReadFault(p) PROVE Plain
      BY <1>t, <3>5 DEF ReadFault
    <3> QED
      BY <1>p, <2>3, <3>1, <3>2, <3>3, <3>4, <3>5
  <2>4. ASSUME ReadWrap(p) PROVE TypeOK'
    BY <2>4 DEF ReadWrap, TypeOK
  <2>5. ASSUME ReadWake(p) PROVE TypeOK'
    BY <2>5 DEF ReadWake, TypeOK
  <2> QED
    BY <1>6, <2>1, <2>2, <2>3, <2>4, <2>5 DEF ReadStep
<1>7. ASSUME NEW p \in Procs, WriteStep(p) PROVE TypeOK'
  <2>1. ASSUME WriteCopy(p) PROVE TypeOK'
    <3>1. PICK n \in 0..MaxCount : \E s \in [1..Least(n, Writable) -> Byte] :
            chunk' = [chunk EXCEPT ![p] = s] /\ mem' = Stored(s)
      BY <2>1 DEF WriteCopy
    <3>0. PICK s \in [1..Least(n, Writable) -> Byte] :
            chunk' = [chunk EXCEPT ![p] = s] /\ mem' = Stored(s)
      BY <3>1
    <3>2. Least(n, Writable) \in Int
      <4>1. /\ buffersize \in 1..MaxSize
            /\ rp \in 0..(buffersize - 1) /\ wp \in 0..(buffersize - 1)
        BY <2>1, InBuffer DEF WriteCopy, Moving
      <4>2. spacefree \in Int
        BY <4>1, WritableBound
      <4> QED
        BY <4>1, WritableBound DEF Least
    <3>3. s \in Seq(Byte) /\ s \in Seq(Byte \cup {Garbage})
      BY <3>2, MakeSeq, SeqMonotonic
    <3>4. mem' \in [0..(MaxSize - 1) -> Byte \cup {Garbage}]
      <4>1. \A j \in 1..Len(s) : s[j] \in Byte
        BY <3>3, ElementOfSeq
      <4>2. \A i \in 0..(MaxSize - 1) :
              IF i \in wp..(wp + Len(s) - 1) /\ i < alloc
              THEN s[i - wp + 1] \in Byte ELSE mem[i] \in Byte \cup {Garbage}
        BY <3>3, <4>1 DEF TypeOK
      <4> QED
        BY <3>0, <4>2 DEF Stored
    <3> QED
      BY <2>1, <3>0, <3>3, <3>4 DEF WriteCopy, TypeOK
  <2>2. ASSUME WriteAdvance(p) PROVE TypeOK'
    <3>1. /\ buffersize \in 1..MaxSize
          /\ rp \in 0..(buffersize - 1) /\ wp \in 0..(buffersize - 1)
      BY <2>2, InBuffer DEF WriteAdvance, Moving
    <3>2. Len(chunk[p]) \in Nat /\ Len(chunk[p]) <= Writable
      BY <2>2 DEF IInv, TypeOK, Transfers, WriteAdvance
    <3>3. /\ Writable \in Nat
          /\ Writable <= (IF wp >= rp THEN buffersize - wp ELSE rp - wp - 1)
      BY <3>1, WritableBound
    <3>4. wp + Len(chunk[p]) \in 0..MaxSize
      BY <3>1, <3>2, <3>3
    <3> QED
      BY <2>2, <3>4 DEF WriteAdvance, TypeOK
  <2>3. ASSUME WriteFull(p) \/ WritePrepare(p) \/ WriteCheck(p) \/ WriteAwake(p)
        PROVE  TypeOK'
    <3>1. ASSUME WriteFull(p) PROVE Plain
      BY <1>t, <3>1 DEF WriteFull
    <3>2. ASSUME WritePrepare(p) PROVE Plain
      BY <1>t, <3>2 DEF WritePrepare
    <3>3. ASSUME WriteCheck(p) PROVE Plain
      BY <1>t, <3>3 DEF WriteCheck
    <3>4. ASSUME WriteAwake(p) PROVE Plain
      BY <1>t, <3>4 DEF WriteAwake
    <3> QED
      BY <1>p, <2>3, <3>1, <3>2, <3>3, <3>4
  <2>4. ASSUME WriteFault(p) PROVE TypeOK'
    BY <2>4 DEF WriteFault, TypeOK
  <2>5. ASSUME WriteWrap(p) PROVE TypeOK'
    BY <2>5 DEF WriteWrap, TypeOK
  <2>6. ASSUME WriteWake(p) PROVE TypeOK'
    BY <2>6 DEF WriteWake, TypeOK
  <2> QED
    BY <1>7, <2>1, <2>2, <2>3, <2>4, <2>5, <2>6 DEF WriteStep
<1>8. ASSUME NEW p \in Procs, PollStep(p) PROVE TypeOK'
  <2>1. ASSUME PollMask(p) PROVE Plain
    BY <1>t, <2>1 DEF PollMask
  <2>2. ASSUME PollAwake(p) PROVE Plain
    BY <1>t, <2>2 DEF PollAwake
  <2> QED
    BY <1>p, <1>8, <2>1, <2>2 DEF PollStep
<1>9. CASE UNCHANGED vars
  BY <1>9 DEF TypeOK
<1> QED
  BY <1>1, <1>2, <1>3, <1>4, <1>5, <1>6, <1>7, <1>8, <1>9 DEF Next, Run

LEMMA PointerStep == IInv /\ [Next]_vars => Pointers'
<1> SUFFICES ASSUME IInv, pc \in [Procs -> Labels], buffersize \in BufSizes \cup {0}, Pointers, [Next]_vars
             PROVE  Pointers'
  BY DEF IInv, TypeOK
<1> USE PipeAssumption DEF Pointers, Usable, Goto, From, down, up,
        param, buf, ptrs, opens, queue, fds, vars
<1>1. ASSUME SetSize PROVE Pointers'
  BY <1>1 DEF SetSize
<1>2. ASSUME NEW p \in Procs, CallOpen(p) \/ CallFile(p) PROVE Pointers'
  BY <1>2 DEF CallOpen, CallFile
<1>3. ASSUME NEW p \in Procs, InterruptedDown(p) \/ ReadSignal(p) \/ InterruptedSleep(p) PROVE Pointers'
  BY <1>3 DEF InterruptedDown, ReadSignal, InterruptedSleep
<1>4. ASSUME NEW p \in Procs, Acquire(p) PROVE Pointers'
  BY <1>4 DEF Acquire, OpenDown, ReleaseDown, ReadDown, WriteDown, PollDown
<1>5. ASSUME NEW p \in Procs, OpenStep(p) PROVE Pointers'
  <2>1. ASSUME OpenAlloc(p) \/ OpenNoMemory(p) \/ OpenSize(p) PROVE Pointers'
    BY <2>1 DEF OpenAlloc, OpenNoMemory, OpenSize
  <2>2. ASSUME OpenReset(p) PROVE Pointers'
    <3>1. buffersize \in 1..MaxSize
      BY <2>2 DEF OpenReset, IInv, Allocated
    <3>2. buffersize' = buffersize /\ rp' = 0 /\ wp' = 0
      BY <2>2 DEF OpenReset
    <3> QED
      BY <3>1, <3>2
  <2>3. ASSUME Release(p) PROVE Pointers'
    BY <2>3 DEF Release
  <2> QED
    BY <1>5, <2>1, <2>2, <2>3 DEF OpenStep
<1>6. ASSUME NEW p \in Procs, ReadStep(p) PROVE Pointers'
  <2>1. ASSUME ReadAdvance(p) PROVE Pointers'
    <3>1. /\ buffersize \in 1..MaxSize
          /\ rp \in 0..(buffersize - 1) /\ wp \in 0..(buffersize - 1)
      BY <2>1, InBuffer DEF ReadAdvance, Moving
    <3>2. Len(chunk[p]) \in Nat /\ Len(chunk[p]) <= Readable
      BY <2>1 DEF IInv, TypeOK, Transfers, ReadAdvance
    <3>3. rp + Len(chunk[p]) \in 0..buffersize
      BY <3>1, <3>2 DEF Readable, end
    <3> QED
      BY <2>1, <3>1, <3>3 DEF ReadAdvance
  <2>2. ASSUME ReadWrap(p) PROVE Pointers'
    <3>1. /\ buffersize \in 1..MaxSize
          /\ rp \in 0..buffersize /\ wp \in 0..(buffersize - 1)
      BY <2>2, InBuffer DEF ReadWrap, Moving
    <3> QED
      BY <2>2, <3>1 DEF ReadWrap, end
  <2>3. ASSUME ReadEmpty(p) \/ ReadWait(p) \/ ReadCheck(p) \/ ReadAwake(p) PROVE Pointers'
    BY <2>3 DEF ReadEmpty, ReadWait, ReadCheck, ReadAwake
  <2>4. ASSUME ReadCopy(p) \/ ReadFault(p) \/ ReadWake(p) PROVE Pointers'
    BY <2>4 DEF ReadCopy, ReadFault, ReadWake
  <2> QED
    BY <1>6, <2>1, <2>2, <2>3, <2>4 DEF ReadStep
<1>7. ASSUME NEW p \in Procs, WriteStep(p) PROVE Pointers'
  <2>1. ASSUME WriteAdvance(p) PROVE Pointers'
    <3>1. /\ buffersize \in 1..MaxSize
          /\ rp \in 0..(buffersize - 1) /\ wp \in 0..(buffersize - 1)
      BY <2>1, InBuffer DEF WriteAdvance, Moving
    <3>2. Len(chunk[p]) \in Nat /\ Len(chunk[p]) <= Writable
      BY <2>1 DEF IInv, TypeOK, Transfers, WriteAdvance
    <3>3. /\ wp + Len(chunk[p]) \in 0..buffersize
          /\ wp + Len(chunk[p]) = buffersize => 0 < rp
      BY <3>1, <3>2, WritableBound
    <3> QED
      BY <2>1, <3>1, <3>3 DEF WriteAdvance
  <2>2. ASSUME WriteWrap(p) PROVE Pointers'
    <3>1. /\ buffersize \in 1..MaxSize
          /\ rp \in 0..(buffersize - 1) /\ wp \in 0..buffersize
      BY <2>2, InBuffer DEF WriteWrap, Moving
    <3> QED
      BY <2>2, <3>1 DEF WriteWrap, end
  <2>3. ASSUME WriteFull(p) \/ WritePrepare(p) \/ WriteCheck(p) \/ WriteAwake(p) PROVE Pointers'
    BY <2>3 DEF WriteFull, WritePrepare, WriteCheck, WriteAwake
  <2>4. ASSUME WriteCopy(p) \/ WriteFault(p) \/ WriteWake(p) PROVE Pointers'
    BY <2>4 DEF WriteCopy, WriteFault, WriteWake
  <2> QED
    BY <1>7, <2>1, <2>2, <2>3, <2>4 DEF WriteStep
<1>8. ASSUME NEW p \in Procs, PollStep(p) PROVE Pointers'
  BY <1>8 DEF PollStep, PollMask, PollAwake
<1>9. CASE UNCHANGED vars
  BY <1>9
<1> QED
  BY <1>1, <1>2, <1>3, <1>4, <1>5, <1>6, <1>7, <1>8, <1>9 DEF Next, Run

LEMMA TransferStep == IInv /\ [Next]_vars => Transfers'
<1> SUFFICES ASSUME IInv, pc \in [Procs -> Labels], SemHeld,
                    chunk \in [Procs -> Seq(Byte \cup {Garbage})], Transfers, [Next]_vars
             PROVE  Transfers'
  BY DEF IInv, TypeOK
<1> USE PipeAssumption DEF Transfers, SemHeld, Critical, Readable, Writable, spacefree, end, Goto, From, down, up,
        param, buf, ptrs, opens, queue, fds, vars
<1>1. ASSUME SetSize PROVE Transfers'
  BY <1>1 DEF SetSize
<1>2. ASSUME NEW p \in Procs, CallOpen(p) \/ CallFile(p) PROVE Transfers'
  BY <1>2 DEF CallOpen, CallFile
<1>3. ASSUME NEW p \in Procs, InterruptedDown(p) \/ ReadSignal(p) \/ InterruptedSleep(p) PROVE Transfers'
  BY <1>3 DEF InterruptedDown, ReadSignal, InterruptedSleep
<1>4. ASSUME NEW p \in Procs, Acquire(p) PROVE Transfers'
  BY <1>4 DEF Acquire, OpenDown, ReleaseDown, ReadDown, WriteDown, PollDown
<1>5. ASSUME NEW p \in Procs, OpenStep(p) PROVE Transfers'
  BY <1>5 DEF OpenStep, OpenAlloc, OpenNoMemory, OpenSize, OpenReset, Release, LastClose
<1>6. ASSUME NEW p \in Procs, ReadStep(p) PROVE Transfers'
  <2>1. ASSUME ReadCopy(p) PROVE Transfers'
    <3>1. PICK n \in 0..MaxCount :
            chunk' = [chunk EXCEPT ![p] = [i \in 1..Least(n, Readable) |-> mem[rp + i - 1]]]
      BY <2>1 DEF ReadCopy
    <3>2. /\ buffersize \in 1..MaxSize
          /\ rp \in 0..(buffersize - 1) /\ wp \in 0..(buffersize - 1)
      BY <2>1, InBuffer DEF ReadCopy, Moving
    <3>3. Readable \in Nat /\ rp # wp
      BY <2>1, <3>2 DEF ReadCopy
    <3>4. Least(n, Readable) \in Nat /\ Least(n, Readable) <= Readable
      BY <3>3 DEF Least
    <3>5. Len(chunk'[p]) = Least(n, Readable)
      BY <3>1, <3>4
    <3> QED
      BY <2>1, <3>3, <3>4, <3>5 DEF ReadCopy
  <2>2. ASSUME ReadEmpty(p) \/ ReadWait(p) \/ ReadCheck(p) \/ ReadAwake(p) PROVE Transfers'
    BY <2>2 DEF ReadEmpty, ReadWait, ReadCheck, ReadAwake
  <2>3. ASSUME ReadFault(p) \/ ReadAdvance(p) \/ ReadWrap(p) \/ ReadWake(p) PROVE Transfers'
    BY <2>3 DEF ReadFault, ReadAdvance, ReadWrap, ReadWake
  <2> QED
    BY <1>6, <2>1, <2>2, <2>3 DEF ReadStep
<1>7. ASSUME NEW p \in Procs, WriteStep(p) PROVE Transfers'
  <2>1. ASSUME WriteCopy(p) PROVE Transfers'
    <3>1. PICK n \in 0..MaxCount : \E t \in [1..Least(n, Writable) -> Byte] :
            chunk' = [chunk EXCEPT ![p] = t]
      BY <2>1 DEF WriteCopy
    <3>2. PICK t \in [1..Least(n, Writable) -> Byte] : chunk' = [chunk EXCEPT ![p] = t]
      BY <3>1
    <3>3. /\ buffersize \in 1..MaxSize
          /\ rp \in 0..(buffersize - 1) /\ wp \in 0..(buffersize - 1)
      BY <2>1, InBuffer DEF WriteCopy, Moving
    <3>4. Writable \in Nat
      BY <3>3, WritableBound
    <3>5. Least(n, Writable) \in Nat /\ Least(n, Writable) <= Writable
      BY <3>4 DEF Least
    <3>6. Len(chunk'[p]) = Least(n, Writable)
      BY <3>2, <3>5, MakeSeq
    <3> QED
      BY <2>1, <3>5, <3>6 DEF WriteCopy
  <2>2. ASSUME WriteFull(p) \/ WritePrepare(p) \/ WriteCheck(p) \/ WriteAwake(p) PROVE Transfers'
    BY <2>2 DEF WriteFull, WritePrepare, WriteCheck, WriteAwake
  <2>3. ASSUME WriteFault(p) \/ WriteAdvance(p) \/ WriteWrap(p) \/ WriteWake(p) PROVE Transfers'
    BY <2>3 DEF WriteFault, WriteAdvance, WriteWrap, WriteWake
  <2> QED
    BY <1>7, <2>1, <2>2, <2>3 DEF WriteStep
<1>8. ASSUME NEW p \in Procs, PollStep(p) PROVE Transfers'
  BY <1>8 DEF PollStep, PollMask, PollAwake
<1>9. CASE UNCHANGED vars
  BY <1>9
<1> QED
  BY <1>1, <1>2, <1>3, <1>4, <1>5, <1>6, <1>7, <1>8, <1>9 DEF Next, Run

LEMMA Inductive == IInv /\ [Next]_vars => IInv'
BY TypeStep, SemStep, FileStep, CountStep, AllocStep, PointerStep, TransferStep, ReaderStep
   DEF IInv

LEMMA Initially == Init => IInv
<1> SUFFICES ASSUME Init PROVE IInv
  OBVIOUS
<1>1. TypeOK
  BY PipeAssumption DEF Init, TypeOK, Fresh, Labels
<1>2. SemHeld /\ FileUse /\ Pointers /\ Transfers /\ ReadersNotStranded
  BY PipeAssumption DEF Init, SemHeld, Critical, FileUse, Reading, Writing, Openers, Pointers,
     Usable, Transfers, ReadersNotStranded, AsleepForData, From
<1>3. Openers("r") = {} /\ Openers("w") = {}
  BY DEF Init, Openers
<1>4. OpenCounts /\ Allocated
  BY <1>3, UsersFinite DEF Init, OpenCounts, Allocated, From
<1> QED
  BY <1>1, <1>2, <1>4 DEF IInv

\* The invariant is inductive, so it holds in every state of every execution.
THEOREM Always == Spec => []IInv
BY Initially, Inductive, PTL DEF Spec

-----------------------------------------------------------------------------
(* The theorems *)

\* Every variable keeps its type; in particular no pointer passes the largest size.
THEOREM TypeCorrect == Spec => []TypeOK
BY Always, PTL DEF IInv

\* The semaphore is held exactly by the process in a critical section.
THEOREM SemaphoreDiscipline == Spec => []SemHeld
BY Always, PTL DEF IInv

\* A process in a read or a write never finds the buffer freed.
THEOREM BufferStaysAllocated == Spec => []NoUseAfterFree
<1>1. IInv => NoUseAfterFree
  BY DEF IInv, FileUse, Allocated, NoUseAfterFree
<1> QED
  BY <1>1, Always, PTL

\* No reader sleeps on data that nobody will announce.
THEOREM NoLostReaderWakeup == Spec => []ReadersNotStranded
BY Always, PTL DEF IInv

-----------------------------------------------------------------------------
(* Under the rules.                                                           *)

LEMMA SizeStep == CarefulInv /\ [CarefulNext]_vars => SizesAgree'
<1> SUFFICES ASSUME SizesAgree, [CarefulNext]_vars
             PROVE  SizesAgree'
  BY DEF CarefulInv, IInv, TypeOK
<1> USE PipeAssumption DEF SizesAgree, CarefulSetSize, CarefulNext, Goto, From, down, up,
        param, buf, ptrs, opens, queue, fds, vars
<1>1. ASSUME SetSize PROVE SizesAgree'
  BY <1>1 DEF SetSize
<1>2. ASSUME NEW p \in Procs, CallOpen(p) \/ CallFile(p) PROVE SizesAgree'
  BY <1>2 DEF CallOpen, CallFile
<1>3. ASSUME NEW p \in Procs, InterruptedDown(p) \/ ReadSignal(p) \/ InterruptedSleep(p) PROVE SizesAgree'
  BY <1>3 DEF InterruptedDown, ReadSignal, InterruptedSleep
<1>4. ASSUME NEW p \in Procs, Acquire(p) PROVE SizesAgree'
  BY <1>4 DEF Acquire, OpenDown, ReleaseDown, ReadDown, WriteDown, PollDown
<1>5. ASSUME NEW p \in Procs, OpenStep(p) PROVE SizesAgree'
  BY <1>5 DEF OpenStep, OpenAlloc, OpenNoMemory, OpenSize, OpenReset, Release, LastClose
<1>6. ASSUME NEW p \in Procs, ReadStep(p) PROVE SizesAgree'
  BY <1>6 DEF ReadStep, ReadEmpty, ReadWait, ReadCheck, ReadAwake, ReadCopy, ReadFault,
              ReadAdvance, ReadWrap, ReadWake
<1>7. ASSUME NEW p \in Procs, WriteStep(p) PROVE SizesAgree'
  BY <1>7 DEF WriteStep, WriteFull, WritePrepare, WriteCheck, WriteAwake, WriteCopy,
              WriteFault, WriteAdvance, WriteWrap, WriteWake
<1>8. ASSUME NEW p \in Procs, PollStep(p) PROVE SizesAgree'
  BY <1>8 DEF PollStep, PollMask, PollAwake
<1>9. CASE UNCHANGED vars
  BY <1>9
<1> QED
  BY <1>1, <1>2, <1>3, <1>4, <1>5, <1>6, <1>7, <1>8, <1>9 DEF CarefulNext, Next, Run

LEMMA EndStep == CarefulInv /\ [CarefulNext]_vars => EndOfBuffer'
<1> SUFFICES ASSUME pc \in [Procs -> Labels], scull_p_buffer \in BufSizes,
                    SizesAgree, Allocated, EndOfBuffer, [CarefulNext]_vars
             PROVE  EndOfBuffer'
  BY DEF CarefulInv, IInv, TypeOK
<1> USE PipeAssumption DEF SizesAgree, EndOfBuffer, Allocated, end, Goto, From, down, up,
        param, buf, ptrs, opens, queue, fds, vars
<1>1. ASSUME SetSize PROVE EndOfBuffer'
  BY <1>1 DEF SetSize
<1>2. ASSUME NEW p \in Procs, CallOpen(p) \/ CallFile(p) PROVE EndOfBuffer'
  BY <1>2 DEF CallOpen, CallFile
<1>3. ASSUME NEW p \in Procs, InterruptedDown(p) \/ ReadSignal(p) \/ InterruptedSleep(p) PROVE EndOfBuffer'
  BY <1>3 DEF InterruptedDown, ReadSignal, InterruptedSleep
<1>4. ASSUME NEW p \in Procs, Acquire(p) PROVE EndOfBuffer'
  BY <1>4 DEF Acquire, OpenDown, ReleaseDown, ReadDown, WriteDown, PollDown
<1>5. ASSUME NEW p \in Procs, OpenStep(p) PROVE EndOfBuffer'
  BY <1>5 DEF OpenStep, OpenAlloc, OpenNoMemory, OpenSize, OpenReset, Release, LastClose
<1>6. ASSUME NEW p \in Procs, ReadStep(p) PROVE EndOfBuffer'
  BY <1>6 DEF ReadStep, ReadEmpty, ReadWait, ReadCheck, ReadAwake, ReadCopy, ReadFault,
              ReadAdvance, ReadWrap, ReadWake
<1>7. ASSUME NEW p \in Procs, WriteStep(p) PROVE EndOfBuffer'
  BY <1>7 DEF WriteStep, WriteFull, WritePrepare, WriteCheck, WriteAwake, WriteCopy,
              WriteFault, WriteAdvance, WriteWrap, WriteWake
<1>8. ASSUME NEW p \in Procs, PollStep(p) PROVE EndOfBuffer'
  BY <1>8 DEF PollStep, PollMask, PollAwake
<1>9. CASE UNCHANGED vars
  BY <1>9
<1> QED
  BY <1>1, <1>2, <1>3, <1>4, <1>5, <1>6, <1>7, <1>8, <1>9 DEF CarefulNext, Next, Run

LEMMA QuietStep == CarefulInv /\ [CarefulNext]_vars => OpensAreQuiet'
<1> SUFFICES ASSUME pc \in [Procs -> Labels], mode \in [Procs -> Modes \cup {{}}],
                    inq \subseteq Procs, outq \subseteq Procs, SemHeld, OpensAreQuiet, [CarefulNext]_vars
             PROVE  OpensAreQuiet'
  BY DEF CarefulInv, IInv, TypeOK
<1> USE PipeAssumption DEF SemHeld, Critical, OpensAreQuiet, NoneWaitForSpace, AsleepForSpace, CarefulNext, CarefulOpen, Goto, From, down, up,
        param, buf, ptrs, opens, queue, fds, vars
<1>1. ASSUME SetSize PROVE OpensAreQuiet'
  BY <1>1 DEF SetSize
<1>2. ASSUME NEW p \in Procs, CallOpen(p) \/ CallFile(p) PROVE OpensAreQuiet'
  <2>1. ASSUME CallOpen(p) PROVE OpensAreQuiet'
    BY <2>1 DEF CallOpen
  <2>2. ASSUME CallFile(p) PROVE OpensAreQuiet'
    BY <2>2 DEF CallFile
  <2> QED
    BY <1>2, <2>1, <2>2
<1>3. ASSUME NEW p \in Procs, InterruptedDown(p) \/ ReadSignal(p) \/ InterruptedSleep(p) PROVE OpensAreQuiet'
  <2>1. ASSUME InterruptedDown(p) PROVE OpensAreQuiet'
    BY <2>1 DEF InterruptedDown
  <2>2. ASSUME ReadSignal(p) PROVE OpensAreQuiet'
    BY <2>2 DEF ReadSignal
  <2>3. ASSUME InterruptedSleep(p) PROVE OpensAreQuiet'
    BY <2>3 DEF InterruptedSleep
  <2> QED
    BY <1>3, <2>1, <2>2, <2>3
<1>4. ASSUME NEW p \in Procs, Acquire(p) PROVE OpensAreQuiet'
  BY <1>4 DEF Acquire, OpenDown, ReleaseDown, ReadDown, WriteDown, PollDown
<1>5. ASSUME NEW p \in Procs, OpenStep(p) PROVE OpensAreQuiet'
  BY <1>5 DEF OpenStep, OpenAlloc, OpenNoMemory, OpenSize, OpenReset, Release, LastClose
<1>6. ASSUME NEW p \in Procs, ReadStep(p) PROVE OpensAreQuiet'
  BY <1>6 DEF ReadStep, ReadEmpty, ReadWait, ReadCheck, ReadAwake, ReadCopy, ReadFault,
              ReadAdvance, ReadWrap, ReadWake
<1>7. ASSUME NEW p \in Procs, WriteStep(p) PROVE OpensAreQuiet'
  BY <1>7 DEF WriteStep, WriteFull, WritePrepare, WriteCheck, WriteAwake, WriteCopy,
              WriteFault, WriteAdvance, WriteWrap, WriteWake
<1>8. ASSUME NEW p \in Procs, PollStep(p) PROVE OpensAreQuiet'
  BY <1>8 DEF PollStep, PollMask, PollAwake
<1>9. CASE UNCHANGED vars
  BY <1>9
<1> QED
  BY <1>1, <1>2, <1>3, <1>4, <1>5, <1>6, <1>7, <1>8, <1>9 DEF CarefulNext, Next, Run

LEMMA WriterStep == CarefulInv /\ [CarefulNext]_vars => WritersNotStranded'
<1> SUFFICES ASSUME CarefulInv, pc \in [Procs -> Labels], mode \in [Procs -> Modes \cup {{}}],
                    inq \subseteq Procs, outq \subseteq Procs, FileUse, OpensAreQuiet, WritersNotStranded, [CarefulNext]_vars
             PROVE  WritersNotStranded'
  BY DEF CarefulInv, IInv, TypeOK
<1> USE PipeAssumption DEF WritersNotStranded, AsleepForSpace, PollReady, OpensAreQuiet, NoneWaitForSpace, Goto, From, down, up,
        param, buf, ptrs, opens, queue, fds, vars
<1>1. ASSUME SetSize PROVE WritersNotStranded'
  BY <1>1 DEF SetSize, spacefree
<1>2. ASSUME NEW p \in Procs, CallOpen(p) \/ CallFile(p) PROVE WritersNotStranded'
  <2>1. ASSUME CallOpen(p) PROVE WritersNotStranded'
    BY <2>1 DEF CallOpen, spacefree, FileUse
  <2>2. ASSUME CallFile(p) PROVE WritersNotStranded'
    BY <2>2 DEF CallFile, spacefree, FileUse
  <2> QED
    BY <1>2, <2>1, <2>2
<1>3. ASSUME NEW p \in Procs, InterruptedDown(p) \/ ReadSignal(p) \/ InterruptedSleep(p) PROVE WritersNotStranded'
  <2>1. ASSUME InterruptedDown(p) PROVE WritersNotStranded'
    BY <2>1 DEF InterruptedDown, spacefree, FileUse
  <2>2. ASSUME ReadSignal(p) PROVE WritersNotStranded'
    BY <2>2 DEF ReadSignal, spacefree, FileUse
  <2>3. ASSUME InterruptedSleep(p) PROVE WritersNotStranded'
    BY <2>3 DEF InterruptedSleep, spacefree, FileUse
  <2> QED
    BY <1>3, <2>1, <2>2, <2>3
<1>4. ASSUME NEW p \in Procs, Acquire(p) PROVE WritersNotStranded'
  BY <1>4 DEF Acquire, OpenDown, ReleaseDown, ReadDown, WriteDown, PollDown, spacefree
<1>5. ASSUME NEW p \in Procs, OpenStep(p) PROVE WritersNotStranded'
  <2>1. ASSUME OpenAlloc(p) PROVE WritersNotStranded'
    BY <2>1 DEF OpenAlloc, spacefree, LastClose
  <2>2. ASSUME OpenNoMemory(p) PROVE WritersNotStranded'
    BY <2>2 DEF OpenNoMemory, spacefree, LastClose
  <2>3. ASSUME OpenSize(p) PROVE WritersNotStranded'
    BY <2>3 DEF OpenSize, spacefree, LastClose
  <2>4. ASSUME OpenReset(p) PROVE WritersNotStranded'
    BY <2>4 DEF OpenReset, spacefree, LastClose
  <2>5. ASSUME Release(p) PROVE WritersNotStranded'
    BY <2>5 DEF Release, spacefree, LastClose
  <2> QED
    BY <1>5, <2>1, <2>2, <2>3, <2>4, <2>5 DEF OpenStep
<1>6. ASSUME NEW p \in Procs, ReadStep(p) PROVE WritersNotStranded'
  BY <1>6 DEF ReadStep, ReadEmpty, ReadWait, ReadCheck, ReadAwake, ReadCopy, ReadFault,
              ReadAdvance, ReadWrap, ReadWake, spacefree
<1>7. ASSUME NEW p \in Procs, WriteStep(p) PROVE WritersNotStranded'
  <2>1. ASSUME WriteAdvance(p) PROVE WritersNotStranded'
    <3>1. spacefree # 0
      BY <2>1 DEF CarefulInv, IInv, Transfers, WriteAdvance
    <3> QED
      BY <2>1, <3>1 DEF WriteAdvance
  <2>2. ASSUME WriteWrap(p) PROVE WritersNotStranded'
    <3>1. /\ buffersize \in 1..MaxSize
          /\ rp \in 0..(buffersize - 1) /\ wp \in 0..buffersize
          /\ wp = buffersize => 0 < rp
      BY <2>2, InBuffer DEF CarefulInv, WriteWrap, Moving
    <3>2. CASE wp = buffersize
      <4>1. /\ wp' = 0 /\ rp' = rp /\ buffersize' = buffersize
            /\ rp + buffersize - wp = rp /\ rp' + buffersize' - wp' = rp + buffersize
        BY <2>2, <3>1, <3>2 DEF WriteWrap, end
      <4>2. CRem(rp, buffersize) = rp /\ CRem(rp + buffersize, buffersize) = rp
        BY <3>1, RemFacts
      <4>3. spacefree' = spacefree
        BY <3>1, <3>2, <4>1, <4>2 DEF spacefree
      <4> QED
        BY <2>2, <4>3 DEF WriteWrap
    <3>3. CASE wp # buffersize
      <4>1. spacefree' = spacefree
        BY <2>2, <3>3 DEF WriteWrap, end, spacefree
      <4> QED
        BY <2>2, <4>1 DEF WriteWrap
    <3> QED
      BY <3>2, <3>3
  <2>3. ASSUME WriteFull(p) \/ WritePrepare(p) \/ WriteCheck(p) \/ WriteAwake(p)
        PROVE  WritersNotStranded'
    BY <2>3 DEF WriteFull, WritePrepare, WriteCheck, WriteAwake, spacefree
  <2>4. ASSUME WriteCopy(p) \/ WriteFault(p) \/ WriteWake(p)
        PROVE  WritersNotStranded'
    BY <2>4 DEF WriteCopy, WriteFault, WriteWake, spacefree
  <2> QED
    BY <1>7, <2>1, <2>2, <2>3, <2>4 DEF WriteStep
<1>8. ASSUME NEW p \in Procs, PollStep(p) PROVE WritersNotStranded'
  BY <1>8 DEF PollStep, PollMask, PollAwake, spacefree
<1>9. CASE UNCHANGED vars
  BY <1>9 DEF spacefree
<1> QED
  BY <1>1, <1>2, <1>3, <1>4, <1>5, <1>6, <1>7, <1>8, <1>9 DEF CarefulNext, Next, Run

-----------------------------------------------------------------------------
(* What each step does to the unread bytes *)

LEMMA CopiedStep == CarefulInv /\ [CarefulNext]_vars => Copied'
<1> SUFFICES ASSUME CarefulInv, pc \in [Procs -> Labels], SemHeld, Copied,
                    chunk \in [Procs -> Seq(Byte \cup {Garbage})], [CarefulNext]_vars
             PROVE  Copied'
  BY DEF CarefulInv, IInv, TypeOK
<1> USE PipeAssumption DEF SemHeld, Critical, Copied, CarefulNext, Goto, From, down, up,
        param, buf, ptrs, opens, queue, fds, vars
<1>1. ASSUME SetSize PROVE Copied'
  BY <1>1 DEF SetSize
<1>2. ASSUME NEW p \in Procs, CallOpen(p) \/ CallFile(p) PROVE Copied'
  BY <1>2 DEF CallOpen, CallFile
<1>3. ASSUME NEW p \in Procs, InterruptedDown(p) \/ ReadSignal(p) \/ InterruptedSleep(p) PROVE Copied'
  <2>1. ASSUME InterruptedDown(p) PROVE Copied'
    BY <2>1 DEF InterruptedDown
  <2>2. ASSUME ReadSignal(p) PROVE Copied'
    BY <2>2 DEF ReadSignal
  <2>3. ASSUME InterruptedSleep(p) PROVE Copied'
    BY <2>3 DEF InterruptedSleep
  <2> QED
    BY <1>3, <2>1, <2>2, <2>3
<1>4. ASSUME NEW p \in Procs, Acquire(p) PROVE Copied'
  BY <1>4 DEF Acquire, OpenDown, ReleaseDown, ReadDown, WriteDown, PollDown
<1>5. ASSUME NEW p \in Procs, OpenStep(p) PROVE Copied'
  <2>1. UNCHANGED chunk /\ \A q \in Procs : pc'[q] \notin {"r_adv", "w_adv"}
    <3>1. CASE OpenAlloc(p)
      BY <3>1 DEF OpenAlloc
    <3>2. CASE OpenNoMemory(p)
      BY <3>2 DEF OpenNoMemory
    <3>3. CASE OpenSize(p) \/ OpenReset(p)
      BY <3>3 DEF OpenSize, OpenReset
    <3>4. CASE Release(p)
      BY <3>4 DEF Release
    <3> QED
      BY <1>5, <3>1, <3>2, <3>3, <3>4 DEF OpenStep
  <2> QED
    BY <2>1
<1>6. ASSUME NEW p \in Procs, ReadStep(p) PROVE Copied'
  <2>1. ASSUME ReadCopy(p) PROVE Copied'
    <3>1. PICK n \in 0..MaxCount :
            chunk' = [chunk EXCEPT ![p] = [i \in 1..Least(n, Readable) |-> mem[rp + i - 1]]]
      BY <2>1 DEF ReadCopy
    <3>2. /\ buffersize \in 1..MaxSize
          /\ rp \in 0..(buffersize - 1) /\ wp \in 0..(buffersize - 1)
      BY <2>1, InBuffer DEF CarefulInv, ReadCopy, Moving
    <3>3. Least(n, Readable) \in Int
      BY <3>2 DEF Least, Readable, end
    <3>4. /\ chunk'[p] = [i \in 1..Least(n, Readable) |-> mem[rp + i - 1]]
          /\ Len(chunk'[p]) = IF Least(n, Readable) > 0 THEN Least(n, Readable) ELSE 0
      <4>1. chunk'[p] = [i \in 1..Least(n, Readable) |-> mem[rp + i - 1]]
        BY <3>1
      <4>2. chunk'[p] \in [1..Least(n, Readable) -> {mem[i] : i \in Int}]
        BY <3>2, <3>3, <4>1
      <4> QED
        BY <3>3, <4>1, <4>2, MakeSeq
    <3>5. \A i \in 1..Len(chunk'[p]) : chunk'[p][i] = mem[rp + i - 1]
      <4> DEFINE k == Least(n, Readable)
      <4>1. 1..Len(chunk'[p]) = 1..k
        <5> HIDE DEF k
        <5>1. k \in Int /\ Len(chunk'[p]) = IF k > 0 THEN k ELSE 0
          BY <3>3, <3>4 DEF k
        <5> QED
          BY <5>1
      <4>2. chunk'[p] = [i \in 1..k |-> mem[rp + i - 1]]
        BY <3>4
      <4> HIDE DEF k
      <4>3. \A i \in 1..k : chunk'[p][i] = mem[rp + i - 1]
        BY <4>2
      <4> QED
        BY <4>1, <4>3
    <3>6. /\ UNCHANGED <<mem, rp, wp>> /\ pc'[p] = "r_adv"
          /\ \A q \in Procs : q # p => pc'[q] = pc[q] /\ pc[q] \notin Critical
      BY <2>1 DEF ReadCopy
    <3> QED
      BY <3>5, <3>6
  <2>2. ASSUME ReadEmpty(p) \/ ReadWait(p) \/ ReadCheck(p) \/ ReadAwake(p) PROVE Copied'
    BY <2>2 DEF ReadEmpty, ReadWait, ReadCheck, ReadAwake
  <2>3. ASSUME ReadFault(p) \/ ReadAdvance(p) \/ ReadWrap(p) \/ ReadWake(p) PROVE Copied'
    BY <2>3 DEF ReadFault, ReadAdvance, ReadWrap, ReadWake
  <2> QED
    BY <1>6, <2>1, <2>2, <2>3 DEF ReadStep
<1>7. ASSUME NEW p \in Procs, WriteStep(p) PROVE Copied'
  <2>1. ASSUME WriteCopy(p) PROVE Copied'
    <3>1. PICK n \in 0..MaxCount : \E s \in [1..Least(n, Writable) -> Byte] :
            chunk' = [chunk EXCEPT ![p] = s] /\ mem' = Stored(s)
      BY <2>1 DEF WriteCopy
    <3>2. PICK s \in [1..Least(n, Writable) -> Byte] :
            chunk' = [chunk EXCEPT ![p] = s] /\ mem' = Stored(s)
      BY <3>1
    <3>3. /\ buffersize \in 1..MaxSize /\ alloc = buffersize
          /\ rp \in 0..(buffersize - 1) /\ wp \in 0..(buffersize - 1)
      BY <2>1, InBuffer DEF CarefulInv, WriteCopy, Moving, EndOfBuffer, Usable, end
    <3>4. Least(n, Writable) \in Nat /\ wp + Least(n, Writable) <= buffersize
      <4>1. /\ Writable \in Nat
            /\ Writable <= (IF wp >= rp THEN buffersize - wp ELSE rp - wp - 1)
        BY <3>3, WritableBound
      <4> DEFINE k == Writable
      <4> HIDE DEF k
      <4>2. k \in Nat /\ k <= (IF wp >= rp THEN buffersize - wp ELSE rp - wp - 1)
        BY <4>1 DEF k
      <4>3. k <= buffersize - wp
        BY <3>3, <4>2
      <4>4. Least(n, k) \in Nat /\ wp + Least(n, k) <= buffersize
        BY <3>3, <4>2, <4>3 DEF Least
      <4> QED
        BY <4>4 DEF k
    <3>5. Len(s) = Least(n, Writable) /\ chunk'[p] = s
      BY <3>2, <3>4, MakeSeq
    <3>6. \A i \in 1..Len(s) : s[i] \in Byte /\ mem'[wp + i - 1] = s[i]
      BY <3>2, <3>3, <3>4, <3>5 DEF Stored
    <3>7. /\ UNCHANGED <<rp, wp>> /\ pc'[p] = "w_adv"
          /\ \A q \in Procs : q # p => pc'[q] = pc[q] /\ pc[q] \notin Critical
      BY <2>1 DEF WriteCopy
    <3> QED
      BY <3>5, <3>6, <3>7
  <2>2. ASSUME WriteFull(p) \/ WritePrepare(p) \/ WriteCheck(p) \/ WriteAwake(p) PROVE Copied'
    BY <2>2 DEF WriteFull, WritePrepare, WriteCheck, WriteAwake
  <2>3. ASSUME WriteFault(p) PROVE Copied'
    BY <2>3 DEF WriteFault
  <2>4. ASSUME WriteAdvance(p) PROVE Copied'
    BY <2>4 DEF WriteAdvance
  <2>5. ASSUME WriteWrap(p) \/ WriteWake(p) PROVE Copied'
    BY <2>5 DEF WriteWrap, WriteWake
  <2> QED
    BY <1>7, <2>1, <2>2, <2>3, <2>4, <2>5 DEF WriteStep
<1>8. ASSUME NEW p \in Procs, PollStep(p) PROVE Copied'
  BY <1>8 DEF PollStep, PollMask, PollAwake
<1>9. CASE UNCHANGED vars
  BY <1>9
<1> QED
  BY <1>1, <1>2, <1>3, <1>4, <1>5, <1>6, <1>7, <1>8, <1>9 DEF CarefulNext, Next, Run

LEMMA Frame ==
  ASSUME UNCHANGED <<mem, buffersize, rp, wp>>, Usable' <=> Usable
  PROVE  Contents' = Contents
BY DEF Contents, Used, Slot, end

LEMMA UnreadBytes ==
  ASSUME CarefulInv, NEW p \in Procs, pc[p] \in Moving
  PROVE  /\ Contents \in Seq(Byte)
         /\ Used \in Nat /\ Len(Contents) = Used
         /\ \A i \in 1..Used : Contents[i] = mem[Slot(i - 1)]
<1>1. /\ Usable /\ buffersize \in 1..MaxSize
      /\ rp \in 0..buffersize /\ wp \in 0..buffersize
      /\ rp = buffersize => wp < buffersize
  BY InBuffer DEF CarefulInv
<1>2. Used \in Nat
  BY <1>1 DEF Used, end
<1>3. Contents = [i \in 1..Used |-> mem[Slot(i - 1)]]
  BY <1>1 DEF Contents
<1>4. Contents \in [1..Used -> {mem[Slot(i - 1)] : i \in 1..Used}]
  BY <1>3
<1>5. Len(Contents) = Used
  BY <1>2, <1>4, MakeSeq
<1> QED
  BY <1>2, <1>3, <1>5 DEF CarefulInv

LEMMA Reads ==
  ASSUME CarefulInv, NEW p \in Procs, ReadAdvance(p)
  PROVE  /\ Len(chunk[p]) \in 0..Len(Contents)
         /\ chunk[p] = SubSeq(Contents, 1, Len(chunk[p]))
         /\ Contents' = SubSeq(Contents, Len(chunk[p]) + 1, Len(Contents))
<1> DEFINE n == Len(chunk[p])
<1>1. /\ pc[p] = "r_adv" /\ rp' = rp + n /\ wp' = wp /\ mem' = mem
      /\ buffersize' = buffersize /\ alloc' = alloc
      /\ pc' = [pc EXCEPT ![p] = "r_wrap"]
  BY DEF ReadAdvance, From, Goto, buf
<1>2. /\ Usable /\ buffersize \in 1..MaxSize
      /\ rp \in 0..(buffersize - 1) /\ wp \in 0..(buffersize - 1)
  BY <1>1, InBuffer DEF CarefulInv, Moving
<1>3. /\ chunk[p] \in Seq(Byte \cup {Garbage}) /\ n \in Nat
      /\ rp # wp /\ n <= Readable
      /\ \A i \in 1..n : chunk[p][i] = mem[rp + i - 1]
  BY <1>1 DEF CarefulInv, IInv, TypeOK, Transfers, Copied, From
<1>4. /\ Contents \in Seq(Byte) /\ Used \in Nat /\ Len(Contents) = Used
      /\ \A i \in 1..Used : Contents[i] = mem[Slot(i - 1)]
  BY <1>1, UnreadBytes DEF Moving
<1> HIDE DEF n
<1>5. n <= Used /\ Used' = Used - n
  <2>1. CASE wp > rp
    BY <1>1, <1>2, <1>3, <2>1 DEF Used, Readable, end
  <2>2. CASE wp < rp
    BY <1>1, <1>2, <1>3, <2>2 DEF Used, Readable, end
  <2> QED
    BY <1>2, <1>3, <2>1, <2>2
<1>6. \A i \in 1..n : Slot(i - 1) = rp + i - 1
  BY <1>2, <1>3 DEF Slot, Readable, end
<1>7. \A i \in 1..(Used - n) : Slot(i - 1)' = Slot(n + i - 1)
  BY <1>1, <1>2, <1>3, <1>5 DEF Slot, Used, Readable, end
<1>8. Usable'
  BY <1>1, <1>2 DEF Usable, CarefulInv, IInv, TypeOK
<1>9. Contents' = [i \in 1..(Used - n) |-> mem[Slot(n + i - 1)]]
  <2>1. Contents' = [i \in 1..Used' |-> mem'[Slot(i - 1)']]
    BY <1>8 DEF Contents, Slot, end
  <2> QED
    BY <1>1, <1>5, <1>7, <2>1
<1>10. \A i \in 1..Used : Contents[i] \in Byte
  BY <1>4, ElementOfSeq
<1>11. chunk[p] = SubSeq(Contents, 1, n)
  <2>1. /\ SubSeq(Contents, 1, n) \in Seq(Byte \cup {Garbage})
        /\ Len(SubSeq(Contents, 1, n)) = n
        /\ \A i \in 1..n : SubSeq(Contents, 1, n)[i] = Contents[i]
    <3>1. \A i \in 1..n : Contents[i] \in Byte \cup {Garbage}
      BY <1>3, <1>4, <1>5, <1>10
    <3>2. /\ SubSeq(Contents, 1, n) \in Seq(Byte \cup {Garbage})
          /\ Len(SubSeq(Contents, 1, n)) = IF 1 <= n THEN n - 1 + 1 ELSE 0
          /\ \A i \in 1..(n - 1 + 1) : SubSeq(Contents, 1, n)[i] = Contents[1 + i - 1]
      BY <1>3, <3>1, SubSeqProperties
    <3> QED
      BY <1>3, <3>2
  <2>2. \A i \in 1..n : Contents[i] = chunk[p][i]
    <3> SUFFICES ASSUME NEW i \in 1..n PROVE Contents[i] = chunk[p][i]
      OBVIOUS
    <3>1. i \in 1..Used
      BY <1>3, <1>4, <1>5
    <3>2. Contents[i] = mem[Slot(i - 1)] /\ Slot(i - 1) = rp + i - 1
      BY <1>4, <1>6, <3>1
    <3> QED
      BY <1>3, <3>2
  <2>3. Len(chunk[p]) = n
    BY DEF n
  <2>4. \A i \in 1..Len(chunk[p]) : chunk[p][i] = SubSeq(Contents, 1, n)[i]
    BY <2>1, <2>2, <2>3
  <2>5. Len(chunk[p]) = Len(SubSeq(Contents, 1, n))
    BY <2>1, <2>3
  <2> QED
    BY <1>3, <2>1, <2>4, <2>5, SeqEqual
<1>12. Contents' = SubSeq(Contents, n + 1, Len(Contents))
  <2>1. /\ SubSeq(Contents, n + 1, Used) \in Seq(Byte)
        /\ Len(SubSeq(Contents, n + 1, Used)) = Used - n
        /\ \A i \in 1..(Used - n) : SubSeq(Contents, n + 1, Used)[i] = Contents[n + i]
    <3>1. \A i \in (n + 1)..Used : Contents[i] \in Byte
      BY <1>3, <1>4, <1>5, <1>10
    <3>2. n + 1 \in Int /\ Used \in Int
      BY <1>3, <1>4
    <3>3. /\ SubSeq(Contents, n + 1, Used) \in Seq(Byte)
          /\ Len(SubSeq(Contents, n + 1, Used)) =
               IF n + 1 <= Used THEN Used - (n + 1) + 1 ELSE 0
          /\ \A i \in 1..(Used - (n + 1) + 1) :
               SubSeq(Contents, n + 1, Used)[i] = Contents[(n + 1) + i - 1]
      BY <3>1, <3>2, SubSeqProperties
    <3> QED
      BY <1>3, <1>4, <1>5, <3>3
  <2>2. /\ Used - n \in Nat
        /\ \A i \in 1..(Used - n) : Contents'[i] = Contents[n + i]
    <3>1. Used - n \in Nat
      BY <1>3, <1>4, <1>5
    <3>2. ASSUME NEW i \in 1..(Used - n) PROVE Contents'[i] = Contents[n + i]
      <4>1. n + i \in 1..Used
        BY <1>3, <1>4, <1>5
      <4>2. Contents'[i] = mem[Slot(n + i - 1)]
        BY <1>9
      <4>3. Contents[n + i] = mem[Slot(n + i - 1)]
        <5> DEFINE j == n + i
        <5> HIDE DEF j
        <5>1. j \in 1..Used
          BY <4>1 DEF j
        <5>2. Contents[j] = mem[Slot(j - 1)]
          BY <1>4, <5>1
        <5>3. j - 1 = n + i - 1 /\ j = n + i
          BY <1>3 DEF j
        <5> QED
          BY <5>2, <5>3
      <4> QED
        BY <4>2, <4>3
    <3> QED
      BY <3>1, <3>2
  <2>3. Contents' \in [1..(Used - n) -> Byte]
    <3>1. \A i \in 1..(Used - n) : n + i \in 1..Used
      BY <1>3, <1>4, <1>5
    <3>2. ASSUME NEW i \in 1..(Used - n) PROVE mem[Slot(n + i - 1)] \in Byte
      <4>1. Contents'[i] = mem[Slot(n + i - 1)]
        BY <1>9
      <4>2. Contents'[i] = Contents[n + i] /\ n + i \in 1..Used
        BY <2>2, <3>1
      <4> QED
        BY <1>10, <4>1, <4>2
    <3> QED
      BY <1>9, <3>2
  <2>4. Contents' \in Seq(Byte) /\ Len(Contents') = Used - n
    BY <2>2, <2>3, MakeSeq
  <2>5. \A i \in 1..Len(Contents') : Contents'[i] = SubSeq(Contents, n + 1, Used)[i]
    BY <2>1, <2>2, <2>4
  <2>6. Len(Contents') = Len(SubSeq(Contents, n + 1, Used))
    BY <2>1, <2>4
  <2> QED
    BY <1>4, <2>1, <2>4, <2>5, <2>6, SeqEqual
<1> QED
  BY <1>3, <1>4, <1>5, <1>11, <1>12 DEF n

LEMMA ReadWraps ==
  ASSUME CarefulInv, NEW p \in Procs, ReadWrap(p)
  PROVE  Contents' = Contents
<1>1. /\ pc[p] = "r_wrap" /\ wp' = wp /\ mem' = mem
      /\ rp' = IF rp = buffersize THEN 0 ELSE rp
      /\ buffersize' = buffersize /\ alloc' = alloc
      /\ pc' = [pc EXCEPT ![p] = "r_wake"]
  BY DEF ReadWrap, From, Goto, buf, end
<1>2. /\ Usable /\ buffersize \in 1..MaxSize
      /\ rp \in 0..buffersize /\ wp \in 0..(buffersize - 1)
  BY <1>1, InBuffer DEF CarefulInv, Moving
<1>3. Usable'
  BY <1>1, <1>2 DEF Usable, CarefulInv, IInv, TypeOK
<1>4. CASE rp # buffersize
  BY <1>1, <1>2, <1>3, <1>4, Frame
<1>5. CASE rp = buffersize
  <2>1. Used' = Used
    BY <1>1, <1>2, <1>5 DEF Used, end
  <2>2. \A i \in 1..Used : Slot(i - 1)' = Slot(i - 1)
    BY <1>1, <1>2, <1>5 DEF Used, Slot, end
  <2>3. Contents' = [i \in 1..Used' |-> mem'[Slot(i - 1)']]
    BY <1>3 DEF Contents, Slot, end
  <2> QED
    BY <1>1, <1>2, <2>1, <2>2, <2>3 DEF Contents
<1> QED
  BY <1>4, <1>5

LEMMA WriteWraps ==
  ASSUME CarefulInv, NEW p \in Procs, WriteWrap(p)
  PROVE  Contents' = Contents
<1>1. /\ pc[p] = "w_wrap" /\ rp' = rp /\ mem' = mem
      /\ wp' = IF wp = buffersize THEN 0 ELSE wp
      /\ buffersize' = buffersize /\ alloc' = alloc
      /\ pc' = [pc EXCEPT ![p] = "w_wake"]
  BY DEF WriteWrap, From, Goto, buf, end
<1>2. /\ Usable /\ buffersize \in 1..MaxSize
      /\ rp \in 0..(buffersize - 1) /\ wp \in 0..buffersize
      /\ wp = buffersize => 0 < rp
  BY <1>1, InBuffer DEF CarefulInv, Moving
<1>3. Usable'
  BY <1>1, <1>2 DEF Usable, CarefulInv, IInv, TypeOK
<1>4. CASE wp # buffersize
  BY <1>1, <1>2, <1>3, <1>4, Frame
<1>5. CASE wp = buffersize
  <2>1. Used' = Used
    BY <1>1, <1>2, <1>5 DEF Used, end
  <2>2. \A i \in 1..Used : Slot(i - 1)' = Slot(i - 1)
    BY <1>1, <1>2, <1>5 DEF Used, Slot, end
  <2>3. Contents' = [i \in 1..Used' |-> mem'[Slot(i - 1)']]
    BY <1>3 DEF Contents, Slot, end
  <2> QED
    BY <1>1, <1>2, <2>1, <2>2, <2>3 DEF Contents
<1> QED
  BY <1>4, <1>5

LEMMA WriteCopies ==
  ASSUME CarefulInv, NEW p \in Procs, WriteCopy(p)
  PROVE  Contents' = Contents
<1>1. PICK n \in 0..MaxCount : \E s \in [1..Least(n, Writable) -> Byte] : mem' = Stored(s)
  BY DEF WriteCopy
<1>2. PICK s \in [1..Least(n, Writable) -> Byte] : mem' = Stored(s)
  BY <1>1
<1>3. /\ pc[p] = "w_crit" /\ rp' = rp /\ wp' = wp
      /\ buffersize' = buffersize /\ alloc' = alloc
      /\ pc' = [pc EXCEPT ![p] = "w_adv"]
  BY DEF WriteCopy, From, Goto, ptrs
<1>4. /\ Usable /\ buffersize \in 1..MaxSize
      /\ rp \in 0..(buffersize - 1) /\ wp \in 0..(buffersize - 1)
  BY <1>3, InBuffer DEF CarefulInv, Moving
<1>5. Usable'
  BY <1>3, <1>4 DEF Usable, CarefulInv, IInv, TypeOK
<1>6. /\ Least(n, Writable) \in Nat
      /\ Least(n, Writable) <= (IF wp >= rp THEN buffersize - wp ELSE rp - wp - 1)
  <2>1. /\ Writable \in Nat
        /\ Writable <= (IF wp >= rp THEN buffersize - wp ELSE rp - wp - 1)
    BY <1>4, WritableBound
  <2>2. Least(n, Writable) \in Nat /\ Least(n, Writable) <= Writable
    BY <2>1 DEF Least
  <2> QED
    BY <1>4, <2>1, <2>2
<1>7. Len(s) = Least(n, Writable)
  BY <1>6, MakeSeq
<1>8. \A i \in 1..Used : /\ Slot(i - 1) \in 0..(MaxSize - 1)
                         /\ Slot(i - 1) \notin wp..(wp + Len(s) - 1)
  <2> DEFINE l == Len(s)
  <2>1. l \in Nat /\ l <= (IF wp >= rp THEN buffersize - wp ELSE rp - wp - 1)
    BY <1>6, <1>7
  <2> HIDE DEF l
  <2>2. CASE wp >= rp
    BY <1>4, <2>1, <2>2, PipeAssumption DEF Slot, Used, end
  <2>3. CASE wp < rp
    <3>1. l <= rp - wp - 1
      BY <1>4, <2>1, <2>3
    <3>2. Used = wp - rp + buffersize
      BY <1>4, <2>3 DEF Used, end
    <3>3. ASSUME NEW i \in 1..Used
          PROVE  Slot(i - 1) \in 0..(MaxSize - 1) /\ Slot(i - 1) \notin wp..(wp + l - 1)
      <4>1. CASE rp + (i - 1) < buffersize
        BY <1>4, <2>1, <2>3, <3>1, <3>2, <4>1, PipeAssumption DEF Slot, end
      <4>2. CASE rp + (i - 1) >= buffersize
        BY <1>4, <2>1, <2>3, <3>1, <3>2, <4>2, PipeAssumption DEF Slot, end
      <4> QED
        BY <1>4, <3>2, <4>1, <4>2
    <3> QED
      BY <3>3 DEF l
  <2> QED
    BY <1>4, <2>2, <2>3 DEF l
<1>9. \A i \in 1..Used : mem'[Slot(i - 1)] = mem[Slot(i - 1)]
  BY <1>2, <1>8 DEF Stored
<1>10. Used' = Used /\ \A i \in 1..Used : Slot(i - 1)' = Slot(i - 1)
  BY <1>3 DEF Used, Slot, end
<1>11. Contents' = [i \in 1..Used' |-> mem'[Slot(i - 1)']]
  BY <1>5 DEF Contents, Slot, end
<1> QED
  BY <1>4, <1>9, <1>10, <1>11 DEF Contents

LEMMA Writes ==
  ASSUME CarefulInv, NEW p \in Procs, WriteAdvance(p)
  PROVE  /\ Contents' \in Seq(Byte)
         /\ Len(Contents) <= Len(Contents') /\ Len(Contents') < MaxSize
         /\ Contents = SubSeq(Contents', 1, Len(Contents))
<1> DEFINE n == Len(chunk[p])
<1>1. /\ pc[p] = "w_adv" /\ wp' = wp + n /\ rp' = rp /\ mem' = mem
      /\ buffersize' = buffersize /\ alloc' = alloc
      /\ pc' = [pc EXCEPT ![p] = "w_wrap"]
  BY DEF WriteAdvance, From, Goto, buf
<1>2. /\ Usable /\ buffersize \in 1..MaxSize
      /\ rp \in 0..(buffersize - 1) /\ wp \in 0..(buffersize - 1)
  BY <1>1, InBuffer DEF CarefulInv, Moving
<1>3. /\ n \in Nat /\ n <= Writable
      /\ \A i \in 1..n : mem[wp + i - 1] \in Byte
  <2>1. n \in Nat /\ n <= Writable
    BY <1>1 DEF CarefulInv, IInv, TypeOK, Transfers, From
  <2>2. \A i \in 1..n : chunk[p][i] \in Byte /\ mem[wp + i - 1] = chunk[p][i]
    BY <1>1 DEF CarefulInv, Copied, From
  <2> QED
    BY <2>1, <2>2
<1> HIDE DEF n
<1>4. /\ Contents \in Seq(Byte) /\ Used \in Nat /\ Len(Contents) = Used
      /\ \A i \in 1..Used : Contents[i] = mem[Slot(i - 1)]
  BY <1>1, UnreadBytes DEF Moving
<1>5. /\ n <= (IF wp >= rp THEN buffersize - 1 - (wp - rp) ELSE rp - wp - 1)
      /\ n <= (IF wp >= rp THEN buffersize - wp ELSE rp - wp - 1)
  BY <1>2, <1>3, WritableBound
<1>6. Used' = Used + n /\ Used' < MaxSize
  <2>1. CASE wp >= rp
    BY <1>1, <1>2, <1>3, <1>5, <2>1, PipeAssumption DEF Used, end
  <2>2. CASE wp < rp
    BY <1>1, <1>2, <1>3, <1>5, <2>2, PipeAssumption DEF Used, end
  <2> QED
    BY <1>2, <2>1, <2>2
<1>7. \A i \in 1..Used : Slot(i - 1)' = Slot(i - 1)
  BY <1>1 DEF Slot, end
<1>8. \A i \in (Used + 1)..(Used + n) :
        Slot(i - 1)' = wp + (i - Used) - 1 /\ i - Used \in 1..n
  <2> SUFFICES ASSUME NEW i \in (Used + 1)..(Used + n)
               PROVE  Slot(i - 1)' = wp + (i - Used) - 1 /\ i - Used \in 1..n
    OBVIOUS
  <2>1. i - Used \in 1..n /\ Slot(i - 1)' = Slot(i - 1)
    BY <1>1, <1>3, <1>4 DEF Slot, end
  <2>2. CASE wp >= rp
    <3>1. Used = wp - rp
      BY <1>2, <2>2 DEF Used
    <3> QED
      BY <1>2, <1>3, <1>5, <2>1, <2>2, <3>1 DEF Slot, end
  <2>3. CASE wp < rp
    <3>1. Used = wp - rp + buffersize
      BY <1>2, <2>3 DEF Used, end
    <3> QED
      BY <1>2, <1>3, <1>5, <2>1, <2>3, <3>1 DEF Slot, end
  <2> QED
    BY <1>2, <2>2, <2>3
<1>9. Usable'
  BY <1>1, <1>2 DEF Usable, CarefulInv, IInv, TypeOK
<1>10. Contents' = [i \in 1..(Used + n) |-> mem[Slot(i - 1)']]
  <2>1. Contents' = [i \in 1..Used' |-> mem'[Slot(i - 1)']]
    BY <1>9 DEF Contents, Slot, end
  <2> QED
    BY <1>1, <1>6, <2>1
<1>11. \A i \in 1..Used : Contents[i] \in Byte
  BY <1>4, ElementOfSeq
<1>12. \A i \in 1..(Used + n) : mem[Slot(i - 1)'] \in Byte
  <2> SUFFICES ASSUME NEW i \in 1..(Used + n) PROVE mem[Slot(i - 1)'] \in Byte
    OBVIOUS
  <2>1. CASE i <= Used
    <3>1. i \in 1..Used
      BY <1>4, <2>1
    <3>2. mem[Slot(i - 1)'] = Contents[i]
      BY <1>4, <1>7, <3>1
    <3> QED
      BY <1>11, <3>1, <3>2
  <2>2. CASE i > Used
    <3>1. i \in (Used + 1)..(Used + n)
      BY <1>3, <1>4, <2>2
    <3> QED
      BY <1>3, <1>8, <3>1
  <2> QED
    BY <1>3, <1>4, <2>1, <2>2
<1>13. Contents' \in Seq(Byte) /\ Len(Contents') = Used + n
  <2>1. Contents' \in [1..(Used + n) -> Byte] /\ Used + n \in Nat
    BY <1>3, <1>4, <1>10, <1>12
  <2> QED
    BY <2>1, MakeSeq
<1>14. \A i \in 1..Used : Contents'[i] = Contents[i]
  BY <1>3, <1>4, <1>7, <1>10
<1>15. Contents = SubSeq(Contents', 1, Used)
  <2>1. \A i \in 1..Used : Contents'[i] \in Byte
    BY <1>11, <1>14
  <2>2. /\ SubSeq(Contents', 1, Used) \in Seq(Byte)
        /\ Len(SubSeq(Contents', 1, Used)) = IF 1 <= Used THEN Used - 1 + 1 ELSE 0
        /\ \A i \in 1..(Used - 1 + 1) : SubSeq(Contents', 1, Used)[i] = Contents'[1 + i - 1]
    BY <1>4, <2>1, SubSeqProperties
  <2>3. Len(SubSeq(Contents', 1, Used)) = Len(Contents)
    BY <1>4, <2>2
  <2>4. \A i \in 1..Len(Contents) : Contents[i] = SubSeq(Contents', 1, Used)[i]
    BY <1>4, <1>14, <2>2
  <2> QED
    BY <1>4, <2>2, <2>3, <2>4, SeqEqual
<1> QED
  BY <1>3, <1>4, <1>6, <1>13, <1>15


-----------------------------------------------------------------------------
(* Every step of the careful pipe is a step of the queue, or none *)

LEMMA FifoStep == CarefulInv /\ [CarefulNext]_vars => [PF!Next]_(PF!fifoVars)
<1> SUFFICES ASSUME CarefulInv, pc \in [Procs -> Labels], SemHeld,
                    chunk \in [Procs -> Seq(Byte \cup {Garbage})], [CarefulNext]_vars
             PROVE  [PF!Next]_(PF!fifoVars)
  BY DEF CarefulInv, IInv, TypeOK
<1> DEFINE Same == Contents' = Contents /\ Delivered' = Delivered
<1>0. Same => [PF!Next]_(PF!fifoVars)
  BY DEF PF!fifoVars
<1> USE PipeAssumption DEF CarefulNext, Goto, From, down, up,
        param, buf, ptrs, opens, queue, fds, vars
<1>1. ASSUME SetSize PROVE Same
  <2>1. Usable' <=> Usable
    BY <1>1 DEF SetSize, Usable
  <2> QED
    BY <1>1, <2>1, Frame DEF SetSize, Delivered
<1>2. ASSUME NEW p \in Procs, CallOpen(p) \/ CallFile(p) PROVE Same
  <2>1. Usable' <=> Usable
    BY <1>2 DEF CallOpen, CallFile, Usable
  <2>2. Delivered' = Delivered
    BY <1>2 DEF CallOpen, CallFile, Delivered
  <2> QED
    BY <1>2, <2>1, <2>2, Frame DEF CallOpen, CallFile
<1>3. ASSUME NEW p \in Procs, InterruptedDown(p) \/ ReadSignal(p) \/ InterruptedSleep(p) PROVE Same
  <2>1. Usable' <=> Usable
    BY <1>3 DEF InterruptedDown, ReadSignal, InterruptedSleep, Usable
  <2>2. Delivered' = Delivered
    BY <1>3 DEF InterruptedDown, ReadSignal, InterruptedSleep, Delivered
  <2> QED
    BY <1>3, <2>1, <2>2, Frame DEF InterruptedDown, ReadSignal, InterruptedSleep
<1>4. ASSUME NEW p \in Procs, Acquire(p) PROVE Same
  <2>1. Usable' <=> Usable
    BY <1>4 DEF Acquire, OpenDown, ReleaseDown, ReadDown, WriteDown, PollDown, Usable
  <2>2. Delivered' = Delivered
    BY <1>4 DEF Acquire, OpenDown, ReleaseDown, ReadDown, WriteDown, PollDown, Delivered
  <2> QED
    BY <1>4, <2>1, <2>2, Frame DEF Acquire, OpenDown, ReleaseDown, ReadDown, WriteDown, PollDown
<1>5. ASSUME NEW p \in Procs, OpenStep(p) PROVE Same \/ PF!Clear
  <2>1. Delivered' = Delivered
    <3>1. CASE OpenAlloc(p) \/ OpenNoMemory(p) \/ OpenSize(p)
      BY <3>1 DEF OpenAlloc, OpenNoMemory, OpenSize, Delivered
    <3>2. CASE OpenReset(p) \/ Release(p)
      BY <3>2 DEF OpenReset, Release, Delivered
    <3> QED
      BY <1>5, <3>1, <3>2 DEF OpenStep
  <2>2. CASE OpenAlloc(p) \/ OpenSize(p)
    <3>1. ~Usable'
      BY <2>2 DEF OpenAlloc, OpenSize, Usable
    <3>2. Contents' = <<>>
      BY <3>1 DEF Contents
    <3> QED
      BY <2>1, <3>2 DEF PF!Clear
  <2>3. CASE OpenNoMemory(p)
    <3>1. ~Usable /\ ~Usable'
      BY <2>3 DEF OpenNoMemory, Usable
    <3>2. Contents = <<>> /\ Contents' = <<>>
      BY <3>1 DEF Contents
    <3> QED
      BY <2>1, <3>2
  <2>4. CASE OpenReset(p)
    <3>1. rp' = 0 /\ wp' = 0
      BY <2>4 DEF OpenReset
    <3>2. Used' = 0
      BY <3>1 DEF Used
    <3>3. Contents' = IF Usable' THEN [i \in 1..Used' |-> mem'[Slot(i - 1)']] ELSE <<>>
      BY DEF Contents, Slot, end
    <3>4. Contents' = <<>>
      <4>1. CASE Usable'
        <5>1. Contents' = [i \in 1..0 |-> mem'[Slot(i - 1)']]
          BY <3>2, <3>3, <4>1
        <5> QED
          BY <5>1
      <4>2. CASE ~Usable'
        BY <3>3, <4>2
      <4> QED
        BY <4>1, <4>2
    <3> QED
      BY <2>1, <3>4 DEF PF!Clear
  <2>5. CASE Release(p)
    <3>1. CASE LastClose
      <4>1. ~Usable'
        BY <2>5, <3>1 DEF Release, Usable
      <4>2. Contents' = <<>>
        BY <4>1 DEF Contents
      <4> QED
        BY <2>1, <4>2 DEF PF!Clear
    <3>2. CASE ~LastClose
      <4>1. UNCHANGED <<alloc, mem, buffersize, rp, wp>> /\ (Usable' <=> Usable)
        BY <2>5, <3>2 DEF Release, Usable
      <4> QED
        BY <2>1, <4>1, Frame
    <3> QED
      BY <3>1, <3>2
  <2> QED
    BY <1>5, <2>2, <2>3, <2>4, <2>5 DEF OpenStep
<1>6. ASSUME NEW p \in Procs, ReadStep(p) PROVE Same \/ PF!Get(p) \/ PF!Return(p)
  <2>1. CASE ReadAdvance(p)
    <3>1. Delivered' = [Delivered EXCEPT ![p] = chunk[p]]
      BY <2>1 DEF ReadAdvance, Delivered
    <3> QED
      BY <2>1, <3>1, Reads DEF PF!Get
  <2>2. CASE ReadWrap(p)
    <3>1. Delivered' = Delivered
      BY <2>2 DEF ReadWrap, Delivered
    <3> QED
      BY <2>2, <3>1, ReadWraps
  <2>3. CASE ReadWake(p)
    <3>1. Usable' <=> Usable
      BY <2>3 DEF ReadWake, Usable
    <3>2. Contents' = Contents
      BY <2>3, <3>1, Frame DEF ReadWake
    <3>3. Delivered' = [Delivered EXCEPT ![p] = <<>>]
      BY <2>3 DEF ReadWake, Delivered
    <3> QED
      BY <3>2, <3>3 DEF PF!Return
  <2>4. CASE ReadEmpty(p) \/ ReadWait(p) \/ ReadCheck(p) \/ ReadAwake(p)
    <3>1. Usable' <=> Usable
      BY <2>4 DEF ReadEmpty, ReadWait, ReadCheck, ReadAwake, Usable
    <3>2. Delivered' = Delivered
      BY <2>4 DEF ReadEmpty, ReadWait, ReadCheck, ReadAwake, Delivered
    <3> QED
      BY <2>4, <3>1, <3>2, Frame DEF ReadEmpty, ReadWait, ReadCheck, ReadAwake
  <2>5. CASE ReadCopy(p)
    <3>1. /\ UNCHANGED <<mem, buffersize, rp, wp>> /\ (Usable' <=> Usable)
      BY <2>5 DEF ReadCopy, Usable
    <3>2. pc[p] = "r_crit" /\ \A q \in Procs : q # p => chunk'[q] = chunk[q]
      BY <2>5 DEF ReadCopy
    <3>3. Delivered' = Delivered
      BY <2>5, <3>2 DEF ReadCopy, Delivered
    <3> QED
      BY <3>1, <3>3, Frame
  <2>6. CASE ReadFault(p)
    <3>1. Usable' <=> Usable
      BY <2>6 DEF ReadFault, Usable
    <3>2. Delivered' = Delivered
      BY <2>6 DEF ReadFault, Delivered
    <3> QED
      BY <2>6, <3>1, <3>2, Frame DEF ReadFault
  <2> QED
    BY <1>6, <2>1, <2>2, <2>3, <2>4, <2>5, <2>6 DEF ReadStep
<1>7. ASSUME NEW p \in Procs, WriteStep(p) PROVE Same \/ PF!Put
  <2>1. CASE WriteAdvance(p)
    <3>1. Delivered' = Delivered
      BY <2>1 DEF WriteAdvance, Delivered
    <3> QED
      BY <2>1, <3>1, Writes DEF PF!Put
  <2>2. CASE WriteWrap(p)
    <3>1. Delivered' = Delivered
      BY <2>2 DEF WriteWrap, Delivered
    <3> QED
      BY <2>2, <3>1, WriteWraps
  <2>3. CASE WriteCopy(p)
    <3>1. pc[p] = "w_crit" /\ \A q \in Procs : q # p => chunk'[q] = chunk[q]
      BY <2>3 DEF WriteCopy
    <3>2. Delivered' = Delivered
      BY <2>3, <3>1 DEF WriteCopy, Delivered
    <3> QED
      BY <2>3, <3>2, WriteCopies
  <2>4. CASE WriteFull(p) \/ WritePrepare(p) \/ WriteCheck(p) \/ WriteAwake(p)
    <3>1. Usable' <=> Usable
      BY <2>4 DEF WriteFull, WritePrepare, WriteCheck, WriteAwake, Usable
    <3>2. Delivered' = Delivered
      BY <2>4 DEF WriteFull, WritePrepare, WriteCheck, WriteAwake, Delivered
    <3> QED
      BY <2>4, <3>1, <3>2, Frame DEF WriteFull, WritePrepare, WriteCheck, WriteAwake
  <2>5. CASE WriteFault(p) \/ WriteWake(p)
    <3>1. Usable' <=> Usable
      BY <2>5 DEF WriteFault, WriteWake, Usable
    <3>2. Delivered' = Delivered
      BY <2>5 DEF WriteFault, WriteWake, Delivered
    <3> QED
      BY <2>5, <3>1, <3>2, Frame DEF WriteFault, WriteWake
  <2> QED
    BY <1>7, <2>1, <2>2, <2>3, <2>4, <2>5 DEF WriteStep
<1>8. ASSUME NEW p \in Procs, PollStep(p) PROVE Same
  <2>1. Usable' <=> Usable
    BY <1>8 DEF PollStep, PollMask, PollAwake, Usable
  <2>2. Delivered' = Delivered
    BY <1>8 DEF PollStep, PollMask, PollAwake, Delivered
  <2> QED
    BY <1>8, <2>1, <2>2, Frame DEF PollStep, PollMask, PollAwake
<1>9. CASE UNCHANGED vars
  <2>1. Usable' <=> Usable
    BY <1>9 DEF Usable
  <2> QED
    BY <1>0, <1>9, <2>1, Frame DEF Delivered
<1> HIDE DEF Same
<1> QED
  BY <1>0, <1>1, <1>2, <1>3, <1>4, <1>5, <1>6, <1>7, <1>8, <1>9
     DEF CarefulNext, Next, Run, PF!Next

LEMMA ContentsStep == CarefulInv /\ [CarefulNext]_vars => Contents' \in Seq(Byte)
<1> SUFFICES ASSUME Contents \in Seq(Byte), [PF!Next]_(PF!fifoVars)
             PROVE  Contents' \in Seq(Byte)
  BY FifoStep DEF CarefulInv
<1>1. CASE PF!Put \/ PF!Clear \/ UNCHANGED PF!fifoVars
  <2>1. CASE PF!Put
    BY <2>1, Zenon DEF PF!Put
  <2>2. CASE PF!Clear
    BY <2>2 DEF PF!Clear
  <2>3. CASE UNCHANGED PF!fifoVars
    BY <2>3 DEF PF!fifoVars
  <2> QED
    BY <1>1, <2>1, <2>2, <2>3
<1>2. ASSUME NEW p \in Procs, PF!Get(p) PROVE Contents' \in Seq(Byte)
  <2>1. PICK n \in 0..Len(Contents) : Contents' = SubSeq(Contents, n + 1, Len(Contents))
    BY <1>2 DEF PF!Get
  <2>2. Len(Contents) \in Nat
    OBVIOUS
  <2>3. n + 1 \in Int /\ Len(Contents) \in Int
        /\ \A i \in (n + 1)..Len(Contents) : Contents[i] \in Byte
    BY <2>1, <2>2, ElementOfSeq
  <2> QED
    BY <2>1, <2>3, SubSeqProperties
<1>3. ASSUME NEW p \in Procs, PF!Return(p) PROVE Contents' \in Seq(Byte)
  BY <1>3 DEF PF!Return
<1> QED
  BY <1>1, <1>2, <1>3 DEF PF!Next

LEMMA CarefulInductive == CarefulInv /\ [CarefulNext]_vars => CarefulInv'
<1> SUFFICES ASSUME CarefulInv, [CarefulNext]_vars PROVE CarefulInv'
  OBVIOUS
<1>1. IInv /\ [Next]_vars
  BY DEF CarefulInv, CarefulNext
<1>2. IInv'
  BY <1>1, Inductive
<1> QED
  BY <1>2, SizeStep, EndStep, QuietStep, WriterStep, CopiedStep, ContentsStep DEF CarefulInv

LEMMA CarefulInitially == Init => CarefulInv /\ PF!Init
<1> SUFFICES ASSUME Init PROVE CarefulInv /\ PF!Init
  OBVIOUS
<1>1. Contents = <<>>
  BY DEF Init, Contents, Usable
<1>2. Delivered = [p \in Procs |-> <<>>]
  BY DEF Init, Delivered
<1>3. SizesAgree /\ EndOfBuffer /\ OpensAreQuiet /\ WritersNotStranded /\ Copied
  BY DEF Init, SizesAgree, EndOfBuffer, OpensAreQuiet, WritersNotStranded, AsleepForSpace,
     Copied, From
<1> QED
  BY <1>1, <1>2, <1>3, Initially DEF CarefulInv, PF!Init

\* With the two rules obeyed, the stronger invariant holds in every state.
THEOREM CarefulAlways == CarefulSpec => []CarefulInv
BY CarefulInitially, CarefulInductive, PTL DEF CarefulSpec

-----------------------------------------------------------------------------
(* The theorems *)

\* With the two rules obeyed, dev->end stays the end of what was allocated.
THEOREM EndIsRight == CarefulSpec => []EndOfBuffer
BY CarefulAlways, PTL DEF CarefulInv

\* With the two rules obeyed, no writer sleeps on space that nobody will
\* announce.
THEOREM NoLostWriterWakeup == CarefulSpec => []WritersNotStranded
BY CarefulAlways, PTL DEF CarefulInv

\* With the two rules obeyed, the pipe is a first-in first-out queue of bytes:
\* every step of the driver appends, removes, clears, or changes nothing.
THEOREM ImplementsFifo == CarefulSpec => Fifo
BY CarefulInitially, CarefulAlways, FifoStep, PTL DEF CarefulSpec, Fifo, PF!Fifo
=============================================================================
