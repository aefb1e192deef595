------------------------- MODULE FatMounted_proofs --------------------------
(* Proofs about a mounted volume: what the mount holds and what becomes of its *)
(* free count (FatMount), and the attributes of a file, which its entry gives  *)
(* back (FatAttrs).  Each step of FatMounted is a step of one of the two or    *)
(* leaves its variables alone.                                                 *)
EXTENDS FatMounted, FiniteSetTheorems, SequenceTheorems, TLAPS

LEMMA MountSteps == [MountedNext]_<<vars, attrVars, vfatVars>> => [Next]_vars
BY DEF MountedNext, vars

-----------------------------------------------------------------------------
(* Types.                                                                     *)

LEMMA UndoLists == Ordered(Undo) /\ Ordered(Put)
                   /\ Undo \in Seq(Resources) /\ Put \in Seq(Resources)
                   /\ Resources \ Buffers \subseteq Caches \cup Left(Undo)
                   /\ Resources \ Buffers \subseteq Caches \cup Left(Put)
<1>1. /\ Len(Undo) = 6 /\ Undo[1] = "fat_inode" /\ Undo[2] = "root_inode" /\ Undo[3] = "nls_io"
      /\ Undo[4] = "nls_disk" /\ Undo[5] = "iocharset" /\ Undo[6] = "sbi"
      /\ Undo \in Seq(Resources \ Caches) /\ Undo # <<>>
  BY DEF Undo, Resources, Caches, Buffers, Inodes
<1>2. /\ Len(Put) = 6 /\ Put[1] = "root_inode" /\ Put[2] = "fat_inode" /\ Put[3] = "nls_disk"
      /\ Put[4] = "nls_io" /\ Put[5] = "iocharset" /\ Put[6] = "sbi"
      /\ Put \in Seq(Resources \ Caches) /\ Put # <<>>
  BY DEF Put, Resources, Caches, Buffers, Inodes
<1>3. \A k \in 1..6 : k = 1 \/ k = 2 \/ k = 3 \/ k = 4 \/ k = 5 \/ k = 6
  OBVIOUS
<1>4. Ordered(Undo)
  BY <1>1, <1>3 DEF Ordered
<1>5. Ordered(Put)
  BY <1>2, <1>3 DEF Ordered
<1>6. Left(Undo) = {"fat_inode", "root_inode", "nls_io", "nls_disk", "iocharset", "sbi"}
  BY <1>1, <1>3 DEF Left
<1>7. Left(Put) = {"fat_inode", "root_inode", "nls_io", "nls_disk", "iocharset", "sbi"}
  BY <1>2, <1>3 DEF Left
<1>8. Undo \in Seq(Resources) /\ Put \in Seq(Resources)
  BY DEF Undo, Put, Resources, Caches, Buffers, Inodes
<1> QED
  BY <1>4, <1>5, <1>6, <1>7, <1>8 DEF Resources, Caches, Buffers, Inodes

(* A release takes the head of the list.                                       *)
LEMMA TailOrdered ==
  ASSUME NEW u \in Seq(Resources \ Caches), u # <<>>, Ordered(u)
  PROVE  /\ Ordered(Tail(u)) /\ Tail(u) \in Seq(Resources \ Caches) /\ Head(u) \in Resources \ Caches
         /\ Left(u) \subseteq Left(Tail(u)) \cup {Head(u)}
         /\ Head(u) = "sbi" <=> Tail(u) = <<>>
<1>1. /\ Tail(u) \in Seq(Resources \ Caches) /\ Len(u) \in Nat \ {0} /\ Len(Tail(u)) = Len(u) - 1
      /\ \A k \in 1..Len(Tail(u)) : Tail(u)[k] = u[k + 1]
      /\ Head(u) = u[1] /\ Head(u) \in Resources \ Caches
      /\ Tail(u) = <<>> <=> Len(u) = 1
  <2>1. /\ Tail(u) \in Seq(Resources \ Caches) /\ Head(u) \in Resources \ Caches /\ Len(Tail(u)) = Len(u) - 1
        /\ \A k \in 1..Len(Tail(u)) : Tail(u)[k] = u[k + 1]
    BY HeadTailProperties, Zenon
  <2>2. Len(u) \in Nat \ {0}
    BY EmptySeq, LenProperties
  <2>3. Tail(u) = <<>> <=> Len(Tail(u)) = 0
    BY <2>1, EmptySeq
  <2>4. Head(u) = u[1]
    OBVIOUS
  <2> QED
    BY <2>1, <2>2, <2>3, <2>4
<1> DEFINE n == Len(Tail(u))
<1>2. ASSUME Tail(u) # <<>> PROVE Tail(u)[n] = "sbi"
  <2>1. n \in 1..n /\ n + 1 = Len(u)
    BY <1>1, <1>2
  <2>2. Tail(u)[n] = u[Len(u)]
    BY <1>1, <2>1
  <2> QED
    BY <2>2 DEF Ordered
<1>3. ASSUME NEW k \in 1..n, Tail(u)[k] = "sbi" PROVE k = n
  <2>1. u[k + 1] = "sbi" /\ k + 1 \in 1..Len(u)
    BY <1>1, <1>3
  <2>2. k + 1 = Len(u)
    BY <2>1 DEF Ordered
  <2>3. k \in Nat /\ Len(u) \in Nat /\ n = Len(u) - 1
    BY <1>1
  <2> QED
    BY <2>2, <2>3
<1>4. ASSUME NEW k \in 1..Len(u) PROVE u[k] \in Left(Tail(u)) \cup {Head(u)}
  <2>1. CASE k = 1
    BY <1>1, <2>1, Zenon
  <2>2. CASE k # 1
    <3>1. k - 1 \in 1..Len(Tail(u)) /\ Tail(u)[k - 1] = u[k]
      BY <1>1, <2>2
    <3> QED
      BY <3>1 DEF Left
  <2> QED
    BY <2>1, <2>2
<1>5. Head(u) = "sbi" <=> Tail(u) = <<>>
  <2>1. Head(u) = "sbi" => 1 = Len(u)
    <3>1. 1 \in 1..Len(u) /\ Head(u) = u[1]
      BY <1>1
    <3> QED
      BY <3>1 DEF Ordered
  <2>2. Len(u) = 1 => u[1] = "sbi"
    BY DEF Ordered
  <2> QED
    BY <1>1, <2>1, <2>2
<1>6. Left(u) \subseteq Left(Tail(u)) \cup {Head(u)}
  BY <1>4 DEF Left
<1> QED
  BY <1>1, <1>2, <1>3, <1>5, <1>6 DEF Ordered

LEMMA TypeInit == Init => MountTypeOK
BY DEF Init, MountTypeOK, NoMount, Stages

LEMMA TypeStep == MountTypeOK /\ [Next]_vars => MountTypeOK'
<1> SUFFICES ASSUME MountTypeOK, [Next]_vars PROVE MountTypeOK'
  OBVIOUS
<1> USE DEF MountTypeOK, Stages, Mounting, Early, Late, Resources, Caches, Buffers, Inodes, Take, Goto, NoMount, count
<1>1. CASE InitCache \/ InitInodecache \/ InitFails \/ ExitFatFs
  BY <1>1 DEF InitCache, InitInodecache, InitFails, ExitFatFs
<1>2. CASE FillSuper \/ Charset \/ OptionsDone
  <2>2. CASE FillSuper
    <3>1. PICK vfat \in BOOLEAN : mount' = [NoMount EXCEPT !.vfat = vfat]
      BY <2>2 DEF FillSuper
    <3>2. mount' = [vfat |-> vfat, charsets |-> 0, hash |-> FALSE, known |-> FALSE, undo |-> <<>>]
      BY <3>1
    <3>3. <<>> \in Seq(Resources)
      OBVIOUS
    <3> QED
      BY <2>2, <3>2, <3>3 DEF FillSuper
  <2>3. CASE Charset
    BY <2>3 DEF Charset
  <2>4. CASE OptionsDone
    BY <2>4 DEF OptionsDone
  <2> QED
    BY <1>2, <2>2, <2>3, <2>4
<1>3. CASE ReadBoot \/ Resize \/ Reread \/ SizeFits \/ ReadFsinfo \/ Geometry
  BY <1>3 DEF ReadBoot, Resize, Reread, SizeFits, ReadFsinfo, Geometry
<1>4. CASE LoadNlsDisk \/ LoadNlsIo \/ NewFatInode \/ NewRootInode \/ AllocRoot \/ Refused
  BY <1>4 DEF LoadNlsDisk, LoadNlsIo, NewFatInode, NewRootInode, AllocRoot, Refused
<1>5. CASE OutFail \/ PutSuper
  BY <1>5, UndoLists DEF OutFail, PutSuper, Ordered
<1>6. CASE Release
  <2>1. Tail(mount.undo) \in Seq(Resources)
    BY <1>6, HeadTailProperties DEF Release
  <2> QED
    BY <1>6, <2>1 DEF Release
<1>7. CASE Released
  BY <1>7 DEF Released
<1>8. CASE Change \/ MarkDirt \/ SyncBegin \/ ClustersFlush \/ SyncEnd
  BY <1>8 DEF Change, MarkDirt, SyncBegin, ClustersFlush, SyncEnd
<1>9. CASE UNCHANGED vars
  BY <1>9 DEF vars
<1> QED
  BY <1>1, <1>2, <1>3, <1>4, <1>5, <1>6, <1>7, <1>8, <1>9 DEF Next

-----------------------------------------------------------------------------
(* What is held.                                                              *)

LEMMA HeldStep ==
  ASSUME "strdup" \notin Failing
  PROVE  MountTypeOK /\ HeldRight /\ [Next]_vars => HeldRight'
<1> SUFFICES ASSUME MountTypeOK, HeldRight, [Next]_vars PROVE HeldRight'
  OBVIOUS
<1> USE DEF HeldRight, MountTypeOK, Mounting, Early, Late, Caches, Buffers, Inodes, Take, Goto, count
<1>1. CASE InitCache \/ InitInodecache \/ InitFails \/ ExitFatFs
  <2>1. CASE InitCache
    BY <2>1 DEF InitCache
  <2>2. CASE InitInodecache
    BY <2>2 DEF InitInodecache
  <2>3. CASE InitFails
    BY <2>3 DEF InitFails
  <2>4. CASE ExitFatFs
    BY <2>4 DEF ExitFatFs
  <2> QED
    BY <1>1, <2>1, <2>2, <2>3, <2>4
<1>2. CASE FillSuper
  BY <1>2 DEF FillSuper
<1>3. CASE Charset
  BY <1>3 DEF Charset, MayFail
<1>4. CASE OptionsDone \/ ReadBoot \/ Resize \/ Reread \/ SizeFits \/ ReadFsinfo
  <2>1. CASE OptionsDone
    BY <2>1 DEF OptionsDone
  <2>2. CASE ReadBoot
    BY <2>2 DEF ReadBoot
  <2>3. CASE Resize
    BY <2>3 DEF Resize
  <2>4. CASE Reread
    BY <2>4 DEF Reread
  <2>5. CASE SizeFits
    BY <2>5 DEF SizeFits
  <2>6. CASE ReadFsinfo
    BY <2>6 DEF ReadFsinfo
  <2> QED
    BY <1>4, <2>1, <2>2, <2>3, <2>4, <2>5, <2>6
<1>5. CASE Geometry
  BY <1>5 DEF Geometry
<1>6. CASE LoadNlsDisk \/ LoadNlsIo \/ NewFatInode \/ NewRootInode \/ AllocRoot
  <2>1. CASE LoadNlsDisk
    BY <2>1 DEF LoadNlsDisk
  <2>2. CASE LoadNlsIo
    BY <2>2 DEF LoadNlsIo
  <2>3. CASE NewFatInode
    BY <2>3 DEF NewFatInode
  <2>4. CASE NewRootInode
    BY <2>4 DEF NewRootInode
  <2>5. CASE AllocRoot
    BY <2>5 DEF AllocRoot
  <2> QED
    BY <1>6, <2>1, <2>2, <2>3, <2>4, <2>5
<1>7. CASE Refused
  BY <1>7 DEF Refused
<1>8. CASE OutFail \/ PutSuper
  <2>1. held \subseteq Resources \ Buffers /\ Caches \cup {"sbi"} \subseteq held
    BY <1>8 DEF OutFail, PutSuper
  <2> QED
    BY <1>8, <2>1, UndoLists DEF OutFail, PutSuper
<1>9. CASE Release
  <2> DEFINE u == mount.undo
             x == Head(u)
  <2>1. /\ pc = "undo" /\ u # <<>> /\ u \in Seq(Resources \ Caches) /\ Ordered(u)
        /\ held' = held \ {x} /\ ptr' = ptr \ {x}
        /\ stale' = (stale \/ (x \in ptr /\ (x \in held => x \in Inodes /\ ~CanPut)))
        /\ mount' = [mount EXCEPT !.undo = Tail(u)] /\ pc' = pc
    BY <1>9 DEF Release, Ordered
  <2>2. /\ Ordered(Tail(u)) /\ x \in Resources \ Caches
        /\ Left(u) \subseteq Left(Tail(u)) \cup {x}
        /\ x = "sbi" <=> Tail(u) = <<>>
    BY <2>1, TailOrdered
  <2>3. x \notin Caches
    BY <2>2
  <2>4. ~stale'
    BY <2>1 DEF CanPut
  <2>5. mount'.undo = Tail(u) /\ mount'.hash = mount.hash
    BY <2>1
  <2> QED
    BY <2>1, <2>2, <2>3, <2>4, <2>5
<1>10. CASE Released
  <2>1. Left(<<>>) = {}
    BY DEF Left
  <2> QED
    BY <1>10, <2>1 DEF Released, NoMount
<1>11. CASE Change \/ MarkDirt \/ SyncBegin \/ ClustersFlush \/ SyncEnd
  BY <1>11 DEF Change, MarkDirt, SyncBegin, ClustersFlush, SyncEnd
<1>12. CASE UNCHANGED vars
  BY <1>12 DEF vars
<1> QED
  BY <1>1, <1>2, <1>3, <1>4, <1>5, <1>6, <1>7, <1>8, <1>9, <1>10, <1>11, <1>12 DEF Next

(* Whatever fails on the way, but for the copy of an iocharset, a mount that   *)
(* is refused and an unmount leave only the module's caches, and nothing is    *)
(* released twice or too early.                                                *)
THEOREM NothingLeft ==
  ASSUME "strdup" \notin Failing
  PROVE  MountedSpec => []Balanced
<1>1. MountedInit => MountTypeOK /\ HeldRight
  BY TypeInit DEF MountedInit, Init, HeldRight, Mounting, Early, Late, Inodes
<1>2. MountTypeOK /\ HeldRight /\ [MountedNext]_<<vars, attrVars, vfatVars>>
      => (MountTypeOK /\ HeldRight)'
  BY MountSteps, TypeStep, HeldStep
<1>3. HeldRight => Balanced
  BY DEF HeldRight, Balanced
<1> QED
  BY <1>1, <1>2, <1>3, PTL DEF MountedSpec

-----------------------------------------------------------------------------
(* The free count.                                                            *)

LEMMA CountStep ==
  ASSUME "flush" \notin Failing
  PROVE  MountTypeOK /\ CountKept /\ CountReaches /\ [Next]_vars => CountKept' /\ CountReaches'
<1> SUFFICES ASSUME MountTypeOK, CountKept, CountReaches, [Next]_vars
             PROVE  CountKept' /\ CountReaches'
  OBVIOUS
<1> USE DEF CountKept, CountReaches, MountTypeOK, Early, Late, Take, Goto, count
<1>1. CASE InitCache \/ InitInodecache \/ InitFails \/ ExitFatFs
  BY <1>1 DEF InitCache, InitInodecache, InitFails, ExitFatFs
<1>2. CASE FillSuper
  BY <1>2 DEF FillSuper, NoMount
<1>3. CASE Charset
  BY <1>3 DEF Charset
<1>4. CASE OptionsDone \/ ReadBoot \/ Resize \/ Reread \/ SizeFits
  BY <1>4 DEF OptionsDone, ReadBoot, Resize, Reread, SizeFits
<1>5. CASE ReadFsinfo
  BY <1>5 DEF ReadFsinfo
<1>6. CASE Geometry
  BY <1>6 DEF Geometry
<1>7. CASE LoadNlsDisk \/ LoadNlsIo \/ NewFatInode \/ NewRootInode \/ AllocRoot \/ Refused
  BY <1>7 DEF LoadNlsDisk, LoadNlsIo, NewFatInode, NewRootInode, AllocRoot, Refused
<1>8. CASE OutFail \/ PutSuper \/ Release
  BY <1>8 DEF OutFail, PutSuper, Release
<1>9. CASE Released
  BY <1>9 DEF Released, NoMount
<1>10. CASE Change \/ MarkDirt
  BY <1>10 DEF Change, MarkDirt
<1>11. CASE SyncBegin \/ ClustersFlush \/ SyncEnd
  BY <1>11 DEF SyncBegin, ClustersFlush, SyncEnd, MayFail
<1>12. CASE UNCHANGED vars
  BY <1>12 DEF vars
<1> QED
  BY <1>1, <1>2, <1>3, <1>4, <1>5, <1>6, <1>7, <1>8, <1>9, <1>10, <1>11, <1>12 DEF Next

(* While its reading succeeds, the FSINFO block has the free count, or         *)
(* somebody is still to write it there, up to the end of the mount.            *)
THEOREM CountIsWritten ==
  ASSUME "flush" \notin Failing
  PROVE  MountedSpec => []CountReaches
<1>1. MountedInit => MountTypeOK /\ CountKept /\ CountReaches
  BY TypeInit DEF MountedInit, Init, CountKept, CountReaches, Early, Late, NoMount
<1>2. MountTypeOK /\ CountKept /\ CountReaches /\ [MountedNext]_<<vars, attrVars, vfatVars>>
      => (MountTypeOK /\ CountKept /\ CountReaches)'
  BY MountSteps, TypeStep, CountStep
<1> QED
  BY <1>1, <1>2, PTL DEF MountedSpec

-----------------------------------------------------------------------------
(* The attributes of a file.                                                   *)

LEMMA AttrSteps == [MountedNext]_<<vars, attrVars, vfatVars>> => [AttrNext]_attrVars
BY DEF MountedNext

-----------------------------------------------------------------------------
(* The conversions.                                                           *)

\* A full write mode is not empty where it can say read-only.
LEMMA CanWrite ==
  ASSUME NEW f, NEW m, CanHoldRo(f), m \cap W = W \ f.mask
  PROVE  m \cap W # {}
BY DEF CanHoldRo, W

(* The mode that the kept bits and the attributes make is the one they are     *)
(* taken from.                                                                 *)
LEMMA ModeBack ==
  ASSUME NEW f, NEW i, i.mode \in Mode, ModeKept(f, i)
  PROVE  MakeMode(f, MakeAttrs(f, i.attrs, i.mode), Base(f)) = i.mode
<1> DEFINE a == MakeAttrs(f, i.attrs, i.mode)
<1>1. /\ W \subseteq Base(f) /\ Base(f) \subseteq R \cup W \cup X
      /\ i.mode \subseteq R \cup W \cup X
      /\ W \cap (R \cup X) = {}
  BY DEF Base, Mode, R, W, X
<1>2. i.mode \cap (R \cup X) = (Base(f) \ f.mask) \cap (R \cup X)
  BY DEF ModeKept
<1>3. CASE CanHoldRo(f) /\ i.mode \cap W = {}
  <2>1. "RO" \in a /\ (f.dir => f.rodir)
    BY <1>3 DEF MakeAttrs, CanHoldRo
  <2>2. MakeMode(f, a, Base(f)) = (Base(f) \ W) \ f.mask
    BY <2>1 DEF MakeMode
  <2>3. (Base(f) \ W) \ f.mask = i.mode
    BY <1>1, <1>2, <1>3
  <2> QED
    BY <2>2, <2>3
<1>4. CASE i.mode \cap W = W \ f.mask
  <2>1. Base(f) \ f.mask = i.mode
    BY <1>1, <1>2, <1>4
  <2>2. CASE CanHoldRo(f)
    <3>1. "RO" \notin a
      BY <1>4, <2>2, CanWrite DEF MakeAttrs, ModeKept
    <3> QED
      BY <2>1, <3>1 DEF MakeMode
  <2>3. CASE ~CanHoldRo(f)
    <3>1. CASE W \subseteq f.mask
      <4>1. (Base(f) \ W) \ f.mask = Base(f) \ f.mask
        BY <3>1
      <4> QED
        BY <2>1, <4>1 DEF MakeMode
    <3>2. CASE ~(f.dir => f.rodir)
      BY <2>1, <3>2 DEF MakeMode
    <3> QED
      BY <2>3, <3>1, <3>2 DEF CanHoldRo
  <2> QED
    BY <2>2, <2>3
<1> QED
  BY <1>3, <1>4 DEF ModeKept

(* The inode that is made from an entry is the one the entry was written from. *)
LEMMA FilledBack ==
  ASSUME NEW f, NEW i \in [mode : Mode, attrs : SUBSET Attr, imm : BOOLEAN, live : BOOLEAN],
         ModeKept(f, i), i.live,
         i.imm = ("SYS" \in i.attrs /\ f.sys_immutable)
  PROVE  Filled(f, MakeAttrs(f, i.attrs, i.mode)) = i
<1> DEFINE a == MakeAttrs(f, i.attrs, i.mode)
<1>1. MakeMode(f, a, Base(f)) = i.mode
  BY ModeBack
<1>2. SaveAttrs(f, a) = i.attrs
  BY DEF SaveAttrs, MakeAttrs, ModeKept
<1>3. "SYS" \in a <=> "SYS" \in i.attrs
  BY DEF MakeAttrs
<1>4. i = [mode |-> i.mode, attrs |-> i.attrs, imm |-> i.imm, live |-> i.live]
  OBVIOUS
<1>5. i.imm = ("SYS" \in a /\ f.sys_immutable) /\ i.live = TRUE
  BY <1>3
<1> QED
  BY <1>1, <1>2, <1>4, <1>5, Zenon DEF Filled

\* A chmod keeps of the mode what the entry cannot say.
LEMMA SetKept ==
  ASSUME NEW mode \in Mode, AttrsTypeOK, ModeKept(file, inode), SetMode(mode)
  PROVE  /\ ModeKept(file, inode') /\ dirty'
         /\ inode' = [inode EXCEPT !.mode = inode'.mode] /\ inode'.mode \in Mode
<1>1. CASE ~Sane(mode)
  BY <1>1 DEF SetMode, AttrsTypeOK
<1>2. CASE Sane(mode)
  <2>1. inode' = [inode EXCEPT !.mode = mode \ file.mask] /\ dirty'
    BY <1>2 DEF SetMode
  <2>2. inode'.mode = mode \ file.mask /\ inode'.attrs = inode.attrs
    BY <2>1 DEF AttrsTypeOK
  <2>3. inode'.mode \in Mode
    BY <2>2 DEF Mode
  <2> QED
    BY <1>2, <2>1, <2>2, <2>3 DEF Sane, ModeKept
<1> QED
  BY <1>1, <1>2

LEMMA MakeModeType ==
  ASSUME NEW f, NEW a, NEW m \in Mode
  PROVE  MakeMode(f, a, m) \in Mode
BY DEF MakeMode, Mode

-----------------------------------------------------------------------------
(* The invariant.                                                             *)

LEMMA AttrsInitOK == AttrInit => AttrsInv
<1> SUFFICES ASSUME AttrInit PROVE AttrsInv
  OBVIOUS
<1>1. /\ file = NoFile /\ attr = {} /\ inode = NoInode /\ dirty = FALSE
      /\ call = NoCall /\ wb = NoWb
      /\ ~inode.live /\ call.pc = "no" /\ wb.pc = "no"
  BY DEF AttrInit, NoInode, NoCall, NoWb
<1>2. inode \in [mode : Mode, attrs : SUBSET Attr, imm : BOOLEAN, live : BOOLEAN]
  BY <1>1 DEF NoInode, Mode
<1>3. /\ call \in [pc : {"no", "set", "dirty"}, attr : SUBSET Attr]
      /\ wb \in [pc : {"no", "attrs", "mode"}, seen : SUBSET Attr]
  BY <1>1 DEF NoCall, NoWb
<1> QED
  BY <1>1, <1>2, <1>3, Zenon DEF AttrsInv, AttrsTypeOK

LEMMA OptionIsBoolean == AttrsTypeOK => file.sys_immutable \in BOOLEAN
<1> SUFFICES ASSUME AttrsTypeOK PROVE file.sys_immutable \in BOOLEAN
  OBVIOUS
<1>1. CASE file \in Files
  <2>1. \A f \in Files : f.sys_immutable \in BOOLEAN
    BY Zenon DEF Files
  <2> QED
    BY <1>1, <2>1
<1>2. CASE file = NoFile
  <2>1. NoFile.sys_immutable = FALSE
    BY DEF NoFile
  <2> QED
    BY <1>2, <2>1
<1> QED
  BY <1>1, <1>2 DEF AttrsTypeOK

LEMMA LoadStep == AttrsInv /\ Load => AttrsInv'
<1> SUFFICES ASSUME AttrsInv, Load PROVE AttrsInv'
  OBVIOUS
<1> DEFINE b == Base(file')
<1>1. /\ file' \in Files /\ attr' \subseteq Attr
      /\ inode' = Filled(file', attr') /\ UNCHANGED <<dirty, call, wb>>
      /\ ~dirty /\ call.pc = "no" /\ wb.pc = "no" /\ call = NoCall /\ wb = NoWb
  BY DEF Load, AttrsInv, AttrsTypeOK
<1>2. /\ inode'.mode = MakeMode(file', attr', b) /\ inode'.attrs = SaveAttrs(file', attr')
      /\ inode'.imm = ("SYS" \in attr' /\ file'.sys_immutable) /\ inode'.live
  BY <1>1 DEF Filled
<1>3. b \in Mode /\ inode'.mode \in Mode /\ W \subseteq b
  <2>1. b \in Mode /\ W \subseteq b
    BY DEF Base, Mode
  <2> QED
    BY <1>2, <2>1, MakeModeType
<1>4. inode'.attrs \in SUBSET Attr /\ inode'.imm \in BOOLEAN
  BY <1>1, <1>2 DEF SaveAttrs, Files
<1>5. AttrsTypeOK'
  BY <1>1, <1>3, <1>4 DEF AttrsInv, AttrsTypeOK, Filled
<1>6. W \cap (R \cup X) = {}
  BY DEF R, W, X
<1>7. ModeKept(file', inode')
  <2>1. inode'.mode \cap (R \cup X) = (b \ file'.mask) \cap (R \cup X)
    BY <1>2, <1>6 DEF MakeMode
  <2>2. inode'.mode \cap W = W \ file'.mask \/ (CanHoldRo(file') /\ inode'.mode \cap W = {})
    BY <1>2, <1>3 DEF MakeMode, CanHoldRo
  <2>3. CanHoldRo(file') => "RO" \notin inode'.attrs
    BY <1>2 DEF SaveAttrs
  <2> QED
    BY <2>1, <2>2, <2>3 DEF ModeKept
<1>8. inode'.imm = ("SYS" \in inode'.attrs /\ file'.sys_immutable)
  BY <1>2 DEF SaveAttrs
<1>9. attr' = MakeAttrs(file', inode'.attrs, inode'.mode)
  <2>1. CASE CanHoldRo(file') /\ "RO" \in attr'
    <3>1. inode'.mode \cap W = {} /\ inode'.attrs = attr' \ {"RO"}
      BY <1>2, <2>1 DEF MakeMode, CanHoldRo, SaveAttrs
    <3> QED
      BY <2>1, <3>1 DEF MakeAttrs
  <2>2. CASE CanHoldRo(file') /\ "RO" \notin attr'
    <3>1. inode'.mode \cap W # {} /\ inode'.attrs = attr'
      BY <1>2, <1>3, <2>2 DEF MakeMode, CanHoldRo, SaveAttrs
    <3> QED
      BY <3>1 DEF MakeAttrs
  <2>3. CASE ~CanHoldRo(file')
    BY <1>2, <2>3 DEF MakeAttrs, SaveAttrs
  <2> QED
    BY <2>1, <2>2, <2>3
<1> QED
  BY <1>1, <1>2, <1>5, <1>7, <1>8, <1>9 DEF AttrsInv

LEMMA ChmodStep == AttrsInv /\ Chmod => AttrsInv'
<1> SUFFICES ASSUME AttrsInv, Chmod PROVE AttrsInv'
  OBVIOUS
<1>1. PICK mode \in Mode : SetMode(mode)
  BY DEF Chmod
<1>2. /\ ModeKept(file, inode') /\ dirty'
      /\ inode' = [inode EXCEPT !.mode = inode'.mode] /\ inode'.mode \in Mode
  BY <1>1, SetKept DEF AttrsInv, Chmod
<1>3. inode'.attrs = inode.attrs /\ inode'.imm = inode.imm /\ inode'.live = inode.live
  BY <1>2, Zenon DEF AttrsInv, AttrsTypeOK
<1>4. AttrsTypeOK' /\ UNCHANGED <<file, call, wb>> /\ inode.live
  BY <1>2, <1>3 DEF AttrsInv, AttrsTypeOK, Chmod, SetMode
<1> QED
  BY <1>2, <1>3, <1>4, Zenon DEF AttrsInv

(* The ioctl does not begin where the system attribute would be taken away.    *)
LEMMA IoctlStep ==
  ASSUME ClearsSystem = FALSE
  PROVE  AttrsInv /\ IoctlBegin => AttrsInv'
<1> SUFFICES ASSUME AttrsInv, IoctlBegin PROVE AttrsInv'
  OBVIOUS
<1>1. PICK a \in SUBSET Attr :
        /\ file.sys_immutable /\ "SYS" \in inode.attrs => "SYS" \in a
        /\ call' = [pc |-> "set", attr |-> a]
        /\ \/ SetMode(MakeMode(file, a, IF file.dir THEN R \cup W \cup X
                                        ELSE R \cup W \cup (inode.mode \cap X)))
           \/ UNCHANGED <<inode, dirty>>
  BY DEF IoctlBegin
<1>2. /\ inode.live /\ call = NoCall /\ call.pc = "no" /\ UNCHANGED <<file, attr, wb>>
      /\ inode.imm = ("SYS" \in inode.attrs /\ file.sys_immutable)
      /\ ModeKept(file, inode)
  BY DEF IoctlBegin, AttrsInv, NoCall
<1>3. call'.pc = "set" /\ call'.attr = a
  BY <1>1
<1>4. /\ ModeKept(file, inode') /\ AttrsTypeOK'
      /\ inode'.attrs = inode.attrs /\ inode'.imm = inode.imm /\ inode'.live = inode.live
      /\ dirty' \/ UNCHANGED <<inode, dirty>>
  <2>1. CASE SetMode(MakeMode(file, a, IF file.dir THEN R \cup W \cup X
                                       ELSE R \cup W \cup (inode.mode \cap X)))
    <3> DEFINE m == MakeMode(file, a, IF file.dir THEN R \cup W \cup X
                                      ELSE R \cup W \cup (inode.mode \cap X))
    <3>1. m \in Mode
      BY MakeModeType DEF Mode
    <3>2. /\ ModeKept(file, inode') /\ dirty'
          /\ inode' = [inode EXCEPT !.mode = inode'.mode] /\ inode'.mode \in Mode
      BY <1>2, <2>1, <3>1, SetKept DEF AttrsInv
    <3>3. inode'.attrs = inode.attrs /\ inode'.imm = inode.imm /\ inode'.live = inode.live
      BY <3>2, Zenon DEF AttrsInv, AttrsTypeOK
    <3>4. AttrsTypeOK'
      BY <1>1, <1>2, <1>3, <2>1, <3>2, <3>3 DEF AttrsInv, AttrsTypeOK, SetMode
    <3> QED
      BY <3>2, <3>3, <3>4
  <2>2. CASE UNCHANGED <<inode, dirty>>
    BY <1>1, <1>2, <1>3, <2>2 DEF AttrsInv, AttrsTypeOK
  <2> QED
    BY <1>1, <2>1, <2>2
<1>5. inode'.imm => file'.sys_immutable /\ "SYS" \in call'.attr
  BY <1>1, <1>2, <1>3, <1>4
<1>6. inode'.live /\ ~dirty' /\ call'.pc # "dirty" =>
        /\ wb'.pc = "no" => attr' = MakeAttrs(file', inode'.attrs, inode'.mode)
        /\ wb'.pc = "mode" => wb'.seen = inode'.attrs
  BY <1>2, <1>4 DEF AttrsInv
<1> QED
  BY <1>2, <1>3, <1>4, <1>5, <1>6, Zenon DEF AttrsInv

LEMMA IoctlFlagStep == AttrsInv /\ IoctlFlag => AttrsInv'
<1> SUFFICES ASSUME AttrsInv, IoctlFlag PROVE AttrsInv'
  OBVIOUS
<1>1. /\ call.pc = "set" /\ inode.live /\ call.attr \subseteq Attr
      /\ inode.imm => file.sys_immutable /\ "SYS" \in call.attr
      /\ call' = [call EXCEPT !.pc = "dirty"] /\ UNCHANGED <<file, attr, dirty, wb>>
  BY DEF IoctlFlag, AttrsInv, AttrsTypeOK
<1>2. call'.pc = "dirty" /\ call' \in [pc : {"no", "set", "dirty"}, attr : SUBSET Attr]
  BY <1>1 DEF AttrsInv, AttrsTypeOK
<1>3. /\ inode' = [inode EXCEPT !.imm = @ \/ (file.sys_immutable /\ "SYS" \in call.attr),
                                !.attrs = SaveAttrs(file, call.attr)]
      /\ inode \in [mode : Mode, attrs : SUBSET Attr, imm : BOOLEAN, live : BOOLEAN]
  BY DEF IoctlFlag, AttrsInv, AttrsTypeOK
<1>4. /\ inode'.mode = inode.mode /\ inode'.live = inode.live
      /\ inode'.attrs = SaveAttrs(file, call.attr)
      /\ inode'.imm = (inode.imm \/ (file.sys_immutable /\ "SYS" \in call.attr))
  BY <1>3, Zenon
<1>5. SaveAttrs(file, call.attr) \in SUBSET Attr
      /\ ("SYS" \in SaveAttrs(file, call.attr) <=> "SYS" \in call.attr)
      /\ (CanHoldRo(file) => "RO" \notin SaveAttrs(file, call.attr))
  BY <1>1 DEF SaveAttrs
<1>6. inode' \in [mode : Mode, attrs : SUBSET Attr, imm : BOOLEAN, live : BOOLEAN]
  <2>1. (inode.imm \/ (file.sys_immutable /\ "SYS" \in call.attr)) \in BOOLEAN
    OBVIOUS
  <2> QED
    BY <1>3, <1>5, <2>1, Zenon
<1>7. AttrsTypeOK'
  BY <1>1, <1>2, <1>6 DEF AttrsInv, AttrsTypeOK
<1>8. ModeKept(file', inode')
  BY <1>1, <1>4, <1>5 DEF AttrsInv, ModeKept
<1>9. inode'.imm = ("SYS" \in inode'.attrs /\ file'.sys_immutable)
  <2>1. inode.imm \in BOOLEAN /\ file.sys_immutable \in BOOLEAN
    BY OptionIsBoolean DEF AttrsInv, AttrsTypeOK
  <2>2. inode'.imm <=> "SYS" \in inode'.attrs /\ file'.sys_immutable
    BY <1>1, <1>4, <1>5
  <2> QED
    BY <1>4, <2>2
<1> QED
  BY <1>1, <1>2, <1>4, <1>7, <1>8, <1>9, Zenon DEF AttrsInv

LEMMA FileWriteStep == AttrsInv /\ FileWrite => AttrsInv'
<1> SUFFICES ASSUME AttrsInv, FileWrite PROVE AttrsInv'
  OBVIOUS
<1>1. /\ inode.live /\ call = NoCall /\ call.pc = "no" /\ call'.pc = "dirty" /\ call'.attr = {}
      /\ call' \in [pc : {"no", "set", "dirty"}, attr : SUBSET Attr]
      /\ UNCHANGED <<file, attr, dirty, wb>>
  BY DEF FileWrite, NoCall
<1>2. /\ inode' = [inode EXCEPT !.attrs = @ \cup {"ARCH"}]
      /\ inode \in [mode : Mode, attrs : SUBSET Attr, imm : BOOLEAN, live : BOOLEAN]
  BY DEF FileWrite, AttrsInv, AttrsTypeOK
<1>3. /\ inode'.mode = inode.mode /\ inode'.live = inode.live /\ inode'.imm = inode.imm
      /\ inode'.attrs = inode.attrs \cup {"ARCH"}
  BY <1>2, Zenon
<1>4. AttrsTypeOK'
  BY <1>1, <1>2 DEF AttrsInv, AttrsTypeOK, Attr
<1>5. ModeKept(file', inode')
  BY <1>1, <1>3 DEF AttrsInv, ModeKept
<1>6. "SYS" \in inode'.attrs <=> "SYS" \in inode.attrs
  BY <1>3
<1> QED
  BY <1>1, <1>3, <1>4, <1>5, <1>6, Zenon DEF AttrsInv

LEMMA WriteStep ==
  AttrsInv /\ (MarkDirty \/ WriteBegin \/ WriteAttrs \/ WriteEnd \/ Evict) => AttrsInv'
<1> SUFFICES ASSUME AttrsInv PROVE (MarkDirty \/ WriteBegin \/ WriteAttrs \/ WriteEnd \/ Evict) => AttrsInv'
  OBVIOUS
<1>1. CASE MarkDirty
  BY <1>1 DEF AttrsInv, AttrsTypeOK, MarkDirty, NoCall
<1>2. CASE WriteBegin
  BY <1>2 DEF AttrsInv, AttrsTypeOK, WriteBegin, NoWb
<1>3. CASE WriteAttrs
  BY <1>3 DEF AttrsInv, AttrsTypeOK, WriteAttrs, NoWb
<1>4. CASE WriteEnd
  <2>1. attr' \subseteq Attr
    BY <1>4 DEF AttrsInv, AttrsTypeOK, WriteEnd, MakeAttrs, Attr
  <2> QED
    BY <1>4, <2>1 DEF AttrsInv, AttrsTypeOK, WriteEnd, NoWb
<1>5. CASE Evict
  BY <1>5 DEF AttrsInv, AttrsTypeOK, Evict, NoInode, NoFile, NoCall, NoWb, Mode, Attr
<1> QED
  BY <1>1, <1>2, <1>3, <1>4, <1>5

(* Where nobody takes the system attribute away under sys_immutable, an inode  *)
(* that is forgotten while it is clean comes back as it was, for every mask    *)
(* and every option, whatever chmods, ioctls and writes came between the       *)
(* steps of its writebacks.                                                    *)
THEOREM ReloadsAsItWas ==
  ASSUME ClearsSystem = FALSE
  PROVE  MountedSpec => []Reload
<1>1. MountedInit => AttrsInv
  BY AttrsInitOK DEF MountedInit
<1>2. AttrsInv /\ [MountedNext]_<<vars, attrVars, vfatVars>> => AttrsInv'
  <2> SUFFICES ASSUME AttrsInv, [AttrNext]_attrVars PROVE AttrsInv'
    BY AttrSteps
  <2>1. CASE Load
    BY <2>1, LoadStep
  <2>2. CASE Chmod
    BY <2>2, ChmodStep
  <2>3. CASE IoctlBegin
    BY <2>3, IoctlStep
  <2>4. CASE IoctlFlag
    BY <2>4, IoctlFlagStep
  <2>5. CASE FileWrite
    BY <2>5, FileWriteStep
  <2>6. CASE MarkDirty \/ WriteBegin \/ WriteAttrs \/ WriteEnd \/ Evict
    BY <2>6, WriteStep
  <2>7. CASE UNCHANGED attrVars
    BY <2>7 DEF attrVars, AttrsInv, AttrsTypeOK
  <2> QED
    BY <2>1, <2>2, <2>3, <2>4, <2>5, <2>6, <2>7 DEF AttrNext
<1>3. AttrsInv => Reload
  <2> SUFFICES ASSUME AttrsInv, inode.live, ~dirty, call = NoCall, wb = NoWb
               PROVE  inode = Filled(file, attr)
    BY DEF Reload
  <2>1. call.pc = "no" /\ wb.pc = "no"
    BY DEF NoCall, NoWb
  <2>2. attr = MakeAttrs(file, inode.attrs, inode.mode) /\ ModeKept(file, inode)
        /\ inode.imm = ("SYS" \in inode.attrs /\ file.sys_immutable)
    BY <2>1, Zenon DEF AttrsInv
  <2>3. inode \in [mode : Mode, attrs : SUBSET Attr, imm : BOOLEAN, live : BOOLEAN]
    BY DEF AttrsInv, AttrsTypeOK
  <2> QED
    BY <2>2, <2>3, FilledBack
<1> QED
  BY <1>1, <1>2, <1>3, PTL DEF MountedSpec

-----------------------------------------------------------------------------
(* The names of a directory.                                                  *)

Spelled == [key : DOMAIN Aliases, up : BOOLEAN, dots : BOOLEAN]
Slots   == [name : Spelled, alias : DOMAIN Aliases, node : Nodes, wanted : Spelled,
            long : BOOLEAN, lcase : BOOLEAN]
Hashed  == [name : Spelled, node : Nodes \cup {Absent}, time : Nat]

NamesTypeOK ==
  /\ opts \in Displays \cup {NoOpts} /\ version \in Nat
  /\ entries \subseteq Slots /\ dentries \subseteq Hashed
  /\ version = 0 => entries = {} /\ dentries = {}

(* An entry has an alias of its name, answers to its name, and is called as    *)
(* its maker wrote it.                                                         *)
EntryRight(e) ==
  e.alias \in Aliases[e.name.key] /\ Answers(e, e.name) /\ e.name.up = e.wanted.up

EntriesRight(es) ==
  /\ \A e \in es : EntryRight(e)
  /\ \A e, f \in es : e.node = f.node => e = f
  /\ \A e, f \in es : \A n \in Spelled : Answers(e, n) /\ Answers(f, n) => e = f

(* What the cache says of a name is so, as long as it says it.                 *)
Says(d, es, v) ==
  /\ d.time <= v
  /\ Positive(d) => \E e \in es : e.node = d.node /\ Answers(e, d.name)
  /\ ~Positive(d) /\ d.time = v => \A e \in es : ~Answers(e, d.name)

CacheRight(ds, es, v) ==
  /\ \A d \in ds : Says(d, es, v)
  /\ \A c, d \in ds : vfat_cmp(c.name, d.name) => c = d
  /\ \A c, d \in ds : Positive(c) /\ c.node = d.node => c = d

NamesInv == NamesTypeOK /\ EntriesRight(entries) /\ CacheRight(dentries, entries, version)

-----------------------------------------------------------------------------
(* Names that are compared.                                                   *)

LEMMA VfatSteps == [MountedNext]_<<vars, attrVars, vfatVars>> => [VfatNext]_vfatVars
BY DEF MountedNext

LEMMA Dotless ==
  ASSUME NEW n \in Spelled
  PROVE  Striptail(n) \in Spelled /\ Striptail(n).key = n.key /\ Striptail(n).up = n.up
BY DEF Striptail, Spelled

LEMMA OptsRight ==
  ASSUME NamesTypeOK, \A o \in Displays : ~(o.strict /\ o.shortname = "lower")
  PROVE  opts.strict \in BOOLEAN /\ ~(opts.strict /\ opts.shortname = "lower")
<1>1. CASE opts \in Displays
  BY <1>1, DisplayAssumption
<1>2. CASE opts = NoOpts
  BY <1>2 DEF NoOpts
<1> QED
  BY <1>1, <1>2 DEF NamesTypeOK

LEMMA Compared ==
  ASSUME NEW m \in Spelled, NEW n \in Spelled, NEW o \in Spelled
  PROVE  /\ vfat_cmp(m, m)
         /\ vfat_cmp(m, n) => vfat_cmp(n, m)
         /\ vfat_cmp(m, n) /\ vfat_cmp(n, o) => vfat_cmp(m, o)
BY DEF vfat_cmp

LEMMA DisplayedKey ==
  ASSUME NEW e \in Slots
  PROVE  Displayed(e) \in Spelled /\ Displayed(e).key = e.alias
BY DEF Displayed, Slots, Spelled

(* A name that is as good as another is answered by the same entries.          *)
LEMMA AnswersSame ==
  ASSUME NEW e \in Slots, NEW m \in Spelled, NEW n \in Spelled, vfat_cmp(m, n), Answers(e, m)
  PROVE  Answers(e, n)
BY DEF Answers, vfat_cmp

(* An entry whose name is of 8.3 form has it as its alias.                     *)
LEMMA AliasOf ==
  ASSUME NEW e \in Slots, EntryRight(e), Is83(e.name.key)
  PROVE  e.alias = e.name.key
BY DEF EntryRight, Is83

LEMMA AnsweredKey ==
  ASSUME NEW e \in Slots, EntryRight(e), NEW n \in Spelled, Answers(e, n)
  PROVE  n.key = e.alias \/ (e.long /\ vfat_cmp(e.name, n) /\ n.key = e.name.key)
BY DisplayedKey DEF Answers, vfat_cmp

-----------------------------------------------------------------------------
(* A new entry.                                                               *)

LEMMA BuiltRight ==
  ASSUME NamesTypeOK, NEW n \in Spelled, NEW node \in Nodes, NEW w \in Spelled, NEW t \in Built(n, node, w),
         n.up = w.up, \A o \in Displays : ~(o.strict /\ o.shortname = "lower")
  PROVE  /\ t \in Slots /\ EntryRight(t) /\ t.node = node
         /\ \A e \in entries : e.alias # t.alias
         /\ vfat_cmp(t.name, n) /\ vfat_cmp(n, t.name) /\ Answers(t, n)
         /\ t.alias \in Aliases[n.key] /\ Aliases[t.alias] = {t.alias}
<1>1. PICK a \in Aliases[n.key] :
        /\ fat_scan(a) = {}
        /\ t = [name |-> Striptail(n), alias |-> a, node |-> node, wanted |-> Striptail(w),
                long  |-> ~Is83(n.key) \/ (~n.up /\ opts.shortname # "winnt"),
                lcase |-> Is83(n.key) /\ ~n.up /\ opts.shortname = "winnt"]
  BY DEF Built
<1>2. n.key \in DOMAIN Aliases /\ n.up \in BOOLEAN
  BY DEF Spelled
<1>3. a \in DOMAIN Aliases /\ Aliases[a] = {a}
  BY <1>2, AliasAssumption
<1>4. /\ t.name = Striptail(n) /\ t.alias = a /\ t.node = node /\ t.wanted = Striptail(w)
      /\ t.long = (~Is83(n.key) \/ (~n.up /\ opts.shortname # "winnt"))
      /\ t.lcase = (Is83(n.key) /\ ~n.up /\ opts.shortname = "winnt")
  BY <1>1
<1>5. t \in Slots
  BY <1>1, <1>2, <1>3, Dotless DEF Slots
<1>6. vfat_cmp(t.name, n) /\ vfat_cmp(n, t.name) /\ t.name.key = n.key /\ t.name.up = n.up
  BY <1>4, Dotless DEF vfat_cmp
<1>7. Answers(t, n)
  <2>1. CASE t.long
    BY <1>6, <2>1 DEF Answers
  <2>2. CASE ~t.long
    <3>1. Is83(n.key) /\ (n.up \/ opts.shortname = "winnt")
      BY <1>4, <2>2
    <3>2. a = n.key
      BY <3>1 DEF Is83
    <3>3. t.lcase <=> ~n.up
      BY <1>2, <1>4, <3>1
    <3>4. opts.strict => opts.shortname # "lower"
      BY OptsRight
    <3>5. Displayed(t).key = n.key /\ (opts.strict => (Displayed(t).up <=> n.up))
      BY <1>2, <1>4, <3>2, <3>3, <3>4 DEF Displayed
    <3>6. opts.strict => Displayed(t).up = n.up
      BY <1>2, <1>5, <3>5, DisplayedKey DEF Spelled
    <3> QED
      BY <3>5, <3>6 DEF Answers, vfat_cmp
  <2> QED
    BY <2>1, <2>2
<1>8. Answers(t, t.name)
  BY <1>4, <1>5, <1>6, <1>7, AnswersSame, Dotless
<1>9. EntryRight(t)
  BY <1>4, <1>6, <1>8, Dotless DEF EntryRight
<1>10. \A e \in entries : e.alias # t.alias
  BY <1>1, <1>4 DEF fat_scan
<1> QED
  BY <1>3, <1>4, <1>5, <1>6, <1>7, <1>9, <1>10

(* It has a node of its own, and answers to no name that another answers to.   *)
LEMMA EntryAdded ==
  ASSUME NEW es \in SUBSET Slots, EntriesRight(es), NEW t \in Slots, EntryRight(t), Aliases[t.alias] = {t.alias},
         \A e \in es : e.alias # t.alias /\ e.node # t.node /\ ~Answers(e, t.name)
  PROVE  EntriesRight(es \cup {t})
<1>1. ASSUME NEW e \in es, NEW n \in Spelled, Answers(e, n), Answers(t, n)
      PROVE  FALSE
  <2>1. e \in Slots /\ EntryRight(e)
    BY DEF EntriesRight
  <2>2. t.name \in Spelled
    BY DEF Slots
  <2>3. CASE n.key = t.alias
    <3>1. e.name.key = t.alias
      BY <1>1, <2>1, <2>3, AnsweredKey
    <3>2. Is83(e.name.key)
      BY <3>1 DEF Is83
    <3> QED
      BY <2>1, <3>1, <3>2, AliasOf
  <2>4. CASE vfat_cmp(t.name, n)
    <3>1. vfat_cmp(n, t.name)
      BY <2>2, <2>4, Compared
    <3> QED
      BY <1>1, <2>1, <2>2, <3>1, AnswersSame
  <2> QED
    BY <1>1, <2>3, <2>4, AnsweredKey
<1> QED
  BY <1>1 DEF EntriesRight

LEMMA FewerEntries ==
  ASSUME NEW es, NEW fs \in SUBSET es, EntriesRight(es)
  PROVE  EntriesRight(fs)
BY DEF EntriesRight

-----------------------------------------------------------------------------
(* A lookup.                                                                  *)

LEMMA FoundNode ==
  ASSUME NamesTypeOK, NEW n
  PROVE  \/ NodeFound(n) = Absent /\ \A e \in entries : ~Answers(e, n)
         \/ NodeFound(n) \in Nodes /\ NodeFound(n) # Absent
            /\ \E e \in entries : e.node = NodeFound(n) /\ Answers(e, n)
<1>1. CASE vfat_find(n) = {}
  BY <1>1 DEF NodeFound, vfat_find
<1>2. CASE vfat_find(n) # {}
  <2>1. PICK e \in vfat_find(n) : NodeFound(n) = e.node
    BY <1>2 DEF NodeFound
  <2>2. e \in entries /\ Answers(e, n) /\ e.node \in Nodes
    BY <2>1 DEF vfat_find, NamesTypeOK, Slots
  <2> QED
    BY <2>1, <2>2, NodeAssumption
<1> QED
  BY <1>1, <1>2

LEMMA LookedRight ==
  ASSUME NamesTypeOK, EntriesRight(entries), NEW ds \in SUBSET Hashed, CacheRight(ds, entries, version),
         NEW n \in Spelled, NEW creating \in BOOLEAN
  PROVE  LET after == Looked(ds, n, creating)
             d     == Given(ds, n, creating)
         IN  /\ after \in SUBSET Hashed /\ CacheRight(after, entries, version)
             /\ d \in after /\ d.node = NodeFound(n)
             /\ ~Positive(d) => vfat_cmp(d.name, n) /\ \A e \in entries : ~Answers(e, d.name)
             /\ ~Positive(d) /\ creating => d.name.up = n.up
             /\ \A c \in ds : Positive(c) /\ c.node # d.node => c \in after
<1> DEFINE after == Looked(ds, n, creating)
           rest  == ds \ Cached(ds, n)
           node  == NodeFound(n)
           alias == {c \in rest : Positive(c) /\ c.node = node}
           d     == Given(ds, n, creating)
<1>a. ds \subseteq Hashed /\ \A c \in ds : c.name \in Spelled /\ c.node \in Nodes \cup {Absent} /\ c.time \in Nat
  BY DEF Hashed
<1>b. version \in Nat
  BY DEF NamesTypeOK
<1>1. CASE Hit(ds, n, creating) # {}
  <2>1. after = ds
    BY <1>1 DEF Looked
  <2>2. PICK h \in Hit(ds, n, creating) : TRUE
    BY <1>1
  <2>3. h \in ds /\ vfat_cmp(h.name, n) /\ Valid(h, creating) /\ h \in Cached(ds, n)
    BY <2>2 DEF Hit, Cached
  <2>4. \A c \in Cached(ds, n) : c = h
    <3> SUFFICES ASSUME NEW c \in Cached(ds, n) PROVE c = h
      OBVIOUS
    <3>1. c \in ds /\ vfat_cmp(c.name, n)
      BY DEF Cached
    <3>2. vfat_cmp(c.name, h.name)
      BY <1>a, <2>3, <3>1, Compared
    <3> QED
      BY <2>3, <3>1, <3>2 DEF CacheRight
  <2>5. d = h
    BY <2>1, <2>3, <2>4 DEF Given
  <2>6. Says(h, entries, version)
    BY <2>3 DEF CacheRight
  <2>7. ~Positive(h) => \A e \in entries : ~Answers(e, h.name)
    BY <2>3, <2>6 DEF Says, Valid
  <2>8. d.node = NodeFound(n)
    <3>1. CASE Positive(h)
      <4>1. PICK e \in entries : e.node = h.node /\ Answers(e, h.name)
        BY <2>6, <3>1 DEF Says
      <4>2. e \in Slots
        BY DEF NamesTypeOK
      <4>3. Answers(e, n)
        BY <1>a, <2>3, <4>1, <4>2, AnswersSame
      <4>4. PICK f \in entries : f.node = NodeFound(n) /\ Answers(f, n)
        BY <4>3, FoundNode
      <4>5. e = f
        BY <4>3, <4>4 DEF EntriesRight
      <4> QED
        BY <2>5, <4>1, <4>4, <4>5
    <3>2. CASE ~Positive(h)
      <4>1. \A e \in entries : ~Answers(e, n)
        <5> SUFFICES ASSUME NEW e \in entries, Answers(e, n) PROVE FALSE
          OBVIOUS
        <5>1. e \in Slots /\ vfat_cmp(n, h.name)
          BY <1>a, <2>3, Compared DEF NamesTypeOK
        <5> QED
          BY <1>a, <2>3, <2>7, <3>2, <5>1, AnswersSame
      <4>2. NodeFound(n) = Absent
        BY <4>1, FoundNode
      <4> QED
        BY <2>5, <3>2, <4>2 DEF Positive
    <3> QED
      BY <3>1, <3>2
  <2>9. ~Positive(h) /\ creating => h.name.up = n.up
    BY <2>3 DEF Valid, vfat_cmp
  <2> QED
    BY <1>a, <2>1, <2>3, <2>5, <2>7, <2>8, <2>9
<1>2. CASE Hit(ds, n, creating) = {}
  <2>1. /\ alias = {} => after = rest \cup {Dentry(n, node)}
        /\ alias # {} /\ node \in Directories => after = rest
        /\ alias # {} /\ node \notin Directories =>
             after = (rest \ alias) \cup {[c EXCEPT !.name = n] : c \in alias}
    BY <1>2 DEF Looked
  <2>2. rest \subseteq ds /\ \A c \in rest : ~vfat_cmp(c.name, n)
    BY DEF Cached
  <2>3. \A c \in rest : ~vfat_cmp(n, c.name)
    BY <1>a, <2>2, Compared
  <2>4. CacheRight(rest, entries, version)
    BY <2>2 DEF CacheRight
  <2>5. \A c \in ds : Positive(c) => c \in rest
    BY <1>2 DEF Hit, Cached, Valid
  <2>6. CASE alias = {}
    <3> DEFINE x == Dentry(n, node)
    <3>1. x.name = n /\ x.node = node /\ x.time = version /\ after = rest \cup {x}
      BY <2>1, <2>6 DEF Dentry
    <3>2. x \in Hashed
      BY <1>b, FoundNode DEF Dentry, Hashed
    <3>3. Says(x, entries, version)
      BY <1>b, <3>1, FoundNode DEF Says, Positive
    <3>4. \A c \in rest : Positive(c) => c.node # x.node
      BY <2>6, <3>1
    <3> HIDE DEF x, after, rest, alias
    <3>5. CacheRight(after, entries, version)
      <4>1. \A c \in after : Says(c, entries, version)
        BY <2>4, <3>1, <3>3 DEF CacheRight
      <4>2. \A b, c \in after : vfat_cmp(b.name, c.name) => b = c
        BY <2>2, <2>3, <2>4, <3>1 DEF CacheRight
      <4>3. \A b, c \in after : Positive(b) /\ b.node = c.node => b = c
        BY <2>4, <3>1, <3>4 DEF CacheRight, Positive
      <4> QED
        BY <4>1, <4>2, <4>3 DEF CacheRight
    <3>6. vfat_cmp(n, n)
      BY Compared
    <3>7. Cached(after, n) = {x}
      BY <2>2, <3>1, <3>6 DEF Cached
    <3>8. d = x
      BY <3>7 DEF Given, after
    <3>9. ~Positive(x) => \A e \in entries : ~Answers(e, n)
      BY <3>1, FoundNode DEF Positive
    <3> QED
      BY <1>a, <2>2, <2>5, <3>1, <3>2, <3>5, <3>6, <3>8, <3>9 DEF after
  <2>7. CASE alias # {}
    <3>1. PICK x \in alias : TRUE
      BY <2>7
    <3>2. x \in rest /\ Positive(x) /\ x.node = node /\ x \in Hashed
      BY <1>a, <2>2
    <3>3. \A c \in rest : c.node = node => c = x
      BY <2>4, <3>2 DEF CacheRight
    <3>4. alias = {x}
      BY <3>2, <3>3
    <3>5. node # Absent
      BY <3>2 DEF Positive
    <3>6. CASE node \in Directories
      <4>1. after = rest
        BY <2>1, <2>7, <3>6
      <4>2. Cached(after, n) = {}
        BY <2>2, <4>1 DEF Cached
      <4>3. d \in after /\ d.node = node
        BY <3>2, <4>1, <4>2 DEF Given
      <4> HIDE DEF after, d, rest, alias
      <4> QED
        BY <1>a, <2>2, <2>4, <2>5, <3>5, <4>1, <4>3 DEF after, d, Positive
    <3>7. CASE node \notin Directories
      <4> DEFINE y == [x EXCEPT !.name = n]
      <4>1. y.name = n /\ y.node = node /\ y.time = x.time /\ y \in Hashed
        BY <3>2 DEF Hashed
      <4>2. after = (rest \ {x}) \cup {y}
        BY <2>1, <2>7, <3>4, <3>7
      <4>3. Says(y, entries, version)
        <5>1. x.time <= version
          BY <2>4, <3>2 DEF CacheRight, Says
        <5> QED
          BY <3>5, <4>1, <5>1, FoundNode DEF Says, Positive
      <4> HIDE DEF y, after, d, rest, alias
      <4>4. CacheRight(after, entries, version)
        <5>1. \A c \in after : Says(c, entries, version)
          BY <2>4, <4>2, <4>3 DEF CacheRight
        <5>2. \A b, c \in after : vfat_cmp(b.name, c.name) => b = c
          BY <2>2, <2>3, <2>4, <4>1, <4>2 DEF CacheRight
        <5>3. \A b, c \in after : Positive(b) /\ b.node = c.node => b = c
          BY <2>4, <3>3, <4>1, <4>2 DEF CacheRight, Positive
        <5> QED
          BY <5>1, <5>2, <5>3 DEF CacheRight
      <4>5. vfat_cmp(n, n)
        BY Compared
      <4>6. Cached(after, n) = {y}
        BY <2>2, <4>1, <4>2, <4>5 DEF Cached
      <4>7. d = y
        BY <4>6 DEF Given, after, d
      <4>8. \A c \in ds : Positive(c) /\ c.node # node => c \in after
        BY <2>5, <3>2, <4>2
      <4> QED
        BY <1>a, <2>2, <3>5, <4>1, <4>2, <4>4, <4>7, <4>8 DEF after, d, Positive
    <3> QED
      BY <3>6, <3>7
  <2> QED
    BY <2>6, <2>7
<1> QED
  BY <1>1, <1>2

-----------------------------------------------------------------------------
(* The operations.                                                            *)

LEMMA SameOpts ==
  ASSUME opts' = opts, opts \in Displays \cup {NoOpts}, version' \in Nat \ {0},
         entries' \in SUBSET Slots, dentries' \in SUBSET Hashed,
         EntriesRight(entries'), CacheRight(dentries', entries', version')
  PROVE  NamesInv'
<1>1. NamesTypeOK'
  BY DEF NamesTypeOK, Slots, Hashed, Spelled
<1>2. ASSUME NEW e, NEW n
      PROVE  Answers(e, n)' <=> Answers(e, n)
  BY DEF Answers, vfat_cmp, Displayed
<1>3. ASSUME NEW m, NEW n
      PROVE  vfat_cmp(m, n)' <=> vfat_cmp(m, n)
  BY DEF vfat_cmp
<1>4. EntriesRight(entries)'
  BY <1>2 DEF EntriesRight, EntryRight, Spelled
<1>5. CacheRight(dentries, entries, version)'
  BY <1>2, <1>3 DEF CacheRight, Says, Positive
<1> QED
  BY <1>1, <1>4, <1>5 DEF NamesInv

(* A later version makes what was said of absent names void.                   *)
LEMMA LaterRight ==
  ASSUME NEW ds \in SUBSET Hashed, CacheRight(ds, entries, version), version \in Nat,
         NEW v \in Nat, v > version, NEW es, NEW cs \in SUBSET ds,
         \A c \in cs : Positive(c) => \E e \in es : e.node = c.node /\ Answers(e, c.name)
  PROVE  CacheRight(cs, es, v)
<1>1. \A c \in cs : c.time \in Nat /\ c.time <= version
  BY DEF Hashed, CacheRight, Says
<1>2. \A c \in cs : Says(c, es, v)
  BY <1>1 DEF Says
<1> QED
  BY <1>2 DEF CacheRight

(* One more dentry.                                                           *)
LEMMA DentryAdded ==
  ASSUME NEW ds, NEW es, NEW v, CacheRight(ds, es, v), NEW y, Says(y, es, v),
         \A c \in ds : ~vfat_cmp(c.name, y.name) /\ ~vfat_cmp(y.name, c.name),
         Positive(y) => \A c \in ds : c.node # y.node
  PROVE  CacheRight(ds \cup {y}, es, v)
BY DEF CacheRight, Positive

LEMMA LookUpStep ==
  ASSUME NamesInv, NEW n \in Asked, LookUp(n)
  PROVE  NamesInv'
<1>1. n \in Spelled
  BY AskedAssumption DEF Spelled
<1>2. dentries' \in SUBSET Hashed /\ CacheRight(dentries', entries, version)
  BY <1>1, LookedRight DEF LookUp, NamesInv, NamesTypeOK
<1>3. /\ version \in Nat /\ version > 0 /\ version' = version /\ opts' = opts /\ entries' = entries
      /\ opts \in Displays \cup {NoOpts} /\ entries \in SUBSET Slots /\ EntriesRight(entries)
  BY DEF LookUp, NamesInv, NamesTypeOK
<1>4. version' \in Nat \ {0}
  BY <1>3
<1> QED
  BY <1>2, <1>3, <1>4, SameOpts

LEMMA PruneStep ==
  ASSUME NamesInv, NEW d \in dentries, Prune(d)
  PROVE  NamesInv'
<1>1. CacheRight(dentries', entries, version) /\ dentries' \subseteq dentries
  BY DEF Prune, NamesInv, CacheRight
<1>2. version # 0
  BY DEF NamesInv, NamesTypeOK
<1> QED
  BY <1>1, <1>2, SameOpts DEF Prune, NamesInv, NamesTypeOK

LEMMA MakeStep ==
  ASSUME NamesInv, NEW n \in Asked, NEW node \in Nodes, Make(n, node),
         \A o \in Displays : ~(o.strict /\ o.shortname = "lower")
  PROVE  NamesInv'
<1> DEFINE after == Looked(dentries, n, TRUE)
           d     == Given(dentries, n, TRUE)
<1>1. n \in Spelled
  BY AskedAssumption DEF Spelled
<1>a. version \in 1..(MaxVersion - 1) /\ version \in Nat
  BY DEF Make, NamesInv, NamesTypeOK
<1>b. version > 0
  BY <1>a
<1>2. /\ version \in Nat /\ version > 0 /\ ~Positive(d) /\ UNCHANGED opts
      /\ \A e \in entries : e.node # node
  BY <1>a, <1>b DEF Make
<1>3. NamesTypeOK /\ EntriesRight(entries) /\ opts \in Displays \cup {NoOpts} /\ entries \in SUBSET Slots
  BY DEF NamesInv, NamesTypeOK
<1>4. /\ after \in SUBSET Hashed /\ CacheRight(after, entries, version) /\ d \in after
      /\ \A e \in entries : ~Answers(e, d.name)
      /\ d.name.up = n.up
  BY <1>1, <1>2, LookedRight DEF NamesInv, NamesTypeOK
<1>5. \/ dentries' = (after \ {d}) \cup {d} /\ UNCHANGED <<entries, version>>
      \/ \E e \in Built(d.name, node, n) :
           /\ entries' = entries \cup {e} /\ version' = version + 1
           /\ \/ dentries' = (after \ {d}) \cup {[d EXCEPT !.node = node, !.time = version']}
              \/ dentries' = (after \ {d}) \cup {d}
  BY DEF Make, AfterAdd
<1> HIDE DEF after, d
<1>6. d \in Hashed /\ d.name \in Spelled
  BY <1>4 DEF Hashed
<1>7. CASE dentries' = (after \ {d}) \cup {d} /\ UNCHANGED <<entries, version>>
  <2>1. dentries' = after
    BY <1>4, <1>7
  <2> QED
    BY <1>2, <1>3, <1>4, <1>7, <2>1, SameOpts
<1>8. ASSUME NEW e \in Built(d.name, node, n), entries' = entries \cup {e}, version' = version + 1,
             \/ dentries' = (after \ {d}) \cup {[d EXCEPT !.node = node, !.time = version']}
             \/ dentries' = (after \ {d}) \cup {d}
      PROVE  NamesInv'
  <2>1. /\ e \in Slots /\ EntryRight(e) /\ e.node = node /\ \A f \in entries : f.alias # e.alias
        /\ vfat_cmp(e.name, d.name) /\ Answers(e, d.name) /\ Aliases[e.alias] = {e.alias}
    BY <1>1, <1>3, <1>4, <1>6, BuiltRight
  <2>2. \A f \in entries : ~Answers(f, e.name)
    <3> SUFFICES ASSUME NEW f \in entries, Answers(f, e.name) PROVE FALSE
      OBVIOUS
    <3>1. f \in Slots /\ e.name \in Spelled
      BY <1>3, <2>1 DEF Slots
    <3>2. Answers(f, d.name)
      BY <1>6, <2>1, <3>1, AnswersSame
    <3> QED
      BY <1>4, <3>2
  <2>3. EntriesRight(entries') /\ entries' \in SUBSET Slots
    BY <1>2, <1>3, <1>8, <2>1, <2>2, EntryAdded
  <2>4. \A c \in after : Positive(c) => \E f \in entries : f.node = c.node /\ Answers(f, c.name)
    BY <1>4 DEF CacheRight, Says
  <2>5. version' \in Nat /\ version' > version
    BY <1>2, <1>8
  <2>6. CacheRight(after, entries', version')
    BY <1>2, <1>4, <1>8, <2>4, <2>5, LaterRight
  <2>7. CASE dentries' = (after \ {d}) \cup {d}
    <3>1. dentries' = after
      BY <1>4, <2>7
    <3> QED
      BY <1>2, <1>3, <1>4, <2>3, <2>5, <2>6, <3>1, SameOpts
  <2>8. CASE dentries' = (after \ {d}) \cup {[d EXCEPT !.node = node, !.time = version']}
    <3> DEFINE y == [d EXCEPT !.node = node, !.time = version']
    <3>1. y.name = d.name /\ y.node = node /\ y.time = version' /\ y \in Hashed
      BY <1>6, <2>5 DEF Hashed
    <3>2. dentries' = (after \ {d}) \cup {y}
      BY <2>8
    <3> HIDE DEF y
    <3>3. Positive(y)
      BY <3>1, NodeAssumption DEF Positive
    <3>4. Says(y, entries', version')
      BY <1>8, <2>1, <2>5, <3>1, <3>3 DEF Says
    <3>5. \A c \in after \ {d} : ~vfat_cmp(c.name, y.name) /\ ~vfat_cmp(y.name, c.name)
      BY <1>4, <3>1 DEF CacheRight
    <3>6. \A c \in after \ {d} : c.node # y.node
      BY <1>2, <2>4, <3>1, <3>3 DEF Positive
    <3>7. CacheRight(after \ {d}, entries', version')
      BY <2>6 DEF CacheRight
    <3>8. CacheRight(dentries', entries', version')
      BY <3>2, <3>4, <3>5, <3>6, <3>7, DentryAdded
    <3> QED
      BY <1>2, <1>3, <1>4, <2>3, <2>5, <3>1, <3>2, <3>8, SameOpts
  <2> QED
    BY <1>8, <2>7, <2>8
<1> QED
  BY <1>5, <1>7, <1>8

LEMMA DeleteStep ==
  ASSUME NamesInv, NEW n \in Asked, Delete(n)
  PROVE  NamesInv'
<1> DEFINE after == Looked(dentries, n, FALSE)
           d     == Given(dentries, n, FALSE)
<1>1. n \in Spelled
  BY AskedAssumption DEF Spelled
<1>2. /\ version \in Nat /\ version' = version + 1 /\ Positive(d) /\ UNCHANGED opts
      /\ \E e \in vfat_find(d.name) : entries' = entries \ {e}
      /\ \/ dentries' = after \ {d}
         \/ dentries' = (after \ {d}) \cup {[d EXCEPT !.node = Absent]}
  BY DEF Delete, NamesInv, NamesTypeOK
<1>3. NamesTypeOK /\ EntriesRight(entries) /\ opts \in Displays \cup {NoOpts} /\ entries \in SUBSET Slots
  BY DEF NamesInv, NamesTypeOK
<1>4. /\ after \in SUBSET Hashed /\ CacheRight(after, entries, version) /\ d \in after
  BY <1>1, LookedRight DEF NamesInv, NamesTypeOK
<1> HIDE DEF after, d
<1>5. d \in Hashed /\ d.name \in Spelled /\ d.time \in Nat /\ Says(d, entries, version)
  BY <1>4 DEF Hashed, CacheRight
<1>6. PICK e \in entries : entries' = entries \ {e} /\ Answers(e, d.name)
  BY <1>2 DEF vfat_find
<1>7. e.node = d.node
  BY <1>2, <1>3, <1>5, <1>6 DEF Says, EntriesRight
<1>8. EntriesRight(entries') /\ entries' \in SUBSET Slots
  BY <1>3, <1>6, FewerEntries
<1>9. \A c \in after \ {d} : Positive(c) => \E f \in entries' : f.node = c.node /\ Answers(f, c.name)
  <2> SUFFICES ASSUME NEW c \in after \ {d}, Positive(c)
               PROVE  \E f \in entries' : f.node = c.node /\ Answers(f, c.name)
    OBVIOUS
  <2>1. PICK f \in entries : f.node = c.node /\ Answers(f, c.name)
    BY <1>4 DEF CacheRight, Says
  <2>2. c.node # d.node
    BY <1>4 DEF CacheRight
  <2> QED
    BY <1>6, <1>7, <2>1, <2>2
<1>10. version' \in Nat \ {0} /\ version' > version
  BY <1>2
<1>11. CacheRight(after \ {d}, entries', version')
  BY <1>2, <1>4, <1>9, <1>10, LaterRight
<1>12. CASE dentries' = after \ {d}
  BY <1>2, <1>3, <1>4, <1>8, <1>10, <1>11, <1>12, SameOpts
<1>13. CASE dentries' = (after \ {d}) \cup {[d EXCEPT !.node = Absent]}
  <2> DEFINE y == [d EXCEPT !.node = Absent]
  <2>1. y.name = d.name /\ y.node = Absent /\ y.time = d.time /\ y \in Hashed
    BY <1>5 DEF Hashed
  <2>2. dentries' = (after \ {d}) \cup {y}
    BY <1>13
  <2> HIDE DEF y
  <2>3. ~Positive(y)
    BY <2>1 DEF Positive
  <2>4. Says(y, entries', version')
    BY <1>2, <1>5, <1>10, <2>1, <2>3 DEF Says
  <2>5. \A c \in after \ {d} : ~vfat_cmp(c.name, y.name) /\ ~vfat_cmp(y.name, c.name)
    BY <1>4, <2>1 DEF CacheRight
  <2>6. CacheRight(dentries', entries', version')
    BY <1>11, <2>2, <2>3, <2>4, <2>5, DentryAdded
  <2> QED
    BY <1>2, <1>3, <1>4, <1>8, <1>10, <2>1, <2>2, <2>6, SameOpts
<1> QED
  BY <1>2, <1>12, <1>13

(* A rename: the dentry of the old name takes the new one.                     *)
Moved(ds, old, new) ==
  (ds \ ({d \in ds : Positive(d) /\ d.node = old.node} \cup {new}))
    \cup {[d EXCEPT !.name = new.name] : d \in {d \in ds : Positive(d) /\ d.node = old.node}}

LEMMA DentryMoved ==
  ASSUME NEW ds \in SUBSET Hashed, CacheRight(ds, entries, version), version \in Nat, NEW v \in Nat, v > version,
         NEW old \in ds, NEW new \in ds, Positive(old), old.node # new.node,
         NEW es, \E e \in es : e.node = old.node /\ Answers(e, new.name),
         \A c \in ds \ {old, new} : Positive(c) => \E e \in es : e.node = c.node /\ Answers(e, c.name)
  PROVE  Moved(ds, old, new) \in SUBSET Hashed /\ CacheRight(Moved(ds, old, new), es, v)
<1> DEFINE after == Moved(ds, old, new)
           moved == {d \in ds : Positive(d) /\ d.node = old.node}
           y == [old EXCEPT !.name = new.name]
<1>1. moved = {old}
  BY DEF CacheRight
<1>2. after = (ds \ {old, new}) \cup {y}
  BY <1>1 DEF Moved
<1>3. /\ y.name = new.name /\ y.node = old.node /\ y.time = old.time /\ y \in Hashed
      /\ old.time \in Nat
  BY DEF Hashed
<1> HIDE DEF moved, y, after
<1>4. CacheRight(ds \ {old, new}, es, v)
  BY LaterRight
<1>5. old.time <= version
  BY DEF CacheRight, Says
<1>6. Says(y, es, v)
  BY <1>3, <1>5 DEF Says, Positive
<1>7. \A c \in ds \ {old, new} : /\ ~vfat_cmp(c.name, y.name) /\ ~vfat_cmp(y.name, c.name)
                                 /\ c.node # y.node
  BY <1>3 DEF CacheRight
<1>8. CacheRight(after, es, v)
  BY <1>2, <1>4, <1>6, <1>7, DentryAdded
<1> QED
  BY <1>2, <1>3, <1>8 DEF after

LEMMA ReplacedRight ==
  ASSUME NamesTypeOK, EntriesRight(entries), NEW old \in Hashed, NEW new \in Hashed,
         Says(old, entries, version), Says(new, entries, version),
         Positive(old), Positive(new), old.node # new.node, NEW es \in Replaced(old, new)
  PROVE  /\ es \in SUBSET Slots /\ EntriesRight(es)
         /\ \E e \in es : e.node = old.node /\ Answers(e, new.name)
         /\ \A f \in entries : f.node # old.node /\ f.node # new.node => f \in es
<1>1. PICK e \in vfat_find(old.name), t \in {t \in entries : t.node = new.node} :
        es = (entries \ {e, t}) \cup {[t EXCEPT !.node = old.node]}
  BY DEF Replaced
<1>2. e \in entries /\ Answers(e, old.name) /\ t \in entries /\ t.node = new.node
  BY <1>1 DEF vfat_find
<1>3. entries \subseteq Slots /\ e \in Slots /\ t \in Slots /\ old.name \in Spelled /\ new.name \in Spelled
  BY <1>2 DEF NamesTypeOK, Hashed
<1>4. e.node = old.node
  BY <1>2, <1>3 DEF Says, EntriesRight
<1>5. Answers(t, new.name)
  BY <1>2 DEF Says, EntriesRight
<1> DEFINE s == [t EXCEPT !.node = old.node]
<1>6. old.node \in Nodes
  BY DEF Hashed, Positive
<1>7. /\ s \in Slots /\ s.node = old.node /\ s.name = t.name /\ s.alias = t.alias
      /\ s.wanted = t.wanted /\ s.long = t.long /\ s.lcase = t.lcase
  BY <1>3, <1>6 DEF Slots
<1>8. es = (entries \ {e, t}) \cup {s}
  BY <1>1
<1> HIDE DEF s
<1>9. ASSUME NEW m PROVE Answers(s, m) <=> Answers(t, m)
  BY <1>7 DEF Answers, Displayed
<1>10. EntryRight(s)
  BY <1>2, <1>7, <1>9 DEF EntriesRight, EntryRight
<1>11. \A f \in entries \ {e, t} : f.node # s.node
  BY <1>2, <1>4, <1>7 DEF EntriesRight
<1>12. \A f \in entries \ {e, t} : \A m \in Spelled : ~(Answers(f, m) /\ Answers(s, m))
  BY <1>2, <1>9 DEF EntriesRight
<1>13. EntriesRight(entries \ {e, t})
  BY FewerEntries
<1>14. EntriesRight(es)
  BY <1>8, <1>10, <1>11, <1>12, <1>13 DEF EntriesRight
<1>15. \A f \in entries : f.node # old.node /\ f.node # new.node => f \in es
  BY <1>2, <1>4, <1>8
<1> QED
  BY <1>3, <1>5, <1>7, <1>8, <1>9, <1>14, <1>15

LEMMA RenamedRight ==
  ASSUME NamesTypeOK, EntriesRight(entries), NEW old \in Hashed, NEW new \in Hashed, Says(old, entries, version),
         Positive(old), \A e \in entries : ~Answers(e, new.name), NEW n \in Spelled, new.name.up = n.up,
         NEW es \in Renamed(old, new, n), \A o \in Displays : ~(o.strict /\ o.shortname = "lower")
  PROVE  /\ es \in SUBSET Slots /\ EntriesRight(es)
         /\ \E e \in es : e.node = old.node /\ Answers(e, new.name)
         /\ \A f \in entries : f.node # old.node => f \in es
<1>1. PICK e \in vfat_find(old.name), t \in Built(new.name, old.node, n) : es = (entries \ {e}) \cup {t}
  BY DEF Renamed
<1>2. e \in entries /\ Answers(e, old.name)
  BY <1>1 DEF vfat_find
<1>3. entries \subseteq Slots /\ e \in Slots /\ old.name \in Spelled /\ new.name \in Spelled /\ old.node \in Nodes
  BY <1>2 DEF NamesTypeOK, Hashed, Positive
<1>4. e.node = old.node
  BY <1>2, <1>3 DEF Says, EntriesRight
<1>5. /\ t \in Slots /\ EntryRight(t) /\ t.node = old.node /\ \A f \in entries : f.alias # t.alias
      /\ vfat_cmp(t.name, new.name) /\ Answers(t, new.name) /\ Aliases[t.alias] = {t.alias}
  BY <1>1, <1>3, BuiltRight
<1>6. \A f \in entries : ~Answers(f, t.name)
  BY <1>3, <1>5, AnswersSame DEF Slots
<1>7. \A f \in entries \ {e} : f.node # t.node
  BY <1>2, <1>4, <1>5 DEF EntriesRight
<1>8. EntriesRight(entries \ {e}) /\ entries \ {e} \in SUBSET Slots
  BY <1>3, FewerEntries
<1>9. EntriesRight(es)
  BY <1>1, <1>5, <1>6, <1>7, <1>8, EntryAdded
<1> QED
  BY <1>1, <1>3, <1>4, <1>5, <1>9

LEMMA RenameStep ==
  ASSUME NamesInv, NEW o \in Asked, NEW n \in Asked, Rename(o, n),
         \A p \in Displays : ~(p.strict /\ p.shortname = "lower")
  PROVE  NamesInv'
<1> DEFINE first == Looked(dentries, o, FALSE)
           old   == Given(dentries, o, FALSE)
           both  == Looked(first, n, TRUE)
           new   == Given(first, n, TRUE)
<1>1. o \in Spelled /\ n \in Spelled
  BY AskedAssumption DEF Spelled
<1>2. NamesTypeOK /\ EntriesRight(entries) /\ opts \in Displays \cup {NoOpts} /\ entries \in SUBSET Slots
  BY DEF NamesInv, NamesTypeOK
<1>3. version \in 1..(MaxVersion - 3) /\ version \in Nat
  BY <1>2 DEF Rename, NamesTypeOK
<1>4. version \in Nat /\ version > 0
  BY <1>3
<1>5. first \in SUBSET Hashed /\ CacheRight(first, entries, version) /\ old \in first
  BY <1>1, LookedRight DEF NamesInv, NamesTypeOK
<1>6. Positive(old) /\ old.node # new.node /\ opts' = opts
  BY DEF Rename
<1>7. \/ /\ entries' \in IF Positive(new) THEN Replaced(old, new) ELSE Renamed(old, new, n)
         /\ version' = AfterAdd(version) + 2 /\ dentries' = Moved(both, old, new)
      \/ /\ version' \in {version} \cup (IF Positive(new) THEN {version + 1} ELSE {version + 2})
         /\ dentries' = both /\ entries' = entries
  BY Zenon DEF Rename, Moved
<1> HIDE DEF first, old
<1>8. /\ both \in SUBSET Hashed /\ CacheRight(both, entries, version) /\ new \in both
      /\ ~Positive(new) => (\A e \in entries : ~Answers(e, new.name)) /\ new.name.up = n.up
      /\ \A c \in first : Positive(c) /\ c.node # new.node => c \in both
  BY <1>1, <1>2, <1>5, LookedRight
<1> HIDE DEF both, new
<1>9. old \in both /\ old \in Hashed /\ new \in Hashed /\ Says(old, entries, version) /\ Says(new, entries, version)
  BY <1>5, <1>6, <1>8 DEF CacheRight
<1>10. CASE /\ entries' \in IF Positive(new) THEN Replaced(old, new) ELSE Renamed(old, new, n)
            /\ version' = AfterAdd(version) + 2 /\ dentries' = Moved(both, old, new)
  <2>1. /\ entries' \in SUBSET Slots /\ EntriesRight(entries')
        /\ \E e \in entries' : e.node = old.node /\ Answers(e, new.name)
        /\ \A f \in entries : f.node # old.node /\ f.node # new.node => f \in entries'
    <3>1. CASE Positive(new)
      BY <1>2, <1>6, <1>9, <1>10, <3>1, ReplacedRight
    <3>2. CASE ~Positive(new)
      BY <1>1, <1>2, <1>6, <1>8, <1>9, <1>10, <3>2, RenamedRight
    <3> QED
      BY <3>1, <3>2
  <2>2. \A c \in both \ {old, new} : Positive(c) => \E e \in entries' : e.node = c.node /\ Answers(e, c.name)
    <3> SUFFICES ASSUME NEW c \in both \ {old, new}, Positive(c)
                 PROVE  \E e \in entries' : e.node = c.node /\ Answers(e, c.name)
      OBVIOUS
    <3>1. PICK f \in entries : f.node = c.node /\ Answers(f, c.name)
      BY <1>8 DEF CacheRight, Says
    <3>2. c.node # old.node /\ c.node # new.node
      BY <1>8, <1>9 DEF CacheRight
    <3> QED
      BY <2>1, <3>1, <3>2
  <2>3. version' \in Nat \ {0} /\ version' \in Nat /\ version' > version
    BY <1>4, <1>10 DEF AfterAdd
  <2>4. dentries' \in SUBSET Hashed /\ CacheRight(dentries', entries', version')
    BY <1>4, <1>6, <1>8, <1>9, <1>10, <2>1, <2>2, <2>3, DentryMoved
  <2> QED
    BY <1>2, <1>6, <2>1, <2>3, <2>4, SameOpts
<1>11. CASE /\ version' \in {version} \cup (IF Positive(new) THEN {version + 1} ELSE {version + 2})
            /\ dentries' = both /\ entries' = entries
  <2>1. version' \in Nat \ {0} /\ (version' = version \/ version' > version)
    BY <1>4, <1>11
  <2>2. CASE version' = version
    BY <1>2, <1>6, <1>8, <1>11, <2>1, <2>2, SameOpts
  <2>3. CASE version' > version
    <3>1. \A c \in both : Positive(c) => \E e \in entries : e.node = c.node /\ Answers(e, c.name)
      BY <1>8 DEF CacheRight, Says
    <3>2. CacheRight(both, entries, version')
      BY <1>4, <1>8, <2>1, <2>3, <3>1, LaterRight
    <3> QED
      BY <1>2, <1>6, <1>8, <1>11, <2>1, <3>2, SameOpts
  <2> QED
    BY <2>1, <2>2, <2>3
<1> QED
  BY <1>7, <1>10, <1>11

LEMMA NamesInitOK == VfatInit => NamesInv
BY DEF VfatInit, NamesInv, NamesTypeOK, EntriesRight, CacheRight

LEMMA NamesStep ==
  ASSUME NamesInv, [VfatNext]_vfatVars, \A o \in Displays : ~(o.strict /\ o.shortname = "lower")
  PROVE  NamesInv'
<1>1. CASE ReadDirectory
  BY <1>1 DEF ReadDirectory, NamesInv, NamesTypeOK, EntriesRight, CacheRight
<1>2. CASE Forget
  BY <1>2 DEF Forget, NamesInv, NamesTypeOK, EntriesRight, CacheRight
<1>3. ASSUME NEW n \in Asked, LookUp(n)
      PROVE  NamesInv'
  BY <1>3, LookUpStep
<1>4. ASSUME NEW n \in Asked, Delete(n)
      PROVE  NamesInv'
  BY <1>4, DeleteStep
<1>5. ASSUME NEW n \in Asked, NEW node \in Nodes, Make(n, node)
      PROVE  NamesInv'
  BY <1>5, MakeStep
<1>6. ASSUME NEW o \in Asked, NEW n \in Asked, Rename(o, n)
      PROVE  NamesInv'
  BY <1>6, RenameStep
<1>7. ASSUME NEW d \in dentries, Prune(d)
      PROVE  NamesInv'
  BY <1>7, PruneStep
<1>8. CASE UNCHANGED vfatVars
  <2>1. opts' = opts /\ entries' = entries /\ dentries' = dentries /\ version' = version
    BY <1>8 DEF vfatVars
  <2>2. CASE version = 0
    BY <2>1, <2>2 DEF NamesInv, NamesTypeOK, EntriesRight, CacheRight
  <2>3. CASE version # 0
    BY <2>1, <2>3, SameOpts DEF NamesInv, NamesTypeOK
  <2> QED
    BY <2>2, <2>3
<1> QED
  BY <1>1, <1>2, <1>3, <1>4, <1>5, <1>6, <1>7, <1>8 DEF VfatNext

LEMMA NotTwo ==
  ASSUME NEW S, \A x, y \in S : x = y
  PROVE  Cardinality(S) <= 1
<1>1. CASE S = {}
  BY <1>1, FS_EmptySet
<1>2. CASE S # {}
  <2>1. PICK x \in S : S = {x}
    BY <1>2
  <2> QED
    BY <2>1, FS_Singleton
<1> QED
  BY <1>1, <1>2

LEMMA NamesTrue == NamesInv => CacheTrue
<1> SUFFICES ASSUME NamesInv PROVE CacheTrue
  OBVIOUS
<1>1. /\ EntriesRight(entries) /\ CacheRight(dentries, entries, version)
      /\ entries \subseteq Slots /\ dentries \subseteq Hashed
  BY DEF NamesInv, NamesTypeOK
<1>2. ASSUME NEW d \in dentries, Valid(d, FALSE)
      PROVE  IF Positive(d) THEN {e.node : e \in vfat_find(d.name)} = {d.node}
             ELSE vfat_find(d.name) = {}
  <2>1. Says(d, entries, version) /\ d.name \in Spelled
    BY <1>1 DEF CacheRight, Hashed
  <2>2. CASE Positive(d)
    <3>1. PICK e \in entries : e.node = d.node /\ Answers(e, d.name)
      BY <2>1, <2>2 DEF Says
    <3>2. vfat_find(d.name) = {e}
      BY <1>1, <2>1, <3>1 DEF vfat_find, EntriesRight
    <3> QED
      BY <2>2, <3>1, <3>2
  <2>3. CASE ~Positive(d)
    BY <1>2, <2>1, <2>3 DEF Says, Valid, vfat_find
  <2> QED
    BY <2>2, <2>3
<1>3. ASSUME NEW n \in Asked
      PROVE  Cardinality(vfat_find(n)) <= 1 /\ Cardinality(Cached(dentries, n)) <= 1
  <2>1. n \in Spelled
    BY AskedAssumption DEF Spelled
  <2>2. \A e, f \in vfat_find(n) : e = f
    BY <1>1, <2>1 DEF vfat_find, EntriesRight
  <2>3. \A c, d \in Cached(dentries, n) : c = d
    <3> SUFFICES ASSUME NEW c \in Cached(dentries, n), NEW d \in Cached(dentries, n) PROVE c = d
      OBVIOUS
    <3>1. /\ c \in dentries /\ vfat_cmp(c.name, n) /\ d \in dentries /\ vfat_cmp(d.name, n)
          /\ c.name \in Spelled /\ d.name \in Spelled
      BY <1>1 DEF Cached, Hashed
    <3>2. vfat_cmp(c.name, d.name)
      BY <2>1, <3>1, Compared
    <3> QED
      BY <1>1, <3>1, <3>2 DEF CacheRight
  <2> QED
    BY <2>2, <2>3, NotTwo
<1>4. \A e \in entries : e.name.up = e.wanted.up
  BY <1>1 DEF EntriesRight, EntryRight
<1> QED
  BY <1>2, <1>3, <1>4 DEF CacheTrue

(* What the dentry cache answers for a name without the driver is what the     *)
(* directory holds, no name finds two entries or two dentries, and an entry is *)
(* called as its maker wrote it (vfat_revalidate, vfat_revalidate_ci,          *)
(* vfat_lookup, vfat_create, vfat_unlink, vfat_rename): for any set of names,  *)
(* aliases and files, unless the directory is mounted with check=strict and    *)
(* shortname=lower at once, when a name in capitals may not find itself.       *)
THEOREM CacheIsTrue ==
  ASSUME \A o \in Displays : ~(o.strict /\ o.shortname = "lower")
  PROVE  MountedSpec => []CacheTrue
<1>1. VfatInit => NamesInv
  BY NamesInitOK
<1>2. NamesInv /\ [MountedNext]_<<vars, attrVars, vfatVars>> => NamesInv'
  BY NamesStep, VfatSteps
<1>3. NamesInv => CacheTrue
  BY NamesTrue
<1>4. MountedInit => VfatInit
  BY DEF MountedInit
<1> QED
  BY <1>1, <1>2, <1>3, <1>4, PTL DEF MountedSpec
=============================================================================
