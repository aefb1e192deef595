-------------------------- MODULE MsdosNames_proofs --------------------------
(* Proofs about the name operations of the msdos driver, in two parts: the    *)
(* shape of the tree, and what its names are bound to.  First part: Structure *)
(* says at which stage the operation under lock_super is, that every name has *)
(* one slot and every slot at most one usable inode, and that the link counts *)
(* are high enough.  It is inductive when the write of a removed entry never  *)
(* fails ("remove"): with that failure an inode keeps the position of a free  *)
(* slot, and the next entry there gets a second inode.  The other calls may   *)
(* fail.                                                                      *)
EXTENDS MsdosNames, FiniteSetTheorems, TLAPS

-----------------------------------------------------------------------------
(* The inductive invariant.                                                   *)

Entry == [name : Names, data : Content, dir : BOOLEAN]
InodeSt == [st : {"none", "live", "freeing"}, pos : Pos \cup {None}, data : Content,
          dir : BOOLEAN, dirty : BOOLEAN]
OpKinds == {"none", "lookup", "create", "mkdir", "unlink", "rename", "undo", "corrupt"}
OpPcs   == {"none", "iget", "fill", "detach", "attach", "sync", "dotdot", "old", "undo",
            "corrupt", "undone"}
Ops == [kind : OpKinds, pc : OpPcs, nm : Name \cup {None}, to : Name \cup {None},
        ino : Inodes \cup {None}, tgt : Inodes \cup {None},
        x : Pos \cup {None}, y : Pos \cup {None}]
Flushes == [pc : {"idle", "pos", "write"}, ino : Inodes \cup {None}, pos : Pos \cup {None}]

TypeOK ==
  /\ entry \in [Pos -> Entry \cup {Deleted}]
  /\ dotdot \in [Tags -> Dirs \cup {None}]
  /\ nlink \in [Dirs -> Nat]
  /\ inode \in [Inodes -> InodeSt]
  /\ dcache \in [Name -> Inodes \cup {None}]
  /\ op \in Ops /\ flush \in Flushes /\ dirsync \in BOOLEAN
  /\ before \in [Name -> Content \cup {None}]

(* A slot with an entry, the inode that is on a slot, and a slot with none.   *)
Used(z) == entry[z] # Deleted
On(i, z) == Live(i) /\ inode[i].pos = z
Vacant(z) == \A i \in Inodes : ~On(i, z)

(* The three shapes of an operation that is under way: a lookup, create or    *)
(* mkdir that wants the inode of its entry, an unlink or rmdir, a rename.     *)
Finding   == op.pc \in {"iget", "fill"}
Unlinking == op.pc = "detach" /\ op.kind = "unlink"
Renaming  == \/ op.pc = "detach" /\ op.kind = "rename"
             \/ op.pc \in {"attach", "sync", "dotdot", "old", "undo", "corrupt", "undone"}

(* The entry is there and its name has no dentry; the hash was seen without   *)
(* an inode for it before a new one is filled, and none can come between, as  *)
(* only this operation makes inodes.                                          *)
FindStage ==
  Finding => /\ op.kind \in {"lookup", "create", "mkdir"}
             /\ op.nm \in Name /\ op.x \in Slots(op.nm) /\ dcache[op.nm] = None
             /\ op.to = None /\ op.ino = None /\ op.tgt = None /\ op.y = None
             /\ op.pc = "fill" => Vacant(op.x)

(* The entry is gone and the inode is still in the hash at its slot.          *)
UnlinkStage ==
  Unlinking => /\ op.nm \in Name /\ op.ino \in Inodes /\ dcache[op.nm] = op.ino
               /\ op.x \in Pos /\ entry[op.x] = Deleted /\ DirOf[op.x] = op.nm[1]
               /\ On(op.ino, op.x) /\ Slots(op.nm) = {}
               /\ op.to = None /\ op.tgt = None /\ op.y = None

(* Both names have their entries.  The moved inode is at the old slot, at     *)
(* none, or at the new one; the replaced inode is at none, and no other       *)
(* inode is at either slot.                                                   *)
RenameStage ==
  Renaming => /\ op.nm \in Name /\ op.to \in Name /\ op.nm # op.to
              /\ op.x \in Slots(op.nm) /\ op.y \in Slots(op.to)
              /\ op.ino \in Inodes /\ Live(op.ino) /\ dcache[op.nm] = op.ino
              /\ dcache[op.to] = op.tgt /\ op.tgt # op.ino
              /\ entry[op.x].dir = inode[op.ino].dir
              /\ entry[op.y].dir = inode[op.ino].dir
              /\ op.tgt # None => /\ On(op.tgt, None)
                                  /\ inode[op.tgt].dir = inode[op.ino].dir
              /\ inode[op.ino].pos = IF op.pc = "detach" THEN op.x
                                     ELSE IF op.pc \in {"attach", "undone"} THEN None
                                     ELSE op.y
              /\ \A i \in Inodes : Live(i) /\ inode[i].pos \in {op.x, op.y} => i = op.ino
              /\ op.pc \in {"sync", "undo", "corrupt", "undone"} => dirsync
              /\ op.pc \in {"dotdot", "corrupt"} \/ op.kind = "corrupt" => MovesDir
              /\ op.kind = IF op.pc = "undone" THEN op.kind ELSE "rename"
              /\ op.pc = "undone" => op.kind \in {"undo", "corrupt"}

Stages ==
  /\ op.kind = "none" => op = NoOp
  /\ Busy => Finding \/ Unlinking \/ Renaming
  /\ op.pc = "none" => ~Busy
  /\ FindStage /\ UnlinkStage /\ RenameStage

(* A name has at most one slot.                                               *)
NamesRight ==
  /\ \A z \in Pos : Used(z) => <<DirOf[z], entry[z].name>> \in Name
  /\ \A nm \in Name : \A z, w \in Slots(nm) : z = w

(* An inode in the hash is alone at its slot, which has an entry of its       *)
(* kind; only unlink has removed the entry first.                             *)
HashRight ==
  /\ OneInode
  /\ \A i \in Inodes : Live(i) /\ inode[i].pos # None /\ ~(Unlinking /\ i = op.ino)
       => Used(inode[i].pos) /\ entry[inode[i].pos].dir = inode[i].dir

(* A dentry holds an inode that is at a slot of its name.                     *)
DentriesRight ==
  \A nm \in Name : dcache[nm] # None =>
    /\ Live(dcache[nm])
    /\ nm \in {op.nm, op.to} \/ inode[dcache[nm]].pos \in Slots(nm)

(* Writeback holds the inode it works on.                                     *)
FlushRight ==
  /\ flush.pc = "idle" <=> flush.ino = None
  /\ flush.ino # None => Live(flush.ino)
  /\ flush.pc = "write" => flush.pos \in Pos

(* A directory that is renamed has two entries for a while: Pending is the    *)
(* one that d has no link for, yet or any more.  Ending is the link of an     *)
(* entry that rmdir has removed.                                              *)
Pending(d) == IF /\ Renaming /\ inode[op.ino].dir
                 /\ IF op.pc = "old" THEN d = op.nm[1] ELSE op.tgt = None /\ d = op.to[1]
              THEN 1 ELSE 0
Ending(d)  == IF Unlinking /\ inode[op.ino].dir /\ d = op.nm[1] THEN 1 ELSE 0
LinksRight == \A d \in Dirs : nlink[d] + Pending(d) >= Subdirs(d) + Ending(d)

Structure == /\ TypeOK /\ Stages /\ NamesRight /\ HashRight /\ DentriesRight /\ FlushRight /\ LinksRight

-----------------------------------------------------------------------------
(* Types.                                                                     *)

LEMMA InodeFields ==
  ASSUME TypeOK, NEW i \in Inodes
  PROVE  /\ inode[i] \in InodeSt /\ inode[i].st \in {"none", "live", "freeing"}
         /\ inode[i].pos \in Pos \cup {None} /\ inode[i].data \in Content
         /\ inode[i].dir \in BOOLEAN /\ inode[i].dirty \in BOOLEAN
BY DEF TypeOK, InodeSt

LEMMA EntryFields ==
  ASSUME TypeOK, NEW z \in Pos, Used(z)
  PROVE  /\ entry[z] \in Entry /\ entry[z].name \in Names
         /\ entry[z].data \in Content /\ entry[z].dir \in BOOLEAN
BY DEF TypeOK, Entry, Used

LEMMA OpFields ==
  ASSUME TypeOK
  PROVE  /\ op.nm \in Name \cup {None} /\ op.to \in Name \cup {None}
         /\ op.ino \in Inodes \cup {None} /\ op.tgt \in Inodes \cup {None}
         /\ op.x \in Pos \cup {None} /\ op.y \in Pos \cup {None}
         /\ op.kind \in OpKinds /\ op.pc \in OpPcs
BY DEF TypeOK, Ops

LEMMA NamePairs ==
  ASSUME NEW nm \in Name
  PROVE  nm = <<nm[1], nm[2]>> /\ nm[1] \in Dirs /\ nm[2] \in Names
BY NameAssumption

(* A slot is one name's.                                                      *)
LEMMA OneNameForASlot ==
  ASSUME NEW n \in Name, NEW m \in Name, NEW z \in Slots(n), z \in Slots(m)
  PROVE  n = m
BY NamePairs DEF Slots

-----------------------------------------------------------------------------
LEMMA InitTypeOK == Init => TypeOK
<1> SUFFICES ASSUME Init PROVE TypeOK
  OBVIOUS
<1>1. \A d \in Dirs : Subdirs(d) = 0
  <2> SUFFICES ASSUME NEW d \in Dirs PROVE Subdirs(d) = 0
    OBVIOUS
  <2>1. {x \in Pos : DirOf[x] = d /\ entry[x] # Deleted /\ entry[x].dir} = {}
    BY DEF Init
  <2> QED
    BY <2>1, FS_EmptySet DEF Subdirs
<1>2. nlink \in [Dirs -> Nat]
  BY <1>1 DEF Init
<1>3. inode \in [Inodes -> InodeSt]
  BY DEF Init, NoInode, InodeSt, Content
<1>4. op \in Ops
  BY DEF Init, NoOp, Ops, OpKinds, OpPcs
<1>5. flush \in Flushes
  BY DEF Init, NoFlush, Flushes
<1> QED
  BY <1>2, <1>3, <1>4, <1>5 DEF Init, TypeOK, Nothing

LEMMA EntryTyped ==
  ASSUME TypeOK, Stages, FlushRight, [Next]_vars
  PROVE  entry' \in [Pos -> Entry \cup {Deleted}]
<1> DEFINE E == Entry \cup {Deleted}
<1>0. entry \in [Pos -> E]
  BY DEF TypeOK
<1>1. ASSUME NEW x \in Pos, NEW nm \in Name, NEW t \in Content, NEW d \in BOOLEAN, Adds(x, nm, t, d)
      PROVE  entry' \in [Pos -> E]
  <2>1. [name |-> nm[2], data |-> t, dir |-> d] \in E
    BY NamePairs DEF Entry
  <2> QED
    BY <2>1, <1>0, <1>1 DEF Adds
<1>2. ASSUME NEW x \in Pos, entry' = [entry EXCEPT ![x] = Deleted]
      PROVE  entry' \in [Pos -> E]
  BY <1>0, <1>2
<1>3. ASSUME NEW x \in Pos, NEW t \in Content, Used(x), entry' = [entry EXCEPT ![x].data = t]
      PROVE  entry' \in [Pos -> E]
  <2>1. [entry[x] EXCEPT !.data = t] \in E
    BY EntryFields, <1>3 DEF Entry
  <2> QED
    BY <2>1, <1>0, <1>3
<1>4. CASE UNCHANGED entry
  BY <1>0, <1>4
<1>5. ASSUME NEW nm \in Name, Create(nm) PROVE entry' \in [Pos -> E]
  BY <1>1, <1>5 DEF Create, FreeSlots, Content
<1>6. ASSUME NEW nm \in Name, Mkdir(nm) PROVE entry' \in [Pos -> E]
  BY <1>1, <1>6 DEF Mkdir, FreeSlots, Content, Fresh
<1>7. ASSUME NEW nm \in Name, Unlink(nm) PROVE entry' \in [Pos -> E]
  BY <1>2, <1>7 DEF Unlink, Slots
<1>8. ASSUME NEW nm \in Name, NEW to \in Name, RenameNew(nm, to) PROVE entry' \in [Pos -> E]
  <2>1. dcache[nm] \in Inodes
    BY <1>8 DEF RenameNew, TypeOK
  <2> QED
    BY <1>1, <2>1, InodeFields, <1>8 DEF RenameNew, FreeSlots, Content
<1>9. CASE RenameSync
  <2>1. op.y \in Pos /\ Used(op.y) /\ op.ino \in Inodes
    BY <1>9 DEF RenameSync, Stages, RenameStage, Renaming, Slots, Used
  <2> QED
    BY <1>3, <1>4, <2>1, InodeFields, <1>9 DEF RenameSync
<1>10. CASE RenameRemove
  <2>1. op.x \in Pos
    BY <1>10 DEF RenameRemove, Stages, RenameStage, Renaming, Slots
  <2> QED
    BY <1>2, <2>1, <1>10 DEF RenameRemove
<1>11. CASE UndoAttach
  <2>1. op.y \in Pos /\ Used(op.y) /\ op.tgt \in Inodes \cup {None}
    BY <1>11, OpFields DEF UndoAttach, Stages, RenameStage, Renaming, Slots, Used
  <2> QED
    BY <1>2, <1>3, <1>4, <2>1, InodeFields, <1>11 DEF UndoAttach
<1>12. CASE FlushWrite
  <2>1. flush.pos \in Pos /\ flush.ino \in Inodes
    BY <1>12 DEF FlushWrite, FlushRight, TypeOK, Flushes
  <2> QED
    BY <1>3, <1>4, <2>1, InodeFields, <1>12 DEF FlushWrite, Used
<1>13. CASE UNCHANGED vars
  BY <1>4, <1>13 DEF vars
<1> QED
  BY <1>4, <1>5, <1>6, <1>7, <1>8, <1>9, <1>10, <1>11, <1>12, <1>13
     DEF Next, disk, Lookup, DropDentry, RenameOver, Iget, Fill, BuildFails, UnlinkDone, RenameDetach,
         RenameAttach, RenameDotdot, UndoDetach, WriteData, FlushBegin, EvictBegin, EvictEnd, FlushPos

LEMMA InodeTyped ==
  ASSUME TypeOK, Stages, FlushRight, [Next]_vars
  PROVE  inode' \in [Inodes -> InodeSt]
<1>0. inode \in [Inodes -> InodeSt]
  BY DEF TypeOK
<1>1. ASSUME NEW i \in Inodes, NEW r \in InodeSt, inode' = [inode EXCEPT ![i] = r]
      PROVE  inode' \in [Inodes -> InodeSt]
  BY <1>0, <1>1
<1>2. ASSUME NEW i \in Inodes, NEW p \in Pos \cup {None}
      PROVE  [inode EXCEPT ![i].pos = p] \in [Inodes -> InodeSt]
  <2>1. [inode[i] EXCEPT !.pos = p] \in InodeSt
    BY InodeFields DEF InodeSt
  <2> QED
    BY <2>1, <1>0
<1>3. CASE UNCHANGED inode
  BY <1>0, <1>3
<1>4. CASE Fill
  <2>1. op.x \in Pos /\ Used(op.x)
    BY <1>4 DEF Fill, Stages, FindStage, Finding, Slots, Used
  <2>2. [st |-> "live", pos |-> op.x, data |-> entry[op.x].data,
          dir |-> entry[op.x].dir, dirty |-> FALSE] \in InodeSt
    BY <2>1, EntryFields DEF InodeSt
  <2> QED
    BY <1>1, <2>2, <1>4 DEF Fill
<1>5. CASE UnlinkDone
  <2>1. op.ino \in Inodes
    BY <1>5 DEF UnlinkDone, Stages, UnlinkStage, Unlinking
  <2> QED
    BY <1>2, <2>1, <1>5 DEF UnlinkDone, Detached
<1>6. ASSUME NEW nm \in Name, NEW to \in Name, RenameOver(nm, to)
      PROVE  inode' \in [Inodes -> InodeSt]
  <2>1. dcache[to] \in Inodes
    BY <1>6 DEF RenameOver, TypeOK
  <2> QED
    BY <1>2, <2>1, <1>6 DEF RenameOver, Detached
<1>7. CASE RenameDetach \/ UndoDetach
  <2>1. op.ino \in Inodes
    BY <1>7 DEF RenameDetach, UndoDetach, Stages, RenameStage, Renaming
  <2> QED
    BY <1>2, <2>1, <1>7 DEF RenameDetach, UndoDetach, Detached
<1>8. CASE RenameAttach
  <2>1. op.ino \in Inodes /\ op.y \in Pos
    BY <1>8 DEF RenameAttach, Stages, RenameStage, Renaming, Slots
  <2>2. Attached(op.ino, op.y) \in [Inodes -> InodeSt]
    BY <1>2, <2>1 DEF Attached
  <2> DEFINE A == Attached(op.ino, op.y)
             r == [A[op.ino] EXCEPT !.dirty = @ \/ ~dirsync]
  <2>3. r \in InodeSt
    <3>1. A[op.ino] \in InodeSt
      BY <2>1, <2>2
    <3> HIDE DEF A
    <3> QED
      BY <3>1 DEF InodeSt
  <2>4. inode' = [A EXCEPT ![op.ino] = r]
    BY <1>8 DEF RenameAttach
  <2> HIDE DEF A, r
  <2> QED
    BY <2>1, <2>2, <2>3, <2>4 DEF A
<1>9. CASE UndoAttach
  <2>1. op.ino \in Inodes /\ op.y \in Pos /\ op.x \in Pos /\ op.tgt \in Inodes \cup {None}
    BY <1>9, OpFields DEF UndoAttach, Stages, RenameStage, Renaming, Slots
  <2> DEFINE A == Attached(op.ino, op.x)
  <2>2. A \in [Inodes -> InodeSt]
    BY <1>2, <2>1 DEF Attached
  <2>3. ASSUME op.tgt # None PROVE [A EXCEPT ![op.tgt].pos = op.y] \in [Inodes -> InodeSt]
    <3>1. A[op.tgt] \in InodeSt
      BY <2>1, <2>2, <2>3
    <3>2. [A[op.tgt] EXCEPT !.pos = op.y] \in InodeSt
      <4> HIDE DEF A
      <4> QED
        BY <3>1, <2>1 DEF InodeSt
    <3> HIDE DEF A
    <3> QED
      BY <3>2, <2>1, <2>2
  <2>4. inode' = IF op.tgt # None THEN [A EXCEPT ![op.tgt].pos = op.y] ELSE A
    BY <1>9 DEF UndoAttach
  <2> HIDE DEF A
  <2> QED
    BY <2>2, <2>3, <2>4
<1>10. ASSUME NEW i \in Inodes, WriteData(i) \/ FlushBegin(i) \/ EvictBegin(i) \/ EvictEnd(i)
      PROVE  inode' \in [Inodes -> InodeSt]
  <2>1. CASE WriteData(i)
    <3>1. PICK t \in Content : inode' = [inode EXCEPT ![i].data = t, ![i].dirty = TRUE]
      BY <2>1 DEF WriteData, Fresh, Content
    <3>2. inode' = [inode EXCEPT ![i] = [inode[i] EXCEPT !.data = t, !.dirty = TRUE]]
      BY <3>1, <1>0
    <3>3. [inode[i] EXCEPT !.data = t, !.dirty = TRUE] \in InodeSt
      BY InodeFields DEF InodeSt
    <3> QED
      BY <1>1, <3>2, <3>3
  <2>2. CASE FlushBegin(i)
    <3>1. [inode[i] EXCEPT !.dirty = FALSE] \in InodeSt
      BY InodeFields DEF InodeSt
    <3> QED
      BY <1>0, <3>1, <2>2 DEF FlushBegin
  <2>3. CASE EvictBegin(i)
    <3>1. [NoInode EXCEPT !.st = "freeing", !.pos = inode[i].pos] \in InodeSt
      BY InodeFields DEF InodeSt, NoInode, Content
    <3> QED
      BY <1>1, <3>1, <2>3 DEF EvictBegin
  <2>4. CASE EvictEnd(i)
    BY <1>1, <2>4 DEF EvictEnd, NoInode, InodeSt, Content
  <2> QED
    BY <2>1, <2>2, <2>3, <2>4, <1>10
<1>11. CASE UNCHANGED vars
  BY <1>3, <1>11 DEF vars
<1> QED
  BY <1>3, <1>4, <1>5, <1>6, <1>7, <1>8, <1>9, <1>10, <1>11
     DEF Next, Lookup, Create, Mkdir, Unlink, DropDentry, RenameNew, Iget, BuildFails, RenameSync,
         RenameDotdot, RenameRemove, FlushPos, FlushWrite

LEMMA DcacheTyped ==
  ASSUME TypeOK, Stages, [Next]_vars
  PROVE  dcache' \in [Name -> Inodes \cup {None}]
<1>0. dcache \in [Name -> Inodes \cup {None}]
  BY DEF TypeOK
<1>1. CASE UNCHANGED dcache
  BY <1>0, <1>1
<1>2. CASE Iget \/ Fill
  BY <1>0, <1>2 DEF Iget, Fill, Grabbable, Splice
<1>3. CASE UnlinkDone
  BY <1>0, <1>3 DEF UnlinkDone
<1>4. CASE RenameRemove
  <2>1. op.ino \in Inodes
    BY <1>4 DEF RenameRemove, Stages, RenameStage, Renaming
  <2> QED
    BY <1>0, <1>4, <2>1 DEF RenameRemove
<1>5. ASSUME NEW nm \in Name, DropDentry(nm) PROVE dcache' \in [Name -> Inodes \cup {None}]
  BY <1>0, <1>5 DEF DropDentry
<1>6. CASE UNCHANGED vars
  BY <1>1, <1>6 DEF vars
<1> QED
  BY <1>1, <1>2, <1>3, <1>4, <1>5, <1>6
     DEF Next, Lookup, Create, Mkdir, Unlink, RenameOver, RenameNew, BuildFails, RenameDetach,
         RenameAttach, RenameSync, RenameDotdot, UndoDetach, UndoAttach, WriteData, FlushBegin,
         EvictBegin, EvictEnd, FlushPos, FlushWrite

LEMMA DotdotTyped ==
  ASSUME TypeOK, Stages, [Next]_vars
  PROVE  dotdot' \in [Tags -> Dirs \cup {None}]
<1>0. dotdot \in [Tags -> Dirs \cup {None}]
  BY DEF TypeOK
<1>1. CASE UNCHANGED dotdot
  BY <1>0, <1>1
<1>2. ASSUME NEW nm \in Name, Mkdir(nm) PROVE dotdot' \in [Tags -> Dirs \cup {None}]
  BY <1>0, <1>2, NamePairs DEF Mkdir
<1>3. CASE RenameDotdot \/ UndoDetach
  <2>1. op.nm \in Name /\ op.to \in Name
    BY <1>3 DEF RenameDotdot, UndoDetach, Stages, RenameStage, Renaming
  <2> QED
    BY <1>0, <1>3, <2>1, NamePairs DEF RenameDotdot, UndoDetach
<1>4. ASSUME NEW i \in Inodes, EvictBegin(i) PROVE dotdot' \in [Tags -> Dirs \cup {None}]
  BY <1>0, <1>4 DEF EvictBegin
<1>5. CASE UNCHANGED vars
  BY <1>1, <1>5 DEF vars
<1> QED
  BY <1>1, <1>2, <1>3, <1>4, <1>5
     DEF Next, disk, Lookup, Create, Unlink, DropDentry, RenameOver, RenameNew, Iget, Fill, BuildFails,
         UnlinkDone, RenameDetach, RenameAttach, RenameSync, RenameRemove, UndoAttach, WriteData,
         FlushBegin, EvictEnd, FlushPos, FlushWrite

LEMMA FlushTyped ==
  ASSUME TypeOK, FlushRight, [Next]_vars
  PROVE  flush' \in Flushes
<1>0. flush \in Flushes /\ flush.ino \in Inodes \cup {None} /\ NoFlush \in Flushes
      /\ flush.pc \in {"idle", "pos", "write"} /\ flush.pos \in Pos \cup {None}
  BY DEF TypeOK, Flushes, NoFlush
<1>1. CASE UNCHANGED flush
  BY <1>0, <1>1
<1>2. ASSUME NEW i \in Inodes, FlushBegin(i) PROVE flush' \in Flushes
  BY <1>2 DEF FlushBegin, Flushes
<1>3. CASE FlushPos
  <2>1. flush.ino \in Inodes
    BY <1>0, <1>3 DEF FlushPos, FlushRight
  <2>2. inode[flush.ino].pos \in Pos \cup {None}
    BY <2>1, InodeFields
  <2> QED
    BY <1>0, <2>2, <1>3 DEF FlushPos, Flushes
<1>4. CASE FlushWrite
  BY <1>0, <1>4 DEF FlushWrite, Flushes
<1>5. CASE UNCHANGED vars
  BY <1>1, <1>5 DEF vars
<1> QED
  BY <1>1, <1>2, <1>3, <1>4, <1>5
     DEF Next, Lookup, Create, Mkdir, Unlink, DropDentry, RenameOver, RenameNew, Iget, Fill, BuildFails,
         UnlinkDone, RenameDetach, RenameAttach, RenameSync, RenameDotdot, RenameRemove, UndoDetach,
         UndoAttach, WriteData, EvictBegin, EvictEnd

LEMMA OpTyped ==
  ASSUME TypeOK, Stages, HashRight, DentriesRight, [Next]_vars
  PROVE  op' \in Ops
<1>0. op \in Ops /\ NoOp \in Ops
  BY DEF TypeOK, Ops, NoOp, OpKinds, OpPcs
<1>1. CASE UNCHANGED op
  BY <1>0, <1>1
<1>2. CASE op' = NoOp
  BY <1>0, <1>2
<1>3. ASSUME NEW pc \in OpPcs, Goto(pc) PROVE op' \in Ops
  BY <1>0, <1>3 DEF Goto, Ops
<1>4. ASSUME NEW nm \in Name, NEW x \in Pos, NEW kind \in {"lookup", "create", "mkdir"},
             op' = At(kind, "iget", nm, x)
      PROVE  op' \in Ops
  <2>1. op' = [kind |-> kind, pc |-> "iget", nm |-> nm, to |-> None, ino |-> None,
               tgt |-> None, x |-> x, y |-> None]
    BY <1>4 DEF At, NoOp
  <2> QED
    BY <2>1 DEF Ops, OpKinds, OpPcs
<1>5. ASSUME NEW nm \in Name, Lookup(nm) \/ Create(nm) \/ Mkdir(nm) PROVE op' \in Ops
  BY <1>4, <1>5 DEF Lookup, Create, Mkdir, Lock, Slots, FreeSlots
<1>6. ASSUME NEW nm \in Name, Unlink(nm) PROVE op' \in Ops
  <2>1. dcache[nm] \in Inodes
    BY <1>6 DEF Unlink, TypeOK
  <2>2. CASE UNCHANGED op
    BY <1>1, <2>2
  <2>3. ASSUME NEW x \in Slots(nm), Lock([At("unlink", "detach", nm, x) EXCEPT !.ino = dcache[nm]])
        PROVE  op' \in Ops
    <3>1. x \in Pos
      BY DEF Slots
    <3>2. op' = [kind |-> "unlink", pc |-> "detach", nm |-> nm, to |-> None, ino |-> dcache[nm],
                 tgt |-> None, x |-> x, y |-> None]
      BY <2>3 DEF Lock, At, NoOp
    <3> QED
      BY <2>1, <3>1, <3>2 DEF Ops, OpKinds, OpPcs
  <2> QED
    BY <2>2, <2>3, <1>6 DEF Unlink
<1>7. ASSUME NEW nm \in Name, NEW to \in Name, RenameOver(nm, to) PROVE op' \in Ops
  <2>1. dcache[nm] \in Inodes /\ dcache[to] \in Inodes
    BY <1>7 DEF RenameOver, TypeOK
  <2>2. inode[dcache[to]].pos \in Pos \cup {None}
    BY <2>1, InodeFields
  <2>3. PICK x \in Slots(nm) : 
          Lock([At("rename", "detach", nm, x) EXCEPT !.to = to, !.ino = dcache[nm],
                 !.tgt = dcache[to], !.y = inode[dcache[to]].pos])
    BY <1>7 DEF RenameOver
  <2>4. x \in Pos
    BY DEF Slots
  <2>5. op' = [kind |-> "rename", pc |-> "detach", nm |-> nm, to |-> to, ino |-> dcache[nm],
               tgt |-> dcache[to], x |-> x, y |-> inode[dcache[to]].pos]
    BY <2>3 DEF Lock, At, NoOp
  <2> QED
    BY <2>1, <2>2, <2>4, <2>5 DEF Ops, OpKinds, OpPcs
<1>8. ASSUME NEW nm \in Name, NEW to \in Name, RenameNew(nm, to) PROVE op' \in Ops
  <2>1. dcache[nm] \in Inodes
    BY <1>8 DEF RenameNew, TypeOK
  <2>2. PICK x \in Slots(nm), y \in FreeSlots(to[1]) :
          Lock([At("rename", "detach", nm, x) EXCEPT !.to = to, !.ino = dcache[nm], !.y = y])
    BY <1>8 DEF RenameNew
  <2>3. x \in Pos /\ y \in Pos
    BY DEF Slots, FreeSlots
  <2>4. op' = [kind |-> "rename", pc |-> "detach", nm |-> nm, to |-> to, ino |-> dcache[nm],
               tgt |-> None, x |-> x, y |-> y]
    BY <2>2 DEF Lock, At, NoOp
  <2> QED
    BY <2>1, <2>3, <2>4 DEF Ops, OpKinds, OpPcs
<1>9. CASE Iget \/ Fill \/ BuildFails \/ UnlinkDone \/ UndoAttach
  BY <1>2, <1>3, <1>9 DEF Iget, Fill, BuildFails, UnlinkDone, UndoAttach, Splice, Unlock, OpPcs
<1>10. CASE RenameDetach \/ RenameAttach \/ RenameSync
  BY <1>3, <1>10 DEF RenameDetach, RenameAttach, RenameSync, AfterSync, OpPcs
<1>11. CASE RenameDotdot \/ RenameRemove
  BY <1>2, <1>3, <1>11 DEF RenameDotdot, RenameRemove, Unlock, OpPcs
<1>12. CASE UndoDetach
  BY <1>0, <1>12 DEF UndoDetach, Ops, OpPcs, OpKinds
<1>13. CASE UNCHANGED vars
  BY <1>1, <1>13 DEF vars
<1> QED
  BY <1>1, <1>5, <1>6, <1>7, <1>8, <1>9, <1>10, <1>11, <1>12, <1>13
     DEF Next, DropDentry, WriteData, FlushBegin, EvictBegin, EvictEnd, FlushPos, FlushWrite

-----------------------------------------------------------------------------
(* What a name is bound to.                                                   *)

LEMMA BoundNone ==
  ASSUME NEW nm \in Name, Slots(nm) = {}
  PROVE  Bound(nm) = None
BY DEF Bound

LEMMA BoundEntry ==
  ASSUME NamesRight, NEW nm \in Name, NEW x \in Slots(nm), Vacant(x)
  PROVE  Bound(nm) = entry[x].data
<1>1. (CHOOSE z \in Slots(nm) : TRUE) = x
  BY DEF NamesRight
<1>2. {i \in Inodes : Live(i) /\ inode[i].pos = x} = {}
  BY DEF Vacant, On
<1> QED
  BY <1>1, <1>2 DEF Bound

LEMMA BoundInode ==
  ASSUME NamesRight, OneInode, NEW nm \in Name, NEW x \in Slots(nm), NEW i \in Inodes, On(i, x)
  PROVE  Bound(nm) = inode[i].data
<1>1. (CHOOSE z \in Slots(nm) : TRUE) = x
  BY DEF NamesRight
<1>2. x # None
  BY ValuesAssumption DEF Slots
<1>3. {j \in Inodes : Live(j) /\ inode[j].pos = x} = {i}
  BY <1>2 DEF On, OneInode
<1>4. (CHOOSE j \in {i} : TRUE) = i
  OBVIOUS
<1> QED
  BY <1>1, <1>3, <1>4 DEF Bound

LEMMA BoundTyped ==
  ASSUME TypeOK, NamesRight, OneInode, NEW nm \in Name
  PROVE  /\ Bound(nm) \in Content \cup {None}
         /\ Bound(nm) = None <=> Slots(nm) = {}
<1>1. CASE Slots(nm) = {}
  BY <1>1, BoundNone
<1>2. ASSUME NEW x \in Slots(nm) PROVE Bound(nm) \in Content
  <2>1. x \in Pos /\ Used(x)
    BY DEF Slots, Used
  <2>2. CASE Vacant(x)
    BY <2>1, <2>2, BoundEntry, EntryFields
  <2>3. ASSUME NEW i \in Inodes, On(i, x) PROVE Bound(nm) \in Content
    BY <2>3, BoundInode, InodeFields
  <2> QED
    BY <2>2, <2>3 DEF Vacant
<1>3. None \notin Content
  BY ValuesAssumption DEF Content
<1> QED
  BY <1>1, <1>2, <1>3

LEMMA BeforeTyped ==
  ASSUME TypeOK, NamesRight, OneInode, [Next]_vars
  PROVE  before' \in [Name -> Content \cup {None}]
<1>0. before \in [Name -> Content \cup {None}] /\ Nothing \in [Name -> Content \cup {None}]
      /\ View \in [Name -> Content \cup {None}]
  BY BoundTyped DEF TypeOK, Nothing, View
<1>1. CASE UNCHANGED before \/ before' = Nothing \/ before' = View
  BY <1>0, <1>1
<1>2. CASE UNCHANGED vars
  BY <1>1, <1>2 DEF vars
<1>3. ASSUME NEW nm \in Name, Lookup(nm) \/ Create(nm) \/ Mkdir(nm) \/ Unlink(nm) \/ DropDentry(nm)
      PROVE  UNCHANGED before \/ before' = View
  BY <1>3 DEF Lookup, Create, Mkdir, Unlink, DropDentry, Lock
<1>4. ASSUME NEW nm \in Name, NEW to \in Name, RenameOver(nm, to) \/ RenameNew(nm, to)
      PROVE  before' = View
  BY <1>4 DEF RenameOver, RenameNew, Lock
<1> QED
  BY <1>1, <1>2, <1>3, <1>4 
     DEF Next, Iget, Fill, BuildFails, UnlinkDone, RenameDetach, RenameAttach, RenameSync, RenameDotdot,
         RenameRemove, UndoDetach, UndoAttach, Splice, Unlock, Goto, WriteData, FlushBegin,
         EvictBegin, EvictEnd, FlushPos, FlushWrite

-----------------------------------------------------------------------------
(* Steps that leave the shape of the tree alone: writeback, eviction, writes   *)
(* to a file, and dentries that are dropped.                                   *)

(* The same slots are used, for the same names.                               *)
SameSlots ==
  \A w \in Pos : /\ Used(w)' <=> Used(w)
                 /\ Used(w) => entry'[w].name = entry[w].name /\ entry'[w].dir = entry[w].dir

QuietStep ==
  /\ SameSlots
  /\ \A i \in Inodes : Live(i)' => /\ Live(i) /\ inode'[i].pos = inode[i].pos
                                   /\ inode'[i].dir = inode[i].dir
  /\ \A i \in Inodes : Live(i) /\ Held(i) => Live(i)'
  /\ \A nm \in Name : \/ dcache'[nm] = dcache[nm]
                      \/ dcache'[nm] = None /\ nm \notin {op.nm, op.to}
  /\ UNCHANGED <<op, nlink, dirsync, before>>

(* The steps that are quiet.                                                  *)
BackgroundStep ==
  \/ \E nm \in Name : DropDentry(nm)
  \/ \E i \in Inodes : WriteData(i) \/ FlushBegin(i) \/ EvictBegin(i) \/ EvictEnd(i)
  \/ FlushPos \/ FlushWrite \/ UNCHANGED vars

(* An inode is written to its entry.                                          *)
LEMMA DataWritten ==
  ASSUME TypeOK, NEW z \in Pos, Used(z), NEW t \in Content, entry' = [entry EXCEPT ![z].data = t]
  PROVE  /\ SameSlots
         /\ \A w \in Pos : Used(w) => entry'[w].data = IF w = z THEN t ELSE entry[w].data
<1>1. entry[z] \in Entry /\ [entry[z] EXCEPT !.data = t] \in Entry
  BY EntryFields DEF Entry
<1>2. Deleted \notin Entry
  BY ValuesAssumption DEF Entry, Content
<1>3. entry \in [Pos -> Entry \cup {Deleted}]
  BY DEF TypeOK
<1>4. entry'[z] = [entry[z] EXCEPT !.data = t] /\ \A w \in Pos : w # z => entry'[w] = entry[w]
  BY <1>3
<1>5. /\ [entry[z] EXCEPT !.data = t].name = entry[z].name
      /\ [entry[z] EXCEPT !.data = t].dir = entry[z].dir
      /\ [entry[z] EXCEPT !.data = t].data = t
  BY <1>1 DEF Entry
<1>6. /\ entry'[z] # Deleted /\ entry'[z].data = t
      /\ entry'[z].name = entry[z].name /\ entry'[z].dir = entry[z].dir
  BY <1>1, <1>2, <1>4, <1>5
<1> QED
  BY <1>4, <1>6 DEF SameSlots, Used

LEMMA QuietSteps ==
  ASSUME TypeOK, FlushRight, BackgroundStep
  PROVE  QuietStep
<1>0. inode \in [Inodes -> InodeSt] /\ \A i \in Inodes : inode[i] \in InodeSt
  BY DEF TypeOK
<1>1. ASSUME NEW nm \in Name, DropDentry(nm) PROVE QuietStep
  BY <1>1 DEF DropDentry, QuietStep, SameSlots, Live, Used, disk, TypeOK
<1>2. CASE FlushPos \/ UNCHANGED vars
  BY <1>2 DEF FlushPos, vars, QuietStep, SameSlots, Live, Used, disk
<1>3. CASE FlushWrite
  <2>1. flush.ino \in Inodes /\ flush.pos \in Pos
    BY <1>3 DEF FlushWrite, FlushRight, TypeOK, Flushes
  <2>2. CASE UNCHANGED entry
    BY <2>2, <1>3 DEF FlushWrite, QuietStep, SameSlots, Live, Used
  <2>3. CASE ~UNCHANGED entry
    <3>1. Used(flush.pos) /\ entry' = [entry EXCEPT ![flush.pos].data = inode[flush.ino].data]
      BY <2>3, <1>3 DEF FlushWrite, Used
    <3>2. SameSlots
      BY <3>1, <2>1, DataWritten, InodeFields
    <3> QED
      BY <3>2, <1>3 DEF FlushWrite, QuietStep, Live
  <2> QED
    BY <2>2, <2>3
<1>4. ASSUME NEW i \in Inodes, WriteData(i) PROVE QuietStep
  <2>1. PICK t : inode' = [inode EXCEPT ![i].data = t, ![i].dirty = TRUE]
    BY <1>4 DEF WriteData
  <2>2. /\ inode'[i].st = inode[i].st /\ inode'[i].pos = inode[i].pos /\ inode'[i].dir = inode[i].dir
        /\ \A j \in Inodes : j # i => inode'[j] = inode[j]
    BY <1>0, <2>1 DEF InodeSt
  <2>3. UNCHANGED <<entry, op, nlink, dirsync, before, dcache>>
    BY <1>4 DEF WriteData, disk
  <2> QED
    BY <2>2, <2>3 DEF QuietStep, SameSlots, Live, Used
<1>5. ASSUME NEW i \in Inodes, FlushBegin(i) PROVE QuietStep
  <2>2. /\ inode'[i].st = inode[i].st /\ inode'[i].pos = inode[i].pos /\ inode'[i].dir = inode[i].dir
        /\ \A j \in Inodes : j # i => inode'[j] = inode[j]
    BY <1>0, <1>5 DEF InodeSt, FlushBegin
  <2>3. UNCHANGED <<entry, op, nlink, dirsync, before, dcache>>
    BY <1>5 DEF FlushBegin, disk
  <2> QED
    BY <2>2, <2>3 DEF QuietStep, SameSlots, Live, Used
<1>6. ASSUME NEW i \in Inodes, EvictBegin(i) \/ EvictEnd(i) PROVE QuietStep
  <2>1. /\ inode'[i].st # "live"
        /\ \A j \in Inodes : j # i => inode'[j] = inode[j]
    <3>1. CASE EvictBegin(i)
      BY <1>0, <3>1 DEF EvictBegin, NoInode
    <3>2. CASE EvictEnd(i)
      BY <1>0, <3>2 DEF EvictEnd, NoInode
    <3> QED
      BY <3>1, <3>2, <1>6
  <2>2. ~(Live(i) /\ Held(i))
    BY <1>6 DEF EvictBegin, EvictEnd, Live
  <2>3. UNCHANGED <<entry, op, nlink, dirsync, before, dcache>>
    BY <1>6 DEF EvictBegin, EvictEnd, disk
  <2> QED
    BY <2>1, <2>2, <2>3 DEF QuietStep, SameSlots, Live, Used
<1> QED
  BY <1>1, <1>2, <1>3, <1>4, <1>5, <1>6 DEF BackgroundStep

(* Slots keep their names, so every name keeps its slots.                      *)
LEMMA QuietSlots ==
  ASSUME QuietStep
  PROVE  /\ \A nm \in Name : Slots(nm)' = Slots(nm)
         /\ \A d \in Dirs : Subdirs(d)' = Subdirs(d)
<1>1. ASSUME NEW nm \in Name PROVE Slots(nm)' = Slots(nm)
  BY DEF QuietStep, SameSlots, Slots, Used
<1>2. ASSUME NEW d \in Dirs PROVE Subdirs(d)' = Subdirs(d)
  <2>1. {x \in Pos : DirOf[x] = d /\ entry'[x] # Deleted /\ entry'[x].dir}
          = {x \in Pos : DirOf[x] = d /\ entry[x] # Deleted /\ entry[x].dir}
    BY DEF QuietStep, SameSlots, Used
  <2> QED
    BY <2>1 DEF Subdirs
<1> QED
  BY <1>1, <1>2

(* What is said of the tree, without types, writeback and counts.             *)
TreeRight == Stages /\ NamesRight /\ HashRight /\ DentriesRight

(* Quiet steps keep the tree.                                                 *)
LEMMA QuietStages ==
  ASSUME TypeOK, TreeRight, QuietStep
  PROVE  Stages' /\ NamesRight' /\ HashRight' /\ DentriesRight'
<1>0. /\ \A nm \in Name : Slots(nm)' = Slots(nm)
      /\ op' = op /\ dirsync' = dirsync /\ NoOp' = NoOp
      /\ Finding' = Finding /\ Unlinking' = Unlinking /\ Renaming' = Renaming /\ Busy' = Busy
  BY QuietSlots DEF QuietStep, Finding, Unlinking, Renaming, Busy
<1>1. NamesRight'
  <2>1. ASSUME NEW z \in Pos, Used(z)' PROVE <<DirOf[z], entry'[z].name>> \in Name
    BY <2>1 DEF QuietStep, SameSlots, TreeRight, NamesRight
  <2> QED
    BY <1>0, <2>1 DEF TreeRight, NamesRight
<1>2. HashRight'
  <2>1. OneInode'
    BY DEF TreeRight, HashRight, OneInode, QuietStep
  <2>2. ASSUME NEW i \in Inodes, Live(i)', inode'[i].pos # None, ~(Unlinking /\ i = op.ino)
        PROVE  (Used(inode[i].pos) /\ entry[inode[i].pos].dir = inode[i].dir)'
    <3>1. Live(i) /\ inode'[i].pos = inode[i].pos /\ inode'[i].dir = inode[i].dir
      BY <2>2 DEF QuietStep
    <3>2. inode[i].pos \in Pos
      BY <2>2, <3>1, InodeFields
    <3>3. Used(inode[i].pos) /\ entry[inode[i].pos].dir = inode[i].dir
      BY <2>2, <3>1 DEF TreeRight, HashRight
    <3>4. entry'[inode[i].pos] # Deleted /\ entry'[inode[i].pos].dir = entry[inode[i].pos].dir
      BY <3>2, <3>3 DEF QuietStep, SameSlots, Used
    <3> QED
      BY <3>1, <3>3, <3>4 DEF Used
  <2> QED
    BY <2>1, <2>2, <1>0 DEF HashRight
<1>3. DentriesRight'
  BY <1>0 DEF TreeRight, DentriesRight, QuietStep, Held, TypeOK
<1>4. FindStage'
  BY <1>0 DEF QuietStep, TreeRight, Stages, FindStage, Vacant, On
<1>5. UnlinkStage'
  BY <1>0 DEF QuietStep, TreeRight, Stages, UnlinkStage, On, Held, SameSlots, Used
<1>6. RenameStage'
  <2> SUFFICES ASSUME Renaming PROVE RenameStage'
    BY <1>0 DEF RenameStage
  <2>1. /\ op.nm \in Name /\ op.to \in Name /\ op.x \in Slots(op.nm) /\ op.y \in Slots(op.to)
        /\ op.ino \in Inodes /\ Live(op.ino) /\ op.tgt \in Inodes \cup {None}
        /\ op.x \in Pos /\ op.y \in Pos /\ Used(op.x) /\ Used(op.y)
    BY OpFields DEF TreeRight, Stages, RenameStage, Slots, Used
  <2>2. dcache'[op.nm] = dcache[op.nm] /\ dcache'[op.to] = dcache[op.to]
    BY <2>1 DEF QuietStep
  <2>3. /\ Live(op.ino)' /\ inode'[op.ino].pos = inode[op.ino].pos
        /\ inode'[op.ino].dir = inode[op.ino].dir
    BY <2>1 DEF QuietStep, Held
  <2>4. op.tgt # None /\ Live(op.tgt) =>
          /\ Live(op.tgt)' /\ inode'[op.tgt].pos = inode[op.tgt].pos
          /\ inode'[op.tgt].dir = inode[op.tgt].dir
    BY <2>1 DEF QuietStep, Held
  <2>5. entry'[op.x].dir = entry[op.x].dir /\ entry'[op.y].dir = entry[op.y].dir
    BY <2>1 DEF QuietStep, SameSlots
  <2>6. MovesDir' = MovesDir
    BY <2>3, <1>0 DEF MovesDir
  <2>7. \A i \in Inodes : Live(i)' /\ inode'[i].pos \in {op.x, op.y} => i = op.ino
    BY DEF QuietStep, TreeRight, Stages, RenameStage
  <2> QED
    BY <1>0, <2>1, <2>2, <2>3, <2>4, <2>5, <2>6, <2>7 DEF TreeRight, Stages, RenameStage, On
<1> QED
  BY <1>0, <1>1, <1>2, <1>3, <1>4, <1>5, <1>6 DEF TreeRight, Stages

-----------------------------------------------------------------------------
(* Entries that are made and removed.                                         *)

LEMMA EntryAdded ==
  ASSUME TypeOK, NamesRight, NEW nm \in Name, NEW x \in FreeSlots(nm[1]), Slots(nm) = {},
         NEW t \in Content, NEW d \in BOOLEAN, Adds(x, nm, t, d)
  PROVE  /\ x \in Pos /\ DirOf[x] = nm[1] /\ entry[x] = Deleted
         /\ entry'[x] # Deleted /\ entry'[x].name = nm[2]
         /\ entry'[x].data = t /\ entry'[x].dir = d
         /\ \A w \in Pos : w # x => entry'[w] = entry[w]
         /\ Slots(nm)' = {x}
         /\ \A m \in Name : m # nm => Slots(m)' = Slots(m)
         /\ NamesRight'
<1>1. x \in Pos /\ DirOf[x] = nm[1] /\ entry[x] = Deleted
  BY DEF FreeSlots
<1>2. entry'[x] = [name |-> nm[2], data |-> t, dir |-> d] /\ \A w \in Pos : w # x => entry'[w] = entry[w]
  BY <1>1 DEF Adds, TypeOK
<1>3. entry'[x] # Deleted
  BY <1>2, NamePairs, ValuesAssumption DEF Content
<1>4. Slots(nm)' = {x}
  BY <1>1, <1>2, <1>3 DEF Slots
<1>5. ASSUME NEW m \in Name, m # nm PROVE Slots(m)' = Slots(m)
  <2>1. m[1] # nm[1] \/ m[2] # nm[2]
    BY NamePairs, <1>5
  <2>2. x \notin Slots(m)' /\ x \notin Slots(m)
    BY <1>1, <1>2, <2>1 DEF Slots
  <2> QED
    BY <1>2, <2>2 DEF Slots
<1>6. NamesRight'
  <2>1. ASSUME NEW z \in Pos, Used(z)' PROVE <<DirOf[z], entry'[z].name>> \in Name
    <3>1. CASE z = x
      BY <1>1, <1>2, NamePairs, <3>1
    <3>2. CASE z # x
      BY <1>2, <2>1, <3>2 DEF NamesRight, Used
    <3> QED
      BY <3>1, <3>2
  <2>2. \A m \in Name : \A z, w \in Slots(m)' : z = w
    BY <1>4, <1>5 DEF NamesRight
  <2> QED
    BY <2>1, <2>2 DEF NamesRight
<1> QED
  BY <1>1, <1>2, <1>3, <1>4, <1>5, <1>6

LEMMA EntryRemoved ==
  ASSUME TypeOK, NamesRight, NEW nm \in Name, NEW x \in Slots(nm), entry' = [entry EXCEPT ![x] = Deleted]
  PROVE  /\ x \in Pos /\ entry'[x] = Deleted /\ Used(x)
         /\ \A w \in Pos : w # x => entry'[w] = entry[w]
         /\ Slots(nm)' = {}
         /\ \A m \in Name : m # nm => Slots(m)' = Slots(m)
         /\ NamesRight'
<1>1. x \in Pos /\ Used(x) /\ Slots(nm) = {x}
  BY DEF Slots, Used, NamesRight
<1>2. entry'[x] = Deleted /\ \A w \in Pos : w # x => entry'[w] = entry[w]
  BY <1>1 DEF TypeOK
<1>3. Slots(nm)' = {}
  BY <1>1, <1>2 DEF Slots
<1>4. ASSUME NEW m \in Name, m # nm PROVE Slots(m)' = Slots(m)
  <2>1. x \notin Slots(m)
    BY <1>4, OneNameForASlot
  <2> QED
    BY <1>2, <2>1 DEF Slots
<1>5. NamesRight'
  <2>1. ASSUME NEW z \in Pos, Used(z)' PROVE <<DirOf[z], entry'[z].name>> \in Name
    BY <1>2, <2>1 DEF NamesRight, Used
  <2> QED
    BY <2>1, <1>3, <1>4 DEF NamesRight
<1> QED
  BY <1>1, <1>2, <1>3, <1>4, <1>5

LEMMA EntrySame ==
  ASSUME TypeOK, NamesRight, SameSlots
  PROVE  /\ \A m \in Name : Slots(m)' = Slots(m)
         /\ NamesRight'
<1>1. \A m \in Name : Slots(m)' = Slots(m)
  BY DEF SameSlots, Slots, Used
<1>2. ASSUME NEW z \in Pos, Used(z)' PROVE <<DirOf[z], entry'[z].name>> \in Name
  BY <1>2 DEF SameSlots, NamesRight
<1> QED
  BY <1>1, <1>2 DEF NamesRight

-----------------------------------------------------------------------------
(* An operation begins.                                                       *)

LEMMA IdleOp ==
  ASSUME Stages, ~Busy
  PROVE  /\ op = NoOp /\ op.pc = "none" /\ op.nm = None /\ op.to = None /\ op.ino = None /\ op.tgt = None
         /\ op.x = None /\ op.y = None
         /\ ~Finding /\ ~Unlinking /\ ~Renaming
BY DEF Stages, Busy, NoOp, Finding, Unlinking, Renaming

LEMMA IdleDentry ==
  ASSUME TreeRight, TypeOK, ~Busy, NEW nm \in Name, dcache[nm] # None
  PROVE  /\ dcache[nm] \in Inodes /\ Live(dcache[nm]) /\ inode[dcache[nm]].pos \in Slots(nm)
         /\ \A x \in Slots(nm) : On(dcache[nm], x) /\ entry[x].dir = inode[dcache[nm]].dir
<1>1. dcache[nm] \in Inodes /\ Live(dcache[nm]) /\ inode[dcache[nm]].pos \in Slots(nm)
  BY IdleOp, ValuesAssumption DEF TreeRight, DentriesRight, TypeOK
<1>2. inode[dcache[nm]].pos # None
  BY <1>1, ValuesAssumption DEF Slots
<1> QED
  BY <1>1, <1>2, IdleOp DEF TreeRight, NamesRight, HashRight, On

LEMMA FindBegins ==
  ASSUME TypeOK, TreeRight, NEW nm \in Name, Lookup(nm) \/ Create(nm) \/ Mkdir(nm)
  PROVE  TreeRight' /\ Finding' /\ Busy' /\ ~Renaming' /\ ~Unlinking' /\ ~Busy
<1>1. ~Busy /\ dcache[nm] = None /\ UNCHANGED <<inode, dcache, dirsync>>
  BY DEF Lookup, Create, Mkdir, Lock, disk
<1>2. PICK kind \in {"lookup", "create", "mkdir"}, x \in Slots(nm)' :
        op' = At(kind, "iget", nm, x)
  <2>1. CASE Lookup(nm)
    BY <2>1 DEF Lookup, Lock, disk, Slots
  <2>2. CASE Create(nm)
    <3>1. PICK x \in FreeSlots(nm[1]) : Adds(x, nm, Empty, FALSE) /\ Lock(At("create", "iget", nm, x))
      BY <2>2 DEF Create
    <3>2. NamesRight /\ Slots(nm) = {} /\ Empty \in Content /\ FALSE \in BOOLEAN
      BY <2>2 DEF Create, Content, TreeRight
    <3>3. Slots(nm)' = {x}
      BY <3>1, <3>2, EntryAdded
    <3> QED
      BY <3>1, <3>3 DEF Lock
  <2>3. CASE Mkdir(nm)
    <3>1. PICK t \in Fresh, x \in FreeSlots(nm[1]) :
            Adds(x, nm, t, TRUE) /\ Lock(At("mkdir", "iget", nm, x))
      BY <2>3 DEF Mkdir
    <3>2. NamesRight /\ Slots(nm) = {} /\ t \in Content /\ TRUE \in BOOLEAN
      BY <2>3 DEF Mkdir, Content, TreeRight, Fresh
    <3>3. Slots(nm)' = {x}
      BY <3>1, <3>2, EntryAdded
    <3> QED
      BY <3>1, <3>3 DEF Lock
  <2> QED
    BY <2>1, <2>2, <2>3
<1>3. op' = [kind |-> kind, pc |-> "iget", nm |-> nm, to |-> None, ino |-> None,
             tgt |-> None, x |-> x, y |-> None]
  BY <1>2 DEF At, NoOp
<1>4. /\ NamesRight'
      /\ \A m \in Name : Slots(m) \subseteq Slots(m)'
      /\ \A z \in Pos : Used(z) => entry'[z] = entry[z]
  <2>1. CASE Lookup(nm)
    BY <2>1 DEF Lookup, disk, Slots, Used, NamesRight, TreeRight
  <2>2. ASSUME NEW z \in FreeSlots(nm[1]), NEW t \in Content, NEW d \in BOOLEAN,
               Slots(nm) = {}, Adds(z, nm, t, d)
        PROVE  /\ NamesRight'
               /\ \A m \in Name : Slots(m) \subseteq Slots(m)'
               /\ \A w \in Pos : Used(w) => entry'[w] = entry[w]
    <3>1. NamesRight
      BY DEF TreeRight
    <3>2. /\ entry[z] = Deleted /\ \A w \in Pos : w # z => entry'[w] = entry[w]
          /\ \A m \in Name : m # nm => Slots(m)' = Slots(m)
          /\ NamesRight'
      BY <2>2, <3>1, EntryAdded
    <3>3. ASSUME NEW m \in Name PROVE Slots(m) \subseteq Slots(m)'
      BY <2>2, <3>2
    <3>4. ASSUME NEW w \in Pos, Used(w) PROVE entry'[w] = entry[w]
      BY <3>2, <3>4 DEF Used
    <3> QED
      BY <3>2, <3>3, <3>4
  <2>3. CASE Create(nm)
    <3>1. Slots(nm) = {} /\ \E z \in FreeSlots(nm[1]) : Adds(z, nm, Empty, FALSE)
      BY <2>3 DEF Create
    <3>2. Empty \in Content
      BY DEF Content
    <3> QED
      BY <3>1, <3>2, <2>2
  <2>4. CASE Mkdir(nm)
    <3>1. Slots(nm) = {} /\ \E t \in Fresh, z \in FreeSlots(nm[1]) : Adds(z, nm, t, TRUE)
      BY <2>4 DEF Mkdir
    <3>2. Fresh \subseteq Content
      BY DEF Fresh, Content
    <3> QED
      BY <3>1, <3>2, <2>2
  <2> QED
    BY <2>1, <2>3, <2>4
<1>5. Finding' /\ ~Unlinking' /\ ~Renaming' /\ Busy' /\ op'.pc # "none"
  BY <1>2, <1>3 DEF Finding, Unlinking, Renaming, Busy
<1>6. HashRight'
  <2>1. \A i \in Inodes : Live(i) /\ inode[i].pos # None =>
           Used(inode[i].pos) /\ entry[inode[i].pos].dir = inode[i].dir
    BY <1>1, IdleOp DEF TreeRight, HashRight
  <2>2. ASSUME NEW i \in Inodes, Live(i), inode[i].pos # None
        PROVE  entry'[inode[i].pos] # Deleted /\ entry'[inode[i].pos].dir = inode[i].dir
    BY <2>1, <2>2, <1>4, InodeFields DEF Used
  <2> QED
    BY <1>1, <2>2 DEF TreeRight, HashRight, OneInode, Live, Used
<1>7. DentriesRight'
  BY <1>1, <1>4, IdleDentry DEF DentriesRight, Live
<1>8. Stages'
  <2>1. FindStage'
    BY <1>1, <1>2, <1>3 DEF FindStage, Finding
  <2> QED
    BY <2>1, <1>2, <1>3, <1>5 DEF Stages, UnlinkStage, RenameStage, Busy
<1> QED
  BY <1>1, <1>4, <1>5, <1>6, <1>7, <1>8 DEF TreeRight

(* The inodes are what they were, but for their places and dirty marks.       *)
SameInodes ==
  \A j \in Inodes : /\ inode'[j].st = inode[j].st /\ inode'[j].dir = inode[j].dir
                    /\ inode'[j].data = inode[j].data

(* fat_detach.                                                                *)
LEMMA InodeDetached ==
  ASSUME TypeOK, NEW i \in Inodes, inode' = Detached(i)
  PROVE  /\ SameInodes
         /\ inode'[i].pos = None /\ \A j \in Inodes : j # i => inode'[j].pos = inode[j].pos
         /\ \A j \in Inodes : inode'[j].dirty = inode[j].dirty
<1>1. inode \in [Inodes -> InodeSt]
  BY DEF TypeOK
<1>2. inode'[i] = [inode[i] EXCEPT !.pos = None] /\ \A j \in Inodes : j # i => inode'[j] = inode[j]
  BY <1>1 DEF Detached
<1>3. inode'[i].pos = None /\ inode'[i].st = inode[i].st /\ inode'[i].dir = inode[i].dir
      /\ inode'[i].data = inode[i].data /\ inode'[i].dirty = inode[i].dirty
  BY <1>1, <1>2 DEF InodeSt
<1> QED
  BY <1>2, <1>3 DEF SameInodes

LEMMA UnlinkBegins ==
  ASSUME TypeOK, TreeRight, "remove" \notin Failing, NEW nm \in Name, Unlink(nm)
  PROVE  /\ TreeRight' /\ Unlinking' /\ Busy' /\ ~Renaming' /\ ~Finding' /\ ~Busy
         /\ op'.nm = nm /\ op'.to = None /\ op'.ino = dcache[nm] /\ op'.tgt = None
         /\ op'.x \in Slots(nm) /\ op'.y = None
         /\ entry' = [entry EXCEPT ![op'.x] = Deleted]
<1>1. PICK x \in Slots(nm) : /\ entry' = [entry EXCEPT ![x] = Deleted]
                             /\ Lock([At("unlink", "detach", nm, x) EXCEPT !.ino = dcache[nm]])
  BY DEF Unlink, MayFail
<1>2. ~Busy /\ dcache[nm] # None /\ UNCHANGED <<inode, dcache, dirsync>>
  BY <1>1 DEF Unlink, Lock
<1>3. op' = [kind |-> "unlink", pc |-> "detach", nm |-> nm, to |-> None, ino |-> dcache[nm],
             tgt |-> None, x |-> x, y |-> None]
  BY <1>1 DEF Lock, At, NoOp
<1>4. /\ dcache[nm] \in Inodes /\ Live(dcache[nm]) /\ On(dcache[nm], x)
  BY <1>2, IdleDentry
<1>5. /\ x \in Pos /\ entry'[x] = Deleted /\ \A w \in Pos : w # x => entry'[w] = entry[w]
      /\ Slots(nm)' = {} /\ \A m \in Name : m # nm => Slots(m)' = Slots(m)
      /\ NamesRight'
  BY <1>1, EntryRemoved DEF TreeRight
<1>6. Unlinking' /\ ~Finding' /\ ~Renaming' /\ Busy' /\ op'.pc # "none"
  BY <1>3 DEF Finding, Unlinking, Renaming, Busy
<1>7. HashRight'
  <2>1. \A i \in Inodes : Live(i) /\ inode[i].pos # None =>
           Used(inode[i].pos) /\ entry[inode[i].pos].dir = inode[i].dir
    BY <1>2, IdleOp DEF TreeRight, HashRight
  <2>2. x # None
    BY <1>5, ValuesAssumption
  <2>3. ASSUME NEW i \in Inodes, Live(i), inode[i].pos # None, i # dcache[nm]
        PROVE  entry'[inode[i].pos] # Deleted /\ entry'[inode[i].pos].dir = inode[i].dir
    <3>1. inode[i].pos # x
      BY <1>4, <2>2, <2>3 DEF TreeRight, HashRight, OneInode, On
    <3> QED
      BY <3>1, <2>1, <2>3, <1>5, InodeFields DEF Used
  <2> QED
    BY <1>2, <1>3, <1>6, <2>3 DEF TreeRight, HashRight, OneInode, Live, Used
<1>8. DentriesRight'
  BY <1>2, <1>3, <1>5, IdleDentry DEF DentriesRight, Live
<1>9. Stages'
  <2>1. UnlinkStage'
    BY <1>2, <1>3, <1>4, <1>5, <1>1 DEF UnlinkStage, On, Live, Slots
  <2> QED
    BY <2>1, <1>6 DEF Stages, FindStage, RenameStage, Busy
<1> QED
  BY <1>1, <1>2, <1>3, <1>5, <1>6, <1>7, <1>8, <1>9 DEF TreeRight

LEMMA RenameOverBegins ==
  ASSUME TypeOK, TreeRight, NEW nm \in Name, NEW to \in Name, RenameOver(nm, to)
  PROVE  /\ TreeRight' /\ Renaming' /\ Busy' /\ ~Finding' /\ ~Unlinking' /\ ~Busy
         /\ op'.pc = "detach" /\ op'.kind = "rename"
         /\ op'.nm = nm /\ op'.to = to /\ op'.ino = dcache[nm] /\ op'.tgt = dcache[to]
         /\ op'.x \in Slots(nm) /\ op'.y \in Slots(to)
         /\ op'.ino \in Inodes /\ op'.tgt \in Inodes /\ op'.tgt # op'.ino
         /\ On(op'.ino, op'.x) /\ On(op'.tgt, op'.y)
         /\ inode' = Detached(dcache[to])
<1>1. PICK x \in Slots(nm) :
          Lock([At("rename", "detach", nm, x) EXCEPT !.to = to, !.ino = dcache[nm],
                 !.tgt = dcache[to], !.y = inode[dcache[to]].pos])
  BY DEF RenameOver
<1>2. /\ ~Busy /\ nm # to /\ dcache[nm] # None /\ dcache[to] # None
      /\ inode[dcache[nm]].dir = inode[dcache[to]].dir
      /\ inode' = Detached(dcache[to]) /\ UNCHANGED <<entry, dcache, dirsync>>
  BY <1>1 DEF RenameOver, Lock, disk
<1> DEFINE y == inode[dcache[to]].pos
<1>3. op' = [kind |-> "rename", pc |-> "detach", nm |-> nm, to |-> to, ino |-> dcache[nm],
             tgt |-> dcache[to], x |-> x, y |-> y]
  BY <1>1 DEF Lock, At, NoOp
<1>4. /\ dcache[nm] \in Inodes /\ Live(dcache[nm]) /\ On(dcache[nm], x)
      /\ entry[x].dir = inode[dcache[nm]].dir
  BY <1>2, IdleDentry
<1>5. /\ dcache[to] \in Inodes /\ Live(dcache[to]) /\ On(dcache[to], y)
      /\ entry[y].dir = inode[dcache[to]].dir /\ y \in Slots(to)
  BY <1>2, IdleDentry
<1> HIDE DEF y
<1>6. x # y /\ x \in Pos /\ y \in Pos /\ x # None /\ y # None /\ dcache[nm] # dcache[to]
  BY <1>2, <1>4, <1>5, OneNameForASlot, ValuesAssumption DEF Slots, On
<1>7. /\ SameInodes
      /\ inode'[dcache[to]].pos = None
      /\ \A j \in Inodes : j # dcache[to] => inode'[j].pos = inode[j].pos
  BY <1>2, <1>5, InodeDetached
<1>8. Renaming' /\ ~Finding' /\ ~Unlinking' /\ Busy' /\ op'.pc # "none"
  BY <1>3 DEF Finding, Unlinking, Renaming, Busy
<1>9. \A m \in Name : Slots(m)' = Slots(m)
  BY <1>2 DEF Slots
<1>10. HashRight'
  <2>1. OneInode'
    BY <1>7 DEF TreeRight, HashRight, OneInode, SameInodes, Live
  <2>2. ASSUME NEW i \in Inodes, Live(i), inode'[i].pos # None
        PROVE  entry[inode[i].pos] # Deleted /\ entry[inode[i].pos].dir = inode[i].dir
               /\ inode'[i].pos = inode[i].pos
    BY <2>2, <1>2, <1>7, IdleOp DEF TreeRight, HashRight, Used
  <2> QED
    BY <2>1, <2>2, <1>2, <1>7 DEF HashRight, Used, Live, SameInodes
<1>11. DentriesRight'
  <2>1. ASSUME NEW m \in Name, dcache[m] # None, m # nm, m # to
        PROVE  Live(dcache[m])' /\ (inode[dcache[m]].pos \in Slots(m))'
    <3>1. dcache[m] \in Inodes /\ Live(dcache[m]) /\ inode[dcache[m]].pos \in Slots(m)
      BY <1>2, <2>1, IdleDentry
    <3>2. dcache[m] # dcache[to]
      BY <3>1, <1>5, <2>1, OneNameForASlot DEF On
    <3> QED
      BY <3>1, <3>2, <1>2, <1>7, <1>9 DEF SameInodes, Live
  <2> QED
    BY <2>1, <1>2, <1>3, <1>4, <1>5, <1>7 DEF DentriesRight, SameInodes, Live
<1>12. NamesRight'
  BY <1>2, <1>9 DEF NamesRight, TreeRight, Used
<1>13. RenameStage'
  <2>1. \A i \in Inodes : Live(i)' /\ inode'[i].pos \in {x, y} => i = dcache[nm]
    <3> SUFFICES ASSUME NEW i \in Inodes, Live(i)', inode'[i].pos \in {x, y} PROVE i = dcache[nm]
      OBVIOUS
    <3>1. i # dcache[to] /\ inode[i].pos \in {x, y} /\ Live(i)
      BY <1>6, <1>7 DEF SameInodes, Live
    <3>2. inode[i].pos = x
      BY <3>1, <1>5, <1>6 DEF On, TreeRight, HashRight, OneInode
    <3> QED
      BY <3>1, <3>2, <1>4, <1>6 DEF On, TreeRight, HashRight, OneInode
  <2>2. inode'[dcache[nm]].st = "live" /\ inode'[dcache[nm]].pos = x
        /\ inode'[dcache[nm]].dir = inode[dcache[nm]].dir
    BY <1>4, <1>6, <1>7 DEF SameInodes, Live, On
  <2>3. inode'[dcache[to]].st = "live" /\ inode'[dcache[to]].pos = None
        /\ inode'[dcache[to]].dir = inode[dcache[to]].dir
    BY <1>5, <1>7 DEF SameInodes, Live, On
  <2>4. x \in Slots(nm)' /\ y \in Slots(to)'
    BY <1>5, <1>9
  <2> QED
    BY <2>1, <2>2, <2>3, <2>4, <1>2, <1>3, <1>4, <1>5, <1>6 DEF RenameStage, On, Live
<1>14. Stages'
  BY <1>13, <1>8 DEF Stages, FindStage, UnlinkStage, Busy
<1> QED
  BY <1>2, <1>3, <1>4, <1>5, <1>6, <1>8, <1>10, <1>11, <1>12, <1>14 DEF TreeRight

LEMMA RenameNewBegins ==
  ASSUME TypeOK, TreeRight, NEW nm \in Name, NEW to \in Name, RenameNew(nm, to)
  PROVE  /\ TreeRight' /\ Renaming' /\ Busy' /\ ~Finding' /\ ~Unlinking' /\ ~Busy
         /\ op'.pc = "detach" /\ op'.kind = "rename"
         /\ op'.nm = nm /\ op'.to = to /\ op'.ino = dcache[nm] /\ op'.tgt = None
         /\ op'.x \in Slots(nm) /\ op'.y \in FreeSlots(to[1]) /\ On(op'.ino, op'.x)
         /\ op'.ino \in Inodes
         /\ Adds(op'.y, to, Empty, inode[dcache[nm]].dir)
<1>1. PICK x \in Slots(nm), y \in FreeSlots(to[1]) :
         /\ Adds(y, to, Empty, inode[dcache[nm]].dir)
         /\ Lock([At("rename", "detach", nm, x) EXCEPT !.to = to, !.ino = dcache[nm], !.y = y])
  BY DEF RenameNew
<1>2. /\ ~Busy /\ nm # to /\ dcache[nm] # None /\ dcache[to] = None /\ Slots(to) = {}
      /\ UNCHANGED <<inode, dcache, dirsync>>
  BY <1>1 DEF RenameNew, Lock
<1>3. op' = [kind |-> "rename", pc |-> "detach", nm |-> nm, to |-> to, ino |-> dcache[nm],
             tgt |-> None, x |-> x, y |-> y]
  BY <1>1 DEF Lock, At, NoOp
<1>4. /\ dcache[nm] \in Inodes /\ Live(dcache[nm]) /\ On(dcache[nm], x)
      /\ entry[x].dir = inode[dcache[nm]].dir /\ inode[dcache[nm]].dir \in BOOLEAN
  BY <1>2, IdleDentry, InodeFields
<1>5. /\ y \in Pos /\ DirOf[y] = to[1] /\ entry[y] = Deleted
      /\ entry'[y] # Deleted /\ entry'[y].dir = inode[dcache[nm]].dir
      /\ \A w \in Pos : w # y => entry'[w] = entry[w]
      /\ Slots(to)' = {y}
      /\ \A m \in Name : m # to => Slots(m)' = Slots(m)
      /\ NamesRight'
  <2>1. Empty \in Content /\ NamesRight
    BY DEF Content, TreeRight
  <2> QED
    BY <1>1, <1>2, <1>4, <2>1, EntryAdded
<1>6. x \in Pos /\ x # None /\ y # None /\ x # y /\ Used(x)
  BY <1>5, ValuesAssumption DEF Slots, Used
<1>7. Vacant(y)
  BY <1>2, <1>5, <1>6, IdleOp DEF TreeRight, HashRight, Used, Vacant, On
<1>8. Renaming' /\ ~Finding' /\ ~Unlinking' /\ Busy' /\ op'.pc # "none"
  BY <1>3 DEF Finding, Unlinking, Renaming, Busy
<1>9. HashRight'
  <2>1. \A i \in Inodes : Live(i) /\ inode[i].pos # None =>
           Used(inode[i].pos) /\ entry[inode[i].pos].dir = inode[i].dir
    BY <1>2, IdleOp DEF TreeRight, HashRight
  <2>2. ASSUME NEW i \in Inodes, Live(i), inode[i].pos # None
        PROVE  entry'[inode[i].pos] # Deleted /\ entry'[inode[i].pos].dir = inode[i].dir
    <3>1. inode[i].pos # y /\ inode[i].pos \in Pos
      BY <1>7, <2>2, InodeFields DEF Vacant, On
    <3> QED
      BY <3>1, <2>1, <2>2, <1>5 DEF Used
  <2> QED
    BY <1>2, <2>2 DEF TreeRight, HashRight, OneInode, Live, Used
<1>10. DentriesRight'
  BY <1>2, <1>3, <1>5, IdleDentry DEF DentriesRight, Live
<1>11. RenameStage'
  <2>1. \A i \in Inodes : Live(i) /\ inode[i].pos \in {x, y} => i = dcache[nm]
    BY <1>4, <1>6, <1>7 DEF On, Vacant, TreeRight, HashRight, OneInode
  <2>2. entry'[x] = entry[x] /\ x \in Slots(nm)' /\ y \in Slots(to)'
    BY <1>2, <1>5, <1>6
  <2> QED
    BY <2>1, <2>2, <1>2, <1>3, <1>4, <1>5 DEF RenameStage, On, Live
<1>12. Stages'
  BY <1>11, <1>8 DEF Stages, FindStage, UnlinkStage, Busy
<1> QED
  BY <1>1, <1>2, <1>3, <1>4, <1>5, <1>8, <1>9, <1>10, <1>12 DEF TreeRight

-----------------------------------------------------------------------------
(* Lookup, create, mkdir and unlink end.                                      *)

LEMMA IdleAfter ==
  ASSUME op' = NoOp
  PROVE  /\ Stages' /\ ~Busy' /\ ~Finding' /\ ~Unlinking' /\ ~Renaming'
         /\ op'.nm = None /\ op'.to = None /\ op'.ino = None /\ op'.tgt = None
BY DEF NoOp, Stages, FindStage, UnlinkStage, RenameStage, Finding, Unlinking, Renaming, Busy

LEMMA FindFacts ==
  ASSUME TypeOK, TreeRight, Finding
  PROVE  /\ Busy /\ ~Unlinking /\ ~Renaming /\ op.kind \in {"lookup", "create", "mkdir"}
         /\ op.nm \in Name /\ op.x \in Slots(op.nm) /\ op.x \in Pos /\ op.x # None /\ Used(op.x)
         /\ dcache[op.nm] = None /\ op.to = None /\ op.ino = None /\ op.tgt = None
         /\ op.pc = "fill" => Vacant(op.x)
         /\ \A n \in Name : dcache[n] # None =>
              n # op.nm /\ Live(dcache[n]) /\ inode[dcache[n]].pos \in Slots(n)
         /\ \A i \in Inodes : Live(i) /\ inode[i].pos # None =>
              Used(inode[i].pos) /\ entry[inode[i].pos].dir = inode[i].dir
<1>1. Busy /\ ~Unlinking /\ ~Renaming
  BY DEF TreeRight, Stages, FindStage, Finding, Unlinking, Renaming, Busy
<1>2. /\ op.kind \in {"lookup", "create", "mkdir"}
      /\ op.nm \in Name /\ op.x \in Slots(op.nm) /\ dcache[op.nm] = None
      /\ op.to = None /\ op.ino = None /\ op.tgt = None
      /\ op.pc = "fill" => Vacant(op.x)
  BY DEF TreeRight, Stages, FindStage
<1>3. op.x \in Pos /\ op.x # None /\ Used(op.x)
  BY <1>2, ValuesAssumption DEF Slots, Used
<1>4. \A n \in Name : dcache[n] # None =>
              n # op.nm /\ Live(dcache[n]) /\ inode[dcache[n]].pos \in Slots(n)
  BY <1>2, ValuesAssumption DEF TreeRight, DentriesRight
<1>5. \A i \in Inodes : Live(i) /\ inode[i].pos # None =>
              Used(inode[i].pos) /\ entry[inode[i].pos].dir = inode[i].dir
  BY <1>1 DEF TreeRight, HashRight
<1> QED
  BY <1>1, <1>2, <1>3, <1>4, <1>5

LEMMA IgetTree ==
  ASSUME TypeOK, TreeRight, Iget
  PROVE  TreeRight'
<1>1. Finding /\ op.pc = "iget" /\ UNCHANGED <<entry, inode, dirsync>>
  BY DEF Iget, Finding, disk
<1>2. NamesRight' /\ \A m \in Name : Slots(m)' = Slots(m)
  BY <1>1 DEF NamesRight, TreeRight, Slots, Used
<1>3. CASE Grabbable(op.x) = {}
  <2>1. op' = [op EXCEPT !.pc = "fill"] /\ UNCHANGED dcache
    BY <1>3 DEF Iget, Goto
  <2>2. /\ op'.pc = "fill" /\ op'.kind = op.kind /\ op'.nm = op.nm /\ op'.to = op.to /\ op'.ino = op.ino
        /\ op'.tgt = op.tgt /\ op'.x = op.x /\ op'.y = op.y
    BY <2>1 DEF TypeOK, Ops
  <2>3. Vacant(op.x)
    BY <1>3 DEF Grabbable, Vacant, On
  <2>4. Finding' /\ ~Unlinking' /\ ~Renaming' /\ Busy'
    BY <2>2, FindFacts, <1>1 DEF Finding, Unlinking, Renaming, Busy
  <2>5. Stages'
    <3>1. FindStage'
      BY <2>1, <2>2, <2>3, <1>1, <1>2 DEF FindStage, TreeRight, Stages, Vacant, On, Live
    <3> QED
      BY <3>1, <2>2, <2>4 DEF Stages, UnlinkStage, RenameStage, Busy
  <2>6. HashRight'
    BY <1>1, FindFacts DEF TreeRight, HashRight, OneInode, Live, Used
  <2>7. DentriesRight'
    BY <1>1, <1>2, <2>1, FindFacts DEF DentriesRight, Live
  <2> QED
    BY <1>2, <2>5, <2>6, <2>7 DEF TreeRight
<1>4. CASE Grabbable(op.x) # {}
  <2>1. PICK i \in Grabbable(op.x) : op' = NoOp /\ dcache' = [dcache EXCEPT ![op.nm] = i]
    BY <1>4 DEF Iget, Splice, Unlock
  <2>2. i \in Inodes /\ Live(i) /\ inode[i].pos = op.x
    BY DEF Grabbable
  <2>3. HashRight'
    BY <1>1, FindFacts DEF TreeRight, HashRight, OneInode, Live, Used
  <2>4. dcache'[op.nm] = i /\ \A n \in Name : n # op.nm => dcache'[n] = dcache[n]
    BY <2>1, <1>1, FindFacts DEF TypeOK
  <2>5. DentriesRight'
    BY <1>1, <1>2, <2>2, <2>4, FindFacts DEF DentriesRight, Live
  <2> QED
    BY <1>2, <2>1, <2>3, <2>5, IdleAfter DEF TreeRight
<1> QED
  BY <1>3, <1>4

(* What a new inode is.                                                        *)
LEMMA Filled ==
  ASSUME TypeOK, TreeRight, Fill
  PROVE  /\ Finding /\ op.pc = "fill"
         /\ UNCHANGED <<entry, dotdot, nlink, flush, dirsync>>
         /\ op' = NoOp /\ before' = Nothing
         /\ \E i \in Inodes :
              /\ inode[i].st = "none" /\ inode'[i].st = "live" /\ inode'[i].pos = op.x
              /\ inode'[i].data = entry[op.x].data /\ inode'[i].dir = entry[op.x].dir
              /\ ~inode'[i].dirty
              /\ \A j \in Inodes : j # i => inode'[j] = inode[j]
              /\ dcache'[op.nm] = i /\ \A n \in Name : n # op.nm => dcache'[n] = dcache[n]
<1>1. PICK i \in Inodes :
       /\ inode[i].st = "none"
       /\ inode' = [inode EXCEPT ![i] =
            [st |-> "live", pos |-> op.x, data |-> entry[op.x].data,
             dir |-> entry[op.x].dir, dirty |-> FALSE]]
       /\ Splice(i)
  BY DEF Fill
<1>2. Finding /\ op.pc = "fill" /\ UNCHANGED <<entry, dotdot, nlink, flush, dirsync>>
  BY DEF Fill, disk, Finding
<1>3. inode'[i] = [st |-> "live", pos |-> op.x, data |-> entry[op.x].data,
             dir |-> entry[op.x].dir, dirty |-> FALSE]
      /\ \A j \in Inodes : j # i => inode'[j] = inode[j]
  BY <1>1 DEF TypeOK
<1>4. dcache' = [dcache EXCEPT ![op.nm] = i] /\ op' = NoOp /\ before' = Nothing
  BY <1>1 DEF Splice, Unlock
<1>5. dcache'[op.nm] = i /\ \A n \in Name : n # op.nm => dcache'[n] = dcache[n]
  BY <1>2, <1>4, FindFacts DEF TypeOK
<1>6. inode'[i].st = "live" /\ inode'[i].pos = op.x
              /\ inode'[i].data = entry[op.x].data /\ inode'[i].dir = entry[op.x].dir
              /\ ~inode'[i].dirty
  BY <1>3
<1> QED
  BY <1>1, <1>2, <1>3, <1>4, <1>5, <1>6

LEMMA FillTree ==
  ASSUME TypeOK, TreeRight, Fill
  PROVE  TreeRight'
<1>1. Finding /\ op.pc = "fill" /\ UNCHANGED <<entry, dirsync>> /\ op' = NoOp
  BY Filled
<1>2. PICK i \in Inodes :
         /\ inode[i].st = "none" /\ inode'[i].st = "live" /\ inode'[i].pos = op.x
         /\ inode'[i].dir = entry[op.x].dir
         /\ \A j \in Inodes : j # i => inode'[j] = inode[j]
         /\ dcache'[op.nm] = i /\ \A n \in Name : n # op.nm => dcache'[n] = dcache[n]
  BY Filled
<1>3. NamesRight' /\ \A m \in Name : Slots(m)' = Slots(m)
  BY <1>1 DEF NamesRight, TreeRight, Slots, Used
<1>4. HashRight'
  <2>1. OneInode'
    BY <1>1, <1>2, FindFacts DEF TreeRight, HashRight, OneInode, Live, Vacant, On
  <2>2. ASSUME NEW j \in Inodes, inode'[j].st = "live", inode'[j].pos # None
        PROVE  entry[inode'[j].pos] # Deleted /\ entry[inode'[j].pos].dir = inode'[j].dir
    BY <2>2, <1>1, <1>2, FindFacts DEF Live, Used
  <2> QED
    BY <2>1, <2>2, <1>1 DEF HashRight, Live, Used
<1>5. DentriesRight'
  <2>1. ASSUME NEW n \in Name, dcache'[n] # None
        PROVE  inode'[dcache'[n]].st = "live" /\ inode'[dcache'[n]].pos \in Slots(n)
    <3>1. CASE n = op.nm
      BY <3>1, <1>1, <1>2, FindFacts
    <3>2. CASE n # op.nm
      <4>1. dcache'[n] = dcache[n] /\ dcache[n] \in Inodes /\ Live(dcache[n])
            /\ inode[dcache[n]].pos \in Slots(n)
        BY <3>2, <2>1, <1>1, <1>2, FindFacts DEF TypeOK
      <4> QED
        BY <4>1, <1>2 DEF Live
    <3> QED
      BY <3>1, <3>2
  <2> QED
    BY <2>1, <1>3 DEF DentriesRight, Live
<1> QED
  BY <1>1, <1>3, <1>4, <1>5, IdleAfter DEF TreeRight

LEMMA BuildFailsTree ==
  ASSUME TypeOK, TreeRight, BuildFails
  PROVE  TreeRight'
<1>1. Finding /\ UNCHANGED <<entry, inode, dcache>> /\ op' = NoOp
  BY DEF BuildFails, Finding, disk, Unlock
<1>2. NamesRight' /\ \A m \in Name : Slots(m)' = Slots(m)
  BY <1>1 DEF NamesRight, TreeRight, Slots, Used
<1>3. HashRight'
  BY <1>1, FindFacts DEF TreeRight, HashRight, OneInode, Live, Used
<1>4. DentriesRight'
  BY <1>1, <1>2, FindFacts DEF DentriesRight, Live
<1> QED
  BY <1>1, <1>2, <1>3, <1>4, IdleAfter DEF TreeRight

LEMMA UnlinkFacts ==
  ASSUME TypeOK, TreeRight, Unlinking
  PROVE  /\ Busy /\ ~Finding /\ ~Renaming /\ op.kind = "unlink" /\ op.pc = "detach"
         /\ op.nm \in Name /\ op.ino \in Inodes /\ dcache[op.nm] = op.ino
         /\ op.x \in Pos /\ op.x # None /\ entry[op.x] = Deleted /\ DirOf[op.x] = op.nm[1]
         /\ Live(op.ino) /\ inode[op.ino].pos = op.x /\ Slots(op.nm) = {}
         /\ op.to = None /\ op.tgt = None
         /\ \A n \in Name : n # op.nm /\ dcache[n] # None =>
              Live(dcache[n]) /\ inode[dcache[n]].pos \in Slots(n) /\ dcache[n] # op.ino
         /\ \A i \in Inodes : Live(i) /\ inode[i].pos # None /\ i # op.ino =>
              Used(inode[i].pos) /\ entry[inode[i].pos].dir = inode[i].dir
<1>1. Busy /\ ~Finding /\ ~Renaming /\ op.kind = "unlink" /\ op.pc = "detach"
  BY DEF Finding, Unlinking, Renaming, Busy
<1>2. /\ op.nm \in Name /\ op.ino \in Inodes /\ dcache[op.nm] = op.ino
      /\ op.x \in Pos /\ entry[op.x] = Deleted /\ DirOf[op.x] = op.nm[1]
      /\ Live(op.ino) /\ inode[op.ino].pos = op.x /\ Slots(op.nm) = {}
      /\ op.to = None /\ op.tgt = None /\ op.x # None
  BY ValuesAssumption DEF TreeRight, Stages, UnlinkStage, On
<1>3. \A n \in Name : n # op.nm /\ dcache[n] # None =>
              Live(dcache[n]) /\ inode[dcache[n]].pos \in Slots(n)
  BY <1>2, ValuesAssumption DEF TreeRight, DentriesRight
<1>4. \A n \in Name : op.x \notin Slots(n)
  BY <1>2 DEF Slots
<1>5. \A i \in Inodes : Live(i) /\ inode[i].pos # None /\ i # op.ino =>
              Used(inode[i].pos) /\ entry[inode[i].pos].dir = inode[i].dir
  BY <1>1 DEF TreeRight, HashRight
<1> QED
  BY <1>1, <1>2, <1>3, <1>4, <1>5

LEMMA UnlinkDoneTree ==
  ASSUME TypeOK, TreeRight, UnlinkDone
  PROVE  TreeRight' /\ Unlinking /\ op' = NoOp
<1>1. /\ Unlinking /\ UNCHANGED <<entry, dirsync>> /\ op' = NoOp /\ inode' = Detached(op.ino)
      /\ dcache' = [dcache EXCEPT ![op.nm] = None]
  BY DEF UnlinkDone, Unlinking, disk, Unlock
<1>2. NamesRight' /\ \A m \in Name : Slots(m)' = Slots(m)
  BY <1>1 DEF NamesRight, TreeRight, Slots, Used
<1>3. /\ SameInodes /\ inode'[op.ino].pos = None
      /\ \A j \in Inodes : j # op.ino => inode'[j].pos = inode[j].pos
  BY <1>1, UnlinkFacts, InodeDetached
<1>4. HashRight'
  <2>1. OneInode'
    BY <1>3 DEF TreeRight, HashRight, OneInode, SameInodes, Live
  <2>2. ASSUME NEW j \in Inodes, inode'[j].st = "live", inode'[j].pos # None
        PROVE  entry[inode'[j].pos] # Deleted /\ entry[inode'[j].pos].dir = inode'[j].dir
    BY <2>2, <1>1, <1>3, UnlinkFacts DEF Live, Used, SameInodes
  <2> QED
    BY <2>1, <2>2, <1>1 DEF HashRight, Live, Used
<1>5. dcache'[op.nm] = None /\ \A n \in Name : n # op.nm => dcache'[n] = dcache[n]
  BY <1>1, UnlinkFacts DEF TypeOK
<1>6. DentriesRight'
  <2>1. ASSUME NEW n \in Name, dcache'[n] # None
        PROVE  inode'[dcache'[n]].st = "live" /\ inode'[dcache'[n]].pos \in Slots(n)
    <3>1. dcache'[n] = dcache[n] /\ dcache[n] \in Inodes /\ Live(dcache[n]) /\ dcache[n] # op.ino
          /\ inode[dcache[n]].pos \in Slots(n)
      BY <2>1, <1>1, <1>5, UnlinkFacts DEF TypeOK
    <3> QED
      BY <3>1, <1>3 DEF Live, SameInodes
  <2> QED
    BY <2>1, <1>2 DEF DentriesRight, Live
<1> QED
  BY <1>1, <1>2, <1>4, <1>6, IdleAfter DEF TreeRight

-----------------------------------------------------------------------------
(* Rename.                                                                    *)

LEMMA RenameFacts ==
  ASSUME TypeOK, TreeRight, Renaming
  PROVE  /\ Busy /\ ~Finding /\ ~Unlinking
         /\ op.nm \in Name /\ op.to \in Name /\ op.nm # op.to
         /\ op.x \in Slots(op.nm) /\ op.y \in Slots(op.to) /\ op.x \in Pos /\ op.y \in Pos
         /\ op.x # op.y /\ op.x # None /\ op.y # None
         /\ Used(op.x) /\ Used(op.y) /\ DirOf[op.x] = op.nm[1] /\ DirOf[op.y] = op.to[1]
         /\ op.ino \in Inodes /\ Live(op.ino) /\ dcache[op.nm] = op.ino
         /\ op.tgt \in Inodes \cup {None} /\ dcache[op.to] = op.tgt /\ op.tgt # op.ino
         /\ entry[op.x].dir = inode[op.ino].dir /\ entry[op.y].dir = inode[op.ino].dir
         /\ op.tgt # None => /\ Live(op.tgt) /\ inode[op.tgt].pos = None
                             /\ inode[op.tgt].dir = inode[op.ino].dir
         /\ \A i \in Inodes : Live(i) /\ inode[i].pos \in {op.x, op.y} => i = op.ino
         /\ \A i \in Inodes : Live(i) /\ inode[i].pos # None =>
              Used(inode[i].pos) /\ entry[inode[i].pos].dir = inode[i].dir
         /\ \A n \in Name : n \notin {op.nm, op.to} /\ dcache[n] # None =>
              /\ Live(dcache[n]) /\ inode[dcache[n]].pos \in Slots(n)
              /\ dcache[n] # op.ino /\ dcache[n] # op.tgt
<1>1. Busy /\ ~Finding /\ ~Unlinking
  BY DEF TreeRight, Stages, RenameStage, Finding, Unlinking, Renaming, Busy
<1>2. /\ op.nm \in Name /\ op.to \in Name /\ op.nm # op.to
      /\ op.x \in Slots(op.nm) /\ op.y \in Slots(op.to)
      /\ op.ino \in Inodes /\ Live(op.ino) /\ dcache[op.nm] = op.ino
      /\ dcache[op.to] = op.tgt /\ op.tgt # op.ino
      /\ entry[op.x].dir = inode[op.ino].dir /\ entry[op.y].dir = inode[op.ino].dir
      /\ op.tgt # None => /\ Live(op.tgt) /\ inode[op.tgt].pos = None
                          /\ inode[op.tgt].dir = inode[op.ino].dir
      /\ \A i \in Inodes : Live(i) /\ inode[i].pos \in {op.x, op.y} => i = op.ino
      /\ inode[op.ino].pos \in {op.x, op.y, None}
  BY DEF TreeRight, Stages, RenameStage, On
<1>3. /\ op.x \in Pos /\ op.y \in Pos /\ op.x # None /\ op.y # None /\ Used(op.x) /\ Used(op.y)
      /\ DirOf[op.x] = op.nm[1] /\ DirOf[op.y] = op.to[1]
  BY <1>2, ValuesAssumption DEF Slots, Used
<1>4. op.x # op.y
  BY <1>2, OneNameForASlot
<1>5. op.tgt \in Inodes \cup {None}
  BY OpFields
<1>6. \A i \in Inodes : Live(i) /\ inode[i].pos # None =>
              Used(inode[i].pos) /\ entry[inode[i].pos].dir = inode[i].dir
  BY <1>1 DEF TreeRight, HashRight
<1>7. ASSUME NEW n \in Name, n \notin {op.nm, op.to}, dcache[n] # None
      PROVE  /\ Live(dcache[n]) /\ inode[dcache[n]].pos \in Slots(n)
             /\ dcache[n] # op.ino /\ dcache[n] # op.tgt
  <2>1. Live(dcache[n]) /\ inode[dcache[n]].pos \in Slots(n)
    BY <1>7 DEF TreeRight, DentriesRight
  <2>2. inode[dcache[n]].pos \notin {op.x, op.y}
    BY <2>1, <1>2, <1>7, OneNameForASlot
  <2>3. inode[dcache[n]].pos # None
    BY <2>1, ValuesAssumption DEF Slots
  <2> QED
    BY <2>1, <2>2, <2>3, <1>2, <1>7
<1> QED
  BY <1>1, <1>2, <1>3, <1>4, <1>5, <1>6, <1>7

(* A step within a rename.                                                    *)
LEMMA RenameContinues ==
  ASSUME TypeOK, TreeRight, Renaming, RenameStage', Renaming', SameSlots, HashRight',
         UNCHANGED <<dcache, dirsync>>, op'.nm = op.nm, op'.to = op.to,
         \A i \in Inodes : inode'[i].st = inode[i].st,
         \A i \in Inodes : i \notin {op.ino, op.tgt} => inode'[i].pos = inode[i].pos,
         op'.pc # "none", op'.kind # "none"
  PROVE  TreeRight' /\ Busy' /\ ~Finding' /\ ~Unlinking'
<1>1. Busy' /\ ~Finding' /\ ~Unlinking'
  BY DEF RenameStage, Finding, Unlinking, Renaming, Busy
<1>2. NamesRight' /\ \A m \in Name : Slots(m)' = Slots(m)
  BY EntrySame DEF TreeRight
<1>3. DentriesRight'
  <2>1. ASSUME NEW n \in Name, dcache[n] # None
        PROVE  /\ inode'[dcache[n]].st = "live"
               /\ n \in {op.nm, op.to} \/ inode'[dcache[n]].pos \in Slots(n)
    BY <2>1, RenameFacts DEF Live, TypeOK
  <2> QED
    BY <2>1, <1>2 DEF DentriesRight, Live
<1>4. Stages'
  BY <1>1 DEF Stages, FindStage, UnlinkStage, Busy
<1> QED
  BY <1>1, <1>2, <1>3, <1>4 DEF TreeRight

LEMMA OpGoes ==
  ASSUME TypeOK, NEW pc \in OpPcs, Goto(pc)
  PROVE  /\ op'.pc = pc /\ op'.kind = op.kind /\ op'.nm = op.nm /\ op'.to = op.to
         /\ op'.ino = op.ino /\ op'.tgt = op.tgt /\ op'.x = op.x /\ op'.y = op.y
         /\ before' = before
BY DEF TypeOK, Ops, Goto

LEMMA RenameDetachTree ==
  ASSUME TypeOK, TreeRight, RenameDetach
  PROVE  TreeRight' /\ Renaming /\ Renaming' /\ Busy' /\ ~Finding' /\ ~Unlinking'
<1>1. Renaming /\ op.pc = "detach" /\ op.kind = "rename" /\ UNCHANGED <<entry, dcache, dirsync>>
      /\ inode' = Detached(op.ino)
  BY DEF RenameDetach, Renaming, disk
<1>2. /\ op'.pc = "attach" /\ op'.kind = op.kind /\ op'.nm = op.nm /\ op'.to = op.to
      /\ op'.ino = op.ino /\ op'.tgt = op.tgt /\ op'.x = op.x /\ op'.y = op.y
  BY OpGoes DEF RenameDetach, OpPcs
<1>3. /\ SameInodes /\ inode'[op.ino].pos = None
      /\ \A j \in Inodes : j # op.ino => inode'[j].pos = inode[j].pos
  BY <1>1, RenameFacts, InodeDetached
<1>4. Renaming' /\ ~Unlinking'
  BY <1>2 DEF Renaming, Unlinking
<1>5. HashRight'
  <2>1. OneInode'
    BY <1>3 DEF TreeRight, HashRight, OneInode, SameInodes, Live
  <2>2. ASSUME NEW j \in Inodes, inode'[j].st = "live", inode'[j].pos # None
        PROVE  entry[inode'[j].pos] # Deleted /\ entry[inode'[j].pos].dir = inode'[j].dir
    BY <2>2, <1>1, <1>3, RenameFacts DEF Live, Used, SameInodes
  <2> QED
    BY <2>1, <2>2, <1>1 DEF HashRight, Live, Used
<1>6. SameSlots
  BY <1>1 DEF SameSlots, Used
<1>7. RenameStage'
  <2>1. Slots(op.nm)' = Slots(op.nm) /\ Slots(op.to)' = Slots(op.to)
    BY <1>1, <1>2 DEF Slots
  <2>2. inode'[op.ino].st = "live" /\ inode'[op.ino].dir = inode[op.ino].dir
    BY <1>1, <1>3, RenameFacts DEF SameInodes, Live
  <2>3. op.tgt # None => inode'[op.tgt].st = "live" /\ inode'[op.tgt].pos = None
                         /\ inode'[op.tgt].dir = inode[op.ino].dir
    BY <1>1, <1>3, RenameFacts DEF SameInodes, Live
  <2>4. \A i \in Inodes : inode'[i].st = "live" /\ inode'[i].pos \in {op.x, op.y} => i = op.ino
    BY <1>1, <1>3, RenameFacts DEF SameInodes, Live
  <2> QED
    BY <1>1, <1>2, <1>3, <2>1, <2>2, <2>3, <2>4, RenameFacts DEF RenameStage, Live, On
<1> QED
  BY <1>1, <1>2, <1>3, <1>4, <1>5, <1>6, <1>7, RenameContinues DEF SameInodes

(* fat_attach at the new slot, with the inode dirty or not.                   *)
LEMMA Reattached ==
  ASSUME TypeOK, TreeRight, RenameAttach
  PROVE  /\ SameInodes /\ inode'[op.ino].pos = op.y
         /\ inode'[op.ino].dirty = (inode[op.ino].dirty \/ ~dirsync)
         /\ \A j \in Inodes : j # op.ino => inode'[j] = inode[j]
<1>1. op.ino \in Inodes /\ inode' = [Attached(op.ino, op.y) EXCEPT ![op.ino].dirty = @ \/ ~dirsync]
  BY RenameFacts DEF RenameAttach, Renaming
<1> DEFINE A == Attached(op.ino, op.y)
<1>2. A \in [Inodes -> InodeSt]
  <2>1. [inode[op.ino] EXCEPT !.pos = op.y] \in InodeSt
    BY <1>1, InodeFields, OpFields DEF InodeSt
  <2> QED
    BY <1>1, <2>1 DEF Attached, TypeOK
<1>3. A[op.ino] = [inode[op.ino] EXCEPT !.pos = op.y] /\ \A j \in Inodes : j # op.ino => A[j] = inode[j]
  BY <1>1 DEF Attached, TypeOK
<1>4. A[op.ino].pos = op.y /\ A[op.ino].st = inode[op.ino].st /\ A[op.ino].dir = inode[op.ino].dir
      /\ A[op.ino].data = inode[op.ino].data /\ A[op.ino].dirty = inode[op.ino].dirty
  <2>1. inode[op.ino] \in InodeSt
    BY <1>1, InodeFields
  <2> HIDE DEF A
  <2> QED
    BY <1>3, <2>1 DEF InodeSt
<1>5. inode' = [A EXCEPT ![op.ino].dirty = @ \/ ~dirsync]
  BY <1>1
<1> HIDE DEF A
<1>6. inode'[op.ino] = [A[op.ino] EXCEPT !.dirty = @ \/ ~dirsync]
      /\ \A j \in Inodes : j # op.ino => inode'[j] = A[j]
  BY <1>1, <1>2, <1>5
<1>7. A[op.ino] \in InodeSt
  BY <1>1, <1>2
<1>8. inode'[op.ino].dirty = (A[op.ino].dirty \/ ~dirsync) /\ inode'[op.ino].pos = A[op.ino].pos
      /\ inode'[op.ino].st = A[op.ino].st /\ inode'[op.ino].dir = A[op.ino].dir
      /\ inode'[op.ino].data = A[op.ino].data
  BY <1>6, <1>7 DEF InodeSt
<1> QED
  BY <1>3, <1>4, <1>6, <1>8 DEF SameInodes

LEMMA RenameAttachTree ==
  ASSUME TypeOK, TreeRight, RenameAttach
  PROVE  TreeRight' /\ Renaming /\ Renaming' /\ Busy' /\ ~Finding' /\ ~Unlinking'
<1>1. Renaming /\ op.pc = "attach" /\ op.kind = "rename" /\ UNCHANGED <<entry, dcache, dirsync>>
  BY DEF RenameAttach, Renaming, disk, TreeRight, Stages, RenameStage
<1>2. /\ op'.pc = (IF dirsync THEN "sync" ELSE AfterSync)
      /\ op'.kind = op.kind /\ op'.nm = op.nm /\ op'.to = op.to
      /\ op'.ino = op.ino /\ op'.tgt = op.tgt /\ op'.x = op.x /\ op'.y = op.y
  BY OpGoes DEF RenameAttach, OpPcs, AfterSync
<1>3. /\ SameInodes /\ inode'[op.ino].pos = op.y
      /\ \A j \in Inodes : j # op.ino => inode'[j] = inode[j]
  BY Reattached
<1>4. Renaming' /\ ~Unlinking' /\ op'.pc # "none"
  BY <1>1, <1>2 DEF Renaming, Unlinking, AfterSync
<1>5. HashRight'
  <2>1. OneInode'
    BY <1>1, <1>3, RenameFacts DEF TreeRight, HashRight, OneInode, SameInodes, Live
  <2>2. ASSUME NEW j \in Inodes, inode'[j].st = "live", inode'[j].pos # None
        PROVE  entry[inode'[j].pos] # Deleted /\ entry[inode'[j].pos].dir = inode'[j].dir
    BY <2>2, <1>1, <1>3, RenameFacts DEF Live, Used, SameInodes
  <2> QED
    BY <2>1, <2>2, <1>1 DEF HashRight, Live, Used
<1>6. SameSlots
  BY <1>1 DEF SameSlots, Used
<1>7. RenameStage'
  <2>1. Slots(op.nm)' = Slots(op.nm) /\ Slots(op.to)' = Slots(op.to)
    BY <1>1, <1>2 DEF Slots
  <2>2. inode'[op.ino].st = "live" /\ inode'[op.ino].dir = inode[op.ino].dir
    BY <1>1, <1>3, RenameFacts DEF SameInodes, Live
  <2>3. op.tgt # None => inode'[op.tgt].st = "live" /\ inode'[op.tgt].pos = None
                         /\ inode'[op.tgt].dir = inode[op.ino].dir
    BY <1>1, <1>3, RenameFacts DEF SameInodes, Live
  <2>4. \A i \in Inodes : inode'[i].st = "live" /\ inode'[i].pos \in {op.x, op.y} => i = op.ino
    BY <1>1, <1>3, RenameFacts DEF SameInodes, Live
  <2>5. MovesDir' = MovesDir
    BY <1>2, <2>2 DEF MovesDir
  <2>6. op'.pc \in {"sync", "dotdot", "old"} /\ (op'.pc = "sync" => dirsync) /\ (op'.pc = "dotdot" => MovesDir)
    BY <1>2 DEF AfterSync
  <2> QED
    BY <1>1, <1>2, <1>3, <2>1, <2>2, <2>3, <2>4, <2>5, <2>6, RenameFacts DEF RenameStage, Live, On
<1> QED
  BY <1>1, <1>2, <1>3, <1>4, <1>5, <1>6, <1>7, RenameContinues DEF SameInodes

(* RenameSync and RenameDotdot move nothing.                                   *)
LEMMA RenameStays ==
  ASSUME TypeOK, TreeRight, Renaming, Renaming', SameSlots, UNCHANGED <<inode, dcache, dirsync>>,
         op'.kind = op.kind, op'.nm = op.nm, op'.to = op.to,
         op'.ino = op.ino, op'.tgt = op.tgt, op'.x = op.x, op'.y = op.y,
         op.pc \in {"sync", "dotdot", "old"}, op'.pc \in {"undo", "corrupt", "dotdot", "old"},
         op'.pc \in {"undo", "corrupt"} => dirsync,
         op'.pc \in {"dotdot", "corrupt"} => MovesDir
  PROVE  TreeRight' /\ Busy' /\ ~Finding' /\ ~Unlinking'
<1>1. HashRight'
  <2>1. ASSUME NEW j \in Inodes, Live(j), inode[j].pos # None
        PROVE  entry'[inode[j].pos] # Deleted /\ entry'[inode[j].pos].dir = inode[j].dir
    BY <2>1, RenameFacts, InodeFields DEF SameSlots, Used
  <2> QED
    BY <2>1 DEF TreeRight, HashRight, OneInode, Live, Used
<1>2. RenameStage'
  <2>1. Slots(op.nm)' = Slots(op.nm) /\ Slots(op.to)' = Slots(op.to)
    BY EntrySame, RenameFacts DEF TreeRight
  <2>2. entry'[op.x].dir = entry[op.x].dir /\ entry'[op.y].dir = entry[op.y].dir
    BY RenameFacts DEF SameSlots
  <2>3. MovesDir' = MovesDir
    BY DEF MovesDir
  <2>4. op.kind = "rename" /\ inode[op.ino].pos = op.y
    BY DEF TreeRight, Stages, RenameStage
  <2> QED
    BY <2>1, <2>2, <2>3, <2>4, RenameFacts DEF RenameStage, Live, On
<1>3. op'.pc # "none" /\ op'.kind # "none"
  BY DEF TreeRight, Stages, RenameStage
<1> QED
  BY <1>1, <1>2, <1>3, RenameContinues

LEMMA RenameSyncTree ==
  ASSUME TypeOK, TreeRight, RenameSync
  PROVE  /\ TreeRight' /\ Renaming /\ Renaming' /\ Busy' /\ ~Finding' /\ ~Unlinking'
         /\ SameSlots /\ op'.pc \in {"undo", "dotdot", "old"} /\ (op'.pc = "dotdot" => MovesDir)
         /\ op'.pc = "old" => ~MovesDir
         /\ op'.kind = op.kind /\ op'.nm = op.nm /\ op'.to = op.to
         /\ op'.ino = op.ino /\ op'.tgt = op.tgt /\ op'.x = op.x /\ op'.y = op.y /\ before' = before
<1>1. Renaming /\ op.pc = "sync" /\ UNCHANGED <<inode, dcache, dirsync>>
      /\ (Goto(AfterSync) \/ Goto("undo"))
  BY DEF RenameSync, Renaming
<1>2. /\ op'.kind = op.kind /\ op'.nm = op.nm /\ op'.to = op.to
      /\ op'.ino = op.ino /\ op'.tgt = op.tgt /\ op'.x = op.x /\ op'.y = op.y /\ before' = before
      /\ op'.pc \in {AfterSync, "undo"}
  BY <1>1, OpGoes DEF OpPcs, AfterSync
<1>3. op'.pc \in {"undo", "dotdot", "old"} /\ (op'.pc = "dotdot" => MovesDir) /\ (op'.pc = "old" => ~MovesDir)
  BY <1>2 DEF AfterSync
<1>4. Renaming'
  BY <1>3 DEF Renaming
<1>5. SameSlots
  <2>1. CASE UNCHANGED entry
    BY <2>1 DEF SameSlots, Used
  <2>2. CASE entry' = [entry EXCEPT ![op.y].data = inode[op.ino].data]
    BY <2>2, <1>1, RenameFacts, InodeFields, DataWritten
  <2> QED
    BY <2>1, <2>2 DEF RenameSync
<1>6. dirsync
  BY <1>1 DEF TreeRight, Stages, RenameStage
<1> QED
  BY <1>1, <1>2, <1>3, <1>4, <1>5, <1>6, RenameStays

LEMMA RenameDotdotTree ==
  ASSUME TypeOK, TreeRight, RenameDotdot
  PROVE  /\ TreeRight' /\ Renaming /\ Renaming' /\ Busy' /\ ~Finding' /\ ~Unlinking'
         /\ op'.pc \in {"corrupt", "old"} /\ MovesDir /\ (op'.pc = "corrupt" => UNCHANGED nlink /\ dirsync)
         /\ op'.kind = op.kind /\ op'.nm = op.nm /\ op'.to = op.to
         /\ op'.ino = op.ino /\ op'.tgt = op.tgt /\ op'.x = op.x /\ op'.y = op.y /\ before' = before
<1>1. Renaming /\ op.pc = "dotdot" /\ UNCHANGED <<entry, inode, dcache, dirsync>>
      /\ (Goto("old") \/ (Goto("corrupt") /\ dirsync /\ UNCHANGED nlink))
  BY DEF RenameDotdot, Renaming
<1>2. /\ op'.kind = op.kind /\ op'.nm = op.nm /\ op'.to = op.to
      /\ op'.ino = op.ino /\ op'.tgt = op.tgt /\ op'.x = op.x /\ op'.y = op.y /\ before' = before
      /\ op'.pc \in {"old", "corrupt"} /\ (op'.pc = "corrupt" => UNCHANGED nlink /\ dirsync)
  BY <1>1, OpGoes DEF OpPcs
<1>3. Renaming' /\ SameSlots
  BY <1>1, <1>2 DEF Renaming, SameSlots, Used
<1>4. MovesDir
  BY <1>1 DEF TreeRight, Stages, RenameStage
<1> QED
  BY <1>1, <1>2, <1>3, <1>4, RenameStays

LEMMA RenameRemoveTree ==
  ASSUME TypeOK, TreeRight, "remove" \notin Failing, RenameRemove
  PROVE  /\ TreeRight' /\ Renaming /\ op.pc = "old" /\ op' = NoOp /\ before' = Nothing
         /\ entry' = [entry EXCEPT ![op.x] = Deleted]
<1>1. /\ Renaming /\ op.pc = "old" /\ op' = NoOp /\ UNCHANGED <<inode, dirsync>>
      /\ entry' = [entry EXCEPT ![op.x] = Deleted] /\ before' = Nothing
      /\ dcache' = [dcache EXCEPT ![op.nm] = None, ![op.to] = op.ino]
  BY DEF RenameRemove, Renaming, MayFail, Unlock
<1>2. /\ op.x \in Pos /\ entry'[op.x] = Deleted /\ \A w \in Pos : w # op.x => entry'[w] = entry[w]
      /\ \A m \in Name : m # op.nm => Slots(m)' = Slots(m)
      /\ NamesRight'
  BY <1>1, EntryRemoved, RenameFacts DEF TreeRight
<1>3. inode[op.ino].pos = op.y
  BY <1>1 DEF TreeRight, Stages, RenameStage
<1>4. HashRight'
  <2>1. ASSUME NEW j \in Inodes, Live(j), inode[j].pos # None
        PROVE  entry'[inode[j].pos] # Deleted /\ entry'[inode[j].pos].dir = inode[j].dir
    <3>1. inode[j].pos # op.x /\ inode[j].pos \in Pos
      BY <1>1, <1>3, <2>1, RenameFacts, InodeFields
    <3> QED
      BY <3>1, <2>1, <1>1, <1>2, RenameFacts DEF Used
  <2> QED
    BY <2>1, <1>1 DEF TreeRight, HashRight, OneInode, Live, Used
<1>5. dcache'[op.nm] = None /\ dcache'[op.to] = op.ino
      /\ \A n \in Name : n \notin {op.nm, op.to} => dcache'[n] = dcache[n]
  BY <1>1, RenameFacts DEF TypeOK
<1>6. DentriesRight'
  <2>1. ASSUME NEW n \in Name, dcache'[n] # None
        PROVE  Live(dcache'[n]) /\ inode[dcache'[n]].pos \in Slots(n)'
    <3>1. CASE n = op.to
      BY <3>1, <1>1, <1>2, <1>3, <1>5, RenameFacts
    <3>2. CASE n \notin {op.nm, op.to}
      <4>1. dcache'[n] = dcache[n] /\ Slots(n)' = Slots(n)
        BY <3>2, <1>2, <1>5
      <4>2. Live(dcache[n]) /\ inode[dcache[n]].pos \in Slots(n)
        BY <3>2, <2>1, <4>1 DEF TreeRight, DentriesRight
      <4> QED
        BY <4>1, <4>2
    <3> QED
      BY <3>1, <3>2, <2>1, <1>5
  <2> QED
    BY <2>1, <1>1 DEF DentriesRight, Live
<1> QED
  BY <1>1, <1>2, <1>4, <1>6, IdleAfter DEF TreeRight

LEMMA UndoDetachTree ==
  ASSUME TypeOK, TreeRight, UndoDetach
  PROVE  /\ TreeRight' /\ Renaming /\ Renaming' /\ Busy' /\ ~Finding' /\ ~Unlinking'
         /\ op.pc \in {"undo", "corrupt"}
         /\ op'.pc = "undone" /\ op'.kind = op.pc /\ op'.nm = op.nm /\ op'.to = op.to
         /\ op'.ino = op.ino /\ op'.tgt = op.tgt /\ op'.x = op.x /\ op'.y = op.y /\ before' = before
<1>1. Renaming /\ op.pc \in {"undo", "corrupt"} /\ UNCHANGED <<entry, dcache, dirsync, before>>
      /\ inode' = Detached(op.ino)
  BY DEF UndoDetach, Renaming
<1>2. /\ op'.pc = "undone" /\ op'.kind = op.pc /\ op'.nm = op.nm /\ op'.to = op.to
      /\ op'.ino = op.ino /\ op'.tgt = op.tgt /\ op'.x = op.x /\ op'.y = op.y
  BY DEF UndoDetach, TypeOK, Ops
<1>3. /\ SameInodes /\ inode'[op.ino].pos = None
      /\ \A j \in Inodes : j # op.ino => inode'[j].pos = inode[j].pos
  BY <1>1, RenameFacts, InodeDetached
<1>4. Renaming' /\ ~Unlinking'
  BY <1>2 DEF Renaming, Unlinking
<1>5. HashRight'
  <2>1. OneInode'
    BY <1>3 DEF TreeRight, HashRight, OneInode, SameInodes, Live
  <2>2. ASSUME NEW j \in Inodes, inode'[j].st = "live", inode'[j].pos # None
        PROVE  entry[inode'[j].pos] # Deleted /\ entry[inode'[j].pos].dir = inode'[j].dir
    BY <2>2, <1>1, <1>3, RenameFacts DEF Live, Used, SameInodes
  <2> QED
    BY <2>1, <2>2, <1>1 DEF HashRight, Live, Used
<1>6. SameSlots
  BY <1>1 DEF SameSlots, Used
<1>7. RenameStage'
  <2>1. Slots(op.nm)' = Slots(op.nm) /\ Slots(op.to)' = Slots(op.to)
    BY <1>1, <1>2 DEF Slots
  <2>2. inode'[op.ino].st = "live" /\ inode'[op.ino].dir = inode[op.ino].dir
    BY <1>1, <1>3, RenameFacts DEF SameInodes, Live
  <2>3. op.tgt # None => inode'[op.tgt].st = "live" /\ inode'[op.tgt].pos = None
                         /\ inode'[op.tgt].dir = inode[op.ino].dir
    BY <1>1, <1>3, RenameFacts DEF SameInodes, Live
  <2>4. \A i \in Inodes : inode'[i].st = "live" /\ inode'[i].pos \in {op.x, op.y} => i = op.ino
    BY <1>1, <1>3, RenameFacts DEF SameInodes, Live
  <2>5. dirsync /\ (op.pc = "corrupt" => MovesDir)
    BY <1>1 DEF TreeRight, Stages, RenameStage
  <2>6. MovesDir' = MovesDir
    BY <1>2, <2>2 DEF MovesDir
  <2> QED
    BY <1>1, <1>2, <1>3, <2>1, <2>2, <2>3, <2>4, <2>5, <2>6, RenameFacts DEF RenameStage, Live, On
<1> QED
  BY <1>1, <1>2, <1>3, <1>4, <1>5, <1>6, <1>7, RenameContinues DEF SameInodes

LEMMA UndoneInodes ==
  ASSUME TypeOK, TreeRight, UndoAttach
  PROVE  /\ Renaming /\ op.pc = "undone" /\ inode[op.ino].pos = None /\ dirsync
         /\ op.kind \in {"undo", "corrupt"} /\ (op.kind = "corrupt" => MovesDir)
         /\ SameInodes /\ inode'[op.ino].pos = op.x
         /\ op.tgt # None => inode'[op.tgt].pos = op.y
         /\ \A j \in Inodes : j \notin {op.ino, op.tgt} => inode'[j] = inode[j]
         /\ \A j \in Inodes : inode'[j].dirty = inode[j].dirty
<1>1. Renaming /\ op.pc = "undone"
  BY DEF UndoAttach, Renaming
<1>2. inode[op.ino].pos = None /\ dirsync /\ op.kind \in {"undo", "corrupt"} /\ (op.kind = "corrupt" => MovesDir)
  BY <1>1 DEF TreeRight, Stages, RenameStage
<1> DEFINE A == Attached(op.ino, op.x)
<1>3. A \in [Inodes -> InodeSt]
  <2>1. [inode[op.ino] EXCEPT !.pos = op.x] \in InodeSt
    BY <1>1, RenameFacts, InodeFields DEF InodeSt
  <2> QED
    BY <1>1, <2>1, RenameFacts DEF Attached, TypeOK
<1>4. A[op.ino] = [inode[op.ino] EXCEPT !.pos = op.x] /\ \A j \in Inodes : j # op.ino => A[j] = inode[j]
  BY <1>1, RenameFacts DEF Attached, TypeOK
<1>5. /\ A[op.ino].pos = op.x /\ A[op.ino].st = inode[op.ino].st /\ A[op.ino].dir = inode[op.ino].dir
      /\ A[op.ino].data = inode[op.ino].data /\ A[op.ino].dirty = inode[op.ino].dirty
  <2>1. inode[op.ino] \in InodeSt
    BY <1>1, RenameFacts, InodeFields
  <2> HIDE DEF A
  <2> QED
    BY <1>4, <2>1 DEF InodeSt
<1>6. inode' = IF op.tgt # None THEN [A EXCEPT ![op.tgt].pos = op.y] ELSE A
  BY DEF UndoAttach
<1> HIDE DEF A
<1>7. op.ino \in Inodes /\ op.tgt \in Inodes \cup {None} /\ op.tgt # op.ino
  BY <1>1, RenameFacts
<1>8. CASE op.tgt = None
  <2>1. inode' = A
    BY <1>6, <1>8
  <2> QED
    BY <2>1, <1>1, <1>2, <1>4, <1>5, <1>7, <1>8 DEF SameInodes
<1>9. CASE op.tgt # None
  <2>1. inode'[op.tgt] = [A[op.tgt] EXCEPT !.pos = op.y] /\ \A j \in Inodes : j # op.tgt => inode'[j] = A[j]
    BY <1>3, <1>6, <1>7, <1>9
  <2>2. A[op.tgt] = inode[op.tgt] /\ inode[op.tgt] \in InodeSt
    BY <1>4, <1>7, <1>9, InodeFields
  <2>3. /\ inode'[op.tgt].pos = op.y /\ inode'[op.tgt].st = inode[op.tgt].st
        /\ inode'[op.tgt].dir = inode[op.tgt].dir /\ inode'[op.tgt].data = inode[op.tgt].data
        /\ inode'[op.tgt].dirty = inode[op.tgt].dirty
    BY <2>1, <2>2 DEF InodeSt
  <2>4. inode'[op.ino] = A[op.ino] /\ \A j \in Inodes : j \notin {op.ino, op.tgt} => inode'[j] = inode[j]
    BY <2>1, <1>4, <1>7
  <2>5. SameInodes
    <3> SUFFICES ASSUME NEW j \in Inodes
                 PROVE  /\ inode'[j].st = inode[j].st /\ inode'[j].dir = inode[j].dir
                        /\ inode'[j].data = inode[j].data
      BY DEF SameInodes
    <3> QED
      BY <2>3, <2>4, <1>5
  <2>6. \A j \in Inodes : inode'[j].dirty = inode[j].dirty
    BY <2>3, <2>4, <1>5
  <2> QED
    BY <2>3, <2>4, <2>5, <2>6, <1>1, <1>2, <1>5, <1>7
<1> QED
  BY <1>8, <1>9

LEMMA UndoAttachTree ==
  ASSUME TypeOK, TreeRight, UndoAttach
  PROVE  TreeRight' /\ op' = NoOp /\ before' = Nothing
<1>1. Renaming /\ op' = NoOp /\ before' = Nothing /\ UNCHANGED <<dcache, dirsync>>
  BY UndoneInodes DEF UndoAttach, Unlock
<1>2. /\ NamesRight'
      /\ \A m \in Name : m # op.to => Slots(m)' = Slots(m)
      /\ \A w \in Pos : w # op.y /\ Used(w) => entry'[w] # Deleted /\ entry'[w].dir = entry[w].dir
      /\ op.tgt # None => /\ \A m \in Name : Slots(m)' = Slots(m)
                          /\ entry'[op.y] # Deleted /\ entry'[op.y].dir = entry[op.y].dir
  <2>1. CASE op.tgt = None
    <3>1. entry' = [entry EXCEPT ![op.y] = Deleted]
      BY <2>1 DEF UndoAttach
    <3>2. op.to \in Name /\ op.y \in Slots(op.to) /\ NamesRight
      BY <1>1, RenameFacts DEF TreeRight
    <3>3. /\ NamesRight' /\ \A w \in Pos : w # op.y => entry'[w] = entry[w]
          /\ \A m \in Name : m # op.to => Slots(m)' = Slots(m)
      BY <3>1, <3>2, EntryRemoved
    <3> QED
      BY <2>1, <3>3 DEF Used
  <2>2. CASE op.tgt # None
    <3>1. SameSlots
      <4>1. CASE UNCHANGED entry
        BY <4>1 DEF SameSlots, Used
      <4>2. CASE entry' = [entry EXCEPT ![op.y].data = inode[op.tgt].data]
        BY <4>2, <2>2, <1>1, RenameFacts, InodeFields, DataWritten
      <4> QED
        BY <4>1, <4>2, <2>2 DEF UndoAttach
    <3>2. /\ NamesRight' /\ \A m \in Name : Slots(m)' = Slots(m)
      BY <3>1, EntrySame DEF TreeRight
    <3>3. op.to \in Name /\ op.y \in Pos /\ Used(op.y)
      BY <1>1, RenameFacts
    <3>4. \A w \in Pos : Used(w) => entry'[w] # Deleted /\ entry'[w].dir = entry[w].dir
      BY <3>1 DEF SameSlots, Used
    <3> QED
      BY <3>2, <3>3, <3>4
  <2> QED
    BY <2>1, <2>2
<1>3. /\ inode[op.ino].pos = None /\ SameInodes /\ inode'[op.ino].pos = op.x
      /\ op.tgt # None => inode'[op.tgt].pos = op.y
      /\ \A j \in Inodes : j \notin {op.ino, op.tgt} => inode'[j] = inode[j]
  BY UndoneInodes
<1>4. HashRight'
  <2>1. OneInode'
    <3> SUFFICES ASSUME NEW i \in Inodes, NEW j \in Inodes, inode'[i].st = "live", inode'[j].st = "live",
                        inode'[i].pos = inode'[j].pos, inode'[i].pos # None
                 PROVE  i = j
      BY DEF OneInode, Live
    <3>1. Live(i) /\ Live(j)
      BY <1>3 DEF SameInodes, Live
    <3>2. \A k \in Inodes : Live(k) /\ k \notin {op.ino, op.tgt} =>
            inode'[k].pos = inode[k].pos /\ inode[k].pos \notin {op.x, op.y}
      BY <1>1, <1>3, RenameFacts
    <3>3. op.x # op.y
      BY <1>1, RenameFacts
    <3>4. CASE i \in {op.ino, op.tgt} \/ j \in {op.ino, op.tgt}
      BY <3>1, <3>2, <3>3, <3>4, <1>3, <1>1, RenameFacts, ValuesAssumption
    <3>5. CASE i \notin {op.ino, op.tgt} /\ j \notin {op.ino, op.tgt}
      BY <3>1, <3>2, <3>5 DEF TreeRight, HashRight, OneInode
    <3> QED
      BY <3>4, <3>5
  <2>2. ASSUME NEW j \in Inodes, inode'[j].st = "live", inode'[j].pos # None
        PROVE  entry'[inode'[j].pos] # Deleted /\ entry'[inode'[j].pos].dir = inode'[j].dir
    <3>1. Live(j) /\ inode'[j].dir = inode[j].dir
      BY <2>2, <1>3 DEF SameInodes, Live
    <3>2. CASE j = op.ino
      BY <3>1, <3>2, <1>1, <1>2, <1>3, RenameFacts
    <3>3. CASE j = op.tgt
      BY <3>1, <3>3, <1>1, <1>2, <1>3, RenameFacts, ValuesAssumption
    <3>4. CASE j \notin {op.ino, op.tgt}
      <4>1. inode'[j].pos = inode[j].pos /\ inode[j].pos \notin {op.x, op.y} /\ inode[j].pos \in Pos
        BY <2>2, <3>1, <3>4, <1>1, <1>3, RenameFacts, InodeFields
      <4> QED
        BY <4>1, <2>2, <3>1, <1>1, <1>2, RenameFacts
    <3> QED
      BY <3>2, <3>3, <3>4
  <2> QED
    BY <2>1, <2>2 DEF HashRight, Live, Used
<1>5. DentriesRight'
  <2>1. ASSUME NEW n \in Name, dcache[n] # None
        PROVE  inode'[dcache[n]].st = "live" /\ inode'[dcache[n]].pos \in Slots(n)'
    <3>1. CASE n = op.nm
      BY <3>1, <1>1, <1>2, <1>3, RenameFacts DEF Live, SameInodes
    <3>2. CASE n = op.to
      <4>1. /\ dcache[n] = op.tgt /\ op.tgt # None /\ op.tgt \in Inodes /\ Live(op.tgt)
            /\ op.y \in Slots(op.to)
        BY <3>2, <2>1, <1>1, RenameFacts
      <4>2. inode'[op.tgt].st = "live" /\ inode'[op.tgt].pos = op.y
        BY <4>1, <1>3 DEF Live, SameInodes
      <4> QED
        BY <4>1, <4>2, <3>2, <1>2
    <3>3. CASE n \notin {op.nm, op.to}
      <4>1. dcache[n] \in Inodes
        BY <2>1 DEF TypeOK
      <4> QED
        BY <4>1, <3>3, <2>1, <1>1, <1>2, <1>3, RenameFacts DEF Live, SameInodes
    <3> QED
      BY <3>1, <3>2, <3>3
  <2> QED
    BY <2>1, <1>1 DEF DentriesRight, Live
<1> QED
  BY <1>1, <1>2, <1>4, <1>5, IdleAfter DEF TreeRight

-----------------------------------------------------------------------------
(* Every step keeps the tree.                                                 *)

LEMMA TreeStep ==
  ASSUME TypeOK, FlushRight, TreeRight, "remove" \notin Failing, [Next]_vars
  PROVE  TreeRight'
<1>1. CASE BackgroundStep
  <2>1. QuietStep
    BY <1>1, QuietSteps
  <2> QED
    BY <2>1, QuietStages DEF TreeRight
<1>2. CASE \E nm \in Name : Lookup(nm) \/ Create(nm) \/ Mkdir(nm)
  BY <1>2, FindBegins
<1>3. CASE \E nm \in Name : Unlink(nm)
  BY <1>3, UnlinkBegins
<1>4. CASE \E nm, to \in Name : RenameOver(nm, to) \/ RenameNew(nm, to)
  BY <1>4, RenameOverBegins, RenameNewBegins
<1>5. CASE Iget \/ Fill \/ BuildFails \/ UnlinkDone
  BY <1>5, IgetTree, FillTree, BuildFailsTree, UnlinkDoneTree
<1>6. CASE RenameDetach \/ RenameAttach \/ RenameSync \/ RenameDotdot \/ RenameRemove
  BY <1>6, RenameDetachTree, RenameAttachTree, RenameSyncTree, RenameDotdotTree, RenameRemoveTree
<1>7. CASE UndoDetach \/ UndoAttach
  BY <1>7, UndoDetachTree, UndoAttachTree
<1> QED
  BY <1>1, <1>2, <1>3, <1>4, <1>5, <1>6, <1>7 DEF Next, BackgroundStep

-----------------------------------------------------------------------------
(* Writeback.                                                                 *)

(* An inode that an operation or writeback holds is not freed.                *)
LEMMA HeldStaysLive ==
  ASSUME TypeOK, FlushRight, TreeRight, [Next]_vars, NEW i \in Inodes, Live(i), Held(i)
  PROVE  Live(i)'
<1>1. CASE BackgroundStep
  BY <1>1, QuietSteps DEF QuietStep
<1>2. CASE Iget \/ BuildFails \/ RenameSync \/ RenameDotdot \/ RenameRemove
           \/ \E nm \in Name : \/ Lookup(nm) \/ Create(nm) \/ Mkdir(nm) \/ Unlink(nm)
                               \/ \E to \in Name : RenameNew(nm, to)
  BY <1>2 DEF Iget, BuildFails, RenameSync, RenameDotdot, RenameRemove, Lookup, Create, Mkdir, Unlink,
              RenameNew, Live
<1>3. CASE Fill
  <2>1. PICK j \in Inodes : inode[j].st = "none" /\ \A k \in Inodes : k # j => inode'[k] = inode[k]
    BY <1>3, Filled
  <2> QED
    BY <2>1 DEF Live
<1>4. ASSUME NEW nm \in Name, NEW to \in Name, RenameOver(nm, to)
      PROVE  Live(i)'
  <2>1. dcache[to] \in Inodes /\ inode' = Detached(dcache[to])
    BY <1>4 DEF RenameOver, TypeOK
  <2> QED
    BY <2>1, InodeDetached DEF SameInodes, Live
<1>5. CASE UnlinkDone \/ RenameDetach \/ UndoDetach
  <2>1. op.ino \in Inodes /\ inode' = Detached(op.ino)
    BY <1>5, RenameFacts, UnlinkFacts DEF UnlinkDone, RenameDetach, UndoDetach, Unlinking, Renaming
  <2> QED
    BY <2>1, InodeDetached DEF SameInodes, Live
<1>6. CASE RenameAttach
  BY <1>6, Reattached DEF SameInodes, Live
<1>7. CASE UndoAttach
  BY <1>7, UndoneInodes DEF SameInodes, Live
<1> QED
  BY <1>1, <1>2, <1>3, <1>4, <1>5, <1>6, <1>7 DEF Next, BackgroundStep

LEMMA FlushStep ==
  ASSUME TypeOK, FlushRight, TreeRight, [Next]_vars
  PROVE  FlushRight'
<1>1. flush.ino \in Inodes \cup {None} /\ None \notin Inodes
  BY ValuesAssumption DEF TypeOK, Flushes
<1>2. CASE UNCHANGED flush
  <2>1. flush.ino # None => Live(flush.ino)'
    <3>1. ASSUME flush.ino # None PROVE Live(flush.ino) /\ Held(flush.ino) /\ flush.ino \in Inodes
      BY <3>1, <1>1 DEF FlushRight, Held
    <3>2. ASSUME NEW i \in Inodes, Live(i), Held(i) PROVE Live(i)'
      BY <3>2, HeldStaysLive
    <3> QED
      BY <3>1, <3>2, <1>2 DEF Live
  <2> QED
    BY <2>1, <1>2 DEF FlushRight
<1>3. ASSUME NEW i \in Inodes, FlushBegin(i) PROVE FlushRight'
  <2>1. flush'.pc = "pos" /\ flush'.ino = i /\ flush'.pos = None
    BY <1>3 DEF FlushBegin
  <2>2. inode'[i].st = "live"
    BY <1>3, InodeFields DEF FlushBegin, Live, TypeOK, InodeSt
  <2> QED
    BY <2>1, <2>2, <1>1 DEF FlushRight, Live
<1>4. CASE FlushPos
  <2>1. flush.ino \in Inodes /\ Live(flush.ino) /\ UNCHANGED inode
    BY <1>4, <1>1 DEF FlushPos, FlushRight
  <2>2. CASE inode[flush.ino].pos = None
    BY <2>2, <1>4 DEF FlushPos, FlushRight, NoFlush
  <2>3. CASE inode[flush.ino].pos # None
    <3>1. flush' = [flush EXCEPT !.pc = "write", !.pos = inode[flush.ino].pos] /\ flush \in Flushes
      BY <2>3, <1>4 DEF FlushPos, TypeOK
    <3>2. flush'.pc = "write" /\ flush'.ino = flush.ino /\ flush'.pos = inode[flush.ino].pos
      BY <3>1 DEF Flushes
    <3> QED
      BY <2>1, <2>3, <3>2, <1>1, InodeFields DEF FlushRight, Live
  <2> QED
    BY <2>2, <2>3
<1>5. CASE FlushWrite
  <2>1. flush.ino \in Inodes /\ Live(flush.ino) /\ UNCHANGED inode
    BY <1>5, <1>1 DEF FlushWrite, FlushRight
  <2>2. CASE flush' = [flush EXCEPT !.pc = "pos"]
    <3>1. flush'.pc = "pos" /\ flush'.ino = flush.ino
      BY <2>2 DEF TypeOK, Flushes
    <3> QED
      BY <3>1, <2>1, <1>1 DEF FlushRight, Live
  <2>3. CASE flush' = NoFlush
    BY <2>3 DEF FlushRight, NoFlush
  <2> QED
    BY <2>2, <2>3, <1>5 DEF FlushWrite
<1>6. CASE UNCHANGED vars
  BY <1>2, <1>6 DEF vars
<1> QED
  BY <1>2, <1>3, <1>4, <1>5, <1>6
     DEF Next, Lookup, Create, Mkdir, Unlink, DropDentry, RenameOver, RenameNew, Iget, Fill, BuildFails,
         UnlinkDone, RenameDetach, RenameAttach, RenameSync, RenameDotdot, RenameRemove, UndoDetach,
         UndoAttach, WriteData, EvictBegin, EvictEnd

-----------------------------------------------------------------------------
(* The count of subdirectories.                                               *)

LEMMA SubdirsNat ==
  ASSUME NEW d
  PROVE  /\ Subdirs(d) \in Nat
         /\ IsFiniteSet({x \in Pos : DirOf[x] = d /\ entry[x] # Deleted /\ entry[x].dir})
<1>1. {x \in Pos : DirOf[x] = d /\ entry[x] # Deleted /\ entry[x].dir} \subseteq Pos
  OBVIOUS
<1> QED
  BY <1>1, PosAssumption, FS_Subset, FS_CardinalityType DEF Subdirs

LEMMA SubdirsAdded ==
  ASSUME NEW x \in Pos, entry[x] = Deleted, entry'[x] # Deleted, entry'[x].dir \in BOOLEAN,
         \A w \in Pos : w # x => entry'[w] = entry[w]
  PROVE  \A d \in Dirs :
           Subdirs(d)' = Subdirs(d) + (IF d = DirOf[x] /\ entry'[x].dir THEN 1 ELSE 0)
<1> SUFFICES ASSUME NEW d \in Dirs
             PROVE  Subdirs(d)' = Subdirs(d) + (IF d = DirOf[x] /\ entry'[x].dir THEN 1 ELSE 0)
  OBVIOUS
<1> DEFINE S == {z \in Pos : DirOf[z] = d /\ entry[z] # Deleted /\ entry[z].dir}
           T == {z \in Pos : DirOf[z] = d /\ entry'[z] # Deleted /\ entry'[z].dir}
<1>1. Subdirs(d) = Cardinality(S) /\ Subdirs(d)' = Cardinality(T)
  BY DEF Subdirs
<1>2. IsFiniteSet(S) /\ Cardinality(S) \in Nat /\ x \notin S
  BY SubdirsNat, <1>1
<1>3. CASE d = DirOf[x] /\ entry'[x].dir
  <2>1. T = S \cup {x}
    BY <1>3
  <2> HIDE DEF S, T
  <2>2. Cardinality(T) = Cardinality(S) + 1
    BY <2>1, <1>2, FS_AddElement
  <2> QED
    BY <2>2, <1>1, <1>3
<1>4. CASE ~(d = DirOf[x] /\ entry'[x].dir)
  <2>1. T = S
    BY <1>4
  <2> HIDE DEF S, T
  <2> QED
    BY <2>1, <1>1, <1>2, <1>4
<1> QED
  BY <1>3, <1>4

LEMMA SubdirsRemoved ==
  ASSUME NEW x \in Pos, entry[x] # Deleted, entry'[x] = Deleted, entry[x].dir \in BOOLEAN,
         \A w \in Pos : w # x => entry'[w] = entry[w]
  PROVE  \A d \in Dirs :
           Subdirs(d)' = Subdirs(d) - (IF d = DirOf[x] /\ entry[x].dir THEN 1 ELSE 0)
<1> SUFFICES ASSUME NEW d \in Dirs
             PROVE  Subdirs(d)' = Subdirs(d) - (IF d = DirOf[x] /\ entry[x].dir THEN 1 ELSE 0)
  OBVIOUS
<1> DEFINE S == {z \in Pos : DirOf[z] = d /\ entry[z] # Deleted /\ entry[z].dir}
           T == {z \in Pos : DirOf[z] = d /\ entry'[z] # Deleted /\ entry'[z].dir}
<1>1. Subdirs(d) = Cardinality(S) /\ Subdirs(d)' = Cardinality(T)
  BY DEF Subdirs
<1>2. IsFiniteSet(S) /\ Cardinality(S) \in Nat
  BY SubdirsNat, <1>1
<1>3. CASE d = DirOf[x] /\ entry[x].dir
  <2>1. T = S \ {x} /\ x \in S
    BY <1>3
  <2> HIDE DEF S, T
  <2>2. Cardinality(T) = Cardinality(S) - 1
    BY <2>1, <1>2, FS_RemoveElement
  <2> QED
    BY <2>2, <1>1, <1>3
<1>4. CASE ~(d = DirOf[x] /\ entry[x].dir)
  <2>1. T = S
    BY <1>4
  <2> HIDE DEF S, T
  <2> QED
    BY <2>1, <1>1, <1>2, <1>4
<1> QED
  BY <1>3, <1>4

LEMMA SubdirsSame ==
  ASSUME SameSlots
  PROVE  \A d \in Dirs : Subdirs(d)' = Subdirs(d)
<1> SUFFICES ASSUME NEW d \in Dirs PROVE Subdirs(d)' = Subdirs(d)
  OBVIOUS
<1>1. {x \in Pos : DirOf[x] = d /\ entry'[x] # Deleted /\ entry'[x].dir}
        = {x \in Pos : DirOf[x] = d /\ entry[x] # Deleted /\ entry[x].dir}
  BY DEF SameSlots, Used
<1> QED
  BY <1>1 DEF Subdirs

LEMMA SubdirsPositive ==
  ASSUME NEW x \in Pos, entry[x] # Deleted, entry[x].dir
  PROVE  Subdirs(DirOf[x]) >= 1
<1> DEFINE S == {z \in Pos : DirOf[z] = DirOf[x] /\ entry[z] # Deleted /\ entry[z].dir}
<1>1. x \in S
  OBVIOUS
<1>2. IsFiniteSet(S) /\ Subdirs(DirOf[x]) = Cardinality(S) /\ Cardinality(S) \in Nat
  BY SubdirsNat DEF Subdirs
<1> HIDE DEF S
<1>3. Cardinality(S) # 0
  BY <1>1, <1>2, FS_EmptySet
<1> QED
  BY <1>2, <1>3

(* Every step keeps the counts high enough.                                   *)
LEMMA LinksStep ==
  ASSUME TypeOK, FlushRight, TreeRight, LinksRight, "remove" \notin Failing, [Next]_vars
  PROVE  nlink' \in [Dirs -> Nat] /\ LinksRight'
<1>0. /\ nlink \in [Dirs -> Nat]
      /\ \A d \in Dirs : nlink[d] \in Nat /\ Subdirs(d) \in Nat
                         /\ Pending(d) \in {0, 1} /\ Ending(d) \in {0, 1}
                         /\ nlink[d] + Pending(d) >= Subdirs(d) + Ending(d)
  BY SubdirsNat DEF TypeOK, LinksRight, Pending, Ending
<1>1. ASSUME UNCHANGED nlink, \A d \in Dirs : Subdirs(d)' \in Nat,
             \A d \in Dirs : /\ Pending(d)' \in {0, 1} /\ Ending(d)' \in {0, 1}
                             /\ Subdirs(d)' + Ending(d)' - Pending(d)' <= Subdirs(d) + Ending(d) - Pending(d)
      PROVE  nlink' \in [Dirs -> Nat] /\ LinksRight'
  <2>1. ASSUME NEW d \in Dirs PROVE nlink[d] + Pending(d)' >= Subdirs(d)' + Ending(d)'
    <3>1. nlink[d] + Pending(d) >= Subdirs(d) + Ending(d) /\ nlink[d] \in Nat /\ Subdirs(d) \in Nat
          /\ Pending(d) \in Int /\ Ending(d) \in Int
      BY <1>0
    <3>2. Subdirs(d)' \in Nat /\ Pending(d)' \in Int /\ Ending(d)' \in Int
          /\ Subdirs(d)' + Ending(d)' - Pending(d)' <= Subdirs(d) + Ending(d) - Pending(d)
      BY <1>1
    <3> QED
      BY <3>1, <3>2
  <2> QED
    BY <2>1, <1>0, <1>1 DEF LinksRight
<1>2. \A d \in Dirs : Subdirs(d)' \in Nat /\ Pending(d)' \in {0, 1} /\ Ending(d)' \in {0, 1}
  <2>1. \A d \in Dirs : Subdirs(d)' \in Nat
    <3>1. ASSUME NEW d \in Dirs PROVE Subdirs(d)' \in Nat
      <4>1. {x \in Pos : DirOf[x] = d /\ entry'[x] # Deleted /\ entry'[x].dir} \subseteq Pos
        OBVIOUS
      <4> QED
        BY <4>1, PosAssumption, FS_Subset, FS_CardinalityType DEF Subdirs
    <3> QED
      BY <3>1
  <2> QED
    BY <2>1 DEF Pending, Ending
<1>3. ASSUME ~Renaming', ~Unlinking' PROVE \A d \in Dirs : Pending(d)' = 0 /\ Ending(d)' = 0
  BY <1>3 DEF Pending, Ending
<1>4. ASSUME ~Renaming, ~Unlinking PROVE \A d \in Dirs : Pending(d) = 0 /\ Ending(d) = 0
  BY <1>4 DEF Pending, Ending
<1>5. ~Busy => ~Renaming /\ ~Unlinking
  BY IdleOp DEF TreeRight
<1>6. CASE BackgroundStep
  <2>1. QuietStep
    BY <1>6, QuietSteps
  <2>2. \A d \in Dirs : Subdirs(d)' = Subdirs(d)
    BY <2>1, SubdirsSame DEF QuietStep
  <2>3. Renaming \/ Unlinking => inode'[op.ino].dir = inode[op.ino].dir
    BY <2>1, RenameFacts, UnlinkFacts DEF QuietStep, Held
  <2>4. op' = op /\ nlink' = nlink
    BY <2>1 DEF QuietStep
  <2>5. \A d \in Dirs : Pending(d)' = Pending(d) /\ Ending(d)' = Ending(d)
    BY <2>3, <2>4 DEF Pending, Ending, Renaming, Unlinking
  <2> QED
    BY <1>0, <1>1, <1>2, <2>2, <2>4, <2>5
<1>7. ASSUME NEW nm \in Name, Lookup(nm) PROVE nlink' \in [Dirs -> Nat] /\ LinksRight'
  <2>1. UNCHANGED <<entry, nlink>>
    BY <1>7 DEF Lookup, disk
  <2>2. \A d \in Dirs : Subdirs(d)' = Subdirs(d)
    BY <2>1 DEF Subdirs
  <2> QED
    BY <1>0, <1>1, <1>2, <1>3, <1>4, <1>5, <1>7, <2>1, <2>2, FindBegins
<1>8. ASSUME NEW nm \in Name, Create(nm) PROVE nlink' \in [Dirs -> Nat] /\ LinksRight'
  <2>1. PICK x \in FreeSlots(nm[1]), dir \in BOOLEAN : dir = FALSE /\ Adds(x, nm, Empty, dir)
    BY <1>8 DEF Create
  <2>2. NamesRight /\ Slots(nm) = {} /\ Empty \in Content /\ UNCHANGED nlink
    BY <1>8 DEF Create, Content, TreeRight
  <2>3. /\ x \in Pos /\ entry[x] = Deleted /\ entry'[x] # Deleted /\ entry'[x].dir = FALSE
        /\ \A w \in Pos : w # x => entry'[w] = entry[w]
    BY <2>1, <2>2, EntryAdded
  <2>4. \A d \in Dirs : Subdirs(d)' = Subdirs(d) + (IF d = DirOf[x] /\ entry'[x].dir THEN 1 ELSE 0)
    BY <2>3, SubdirsAdded
  <2>5. \A d \in Dirs : Subdirs(d)' = Subdirs(d)
    BY <2>3, <2>4, <1>0
  <2> QED
    BY <1>0, <1>1, <1>2, <1>3, <1>4, <1>5, <1>8, <2>2, <2>5, FindBegins
<1>9. ASSUME NEW nm \in Name, Mkdir(nm) PROVE nlink' \in [Dirs -> Nat] /\ LinksRight'
  <2>1. PICK t \in Fresh, x \in FreeSlots(nm[1]) : Adds(x, nm, t, TRUE)
    BY <1>9 DEF Mkdir
  <2>2. NamesRight /\ Slots(nm) = {} /\ t \in Content /\ TRUE \in BOOLEAN
    BY <1>9 DEF Mkdir, Content, TreeRight, Fresh
  <2>3. /\ x \in Pos /\ entry[x] = Deleted /\ entry'[x] # Deleted /\ entry'[x].dir = TRUE /\ DirOf[x] = nm[1]
        /\ \A w \in Pos : w # x => entry'[w] = entry[w]
    BY <2>1, <2>2, EntryAdded
  <2>4. \A d \in Dirs : Subdirs(d)' = Subdirs(d) + (IF d = nm[1] THEN 1 ELSE 0)
    BY <2>3, SubdirsAdded
  <2>5. nlink' = [nlink EXCEPT ![nm[1]] = @ + 1] /\ nm[1] \in Dirs
    BY <1>9, NamePairs DEF Mkdir
  <2>6. nlink' \in [Dirs -> Nat] /\ \A d \in Dirs : nlink'[d] = nlink[d] + (IF d = nm[1] THEN 1 ELSE 0)
    BY <2>5, <1>0
  <2>7. \A d \in Dirs : Pending(d)' = 0 /\ Ending(d)' = 0 /\ Pending(d) = 0 /\ Ending(d) = 0
    BY <1>3, <1>4, <1>5, <1>9, FindBegins
  <2>8. ASSUME NEW d \in Dirs PROVE nlink'[d] + Pending(d)' >= Subdirs(d)' + Ending(d)'
    <3>1. nlink[d] >= Subdirs(d) /\ nlink[d] \in Nat /\ Subdirs(d) \in Nat
      BY <1>0, <2>7
    <3> QED
      BY <3>1, <2>4, <2>6, <2>7
  <2> QED
    BY <2>6, <2>8 DEF LinksRight
<1>10. ASSUME NEW nm \in Name, Unlink(nm) PROVE nlink' \in [Dirs -> Nat] /\ LinksRight'
  <2>1. /\ ~Busy /\ ~Renaming' /\ Unlinking' /\ UNCHANGED <<nlink, inode>> /\ dcache[nm] # None
        /\ op'.nm = nm /\ op'.ino = dcache[nm]
    BY <1>10, UnlinkBegins DEF Unlink
  <2>2. PICK x \in Slots(nm) : entry' = [entry EXCEPT ![x] = Deleted]
    BY <1>10 DEF Unlink
  <2>3. /\ x \in Pos /\ entry'[x] = Deleted /\ Used(x) /\ DirOf[x] = nm[1]
        /\ \A w \in Pos : w # x => entry'[w] = entry[w]
    BY <2>2, EntryRemoved DEF TreeRight, Slots
  <2>4. entry[x].dir = inode[dcache[nm]].dir /\ entry[x].dir \in BOOLEAN
    BY <2>1, <2>3, IdleDentry, EntryFields
  <2>5. \A d \in Dirs : Subdirs(d)' = Subdirs(d) - (IF d = nm[1] /\ entry[x].dir THEN 1 ELSE 0)
    BY <2>3, <2>4, SubdirsRemoved DEF Used
  <2>6. \A d \in Dirs : Pending(d)' = 0 /\ Ending(d)' = (IF d = nm[1] /\ entry[x].dir THEN 1 ELSE 0)
    BY <2>1, <2>4 DEF Pending, Ending
  <2>7. \A d \in Dirs : Pending(d) = 0 /\ Ending(d) = 0
    BY <1>4, <1>5, <2>1
  <2> QED
    BY <1>0, <1>1, <1>2, <2>1, <2>5, <2>6, <2>7
<1>11. ASSUME NEW nm \in Name, NEW to \in Name, RenameOver(nm, to)
       PROVE  nlink' \in [Dirs -> Nat] /\ LinksRight'
  <2>1. ~Busy /\ Renaming' /\ ~Unlinking' /\ UNCHANGED <<nlink, entry>>
    BY <1>11, RenameOverBegins DEF RenameOver, disk
  <2>2. \A d \in Dirs : Subdirs(d)' = Subdirs(d)
    BY <2>1 DEF Subdirs
  <2>3. \A d \in Dirs : Ending(d)' = 0
    BY <2>1 DEF Ending
  <2> QED
    BY <1>0, <1>1, <1>2, <1>4, <1>5, <2>1, <2>2, <2>3
<1>12. ASSUME NEW nm \in Name, NEW to \in Name, RenameNew(nm, to)
       PROVE  nlink' \in [Dirs -> Nat] /\ LinksRight'
  <2>1. /\ ~Busy /\ Renaming' /\ ~Unlinking' /\ UNCHANGED <<nlink, inode>> /\ op'.pc = "detach"
        /\ op'.to = to /\ op'.ino = dcache[nm] /\ op'.tgt = None /\ op'.ino \in Inodes
    BY <1>12, RenameNewBegins DEF RenameNew
  <2>2. PICK y \in FreeSlots(to[1]) : Adds(y, to, Empty, inode[dcache[nm]].dir)
    BY <1>12 DEF RenameNew
  <2>3. NamesRight /\ Slots(to) = {} /\ Empty \in Content /\ inode[dcache[nm]].dir \in BOOLEAN
    BY <1>12, <2>1, InodeFields DEF RenameNew, Content, TreeRight
  <2>4. /\ y \in Pos /\ DirOf[y] = to[1] /\ entry[y] = Deleted
        /\ entry'[y] # Deleted /\ entry'[y].dir = inode[dcache[nm]].dir
        /\ \A w \in Pos : w # y => entry'[w] = entry[w]
    BY <2>2, <2>3, EntryAdded
  <2>5. \A d \in Dirs : Subdirs(d)' = Subdirs(d) + (IF d = to[1] /\ inode[dcache[nm]].dir THEN 1 ELSE 0)
    BY <2>3, <2>4, SubdirsAdded
  <2>6. \A d \in Dirs : Ending(d)' = 0 /\ Pending(d)' = (IF d = to[1] /\ inode[dcache[nm]].dir THEN 1 ELSE 0)
    BY <2>1 DEF Pending, Ending
  <2> QED
    BY <1>0, <1>1, <1>2, <1>4, <1>5, <2>1, <2>5, <2>6
<1>13. CASE Iget \/ Fill \/ BuildFails
  <2>1. Finding /\ UNCHANGED <<entry, nlink>> /\ (op' = NoOp \/ op' = [op EXCEPT !.pc = "fill"])
    BY <1>13 DEF Iget, Fill, BuildFails, Finding, disk, Splice, Unlock, Goto
  <2>2. ~Renaming /\ ~Unlinking /\ ~Renaming' /\ ~Unlinking'
    <3>1. ~Renaming /\ ~Unlinking
      BY <2>1, FindFacts
    <3>2. op' = NoOp => ~Renaming' /\ ~Unlinking'
      BY IdleAfter
    <3>3. op' = [op EXCEPT !.pc = "fill"] => op'.pc = "fill"
      BY DEF TypeOK, Ops
    <3> QED
      BY <2>1, <3>1, <3>2, <3>3 DEF Renaming, Unlinking
  <2>3. \A d \in Dirs : Subdirs(d)' = Subdirs(d)
    BY <2>1 DEF Subdirs
  <2> QED
    BY <1>0, <1>1, <1>2, <1>3, <1>4, <2>1, <2>2, <2>3
<1>14. CASE UnlinkDone
  <2>1. Unlinking /\ op' = NoOp /\ UNCHANGED entry /\ ~Renaming' /\ ~Unlinking' /\ ~Renaming
        /\ op.nm[1] \in Dirs /\ inode[op.ino].dir \in BOOLEAN
    BY <1>14, UnlinkDoneTree, IdleAfter, UnlinkFacts, NamePairs, InodeFields DEF UnlinkDone, disk
  <2>2. \A d \in Dirs : Subdirs(d)' = Subdirs(d)
    BY <2>1 DEF Subdirs
  <2>3. \A d \in Dirs : Pending(d) = 0 /\ Ending(d) = (IF d = op.nm[1] /\ inode[op.ino].dir THEN 1 ELSE 0)
    BY <2>1 DEF Pending, Ending
  <2>4. nlink' = IF inode[op.ino].dir THEN [nlink EXCEPT ![op.nm[1]] = @ - 1] ELSE nlink
    BY <1>14 DEF UnlinkDone
  <2>5. \A d \in Dirs : nlink'[d] = nlink[d] - Ending(d)
    BY <2>1, <2>3, <2>4, <1>0
  <2>6. \A d \in Dirs : nlink[d] - Ending(d) \in Nat /\ nlink[d] - Ending(d) >= Subdirs(d)
    <3>1. ASSUME NEW d \in Dirs PROVE nlink[d] - Ending(d) \in Nat /\ nlink[d] - Ending(d) >= Subdirs(d)
      <4>1. nlink[d] \in Nat /\ Subdirs(d) \in Nat /\ Ending(d) \in {0, 1} /\ Pending(d) = 0
            /\ nlink[d] + Pending(d) >= Subdirs(d) + Ending(d)
        BY <1>0, <2>3
      <4> QED
        BY <4>1
    <3> QED
      BY <3>1
  <2>7. nlink' \in [Dirs -> Nat]
    <3>1. nlink' = [d \in Dirs |-> nlink'[d]]
      BY <1>0, <2>4, <2>1
    <3> QED
      BY <3>1, <2>5, <2>6
  <2>8. \A d \in Dirs : nlink'[d] + Pending(d)' >= Subdirs(d)' + Ending(d)'
    BY <1>0, <1>3, <2>1, <2>2, <2>5, <2>6
  <2> QED
    BY <2>7, <2>8 DEF LinksRight
<1>15. CASE RenameDetach \/ RenameAttach \/ RenameSync \/ UndoDetach
  <2>1. /\ Renaming /\ Renaming' /\ ~Unlinking /\ ~Unlinking' /\ UNCHANGED nlink
        /\ op.ino \in Inodes /\ op.pc # "old"
    BY <1>15, RenameDetachTree, RenameAttachTree, RenameSyncTree, UndoDetachTree, RenameFacts
       DEF RenameDetach, RenameAttach, RenameSync, UndoDetach
  <2>2. op'.nm = op.nm /\ op'.to = op.to /\ op'.ino = op.ino /\ op'.tgt = op.tgt /\ (op'.pc = "old" => ~MovesDir)
    <3>1. CASE RenameDetach
      BY <3>1, OpGoes DEF RenameDetach, OpPcs
    <3>2. CASE RenameAttach
      <4>1. op'.pc = (IF dirsync THEN "sync" ELSE AfterSync) /\ op'.nm = op.nm /\ op'.to = op.to
            /\ op'.ino = op.ino /\ op'.tgt = op.tgt
        BY <3>2, OpGoes DEF RenameAttach, OpPcs, AfterSync
      <4> QED
        BY <4>1 DEF AfterSync
    <3>3. CASE RenameSync \/ UndoDetach
      BY <3>3, RenameSyncTree, UndoDetachTree
    <3> QED
      BY <3>1, <3>2, <3>3, <1>15
  <2>3. SameSlots /\ inode'[op.ino].dir = inode[op.ino].dir
    <3>1. CASE RenameDetach \/ UndoDetach
      BY <3>1, <2>1, InodeDetached DEF RenameDetach, UndoDetach, disk, SameSlots, Used, SameInodes
    <3>2. CASE RenameAttach
      BY <3>2, <2>1, Reattached DEF RenameAttach, disk, SameSlots, Used, SameInodes
    <3>3. CASE RenameSync
      BY <3>3, RenameSyncTree DEF RenameSync
    <3> QED
      BY <3>1, <3>2, <3>3, <1>15
  <2>4. \A d \in Dirs : Subdirs(d)' = Subdirs(d)
    BY <2>3, SubdirsSame
  <2>5. \A d \in Dirs : Pending(d)' >= Pending(d) /\ Ending(d)' = 0 /\ Ending(d) = 0
    BY <2>1, <2>2, <2>3 DEF Pending, Ending, MovesDir
  <2> QED
    BY <1>0, <1>1, <1>2, <2>1, <2>4, <2>5
<1>16. CASE RenameDotdot
  <2>1. /\ Renaming /\ Renaming' /\ ~Unlinking /\ ~Unlinking' /\ MovesDir /\ UNCHANGED <<entry, inode>>
        /\ op.pc = "dotdot" /\ op'.pc \in {"corrupt", "old"} /\ (op'.pc = "corrupt" => UNCHANGED nlink)
        /\ op'.nm = op.nm /\ op'.to = op.to /\ op'.ino = op.ino /\ op'.tgt = op.tgt
    BY <1>16, RenameDotdotTree, RenameFacts DEF RenameDotdot
  <2>2. /\ op.nm[1] # op.to[1] /\ inode[op.ino].dir /\ op.nm[1] \in Dirs /\ op.to[1] \in Dirs
        /\ Used(op.x) /\ entry[op.x].dir /\ op.x \in Pos /\ DirOf[op.x] = op.nm[1]
    BY <2>1, RenameFacts, NamePairs DEF MovesDir
  <2>3. \A d \in Dirs : Subdirs(d)' = Subdirs(d)
    BY <2>1 DEF Subdirs
  <2>4. \A d \in Dirs : Ending(d)' = 0 /\ Ending(d) = 0
    BY <2>1 DEF Ending
  <2>5. \A d \in Dirs : Pending(d) = IF op.tgt = None /\ d = op.to[1] THEN 1 ELSE 0
    BY <2>1, <2>2 DEF Pending
  <2>6. CASE op'.pc = "corrupt"
    <3>1. \A d \in Dirs : Pending(d)' = Pending(d)
      BY <2>1, <2>2, <2>6 DEF Pending
    <3> QED
      BY <1>0, <1>1, <1>2, <2>1, <2>3, <2>4, <2>6, <3>1
  <2>7. CASE op'.pc = "old"
    <3>1. nlink' = [nlink EXCEPT ![op.nm[1]] = @ - 1, ![op.to[1]] = IF op.tgt = None THEN @ + 1 ELSE @]
      <4>1. Goto("corrupt") => op'.pc = "corrupt"
        BY OpGoes DEF OpPcs
      <4> QED
        BY <1>16, <2>7, <4>1 DEF RenameDotdot
    <3>2. \A d \in Dirs : nlink'[d] = IF d = op.nm[1] THEN nlink[d] - 1
                                      ELSE IF op.tgt = None /\ d = op.to[1] THEN nlink[d] + 1 ELSE nlink[d]
      BY <3>1, <2>2, <1>0
    <3>3. Subdirs(op.nm[1]) >= 1
      BY <2>2, SubdirsPositive DEF Used
    <3>4. \A d \in Dirs : Pending(d)' = IF d = op.nm[1] THEN 1 ELSE 0
      BY <2>1, <2>2, <2>7 DEF Pending
    <3>5. ASSUME NEW d \in Dirs
          PROVE  nlink'[d] \in Nat /\ nlink'[d] + Pending(d)' >= Subdirs(d)' + Ending(d)'
      <4>1. nlink[d] \in Nat /\ Subdirs(d) \in Nat /\ nlink[d] + Pending(d) >= Subdirs(d) + Ending(d)
        BY <1>0
      <4>2. CASE d = op.nm[1]
        BY <4>1, <4>2, <3>2, <3>3, <3>4, <2>2, <2>3, <2>4, <2>5
      <4>3. CASE d # op.nm[1]
        BY <4>1, <4>3, <3>2, <3>4, <2>2, <2>3, <2>4, <2>5
      <4> QED
        BY <4>2, <4>3
    <3>6. nlink' \in [Dirs -> Nat]
      <4>1. nlink' = [d \in Dirs |-> nlink'[d]]
        BY <1>0, <3>1
      <4> QED
        BY <4>1, <3>5
    <3> QED
      BY <3>5, <3>6 DEF LinksRight
  <2> QED
    BY <2>1, <2>6, <2>7
<1>17. CASE RenameRemove
  <2>1. /\ Renaming /\ ~Unlinking /\ ~Renaming' /\ ~Unlinking' /\ op.pc = "old" /\ UNCHANGED nlink
        /\ entry' = [entry EXCEPT ![op.x] = Deleted]
    BY <1>17, RenameRemoveTree, IdleAfter, RenameFacts DEF RenameRemove
  <2>2. /\ op.x \in Pos /\ Used(op.x) /\ DirOf[op.x] = op.nm[1] /\ entry[op.x].dir = inode[op.ino].dir
        /\ entry[op.x].dir \in BOOLEAN
    BY <2>1, RenameFacts, EntryFields
  <2>3. entry'[op.x] = Deleted /\ \A w \in Pos : w # op.x => entry'[w] = entry[w]
    BY <2>1, <2>2 DEF TypeOK
  <2>4. \A d \in Dirs : Subdirs(d)' = Subdirs(d) - (IF d = op.nm[1] /\ entry[op.x].dir THEN 1 ELSE 0)
    BY <2>2, <2>3, SubdirsRemoved DEF Used
  <2>5. \A d \in Dirs : /\ Pending(d) = (IF d = op.nm[1] /\ entry[op.x].dir THEN 1 ELSE 0)
                        /\ Ending(d) = 0 /\ Pending(d)' = 0 /\ Ending(d)' = 0
    BY <2>1, <2>2, <1>3 DEF Pending, Ending
  <2> QED
    BY <1>0, <1>1, <1>2, <2>1, <2>4, <2>5
<1>18. CASE UndoAttach
  <2>1. /\ Renaming /\ op.pc = "undone" /\ ~Unlinking /\ ~Renaming' /\ ~Unlinking' /\ UNCHANGED nlink
    BY <1>18, UndoAttachTree, UndoneInodes, IdleAfter, RenameFacts DEF UndoAttach
  <2>2. /\ op.y \in Pos /\ Used(op.y) /\ DirOf[op.y] = op.to[1] /\ entry[op.y].dir = inode[op.ino].dir
        /\ entry[op.y].dir \in BOOLEAN
    BY <2>1, RenameFacts, EntryFields
  <2>3. \A d \in Dirs : /\ Pending(d) = (IF op.tgt = None /\ d = op.to[1] /\ entry[op.y].dir THEN 1 ELSE 0)
                        /\ Ending(d) = 0 /\ Pending(d)' = 0 /\ Ending(d)' = 0
    BY <2>1, <2>2, <1>3 DEF Pending, Ending
  <2>4. CASE op.tgt = None
    <3>1. entry' = [entry EXCEPT ![op.y] = Deleted]
      BY <2>4, <1>18 DEF UndoAttach
    <3>2. entry'[op.y] = Deleted /\ \A w \in Pos : w # op.y => entry'[w] = entry[w]
      BY <3>1, <2>2 DEF TypeOK
    <3>3. \A d \in Dirs : Subdirs(d)' = Subdirs(d) - (IF d = op.to[1] /\ entry[op.y].dir THEN 1 ELSE 0)
      BY <2>2, <3>2, SubdirsRemoved DEF Used
    <3> QED
      BY <1>0, <1>1, <1>2, <2>1, <2>3, <2>4, <3>3
  <2>5. CASE op.tgt # None
    <3>1. SameSlots
      <4>1. CASE UNCHANGED entry
        BY <4>1 DEF SameSlots, Used
      <4>2. CASE entry' = [entry EXCEPT ![op.y].data = inode[op.tgt].data]
        BY <4>2, <2>5, <2>1, <2>2, RenameFacts, InodeFields, DataWritten
      <4> QED
        BY <4>1, <4>2, <2>5, <1>18 DEF UndoAttach
    <3>2. \A d \in Dirs : Subdirs(d)' = Subdirs(d)
      BY <3>1, SubdirsSame
    <3> QED
      BY <1>0, <1>1, <1>2, <2>1, <2>3, <2>5, <3>2
  <2> QED
    BY <2>4, <2>5
<1> QED
  BY <1>6, <1>7, <1>8, <1>9, <1>10, <1>11, <1>12, <1>13, <1>14, <1>15, <1>16, <1>17, <1>18
     DEF Next, BackgroundStep

-----------------------------------------------------------------------------
LEMMA InitStructure == Init => Structure
<1> SUFFICES ASSUME Init PROVE Structure
  OBVIOUS
<1>1. TypeOK
  BY InitTypeOK
<1>2. op = NoOp /\ flush = NoFlush /\ entry = [x \in Pos |-> Deleted] /\ inode = [i \in Inodes |-> NoInode]
      /\ dcache = [nm \in Name |-> None] /\ nlink = [d \in Dirs |-> Subdirs(d)]
  BY DEF Init
<1>3. Stages /\ ~Renaming /\ ~Unlinking
  BY <1>2 DEF Stages, NoOp, FindStage, UnlinkStage, RenameStage, Finding, Unlinking, Renaming, Busy
<1>4. NamesRight
  BY <1>2 DEF NamesRight, Slots, Used
<1>5. \A i \in Inodes : ~Live(i)
  BY <1>2 DEF Live, NoInode
<1>6. HashRight /\ DentriesRight
  BY <1>2, <1>5 DEF HashRight, OneInode, DentriesRight
<1>7. FlushRight
  BY <1>2 DEF FlushRight, NoFlush
<1>8. LinksRight
  <2>1. ASSUME NEW d \in Dirs PROVE nlink[d] + Pending(d) >= Subdirs(d) + Ending(d)
    <3>1. Pending(d) = 0 /\ Ending(d) = 0
      BY <1>3 DEF Pending, Ending
    <3>2. nlink[d] = Subdirs(d)
      BY <1>2
    <3>3. Subdirs(d) \in Nat
      BY SubdirsNat
    <3> QED
      BY <3>1, <3>2, <3>3
  <2> QED
    BY <2>1 DEF LinksRight
<1> QED
  BY <1>1, <1>3, <1>4, <1>6, <1>7, <1>8 DEF Structure

(* Structure is inductive.                                                    *)
LEMMA StructureStep ==
  ASSUME Structure, "remove" \notin Failing, [Next]_vars
  PROVE  Structure'
<1>1. TypeOK /\ Stages /\ NamesRight /\ HashRight /\ DentriesRight /\ FlushRight /\ LinksRight /\ TreeRight
  BY DEF Structure, TreeRight
<1>2. TreeRight'
  BY <1>1, TreeStep
<1>3. FlushRight'
  BY <1>1, FlushStep
<1>4. nlink' \in [Dirs -> Nat] /\ LinksRight'
  BY <1>1, LinksStep
<1>5. op' \in Ops
  BY <1>1, OpTyped
<1>6. before' \in [Name -> Content \cup {None}]
  BY <1>1, BeforeTyped DEF HashRight
<1>7. /\ entry' \in [Pos -> Entry \cup {Deleted}] /\ inode' \in [Inodes -> InodeSt]
      /\ dcache' \in [Name -> Inodes \cup {None}] /\ dotdot' \in [Tags -> Dirs \cup {None}]
      /\ flush' \in Flushes
  BY <1>1, EntryTyped, InodeTyped, DcacheTyped, DotdotTyped, FlushTyped
<1>8. dirsync' \in BOOLEAN
  <2>1. dirsync \in BOOLEAN
    BY <1>1 DEF TypeOK
  <2>2. UNCHANGED dirsync
    BY DEF Next, vars, Lookup, Create, Mkdir, Unlink, DropDentry, RenameOver, RenameNew, Iget, Fill,
           BuildFails, UnlinkDone, RenameDetach, RenameAttach, RenameSync, RenameDotdot, RenameRemove,
           UndoDetach, UndoAttach, WriteData, FlushBegin, EvictBegin, EvictEnd, FlushPos, FlushWrite
  <2> QED
    BY <2>1, <2>2
<1>9. TypeOK'
  BY <1>4, <1>5, <1>6, <1>7, <1>8 DEF TypeOK
<1> QED
  BY <1>2, <1>3, <1>4, <1>9 DEF Structure, TreeRight

(* Through any mix of name operations, writeback and eviction, with the       *)
(* failures of fat_build_inode, the synchronous inode write and the ".."      *)
(* write in it, the tree keeps its shape.                                     *)
THEOREM StructureHolds ==
  ASSUME "remove" \notin Failing
  PROVE  Spec => []Structure
<1>1. Structure /\ [Next]_vars => Structure'
  BY StructureStep
<1> QED
  BY <1>1, InitStructure, PTL DEF Spec

(* fat_attach, fat_detach and fat_iget never leave two usable inodes at one   *)
(* directory slot, whatever runs between the steps of a rename.               *)
THEOREM NamesOneInode ==
  ASSUME "remove" \notin Failing
  PROVE  Spec => []OneInode
<1>1. Structure => OneInode
  BY DEF Structure, HashRight
<1> QED
  BY <1>1, StructureHolds, PTL

(* Between operations i_nlink is never below what fat_subdirs would count,    *)
(* so that drop_nlink never meets a zero.                                     *)
THEOREM NamesLinksEnough ==
  ASSUME "remove" \notin Failing
  PROVE  Spec => []LinksEnough
<1>1. Structure => LinksEnough
  <2> SUFFICES ASSUME Structure, ~Busy, NEW d \in Dirs PROVE nlink[d] >= Subdirs(d)
    BY DEF LinksEnough
  <2>1. Pending(d) = 0 /\ Ending(d) = 0
    BY IdleOp DEF Structure, Pending, Ending
  <2>2. Subdirs(d) \in Nat
    BY SubdirsNat
  <2>3. nlink[d] \in Nat /\ nlink[d] + Pending(d) >= Subdirs(d) + Ending(d)
    BY DEF Structure, LinksRight, TypeOK
  <2> QED
    BY <2>1, <2>2, <2>3
<1> QED
  BY <1>1, StructureHolds, PTL

-----------------------------------------------------------------------------
(* Second part: what the names are bound to.                                  *)
(* Contents says that the entries and the inodes agree where they must, that  *)
(* nothing is shared but by the two entries of a rename, and where ".."       *)
(* points; with Structure it is inductive when neither the write of a removed *)
(* entry ("remove") nor the synchronous write of a moved inode ("sync")       *)
(* fails.  After either failure the code leaves two names with the same       *)
(* clusters, or an inode that its entry does not agree with.  fat_build_inode *)
(* and the write of ".." may fail.                                            *)

(* No writeback of the inode is due or under way.                             *)
Clean(i) == ~inode[i].dirty /\ flush.ino # i
(* A rename is undone only from its ".." write.                               *)
NoUndo == op.pc # "undo" /\ op.kind # "undo"

(* A clean inode is what its entry says, but for the one that unlink takes    *)
(* away and the one that a synchronous rename has yet to write.               *)
WrittenRight ==
  \A i \in Inodes : Live(i) /\ inode[i].pos # None /\ Clean(i)
     /\ ~(i = op.ino /\ (Unlinking \/ op.pc = "sync"))
     => entry[inode[i].pos].data = inode[i].data

(* A file system that writes at once has no directory to write back, so the   *)
(* moved one was already in its old entry.                                    *)
DirsClean ==
  dirsync => /\ \A i \in Inodes : Live(i) /\ inode[i].dir => Clean(i)
             /\ Renaming /\ inode[op.ino].dir => entry[op.x].data = inode[op.ino].data

(* Two inodes hold the same only if both are empty.                           *)
InodesUnshared ==
  \A i, j \in Inodes : Live(i) /\ Live(j) /\ i # j /\ inode[i].data = inode[j].data
    => inode[i].data = Empty

(* A slot whose entry is not what its name is bound to: a slot of the rename, *)
(* or one whose inode has yet to be written.                                  *)
Stale(z) == \/ Renaming /\ z \in {op.x, op.y}
            \/ \E k \in Inodes : On(k, z) /\ ~Clean(k)

(* The inodes that may hold what the entry of z says: its own, the moved one, *)
(* which has two entries, the replaced one, and one without a name whose old  *)
(* slot has been taken over and is not written yet.                           *)
MayShare(j, z) ==
  \/ inode[j].pos = z
  \/ Renaming /\ j = op.ino /\ z = op.x
  \/ op.pc = "undone" /\ j = op.ino /\ z = op.y
  \/ Renaming /\ j = op.tgt /\ z = op.y
  \/ inode[j].pos = None /\ ~(Renaming /\ j \in {op.ino, op.tgt}) /\ Stale(z)

(* An entry is shared with no other inode, and with no other entry but within *)
(* a rename.                                                                  *)
EntriesUnshared ==
  /\ \A j \in Inodes, z \in Pos :
       Live(j) /\ Used(z) /\ entry[z].data = inode[j].data /\ entry[z].data # Empty => MayShare(j, z)
  /\ \A z, w \in Pos :
       Used(z) /\ Used(w) /\ z # w /\ entry[z].data = entry[w].data /\ entry[z].data # Empty
       => Renaming /\ z \in {op.x, op.y} /\ w \in {op.x, op.y}

(* The ".." of a directory is the directory of its slot, in the hash or on    *)
(* disk; that of a moved one changes in RenameDotdot and back in UndoDetach.  *)
DotsRight ==
  /\ \A i \in Inodes : Live(i) /\ inode[i].dir /\ inode[i].pos # None /\ inode[i].data \in Tags
       /\ ~(Renaming /\ i \in {op.ino, op.tgt})
       => dotdot[inode[i].data] = DirOf[inode[i].pos]
  /\ \A z \in Pos : Used(z) /\ entry[z].dir /\ entry[z].data \in Tags
       /\ Vacant(z) /\ ~(Renaming /\ z \in {op.x, op.y})
       => dotdot[entry[z].data] = DirOf[z]
  /\ Renaming /\ inode[op.ino].dir =>
       /\ inode[op.ino].data \in Tags => dotdot[inode[op.ino].data] =
               IF op.pc \in {"old", "corrupt"} THEN op.to[1] ELSE op.nm[1]
       /\ op.tgt # None /\ inode[op.tgt].data \in Tags => dotdot[inode[op.tgt].data] = op.to[1]

(* What the names were bound to before is what they are bound to now, but for *)
(* the names of the operation: there the inodes, or the kind of operation,    *)
(* still tell it.                                                             *)
Shown ==
  /\ ~Busy => before = Nothing
  /\ Busy => \A n \in Name \ {op.nm, op.to} : before[n] = Bound(n)
  /\ Finding => before[op.nm] = IF op.kind = "lookup" THEN Bound(op.nm) ELSE None
  /\ Unlinking => before[op.nm] # None
  /\ Renaming => /\ before[op.nm] = inode[op.ino].data
                 /\ before[op.to] = IF op.tgt = None THEN None ELSE inode[op.tgt].data

Contents == /\ NoUndo /\ WrittenRight /\ DirsClean /\ InodesUnshared /\ EntriesUnshared /\ DotsRight /\ Shown

-----------------------------------------------------------------------------
(* What each step does.                                                       *)

LEMMA StructureTree ==
  ASSUME Structure
  PROVE  TypeOK /\ TreeRight /\ FlushRight /\ NamesRight /\ OneInode /\ HashRight /\ Stages
BY DEF Structure, TreeRight, HashRight

LEMMA FindEffects ==
  ASSUME Structure, NEW nm \in Name, Lookup(nm) \/ Create(nm) \/ Mkdir(nm)
  PROVE  /\ ~Busy /\ Busy' /\ Finding' /\ ~Renaming' /\ ~Unlinking' /\ ~Renaming /\ ~Unlinking
         /\ UNCHANGED <<inode, dcache, flush, dirsync>> /\ before' = View
         /\ op'.pc = "iget" /\ op'.kind \in {"lookup", "create", "mkdir"} /\ op'.nm = nm /\ op'.to = None
         /\ op'.ino = None /\ op'.tgt = None
         /\ \/ op'.kind = "lookup" /\ UNCHANGED <<entry, dotdot>>
            \/ \E x \in Pos :
                 /\ op'.kind # "lookup" /\ Slots(nm) = {} /\ entry[x] = Deleted /\ DirOf[x] = nm[1]
                 /\ entry'[x] # Deleted /\ \A w \in Pos : w # x => entry'[w] = entry[w]
                 /\ \A m \in Name : m # nm => Slots(m)' = Slots(m)
                 /\ \/ entry'[x].data = Empty /\ ~entry'[x].dir /\ UNCHANGED dotdot
                    \/ entry'[x].data \in Fresh /\ entry'[x].dir
                       /\ dotdot' = [dotdot EXCEPT ![entry'[x].data] = nm[1]]
<1>1. TypeOK /\ TreeRight /\ NamesRight /\ Stages
  BY StructureTree
<1>2. /\ ~Busy /\ Busy' /\ Finding' /\ ~Renaming' /\ ~Unlinking' /\ ~Renaming /\ ~Unlinking
  BY <1>1, FindBegins, IdleOp
<1>3. UNCHANGED <<inode, dcache, flush, dirsync>>
  BY DEF Lookup, Create, Mkdir
<1>4. CASE Lookup(nm)
  <2>1. PICK x \in Slots(nm) : Lock(At("lookup", "iget", nm, x))
    BY <1>4 DEF Lookup
  <2>2. op' = [kind |-> "lookup", pc |-> "iget", nm |-> nm, to |-> None, ino |-> None,
               tgt |-> None, x |-> x, y |-> None]
    BY <2>1 DEF Lock, At, NoOp
  <2>3. before' = View /\ UNCHANGED <<entry, dotdot>>
    BY <2>1, <1>4 DEF Lock, Lookup, disk
  <2> QED
    BY <1>2, <1>3, <2>2, <2>3
<1>5. CASE Create(nm)
  <2>1. PICK x \in FreeSlots(nm[1]), dir \in BOOLEAN :
          dir = FALSE /\ Adds(x, nm, Empty, dir) /\ Lock(At("create", "iget", nm, x))
    BY <1>5 DEF Create
  <2>2. op' = [kind |-> "create", pc |-> "iget", nm |-> nm, to |-> None, ino |-> None,
               tgt |-> None, x |-> x, y |-> None]
    BY <2>1 DEF Lock, At, NoOp
  <2>3. before' = View /\ UNCHANGED dotdot /\ Slots(nm) = {} /\ Empty \in Content
    BY <2>1, <1>5 DEF Lock, Create, Content
  <2>4. /\ x \in Pos /\ DirOf[x] = nm[1] /\ entry[x] = Deleted /\ entry'[x] # Deleted
        /\ entry'[x].data = Empty /\ ~entry'[x].dir /\ \A w \in Pos : w # x => entry'[w] = entry[w]
        /\ \A m \in Name : m # nm => Slots(m)' = Slots(m)
    BY <1>1, <2>1, <2>3, EntryAdded
  <2> QED
    BY <1>2, <1>3, <2>2, <2>3, <2>4
<1>6. CASE Mkdir(nm)
  <2>1. PICK t \in Fresh, x \in FreeSlots(nm[1]), dir \in BOOLEAN :
          /\ dir = TRUE /\ Adds(x, nm, t, dir) /\ Lock(At("mkdir", "iget", nm, x))
          /\ dotdot' = [dotdot EXCEPT ![t] = nm[1]]
    BY <1>6 DEF Mkdir
  <2>2. op' = [kind |-> "mkdir", pc |-> "iget", nm |-> nm, to |-> None, ino |-> None,
               tgt |-> None, x |-> x, y |-> None]
    BY <2>1 DEF Lock, At, NoOp
  <2>3. before' = View /\ Slots(nm) = {} /\ t \in Content
    BY <2>1, <1>6 DEF Lock, Mkdir, Content, Fresh
  <2>4. /\ x \in Pos /\ DirOf[x] = nm[1] /\ entry[x] = Deleted /\ entry'[x] # Deleted
        /\ entry'[x].data = t /\ entry'[x].dir /\ \A w \in Pos : w # x => entry'[w] = entry[w]
        /\ \A m \in Name : m # nm => Slots(m)' = Slots(m)
    BY <1>1, <2>1, <2>3, EntryAdded
  <2> QED
    BY <1>2, <1>3, <2>1, <2>2, <2>3, <2>4
<1> QED
  BY <1>4, <1>5, <1>6

LEMMA UnlinkEffects ==
  ASSUME Structure, "remove" \notin Failing, NEW nm \in Name, Unlink(nm)
  PROVE  /\ ~Busy /\ Busy' /\ Unlinking' /\ ~Renaming' /\ ~Finding' /\ ~Renaming /\ ~Unlinking
         /\ UNCHANGED <<inode, dcache, dotdot, flush, dirsync>> /\ before' = View
         /\ op'.nm = nm /\ op'.to = None /\ op'.ino = dcache[nm] /\ op'.pc = "detach" /\ op'.kind = "unlink"
         /\ op'.x \in Slots(nm) /\ op'.x \in Pos /\ op'.ino \in Inodes /\ On(op'.ino, op'.x)
         /\ entry[op'.x] # Deleted /\ entry'[op'.x] = Deleted
         /\ \A w \in Pos : w # op'.x => entry'[w] = entry[w]
         /\ \A m \in Name : m # nm => Slots(m)' = Slots(m)
<1>1. TypeOK /\ TreeRight /\ NamesRight /\ Stages
  BY StructureTree
<1>2. /\ Unlinking' /\ Busy' /\ ~Renaming' /\ ~Finding' /\ ~Busy
      /\ op'.nm = nm /\ op'.to = None /\ op'.ino = dcache[nm]
      /\ op'.x \in Slots(nm) /\ entry' = [entry EXCEPT ![op'.x] = Deleted]
  BY <1>1, UnlinkBegins
<1>3. ~Renaming /\ ~Unlinking
  BY <1>1, <1>2, IdleOp
<1>4. UNCHANGED <<inode, dcache, dotdot, flush, dirsync>> /\ before' = View /\ dcache[nm] # None
  BY DEF Unlink, Lock, MayFail
<1>5. dcache[nm] \in Inodes /\ On(dcache[nm], op'.x)
  BY <1>1, <1>2, <1>4, IdleDentry
<1>6. /\ op'.x \in Pos /\ entry'[op'.x] = Deleted /\ entry[op'.x] # Deleted
      /\ \A w \in Pos : w # op'.x => entry'[w] = entry[w]
      /\ \A m \in Name : m # nm => Slots(m)' = Slots(m)
  BY <1>1, <1>2, EntryRemoved DEF Used
<1>7. op'.pc = "detach" /\ op'.kind = "unlink"
  BY <1>2 DEF Unlinking
<1> QED
  BY <1>2, <1>3, <1>4, <1>5, <1>6, <1>7

LEMMA UnlinkDoneEffects ==
  ASSUME Structure, UnlinkDone
  PROVE  /\ Unlinking /\ op' = NoOp /\ ~Busy' /\ ~Renaming' /\ ~Unlinking' /\ ~Renaming /\ before' = Nothing
         /\ UNCHANGED <<entry, dotdot, flush, dirsync>> /\ SameInodes
         /\ inode'[op.ino].pos = None /\ \A j \in Inodes : j # op.ino => inode'[j].pos = inode[j].pos
         /\ \A j \in Inodes : inode'[j].dirty = inode[j].dirty
<1>1. TypeOK /\ TreeRight
  BY StructureTree
<1>2. /\ Unlinking /\ op' = NoOp /\ before' = Nothing /\ UNCHANGED <<entry, dotdot, flush, dirsync>>
      /\ inode' = Detached(op.ino)
  BY DEF UnlinkDone, Unlinking, disk, Unlock
<1> QED
  BY <1>1, <1>2, UnlinkFacts, InodeDetached, IdleAfter

LEMMA RenameBeginEffects ==
  ASSUME Structure, NEW nm \in Name, NEW to \in Name, RenameOver(nm, to) \/ RenameNew(nm, to)
  PROVE  /\ ~Busy /\ Busy' /\ Renaming' /\ ~Finding' /\ ~Unlinking' /\ ~Renaming /\ ~Unlinking
         /\ UNCHANGED <<dcache, dotdot, flush, dirsync>> /\ before' = View /\ SameInodes
         /\ op'.pc = "detach" /\ op'.kind = "rename" /\ op'.nm = nm /\ op'.to = to
         /\ op'.x \in Slots(nm) /\ op'.x \in Pos /\ op'.ino \in Inodes /\ On(op'.ino, op'.x)
         /\ \A j \in Inodes : inode'[j].dirty = inode[j].dirty /\ (j # op'.tgt => inode'[j].pos = inode[j].pos)
         /\ \A m \in Name : m # to => Slots(m)' = Slots(m)
         /\ op'.y \in Pos /\ op'.y # op'.x
         /\ \/ /\ op'.tgt \in Inodes /\ op'.tgt # op'.ino /\ On(op'.tgt, op'.y) /\ inode'[op'.tgt].pos = None
               /\ op'.y \in Slots(to) /\ UNCHANGED entry
            \/ /\ op'.tgt = None /\ UNCHANGED inode
               /\ entry[op'.y] = Deleted /\ entry'[op'.y] # Deleted /\ entry'[op'.y].data = Empty
               /\ Slots(to) = {} /\ \A w \in Pos : w # op'.y => entry'[w] = entry[w]
<1>1. TypeOK /\ TreeRight /\ NamesRight /\ Stages
  BY StructureTree
<1>2. CASE RenameOver(nm, to)
  <2>1. /\ Renaming' /\ Busy' /\ ~Finding' /\ ~Unlinking' /\ ~Busy
        /\ op'.pc = "detach" /\ op'.kind = "rename" /\ op'.nm = nm /\ op'.to = to /\ op'.ino = dcache[nm]
        /\ op'.tgt = dcache[to] /\ op'.x \in Slots(nm) /\ op'.y \in Slots(to)
        /\ op'.ino \in Inodes /\ op'.tgt \in Inodes /\ op'.tgt # op'.ino
        /\ On(op'.ino, op'.x) /\ On(op'.tgt, op'.y) /\ inode' = Detached(dcache[to])
    BY <1>1, <1>2, RenameOverBegins
  <2>2. ~Renaming /\ ~Unlinking
    BY <1>1, <2>1, IdleOp
  <2>3. UNCHANGED <<entry, dcache, dotdot, flush, dirsync>> /\ before' = View /\ nm # to
    BY <1>2 DEF RenameOver, Lock, disk
  <2>4. /\ SameInodes /\ inode'[op'.tgt].pos = None
        /\ \A j \in Inodes : inode'[j].dirty = inode[j].dirty /\ (j # op'.tgt => inode'[j].pos = inode[j].pos)
    BY <1>1, <2>1, InodeDetached
  <2>5. op'.x \in Pos /\ op'.y \in Pos /\ op'.y # op'.x
    <3>1. op'.x \in Pos /\ op'.y \in Pos
      BY <2>1 DEF Slots
    <3>2. op'.x # op'.y
      BY <2>1, <2>3, OneNameForASlot
    <3> QED
      BY <3>1, <3>2
  <2>6. \A m \in Name : Slots(m)' = Slots(m)
    BY <2>3 DEF Slots
  <2> QED
    BY <2>1, <2>2, <2>3, <2>4, <2>5, <2>6
<1>3. CASE RenameNew(nm, to)
  <2>1. /\ Renaming' /\ Busy' /\ ~Finding' /\ ~Unlinking' /\ ~Busy
        /\ op'.pc = "detach" /\ op'.kind = "rename" /\ op'.nm = nm /\ op'.to = to /\ op'.ino = dcache[nm]
        /\ op'.tgt = None /\ op'.x \in Slots(nm) /\ op'.y \in FreeSlots(to[1])
        /\ op'.ino \in Inodes /\ On(op'.ino, op'.x)
        /\ Adds(op'.y, to, Empty, inode[dcache[nm]].dir)
    BY <1>1, <1>3, RenameNewBegins
  <2>2. ~Renaming /\ ~Unlinking
    BY <1>1, <2>1, IdleOp
  <2>3. UNCHANGED <<inode, dcache, dotdot, flush, dirsync>> /\ before' = View /\ Slots(to) = {}
    BY <1>3 DEF RenameNew, Lock
  <2>4. Empty \in Content /\ inode[dcache[nm]].dir \in BOOLEAN
    BY <1>1, <2>1, InodeFields DEF Content
  <2>5. /\ op'.y \in Pos /\ entry[op'.y] = Deleted /\ entry'[op'.y] # Deleted /\ entry'[op'.y].data = Empty
        /\ \A w \in Pos : w # op'.y => entry'[w] = entry[w]
        /\ \A m \in Name : m # to => Slots(m)' = Slots(m)
    <3> DEFINE y == op'.y
               dir == inode[dcache[nm]].dir
    <3>1. y \in FreeSlots(to[1]) /\ dir \in BOOLEAN /\ Adds(y, to, Empty, dir)
      BY <2>1, <2>4
    <3> HIDE DEF y, dir
    <3>2. /\ y \in Pos /\ entry[y] = Deleted /\ entry'[y] # Deleted /\ entry'[y].data = Empty
          /\ \A w \in Pos : w # y => entry'[w] = entry[w]
          /\ \A m \in Name : m # to => Slots(m)' = Slots(m)
      BY <1>1, <2>3, <2>4, <3>1, EntryAdded
    <3> QED
      BY <3>2 DEF y
  <2>6. op'.x \in Pos /\ op'.x # op'.y
    BY <2>1, <2>5 DEF Slots
  <2> QED
    BY <2>1, <2>2, <2>3, <2>5, <2>6 DEF SameInodes
<1> QED
  BY <1>2, <1>3

LEMMA LooksUpEffects ==
  ASSUME Structure, Iget \/ BuildFails
  PROVE  /\ Finding /\ ~Renaming' /\ ~Unlinking' /\ ~Renaming /\ ~Unlinking
         /\ UNCHANGED <<entry, dotdot, inode, flush, dirsync>>
         /\ \/ /\ Finding' /\ Busy' /\ op'.pc = "fill" /\ op'.kind = op.kind /\ op'.nm = op.nm /\ op'.to = op.to
               /\ op'.ino = op.ino /\ op'.tgt = op.tgt /\ before' = before
            \/ op' = NoOp /\ before' = Nothing /\ ~Busy' /\ ~Finding'
<1>1. TypeOK /\ TreeRight
  BY StructureTree
<1>2. Finding /\ UNCHANGED <<entry, dotdot, inode, flush, dirsync>>
      /\ (Goto("fill") \/ Unlock)
  BY DEF Iget, BuildFails, Splice, disk, Finding
<1>3. ~Renaming /\ ~Unlinking /\ Busy
  BY <1>1, <1>2, FindFacts
<1>4. CASE Goto("fill")
  <2>1. /\ op'.pc = "fill" /\ op'.kind = op.kind /\ op'.nm = op.nm /\ op'.to = op.to
        /\ op'.ino = op.ino /\ op'.tgt = op.tgt /\ before' = before
    BY <1>1, <1>4, OpGoes DEF OpPcs
  <2> QED
    BY <1>2, <1>3, <2>1 DEF Finding, Unlinking, Renaming, Busy
<1>5. CASE Unlock
  BY <1>2, <1>3, <1>5, IdleAfter DEF Unlock
<1> QED
  BY <1>2, <1>4, <1>5

LEMMA FillEffects ==
  ASSUME Structure, Fill
  PROVE  /\ Finding /\ op.pc = "fill" /\ ~Renaming /\ ~Unlinking /\ ~Renaming' /\ ~Unlinking' /\ ~Busy' /\ ~Finding'
         /\ UNCHANGED <<entry, dotdot, flush, dirsync>> /\ op' = NoOp /\ before' = Nothing
         /\ op.x \in Pos /\ Used(op.x) /\ Vacant(op.x) /\ op.x \in Slots(op.nm)
         /\ \E i \in Inodes :
              /\ ~Live(i) /\ flush.ino # i /\ inode'[i].st = "live" /\ inode'[i].pos = op.x
              /\ inode'[i].data = entry[op.x].data /\ inode'[i].dir = entry[op.x].dir /\ ~inode'[i].dirty
              /\ \A j \in Inodes : j # i => inode'[j] = inode[j]
<1>1. TypeOK /\ TreeRight /\ FlushRight
  BY StructureTree
<1>2. /\ Finding /\ op.pc = "fill" /\ UNCHANGED <<entry, dotdot, flush, dirsync>>
      /\ op' = NoOp /\ before' = Nothing
  BY <1>1, Filled
<1>3. /\ ~Renaming /\ ~Unlinking /\ op.x \in Pos /\ Used(op.x) /\ Vacant(op.x) /\ op.x \in Slots(op.nm)
  BY <1>1, <1>2, FindFacts
<1>4. PICK i \in Inodes :
        /\ inode[i].st = "none" /\ inode'[i].st = "live" /\ inode'[i].pos = op.x
        /\ inode'[i].data = entry[op.x].data /\ inode'[i].dir = entry[op.x].dir /\ ~inode'[i].dirty
        /\ \A j \in Inodes : j # i => inode'[j] = inode[j]
  BY <1>1, Filled
<1>5. ~Live(i) /\ flush.ino # i
  <2>1. ~Live(i)
    BY <1>4 DEF Live
  <2>2. None \notin Inodes
    BY ValuesAssumption
  <2> QED
    BY <1>1, <2>1, <2>2 DEF FlushRight
<1> QED
  BY <1>2, <1>3, <1>4, <1>5, IdleAfter

LEMMA RenameDetachEffects ==
  ASSUME Structure, RenameDetach
  PROVE  /\ Renaming /\ Renaming' /\ Busy' /\ ~Finding' /\ ~Unlinking' /\ ~Unlinking
         /\ UNCHANGED <<entry, dotdot, flush, dirsync, before>> /\ SameInodes
         /\ op.pc = "detach" /\ op'.pc = "attach" /\ op'.kind = op.kind /\ op'.nm = op.nm /\ op'.to = op.to
         /\ op'.ino = op.ino /\ op'.tgt = op.tgt /\ op'.x = op.x /\ op'.y = op.y
         /\ inode[op.ino].pos = op.x /\ inode'[op.ino].pos = None
         /\ \A j \in Inodes : j # op.ino => inode'[j].pos = inode[j].pos
         /\ \A j \in Inodes : inode'[j].dirty = inode[j].dirty
<1>1. TypeOK /\ TreeRight
  BY StructureTree
<1>2. Renaming /\ Renaming' /\ Busy' /\ ~Finding' /\ ~Unlinking'
  BY <1>1, RenameDetachTree
<1>3. /\ op'.pc = "attach" /\ op'.kind = op.kind /\ op'.nm = op.nm /\ op'.to = op.to
      /\ op'.ino = op.ino /\ op'.tgt = op.tgt /\ op'.x = op.x /\ op'.y = op.y /\ before' = before
  BY <1>1, OpGoes DEF RenameDetach, OpPcs
<1>4. UNCHANGED <<entry, dotdot, flush, dirsync>> /\ op.pc = "detach" /\ inode' = Detached(op.ino)
  BY DEF RenameDetach, disk
<1>5. op.ino \in Inodes /\ ~Unlinking
  BY <1>1, <1>2, RenameFacts
<1>6. inode[op.ino].pos = op.x
  BY <1>1, <1>2, <1>4 DEF TreeRight, Stages, RenameStage
<1>7. /\ SameInodes /\ inode'[op.ino].pos = None
      /\ \A j \in Inodes : j # op.ino => inode'[j].pos = inode[j].pos
      /\ \A j \in Inodes : inode'[j].dirty = inode[j].dirty
  BY <1>1, <1>4, <1>5, InodeDetached
<1> QED
  BY <1>2, <1>3, <1>4, <1>5, <1>6, <1>7

LEMMA RenameAttachEffects ==
  ASSUME Structure, RenameAttach
  PROVE  /\ Renaming /\ Renaming' /\ Busy' /\ ~Finding' /\ ~Unlinking' /\ ~Unlinking
         /\ UNCHANGED <<entry, dotdot, flush, dirsync, before>> /\ SameInodes
         /\ op.pc = "attach" /\ op'.kind = op.kind /\ op'.nm = op.nm /\ op'.to = op.to
         /\ op'.pc \in {"sync", "dotdot", "old"} /\ (dirsync => op'.pc = "sync") /\ (op'.pc = "old" => ~MovesDir)
         /\ op'.ino = op.ino /\ op'.tgt = op.tgt /\ op'.x = op.x /\ op'.y = op.y
         /\ inode[op.ino].pos = None /\ inode'[op.ino].pos = op.y
         /\ inode'[op.ino].dirty = (inode[op.ino].dirty \/ ~dirsync)
         /\ \A j \in Inodes : j # op.ino => inode'[j] = inode[j]
<1>1. TypeOK /\ TreeRight
  BY StructureTree
<1>2. Renaming /\ Renaming' /\ Busy' /\ ~Finding' /\ ~Unlinking'
  BY <1>1, RenameAttachTree
<1>3. PICK pc \in {"sync", "dotdot", "old"} : Goto(pc) /\ (dirsync => pc = "sync") /\ (pc = "old" => ~MovesDir)
  BY DEF RenameAttach, AfterSync
<1>4. /\ op'.pc = pc /\ op'.kind = op.kind /\ op'.nm = op.nm /\ op'.to = op.to
      /\ op'.ino = op.ino /\ op'.tgt = op.tgt /\ op'.x = op.x /\ op'.y = op.y /\ before' = before
  BY <1>1, <1>3, OpGoes DEF OpPcs
<1>5. UNCHANGED <<entry, dotdot, flush, dirsync>> /\ op.pc = "attach"
  BY DEF RenameAttach, disk
<1>6. ~Unlinking /\ inode[op.ino].pos = None
  BY <1>1, <1>2, <1>5, RenameFacts DEF TreeRight, Stages, RenameStage
<1>7. /\ SameInodes /\ inode'[op.ino].pos = op.y
      /\ inode'[op.ino].dirty = (inode[op.ino].dirty \/ ~dirsync)
      /\ \A j \in Inodes : j # op.ino => inode'[j] = inode[j]
  BY <1>1, Reattached
<1> QED
  BY <1>2, <1>3, <1>4, <1>5, <1>6, <1>7

LEMMA RenameSyncEffects ==
  ASSUME Structure, RenameSync, "sync" \notin Failing
  PROVE  /\ Renaming /\ Renaming' /\ Busy' /\ ~Finding' /\ ~Unlinking' /\ ~Unlinking
         /\ UNCHANGED <<inode, dotdot, flush, dirsync, before>>
         /\ op.pc = "sync" /\ op'.kind = op.kind /\ op'.nm = op.nm /\ op'.to = op.to
         /\ op'.pc \in {"dotdot", "old"} /\ (op'.pc = "old" => ~MovesDir)
         /\ op'.ino = op.ino /\ op'.tgt = op.tgt /\ op'.x = op.x /\ op'.y = op.y
         /\ inode[op.ino].pos = op.y /\ SameSlots
         /\ \A w \in Pos : Used(w) => entry'[w].data = IF w = op.y THEN inode[op.ino].data ELSE entry[w].data
<1>1. TypeOK /\ TreeRight
  BY StructureTree
<1>2. /\ Renaming /\ Renaming' /\ Busy' /\ ~Finding' /\ ~Unlinking' /\ (op'.pc = "old" => ~MovesDir)
      /\ op'.kind = op.kind /\ op'.nm = op.nm /\ op'.to = op.to
      /\ op'.ino = op.ino /\ op'.tgt = op.tgt /\ op'.x = op.x /\ op'.y = op.y /\ before' = before
  BY <1>1, RenameSyncTree
<1>3. /\ entry' = [entry EXCEPT ![op.y].data = inode[op.ino].data] /\ Goto(AfterSync)
      /\ UNCHANGED <<inode, dotdot, flush, dirsync>> /\ op.pc = "sync"
  BY DEF RenameSync, MayFail
<1>4. op'.pc \in {"dotdot", "old"}
  <2>1. AfterSync \in {"dotdot", "old"} /\ AfterSync \in OpPcs
    BY DEF AfterSync, OpPcs
  <2> QED
    BY <1>1, <1>3, <2>1, OpGoes
<1>5. ~Unlinking /\ op.ino \in Inodes /\ op.y \in Pos /\ Used(op.y)
  BY <1>1, <1>2, RenameFacts
<1>6. inode[op.ino].pos = op.y
  BY <1>1, <1>2, <1>3 DEF TreeRight, Stages, RenameStage
<1>7. SameSlots /\ \A w \in Pos : Used(w) => entry'[w].data = IF w = op.y THEN inode[op.ino].data ELSE entry[w].data
  BY <1>1, <1>3, <1>5, DataWritten, InodeFields
<1> QED
  BY <1>2, <1>3, <1>4, <1>5, <1>6, <1>7, RenameSyncTree, <1>1

LEMMA RenameDotdotEffects ==
  ASSUME Structure, RenameDotdot
  PROVE  /\ Renaming /\ Renaming' /\ Busy' /\ ~Finding' /\ ~Unlinking' /\ ~Unlinking
         /\ UNCHANGED <<inode, entry, flush, dirsync, before>> /\ MovesDir
         /\ op.pc = "dotdot" /\ op'.kind = op.kind /\ op'.nm = op.nm /\ op'.to = op.to
         /\ op'.pc \in {"corrupt", "old"} /\ (op'.pc = "corrupt" => dirsync)
         /\ op'.ino = op.ino /\ op'.tgt = op.tgt /\ op'.x = op.x /\ op'.y = op.y
         /\ inode[op.ino].pos = op.y
         /\ dotdot' = [dotdot EXCEPT ![inode[op.ino].data] = op.to[1]]
<1>1. TypeOK /\ TreeRight
  BY StructureTree
<1>2. /\ Renaming /\ Renaming' /\ Busy' /\ ~Finding' /\ ~Unlinking'
      /\ op'.pc \in {"corrupt", "old"} /\ MovesDir /\ (op'.pc = "corrupt" => dirsync)
      /\ op'.kind = op.kind /\ op'.nm = op.nm /\ op'.to = op.to
      /\ op'.ino = op.ino /\ op'.tgt = op.tgt /\ op'.x = op.x /\ op'.y = op.y /\ before' = before
  BY <1>1, RenameDotdotTree
<1>3. /\ dotdot' = [dotdot EXCEPT ![inode[op.ino].data] = op.to[1]]
      /\ UNCHANGED <<inode, entry, flush, dirsync>> /\ op.pc = "dotdot"
  BY DEF RenameDotdot
<1>4. ~Unlinking
  BY <1>1, <1>2, RenameFacts
<1>5. inode[op.ino].pos = op.y
  BY <1>1, <1>2, <1>3 DEF TreeRight, Stages, RenameStage
<1> QED
  BY <1>2, <1>3, <1>4, <1>5

LEMMA RenameRemoveEffects ==
  ASSUME Structure, RenameRemove, "remove" \notin Failing
  PROVE  /\ Renaming /\ ~Renaming' /\ ~Busy' /\ ~Finding' /\ ~Unlinking' /\ ~Unlinking
         /\ UNCHANGED <<inode, dotdot, flush, dirsync>> /\ op' = NoOp /\ before' = Nothing
         /\ op.pc = "old" /\ inode[op.ino].pos = op.y
         /\ entry'[op.x] = Deleted /\ \A w \in Pos : w # op.x => entry'[w] = entry[w]
         /\ \A m \in Name : Slots(m)' = IF m = op.nm THEN {} ELSE Slots(m)
<1>1. TypeOK /\ TreeRight /\ NamesRight
  BY StructureTree
<1>2. /\ Renaming /\ op.pc = "old" /\ op' = NoOp /\ before' = Nothing
      /\ entry' = [entry EXCEPT ![op.x] = Deleted]
  BY <1>1, RenameRemoveTree
<1>3. UNCHANGED <<inode, dotdot, flush, dirsync>>
  BY DEF RenameRemove
<1>4. ~Unlinking /\ op.nm \in Name /\ op.x \in Slots(op.nm)
  BY <1>1, <1>2, RenameFacts
<1>5. inode[op.ino].pos = op.y
  BY <1>1, <1>2 DEF TreeRight, Stages, RenameStage
<1>6. /\ entry'[op.x] = Deleted /\ \A w \in Pos : w # op.x => entry'[w] = entry[w]
      /\ \A m \in Name : m # op.nm => Slots(m)' = Slots(m)
      /\ \A m \in Name : m = op.nm => Slots(m)' = {}
  <2> DEFINE n == op.nm
             x == op.x
  <2>1. n \in Name /\ x \in Slots(n) /\ entry' = [entry EXCEPT ![x] = Deleted]
    BY <1>2, <1>4
  <2> HIDE DEF n, x
  <2>2. PICK k \in Name, z \in Pos : k = n /\ z = x /\ z \in Slots(k)
    BY <2>1 DEF Slots
  <2>3. /\ entry'[z] = Deleted /\ \A w \in Pos : w # z => entry'[w] = entry[w]
        /\ \A m \in Name : m # k => Slots(m)' = Slots(m)
        /\ Slots(k)' = {}
    BY <1>1, <2>1, <2>2, EntryRemoved
  <2> QED
    BY <2>2, <2>3 DEF n, x
<1> QED
  BY <1>2, <1>3, <1>4, <1>5, <1>6, IdleAfter

LEMMA UndoDetachEffects ==
  ASSUME Structure, NoUndo, UndoDetach
  PROVE  /\ Renaming /\ Renaming' /\ Busy' /\ ~Finding' /\ ~Unlinking' /\ ~Unlinking
         /\ UNCHANGED <<entry, flush, dirsync, before>> /\ SameInodes
         /\ op.pc = "corrupt" /\ MovesDir /\ dirsync
         /\ op'.pc = "undone" /\ op'.kind = "corrupt" /\ op'.nm = op.nm /\ op'.to = op.to
         /\ op'.ino = op.ino /\ op'.tgt = op.tgt /\ op'.x = op.x /\ op'.y = op.y
         /\ inode[op.ino].pos = op.y /\ inode'[op.ino].pos = None
         /\ \A j \in Inodes : j # op.ino => inode'[j].pos = inode[j].pos
         /\ \A j \in Inodes : inode'[j].dirty = inode[j].dirty
         /\ dotdot' = [dotdot EXCEPT ![inode[op.ino].data] = op.nm[1]]
<1>1. TypeOK /\ TreeRight
  BY StructureTree
<1>2. /\ Renaming /\ Renaming' /\ Busy' /\ ~Finding' /\ ~Unlinking'
      /\ op'.pc = "undone" /\ op'.kind = op.pc /\ op'.nm = op.nm /\ op'.to = op.to
      /\ op'.ino = op.ino /\ op'.tgt = op.tgt /\ op'.x = op.x /\ op'.y = op.y /\ before' = before
  BY <1>1, UndoDetachTree
<1>3. UNCHANGED <<entry, flush, dirsync>> /\ op.pc = "corrupt" /\ inode' = Detached(op.ino)
  BY DEF UndoDetach, NoUndo
<1>4. op.ino \in Inodes /\ ~Unlinking
  BY <1>1, <1>2, RenameFacts
<1>5. inode[op.ino].pos = op.y /\ MovesDir /\ dirsync
  BY <1>1, <1>2, <1>3 DEF TreeRight, Stages, RenameStage
<1>6. /\ SameInodes /\ inode'[op.ino].pos = None
      /\ \A j \in Inodes : j # op.ino => inode'[j].pos = inode[j].pos
      /\ \A j \in Inodes : inode'[j].dirty = inode[j].dirty
  BY <1>1, <1>3, <1>4, InodeDetached
<1>7. dotdot' = [dotdot EXCEPT ![inode[op.ino].data] = op.nm[1]]
  BY <1>3, <1>5 DEF UndoDetach
<1> QED
  BY <1>2, <1>3, <1>4, <1>5, <1>6, <1>7

LEMMA UndoAttachEffects ==
  ASSUME Structure, NoUndo, UndoAttach
  PROVE  /\ Renaming /\ ~Renaming' /\ ~Busy' /\ ~Finding' /\ ~Unlinking' /\ ~Unlinking
         /\ UNCHANGED <<dotdot, flush, dirsync>> /\ op' = NoOp /\ before' = Nothing /\ SameInodes
         /\ op.pc = "undone" /\ op.kind = "corrupt" /\ MovesDir /\ dirsync
         /\ inode[op.ino].pos = None /\ inode'[op.ino].pos = op.x
         /\ \A j \in Inodes : j \notin {op.ino, op.tgt} => inode'[j] = inode[j]
         /\ \A j \in Inodes : inode'[j].dirty = inode[j].dirty
         /\ \/ /\ op.tgt \in Inodes /\ inode'[op.tgt].pos = op.y /\ SameSlots
               /\ \A w \in Pos : Used(w) => entry'[w].data = IF w = op.y THEN inode[op.tgt].data ELSE entry[w].data
               /\ \A m \in Name : Slots(m)' = Slots(m)
            \/ /\ op.tgt = None
               /\ entry'[op.y] = Deleted /\ \A w \in Pos : w # op.y => entry'[w] = entry[w]
               /\ \A m \in Name : Slots(m)' = IF m = op.to THEN {} ELSE Slots(m)
<1>1. TypeOK /\ TreeRight /\ NamesRight
  BY StructureTree
<1>2. /\ Renaming /\ op.pc = "undone" /\ inode[op.ino].pos = None /\ dirsync
      /\ op.kind \in {"undo", "corrupt"} /\ (op.kind = "corrupt" => MovesDir)
      /\ SameInodes /\ inode'[op.ino].pos = op.x
      /\ op.tgt # None => inode'[op.tgt].pos = op.y
      /\ \A j \in Inodes : j \notin {op.ino, op.tgt} => inode'[j] = inode[j]
      /\ \A j \in Inodes : inode'[j].dirty = inode[j].dirty
  BY <1>1, UndoneInodes
<1>3. op.kind = "corrupt" /\ MovesDir
  BY <1>2 DEF NoUndo
<1>4. op' = NoOp /\ before' = Nothing /\ UNCHANGED <<dotdot, flush, dirsync>>
  BY DEF UndoAttach, Unlock
<1>5. /\ ~Unlinking /\ op.to \in Name /\ op.y \in Slots(op.to) /\ op.y \in Pos /\ Used(op.y)
      /\ op.tgt \in Inodes \cup {None}
  BY <1>1, <1>2, RenameFacts
<1>6. CASE op.tgt # None
  <2>1. entry' = [entry EXCEPT ![op.y].data = inode[op.tgt].data] /\ op.tgt \in Inodes
    BY <1>3, <1>5, <1>6 DEF UndoAttach
  <2>2. /\ SameSlots
        /\ \A w \in Pos : Used(w) => entry'[w].data = IF w = op.y THEN inode[op.tgt].data ELSE entry[w].data
    BY <1>1, <1>5, <2>1, DataWritten, InodeFields
  <2>3. \A m \in Name : Slots(m)' = Slots(m)
    BY <1>1, <2>2, EntrySame
  <2> QED
    BY <1>2, <1>3, <1>4, <1>5, <1>6, <2>1, <2>2, <2>3, IdleAfter
<1>7. CASE op.tgt = None
  <2>1. entry' = [entry EXCEPT ![op.y] = Deleted]
    BY <1>7 DEF UndoAttach
  <2>2. /\ entry'[op.y] = Deleted /\ \A w \in Pos : w # op.y => entry'[w] = entry[w]
        /\ \A m \in Name : m # op.to => Slots(m)' = Slots(m)
        /\ \A m \in Name : m = op.to => Slots(m)' = {}
    <3>1. PICK k \in Name, z \in Pos : k = op.to /\ z = op.y /\ z \in Slots(k)
      BY <1>5
    <3>2. /\ entry'[z] = Deleted /\ \A w \in Pos : w # z => entry'[w] = entry[w]
          /\ \A m \in Name : m # k => Slots(m)' = Slots(m)
          /\ Slots(k)' = {}
      BY <1>1, <2>1, <3>1, EntryRemoved
    <3> QED
      BY <3>1, <3>2
  <2> QED
    BY <1>2, <1>3, <1>4, <1>5, <1>7, <2>2, IdleAfter
<1> QED
  BY <1>6, <1>7

LEMMA WriteDataEffects ==
  ASSUME Structure, NEW i \in Inodes, WriteData(i)
  PROVE  /\ ~Busy /\ Live(i) /\ ~inode[i].dir /\ \E nm \in Name : dcache[nm] = i
         /\ UNCHANGED <<entry, dotdot, op, flush, dirsync, before>>
         /\ inode'[i].st = inode[i].st /\ inode'[i].dir = inode[i].dir /\ inode'[i].pos = inode[i].pos
         /\ inode'[i].dirty
         /\ inode'[i].data = Empty \/ inode'[i].data \in Fresh
         /\ \A j \in Inodes : j # i => inode'[j] = inode[j]
<1>1. TypeOK
  BY StructureTree
<1>2. PICK t \in Fresh \cup {Empty} : inode' = [inode EXCEPT ![i].data = t, ![i].dirty = TRUE]
  BY DEF WriteData
<1>3. /\ inode'[i].st = inode[i].st /\ inode'[i].dir = inode[i].dir /\ inode'[i].pos = inode[i].pos
      /\ inode'[i].dirty /\ inode'[i].data = t
      /\ \A j \in Inodes : j # i => inode'[j] = inode[j]
  <2>1. inode \in [Inodes -> InodeSt] /\ inode[i] \in InodeSt
    BY <1>1 DEF TypeOK
  <2> QED
    BY <1>2, <2>1 DEF InodeSt
<1> QED
  BY <1>2, <1>3 DEF WriteData, disk

LEMMA FlushBeginEffects ==
  ASSUME Structure, NEW i \in Inodes, FlushBegin(i)
  PROVE  /\ Live(i) /\ inode[i].dirty /\ flush.ino = None /\ flush'.ino = i
         /\ UNCHANGED <<entry, dotdot, op, dirsync, before>> /\ SameInodes
         /\ \A j \in Inodes : inode'[j].pos = inode[j].pos
         /\ \A j \in Inodes : j # i => inode'[j].dirty = inode[j].dirty
<1>1. TypeOK /\ FlushRight
  BY StructureTree
<1>2. inode \in [Inodes -> InodeSt] /\ inode[i] \in InodeSt
  BY <1>1 DEF TypeOK
<1>3. /\ inode'[i].st = inode[i].st /\ inode'[i].dir = inode[i].dir /\ inode'[i].pos = inode[i].pos
      /\ inode'[i].data = inode[i].data /\ \A j \in Inodes : j # i => inode'[j] = inode[j]
  BY <1>2 DEF FlushBegin, InodeSt
<1> QED
  BY <1>1, <1>3 DEF FlushBegin, FlushRight, SameInodes, disk

LEMMA FlushPosEffects ==
  ASSUME Structure, FlushPos
  PROVE  /\ UNCHANGED <<entry, dotdot, inode, op, dirsync, before>>
         /\ flush.ino \in Inodes /\ Live(flush.ino)
         /\ \/ flush'.ino = flush.ino
            \/ inode[flush.ino].pos = None /\ flush'.ino = None
<1>1. TypeOK /\ FlushRight
  BY StructureTree
<1>2. flush.ino \in Inodes /\ Live(flush.ino)
  BY <1>1 DEF FlushPos, FlushRight, TypeOK, Flushes
<1>3. flush' = NoFlush \/ flush'.ino = flush.ino
  BY <1>1 DEF FlushPos, TypeOK, Flushes
<1> QED
  BY <1>2, <1>3 DEF FlushPos, NoFlush, disk

LEMMA FlushWriteEffects ==
  ASSUME Structure, FlushWrite
  PROVE  /\ UNCHANGED <<dotdot, inode, op, dirsync, before>>
         /\ flush.ino \in Inodes /\ Live(flush.ino)
         /\ \/ flush'.ino = flush.ino /\ UNCHANGED entry
            \/ /\ inode[flush.ino].pos \in Pos /\ flush'.ino = None
               /\ \/ entry[inode[flush.ino].pos] = Deleted /\ UNCHANGED entry
                  \/ /\ SameSlots /\ Used(inode[flush.ino].pos)
                     /\ \A w \in Pos : Used(w) => entry'[w].data = IF w = inode[flush.ino].pos
                                                                   THEN inode[flush.ino].data ELSE entry[w].data
<1>1. TypeOK /\ FlushRight
  BY StructureTree
<1>2. flush.ino \in Inodes /\ Live(flush.ino) /\ flush.pos \in Pos
  BY <1>1 DEF FlushWrite, FlushRight, TypeOK, Flushes
<1>3. UNCHANGED <<dotdot, inode, op, dirsync, before>>
  BY DEF FlushWrite
<1>4. CASE Moved
  <2>1. flush'.ino = flush.ino /\ UNCHANGED entry
    BY <1>1, <1>4 DEF FlushWrite, TypeOK, Flushes
  <2> QED
    BY <1>2, <1>3, <2>1
<1>5. CASE ~Moved
  <2>1. inode[flush.ino].pos = flush.pos /\ flush'.ino = None
    BY <1>5 DEF Moved, FlushWrite, NoFlush
  <2>2. CASE entry[flush.pos] = Deleted
    BY <1>2, <1>3, <1>5, <2>1, <2>2 DEF FlushWrite
  <2>3. CASE entry[flush.pos] # Deleted
    <3>1. entry' = [entry EXCEPT ![flush.pos].data = inode[flush.ino].data] /\ Used(flush.pos)
      BY <1>5, <2>3 DEF FlushWrite, Used
    <3>2. /\ SameSlots
          /\ \A w \in Pos : Used(w) => entry'[w].data = IF w = flush.pos THEN inode[flush.ino].data ELSE entry[w].data
      BY <1>1, <1>2, <3>1, DataWritten, InodeFields
    <3> QED
      BY <1>2, <1>3, <2>1, <3>1, <3>2
  <2> QED
    BY <2>2, <2>3
<1> QED
  BY <1>4, <1>5

LEMMA EvictEffects ==
  ASSUME Structure, NEW i \in Inodes, EvictBegin(i) \/ EvictEnd(i)
  PROVE  /\ UNCHANGED <<entry, op, flush, dirsync, before>> /\ ~Live(i)' /\ flush.ino # i
         /\ \A j \in Inodes : j # i => inode'[j] = inode[j]
         /\ \/ UNCHANGED dotdot
            \/ inode[i].dir /\ inode[i].pos = None /\ dotdot' = [dotdot EXCEPT ![inode[i].data] = None]
         /\ Live(i) => /\ op.ino # i /\ op.tgt # i /\ (~inode[i].dirty \/ inode[i].pos = None)
                       /\ inode[i].pos # None => UNCHANGED dotdot
         /\ ~Live(i) => UNCHANGED dotdot
<1>1. TypeOK /\ FlushRight
  BY StructureTree
<1>2. inode \in [Inodes -> InodeSt]
  BY <1>1 DEF TypeOK
<1>3. CASE EvictBegin(i)
  BY <1>2, <1>3 DEF EvictBegin, Held, Live, NoInode
<1>4. CASE EvictEnd(i)
  <2>1. ~Live(i)
    BY <1>4 DEF EvictEnd, Live
  <2>2. flush.ino # i
    <3>1. None \notin Inodes
      BY ValuesAssumption
    <3> QED
      BY <1>1, <2>1, <3>1 DEF FlushRight
  <2> QED
    BY <1>2, <1>4, <2>1, <2>2 DEF EvictEnd, Live, NoInode, disk
<1> QED
  BY <1>3, <1>4

LEMMA DropEffects ==
  ASSUME (\E nm \in Name : DropDentry(nm)) \/ UNCHANGED vars
  PROVE  UNCHANGED <<entry, dotdot, inode, op, flush, dirsync, before>>
BY DEF DropDentry, vars, disk

-----------------------------------------------------------------------------
(* The contents, one part after the other.                                    *)

LEMMA NoUndoStep ==
  ASSUME Structure, NoUndo, "sync" \notin Failing, "remove" \notin Failing, [Next]_vars
  PROVE  NoUndo'
<1>1. ASSUME op' = op \/ op' = NoOp PROVE NoUndo'
  BY <1>1 DEF NoUndo, NoOp
<1>2. CASE \E nm \in Name : Lookup(nm) \/ Create(nm) \/ Mkdir(nm)
  BY <1>2, FindEffects DEF NoUndo
<1>3. CASE \E nm \in Name : Unlink(nm)
  BY <1>3, UnlinkEffects DEF NoUndo
<1>4. CASE \E nm, to \in Name : RenameOver(nm, to) \/ RenameNew(nm, to)
  BY <1>4, RenameBeginEffects DEF NoUndo
<1>5. CASE Iget \/ BuildFails
  BY <1>5, LooksUpEffects DEF NoUndo, NoOp
<1>6. CASE RenameDetach
  BY <1>6, RenameDetachEffects DEF NoUndo
<1>7. CASE RenameAttach
  BY <1>7, RenameAttachEffects DEF NoUndo
<1>8. CASE RenameSync
  BY <1>8, RenameSyncEffects DEF NoUndo
<1>9. CASE RenameDotdot
  BY <1>9, RenameDotdotEffects DEF NoUndo
<1>10. CASE UndoDetach
  BY <1>10, UndoDetachEffects DEF NoUndo
<1>11. CASE Fill \/ UnlinkDone \/ RenameRemove \/ UndoAttach
  BY <1>11, <1>1, FillEffects, UnlinkDoneEffects, RenameRemoveEffects, UndoAttachEffects
<1> QED
  BY <1>1, <1>2, <1>3, <1>4, <1>5, <1>6, <1>7, <1>8, <1>9, <1>10, <1>11
     DEF Next, DropDentry, WriteData, FlushBegin, EvictBegin, EvictEnd, FlushPos, FlushWrite, vars

LEMMA HashFacts ==
  ASSUME Structure
  PROVE  /\ \A i \in Inodes : Live(i) /\ inode[i].pos # None /\ ~(Unlinking /\ i = op.ino)
              => /\ inode[i].pos \in Pos /\ Used(inode[i].pos)
                 /\ entry[inode[i].pos].dir = inode[i].dir
         /\ \A i, j \in Inodes : Live(i) /\ Live(j) /\ inode[i].pos = inode[j].pos /\ inode[i].pos # None => i = j
         /\ \A i \in Inodes : inode[i].pos \in Pos \cup {None}
         /\ None \notin Pos /\ None \notin Inodes
BY InodeFields, ValuesAssumption DEF Structure, HashRight, OneInode

(* A clean inode in the hash is what its entry says.                          *)
LEMMA WrittenStep ==
  ASSUME Structure, Structure', NoUndo, WrittenRight, DirsClean, InodesUnshared,
         "sync" \notin Failing, "remove" \notin Failing, [Next]_vars
  PROVE  WrittenRight'
<1>0. TypeOK /\ TreeRight
  BY StructureTree
<1>1. SUFFICES ASSUME NEW i \in Inodes, Live(i)', inode'[i].pos # None, Clean(i)',
                      ~(i = op'.ino /\ (Unlinking' \/ op'.pc = "sync"))
               PROVE  entry'[inode'[i].pos].data = inode'[i].data
  BY DEF WrittenRight
<1>2. ASSUME Live(i), inode[i].pos # None, Clean(i), ~(i = op.ino /\ (Unlinking \/ op.pc = "sync"))
      PROVE  entry[inode[i].pos].data = inode[i].data /\ inode[i].pos \in Pos /\ Used(inode[i].pos)
  BY <1>2, HashFacts DEF WrittenRight
<1>3. ASSUME Live(i), inode'[i] = inode[i], Clean(i), ~(i = op.ino /\ (Unlinking \/ op.pc = "sync")),
             \A w \in Pos : Used(w) /\ w = inode[i].pos => entry'[w].data = entry[w].data
      PROVE  entry'[inode'[i].pos].data = inode'[i].data
  BY <1>1, <1>2, <1>3
<1>4. CASE \E nm \in Name : Lookup(nm) \/ Create(nm) \/ Mkdir(nm)
  <2>1. /\ ~Unlinking /\ ~Busy /\ UNCHANGED <<inode, flush>>
        /\ \A w \in Pos : Used(w) => entry'[w].data = entry[w].data
    BY <1>4, FindEffects DEF Used
  <2>2. op.pc # "sync"
    BY <1>0, <2>1, IdleOp DEF Structure
  <2> QED
    BY <1>1, <1>3, <2>1, <2>2 DEF Clean, Live
<1>5. CASE \E nm \in Name : Unlink(nm)
  <2>1. PICK x \in Pos : /\ ~Unlinking /\ ~Busy /\ UNCHANGED <<inode, flush>> /\ Unlinking'
        /\ op'.ino \in Inodes /\ On(op'.ino, x) /\ \A w \in Pos : w # x => entry'[w] = entry[w]
    BY <1>5, UnlinkEffects
  <2>2. op.pc # "sync"
    BY <1>0, <2>1, IdleOp DEF Structure
  <2>3. i # op'.ino /\ Live(i) /\ inode[i].pos # x
    BY <1>1, <2>1, HashFacts DEF Live, On
  <2> QED
    BY <1>1, <1>3, <2>1, <2>2, <2>3 DEF Clean, Live
<1>6. CASE \E nm, to \in Name : RenameOver(nm, to) \/ RenameNew(nm, to)
  <2>1. /\ ~Unlinking /\ ~Busy /\ UNCHANGED flush /\ SameInodes
        /\ \A j \in Inodes : inode'[j].dirty = inode[j].dirty /\ (inode'[j].pos # None => inode'[j].pos = inode[j].pos)
        /\ \A w \in Pos : Used(w) => entry'[w].data = entry[w].data
    BY <1>6, RenameBeginEffects, HashFacts DEF Used
  <2>2. op.pc # "sync"
    BY <1>0, <2>1, IdleOp DEF Structure
  <2> QED
    BY <1>1, <1>2, <2>1, <2>2 DEF Clean, Live, SameInodes
<1>7. CASE Iget \/ BuildFails
  <2>1. Finding /\ ~Unlinking /\ UNCHANGED <<entry, inode, flush>>
    BY <1>7, LooksUpEffects
  <2> QED
    BY <1>1, <1>3, <2>1 DEF Clean, Live, Finding
<1>8. CASE Fill
  <2>1. /\ Finding /\ ~Unlinking /\ UNCHANGED <<entry, flush>>
        /\ (inode'[i] = inode[i] \/ (inode'[i].data = entry[op.x].data /\ inode'[i].pos = op.x))
    BY <1>8, FillEffects
  <2> QED
    BY <1>1, <1>3, <2>1 DEF Clean, Live, Finding
<1>9. CASE UnlinkDone
  <2>1. /\ UNCHANGED <<entry, flush>> /\ SameInodes /\ Unlinking
        /\ inode'[op.ino].pos = None /\ \A j \in Inodes : j # op.ino => inode'[j].pos = inode[j].pos
        /\ \A j \in Inodes : inode'[j].dirty = inode[j].dirty
    BY <1>9, UnlinkDoneEffects
  <2> QED
    BY <1>1, <1>2, <2>1 DEF Clean, Live, SameInodes
<1>10. CASE RenameDetach \/ UndoDetach
  <2>1. /\ UNCHANGED <<entry, flush>> /\ SameInodes
        /\ inode'[op.ino].pos = None /\ \A j \in Inodes : j # op.ino => inode'[j].pos = inode[j].pos
        /\ \A j \in Inodes : inode'[j].dirty = inode[j].dirty
    BY <1>10, RenameDetachEffects, UndoDetachEffects
  <2> QED
    BY <1>1, <1>2, <2>1 DEF Clean, Live, SameInodes
<1>11. CASE RenameAttach
  <2>1. /\ UNCHANGED <<entry, flush>> /\ op'.ino = op.ino /\ (dirsync => op'.pc = "sync")
        /\ inode'[op.ino].dirty = (inode[op.ino].dirty \/ ~dirsync)
        /\ \A j \in Inodes : j # op.ino => inode'[j] = inode[j]
    BY <1>11, RenameAttachEffects
  <2>2. i # op.ino
    BY <1>1, <2>1 DEF Clean
  <2> QED
    BY <1>1, <1>3, <2>1, <2>2 DEF Clean, Live
<1>12. CASE RenameSync
  <2>1. /\ Renaming /\ UNCHANGED <<inode, flush>> /\ op'.ino = op.ino /\ inode[op.ino].pos = op.y
        /\ \A w \in Pos : Used(w) => entry'[w].data = IF w = op.y THEN inode[op.ino].data ELSE entry[w].data
    BY <1>12, RenameSyncEffects
  <2>2. op.y \in Pos /\ Used(op.y) /\ \A k \in Inodes : Live(k) /\ inode[k].pos = op.y => k = op.ino
    BY <1>0, <2>1, RenameFacts
  <2>3. CASE i = op.ino
    BY <2>1, <2>2, <2>3
  <2>4. CASE i # op.ino
    BY <1>1, <1>3, <2>1, <2>2, <2>4 DEF Clean, Live
  <2> QED
    BY <2>3, <2>4
<1>13. CASE RenameDotdot
  <2>1. /\ UNCHANGED <<inode, entry, flush>> /\ op.pc = "dotdot" /\ ~Unlinking
    BY <1>13, RenameDotdotEffects
  <2> QED
    BY <1>1, <1>3, <2>1 DEF Clean, Live
<1>14. CASE RenameRemove
  <2>1. /\ Renaming /\ UNCHANGED <<inode, flush>> /\ op.pc = "old" /\ ~Unlinking
        /\ inode[op.ino].pos = op.y /\ \A w \in Pos : w # op.x => entry'[w] = entry[w]
    BY <1>14, RenameRemoveEffects
  <2>2. op.x # op.y /\ \A k \in Inodes : Live(k) /\ inode[k].pos = op.x => k = op.ino
    BY <1>0, <2>1, RenameFacts
  <2>3. Live(i) /\ inode[i].pos # op.x
    BY <1>1, <2>1, <2>2 DEF Live
  <2> QED
    BY <1>1, <1>3, <2>1, <2>3 DEF Clean, Live
<1>15. CASE UndoAttach
  <2>1. /\ Renaming /\ UNCHANGED <<dotdot, flush, dirsync>> /\ SameInodes
        /\ MovesDir /\ dirsync /\ op.pc = "undone" /\ ~Unlinking /\ inode'[op.ino].pos = op.x
        /\ \A j \in Inodes : j \notin {op.ino, op.tgt} => inode'[j] = inode[j]
        /\ \A j \in Inodes : inode'[j].dirty = inode[j].dirty
        /\ \/ /\ op.tgt \in Inodes /\ inode'[op.tgt].pos = op.y
              /\ \A w \in Pos : Used(w) => entry'[w].data = IF w = op.y THEN inode[op.tgt].data ELSE entry[w].data
           \/ op.tgt = None /\ \A w \in Pos : w # op.y => entry'[w] = entry[w]
    BY <1>15, UndoAttachEffects
  <2>2. /\ op.x # op.y /\ \A k \in Inodes : Live(k) /\ inode[k].pos \in {op.x, op.y} => k = op.ino
        /\ op.x \in Pos /\ op.y \in Pos /\ Used(op.x) /\ Used(op.y)
    BY <1>0, <2>1, RenameFacts
  <2>3. entry[op.x].data = inode[op.ino].data
    BY <2>1 DEF DirsClean, MovesDir
  <2>4. CASE i = op.ino
    BY <2>1, <2>2, <2>3, <2>4 DEF SameInodes
  <2>5. CASE i = op.tgt /\ i # op.ino
    BY <2>1, <2>2, <2>5, HashFacts DEF SameInodes
  <2>6. CASE i \notin {op.ino, op.tgt}
    <3>1. inode'[i] = inode[i] /\ Live(i) /\ Clean(i)
      BY <1>1, <2>1, <2>6 DEF Live, Clean
    <3>2. inode[i].pos \notin {op.x, op.y}
      BY <2>2, <2>6, <3>1
    <3> QED
      BY <1>3, <2>1, <2>6, <3>1, <3>2
  <2> QED
    BY <2>4, <2>5, <2>6
<1>16. ASSUME NEW k \in Inodes, WriteData(k) PROVE entry'[inode'[i].pos].data = inode'[i].data
  <2>1. /\ ~Busy /\ UNCHANGED <<entry, op, flush>> /\ inode'[k].dirty
        /\ \A j \in Inodes : j # k => inode'[j] = inode[j]
    BY <1>16, WriteDataEffects
  <2>2. ~Unlinking /\ op.pc # "sync"
    BY <1>0, <2>1, IdleOp DEF Structure
  <2> QED
    BY <1>1, <1>3, <2>1, <2>2 DEF Clean, Live
<1>17. ASSUME NEW k \in Inodes, FlushBegin(k) PROVE entry'[inode'[i].pos].data = inode'[i].data
  <2>1. /\ flush.ino = None /\ flush'.ino = k /\ UNCHANGED <<entry, op>> /\ SameInodes
        /\ \A j \in Inodes : inode'[j].pos = inode[j].pos
        /\ \A j \in Inodes : j # k => inode'[j].dirty = inode[j].dirty
    BY <1>17, FlushBeginEffects
  <2> QED
    BY <1>1, <1>2, <2>1, HashFacts DEF Clean, Live, SameInodes, Unlinking
<1>18. CASE FlushPos
  <2>1. /\ UNCHANGED <<entry, inode, op>>
        /\ (flush'.ino = flush.ino \/ (inode[flush.ino].pos = None /\ flush'.ino = None))
    BY <1>18, FlushPosEffects
  <2> QED
    BY <1>1, <1>3, <2>1 DEF Clean, Live, Unlinking
<1>19. CASE FlushWrite
  <2> DEFINE f == flush.ino
             p == inode[f].pos
  <2>1. /\ UNCHANGED <<inode, op>> /\ f \in Inodes /\ Live(f)
        /\ \/ flush'.ino = f /\ UNCHANGED entry
           \/ /\ p \in Pos /\ flush'.ino = None
              /\ \/ entry[p] = Deleted /\ UNCHANGED entry
                 \/ /\ Used(p)
                    /\ \A w \in Pos : Used(w) => entry'[w].data = IF w = p THEN inode[f].data ELSE entry[w].data
    BY <1>19, FlushWriteEffects
  <2>2. ~(i = op.ino /\ (Unlinking \/ op.pc = "sync")) /\ Live(i) /\ inode[i].pos \in Pos
    BY <1>1, <2>1, HashFacts DEF Unlinking, Live
  <2>3. CASE i = f
    <3>1. p \in Pos /\ Used(p) /\ inode'[i] = inode[i]
      BY <2>1, <2>2, <2>3, HashFacts
    <3>2. flush'.ino # f
      BY <1>1, <2>3 DEF Clean
    <3> QED
      BY <2>1, <2>3, <3>1, <3>2 DEF Used
  <2>4. CASE i # f
    <3>1. inode[i].pos # p
      BY <2>1, <2>2, <2>4, HashFacts
    <3> QED
      BY <1>1, <1>3, <2>1, <2>2, <2>4, <3>1 DEF Clean, Live
  <2> QED
    BY <2>3, <2>4
<1>20. CASE (\E nm \in Name : DropDentry(nm)) \/ UNCHANGED vars
  BY <1>1, <1>3, <1>20, DropEffects DEF Clean, Live, Unlinking
<1>21. ASSUME NEW k \in Inodes, EvictBegin(k) \/ EvictEnd(k) PROVE entry'[inode'[i].pos].data = inode'[i].data
  <2>1. UNCHANGED <<entry, op, flush>> /\ ~Live(k)' /\ \A j \in Inodes : j # k => inode'[j] = inode[j]
    BY <1>21, EvictEffects
  <2> QED
    BY <1>1, <1>3, <2>1 DEF Clean, Live, Unlinking
<1> QED
  BY <1>4, <1>5, <1>6, <1>7, <1>8, <1>9, <1>10, <1>11, <1>12, <1>13, <1>14, <1>15, <1>16, <1>17, <1>18,
     <1>19, <1>20, <1>21 DEF Next

(* With entries written at once no directory inode is dirty, and until a       *)
(* directory's rename has removed the old entry it says where the directory's  *)
(* clusters are.                                                               *)
LEMMA DirsCleanStep ==
  ASSUME Structure, Structure', NoUndo, WrittenRight, DirsClean,
         "sync" \notin Failing, "remove" \notin Failing, [Next]_vars
  PROVE  DirsClean'
<1>0. TypeOK /\ TreeRight /\ UNCHANGED dirsync
  <2>1. TypeOK /\ TreeRight
    BY StructureTree
  <2> QED
    BY <2>1 DEF Next, vars, Lookup, Create, Mkdir, Unlink, DropDentry, RenameOver, RenameNew, Iget, Fill,
           BuildFails, UnlinkDone, RenameDetach, RenameAttach, RenameSync, RenameDotdot, RenameRemove,
           UndoDetach, UndoAttach, WriteData, FlushBegin, EvictBegin, EvictEnd, FlushPos, FlushWrite
<1>1. SUFFICES ASSUME dirsync
               PROVE  /\ \A i \in Inodes : Live(i)' /\ inode'[i].dir => Clean(i)'
                      /\ Renaming' /\ inode'[op'.ino].dir => entry'[op'.x].data = inode'[op'.ino].data
  BY <1>0 DEF DirsClean
<1>2. /\ \A i \in Inodes : Live(i) /\ inode[i].dir => Clean(i)
      /\ Renaming /\ inode[op.ino].dir => entry[op.x].data = inode[op.ino].data
  BY <1>1 DEF DirsClean
<1> DEFINE Goal1 == \A i \in Inodes : Live(i)' /\ inode'[i].dir => Clean(i)'
           Goal2 == Renaming' /\ inode'[op'.ino].dir => entry'[op'.x].data = inode'[op'.ino].data
<1>3. CASE \E nm \in Name : Lookup(nm) \/ Create(nm) \/ Mkdir(nm)
  BY <1>2, <1>3, FindEffects DEF Clean, Live
<1>4. CASE \E nm \in Name : Unlink(nm)
  BY <1>2, <1>4, UnlinkEffects DEF Clean, Live
<1>5. CASE \E nm, to \in Name : RenameOver(nm, to) \/ RenameNew(nm, to)
  <2>1. /\ ~Busy /\ UNCHANGED flush /\ SameInodes /\ \A j \in Inodes : inode'[j].dirty = inode[j].dirty
        /\ op'.x \in Pos /\ op'.ino \in Inodes /\ On(op'.ino, op'.x)
        /\ \A w \in Pos : Used(w) => entry'[w] = entry[w]
    BY <1>5, RenameBeginEffects DEF Used
  <2>2. Goal1
    BY <1>2, <2>1 DEF Clean, Live, SameInodes
  <2>3. ASSUME inode'[op'.ino].dir PROVE entry'[op'.x].data = inode'[op'.ino].data
    <3>1. ~Unlinking /\ op.pc # "sync"
      BY <1>0, <2>1, IdleOp DEF Structure
    <3>2. Live(op'.ino) /\ inode[op'.ino].pos = op'.x /\ Clean(op'.ino)
      BY <1>2, <2>1, <2>3 DEF On, SameInodes
    <3>3. entry[op'.x].data = inode[op'.ino].data /\ Used(op'.x)
      BY <2>1, <3>1, <3>2, HashFacts DEF WrittenRight
    <3> QED
      BY <2>1, <3>3 DEF SameInodes
  <2> QED
    BY <2>2, <2>3
<1>6. CASE Iget \/ BuildFails
  BY <1>2, <1>6, LooksUpEffects DEF Clean, Live
<1>7. CASE Fill
  <2>1. PICK k \in Inodes :
          /\ flush.ino # k /\ UNCHANGED flush /\ ~Renaming' /\ ~inode'[k].dirty
          /\ \A j \in Inodes : j # k => inode'[j] = inode[j]
    BY <1>7, FillEffects
  <2> QED
    BY <1>2, <2>1 DEF Clean, Live
<1>8. CASE UnlinkDone
  BY <1>2, <1>8, UnlinkDoneEffects DEF Clean, Live, SameInodes
<1>9. CASE RenameDetach \/ UndoDetach
  <2>1. /\ Renaming /\ UNCHANGED <<entry, flush>> /\ SameInodes /\ op'.ino = op.ino /\ op'.x = op.x
        /\ \A j \in Inodes : inode'[j].dirty = inode[j].dirty
    BY <1>9, RenameDetachEffects, UndoDetachEffects
  <2>2. op.ino \in Inodes
    BY <1>0, <2>1, RenameFacts
  <2> QED
    BY <1>2, <2>1, <2>2 DEF Clean, Live, SameInodes
<1>10. CASE RenameAttach
  <2>1. /\ Renaming /\ UNCHANGED <<entry, flush>> /\ SameInodes /\ op'.ino = op.ino /\ op'.x = op.x
        /\ inode'[op.ino].dirty = (inode[op.ino].dirty \/ ~dirsync)
        /\ \A j \in Inodes : j # op.ino => inode'[j] = inode[j]
    BY <1>10, RenameAttachEffects
  <2>2. op.ino \in Inodes
    BY <1>0, <2>1, RenameFacts
  <2>3. \A j \in Inodes : inode'[j].dirty => inode[j].dirty
    BY <1>1, <2>1
  <2> QED
    BY <1>2, <2>1, <2>2, <2>3 DEF Clean, Live, SameInodes
<1>11. CASE RenameSync
  <2>1. /\ Renaming /\ UNCHANGED <<inode, flush>> /\ op'.ino = op.ino /\ op'.x = op.x
        /\ \A w \in Pos : Used(w) => entry'[w].data = IF w = op.y THEN inode[op.ino].data ELSE entry[w].data
    BY <1>11, RenameSyncEffects
  <2>2. op.x \in Pos /\ Used(op.x) /\ op.x # op.y
    BY <1>0, <2>1, RenameFacts
  <2> QED
    BY <1>2, <2>1, <2>2 DEF Clean, Live
<1>12. CASE RenameDotdot
  BY <1>2, <1>12, RenameDotdotEffects DEF Clean, Live
<1>13. CASE RenameRemove
  BY <1>2, <1>13, RenameRemoveEffects DEF Clean, Live
<1>14. CASE UndoAttach
  BY <1>2, <1>14, UndoAttachEffects DEF Clean, Live, SameInodes
<1>15. ASSUME NEW k \in Inodes, WriteData(k) PROVE Goal1 /\ Goal2
  <2>1. /\ ~Busy /\ ~inode'[k].dir /\ UNCHANGED <<flush, op>>
        /\ \A j \in Inodes : j # k => inode'[j] = inode[j]
    BY <1>15, WriteDataEffects
  <2>2. ~Renaming'
    BY <1>0, <2>1, IdleOp DEF Structure, Renaming
  <2> QED
    BY <1>2, <2>1, <2>2 DEF Clean, Live
<1>16. ASSUME NEW k \in Inodes, FlushBegin(k) PROVE Goal1 /\ Goal2
  <2>1. /\ Live(k) /\ inode[k].dirty /\ flush.ino = None /\ flush'.ino = k
        /\ UNCHANGED <<entry, op>> /\ SameInodes
        /\ \A j \in Inodes : j # k => inode'[j].dirty = inode[j].dirty
    BY <1>16, FlushBeginEffects
  <2>2. ~inode[k].dir
    BY <1>2, <2>1 DEF Clean
  <2>3. Goal1
    BY <1>2, <2>1, <2>2 DEF Clean, Live, SameInodes
  <2>4. Renaming => op.ino \in Inodes
    BY <1>0, RenameFacts
  <2>5. Goal2
    BY <1>2, <2>1, <2>4 DEF SameInodes, Renaming
  <2> QED
    BY <2>3, <2>5
<1>17. CASE FlushPos
  <2>1. /\ UNCHANGED <<entry, inode, op>>
        /\ (flush'.ino = flush.ino \/ flush'.ino = None)
    BY <1>17, FlushPosEffects
  <2> QED
    BY <1>2, <2>1, HashFacts DEF Clean, Live, Renaming
<1>18. CASE FlushWrite
  <2> DEFINE f == flush.ino
             p == inode[f].pos
  <2>1. /\ UNCHANGED <<inode, op>> /\ f \in Inodes /\ Live(f) /\ (flush'.ino = f \/ flush'.ino = None)
        /\ \/ UNCHANGED entry
           \/ p \in Pos /\ \A w \in Pos : Used(w) => entry'[w].data = IF w = p THEN inode[f].data ELSE entry[w].data
    BY <1>18, FlushWriteEffects
  <2>2. Renaming => /\ op.x \in Pos /\ Used(op.x)
                    /\ \A i \in Inodes : Live(i) /\ inode[i].pos \in {op.x, op.y} => i = op.ino
    BY <1>0, RenameFacts
  <2>3. Goal2
    BY <1>2, <2>1, <2>2 DEF Renaming
  <2>4. Goal1
    BY <1>2, <2>1, HashFacts DEF Clean, Live
  <2> QED
    BY <2>3, <2>4
<1>19. CASE (\E nm \in Name : DropDentry(nm)) \/ UNCHANGED vars
  BY <1>2, <1>19, DropEffects DEF Clean, Live, Renaming
<1>20. ASSUME NEW k \in Inodes, EvictBegin(k) \/ EvictEnd(k) PROVE Goal1 /\ Goal2
  <2>1. /\ UNCHANGED <<entry, op, flush>> /\ ~Live(k)' /\ (Live(k) => op.ino # k)
        /\ \A j \in Inodes : j # k => inode'[j] = inode[j]
    BY <1>20, EvictEffects
  <2>2. Renaming => op.ino # k /\ op.ino \in Inodes
    BY <1>0, <2>1, RenameFacts
  <2> QED
    BY <1>2, <2>1, <2>2 DEF Clean, Live, Renaming
<1> QED
  BY <1>3, <1>4, <1>5, <1>6, <1>7, <1>8, <1>9, <1>10, <1>11, <1>12, <1>13, <1>14, <1>15, <1>16, <1>17, <1>18,
     <1>19, <1>20 DEF Next

(* Two inodes in use hold different clusters.                                  *)
LEMMA InodesUnsharedStep ==
  ASSUME Structure, Structure', NoUndo, InodesUnshared, EntriesUnshared,
         "sync" \notin Failing, "remove" \notin Failing, [Next]_vars
  PROVE  InodesUnshared'
<1>1. ASSUME \A i \in Inodes : Live(i)' => Live(i) /\ inode'[i].data = inode[i].data
      PROVE  InodesUnshared'
  BY <1>1 DEF InodesUnshared
<1>2. ASSUME SameInodes \/ UNCHANGED inode PROVE InodesUnshared'
  BY <1>1, <1>2 DEF SameInodes, Live
<1>3. CASE \E nm \in Name : Lookup(nm) \/ Create(nm) \/ Mkdir(nm)
  BY <1>2, <1>3, FindEffects
<1>4. CASE \E nm \in Name : Unlink(nm)
  BY <1>2, <1>4, UnlinkEffects
<1>5. CASE \E nm, to \in Name : RenameOver(nm, to) \/ RenameNew(nm, to)
  BY <1>2, <1>5, RenameBeginEffects
<1>6. CASE Fill
  <2> DEFINE x == op.x
  <2>1. PICK i \in Inodes :
          /\ ~Live(i) /\ inode'[i].data = entry[x].data
          /\ \A j \in Inodes : j # i => inode'[j] = inode[j]
    BY <1>6, FillEffects
  <2>2. ASSUME NEW j \in Inodes, j # i, Live(j), inode[j].data = entry[x].data PROVE entry[x].data = Empty
    <3>1. Used(x) /\ Vacant(x) /\ ~Renaming /\ x \in Pos /\ op.pc = "fill"
      BY <1>6, FillEffects
    <3>2. ~MayShare(j, x)
      BY <2>2, <3>1 DEF MayShare, Stale, Vacant, On
    <3> QED
      BY <2>2, <3>1, <3>2 DEF EntriesUnshared
  <2>3. ASSUME NEW j \in Inodes, NEW k \in Inodes, Live(j)', Live(k)', j # k, inode'[j].data = inode'[k].data
        PROVE  inode'[j].data = Empty
    <3>1. CASE j = i
      BY <2>1, <2>2, <2>3, <3>1 DEF Live
    <3>2. CASE k = i
      BY <2>1, <2>2, <2>3, <3>2 DEF Live
    <3>3. CASE j # i /\ k # i
      BY <2>1, <2>3, <3>3 DEF Live, InodesUnshared
    <3> QED
      BY <3>1, <3>2, <3>3
  <2> QED
    BY <2>3 DEF InodesUnshared
<1>7. ASSUME NEW i \in Inodes, WriteData(i) PROVE InodesUnshared'
  <2>1. /\ inode'[i].st = inode[i].st /\ (inode'[i].data = Empty \/ inode'[i].data \in Fresh)
        /\ \A j \in Inodes : j # i => inode'[j] = inode[j]
    BY <1>7, WriteDataEffects
  <2>2. \A j \in Inodes : inode'[i].data \in Fresh => inode[j].data # inode'[i].data
    BY DEF Fresh
  <2> QED
    BY <2>1, <2>2 DEF InodesUnshared, Live
<1>8. ASSUME NEW i \in Inodes, EvictBegin(i) \/ EvictEnd(i) PROVE InodesUnshared'
  BY <1>1, <1>8, EvictEffects DEF Live
<1>9. CASE Iget \/ BuildFails \/ UnlinkDone
  BY <1>2, <1>9, LooksUpEffects, UnlinkDoneEffects
<1>10. CASE RenameDetach \/ RenameAttach \/ RenameSync \/ RenameDotdot \/ RenameRemove
  BY <1>2, <1>10, RenameDetachEffects, RenameAttachEffects, RenameSyncEffects, RenameDotdotEffects,
     RenameRemoveEffects
<1>11. CASE UndoDetach \/ UndoAttach
  BY <1>2, <1>11, UndoDetachEffects, UndoAttachEffects
<1>12. ASSUME NEW i \in Inodes, FlushBegin(i) PROVE InodesUnshared'
  BY <1>2, <1>12, FlushBeginEffects
<1>13. CASE FlushPos \/ FlushWrite \/ (\E nm \in Name : DropDentry(nm)) \/ UNCHANGED vars
  BY <1>2, <1>13, FlushPosEffects, FlushWriteEffects, DropEffects
<1> QED
  BY <1>3, <1>4, <1>5, <1>6, <1>7, <1>8, <1>9, <1>10, <1>11, <1>12, <1>13 DEF Next

(* What two slots, or a slot and an inode that is not on it, may share.        *)
LEMMA EntriesUnsharedStep ==
  ASSUME Structure, Structure', NoUndo, WrittenRight, DirsClean, InodesUnshared, EntriesUnshared,
         "sync" \notin Failing, "remove" \notin Failing, [Next]_vars
  PROVE  EntriesUnshared'
<1>0. TypeOK /\ TreeRight
  BY StructureTree
<1> DEFINE Shares(j, z)  == Live(j) /\ Used(z) /\ entry[z].data = inode[j].data /\ entry[z].data # Empty
           Same(z, w)    == Used(z) /\ Used(w) /\ z # w /\ entry[z].data = entry[w].data /\ entry[z].data # Empty
           Renamed(z, w) == Renaming /\ z \in {op.x, op.y} /\ w \in {op.x, op.y}
<1>1. /\ \A j \in Inodes, z \in Pos : Shares(j, z) => MayShare(j, z)
      /\ \A z, w \in Pos : Same(z, w) => Renamed(z, w)
  BY DEF EntriesUnshared
<1>2. ASSUME \A j \in Inodes, z \in Pos : Shares(j, z)' => MayShare(j, z)',
             \A z, w \in Pos : Same(z, w)' => Renamed(z, w)'
      PROVE  EntriesUnshared'
  BY <1>2 DEF EntriesUnshared
<1>3. \A i, j \in Inodes : Live(i) /\ Live(j) /\ i # j /\ inode[i].data = inode[j].data => inode[i].data = Empty
  BY DEF InodesUnshared
<1>4. ASSUME ~Renaming, ~Renaming', op.pc # "undone", op'.pc # "undone",
             \A i \in Inodes : Live(i)' => Live(i) /\ inode'[i].pos = inode[i].pos /\ inode'[i].data = inode[i].data,
             \A i \in Inodes : Live(i) /\ inode[i].pos # None /\ ~Clean(i) => Live(i)' /\ inode'[i].pos = inode[i].pos /\ ~Clean(i)',
             \A z \in Pos : Used(z)' => Used(z) /\ entry'[z].data = entry[z].data
      PROVE  EntriesUnshared'
  <2>1. ASSUME NEW j \in Inodes, NEW z \in Pos, Shares(j, z)' PROVE MayShare(j, z)'
    <3>1. Shares(j, z)
      BY <1>4, <2>1
    <3>2. inode[j].pos = z \/ (inode[j].pos = None /\ \E k \in Inodes : On(k, z) /\ ~Clean(k))
      BY <1>1, <1>4, <3>1 DEF MayShare, Stale
    <3>3. \A k \in Inodes : On(k, z) /\ ~Clean(k) => On(k, z)' /\ ~Clean(k)'
      BY <1>4, HashFacts DEF On
    <3> QED
      BY <1>4, <2>1, <3>2, <3>3 DEF MayShare, Stale
  <2>2. ASSUME NEW z \in Pos, NEW w \in Pos, Same(z, w)' PROVE Renamed(z, w)'
    BY <1>1, <1>4, <2>2
  <2> QED
    BY <1>2, <2>1, <2>2
<1>5. CASE \E nm \in Name : (Lookup(nm) \/ Create(nm) \/ Mkdir(nm)) /\ UNCHANGED entry
  <2>1. UNCHANGED <<entry, inode, flush>> /\ ~Renaming /\ ~Renaming' /\ op'.pc = "iget" /\ ~Busy
    BY <1>5, FindEffects
  <2>2. op.pc # "undone"
    BY <1>0, <2>1, IdleOp DEF Structure
  <2> QED
    BY <1>4, <2>1, <2>2 DEF Live, Clean, Used
<1>6. CASE \E nm \in Name : (Lookup(nm) \/ Create(nm) \/ Mkdir(nm)) /\ ~UNCHANGED entry
  <2>1. PICK x \in Pos :
          /\ UNCHANGED <<inode, flush>> /\ ~Renaming /\ ~Renaming' /\ op'.pc = "iget" /\ ~Busy
          /\ entry[x] = Deleted /\ (entry'[x].data = Empty \/ entry'[x].data \in Fresh)
          /\ \A w \in Pos : w # x => entry'[w] = entry[w]
    BY <1>6, FindEffects
  <2>2. op.pc # "undone"
    BY <1>0, <2>1, IdleOp DEF Structure
  <2>3. /\ \A j \in Inodes : entry'[x].data # Empty => inode[j].data # entry'[x].data
        /\ \A w \in Pos : entry'[x].data # Empty /\ Used(w) => entry[w].data # entry'[x].data
    BY <2>1 DEF Fresh, Used
  <2>4. ASSUME NEW j \in Inodes, NEW z \in Pos, Shares(j, z)' PROVE MayShare(j, z)'
    <3>1. z # x /\ Shares(j, z)
      BY <2>1, <2>3, <2>4 DEF Live, Used
    <3>2. MayShare(j, z)
      BY <1>1, <3>1
    <3> QED
      BY <2>1, <2>2, <3>2 DEF MayShare, Stale, On, Live, Clean
  <2>5. ASSUME NEW z \in Pos, NEW w \in Pos, Same(z, w)' PROVE Renamed(z, w)'
    BY <1>1, <2>1, <2>3, <2>5 DEF Used
  <2> QED
    BY <1>2, <2>4, <2>5
<1>7. CASE \E nm \in Name : Unlink(nm)
  <2>1. PICK x \in Pos :
          /\ UNCHANGED <<inode, flush>> /\ ~Renaming /\ ~Renaming' /\ ~Busy /\ op'.pc = "detach"
          /\ entry'[x] = Deleted /\ \A w \in Pos : w # x => entry'[w] = entry[w]
    BY <1>7, UnlinkEffects
  <2>2. op.pc # "undone"
    BY <1>0, <2>1, IdleOp DEF Structure
  <2> QED
    BY <1>4, <2>1, <2>2 DEF Live, Clean, Used
<1>8. CASE UnlinkDone
  <2> DEFINE i == op.ino
  <2>1. /\ Unlinking /\ op' = NoOp /\ ~Renaming' /\ ~Renaming /\ UNCHANGED <<entry, flush>> /\ SameInodes
        /\ inode'[i].pos = None /\ \A j \in Inodes : j # i => inode'[j].pos = inode[j].pos
        /\ \A j \in Inodes : inode'[j].dirty = inode[j].dirty
    BY <1>8, UnlinkDoneEffects
  <2>2. /\ entry[op.x] = Deleted /\ inode[i].pos = op.x /\ op.x \in Pos /\ op.pc = "detach"
    BY <1>0, <2>1, UnlinkFacts
  <2>3. op'.pc # "undone" /\ op.pc # "undone"
    BY <2>1, <2>2 DEF NoOp
  <2>4. ASSUME NEW j \in Inodes, NEW z \in Pos, Shares(j, z)' PROVE MayShare(j, z)'
    <3>1. Shares(j, z) /\ z # op.x
      BY <2>1, <2>2, <2>4 DEF SameInodes, Live, Used
    <3>2. inode[j].pos = z \/ (inode[j].pos = None /\ \E k \in Inodes : On(k, z) /\ ~Clean(k))
      BY <1>1, <2>1, <2>3, <3>1 DEF MayShare, Stale
    <3>3. j # i
      BY <2>2, <3>1, <3>2, HashFacts
    <3>4. \A k \in Inodes : On(k, z) /\ ~Clean(k) => On(k, z)' /\ ~Clean(k)'
      BY <2>1, <2>2, <3>1 DEF On, Live, Clean, SameInodes
    <3> QED
      BY <2>1, <3>2, <3>3, <3>4 DEF MayShare, Stale
  <2>5. ASSUME NEW z \in Pos, NEW w \in Pos, Same(z, w)' PROVE Renamed(z, w)'
    BY <1>1, <2>1, <2>5 DEF Used
  <2> QED
    BY <1>2, <2>4, <2>5
<1>9. CASE \E nm, to \in Name : RenameOver(nm, to) \/ RenameNew(nm, to)
  <2>1. /\ ~Busy /\ Renaming' /\ ~Renaming /\ UNCHANGED flush /\ SameInodes /\ op'.pc = "detach"
        /\ op'.x \in Pos /\ op'.ino \in Inodes /\ On(op'.ino, op'.x)
        /\ \A j \in Inodes : inode'[j].dirty = inode[j].dirty /\ (j # op'.tgt => inode'[j].pos = inode[j].pos)
        /\ op'.y \in Pos /\ op'.y # op'.x
        /\ \/ /\ op'.tgt \in Inodes /\ op'.tgt # op'.ino /\ On(op'.tgt, op'.y) /\ inode'[op'.tgt].pos = None
              /\ UNCHANGED entry
           \/ /\ op'.tgt = None /\ UNCHANGED inode
              /\ entry'[op'.y].data = Empty /\ entry[op'.y] = Deleted
              /\ \A w \in Pos : w # op'.y => entry'[w] = entry[w]
    BY <1>9, RenameBeginEffects
  <2>2. op.pc # "undone"
    BY <1>0, <2>1, IdleOp DEF Structure
  <2>3. ASSUME NEW j \in Inodes, NEW z \in Pos, Shares(j, z)' PROVE MayShare(j, z)'
    <3>1. Shares(j, z)
      BY <2>1, <2>3 DEF SameInodes, Live, Used
    <3>2. inode[j].pos = z \/ (inode[j].pos = None /\ \E k \in Inodes : On(k, z) /\ ~Clean(k))
      BY <1>1, <2>1, <2>2, <3>1 DEF MayShare, Stale
    <3>3. Stale(z) => Stale(z)'
      BY <2>1, HashFacts DEF Stale, On, Clean, Live, SameInodes
    <3>4. CASE j = op'.tgt
      BY <2>1, <3>2, <3>4, HashFacts DEF MayShare, On
    <3>5. CASE j = op'.ino
      BY <2>1, <3>2, <3>5, HashFacts DEF MayShare, On
    <3>6. CASE j \notin {op'.ino, op'.tgt}
      BY <2>1, <3>2, <3>3, <3>6 DEF MayShare, Stale
    <3> QED
      BY <3>4, <3>5, <3>6
  <2>4. ASSUME NEW z \in Pos, NEW w \in Pos, Same(z, w)' PROVE Renamed(z, w)'
    <3>1. Same(z, w)
      BY <2>1, <2>4 DEF Used
    <3> QED
      BY <1>1, <2>1, <3>1
  <2> QED
    BY <1>2, <2>3, <2>4
<1>10. CASE Iget \/ BuildFails
  <2>1. /\ UNCHANGED <<entry, inode, flush>> /\ ~Renaming /\ ~Renaming' /\ op.pc # "undone"
        /\ (op'.pc = "fill" \/ op' = NoOp)
    BY <1>10, LooksUpEffects DEF Finding
  <2>2. op'.pc # "undone"
    BY <2>1 DEF NoOp
  <2> QED
    BY <1>4, <2>1, <2>2 DEF Live, Clean, Used
<1>11. CASE Fill
  <2> DEFINE x == op.x
  <2>1. /\ ~Renaming /\ ~Renaming' /\ UNCHANGED <<entry, flush>> /\ op' = NoOp /\ op.pc = "fill"
        /\ x \in Pos /\ Used(x) /\ Vacant(x)
    BY <1>11, FillEffects
  <2>2. PICK i \in Inodes :
          /\ ~Live(i) /\ inode'[i].st = "live" /\ inode'[i].pos = x /\ inode'[i].data = entry[x].data
          /\ \A j \in Inodes : j # i => inode'[j] = inode[j]
    BY <1>11, FillEffects
  <2>3. op'.pc # "undone"
    BY <2>1 DEF NoOp
  <2>4. ASSUME NEW j \in Inodes, NEW z \in Pos, Shares(j, z)' PROVE MayShare(j, z)'
    <3>1. CASE j = i /\ z = x
      BY <2>2, <3>1 DEF MayShare
    <3>2. CASE j = i /\ z # x
      BY <1>1, <2>1, <2>2, <2>4, <3>2 DEF Used
    <3>3. CASE j # i
      <4>1. Shares(j, z) /\ inode'[j] = inode[j]
        BY <2>1, <2>2, <2>4, <3>3 DEF Live, Used
      <4>2. inode[j].pos = z \/ (inode[j].pos = None /\ \E k \in Inodes : On(k, z) /\ ~Clean(k))
        BY <1>1, <2>1, <4>1 DEF MayShare, Stale
      <4>3. \A k \in Inodes : On(k, z) /\ ~Clean(k) => On(k, z)' /\ ~Clean(k)'
        BY <2>1, <2>2 DEF On, Live, Clean
      <4> QED
        BY <2>1, <4>1, <4>2, <4>3 DEF MayShare, Stale
    <3> QED
      BY <3>1, <3>2, <3>3
  <2>5. ASSUME NEW z \in Pos, NEW w \in Pos, Same(z, w)' PROVE Renamed(z, w)'
    BY <1>1, <2>1, <2>5 DEF Used
  <2> QED
    BY <1>2, <2>4, <2>5
<1>12. ASSUME Renaming
       PROVE  /\ op.ino \in Inodes /\ op.tgt \in Inodes \cup {None} /\ op.tgt # op.ino /\ Live(op.ino)
              /\ (op.tgt # None => inode[op.tgt].pos = None /\ Live(op.tgt))
              /\ op.x \in Pos /\ op.y \in Pos /\ op.x # op.y /\ Used(op.x) /\ Used(op.y) /\ ~Unlinking
              /\ \A i \in Inodes : Live(i) /\ inode[i].pos \in {op.x, op.y} => i = op.ino
  BY <1>0, <1>12, RenameFacts
<1>13. ASSUME Renaming, Renaming', op'.ino = op.ino, op'.tgt = op.tgt, op'.x = op.x, op'.y = op.y, SameInodes,
              \A i \in Inodes : i # op.ino => inode'[i].pos = inode[i].pos,
              inode[op.ino].pos \in {op.x, op.y, None}, inode'[op.ino].pos \in {op.x, op.y, None},
              inode[op.ino].pos = op.y \/ op.pc = "undone" => inode'[op.ino].pos = op.y \/ op'.pc = "undone",
              \A i \in Inodes : i # op.ino => (~Clean(i) <=> ~Clean(i)')
       PROVE  \A j \in Inodes, z \in Pos : MayShare(j, z) => MayShare(j, z)'
  <2>1. \A z \in Pos : Stale(z) => Stale(z)'
    BY <1>12, <1>13, HashFacts DEF Stale, On, Live, SameInodes
  <2> QED
    BY <1>12, <1>13, <2>1, HashFacts DEF MayShare
<1>14. CASE RenameDetach \/ UndoDetach
  <2>1. /\ Renaming /\ Renaming' /\ UNCHANGED <<entry, flush>> /\ SameInodes
        /\ op'.ino = op.ino /\ op'.tgt = op.tgt /\ op'.x = op.x /\ op'.y = op.y
        /\ (op.pc = "detach" /\ inode[op.ino].pos = op.x) \/ (inode[op.ino].pos = op.y /\ op'.pc = "undone")
        /\ inode'[op.ino].pos = None
        /\ \A j \in Inodes : j # op.ino => inode'[j].pos = inode[j].pos
        /\ \A j \in Inodes : inode'[j].dirty = inode[j].dirty
    BY <1>14, RenameDetachEffects, UndoDetachEffects
  <2>2. \A j \in Inodes, z \in Pos : MayShare(j, z) => MayShare(j, z)'
    BY <1>12, <1>13, <2>1 DEF Clean
  <2>3. /\ \A j \in Inodes, z \in Pos : Shares(j, z)' => Shares(j, z)
        /\ \A z, w \in Pos : Same(z, w)' => Same(z, w)
    BY <2>1 DEF SameInodes, Live, Used
  <2> QED
    BY <1>1, <1>2, <2>1, <2>2, <2>3
<1>15. CASE RenameAttach
  <2>1. /\ Renaming /\ Renaming' /\ UNCHANGED <<entry, flush>> /\ SameInodes
        /\ op'.ino = op.ino /\ op'.tgt = op.tgt /\ op'.x = op.x /\ op'.y = op.y /\ op.pc = "attach"
        /\ inode[op.ino].pos = None /\ inode'[op.ino].pos = op.y
        /\ \A j \in Inodes : j # op.ino => inode'[j] = inode[j]
    BY <1>15, RenameAttachEffects
  <2>2. \A j \in Inodes, z \in Pos : MayShare(j, z) => MayShare(j, z)'
    BY <1>12, <1>13, <2>1 DEF Clean
  <2>3. /\ \A j \in Inodes, z \in Pos : Shares(j, z)' => Shares(j, z)
        /\ \A z, w \in Pos : Same(z, w)' => Same(z, w)
    BY <2>1 DEF SameInodes, Live, Used
  <2> QED
    BY <1>1, <1>2, <2>1, <2>2, <2>3
<1>16. CASE RenameDotdot
  <2>1. /\ Renaming /\ Renaming' /\ UNCHANGED <<entry, inode, flush>>
        /\ op'.ino = op.ino /\ op'.tgt = op.tgt /\ op'.x = op.x /\ op'.y = op.y /\ inode[op.ino].pos = op.y
    BY <1>16, RenameDotdotEffects
  <2>2. \A j \in Inodes, z \in Pos : MayShare(j, z) => MayShare(j, z)'
    BY <1>12, <1>13, <2>1 DEF Clean, SameInodes
  <2>3. /\ \A j \in Inodes, z \in Pos : Shares(j, z)' => Shares(j, z)
        /\ \A z, w \in Pos : Same(z, w)' => Same(z, w)
    BY <2>1 DEF Live, Used
  <2> QED
    BY <1>1, <1>2, <2>1, <2>2, <2>3
<1>17. CASE RenameSync
  <2>1. /\ Renaming /\ Renaming' /\ UNCHANGED <<inode, flush>> /\ op.pc = "sync"
        /\ op'.ino = op.ino /\ op'.tgt = op.tgt /\ op'.x = op.x /\ op'.y = op.y /\ inode[op.ino].pos = op.y
        /\ SameSlots
        /\ \A w \in Pos : Used(w) => entry'[w].data = IF w = op.y THEN inode[op.ino].data ELSE entry[w].data
    BY <1>17, RenameSyncEffects
  <2>2. \A j \in Inodes, z \in Pos : MayShare(j, z) => MayShare(j, z)'
    BY <1>12, <1>13, <2>1 DEF Clean, SameInodes
  <2>3. ASSUME NEW j \in Inodes, NEW z \in Pos, Shares(j, z)' PROVE MayShare(j, z)'
    <3>1. Live(j) /\ Used(z) /\ inode'[j] = inode[j]
      BY <2>1, <2>3 DEF SameSlots, Live
    <3>2. CASE z # op.y
      BY <1>1, <2>1, <2>2, <2>3, <3>1, <3>2
    <3>3. CASE z = op.y
      <4>1. j = op.ino
        BY <1>3, <1>12, <2>1, <2>3, <3>1, <3>3
      <4> QED
        BY <2>1, <3>3, <4>1 DEF MayShare
    <3> QED
      BY <3>2, <3>3
  <2>4. ASSUME NEW w \in Pos, Used(w), w # op.y, entry[w].data = inode[op.ino].data, entry[w].data # Empty
        PROVE  w = op.x
    <3>1. MayShare(op.ino, w)
      BY <1>1, <1>12, <2>1, <2>4
    <3> QED
      BY <1>12, <2>1, <2>4, <3>1, HashFacts DEF MayShare
  <2>5. ASSUME NEW z \in Pos, NEW w \in Pos, Same(z, w)' PROVE Renamed(z, w)'
    <3>1. Used(z) /\ Used(w)
      BY <2>1, <2>5 DEF SameSlots
    <3>2. CASE z = op.y
      BY <2>1, <2>4, <2>5, <3>1, <3>2
    <3>3. CASE w = op.y
      BY <2>1, <2>4, <2>5, <3>1, <3>3
    <3>4. CASE z # op.y /\ w # op.y
      BY <1>1, <2>1, <2>5, <3>1, <3>4
    <3> QED
      BY <3>2, <3>3, <3>4
  <2> QED
    BY <1>2, <2>3, <2>5
<1>18. CASE RenameRemove
  <2>1. /\ Renaming /\ ~Renaming' /\ UNCHANGED <<inode, flush>> /\ op' = NoOp /\ op.pc = "old"
        /\ inode[op.ino].pos = op.y
        /\ entry'[op.x] = Deleted /\ \A w \in Pos : w # op.x => entry'[w] = entry[w]
    BY <1>18, RenameRemoveEffects
  <2>2. Clean(op.ino) => entry[op.y].data = inode[op.ino].data
    BY <1>12, <2>1, HashFacts DEF WrittenRight
  <2>3. ASSUME NEW j \in Inodes, NEW y \in Pos, y = op.y, j # op.ino, Shares(j, y) PROVE Stale(y)'
    <3>1. PICK i \in Inodes : i = op.ino /\ Live(i) /\ inode[i].pos = y
      BY <1>12, <2>1, <2>3
    <3>2. ~Clean(i)
      BY <1>3, <2>2, <2>3, <3>1
    <3>3. On(i, y)' /\ ~Clean(i)'
      BY <2>1, <3>1, <3>2 DEF On, Live, Clean
    <3> QED
      BY <3>3 DEF Stale
  <2>4. ASSUME NEW j \in Inodes, NEW z \in Pos, Shares(j, z)' PROVE MayShare(j, z)'
    <3>1. Shares(j, z) /\ z # op.x /\ inode'[j] = inode[j]
      BY <2>1, <2>4 DEF Used, Live
    <3>2. MayShare(j, z)
      BY <1>1, <3>1
    <3>3. inode[j].pos = z \/ (inode[j].pos = None /\ j # op.ino /\ Stale(z))
      BY <1>12, <2>1, <3>1, <3>2, HashFacts DEF MayShare, Stale
    <3>4. inode[j].pos = None /\ j # op.ino /\ Stale(z) => Stale(z)'
      <4>1. CASE z = op.y
        BY <2>3, <3>1, <4>1
      <4>2. CASE z # op.y
        BY <2>1, <3>1, <4>2 DEF Stale, On, Live, Clean
      <4> QED
        BY <4>1, <4>2
    <3> QED
      BY <2>1, <3>1, <3>3, <3>4 DEF MayShare
  <2>5. ASSUME NEW z \in Pos, NEW w \in Pos, Same(z, w)' PROVE Renamed(z, w)'
    BY <1>1, <2>1, <2>5 DEF Used
  <2> QED
    BY <1>2, <2>4, <2>5
<1>19. CASE UndoAttach
  <2>1. /\ Renaming /\ ~Renaming' /\ SameInodes /\ UNCHANGED <<flush, dirsync>> /\ op' = NoOp /\ op.pc = "undone"
        /\ MovesDir /\ dirsync /\ inode[op.ino].pos = None /\ inode'[op.ino].pos = op.x
        /\ \A j \in Inodes : j \notin {op.ino, op.tgt} => inode'[j] = inode[j]
        /\ \/ /\ op.tgt \in Inodes /\ inode'[op.tgt].pos = op.y /\ SameSlots
              /\ \A w \in Pos : Used(w) => entry'[w].data = IF w = op.y THEN inode[op.tgt].data ELSE entry[w].data
           \/ /\ op.tgt = None
              /\ entry'[op.y] = Deleted /\ \A w \in Pos : w # op.y => entry'[w] = entry[w]
    BY <1>19, UndoAttachEffects
  <2>2. entry[op.x].data = inode[op.ino].data
    BY <2>1 DEF DirsClean, MovesDir
  <2>3. None \notin Inodes /\ None \notin Pos
    BY HashFacts
  <2>4. ASSUME NEW z \in Pos, Used(z)'
        PROVE  /\ Used(z) /\ (z = op.y => op.tgt \in Inodes /\ Live(op.tgt) /\ entry'[z].data = inode[op.tgt].data)
               /\ z # op.y => entry'[z].data = entry[z].data
    <3>1. CASE op.tgt = None
      BY <1>12, <2>1, <2>3, <2>4, <3>1 DEF Used
    <3>2. CASE op.tgt # None
      BY <1>12, <2>1, <2>3, <2>4, <3>2 DEF SameSlots
    <3> QED
      BY <3>1, <3>2
  <2>5. ASSUME NEW j \in Inodes, NEW z \in Pos, Shares(j, z)' PROVE MayShare(j, z)'
    <3>1. Used(z) /\ Live(j) /\ inode'[j].data = inode[j].data
      BY <2>1, <2>4, <2>5 DEF SameInodes, Live
    <3>2. CASE z = op.x
      <4>1. j = op.ino
        BY <1>3, <1>12, <2>1, <2>2, <2>4, <2>5, <3>1, <3>2
      <4> QED
        BY <2>1, <3>2, <4>1 DEF MayShare
    <3>3. CASE z = op.y
      <4>1. j = op.tgt /\ op.tgt \in Inodes
        BY <1>3, <2>4, <2>5, <3>1, <3>3
      <4> QED
        BY <2>1, <2>3, <3>3, <4>1 DEF MayShare
    <3>4. CASE z \notin {op.x, op.y}
      <4>1. MayShare(j, z)
        BY <1>1, <2>4, <2>5, <3>1, <3>4
      <4>2. j \notin {op.ino, op.tgt} /\ (inode[j].pos = z \/ (inode[j].pos = None /\ \E k \in Inodes : On(k, z) /\ ~Clean(k)))
        BY <1>12, <2>1, <2>3, <3>4, <4>1 DEF MayShare, Stale
      <4>3. \A k \in Inodes : On(k, z) /\ ~Clean(k) => On(k, z)' /\ ~Clean(k)'
        <5>1. ASSUME NEW k \in Inodes, On(k, z), ~Clean(k) PROVE On(k, z)' /\ ~Clean(k)'
          <6>1. k \notin {op.ino, op.tgt}
            BY <1>12, <2>1, <2>3, <5>1 DEF On
          <6> QED
            BY <2>1, <5>1, <6>1 DEF On, Live, Clean
        <5> QED
          BY <5>1
      <4> QED
        BY <2>1, <4>2, <4>3 DEF MayShare, Stale
    <3> QED
      BY <3>2, <3>3, <3>4
  <2>6. ASSUME NEW w \in Pos, Used(w), w # op.y, op.tgt \in Inodes, entry[w].data = inode[op.tgt].data
        PROVE  entry[w].data = Empty
    <3>1. SUFFICES ASSUME entry[w].data # Empty PROVE FALSE
      OBVIOUS
    <3>2. op.tgt # None /\ op.tgt # op.ino /\ Live(op.tgt) /\ inode[op.tgt].pos = None
      BY <1>12, <2>1, <2>3, <2>6
    <3>3. MayShare(op.tgt, w)
      BY <1>1, <2>6, <3>1, <3>2
    <3> QED
      BY <2>1, <2>3, <2>6, <3>2, <3>3 DEF MayShare
  <2>7. ASSUME NEW z \in Pos, NEW w \in Pos, Same(z, w)' PROVE Renamed(z, w)'
    <3>1. Used(z) /\ Used(w)
      BY <2>4, <2>7
    <3>2. z # op.y
      BY <2>4, <2>6, <2>7, <3>1
    <3>3. w # op.y
      BY <2>4, <2>6, <2>7, <3>1
    <3>4. Same(z, w)
      BY <2>4, <2>7, <3>1, <3>2, <3>3
    <3> QED
      BY <1>1, <2>7, <3>2, <3>3, <3>4
  <2> QED
    BY <1>2, <2>5, <2>7
<1>20. ASSUME NEW i \in Inodes, WriteData(i) PROVE EntriesUnshared'
  <2>1. /\ ~Busy /\ UNCHANGED <<entry, op, flush>>
        /\ inode'[i].st = inode[i].st /\ inode'[i].pos = inode[i].pos /\ inode'[i].dirty
        /\ (inode'[i].data = Empty \/ inode'[i].data \in Fresh)
        /\ \A j \in Inodes : j # i => inode'[j] = inode[j]
    BY <1>20, WriteDataEffects
  <2>2. ~Renaming /\ op.pc # "undone"
    BY <1>0, <2>1, IdleOp DEF Structure
  <2>3. ~Renaming' /\ op'.pc # "undone"
    BY <2>1, <2>2 DEF Renaming
  <2>4. ASSUME NEW j \in Inodes, NEW z \in Pos, Shares(j, z)' PROVE MayShare(j, z)'
    <3>1. Used(z) /\ j # i
      BY <2>1, <2>4 DEF Fresh, Used
    <3>2. Shares(j, z)
      BY <2>1, <2>4, <3>1 DEF Used, Live
    <3>3. inode[j].pos = z \/ (inode[j].pos = None /\ \E k \in Inodes : On(k, z) /\ ~Clean(k))
      BY <1>1, <2>2, <3>2 DEF MayShare, Stale
    <3>4. \A k \in Inodes : On(k, z) /\ ~Clean(k) => On(k, z)' /\ ~Clean(k)'
      BY <2>1 DEF On, Live, Clean
    <3> QED
      BY <2>1, <2>3, <3>1, <3>3, <3>4 DEF MayShare, Stale
  <2>5. ASSUME NEW z \in Pos, NEW w \in Pos, Same(z, w)' PROVE Renamed(z, w)'
    BY <1>1, <2>1, <2>2, <2>5 DEF Used
  <2> QED
    BY <1>2, <2>4, <2>5
<1>21. ASSUME UNCHANGED op,
              \A i \in Inodes : Live(i)' => Live(i) /\ inode'[i].pos = inode[i].pos /\ inode'[i].data = inode[i].data,
              \A i \in Inodes : Live(i) /\ inode[i].pos # None /\ ~Clean(i) => Live(i)' /\ ~Clean(i)'
       PROVE  \A j \in Inodes, z \in Pos : Live(j)' /\ MayShare(j, z) => MayShare(j, z)'
  <2>1. \A z \in Pos : Stale(z) => Stale(z)'
    BY <1>21, HashFacts DEF Stale, On, Renaming
  <2> QED
    BY <1>21, <2>1 DEF MayShare, Renaming
<1>22. ASSUME UNCHANGED <<entry, op>>,
              \A i \in Inodes : Live(i)' => Live(i) /\ inode'[i].pos = inode[i].pos /\ inode'[i].data = inode[i].data,
              \A i \in Inodes : Live(i) /\ inode[i].pos # None /\ ~Clean(i) => Live(i)' /\ ~Clean(i)'
       PROVE  EntriesUnshared'
  <2>1. \A j \in Inodes, z \in Pos : Live(j)' /\ MayShare(j, z) => MayShare(j, z)'
    BY <1>21, <1>22
  <2>2. /\ \A j \in Inodes, z \in Pos : Shares(j, z)' => Shares(j, z)
        /\ \A z, w \in Pos : Same(z, w)' => Same(z, w)
    BY <1>22 DEF Used
  <2> QED
    BY <1>1, <1>2, <1>22, <2>1, <2>2 DEF Renaming
<1>23. ASSUME NEW i \in Inodes, FlushBegin(i) PROVE EntriesUnshared'
  BY <1>22, <1>23, FlushBeginEffects, HashFacts DEF SameInodes, Live, Clean
<1>24. CASE FlushPos
  BY <1>22, <1>24, FlushPosEffects, HashFacts DEF Live, Clean
<1>25. CASE (\E nm \in Name : DropDentry(nm)) \/ UNCHANGED vars
  BY <1>22, <1>25, DropEffects DEF Live, Clean
<1>26. ASSUME NEW i \in Inodes, EvictBegin(i) \/ EvictEnd(i) PROVE EntriesUnshared'
  <2>1. /\ UNCHANGED <<entry, op, flush>> /\ ~Live(i)' /\ flush.ino # i
        /\ \A j \in Inodes : j # i => inode'[j] = inode[j]
        /\ Live(i) => (~inode[i].dirty \/ inode[i].pos = None)
    BY <1>26, EvictEffects
  <2> QED
    BY <1>22, <2>1 DEF Live, Clean
<1>27. CASE FlushWrite
  <2> DEFINE f == flush.ino
             p == inode[f].pos
  <2>1. UNCHANGED <<inode, op>> /\ f \in Inodes /\ Live(f)
    BY <1>27, FlushWriteEffects
  <2>2. CASE UNCHANGED flush.ino /\ UNCHANGED entry
    BY <1>22, <2>1, <2>2 DEF Live, Clean
  <2>3. CASE p \in Pos /\ entry[p] = Deleted /\ UNCHANGED entry
    <3>1. ASSUME NEW j \in Inodes, NEW z \in Pos, Shares(j, z)' PROVE MayShare(j, z)'
      <4>1. Shares(j, z) /\ z # p
        BY <2>1, <2>3, <3>1 DEF Used, Live
      <4>2. \A k \in Inodes : On(k, z) /\ ~Clean(k) => On(k, z)' /\ ~Clean(k)'
        BY <1>27, <2>1, <4>1, FlushWriteEffects, HashFacts DEF On, Live, Clean
      <4>3. Stale(z) => Stale(z)'
        BY <2>1, <4>2 DEF Stale, Renaming
      <4> QED
        BY <1>1, <2>1, <4>1, <4>3 DEF MayShare, Renaming
    <3>2. ASSUME NEW z \in Pos, NEW w \in Pos, Same(z, w)' PROVE Renamed(z, w)'
      BY <1>1, <2>1, <2>3, <3>2 DEF Used, Renaming
    <3> QED
      BY <1>2, <3>1, <3>2
  <2>4. CASE /\ p \in Pos /\ Used(p) /\ SameSlots
             /\ \A w \in Pos : Used(w) => entry'[w].data = IF w = p THEN inode[f].data ELSE entry[w].data
    <3>1. ASSUME NEW j \in Inodes, NEW z \in Pos, Shares(j, z)' PROVE MayShare(j, z)'
      <4>1. Live(j) /\ Used(z) /\ inode'[j] = inode[j]
        BY <2>1, <2>4, <3>1 DEF SameSlots, Live
      <4>2. CASE z = p
        <5>1. j = f
          BY <1>3, <2>1, <2>4, <3>1, <4>1, <4>2
        <5> QED
          BY <2>1, <4>2, <5>1 DEF MayShare
      <4>3. CASE z # p
        <5>1. Shares(j, z)
          BY <2>1, <2>4, <3>1, <4>1, <4>3
        <5>2. \A k \in Inodes : On(k, z) /\ ~Clean(k) => On(k, z)' /\ ~Clean(k)'
          BY <1>27, <2>1, <4>3, FlushWriteEffects, HashFacts DEF On, Live, Clean
        <5>3. Stale(z) => Stale(z)'
          BY <2>1, <5>2 DEF Stale, Renaming
        <5> QED
          BY <1>1, <2>1, <5>1, <5>3 DEF MayShare, Renaming
      <4> QED
        BY <4>2, <4>3
    <3>2. ASSUME NEW w \in Pos, Used(w), w # p, entry[w].data = inode[f].data, entry[w].data # Empty
          PROVE  Renamed(p, w)
      <4>1. MayShare(f, w)
        BY <1>1, <2>1, <3>2
      <4>2. Renaming /\ f = op.ino /\ w = op.x /\ op.pc # "undone"
        BY <1>12, <2>1, <2>4, <3>2, <4>1, HashFacts DEF MayShare, Renaming, Structure, Stages, RenameStage
      <4>3. p \in {op.x, op.y}
        BY <2>4, <4>2, HashFacts DEF Structure, Stages, RenameStage
      <4> QED
        BY <4>2, <4>3
    <3>3. ASSUME NEW z \in Pos, NEW w \in Pos, Same(z, w)' PROVE Renamed(z, w)'
      <4>1. Used(z) /\ Used(w)
        BY <2>4, <3>3 DEF SameSlots
      <4>2. CASE z = p
        BY <2>1, <2>4, <3>2, <3>3, <4>1, <4>2 DEF Renaming
      <4>3. CASE w = p
        BY <2>1, <2>4, <3>2, <3>3, <4>1, <4>3 DEF Renaming
      <4>4. CASE z # p /\ w # p
        BY <1>1, <2>1, <2>4, <3>3, <4>1, <4>4 DEF Renaming
      <4> QED
        BY <4>2, <4>3, <4>4
    <3> QED
      BY <1>2, <3>1, <3>3
  <2> QED
    BY <1>27, <2>2, <2>3, <2>4, FlushWriteEffects
<1> QED
  BY <1>5, <1>6, <1>7, <1>8, <1>9, <1>10, <1>11, <1>14, <1>15, <1>16, <1>17, <1>18, <1>19, <1>20,
     <1>23, <1>24, <1>25, <1>26, <1>27 DEF Next

(* ".." of every directory follows its entry; during a rename of a directory   *)
(* it names the old parent or the new one, as the stage says.                  *)
LEMMA DotsStep ==
  ASSUME Structure, Structure', NoUndo, WrittenRight, InodesUnshared, EntriesUnshared, DotsRight,
         "sync" \notin Failing, "remove" \notin Failing, [Next]_vars
  PROVE  DotsRight'
<1>0. TypeOK /\ TreeRight /\ dotdot \in [Tags -> Dirs \cup {None}] /\ None \notin Inodes /\ None \notin Pos
  BY StructureTree, HashFacts DEF TypeOK
<1> DEFINE Di(i) == /\ Live(i) /\ inode[i].dir /\ inode[i].pos # None /\ inode[i].data \in Tags
                    /\ ~(Renaming /\ i \in {op.ino, op.tgt})
           Dz(z) == /\ Used(z) /\ entry[z].dir /\ entry[z].data \in Tags
                    /\ Vacant(z) /\ ~(Renaming /\ z \in {op.x, op.y})
           Dr    == Renaming /\ inode[op.ino].dir =>
                      /\ inode[op.ino].data \in Tags => dotdot[inode[op.ino].data] =
                              IF op.pc \in {"old", "corrupt"} THEN op.to[1] ELSE op.nm[1]
                      /\ op.tgt # None /\ inode[op.tgt].data \in Tags => dotdot[inode[op.tgt].data] = op.to[1]
<1>1. /\ \A i \in Inodes : Di(i) => dotdot[inode[i].data] = DirOf[inode[i].pos]
      /\ \A z \in Pos : Dz(z) => dotdot[entry[z].data] = DirOf[z]
      /\ Dr
  BY DEF DotsRight
<1>2. ASSUME \A i \in Inodes : Di(i)' => dotdot'[inode'[i].data] = DirOf[inode'[i].pos],
             \A z \in Pos : Dz(z)' => dotdot'[entry'[z].data] = DirOf[z],
             Dr'
      PROVE  DotsRight'
  BY <1>2 DEF DotsRight
<1>3. \A i, j \in Inodes : Live(i) /\ Live(j) /\ i # j /\ inode[i].data = inode[j].data => inode[i].data \notin Tags
  BY ValuesAssumption DEF InodesUnshared
<1>4. ASSUME Renaming
      PROVE  /\ op.ino \in Inodes /\ op.tgt \in Inodes \cup {None} /\ op.tgt # op.ino /\ Live(op.ino)
             /\ (op.tgt # None => inode[op.tgt].pos = None /\ Live(op.tgt) /\ inode[op.tgt].dir = inode[op.ino].dir)
             /\ op.x \in Pos /\ op.y \in Pos /\ op.x # op.y /\ Used(op.x) /\ Used(op.y) /\ ~Unlinking
             /\ DirOf[op.x] = op.nm[1] /\ DirOf[op.y] = op.to[1]
             /\ \A i \in Inodes : Live(i) /\ inode[i].pos \in {op.x, op.y} => i = op.ino
  BY <1>0, <1>4, RenameFacts
<1>5. ASSUME ~Renaming, ~Renaming', UNCHANGED <<inode, dotdot>>,
             \A z \in Pos : Used(z)' => ~entry'[z].dir \/ (Used(z) /\ entry'[z] = entry[z])
      PROVE  DotsRight'
  BY <1>1, <1>2, <1>5 DEF Used, Vacant, On, Live
<1>6. CASE \E nm \in Name : Lookup(nm) \/ Create(nm) \/ Mkdir(nm)
  <2>1. CASE UNCHANGED dotdot /\ \A z \in Pos : Used(z)' => ~entry'[z].dir \/ (Used(z) /\ entry'[z] = entry[z])
    <3>1. ~Renaming /\ ~Renaming' /\ UNCHANGED inode
      BY <1>6, FindEffects
    <3> QED
      BY <1>5, <2>1, <3>1
  <2>2. CASE \E x \in Pos : /\ entry[x] = Deleted /\ \A w \in Pos : w # x => entry'[w] = entry[w]
                            /\ entry'[x].data \in Fresh
                            /\ dotdot' = [dotdot EXCEPT ![entry'[x].data] = DirOf[x]]
    <3>1. PICK x \in Pos, t \in Fresh :
            /\ entry[x] = Deleted /\ entry'[x].data = t
            /\ \A w \in Pos : w # x => entry'[w] = entry[w]
            /\ dotdot' = [dotdot EXCEPT ![t] = DirOf[x]]
      BY <2>2
    <3>2. /\ t \in Tags /\ \A j \in Inodes : inode[j].data # t
          /\ \A w \in Pos : Used(w) => entry[w].data # t
      BY DEF Fresh, Used
    <3>3. dotdot'[t] = DirOf[x] /\ \A s \in Tags : s # t => dotdot'[s] = dotdot[s]
      BY <1>0, <3>1, <3>2
    <3>4. ~Renaming /\ ~Renaming' /\ UNCHANGED inode
      BY <1>6, FindEffects
    <3>5. ASSUME NEW i \in Inodes, Di(i)' PROVE dotdot'[inode'[i].data] = DirOf[inode'[i].pos]
      BY <1>1, <3>2, <3>3, <3>4, <3>5 DEF Live
    <3>6. ASSUME NEW z \in Pos, Dz(z)' PROVE dotdot'[entry'[z].data] = DirOf[z]
      BY <1>1, <3>1, <3>2, <3>3, <3>4, <3>6 DEF Used, Vacant, On, Live
    <3> QED
      BY <1>2, <3>4, <3>5, <3>6
  <2> QED
    BY <1>6, <2>1, <2>2, FindEffects DEF Used
<1>7. CASE \E nm \in Name : Unlink(nm)
  <2>1. /\ UNCHANGED <<inode, dotdot>> /\ ~Renaming /\ ~Renaming'
        /\ \A w \in Pos : Used(w)' => Used(w) /\ entry'[w] = entry[w]
    BY <1>7, UnlinkEffects DEF Used
  <2> QED
    BY <1>5, <2>1
<1>8. CASE UnlinkDone
  <2> DEFINE i == op.ino
  <2>1. /\ Unlinking /\ ~Renaming' /\ ~Renaming /\ UNCHANGED <<entry, dotdot>> /\ SameInodes
        /\ inode'[i].pos = None /\ \A j \in Inodes : j # i => inode'[j].pos = inode[j].pos
    BY <1>8, UnlinkDoneEffects
  <2>2. entry[op.x] = Deleted /\ inode[i].pos = op.x /\ i \in Inodes
    BY <1>0, <2>1, UnlinkFacts
  <2>3. ASSUME NEW j \in Inodes, Di(j)' PROVE dotdot'[inode'[j].data] = DirOf[inode'[j].pos]
    BY <1>1, <2>1, <2>3 DEF Live, SameInodes
  <2>4. ASSUME NEW z \in Pos, Dz(z)' PROVE dotdot'[entry'[z].data] = DirOf[z]
    <3>1. Used(z) /\ z # op.x
      BY <2>1, <2>2, <2>4 DEF Used
    <3>2. Vacant(z)
      BY <2>1, <2>2, <2>4, <3>1 DEF Vacant, On, Live, SameInodes
    <3> QED
      BY <1>1, <2>1, <2>4, <3>1, <3>2
  <2> QED
    BY <1>2, <2>1, <2>3, <2>4
<1>9. CASE \E nm, to \in Name : RenameOver(nm, to) \/ RenameNew(nm, to)
  <2>1. /\ Renaming' /\ ~Renaming /\ UNCHANGED dotdot /\ SameInodes /\ op'.pc = "detach"
        /\ op'.x \in Pos /\ op'.ino \in Inodes /\ On(op'.ino, op'.x)
        /\ \A j \in Inodes : j # op'.tgt => inode'[j].pos = inode[j].pos
        /\ op'.y \in Pos /\ op'.y # op'.x
        /\ \/ /\ op'.tgt \in Inodes /\ op'.tgt # op'.ino /\ On(op'.tgt, op'.y) /\ inode'[op'.tgt].pos = None
              /\ UNCHANGED entry
           \/ /\ op'.tgt = None /\ UNCHANGED inode
              /\ \A w \in Pos : w # op'.y => entry'[w] = entry[w]
    BY <1>9, RenameBeginEffects
  <2>2. /\ DirOf[op'.x] = op'.nm[1] /\ DirOf[op'.y] = op'.to[1]
        /\ op'.tgt # None => inode'[op'.tgt].dir = inode'[op'.ino].dir
    <3>1. RenameStage'
      BY DEF Structure, Stages
    <3>2. /\ op'.x \in Pos /\ DirOf[op'.x] = op'.nm[1]
          /\ op'.y \in Pos /\ DirOf[op'.y] = op'.to[1]
      BY <2>1, <3>1 DEF RenameStage, Slots
    <3> QED
      BY <2>1, <3>1, <3>2 DEF RenameStage
  <2>3. ASSUME NEW j \in Inodes, Di(j)' PROVE dotdot'[inode'[j].data] = DirOf[inode'[j].pos]
    BY <1>1, <2>1, <2>3 DEF Live, SameInodes
  <2>4. ASSUME NEW z \in Pos, Dz(z)' PROVE dotdot'[entry'[z].data] = DirOf[z]
    <3>1. z \notin {op'.x, op'.y} /\ entry'[z] = entry[z] /\ Used(z)
      BY <2>1, <2>4 DEF Used
    <3>2. Vacant(z)
      BY <2>1, <2>4, <3>1 DEF Vacant, On, Live, SameInodes
    <3> QED
      BY <1>1, <2>1, <2>4, <3>1, <3>2
  <2>5. Dr'
    <3>1. ASSUME inode'[op'.ino].dir, inode'[op'.ino].data \in Tags
          PROVE  dotdot'[inode'[op'.ino].data] = op'.nm[1]
      BY <1>0, <1>1, <2>1, <2>2, <3>1 DEF On, SameInodes
    <3>2. ASSUME inode'[op'.ino].dir, op'.tgt # None, inode'[op'.tgt].data \in Tags
          PROVE  dotdot'[inode'[op'.tgt].data] = op'.to[1]
      <4>1. PICK i \in Inodes, y \in Pos : i = op'.tgt /\ y = op'.y
        BY <2>1, <3>2
      <4>2. On(i, y) /\ inode[i].dir /\ inode[i].data \in Tags /\ inode'[i].data = inode[i].data
        BY <2>1, <2>2, <3>2, <4>1 DEF SameInodes
      <4>3. dotdot[inode[i].data] = DirOf[y]
        BY <1>0, <1>1, <2>1, <4>2 DEF On
      <4> QED
        BY <2>1, <2>2, <4>1, <4>2, <4>3
    <3> QED
      BY <2>1, <3>1, <3>2
  <2> QED
    BY <1>2, <2>3, <2>4, <2>5
<1>10. CASE Iget \/ BuildFails
  <2>1. UNCHANGED <<entry, inode, dotdot>> /\ ~Renaming /\ ~Renaming'
    BY <1>10, LooksUpEffects
  <2> QED
    BY <1>5, <2>1 DEF Used
<1>11. CASE Fill
  <2> DEFINE x == op.x
  <2>1. /\ ~Renaming /\ ~Renaming' /\ UNCHANGED <<entry, dotdot>>
        /\ x \in Pos /\ Used(x) /\ Vacant(x)
    BY <1>11, FillEffects
  <2>2. PICK i \in Inodes :
          /\ ~Live(i) /\ inode'[i].pos = x /\ inode'[i].data = entry[x].data /\ inode'[i].dir = entry[x].dir
          /\ \A j \in Inodes : j # i => inode'[j] = inode[j]
    BY <1>11, FillEffects
  <2>3. ASSUME NEW j \in Inodes, Di(j)' PROVE dotdot'[inode'[j].data] = DirOf[inode'[j].pos]
    BY <1>1, <2>1, <2>2, <2>3 DEF Live
  <2>4. ASSUME NEW z \in Pos, Dz(z)' PROVE dotdot'[entry'[z].data] = DirOf[z]
    BY <1>1, <2>1, <2>2, <2>4 DEF Live, Vacant, On, Used
  <2> QED
    BY <1>2, <2>1, <2>3, <2>4
<1>12. ASSUME Renaming, Renaming', op'.ino = op.ino, op'.tgt = op.tgt, op'.x = op.x, op'.y = op.y, SameInodes,
              \A i \in Inodes : i # op.ino => inode'[i].pos = inode[i].pos,
              inode[op.ino].pos \in {op.x, op.y, None}, inode'[op.ino].pos \in {op.x, op.y, None},
              \A w \in Pos : (Used(w)' <=> Used(w)) /\ (Used(w) => entry'[w].dir = entry[w].dir),
              \A w \in Pos : Used(w) /\ w \notin {op.x, op.y} => entry'[w].data = entry[w].data,
              \A t \in Tags : dotdot'[t] = dotdot[t] \/ (t = inode[op.ino].data /\ inode[op.ino].dir), Dr'
       PROVE  DotsRight'
  <2>1. ASSUME NEW i \in Inodes, Di(i)' PROVE dotdot'[inode'[i].data] = DirOf[inode'[i].pos]
    <3>1. Di(i) /\ i # op.ino /\ inode'[i].pos = inode[i].pos /\ inode'[i].data = inode[i].data
      BY <1>12, <2>1 DEF SameInodes, Live
    <3>2. inode[i].data # inode[op.ino].data
      BY <1>3, <1>4, <1>12, <3>1
    <3> QED
      BY <1>1, <1>12, <3>1, <3>2
  <2>2. ASSUME NEW z \in Pos, Dz(z)' PROVE dotdot'[entry'[z].data] = DirOf[z]
    <3>1. Used(z) /\ z \notin {op.x, op.y} /\ entry'[z].data = entry[z].data /\ entry[z].dir /\ entry[z].data \in Tags
      BY <1>12, <2>2
    <3>2. Vacant(z)
      <4>1. ASSUME NEW i \in Inodes, On(i, z) PROVE FALSE
        <5>1. i # op.ino
          BY <1>0, <1>12, <3>1, <4>1 DEF On
        <5> QED
          BY <1>12, <2>2, <4>1, <5>1 DEF Vacant, On, Live, SameInodes
      <4> QED
        BY <4>1 DEF Vacant
    <3>3. entry[z].data # inode[op.ino].data
      <4>1. ASSUME entry[z].data = inode[op.ino].data PROVE FALSE
        <5>1. MayShare(op.ino, z)
          BY <1>4, <1>12, <3>1, <4>1, ValuesAssumption DEF EntriesUnshared
        <5> QED
          BY <1>0, <1>4, <1>12, <3>1, <5>1 DEF MayShare
      <4> QED
        BY <4>1
    <3> QED
      BY <1>1, <1>12, <3>1, <3>2, <3>3
  <2> QED
    BY <1>2, <1>12, <2>1, <2>2
<1>13. CASE RenameDetach
  <2>1. /\ Renaming /\ Renaming' /\ UNCHANGED <<entry, dotdot>> /\ SameInodes /\ op.pc = "detach" /\ op'.pc = "attach"
        /\ op'.ino = op.ino /\ op'.tgt = op.tgt /\ op'.x = op.x /\ op'.y = op.y /\ op'.nm = op.nm /\ op'.to = op.to
        /\ inode[op.ino].pos = op.x /\ inode'[op.ino].pos = None
        /\ \A j \in Inodes : j # op.ino => inode'[j].pos = inode[j].pos
    BY <1>13, RenameDetachEffects
  <2>2. Dr'
    BY <1>1, <1>4, <2>1 DEF SameInodes
  <2> QED
    BY <1>12, <2>1, <2>2 DEF Used
<1>14. CASE RenameAttach
  <2>1. /\ Renaming /\ Renaming' /\ UNCHANGED <<entry, dotdot>> /\ SameInodes /\ op.pc = "attach"
        /\ op'.pc \in {"sync", "dotdot", "old"} /\ (op'.pc = "old" => ~MovesDir)
        /\ op'.ino = op.ino /\ op'.tgt = op.tgt /\ op'.x = op.x /\ op'.y = op.y /\ op'.nm = op.nm /\ op'.to = op.to
        /\ inode[op.ino].pos = None /\ inode'[op.ino].pos = op.y
        /\ \A j \in Inodes : j # op.ino => inode'[j].pos = inode[j].pos
    BY <1>14, RenameAttachEffects
  <2>2. Dr'
    BY <1>1, <1>4, <2>1 DEF SameInodes, MovesDir
  <2> QED
    BY <1>12, <2>1, <2>2 DEF Used
<1>15. CASE RenameSync
  <2>1. /\ Renaming /\ Renaming' /\ UNCHANGED <<inode, dotdot>> /\ op.pc = "sync"
        /\ op'.pc \in {"dotdot", "old"} /\ (op'.pc = "old" => ~MovesDir)
        /\ op'.ino = op.ino /\ op'.tgt = op.tgt /\ op'.x = op.x /\ op'.y = op.y /\ op'.nm = op.nm /\ op'.to = op.to
        /\ inode[op.ino].pos = op.y /\ SameSlots
        /\ \A w \in Pos : Used(w) => entry'[w].data = IF w = op.y THEN inode[op.ino].data ELSE entry[w].data
    BY <1>15, RenameSyncEffects
  <2>2. Dr'
    BY <1>1, <1>4, <2>1 DEF MovesDir
  <2> QED
    BY <1>12, <2>1, <2>2 DEF SameSlots, SameInodes
<1>16. CASE RenameDotdot
  <2>1. /\ Renaming /\ Renaming' /\ UNCHANGED <<inode, entry>> /\ MovesDir /\ op'.pc \in {"corrupt", "old"}
        /\ op'.ino = op.ino /\ op'.tgt = op.tgt /\ op'.x = op.x /\ op'.y = op.y /\ op'.nm = op.nm /\ op'.to = op.to
        /\ inode[op.ino].pos = op.y
        /\ dotdot' = [dotdot EXCEPT ![inode[op.ino].data] = op.to[1]]
    BY <1>16, RenameDotdotEffects
  <2>2. /\ \A t \in Tags : dotdot'[t] = IF t = inode[op.ino].data THEN op.to[1] ELSE dotdot[t]
    BY <1>0, <2>1
  <2>3. op.tgt # None /\ inode[op.tgt].data \in Tags => inode[op.tgt].data # inode[op.ino].data
    BY <1>0, <1>3, <1>4, <2>1
  <2>4. Dr'
    BY <1>1, <1>4, <2>1, <2>2, <2>3
  <2> QED
    BY <1>12, <2>1, <2>2, <2>4 DEF Used, SameInodes, MovesDir
<1>17. CASE UndoDetach
  <2>1. /\ Renaming /\ Renaming' /\ UNCHANGED entry /\ MovesDir /\ op'.pc = "undone" /\ SameInodes
        /\ op'.ino = op.ino /\ op'.tgt = op.tgt /\ op'.x = op.x /\ op'.y = op.y /\ op'.nm = op.nm /\ op'.to = op.to
        /\ inode[op.ino].pos = op.y /\ inode'[op.ino].pos = None
        /\ \A j \in Inodes : j # op.ino => inode'[j].pos = inode[j].pos
        /\ dotdot' = [dotdot EXCEPT ![inode[op.ino].data] = op.nm[1]]
    BY <1>17, UndoDetachEffects
  <2>2. /\ \A t \in Tags : dotdot'[t] = IF t = inode[op.ino].data THEN op.nm[1] ELSE dotdot[t]
    BY <1>0, <2>1
  <2>3. op.tgt # None /\ inode[op.tgt].data \in Tags => inode[op.tgt].data # inode[op.ino].data
    BY <1>0, <1>3, <1>4, <2>1
  <2>4. Dr'
    BY <1>1, <1>4, <2>1, <2>2, <2>3 DEF SameInodes
  <2> QED
    BY <1>12, <2>1, <2>2, <2>4 DEF Used, MovesDir
<1>18. CASE RenameRemove
  <2>1. /\ Renaming /\ ~Renaming' /\ UNCHANGED <<inode, dotdot>> /\ op.pc = "old"
        /\ inode[op.ino].pos = op.y
        /\ entry'[op.x] = Deleted /\ \A w \in Pos : w # op.x => entry'[w] = entry[w]
    BY <1>18, RenameRemoveEffects
  <2>2. ASSUME NEW i \in Inodes, Di(i)' PROVE dotdot'[inode'[i].data] = DirOf[inode'[i].pos]
    BY <1>0, <1>1, <1>4, <2>1, <2>2 DEF Live
  <2>3. ASSUME NEW z \in Pos, Dz(z)' PROVE dotdot'[entry'[z].data] = DirOf[z]
    BY <1>1, <1>4, <2>1, <2>3 DEF Live, Vacant, On, Used
  <2> QED
    BY <1>2, <2>1, <2>2, <2>3
<1>19. CASE UndoAttach
  <2>1. /\ Renaming /\ ~Renaming' /\ SameInodes /\ UNCHANGED dotdot /\ MovesDir /\ op.pc = "undone"
        /\ inode[op.ino].pos = None /\ inode'[op.ino].pos = op.x
        /\ \A j \in Inodes : j \notin {op.ino, op.tgt} => inode'[j] = inode[j]
        /\ \/ /\ op.tgt \in Inodes /\ inode'[op.tgt].pos = op.y /\ SameSlots
              /\ \A w \in Pos : Used(w) => entry'[w].data = IF w = op.y THEN inode[op.tgt].data ELSE entry[w].data
           \/ /\ op.tgt = None
              /\ entry'[op.y] = Deleted /\ \A w \in Pos : w # op.y => entry'[w] = entry[w]
    BY <1>19, UndoAttachEffects
  <2>2. ASSUME NEW i \in Inodes, Di(i)' PROVE dotdot'[inode'[i].data] = DirOf[inode'[i].pos]
    BY <1>0, <1>1, <1>4, <2>1, <2>2 DEF Live, SameInodes, MovesDir
  <2>3. ASSUME NEW z \in Pos, Dz(z)' PROVE dotdot'[entry'[z].data] = DirOf[z]
    <3>1. Vacant(z)' /\ Used(z)'
      BY <2>3
    <3>2. z # op.x
      BY <1>4, <2>1, <3>1 DEF Vacant, On, Live, SameInodes
    <3>3. z # op.y
      BY <1>0, <1>4, <2>1, <3>1 DEF Vacant, On, Live, SameInodes, Used
    <3>4. Used(z) /\ entry'[z].data = entry[z].data /\ entry'[z].dir = entry[z].dir
      BY <2>1, <3>1, <3>3 DEF SameSlots, Used
    <3>5. Vacant(z)
      <4>1. ASSUME NEW i \in Inodes, On(i, z) PROVE FALSE
        <5>1. i \notin {op.ino, op.tgt}
          BY <1>0, <1>4, <2>1, <4>1 DEF On
        <5> QED
          BY <2>1, <3>1, <4>1, <5>1 DEF Vacant, On, Live
      <4> QED
        BY <4>1 DEF Vacant
    <3> QED
      BY <1>1, <2>1, <2>3, <3>2, <3>3, <3>4, <3>5
  <2> QED
    BY <1>2, <2>1, <2>2, <2>3
<1>20. ASSUME UNCHANGED <<op, dotdot>>,
              \A i \in Inodes : Live(i)' <=> Live(i),
              \A i \in Inodes : Live(i) => inode'[i].pos = inode[i].pos /\ inode'[i].dir = inode[i].dir
                                            /\ (inode[i].dir => inode'[i].data = inode[i].data),
              \A w \in Pos : (Used(w)' <=> Used(w)) /\ (Used(w) => entry'[w].dir = entry[w].dir),
              \A w \in Pos : Used(w) /\ Vacant(w) => entry'[w].data = entry[w].data
       PROVE  DotsRight'
  <2>1. \A w \in Pos : Vacant(w)' <=> Vacant(w)
    BY <1>20 DEF Vacant, On
  <2>2. ASSUME NEW i \in Inodes, Di(i)' PROVE dotdot'[inode'[i].data] = DirOf[inode'[i].pos]
    BY <1>1, <1>20, <2>2 DEF Renaming
  <2>3. ASSUME NEW z \in Pos, Dz(z)' PROVE dotdot'[entry'[z].data] = DirOf[z]
    BY <1>1, <1>20, <2>1, <2>3 DEF Renaming
  <2>4. Dr'
    BY <1>1, <1>4, <1>20 DEF Renaming
  <2> QED
    BY <1>2, <2>2, <2>3, <2>4
<1>21. ASSUME NEW i \in Inodes, WriteData(i) PROVE DotsRight'
  <2>1. /\ ~inode[i].dir /\ UNCHANGED <<entry, dotdot, op>>
        /\ inode'[i].st = inode[i].st /\ inode'[i].dir = inode[i].dir /\ inode'[i].pos = inode[i].pos
        /\ \A j \in Inodes : j # i => inode'[j] = inode[j]
    BY <1>21, WriteDataEffects
  <2> QED
    BY <1>20, <2>1 DEF Live, Used
<1>22. ASSUME NEW i \in Inodes, FlushBegin(i) PROVE DotsRight'
  <2>1. /\ UNCHANGED <<entry, dotdot, op>> /\ SameInodes /\ \A j \in Inodes : inode'[j].pos = inode[j].pos
    BY <1>22, FlushBeginEffects
  <2> QED
    BY <1>20, <2>1 DEF Live, Used, SameInodes
<1>23. CASE FlushPos
  <2>1. UNCHANGED <<entry, dotdot, inode, op>>
    BY <1>23, FlushPosEffects
  <2> QED
    BY <1>20, <2>1 DEF Live, Used
<1>24. CASE (\E nm \in Name : DropDentry(nm)) \/ UNCHANGED vars
  <2>1. UNCHANGED <<entry, dotdot, inode, op>>
    BY <1>24, DropEffects
  <2> QED
    BY <1>20, <2>1 DEF Live, Used
<1>25. CASE FlushWrite
  <2> DEFINE f == flush.ino
             p == inode[f].pos
  <2>1. /\ UNCHANGED <<inode, dotdot, op>> /\ f \in Inodes /\ Live(f)
        /\ \/ UNCHANGED entry
           \/ /\ SameSlots
              /\ \A w \in Pos : Used(w) => entry'[w].data = IF w = p THEN inode[f].data ELSE entry[w].data
    BY <1>25, FlushWriteEffects
  <2>2. ~Vacant(p)
    BY <2>1 DEF Vacant, On
  <2> QED
    BY <1>20, <2>1, <2>2 DEF Live, Used, SameSlots
<1>26. ASSUME NEW i \in Inodes, EvictBegin(i) \/ EvictEnd(i) PROVE DotsRight'
  <2>1. /\ UNCHANGED <<entry, op, flush>> /\ ~Live(i)' /\ flush.ino # i
        /\ \A j \in Inodes : j # i => inode'[j] = inode[j]
        /\ \/ UNCHANGED dotdot
           \/ inode[i].dir /\ inode[i].pos = None /\ dotdot' = [dotdot EXCEPT ![inode[i].data] = None]
        /\ Live(i) => /\ op.ino # i /\ op.tgt # i /\ (~inode[i].dirty \/ inode[i].pos = None)
                      /\ inode[i].pos # None => UNCHANGED dotdot
        /\ ~Live(i) => UNCHANGED dotdot
    BY <1>26, EvictEffects
  <2>2. CASE ~Live(i)
    <3>1. UNCHANGED dotdot /\ \A j \in Inodes : Live(j)' <=> Live(j)
      BY <2>1, <2>2 DEF Live
    <3> QED
      BY <1>20, <2>1, <2>2, <3>1 DEF Used, Live
  <2>3. CASE Live(i)
    <3>1. \A t \in Tags : dotdot'[t] = dotdot[t] \/ (t = inode[i].data /\ inode[i].dir /\ inode[i].pos = None)
      BY <1>0, <2>1
    <3>2. ASSUME NEW j \in Inodes, Di(j)' PROVE dotdot'[inode'[j].data] = DirOf[inode'[j].pos]
      <4>1. Di(j) /\ j # i /\ inode'[j] = inode[j] /\ inode[j].data # inode[i].data
        BY <1>3, <2>1, <2>3, <3>2 DEF Live, Renaming
      <4> QED
        BY <1>1, <3>1, <4>1
    <3>3. ASSUME NEW z \in Pos, Dz(z)' PROVE dotdot'[entry'[z].data] = DirOf[z]
      <4>1. /\ Used(z) /\ entry'[z] = entry[z] /\ entry[z].dir /\ entry[z].data \in Tags
            /\ ~(Renaming /\ z \in {op.x, op.y})
        BY <2>1, <3>3 DEF Used, Renaming
      <4>2. \A j \in Inodes : j # i => ~On(j, z)
        BY <2>1, <3>3 DEF Vacant, On, Live
      <4>3. CASE On(i, z)
        <5>1. inode[i].pos = z /\ z # None /\ UNCHANGED dotdot /\ Clean(i) /\ op.ino # i /\ op.tgt # i
          BY <1>0, <2>1, <2>3, <4>3 DEF On, Clean
        <5>2. entry[z].data = inode[i].data
          BY <2>3, <5>1 DEF WrittenRight
        <5>3. entry[z].dir = inode[i].dir
          BY <2>3, <5>1, HashFacts
        <5>4. Di(i)
          BY <2>3, <4>1, <5>1, <5>2, <5>3
        <5> QED
          BY <1>1, <4>1, <5>1, <5>2, <5>4
      <4>4. CASE ~On(i, z)
        <5>1. Vacant(z)
          BY <4>2, <4>4 DEF Vacant
        <5>2. ASSUME entry[z].data = inode[i].data, inode[i].pos = None PROVE FALSE
          <6>1. MayShare(i, z)
            BY <2>3, <4>1, <5>2, ValuesAssumption DEF EntriesUnshared
          <6>2. Stale(z)
            BY <1>0, <2>1, <2>3, <5>2, <6>1 DEF MayShare
          <6> QED
            BY <4>1, <5>1, <6>2 DEF Stale, Vacant
        <5> QED
          BY <1>1, <3>1, <4>1, <5>1, <5>2
      <4> QED
        BY <4>3, <4>4
    <3>4. Dr'
      <4>1. Renaming => /\ op.ino # i /\ op.tgt # i /\ inode'[op.ino] = inode[op.ino]
                        /\ (inode[op.ino].data \in Tags => inode[op.ino].data # inode[i].data)
                        /\ (op.tgt # None => inode'[op.tgt] = inode[op.tgt])
                        /\ (op.tgt # None /\ inode[op.tgt].data \in Tags => inode[op.tgt].data # inode[i].data)
        BY <1>3, <1>4, <2>1, <2>3
      <4> QED
        BY <1>1, <2>1, <3>1, <4>1 DEF Renaming
    <3> QED
      BY <1>2, <3>2, <3>3, <3>4
  <2> QED
    BY <2>2, <2>3
<1> QED
  BY <1>6, <1>7, <1>8, <1>9, <1>10, <1>11, <1>13, <1>14, <1>15, <1>16, <1>17, <1>18, <1>19, <1>21, <1>22,
     <1>23, <1>24, <1>25, <1>26 DEF Next

-----------------------------------------------------------------------------
(* What a name is bound to.                                                    *)

(* The slot is bound to c: by its inode if it has one, else by its entry.     *)
Says(z, c) == \/ \E i \in Inodes : On(i, z) /\ inode[i].data = c
              \/ Vacant(z) /\ entry[z].data = c

(* A name is bound to what its slot says, and to nothing else.                *)
BoundRight == \A n \in Name : \A x \in Slots(n) :
                Says(x, Bound(n)) /\ \A c : Says(x, c) => Bound(n) = c

LEMMA BoundSays ==
  Structure => BoundRight
<1> SUFFICES ASSUME Structure, NEW n \in Name, NEW x \in Slots(n)
             PROVE  Says(x, Bound(n)) /\ \A c : Says(x, c) => Bound(n) = c
  BY DEF BoundRight
<1>0. NamesRight /\ OneInode
  BY StructureTree
<1>1. CASE Vacant(x)
  <2>1. Bound(n) = entry[x].data
    BY <1>0, <1>1, BoundEntry
  <2> QED
    BY <1>1, <2>1 DEF Says, Vacant
<1>2. CASE ~Vacant(x)
  <2>1. \A i \in Inodes : On(i, x) => Bound(n) = inode[i].data
    BY <1>0, BoundInode
  <2> QED
    BY <1>2, <2>1 DEF Says, Vacant
<1> QED
  BY <1>1, <1>2

LEMMA BoundSame ==
  ASSUME Structure, Structure', NEW n \in Name, Slots(n)' = Slots(n),
         \A x \in Slots(n) : \A c : Says(x, c) => Says(x, c)'
  PROVE  Bound(n)' = Bound(n)
<1>1. BoundRight /\ BoundRight'
  <2>1. Structure => BoundRight
    BY BoundSays
  <2>2. (Structure => BoundRight)'
    BY BoundSays, PTL
  <2> QED
    BY <2>1, <2>2
<1>2. CASE Slots(n) = {}
  BY <1>2 DEF Bound
<1>3. CASE Slots(n) # {}
  <2>1. PICK x \in Slots(n) : TRUE
    BY <1>3
  <2>2. Says(x, Bound(n))
    BY <1>1, <2>1 DEF BoundRight
  <2>3. \A c : Says(x, c)' => Bound(n)' = c
    BY <1>1, <2>1 DEF BoundRight
  <2> QED
    BY <2>1, <2>2, <2>3
<1> QED
  BY <1>2, <1>3

LEMMA SaysSame ==
  ASSUME NEW z \in Pos, NEW c, Says(z, c),
         \A i \in Inodes : On(i, z)' <=> On(i, z),
         \A i \in Inodes : On(i, z) => inode'[i].data = inode[i].data,
         Vacant(z) => entry'[z].data = entry[z].data
  PROVE  Says(z, c)'
BY DEF Says, Vacant

(* What a slot says changes only under the operation that works on it, or by   *)
(* a write to the file.                                                        *)
LEMMA SaysStep ==
  ASSUME Structure, Structure', NoUndo, WrittenRight, "sync" \notin Failing, "remove" \notin Failing, [Next]_vars,
         NEW z \in Pos, Used(z), Used(z)', NEW c, Says(z, c),
         Renaming => z \notin {op.x, op.y}, Renaming' => z \notin {op'.x, op'.y},
         \A i \in Inodes : WriteData(i) => ~On(i, z)
  PROVE  Says(z, c)'
<1>0. None \notin Inodes /\ None \notin Pos /\ TypeOK /\ TreeRight
  BY HashFacts, StructureTree
<1>1. ASSUME UNCHANGED <<entry, inode>> PROVE Says(z, c)'
  BY <1>1 DEF Says, Vacant, On, Live
<1>2. CASE \E nm \in Name : Lookup(nm) \/ Create(nm) \/ Mkdir(nm)
  <2>1. UNCHANGED inode /\ \A w \in Pos : Used(w) => entry'[w] = entry[w]
    BY <1>2, FindEffects DEF Used
  <2> QED
    BY <2>1 DEF Says, Vacant, On, Live
<1>3. CASE \E nm \in Name : Unlink(nm)
  <2>1. UNCHANGED inode /\ \A w \in Pos : Used(w)' => entry'[w] = entry[w]
    BY <1>3, UnlinkEffects DEF Used
  <2> QED
    BY <2>1 DEF Says, Vacant, On, Live
<1>4. CASE UnlinkDone
  <2>1. /\ UNCHANGED entry /\ SameInodes /\ Unlinking
        /\ inode'[op.ino].pos = None /\ \A j \in Inodes : j # op.ino => inode'[j].pos = inode[j].pos
    BY <1>4, UnlinkDoneEffects
  <2>2. inode[op.ino].pos # z
    BY <1>0, <2>1, UnlinkFacts DEF Used
  <2> QED
    BY <1>0, <2>1, <2>2, SaysSame DEF On, Live, SameInodes
<1>5. CASE \E nm, to \in Name : RenameOver(nm, to) \/ RenameNew(nm, to)
  <2>1. /\ Renaming' /\ SameInodes /\ op'.y \in Pos
        /\ \A j \in Inodes : j # op'.tgt => inode'[j].pos = inode[j].pos
        /\ (op'.tgt \in Inodes => On(op'.tgt, op'.y) /\ inode'[op'.tgt].pos = None)
        /\ \A w \in Pos : w # op'.y => entry'[w] = entry[w]
    BY <1>0, <1>5, RenameBeginEffects
  <2> QED
    BY <1>0, <2>1, SaysSame DEF On, Live, SameInodes
<1>6. CASE Iget \/ BuildFails
  BY <1>1, <1>6, LooksUpEffects
<1>7. CASE Fill
  <2>1. UNCHANGED entry /\ Vacant(op.x)
    BY <1>7, FillEffects
  <2>2. PICK i \in Inodes :
          /\ ~Live(i) /\ inode'[i].st = "live" /\ inode'[i].pos = op.x /\ inode'[i].data = entry[op.x].data
          /\ \A j \in Inodes : j # i => inode'[j] = inode[j]
    BY <1>7, FillEffects
  <2>3. CASE z = op.x
    <3>1. entry[z].data = c
      BY <2>1, <2>3 DEF Says, Vacant
    <3>2. On(i, z)' /\ inode'[i].data = c
      BY <2>2, <2>3, <3>1 DEF On, Live
    <3> QED
      BY <3>2 DEF Says
  <2>4. CASE z # op.x
    <3>1. \A j \in Inodes : On(j, z)' <=> On(j, z)
      BY <2>2, <2>4 DEF On, Live
    <3>2. \A j \in Inodes : On(j, z) => inode'[j].data = inode[j].data
      BY <2>2 DEF On
    <3> QED
      BY <2>1, <3>1, <3>2, SaysSame
  <2> QED
    BY <2>3, <2>4
<1>8. CASE RenameDetach \/ UndoDetach \/ RenameAttach
  <2>1. /\ Renaming /\ UNCHANGED entry /\ SameInodes
        /\ inode[op.ino].pos \in {op.x, op.y, None} /\ inode'[op.ino].pos \in {op.x, op.y, None}
        /\ \A j \in Inodes : j # op.ino => inode'[j].pos = inode[j].pos
    BY <1>8, RenameDetachEffects, UndoDetachEffects, RenameAttachEffects
  <2> QED
    BY <1>0, <2>1, SaysSame DEF On, Live, SameInodes
<1>9. CASE RenameSync
  <2>1. /\ Renaming /\ UNCHANGED inode
        /\ \A w \in Pos : Used(w) => entry'[w].data = IF w = op.y THEN inode[op.ino].data ELSE entry[w].data
    BY <1>9, RenameSyncEffects
  <2> QED
    BY <2>1, SaysSame DEF On, Live
<1>10. CASE RenameDotdot
  BY <1>1, <1>10, RenameDotdotEffects
<1>11. CASE RenameRemove
  <2>1. Renaming /\ UNCHANGED inode /\ \A w \in Pos : w # op.x => entry'[w] = entry[w]
    BY <1>11, RenameRemoveEffects
  <2> QED
    BY <2>1, SaysSame DEF On, Live
<1>12. CASE UndoAttach
  <2>1. /\ Renaming /\ SameInodes /\ inode[op.ino].pos = None /\ inode'[op.ino].pos = op.x
        /\ \A j \in Inodes : j \notin {op.ino, op.tgt} => inode'[j] = inode[j]
        /\ (op.tgt \in Inodes => inode'[op.tgt].pos = op.y)
        /\ \A w \in Pos : Used(w) /\ w # op.y => entry'[w].data = entry[w].data
    BY <1>0, <1>12, UndoAttachEffects
  <2>2. op.tgt \in Inodes => inode[op.tgt].pos = None
    BY <1>0, <2>1, RenameFacts
  <2>3. \A i \in Inodes : On(i, z)' <=> On(i, z)
    BY <1>0, <2>1, <2>2 DEF On, Live, SameInodes
  <2> QED
    BY <2>1, <2>3, SaysSame DEF SameInodes
<1>13. ASSUME NEW i \in Inodes, WriteData(i) PROVE Says(z, c)'
  <2>1. /\ UNCHANGED entry /\ inode'[i].st = inode[i].st /\ inode'[i].pos = inode[i].pos
        /\ \A j \in Inodes : j # i => inode'[j] = inode[j]
    BY <1>13, WriteDataEffects
  <2>2. ~On(i, z)
    BY <1>13
  <2>3. \A j \in Inodes : On(j, z)' <=> On(j, z)
    BY <2>1 DEF On, Live
  <2>4. \A j \in Inodes : On(j, z) => inode'[j].data = inode[j].data
    BY <2>1, <2>2
  <2> QED
    BY <2>1, <2>3, <2>4, SaysSame
<1>14. ASSUME NEW i \in Inodes, FlushBegin(i) PROVE Says(z, c)'
  <2>1. UNCHANGED entry /\ SameInodes /\ \A j \in Inodes : inode'[j].pos = inode[j].pos
    BY <1>14, FlushBeginEffects
  <2> QED
    BY <2>1, SaysSame DEF On, Live, SameInodes
<1>15. CASE FlushPos \/ (\E nm \in Name : DropDentry(nm)) \/ UNCHANGED vars
  BY <1>1, <1>15, FlushPosEffects, DropEffects
<1>16. CASE FlushWrite
  <2> DEFINE f == flush.ino
             p == inode[f].pos
  <2>1. /\ UNCHANGED inode /\ f \in Inodes /\ Live(f)
        /\ \/ UNCHANGED entry
           \/ \A w \in Pos : Used(w) => entry'[w].data = IF w = p THEN inode[f].data ELSE entry[w].data
    BY <1>16, FlushWriteEffects
  <2>2. ~Vacant(p)
    BY <2>1 DEF Vacant, On
  <2>3. Vacant(z) => entry'[z].data = entry[z].data
    BY <2>1, <2>2
  <2> QED
    BY <2>1, <2>3, SaysSame DEF On, Live
<1>17. ASSUME NEW i \in Inodes, EvictBegin(i) \/ EvictEnd(i) PROVE Says(z, c)'
  <2>1. /\ UNCHANGED <<entry, op, flush>> /\ ~Live(i)' /\ flush.ino # i
        /\ \A j \in Inodes : j # i => inode'[j] = inode[j]
        /\ Live(i) => op.ino # i /\ (~inode[i].dirty \/ inode[i].pos = None)
    BY <1>17, EvictEffects
  <2>2. CASE ~On(i, z)
    <3>1. \A j \in Inodes : On(j, z)' <=> On(j, z)
      BY <2>1, <2>2 DEF On, Live
    <3>2. \A j \in Inodes : On(j, z) => inode'[j].data = inode[j].data
      BY <2>1, <2>2
    <3> QED
      BY <2>1, <3>1, <3>2, SaysSame
  <2>3. CASE On(i, z)
    <3>1. \A j \in Inodes : On(j, z) => j = i
      BY <1>0, <2>3, HashFacts DEF On
    <3>2. inode[i].data = c
      BY <2>3, <3>1 DEF Says, Vacant
    <3>3. entry[z].data = inode[i].data
      BY <1>0, <2>1, <2>3 DEF WrittenRight, On, Clean
    <3>4. Vacant(z)'
      BY <2>1, <3>1 DEF Vacant, On, Live
    <3> QED
      BY <2>1, <3>2, <3>3, <3>4 DEF Says
  <2> QED
    BY <2>2, <2>3
<1> QED
  BY <1>2, <1>3, <1>4, <1>5, <1>6, <1>7, <1>8, <1>9, <1>10, <1>11, <1>12, <1>13, <1>14, <1>15, <1>16, <1>17
     DEF Next

-----------------------------------------------------------------------------
(* What a step does to the names it does not work on.                          *)

(* The step is not about the name: it is not removed, moved or made by it.    *)
Aside(n) ==
  /\ Unlinking \/ Renaming => n \notin {op.nm, op.to}
  /\ Unlinking' \/ Renaming' => n \notin {op'.nm, op'.to}
  /\ ~Busy /\ Finding' /\ op'.kind # "lookup" => n # op'.nm

(* A name keeps its slots in a step that is not about it.                     *)
LEMMA SlotsStep ==
  ASSUME Structure, NoUndo, "sync" \notin Failing, "remove" \notin Failing, [Next]_vars,
         NEW n \in Name, Aside(n)
  PROVE  Slots(n)' = Slots(n)
<1>0. TypeOK /\ NamesRight
  BY StructureTree
<1>1. ASSUME UNCHANGED entry PROVE Slots(n)' = Slots(n)
  BY <1>1 DEF Slots
<1>2. ASSUME NEW nm \in Name, Lookup(nm) \/ Create(nm) \/ Mkdir(nm) PROVE Slots(n)' = Slots(n)
  BY <1>1, <1>2, FindEffects DEF Aside
<1>3. ASSUME NEW nm \in Name, Unlink(nm) PROVE Slots(n)' = Slots(n)
  BY <1>3, UnlinkEffects DEF Aside
<1>4. ASSUME NEW nm \in Name, NEW to \in Name, RenameOver(nm, to) \/ RenameNew(nm, to)
      PROVE  Slots(n)' = Slots(n)
  BY <1>4, RenameBeginEffects DEF Aside
<1>5. CASE UnlinkDone \/ Iget \/ BuildFails \/ Fill
  BY <1>1, <1>5, UnlinkDoneEffects, LooksUpEffects, FillEffects
<1>6. CASE RenameDetach \/ UndoDetach \/ RenameAttach \/ RenameDotdot
  BY <1>1, <1>6, RenameDetachEffects, UndoDetachEffects, RenameAttachEffects, RenameDotdotEffects
<1>7. CASE RenameSync
  BY <1>0, <1>7, RenameSyncEffects, EntrySame
<1>8. CASE RenameRemove
  BY <1>8, RenameRemoveEffects DEF Aside
<1>9. CASE UndoAttach
  BY <1>9, UndoAttachEffects DEF Aside
<1>10. CASE \E i \in Inodes : WriteData(i) \/ FlushBegin(i) \/ EvictBegin(i) \/ EvictEnd(i)
  BY <1>1, <1>10, WriteDataEffects, FlushBeginEffects, EvictEffects
<1>11. CASE FlushPos \/ (\E nm \in Name : DropDentry(nm)) \/ UNCHANGED vars
  BY <1>1, <1>11, FlushPosEffects, DropEffects
<1>12. CASE FlushWrite
  BY <1>0, <1>1, <1>12, FlushWriteEffects, EntrySame
<1> QED
  BY <1>2, <1>3, <1>4, <1>5, <1>6, <1>7, <1>8, <1>9, <1>10, <1>11, <1>12 DEF Next

(* ... and what it is bound to.                                               *)
LEMMA BoundStep ==
  ASSUME Structure, Structure', NoUndo, WrittenRight, "sync" \notin Failing, "remove" \notin Failing,
         [Next]_vars, NEW n \in Name, Aside(n),
         \A i \in Inodes, z \in Slots(n) : WriteData(i) => ~On(i, z)
  PROVE  Bound(n)' = Bound(n)
<1>1. Slots(n)' = Slots(n)
  BY SlotsStep
<1>2. ASSUME NEW z \in Slots(n), NEW c, Says(z, c) PROVE Says(z, c)'
  <2>1. z \in Pos /\ Used(z) /\ Used(z)' /\ DirOf[z] = n[1] /\ entry[z].name = n[2] /\ entry'[z].name = n[2]
    BY <1>1 DEF Slots, Used
  <2>2. Renaming => z \notin {op.x, op.y}
    BY <2>1, NamePairs DEF Aside, Structure, Stages, RenameStage, Slots
  <2>3. Renaming' => z \notin {op'.x, op'.y}
    BY <2>1, NamePairs DEF Aside, Structure, Stages, RenameStage, Slots
  <2> QED
    BY <1>2, <2>1, <2>2, <2>3, SaysStep
<1> QED
  BY <1>1, <1>2, BoundSame

-----------------------------------------------------------------------------
(* An operation begins, goes on and ends.                                      *)

LEMMA Begins ==
  ASSUME Structure, [Next]_vars, ~Busy, Busy'
  PROVE  \/ \E nm \in Name : Lookup(nm) \/ Create(nm) \/ Mkdir(nm) \/ Unlink(nm)
         \/ \E nm, to \in Name : RenameOver(nm, to) \/ RenameNew(nm, to)
<1>0. TypeOK /\ TreeRight /\ Stages
  BY StructureTree
<1>1. op.pc = "none" /\ op.kind = "none"
  BY <1>0, IdleOp DEF Busy
<1>2. op' # op
  BY DEF Busy
<1>3. ~UNCHANGED vars /\ (\A nm \in Name : ~DropDentry(nm)) /\ ~FlushPos /\ ~FlushWrite
  BY <1>2, DropEffects, FlushPosEffects, FlushWriteEffects
<1>4. \A i \in Inodes : ~WriteData(i) /\ ~FlushBegin(i) /\ ~EvictBegin(i) /\ ~EvictEnd(i)
  BY <1>2, WriteDataEffects, FlushBeginEffects, EvictEffects
<1>5. ~Iget /\ ~Fill /\ ~BuildFails /\ ~UnlinkDone
  BY <1>1 DEF Iget, Fill, BuildFails, UnlinkDone
<1>6. /\ ~RenameDetach /\ ~RenameAttach /\ ~RenameSync /\ ~RenameDotdot /\ ~RenameRemove
      /\ ~UndoDetach /\ ~UndoAttach
  BY <1>1 DEF RenameDetach, RenameAttach, RenameSync, RenameDotdot, RenameRemove, UndoDetach, UndoAttach
<1> QED
  BY <1>3, <1>4, <1>5, <1>6 DEF Next

(* Beside the name operations, nothing of them changes.                        *)
Beside == \/ FlushPos \/ FlushWrite \/ (\E nm \in Name : DropDentry(nm)) \/ UNCHANGED vars
          \/ \E i \in Inodes : WriteData(i) \/ FlushBegin(i) \/ EvictBegin(i) \/ EvictEnd(i)

LEMMA BesideEffects ==
  ASSUME Structure, Beside
  PROVE  /\ UNCHANGED <<op, before, dirsync>>
         /\ Busy => \A i \in Inodes : i \in {op.ino, op.tgt} => inode'[i].data = inode[i].data
<1>1. UNCHANGED <<op, before, dirsync>>
  BY DropEffects, FlushPosEffects, FlushWriteEffects, WriteDataEffects, FlushBeginEffects, EvictEffects
     DEF Beside
<1>2. ASSUME Busy, NEW i \in Inodes, i \in {op.ino, op.tgt} PROVE inode'[i].data = inode[i].data
  <2>1. ASSUME NEW j \in Inodes, EvictBegin(j) \/ EvictEnd(j) PROVE inode'[i].data = inode[i].data
    <3>1. CASE i # j
      BY <2>1, <3>1, EvictEffects
    <3>2. CASE i = j
      <4>1. ~Live(i)
        BY <1>2, <2>1, <3>2, EvictEffects
      <4>2. (Unlinking => Live(op.ino)) /\ (Renaming => Live(op.ino) /\ (op.tgt # None => Live(op.tgt)))
        BY StructureTree, UnlinkFacts, RenameFacts
      <4>3. Unlinking => op.tgt = None
        BY StructureTree, UnlinkFacts
      <4>4. Finding => op.ino = None /\ op.tgt = None
        BY StructureTree, FindFacts
      <4>5. None \notin Inodes
        BY ValuesAssumption
      <4> QED
        BY <1>2, <4>1, <4>2, <4>3, <4>4, <4>5, StructureTree DEF Stages
    <3> QED
      BY <3>1, <3>2
  <2>2. ASSUME NEW j \in Inodes, WriteData(j) \/ FlushBegin(j) PROVE inode'[i].data = inode[i].data
    BY <1>2, <2>2, WriteDataEffects, FlushBeginEffects DEF SameInodes
  <2>3. CASE FlushPos \/ FlushWrite \/ (\E nm \in Name : DropDentry(nm)) \/ UNCHANGED vars
    BY <2>3, DropEffects, FlushPosEffects, FlushWriteEffects
  <2> QED
    BY <2>1, <2>2, <2>3 DEF Beside
<1> QED
  BY <1>1, <1>2

(* The further steps of a name operation.                                     *)
Works == \/ Iget \/ BuildFails \/ Fill \/ UnlinkDone
         \/ RenameDetach \/ RenameAttach \/ RenameSync \/ RenameDotdot \/ RenameRemove
         \/ UndoDetach \/ UndoAttach

LEMMA WorksEffects ==
  ASSUME Structure, NoUndo, "sync" \notin Failing, "remove" \notin Failing, Works
  PROVE  /\ Busy
         /\ \/ op' = NoOp /\ before' = Nothing
            \/ /\ Busy' /\ op'.nm = op.nm /\ op'.to = op.to /\ op'.ino = op.ino /\ op'.tgt = op.tgt
               /\ UNCHANGED before
               /\ Renaming' => /\ Renaming /\ ~Finding'
                               /\ \A i \in Inodes : inode'[i].data = inode[i].data
               /\ ~Unlinking'
               /\ Finding' => Finding /\ op'.kind = op.kind
<1>0. TypeOK /\ TreeRight
  BY StructureTree
<1>1. CASE Iget \/ BuildFails
  BY <1>0, <1>1, LooksUpEffects, FindFacts
<1>2. CASE Fill
  BY <1>0, <1>2, FillEffects, FindFacts
<1>3. CASE UnlinkDone
  BY <1>0, <1>3, UnlinkDoneEffects, UnlinkFacts
<1>4. CASE RenameDetach
  BY <1>0, <1>4, RenameDetachEffects, RenameFacts DEF SameInodes
<1>5. CASE RenameAttach
  BY <1>0, <1>5, RenameAttachEffects, RenameFacts DEF SameInodes
<1>6. CASE RenameSync
  BY <1>0, <1>6, RenameSyncEffects, RenameFacts
<1>7. CASE RenameDotdot
  BY <1>0, <1>7, RenameDotdotEffects, RenameFacts
<1>8. CASE RenameRemove
  BY <1>0, <1>8, RenameRemoveEffects, RenameFacts
<1>9. CASE UndoDetach
  BY <1>0, <1>9, UndoDetachEffects, RenameFacts DEF SameInodes
<1>10. CASE UndoAttach
  BY <1>0, <1>10, UndoAttachEffects, RenameFacts
<1> QED
  BY <1>1, <1>2, <1>3, <1>4, <1>5, <1>6, <1>7, <1>8, <1>9, <1>10 DEF Works

(* Every step keeps Shown.                                                    *)
LEMMA ShownStep ==
  ASSUME Structure, Structure', Contents, "sync" \notin Failing, "remove" \notin Failing, [Next]_vars
  PROVE  Shown'
<1>0. /\ TypeOK /\ TreeRight /\ NoUndo /\ WrittenRight /\ Shown /\ NamesRight /\ OneInode
      /\ None \notin Inodes
  BY StructureTree, ValuesAssumption DEF Contents
<1>1. \A n \in Name : /\ Aside(n) /\ (\A i \in Inodes : ~WriteData(i)) => Bound(n)' = Bound(n)
  BY <1>0, BoundStep
<1>2. ASSUME Busy' PROVE \A i \in Inodes : ~WriteData(i)
  BY <1>2, WriteDataEffects DEF Busy
<1>3. ASSUME NEW nm \in Name, Lookup(nm) \/ Create(nm) \/ Mkdir(nm) PROVE Shown'
  <2>1. /\ ~Busy /\ Busy' /\ Finding' /\ ~Renaming' /\ ~Unlinking' /\ ~Renaming /\ ~Unlinking
        /\ before' = View /\ op'.nm = nm /\ op'.to = None
        /\ op'.kind = "lookup" \/ (op'.kind # "lookup" /\ Slots(nm) = {})
    BY <1>3, FindEffects
  <2>2. \A n \in Name \ {nm} : Bound(n)' = Bound(n)
    BY <1>1, <1>2, <2>1 DEF Aside
  <2>3. \A n \in Name : before'[n] = Bound(n)
    BY <2>1 DEF View
  <2>4. op'.kind = "lookup" => Bound(nm)' = Bound(nm)
    BY <1>1, <1>2, <2>1 DEF Aside
  <2>5. op'.kind # "lookup" => Bound(nm) = None
    BY <1>0, <2>1, BoundTyped
  <2> QED
    BY <2>1, <2>2, <2>3, <2>4, <2>5 DEF Shown
<1>4. ASSUME NEW nm \in Name, Unlink(nm) PROVE Shown'
  <2>1. /\ ~Busy /\ Busy' /\ Unlinking' /\ ~Renaming' /\ ~Finding' /\ ~Renaming /\ ~Unlinking
        /\ before' = View /\ op'.nm = nm /\ op'.to = None /\ Slots(nm) # {}
    BY <1>4, UnlinkEffects
  <2>2. \A n \in Name \ {nm} : Bound(n)' = Bound(n)
    <3> SUFFICES ASSUME NEW n \in Name, n # nm PROVE Bound(n)' = Bound(n)
      OBVIOUS
    <3>1. n # None
      BY ValuesAssumption
    <3> QED
      BY <1>1, <1>2, <2>1, <3>1 DEF Aside
  <2>3. \A n \in Name : before'[n] = Bound(n)
    BY <2>1 DEF View
  <2>4. Bound(nm) # None
    BY <1>0, <2>1, BoundTyped
  <2> QED
    BY <2>1, <2>2, <2>3, <2>4 DEF Shown
<1>5. ASSUME NEW nm \in Name, NEW to \in Name, RenameOver(nm, to) \/ RenameNew(nm, to) PROVE Shown'
  <2>1. /\ ~Busy /\ Busy' /\ Renaming' /\ ~Finding' /\ ~Unlinking' /\ ~Renaming /\ ~Unlinking
        /\ before' = View /\ SameInodes /\ op'.nm = nm /\ op'.to = to
        /\ op'.x \in Slots(nm) /\ op'.ino \in Inodes /\ On(op'.ino, op'.x)
        /\ \/ op'.tgt \in Inodes /\ On(op'.tgt, op'.y) /\ op'.y \in Slots(to)
           \/ op'.tgt = None /\ Slots(to) = {}
    BY <1>5, RenameBeginEffects
  <2>2. \A n \in Name \ {nm, to} : Bound(n)' = Bound(n)
    BY <1>1, <1>2, <2>1 DEF Aside
  <2>3. \A n \in Name : before'[n] = Bound(n)
    BY <2>1 DEF View
  <2>4. Bound(nm) = inode'[op'.ino].data
    BY <1>0, <2>1, BoundInode DEF SameInodes
  <2>5. Bound(to) = IF op'.tgt = None THEN None ELSE inode'[op'.tgt].data
    <3>1. CASE op'.tgt = None
      BY <1>0, <2>1, <3>1, BoundTyped
    <3>2. CASE op'.tgt # None
      BY <1>0, <2>1, <3>2, BoundInode DEF SameInodes
    <3> QED
      BY <3>1, <3>2
  <2> QED
    BY <2>1, <2>2, <2>3, <2>4, <2>5 DEF Shown
<1>6. CASE Works
  <2>1. CASE op' = NoOp /\ before' = Nothing
    BY <2>1, IdleAfter DEF Shown
  <2>2. CASE ~(op' = NoOp /\ before' = Nothing)
    <3>1. /\ Busy /\ Busy' /\ op'.nm = op.nm /\ op'.to = op.to /\ op'.ino = op.ino /\ op'.tgt = op.tgt
          /\ UNCHANGED before
          /\ Renaming' => Renaming /\ ~Finding' /\ \A i \in Inodes : inode'[i].data = inode[i].data
          /\ ~Unlinking'
          /\ Finding' => Finding /\ op'.kind = op.kind
      BY <1>0, <1>6, <2>2, WorksEffects
    <3>2. CASE Busy'
      <4>1. Renaming' \/ Finding'
        BY <3>1, <3>2 DEF Structure, Stages
      <4>2. \A n \in Name \ {op.nm, op.to} : Bound(n)' = Bound(n)
        BY <1>1, <1>2, <3>1, <3>2 DEF Aside
      <4>3. CASE Finding'
        <5>1. ~Renaming /\ ~Unlinking /\ ~Renaming' /\ op.nm \in Name
          BY <1>0, <3>1, <4>3, FindFacts DEF Finding, Renaming
        <5>2. PICK k \in Name : k = op.nm
          BY <5>1
        <5>3. Bound(k)' = Bound(k)
          BY <1>1, <1>2, <3>1, <3>2, <5>1 DEF Aside
        <5>4. before'[k] = IF op'.kind = "lookup" THEN Bound(k)' ELSE None
          BY <1>0, <3>1, <4>3, <5>2, <5>3 DEF Shown
        <5>5. \A n \in Name \ {op'.nm, op'.to} : before'[n] = Bound(n)'
          BY <1>0, <3>1, <4>2 DEF Shown
        <5> QED
          BY <3>1, <3>2, <4>3, <5>1, <5>2, <5>4, <5>5 DEF Shown
      <4>4. CASE Renaming'
        <5>1. op.ino \in Inodes /\ op.tgt \in Inodes \cup {None}
          BY <1>0, <3>1, <4>4, RenameFacts
        <5>2. /\ before'[op'.nm] = inode'[op'.ino].data
              /\ before'[op'.to] = IF op'.tgt = None THEN None ELSE inode'[op'.tgt].data
          BY <1>0, <3>1, <4>4, <5>1 DEF Shown
        <5>3. \A n \in Name \ {op'.nm, op'.to} : before'[n] = Bound(n)'
          BY <1>0, <3>1, <4>2 DEF Shown
        <5> QED
          BY <3>1, <3>2, <4>4, <5>2, <5>3 DEF Shown
      <4> QED
        BY <4>1, <4>3, <4>4
    <3> QED
      BY <3>1, <3>2
  <2> QED
    BY <2>1, <2>2
<1>7. CASE Beside
  <2>1. /\ UNCHANGED <<op, before>>
        /\ Busy => \A i \in Inodes : i \in {op.ino, op.tgt} => inode'[i].data = inode[i].data
    BY <1>7, BesideEffects
  <2>2. CASE ~Busy
    <3>1. ~Busy' /\ before' = Nothing /\ ~Finding' /\ ~Unlinking' /\ ~Renaming'
      BY <1>0, <2>1, <2>2, StructureTree, IdleOp DEF Shown, Busy, Finding, Unlinking, Renaming
    <3> QED
      BY <3>1 DEF Shown
  <2>3. CASE Busy
    <3>1. Busy' /\ (Finding' <=> Finding) /\ (Unlinking' <=> Unlinking) /\ (Renaming' <=> Renaming)
      BY <2>1, <2>3 DEF Busy, Finding, Unlinking, Renaming
    <3>2. \A n \in Name : (Unlinking \/ Renaming => n \notin {op.nm, op.to}) => Bound(n)' = Bound(n)
      BY <1>1, <1>2, <2>1, <2>3, <3>1 DEF Aside
    <3>3. \A n \in Name \ {op'.nm, op'.to} : before'[n] = Bound(n)'
      BY <1>0, <2>1, <2>3, <3>2 DEF Shown
    <3>4. CASE Finding
      <4>1. ~Renaming /\ ~Unlinking /\ op.nm \in Name
        BY <1>0, <3>4, FindFacts
      <4>2. PICK k \in Name : k = op.nm
        BY <4>1
      <4>3. before'[k] = IF op'.kind = "lookup" THEN Bound(k)' ELSE None
        BY <1>0, <2>1, <3>2, <3>4, <4>1, <4>2 DEF Shown
      <4> QED
        BY <2>1, <3>1, <3>3, <4>1, <4>2, <4>3 DEF Shown
    <3>5. CASE Unlinking
      <4>1. ~Renaming /\ ~Finding
        BY <1>0, <3>5, UnlinkFacts
      <4> QED
        BY <1>0, <2>1, <3>1, <3>3, <3>5, <4>1 DEF Shown
    <3>6. CASE Renaming
      <4>1. op.ino \in Inodes /\ op.tgt \in Inodes \cup {None} /\ ~Finding /\ ~Unlinking
        BY <1>0, <3>6, RenameFacts
      <4>2. /\ before'[op'.nm] = inode'[op'.ino].data
            /\ before'[op'.to] = IF op'.tgt = None THEN None ELSE inode'[op'.tgt].data
        BY <1>0, <2>1, <2>3, <3>6, <4>1 DEF Shown
      <4> QED
        BY <3>1, <3>3, <4>1, <4>2 DEF Shown
    <3> QED
      BY <2>3, <3>4, <3>5, <3>6, StructureTree DEF Stages
  <2> QED
    BY <2>2, <2>3
<1> QED
  BY <1>3, <1>4, <1>5, <1>6, <1>7 DEF Next, Works, Beside

-----------------------------------------------------------------------------
LEMMA InitContents == Init => Contents
<1> SUFFICES ASSUME Init PROVE Contents
  OBVIOUS
<1>1. /\ \A i \in Inodes : ~Live(i)
      /\ \A z \in Pos : ~Used(z)
  BY DEF Init, Live, NoInode, Used
<1>2. op.pc = "none" /\ op.kind = "none" /\ ~Busy /\ ~Renaming /\ ~Unlinking /\ ~Finding /\ before = Nothing
  BY DEF Init, NoOp, Busy, Renaming, Unlinking, Finding
<1>3. NoUndo /\ WrittenRight /\ DirsClean
  BY <1>1, <1>2 DEF NoUndo, WrittenRight, DirsClean
<1>4. InodesUnshared /\ EntriesUnshared
  BY <1>1 DEF InodesUnshared, EntriesUnshared
<1>5. DotsRight /\ Shown
  BY <1>1, <1>2 DEF DotsRight, Shown
<1> QED
  BY <1>3, <1>4, <1>5 DEF Contents

(* Contents is inductive, with Structure.                                     *)
LEMMA ContentsStep ==
  ASSUME Structure, Structure', Contents, "sync" \notin Failing, "remove" \notin Failing, [Next]_vars
  PROVE  Contents'
<1>1. NoUndo /\ WrittenRight /\ DirsClean /\ InodesUnshared /\ EntriesUnshared /\ DotsRight
  BY DEF Contents
<1>2. NoUndo'
  BY <1>1, NoUndoStep
<1>3. WrittenRight'
  BY <1>1, WrittenStep
<1>4. DirsClean'
  BY <1>1, DirsCleanStep
<1>5. InodesUnshared'
  BY <1>1, InodesUnsharedStep
<1>6. EntriesUnshared'
  BY <1>1, EntriesUnsharedStep
<1>7. DotsRight'
  BY <1>1, DotsStep
<1>8. Shown'
  BY ShownStep
<1> QED
  BY <1>2, <1>3, <1>4, <1>5, <1>6, <1>7, <1>8 DEF Contents

(* Structure and Contents hold in every reachable state.                      *)
THEOREM ContentsHold ==
  ASSUME "sync" \notin Failing, "remove" \notin Failing
  PROVE  Spec => [](Structure /\ Contents)
<1>1. Structure /\ Structure' /\ Contents /\ [Next]_vars => Contents'
  BY ContentsStep
<1> QED
  BY <1>1, InitContents, StructureHolds, PTL DEF Spec

(* Between operations, a clean inode in the hash agrees with its entry: after *)
(* fat_write_inode or fat_sync_inode, nothing is lost when it is evicted, even *)
(* if a rename moved it while it was written.                                 *)
THEOREM NamesWritten ==
  ASSUME "sync" \notin Failing, "remove" \notin Failing
  PROVE  Spec => []Written
<1>1. Structure /\ Contents => Written
  <2> SUFFICES ASSUME Structure, Contents, ~Busy, NEW i \in Inodes, Live(i), inode[i].pos # None, Clean(i)
               PROVE  entry[inode[i].pos] # Deleted /\ entry[inode[i].pos].data = inode[i].data
    BY DEF Written, Clean
  <2>1. ~Unlinking /\ op.pc = "none"
    BY StructureTree, IdleOp
  <2>2. Used(inode[i].pos)
    BY <2>1, HashFacts
  <2> QED
    BY <2>1, <2>2 DEF Contents, WrittenRight, Used
<1> QED
  BY <1>1, ContentsHold, PTL

(* Between operations no two entries name the same clusters: rename ends with *)
(* one of its two entries, also when it is undone after the write of ".."     *)
(* failed.                                                                    *)
THEOREM NamesUnshared ==
  ASSUME "sync" \notin Failing, "remove" \notin Failing
  PROVE  Spec => []Unshared
<1>1. Structure /\ Contents => Unshared
  <2> SUFFICES ASSUME Structure, Contents, ~Busy PROVE Unshared
    BY DEF Unshared
  <2>1. ~Renaming
    BY StructureTree, IdleOp
  <2> QED
    BY <2>1 DEF Contents, EntriesUnshared, Unshared, Used
<1> QED
  BY <1>1, ContentsHold, PTL

(* Between operations ".." names the directory that the entry is in, and no   *)
(* directory counts too few links, after every rename that is done or undone. *)
THEOREM NamesDirsRight ==
  ASSUME "sync" \notin Failing, "remove" \notin Failing
  PROVE  Spec => []DirsRight
<1>1. Structure /\ Contents => DotdotRight
  <2> SUFFICES ASSUME Structure, Contents, ~Busy, NEW x \in Pos, Used(x), entry[x].dir, NEW t \in Tags,
                      View[<<DirOf[x], entry[x].name>>] = t
               PROVE  dotdot[t] = DirOf[x]
    BY DEF DotdotRight, Used
  <2>1. ~Unlinking /\ ~Renaming
    BY StructureTree, IdleOp
  <2>2. PICK n \in Name : n = <<DirOf[x], entry[x].name>>
    BY StructureTree DEF NamesRight
  <2>3. x \in Slots(n) /\ Bound(n) = t
    BY <2>2 DEF Slots, Used, View
  <2>4. CASE Vacant(x)
    <3>1. entry[x].data = t
      BY <2>3, <2>4, BoundEntry, StructureTree
    <3> QED
      BY <2>1, <2>4, <3>1 DEF Contents, DotsRight
  <2>5. ASSUME NEW i \in Inodes, On(i, x) PROVE dotdot[t] = DirOf[x]
    <3>1. inode[i].data = t
      BY <2>3, <2>5, BoundInode, StructureTree
    <3>2. inode[i].dir /\ inode[i].pos # None
      BY <2>1, <2>5, HashFacts DEF On
    <3> QED
      BY <2>1, <2>5, <3>1, <3>2 DEF Contents, DotsRight, On
  <2> QED
    BY <2>4, <2>5 DEF Vacant
<1> QED
  BY <1>1, ContentsHold, NamesLinksEnough, PTL DEF DirsRight

-----------------------------------------------------------------------------
(* Users see each operation happen at once.                                    *)

(* Outside a rename, two names are bound to the same only if it is nothing.   *)
LEMMA NamesApart ==
  ASSUME Structure, Contents, ~Renaming, NEW n \in Name, NEW m \in Name, n # m,
         Bound(n) = Bound(m), Bound(n) # None
  PROVE  Bound(n) = Empty
<1>0. TypeOK /\ TreeRight /\ NamesRight /\ OneInode /\ InodesUnshared /\ EntriesUnshared /\ None \notin Pos
  BY StructureTree, ValuesAssumption DEF Contents
<1>1. Slots(n) # {} /\ Slots(m) # {}
  BY <1>0, BoundTyped
<1>2. PICK x \in Slots(n) : TRUE
  BY <1>1
<1>3. PICK z \in Slots(m) : TRUE
  BY <1>1
<1>4. x # z
  BY <1>2, <1>3, OneNameForASlot
<1>5. x \in Pos /\ z \in Pos /\ Used(x) /\ Used(z)
  BY <1>2, <1>3 DEF Slots, Used
<1>6. op.pc # "undone"
  BY DEF Renaming
<1>7. ASSUME NEW u \in Pos, NEW w \in Pos, Used(w), u # w, NEW i \in Inodes, On(i, u),
             entry[w].data = inode[i].data
      PROVE  inode[i].data = Empty
  BY <1>0, <1>5, <1>6, <1>7 DEF EntriesUnshared, MayShare, On
<1>8. CASE Vacant(x) /\ Vacant(z)
  <2>1. Bound(n) = entry[x].data /\ Bound(m) = entry[z].data
    BY <1>0, <1>8, BoundEntry
  <2> QED
    BY <1>0, <1>4, <1>5, <2>1 DEF EntriesUnshared
<1>9. ASSUME NEW i \in Inodes, On(i, x), Vacant(z) PROVE Bound(n) = Empty
  <2>1. Bound(n) = inode[i].data /\ Bound(m) = entry[z].data
    BY <1>0, <1>9, BoundEntry, BoundInode
  <2> QED
    BY <1>4, <1>5, <1>7, <1>9, <2>1
<1>10. ASSUME NEW i \in Inodes, On(i, z), Vacant(x) PROVE Bound(n) = Empty
  <2>1. Bound(m) = inode[i].data /\ Bound(n) = entry[x].data
    BY <1>0, <1>10, BoundEntry, BoundInode
  <2> QED
    BY <1>4, <1>5, <1>7, <1>10, <2>1
<1>11. ASSUME NEW i \in Inodes, NEW j \in Inodes, On(i, x), On(j, z) PROVE Bound(n) = Empty
  <2>1. Bound(n) = inode[i].data /\ Bound(m) = inode[j].data
    BY <1>0, <1>11, BoundInode
  <2>2. i # j
    BY <1>4, <1>11 DEF On
  <2> QED
    BY <1>0, <1>11, <2>1, <2>2 DEF InodesUnshared, On
<1> QED
  BY <1>8, <1>9, <1>10, <1>11 DEF Vacant

(* No name is bound to a first cluster that is free.                          *)
LEMMA FreshUnbound ==
  ASSUME Structure, NEW t \in Fresh, NEW n \in Name
  PROVE  Bound(n) # t
<1>1. CASE Slots(n) = {}
  BY <1>1, BoundNone, ValuesAssumption DEF Fresh
<1>2. ASSUME NEW z \in Slots(n) PROVE Bound(n) # t
  BY <1>2, BoundSays DEF BoundRight, Says, Slots, Fresh
<1> QED
  BY <1>1, <1>2

(* A step that is not about a name leaves what it is bound to.                *)
LEMMA AsideSame ==
  ASSUME Structure, Structure', Contents, "sync" \notin Failing, "remove" \notin Failing,
         [Next]_vars, \A i \in Inodes : ~WriteData(i),
         NEW n \in Name, Aside(n)
  PROVE  Bound(n)' = Bound(n)
BY BoundStep DEF Contents

(* The first step of an operation shows nothing.                              *)
LEMMA AtomicBegins ==
  ASSUME Structure, "remove" \notin Failing, [Next]_vars, ~Busy, Busy'
  PROVE  UNCHANGED Visible
<1>1. ASSUME NEW nm \in Name, Lookup(nm) \/ Create(nm) \/ Mkdir(nm) PROVE before' = View
  BY <1>1, FindEffects
<1>2. ASSUME NEW nm \in Name, Unlink(nm) PROVE before' = View
  BY <1>2, UnlinkEffects
<1>3. ASSUME NEW nm \in Name, NEW to \in Name, RenameOver(nm, to) \/ RenameNew(nm, to) PROVE before' = View
  BY <1>3, RenameBeginEffects
<1> QED
  BY <1>1, <1>2, <1>3, Begins DEF Visible

(* The last step of lookup shows nothing, that of create and mkdir a new      *)
(* name.                                                                      *)
LEMMA AtomicFinds ==
  ASSUME Structure, Structure', Contents, "sync" \notin Failing, "remove" \notin Failing,
         Iget \/ BuildFails \/ Fill, ~Busy'
  PROVE  [Tree!Next]_Visible
<1>0. [Next]_vars /\ (\A i \in Inodes : ~WriteData(i)) /\ TypeOK /\ TreeRight /\ NamesRight /\ OneInode
  <2>1. Finding
    BY LooksUpEffects, FillEffects
  <2> QED
    BY <2>1, FindFacts, WriteDataEffects, StructureTree DEF Next
<1>1. Finding /\ ~Renaming /\ ~Unlinking /\ ~Renaming' /\ ~Unlinking' /\ ~Finding' /\ Busy
  BY <1>0, LooksUpEffects, FillEffects, FindFacts
<1>2. \A n \in Name : Bound(n)' = Bound(n)
  BY <1>0, <1>1, AsideSame DEF Aside
<1>3. Visible = before /\ Visible' = [n \in Name |-> Bound(n)]
  BY <1>1, <1>2 DEF Visible, View
<1>4. before \in [Name -> Content \cup {None}] /\ op.nm \in Name /\ op.to = None /\ op.x \in Slots(op.nm)
  BY <1>0, <1>1, FindFacts DEF TypeOK
<1>5. PICK k \in Name : k = op.nm /\ Slots(k) # {}
  BY <1>4
<1>6. \A n \in Name : n # k => before[n] = Bound(n)
  <2> SUFFICES ASSUME NEW n \in Name, n # k PROVE before[n] = Bound(n)
    OBVIOUS
  <2>1. n # None
    BY ValuesAssumption
  <2> QED
    BY <1>1, <1>4, <1>5, <2>1 DEF Contents, Shown
<1>7. before[k] = IF op.kind = "lookup" THEN Bound(k) ELSE None
  BY <1>1, <1>5 DEF Contents, Shown
<1>8. CASE op.kind = "lookup"
  BY <1>3, <1>4, <1>6, <1>7, <1>8
<1>9. CASE op.kind # "lookup"
  <2>1. Bound(k) \in Content
    BY <1>0, <1>5, BoundTyped
  <2>2. Bound(k) = Empty \/ \A m \in Name \ {k} : before[m] # Bound(k)
    <3>1. Bound(k) # None
      BY <2>1, ValuesAssumption DEF Content
    <3> QED
      BY <1>1, <1>6, <3>1, NamesApart
  <2>3. Visible' = [Visible EXCEPT ![k] = Bound(k)]
    BY <1>3, <1>4, <1>6
  <2>4. Visible[k] = None
    BY <1>3, <1>7, <1>9
  <2>5. Tree!Create(k, Bound(k))
    BY <1>3, <2>2, <2>3, <2>4 DEF Tree!Create, Tree!Own
  <2> QED
    BY <2>1, <2>5 DEF Tree!Next
<1> QED
  BY <1>8, <1>9

(* The last step of unlink and rmdir takes the name away.                     *)
LEMMA AtomicUnlink ==
  ASSUME Structure, Structure', Contents, "sync" \notin Failing, "remove" \notin Failing, UnlinkDone
  PROVE  Tree!Next
<1>0. /\ TypeOK /\ TreeRight /\ NamesRight /\ OneInode
      /\ Unlinking /\ UNCHANGED entry /\ ~Busy' /\ op' = NoOp
  BY StructureTree, UnlinkDoneEffects
<1>1. Busy /\ op.nm \in Name /\ op.to = None /\ Slots(op.nm) = {} /\ ~Unlinking' /\ ~Renaming' /\ ~Renaming
  BY <1>0, UnlinkFacts, IdleAfter
<1>2. [Next]_vars /\ (\A i \in Inodes : ~WriteData(i))
  BY <1>1, WriteDataEffects DEF Next
<1>3. PICK k \in Name : k = op.nm /\ Slots(k) = {}
  BY <1>1
<1>4. \A n \in Name \ {k} : n # None /\ Bound(n)' = Bound(n) /\ before[n] = Bound(n)
  <2> SUFFICES ASSUME NEW n \in Name, n # k PROVE n # None /\ Bound(n)' = Bound(n) /\ before[n] = Bound(n)
    OBVIOUS
  <2>1. n # None
    BY ValuesAssumption
  <2>2. Aside(n)
    BY <1>1, <1>3, <2>1 DEF Aside
  <2>3. before[n] = Bound(n)
    BY <1>1, <1>3, <2>1 DEF Contents, Shown
  <2> QED
    BY <1>2, <2>1, <2>2, <2>3, AsideSame
<1>5. Bound(k)' = None
  BY <1>0, <1>3 DEF Bound, Slots
<1>6. before[k] # None
  BY <1>0, <1>3 DEF Contents, Shown
<1>7. Visible = before /\ Visible' = [n \in Name |-> Bound(n)'] /\ before \in [Name -> Content \cup {None}]
  <2>1. Visible = before
    BY <1>1 DEF Visible
  <2>2. Visible' = View'
    BY <1>0 DEF Visible
  <2>3. before \in [Name -> Content \cup {None}]
    BY <1>0 DEF TypeOK
  <2> QED
    BY <2>1, <2>2, <2>3 DEF View
<1>8. Visible' = [Visible EXCEPT ![k] = None]
  <2>1. \A n \in Name : Bound(n)' = [before EXCEPT ![k] = None][n]
    BY <1>4, <1>5, <1>7
  <2> QED
    BY <1>7, <2>1
<1>9. Tree!Remove(k)
  BY <1>6, <1>7, <1>8 DEF Tree!Remove
<1> QED
  BY <1>9 DEF Tree!Next

(* The last step of rename moves the name; that of a rename that is undone    *)
(* shows nothing.                                                             *)
LEMMA AtomicRename ==
  ASSUME Structure, Structure', Contents, "sync" \notin Failing, "remove" \notin Failing,
         RenameRemove \/ UndoAttach
  PROVE  [Tree!Next]_Visible
<1>0. TypeOK /\ TreeRight /\ NamesRight /\ OneInode /\ NoUndo /\ BoundRight'
  <2>1. (Structure => BoundRight)'
    BY BoundSays, PTL
  <2> QED
    BY <2>1, StructureTree DEF Contents
<1>1. /\ Renaming /\ ~Renaming' /\ ~Unlinking' /\ ~Unlinking /\ ~Busy' /\ ~Finding' /\ op' = NoOp
      /\ \A i \in Inodes : inode'[i].data = inode[i].data /\ inode'[i].st = inode[i].st
  BY <1>0, RenameRemoveEffects, UndoAttachEffects DEF SameInodes
<1>2. /\ Busy /\ op.nm \in Name /\ op.to \in Name /\ op.nm # op.to
      /\ op.x \in Slots(op.nm) /\ op.y \in Slots(op.to)
      /\ op.ino \in Inodes /\ op.tgt \in Inodes \cup {None} /\ Live(op.ino)
      /\ op.tgt # None => Live(op.tgt)
  BY <1>0, <1>1, RenameFacts
<1>3. [Next]_vars /\ (\A i \in Inodes : ~WriteData(i))
  BY <1>2, WriteDataEffects DEF Next
<1>4. PICK a \in Name, b \in Name : a = op.nm /\ b = op.to /\ a # b /\ op.x \in Slots(a) /\ op.y \in Slots(b)
  BY <1>2
<1>5. \A n \in Name \ {a, b} : Bound(n)' = Bound(n) /\ before[n] = Bound(n)
  <2> SUFFICES ASSUME NEW n \in Name, n # a, n # b PROVE Bound(n)' = Bound(n) /\ before[n] = Bound(n)
    OBVIOUS
  <2>1. Aside(n)
    BY <1>1, <1>4 DEF Aside
  <2>2. before[n] = Bound(n)
    BY <1>2, <1>4 DEF Contents, Shown
  <2> QED
    BY <1>3, <2>1, <2>2, AsideSame
<1>6. before[a] = inode[op.ino].data /\ before[b] = IF op.tgt = None THEN None ELSE inode[op.tgt].data
  BY <1>1, <1>4 DEF Contents, Shown
<1>7. Visible = before /\ Visible' = [n \in Name |-> Bound(n)'] /\ before \in [Name -> Content \cup {None}]
  <2>1. Visible = before
    BY <1>2 DEF Visible
  <2>2. Visible' = View'
    BY <1>1 DEF Visible
  <2>3. before \in [Name -> Content \cup {None}]
    BY <1>0 DEF TypeOK
  <2> QED
    BY <2>1, <2>2, <2>3 DEF View
<1>8. ASSUME NEW n \in Name, NEW z \in Slots(n)', NEW i \in Inodes, Live(i), inode'[i].pos = z
      PROVE  Bound(n)' = inode[i].data
  BY <1>0, <1>1, <1>8 DEF BoundRight, Says, On, Live
<1>9. ASSUME NEW n \in Name, Slots(n)' = {} PROVE Bound(n)' = None
  BY <1>9 DEF Bound
<1>10. CASE RenameRemove
  <2>1. /\ inode[op.ino].pos = op.y /\ UNCHANGED inode
        /\ \A m \in Name : Slots(m)' = IF m = a THEN {} ELSE Slots(m)
    BY <1>4, <1>10, RenameRemoveEffects
  <2>2. Bound(a)' = None
    BY <1>9, <2>1
  <2>3. Bound(b)' = inode[op.ino].data
    BY <1>2, <1>4, <1>8, <2>1
  <2>4. inode[op.ino].data # None
    BY <1>0, <1>2, InodeFields, ValuesAssumption DEF Content
  <2>5. Visible' = [Visible EXCEPT ![b] = Visible[a], ![a] = None]
    <3>1. \A n \in Name : Bound(n)' = [before EXCEPT ![b] = before[a], ![a] = None][n]
      BY <1>4, <1>5, <1>6, <1>7, <2>2, <2>3
    <3> QED
      BY <1>7, <3>1
  <2>6. Tree!Move(a, b)
    BY <1>4, <1>6, <1>7, <2>4, <2>5 DEF Tree!Move
  <2> QED
    BY <2>6 DEF Tree!Next
<1>11. CASE UndoAttach
  <2>1. /\ inode'[op.ino].pos = op.x
        /\ \A m \in Name : m # b => Slots(m)' = Slots(m)
        /\ \/ op.tgt \in Inodes /\ inode'[op.tgt].pos = op.y /\ Slots(b)' = Slots(b)
           \/ op.tgt = None /\ Slots(b)' = {}
    BY <1>0, <1>4, <1>11, UndoAttachEffects
  <2>2. Bound(a)' = inode[op.ino].data
    BY <1>2, <1>4, <1>8, <2>1
  <2>3. Bound(b)' = IF op.tgt = None THEN None ELSE inode[op.tgt].data
    <3>0. None \notin Inodes
      BY ValuesAssumption
    <3>1. CASE op.tgt = None
      BY <1>9, <2>1, <3>0, <3>1
    <3>2. CASE op.tgt # None
      BY <1>2, <1>4, <1>8, <2>1, <3>2
    <3> QED
      BY <3>1, <3>2
  <2>4. \A n \in Name : Bound(n)' = before[n]
    BY <1>5, <1>6, <2>2, <2>3
  <2> QED
    BY <1>7, <2>4
<1> QED
  BY <1>10, <1>11

(* A file that gets its first cluster, or loses it, is written.               *)
LEMMA AtomicWrite ==
  ASSUME Structure, Structure', Contents, "sync" \notin Failing, "remove" \notin Failing,
         NEW i \in Inodes, WriteData(i)
  PROVE  Tree!Next
<1>0. TypeOK /\ TreeRight /\ NamesRight /\ OneInode /\ BoundRight' /\ WrittenRight /\ NoUndo
  <2>1. (Structure => BoundRight)'
    BY BoundSays, PTL
  <2> QED
    BY <2>1, StructureTree DEF Contents
<1>1. /\ ~Busy /\ Live(i) /\ UNCHANGED <<entry, op>>
      /\ inode'[i].st = inode[i].st /\ inode'[i].pos = inode[i].pos
      /\ inode'[i].data = Empty \/ inode'[i].data \in Fresh
      /\ \A j \in Inodes : j # i => inode'[j] = inode[j]
  BY WriteDataEffects
<1>2. inode'[i] # inode[i]
  <2>1. inode'[i].dirty = TRUE /\ inode'[i].data # inode[i].data
    <3>1. inode \in [Inodes -> InodeSt] /\ inode[i] \in InodeSt
      BY <1>0 DEF TypeOK
    <3>2. PICK t \in IF inode[i].data = Empty THEN Fresh ELSE {Empty} :
                inode' = [inode EXCEPT ![i].data = t, ![i].dirty = TRUE]
      BY DEF WriteData
    <3>3. t # inode[i].data
      BY <3>2, ValuesAssumption DEF Fresh
    <3> QED
      BY <3>1, <3>2, <3>3 DEF InodeSt
  <2> QED
    BY <2>1
<1>3. \A j \in Inodes : WriteData(j) => j = i
  BY <1>2, WriteDataEffects
<1>4. PICK k \in Name : dcache[k] = i
  BY WriteDataEffects
<1>5. PICK z \in Slots(k) : On(i, z)
  BY <1>0, <1>1, <1>4, IdleDentry, ValuesAssumption
<1>6. [Next]_vars
  BY DEF Next
<1>7. ~Busy' /\ ~Renaming /\ ~Unlinking /\ ~Renaming' /\ ~Unlinking' /\ ~Finding'
  BY <1>0, <1>1, IdleOp DEF TreeRight, Busy, Finding, Renaming, Unlinking
<1>8. \A n \in Name \ {k} : Bound(n)' = Bound(n)
  <2> SUFFICES ASSUME NEW n \in Name, n # k PROVE Bound(n)' = Bound(n)
    OBVIOUS
  <2>1. \A j \in Inodes, w \in Slots(n) : WriteData(j) => ~On(j, w)
    BY <1>3, <1>5, OneNameForASlot DEF On
  <2> QED
    BY <1>0, <1>6, <1>7, <2>1, BoundStep DEF Aside
<1>9. Slots(k)' = Slots(k)
  BY <1>1 DEF Slots
<1>10. Bound(k)' = inode'[i].data
  BY <1>0, <1>1, <1>5, <1>9 DEF BoundRight, Says, On, Live
<1>11. Visible = [n \in Name |-> Bound(n)] /\ Visible' = [n \in Name |-> Bound(n)']
  BY <1>1, <1>7 DEF Visible, View
<1>12. Visible' = [Visible EXCEPT ![k] = inode'[i].data]
  BY <1>8, <1>10, <1>11
<1>13. Visible[k] # None
  BY <1>0, <1>5, <1>11, BoundTyped
<1>14. inode'[i].data = Empty \/ \A m \in Name \ {k} : Visible[m] # inode'[i].data
  BY <1>1, <1>11, FreshUnbound
<1>15. inode'[i].data \in Content
  BY <1>1 DEF Content, Fresh
<1>16. Tree!Write(k, inode'[i].data)
  BY <1>12, <1>13, <1>14 DEF Tree!Write, Tree!Own
<1> QED
  BY <1>15, <1>16 DEF Tree!Next

(* Every step is one of NameSpace, or shows nothing.                          *)
LEMMA AtomicStep ==
  ASSUME Structure, Structure', Contents, "sync" \notin Failing, "remove" \notin Failing, [Next]_vars
  PROVE  [Tree!Next]_Visible
<1>0. NoUndo /\ TreeRight /\ Stages /\ Stages'
  BY StructureTree DEF Contents, Structure
<1>1. CASE ~Busy /\ Busy'
  BY <1>1, AtomicBegins
<1>2. CASE \E i \in Inodes : WriteData(i)
  BY <1>2, AtomicWrite
<1>3. CASE Beside /\ ~\E i \in Inodes : WriteData(i)
  <2>1. UNCHANGED <<op, before>>
    BY <1>3, BesideEffects
  <2>2. CASE Busy
    BY <2>1, <2>2 DEF Visible, Busy
  <2>3. CASE ~Busy
    <3>1. ~Busy' /\ ~Renaming /\ ~Unlinking /\ ~Renaming' /\ ~Unlinking' /\ ~Finding'
      BY <1>0, <2>1, <2>3, IdleOp DEF Busy, Finding, Renaming, Unlinking
    <3>2. \A n \in Name : Bound(n)' = Bound(n)
      BY <1>3, <3>1, AsideSame DEF Aside
    <3> QED
      BY <2>3, <3>1, <3>2 DEF Visible, View
  <2> QED
    BY <2>2, <2>3
<1>4. CASE Works
  <2>1. CASE Busy'
    <3>1. Busy
      BY <1>0, <1>4, WorksEffects
    <3>2. UNCHANGED before
      BY <1>0, <1>4, <2>1, WorksEffects, IdleAfter
    <3> QED
      BY <2>1, <3>1, <3>2 DEF Visible
  <2>2. CASE ~Busy'
    <3>1. Iget \/ BuildFails \/ Fill \/ UnlinkDone \/ RenameRemove \/ UndoAttach
      BY <1>0, <1>4, <2>2, RenameDetachEffects, RenameAttachEffects, RenameSyncEffects, RenameDotdotEffects,
         UndoDetachEffects DEF Works
    <3> QED
      BY <2>2, <3>1, AtomicFinds, AtomicUnlink, AtomicRename
  <2> QED
    BY <2>1, <2>2
<1>5. CASE \/ \E nm \in Name : Lookup(nm) \/ Create(nm) \/ Mkdir(nm) \/ Unlink(nm)
           \/ \E nm, to \in Name : RenameOver(nm, to) \/ RenameNew(nm, to)
  BY <1>1, <1>5, FindEffects, UnlinkEffects, RenameBeginEffects
<1> QED
  BY <1>2, <1>3, <1>4, <1>5 DEF Next, Works, Beside

(* The operations of namei_msdos.c, with the hash, writeback and eviction     *)
(* beside them, implement NameSpace: users see a create, unlink or rename     *)
(* happen in one step, or not at all.                                         *)
THEOREM NamesAtomic ==
  ASSUME "sync" \notin Failing, "remove" \notin Failing
  PROVE  Spec => Atomic
<1>1. Init => Tree!Init
  <2> SUFFICES ASSUME Init PROVE Visible = [n \in Name |-> None]
    BY DEF Tree!Init
  <2>1. ~Busy
    BY DEF Init, Busy, NoOp
  <2>2. \A n \in Name : Slots(n) = {}
    BY DEF Init, Slots
  <2> QED
    BY <2>1, <2>2 DEF Visible, View, Bound
<1>2. Structure /\ Structure' /\ Contents /\ [Next]_vars => [Tree!Next]_Visible
  BY AtomicStep
<1> QED
  BY <1>1, <1>2, ContentsHold, PTL DEF Spec, Atomic, Tree!Spec
=============================================================================
