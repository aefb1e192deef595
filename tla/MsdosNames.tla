----------------------------- MODULE MsdosNames -----------------------------
(* The name operations of the msdos driver: lookup, create, mkdir, unlink,    *)
(* rmdir and rename, with the inode hash that ties an inode to the position   *)
(* of its directory entry.  One name operation at a time runs under           *)
(* lock_super; writeback and eviction of inodes run beside it and meet it in  *)
(* the hash.  A directory is a set of slots here (FatDir has their bytes).    *)
EXTENDS Naturals, FiniteSets, Functions

CONSTANTS Dirs,     \* two directories that stay
          Names,    \* names in a directory
          Name,     \* full names, a directory and a name in it
          Pos,      \* directory slots, i_pos
          DirOf,    \* the directory of each slot
          Inodes,   \* inode objects
          Tags,     \* first clusters, which stand for what a file holds
          Empty,    \* first cluster 0
          None,     \* no position, no inode, no operation
          Deleted,  \* a free slot
          MaxLinks, \* bound on what the directories count together
          Failing   \* the calls that may fail

ASSUME NameAssumption == Name \subseteq Dirs \X Names
ASSUME DirOfAssumption == DirOf \in [Pos -> Dirs]
ASSUME PosAssumption == IsFiniteSet(Pos)
ASSUME ValuesAssumption ==
  /\ Empty \notin Tags
  /\ None \notin Pos \cup Inodes \cup Tags \cup {Empty} \cup Dirs \cup Name
  /\ Deleted \notin [name : Names, data : Tags \cup {Empty}, dir : BOOLEAN]

Content == Tags \cup {Empty}
Nothing == [nm \in Name |-> None]

VARIABLES entry,    \* the slots
          dotdot,   \* the parent that a directory's ".." entry names
          nlink,    \* i_nlink of each directory, without "." and ".."
          inode,    \* the inodes
          dcache,   \* positive dentries: they hold a reference to the inode
          op,       \* the name operation under lock_super
          flush,    \* the writeback of one inode
          dirsync,  \* the file system is mounted to write entries at once
          before    \* what the names were bound to when the operation began

vars == <<entry, dotdot, nlink, inode, dcache, op, flush, dirsync, before>>
disk == <<entry, dotdot>>

NoInode == [st |-> "none", pos |-> None, data |-> Empty, dir |-> FALSE, dirty |-> FALSE]
NoOp    == [kind |-> "none", pc |-> "none", nm |-> None, to |-> None, ino |-> None,
            tgt |-> None, x |-> None, y |-> None]
NoFlush == [pc |-> "idle", ino |-> None, pos |-> None]

Live(i) == inode[i].st = "live"

(* fat_scan and msdos_find: the slot of a name.                                *)
Slots(nm) == {x \in Pos : /\ DirOf[x] = nm[1]
                          /\ entry[x] # Deleted
                          /\ entry[x].name = nm[2]}
FreeSlots(d) == {x \in Pos : DirOf[x] = d /\ entry[x] = Deleted}

(* What a user finds under a name: the inode of its slot if it has one, else   *)
(* what the entry says.                                                        *)
Bound(nm) ==
  LET x == CHOOSE x \in Slots(nm) : TRUE
      held == {i \in Inodes : Live(i) /\ inode[i].pos = x}
  IN  IF Slots(nm) = {} THEN None
      ELSE IF held = {} THEN entry[x].data
      ELSE inode[CHOOSE i \in held : TRUE].data

View == [nm \in Name |-> Bound(nm)]
Busy == op.kind # "none"

(* lock_super and unlock_super.                                                *)
At(kind, pc, nm, x) == [NoOp EXCEPT !.kind = kind, !.pc = pc, !.nm = nm, !.x = x]
Lock(o) == ~Busy /\ op' = o /\ before' = View
Unlock  == op' = NoOp /\ before' = Nothing
Goto(pc) == op' = [op EXCEPT !.pc = pc] /\ UNCHANGED before

MayFail(call) == call \in Failing

(* fat_subdirs.                                                                *)
Subdirs(d) == Cardinality({x \in Pos : DirOf[x] = d /\ entry[x] # Deleted /\ entry[x].dir})

Init ==
  /\ entry = [x \in Pos |-> Deleted]
  /\ dotdot = [t \in Tags |-> None]
  /\ nlink = [d \in Dirs |-> Subdirs(d)]
  /\ inode = [i \in Inodes |-> NoInode]
  /\ dcache = [nm \in Name |-> None]
  /\ op = NoOp /\ flush = NoFlush
  /\ dirsync \in BOOLEAN
  /\ before = Nothing

(* A first cluster that nothing names.                                         *)
Fresh == {t \in Tags : /\ \A x \in Pos : entry[x] # Deleted => entry[x].data # t
                       /\ \A i \in Inodes : inode[i].data # t}

-----------------------------------------------------------------------------
(* The hash.                                                                  *)

(* fat_attach and fat_detach.                                                  *)
Attached(i, x) == [inode EXCEPT ![i].pos = x]
Detached(i)    == [inode EXCEPT ![i].pos = None]

(* fat_iget: igrab fails for an inode that is being freed.                     *)
Grabbable(x) == {i \in Inodes : inode[i].pos = x /\ Live(i)}

(* d_splice_alias and d_instantiate.                                           *)
Splice(i) == dcache' = [dcache EXCEPT ![op.nm] = i] /\ Unlock

(* fat_build_inode: the inode of the slot, if the hash has one...              *)
Iget ==
  /\ op.pc = "iget"
  /\ IF Grabbable(op.x) = {} THEN Goto("fill") /\ UNCHANGED dcache
     ELSE \E i \in Grabbable(op.x) : Splice(i)
  /\ UNCHANGED <<disk, nlink, inode, flush, dirsync>>

(* ... or a new one, filled from the entry and attached.                       *)
Fill ==
  /\ op.pc = "fill"
  /\ \E i \in Inodes :
       /\ inode[i].st = "none"
       /\ inode' = [inode EXCEPT ![i] =
            [st |-> "live", pos |-> op.x, data |-> entry[op.x].data,
             dir |-> entry[op.x].dir, dirty |-> FALSE]]
       /\ Splice(i)
  /\ UNCHANGED <<disk, nlink, flush, dirsync>>

(* There is no memory for it: the call fails, and what it wrote stays.         *)
BuildFails ==
  /\ op.pc = "fill" /\ MayFail("build")
  /\ Unlock
  /\ UNCHANGED <<disk, nlink, inode, dcache, flush, dirsync>>

-----------------------------------------------------------------------------
(* Lookup, create and mkdir.                                                  *)

Lookup(nm) ==
  /\ dcache[nm] = None
  /\ \E x \in Slots(nm) : Lock(At("lookup", "iget", nm, x))
  /\ UNCHANGED <<disk, nlink, inode, dcache, flush, dirsync>>

(* msdos_add_entry and fat_add_entries: an entry in a free slot.  Without  *)
(* room or memory the call has no effect.                                      *)
Adds(x, nm, data, dir) ==
  entry' = [entry EXCEPT ![x] = [name |-> nm[2], data |-> data, dir |-> dir]]

Create(nm) ==
  /\ dcache[nm] = None /\ Slots(nm) = {}
  /\ \E x \in FreeSlots(nm[1]) :
       Adds(x, nm, Empty, FALSE) /\ Lock(At("create", "iget", nm, x))
  /\ UNCHANGED <<dotdot, nlink, inode, dcache, flush, dirsync>>

(* fat_alloc_new_dir gives the directory its cluster, with "." and ".." in it; *)
(* the cluster is given back when there is no room for the entry.              *)
Mkdir(nm) ==
  /\ dcache[nm] = None /\ Slots(nm) = {}
  /\ FoldFunction(+, 0, nlink) < MaxLinks
  /\ \E t \in Fresh :
       /\ dotdot' = [dotdot EXCEPT ![t] = nm[1]]
       /\ \E x \in FreeSlots(nm[1]) :
            Adds(x, nm, t, TRUE) /\ Lock(At("mkdir", "iget", nm, x))
  /\ nlink' = [nlink EXCEPT ![nm[1]] = @ + 1]
  /\ UNCHANGED <<inode, dcache, flush, dirsync>>

-----------------------------------------------------------------------------
(* Unlink and rmdir.                                                          *)

(* fat_remove_entries marks the slot, and may then fail to write it.           *)
Unlink(nm) ==
  /\ dcache[nm] # None
  /\ \E x \in Slots(nm) :
       /\ entry' = [entry EXCEPT ![x] = Deleted]
       /\ \/ Lock([At("unlink", "detach", nm, x) EXCEPT !.ino = dcache[nm]])
          \/ dirsync /\ MayFail("remove") /\ ~Busy /\ UNCHANGED <<op, before>>
  /\ UNCHANGED <<dotdot, nlink, inode, dcache, flush, dirsync>>

UnlinkDone ==
  /\ op.pc = "detach" /\ op.kind = "unlink"
  /\ inode' = Detached(op.ino)
  /\ nlink' = IF inode[op.ino].dir THEN [nlink EXCEPT ![op.nm[1]] = @ - 1] ELSE nlink
  /\ dcache' = [dcache EXCEPT ![op.nm] = None]
  /\ Unlock
  /\ UNCHANGED <<disk, flush, dirsync>>

-----------------------------------------------------------------------------
(* Rename.                                                                    *)

MovesDir  == inode[op.ino].dir /\ op.nm[1] # op.to[1]   \* update_dotdot
AfterSync == IF MovesDir THEN "dotdot" ELSE "old"

(* RenameOver_Kept is a wrong RenameOver: README, "Faulty variants".           *)
RenameOver_Kept(nm, to) ==
  /\ nm # to /\ dcache[nm] # None /\ dcache[to] # None
  /\ inode[dcache[nm]].dir = inode[dcache[to]].dir
  /\ \E x \in Slots(nm) :
       Lock([At("rename", "detach", nm, x) EXCEPT !.to = to, !.ino = dcache[nm],
               !.tgt = dcache[to], !.y = inode[dcache[to]].pos])
  /\ UNCHANGED <<disk, nlink, inode, dcache, flush, dirsync>>

(* The replaced inode leaves the hash at once and its slot is taken over.      *)
RenameOver(nm, to) ==
  /\ nm # to /\ dcache[nm] # None /\ dcache[to] # None
  /\ inode[dcache[nm]].dir = inode[dcache[to]].dir
  /\ \E x \in Slots(nm) :
       Lock([At("rename", "detach", nm, x) EXCEPT !.to = to, !.ino = dcache[nm],
               !.tgt = dcache[to], !.y = inode[dcache[to]].pos])
  /\ inode' = Detached(dcache[to])
  /\ UNCHANGED <<disk, nlink, dcache, flush, dirsync>>

(* ... or msdos_add_entry makes the new name, with no cluster yet.             *)
RenameNew(nm, to) ==
  /\ nm # to /\ dcache[nm] # None /\ dcache[to] = None /\ Slots(to) = {}
  /\ \E x \in Slots(nm), y \in FreeSlots(to[1]) :
       /\ Adds(y, to, Empty, inode[dcache[nm]].dir)
       /\ Lock([At("rename", "detach", nm, x) EXCEPT !.to = to, !.ino = dcache[nm], !.y = y])
  /\ UNCHANGED <<dotdot, nlink, inode, dcache, flush, dirsync>>

RenameDetach ==
  /\ op.pc = "detach" /\ op.kind = "rename"
  /\ inode' = Detached(op.ino)
  /\ Goto("attach")
  /\ UNCHANGED <<disk, nlink, dcache, flush, dirsync>>

(* The attributes follow, so the inode has to be written.                      *)
RenameAttach ==
  /\ op.pc = "attach"
  /\ inode' = [Attached(op.ino, op.y) EXCEPT ![op.ino].dirty = @ \/ ~dirsync]
  /\ Goto(IF dirsync THEN "sync" ELSE AfterSync)
  /\ UNCHANGED <<disk, nlink, dcache, flush, dirsync>>

(* fat_sync_inode: the block may be unreadable, or is changed and may then not *)
(* reach the disk.                                                             *)
RenameSync ==
  /\ op.pc = "sync"
  /\ \/ /\ entry' = [entry EXCEPT ![op.y].data = inode[op.ino].data]
        /\ Goto(AfterSync) \/ (MayFail("sync") /\ Goto("undo"))
     \/ MayFail("sync") /\ Goto("undo") /\ UNCHANGED entry
  /\ UNCHANGED <<dotdot, nlink, inode, dcache, flush, dirsync>>

RenameDotdot ==
  /\ op.pc = "dotdot"
  /\ dotdot' = [dotdot EXCEPT ![inode[op.ino].data] = op.to[1]]
  /\ \/ /\ Goto("old")
        /\ nlink' = [nlink EXCEPT ![op.nm[1]] = @ - 1,
                                ![op.to[1]] = IF op.tgt = None THEN @ + 1 ELSE @]
     \/ /\ dirsync /\ MayFail("dotdot")
        /\ Goto("corrupt")
        /\ UNCHANGED nlink
  /\ UNCHANGED <<entry, inode, dcache, flush, dirsync>>

(* The old entry is removed, and d_move gives the dentry its new name.         *)
RenameRemove ==
  /\ op.pc = "old"
  /\ entry' = [entry EXCEPT ![op.x] = Deleted]
  /\ \/ /\ dcache' = [dcache EXCEPT ![op.nm] = None, ![op.to] = op.ino]
        /\ Unlock
     \/ /\ dirsync /\ MayFail("remove")
        /\ Goto("corrupt")
        /\ UNCHANGED dcache
  /\ UNCHANGED <<dotdot, nlink, inode, flush, dirsync>>

(* UndoDetach_NoDotdot is a wrong UndoDetach: README, "Faulty variants".       *)
UndoDetach_NoDotdot ==
  /\ op.pc \in {"undo", "corrupt"}
  /\ inode' = Detached(op.ino)
  /\ op' = [op EXCEPT !.pc = "undone", !.kind = op.pc]
  /\ UNCHANGED <<disk, nlink, dcache, flush, before, dirsync>>

(* error_dotdot, if the clusters are shared by now, and error_inode.           *)
UndoDetach ==
  /\ op.pc \in {"undo", "corrupt"}
  /\ inode' = Detached(op.ino)
  /\ dotdot' = IF op.pc = "corrupt" /\ MovesDir
               THEN [dotdot EXCEPT ![inode[op.ino].data] = op.nm[1]] ELSE dotdot
  /\ op' = [op EXCEPT !.pc = "undone", !.kind = op.pc]
  /\ UNCHANGED <<entry, nlink, dcache, flush, before, dirsync>>

(* UndoAttach_Left and UndoAttach_Shared are wrong forms of UndoAttach: README,*)
(* "Faulty variants".                                                          *)
UndoAttach_Left ==
  /\ op.pc = "undone"
  /\ inode' = IF op.tgt # None THEN [Attached(op.ino, op.x) EXCEPT ![op.tgt].pos = op.y]
              ELSE Attached(op.ino, op.x)
  /\ entry' = IF op.tgt # None
              THEN [entry EXCEPT ![op.y].data = inode[op.tgt].data] ELSE entry
  /\ Unlock
  /\ UNCHANGED <<dotdot, nlink, dcache, flush, dirsync>>

UndoAttach_Shared ==
  /\ op.pc = "undone"
  /\ inode' = IF op.tgt # None THEN [Attached(op.ino, op.x) EXCEPT ![op.tgt].pos = op.y]
              ELSE Attached(op.ino, op.x)
  /\ entry' = IF op.tgt # None THEN entry ELSE [entry EXCEPT ![op.y] = Deleted]
  /\ Unlock
  /\ UNCHANGED <<dotdot, nlink, dcache, flush, dirsync>>

(* The replaced inode gets its slot back, and is written there if the data may *)
(* be shared; an entry made for the new name is removed.                       *)
UndoAttach ==
  /\ op.pc = "undone"
  /\ IF op.tgt # None
     THEN /\ inode' = [Attached(op.ino, op.x) EXCEPT ![op.tgt].pos = op.y]
          /\ entry' = IF op.kind = "corrupt"
                      THEN [entry EXCEPT ![op.y].data = inode[op.tgt].data] ELSE entry
     ELSE /\ inode' = Attached(op.ino, op.x)
          /\ entry' = [entry EXCEPT ![op.y] = Deleted]
  /\ Unlock
  /\ UNCHANGED <<dotdot, nlink, dcache, flush, dirsync>>

-----------------------------------------------------------------------------
(* Beside the name operations.                                                *)

(* A file gets its first cluster, or is truncated.                             *)
WriteData(i) ==
  /\ ~Busy /\ Live(i) /\ ~inode[i].dir
  /\ \E nm \in Name : dcache[nm] = i
  /\ \E t \in IF inode[i].data = Empty THEN Fresh ELSE {Empty} :
       inode' = [inode EXCEPT ![i].data = t, ![i].dirty = TRUE]
  /\ UNCHANGED <<disk, nlink, dcache, op, flush, before, dirsync>>

(* Writeback clears the dirty mark, then calls fat_write_inode.                *)
FlushBegin(i) ==
  /\ flush.pc = "idle" /\ Live(i) /\ inode[i].dirty
  /\ inode' = [inode EXCEPT ![i].dirty = FALSE]
  /\ flush' = [pc |-> "pos", ino |-> i, pos |-> None]
  /\ UNCHANGED <<disk, nlink, dcache, op, before, dirsync>>

(* fat_i_pos_read; the block is then read without the lock.                    *)
FlushPos ==
  /\ flush.pc = "pos"
  /\ flush' = IF inode[flush.ino].pos = None THEN NoFlush
              ELSE [flush EXCEPT !.pc = "write", !.pos = inode[flush.ino].pos]
  /\ UNCHANGED <<disk, nlink, inode, dcache, op, before, dirsync>>

(* Moved_Never is a wrong Moved: README, "Faulty variants".                    *)
Moved_Never == FALSE

(* fat_write_inode looks again under the hash lock, and starts over.           *)
Moved == inode[flush.ino].pos # flush.pos

FlushWrite ==
  /\ flush.pc = "write"
  /\ IF Moved THEN flush' = [flush EXCEPT !.pc = "pos"] /\ UNCHANGED entry
     ELSE /\ entry' = IF entry[flush.pos] = Deleted THEN entry
                      ELSE [entry EXCEPT ![flush.pos].data = inode[flush.ino].data]
          /\ flush' = NoFlush
  /\ UNCHANGED <<dotdot, nlink, inode, dcache, op, before, dirsync>>

(* A dentry is dropped when no operation uses it.                              *)
DropDentry(nm) ==
  /\ dcache[nm] # None /\ op.nm # nm /\ op.to # nm
  /\ dcache' = [dcache EXCEPT ![nm] = None]
  /\ UNCHANGED <<disk, nlink, inode, op, flush, before, dirsync>>

Held(i) == \/ \E nm \in Name : dcache[nm] = i
           \/ op.ino = i \/ op.tgt = i
           \/ flush.ino = i

(* The kernel frees an unused inode: first a clean one, or one without a name, *)
(* is marked, its clusters are freed if it has no name, and from then on igrab *)
(* refuses it...                                                               *)
EvictBegin(i) ==
  /\ Live(i) /\ ~Held(i)
  /\ ~inode[i].dirty \/ inode[i].pos = None
  /\ inode' = [inode EXCEPT ![i] = [NoInode EXCEPT !.st = "freeing", !.pos = inode[i].pos]]
  /\ dotdot' = IF inode[i].dir /\ inode[i].pos = None
               THEN [dotdot EXCEPT ![inode[i].data] = None] ELSE dotdot
  /\ UNCHANGED <<entry, nlink, dcache, op, flush, before, dirsync>>

(* ... then fat_clear_inode takes it out of the hash.                          *)
EvictEnd(i) ==
  /\ inode[i].st = "freeing"
  /\ inode' = [inode EXCEPT ![i] = NoInode]
  /\ UNCHANGED <<disk, nlink, dcache, op, flush, before, dirsync>>

-----------------------------------------------------------------------------
Next ==
  \/ \E nm \in Name : Lookup(nm) \/ Create(nm) \/ Mkdir(nm) \/ Unlink(nm) \/ DropDentry(nm)
  \/ \E nm, to \in Name : RenameOver(nm, to) \/ RenameNew(nm, to)
  \/ Iget \/ Fill \/ BuildFails \/ UnlinkDone
  \/ RenameDetach \/ RenameAttach \/ RenameSync \/ RenameDotdot \/ RenameRemove
  \/ UndoDetach \/ UndoAttach
  \/ \E i \in Inodes : \/ WriteData(i) \/ FlushBegin(i)
                       \/ EvictBegin(i) \/ EvictEnd(i)
  \/ FlushPos \/ FlushWrite

Spec == Init /\ [][Next]_vars

-----------------------------------------------------------------------------
(* A name operation takes effect at once: users see what was bound before it   *)
(* until it ends, and then what it did, which is all of it or nothing.         *)
Visible == IF Busy THEN before ELSE View
Tree == INSTANCE NameSpace WITH bound <- Visible, Absent <- None, Blank <- Empty
Atomic == Tree!Spec

(* A slot has one inode that can be used: two would be written over each other. *)
OneInode ==
  \A i, j \in Inodes :
    Live(i) /\ Live(j) /\ inode[i].pos = inode[j].pos /\ inode[i].pos # None => i = j

(* An inode that is in the hash and clean is what its entry says, so that      *)
(* nothing is lost when it is evicted.                                         *)
Written ==
  \A i \in Inodes :
    /\ ~Busy /\ Live(i) /\ inode[i].pos # None
    /\ ~inode[i].dirty /\ flush.ino # i
    => entry[inode[i].pos] # Deleted /\ entry[inode[i].pos].data = inode[i].data

(* i_nlink never falls below what fat_subdirs would count.                     *)
LinksEnough == ~Busy => \A d \in Dirs : nlink[d] >= Subdirs(d)

(* ".." names the directory that the entry is in.                              *)
DotdotRight ==
  ~Busy => \A x \in Pos : entry[x] # Deleted /\ entry[x].dir =>
             \A t \in Tags : View[<<DirOf[x], entry[x].name>>] = t => dotdot[t] = DirOf[x]

(* A directory names its parent and counts its subdirectories: it could not    *)
(* be left or removed otherwise.                                               *)
DirsRight == DotdotRight /\ LinksEnough

(* Two entries never name the same clusters once an operation has ended.       *)
Unshared ==
  ~Busy => \A x, y \in Pos :
    /\ x # y /\ entry[x] # Deleted /\ entry[y] # Deleted
    /\ entry[x].data = entry[y].data
    => entry[x].data = Empty

(* i_nlink is what fat_fill_inode would make it.                               *)
(* Not kept: README, "Where the code and its words differ".                    *)
LinksCounted == ~Busy => \A d \in Dirs : nlink[d] = Subdirs(d)
=============================================================================
