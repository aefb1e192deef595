------------------------------ MODULE FatMount ------------------------------
(* The life of a mounted volume: the module's slab caches, fat_fill_super     *)
(* with everything it takes and its single way out, the flushing of the free  *)
(* count to FSINFO while clusters come and go, and fat_put_super.             *)
EXTENDS Naturals, Sequences

CONSTANTS Clusters,    \* clusters of the volume
          MaxCharsets, \* bound on the iocharset= options of one mount
          Failing      \* the calls that may fail

ASSUME ClustersAssumption == Clusters \in Nat /\ MaxCharsets \in Nat

VARIABLES pc,     \* where the mount is
          held,   \* what has been acquired and not yet released
          ptr,    \* the pointers to it that are not NULL
          stale,  \* something was released or used that was not held
          mount,  \* options of the mount, and what fat_hash_init has done
          free,   \* sbi->free_clusters
          fsinfo, \* the count in the FSINFO block
          dirt,   \* sb->s_dirt
          change, \* an allocation or a release of clusters, under fat_lock
          flush   \* fat_sync_fs, under lock_super

vars == <<pc, held, ptr, stale, mount, free, fsinfo, dirt, change, flush>>
count == <<free, fsinfo, dirt, change, flush>>

Caches  == {"fat_cache", "inode_cache"}
Buffers == {"bh"}
Inodes  == {"fat_inode", "root_inode"}
NoMount == [vfat |-> FALSE, charsets |-> 0, hash |-> FALSE, known |-> FALSE, undo |-> <<>>]

MayFail(call) == call \in Failing

Take(x)  == held' = held \cup {x} /\ ptr' = ptr \cup {x} /\ UNCHANGED stale
Goto(p)  == pc' = p

-----------------------------------------------------------------------------
(* The module.                                                                *)

InitCache ==
  /\ pc = "out"
  /\ Take("fat_cache") /\ Goto("half")
  /\ UNCHANGED <<mount, count>>

InitInodecache ==
  /\ pc = "half"
  /\ Take("inode_cache") /\ Goto("none")
  /\ UNCHANGED <<mount, count>>

InitFails ==
  /\ pc = "half"
  /\ held' = held \ {"fat_cache"} /\ ptr' = ptr \ {"fat_cache"} /\ Goto("out")
  /\ UNCHANGED <<stale, mount, count>>

ExitFatFs ==
  /\ pc = "none"
  /\ stale' = (stale \/ ~(Caches \subseteq held))
  /\ held' = held \ Caches /\ ptr' = {} /\ Goto("out")
  /\ UNCHANGED <<mount, count>>

-----------------------------------------------------------------------------
(* fat_fill_super.                                                            *)

FillSuper ==
  /\ pc = "none"
  /\ held' = held \cup {"sbi"} /\ ptr' = Caches \cup {"sbi"}
  /\ \E vfat \in BOOLEAN : mount' = [NoMount EXCEPT !.vfat = vfat]
  /\ Goto("options")
  /\ UNCHANGED <<stale, count>>

(* parse_options, an iocharset: the one before is freed, then a copy is made.  *)
(* When there is no memory for it the pointer still shows the one before.      *)
Charset ==
  /\ pc = "options" /\ mount.vfat /\ mount.charsets < MaxCharsets
  /\ mount' = [mount EXCEPT !.charsets = @ + 1]
  /\ stale' = (stale \/ "iocharset" \in ptr \ held)
  /\ \/ /\ held' = held \cup {"iocharset"} /\ ptr' = ptr \cup {"iocharset"}
        /\ UNCHANGED pc
     \/ /\ MayFail("strdup")
        /\ held' = held \ {"iocharset"} /\ UNCHANGED ptr
        /\ Goto("fail")
  /\ UNCHANGED count

OptionsDone ==
  /\ pc = "options" /\ Goto("boot")
  /\ UNCHANGED <<held, ptr, stale, mount, count>>

ReadBoot ==
  /\ pc = "boot" /\ Take("bh") /\ Goto("check")
  /\ UNCHANGED <<mount, count>>

(* The sector is larger than the block: the block size is changed and the boot *)
(* sector is read again.                                                       *)
Resize ==
  /\ pc = "check"
  /\ held' = held \ {"bh"} /\ ptr' = ptr \ {"bh"} /\ Goto("reread")
  /\ UNCHANGED <<stale, mount, count>>

Reread ==
  /\ pc = "reread" /\ Take("bh") /\ Goto("fsinfo")
  /\ UNCHANGED <<mount, count>>

SizeFits ==
  /\ pc = "check" /\ Goto("fsinfo")
  /\ UNCHANGED <<held, ptr, stale, mount, count>>

(* The FSINFO block, with or without its signature.                            *)
ReadFsinfo ==
  /\ pc = "fsinfo"
  /\ \E known \in BOOLEAN : mount' = [mount EXCEPT !.known = known]
  /\ free' = fsinfo /\ dirt' = FALSE
  /\ Goto("geometry")
  /\ UNCHANGED <<held, ptr, stale, fsinfo, change, flush>>

(* The numbers of the boot sector are good, a count that is too large is       *)
(* forgotten; fat_hash_init.                                                   *)
Geometry ==
  /\ pc = "geometry"
  /\ held' = held \ {"bh"} /\ ptr' = ptr \ {"bh"}
  /\ mount' = [mount EXCEPT !.hash = TRUE, !.known = @ /\ free <= Clusters]
  /\ Goto("nls_disk")
  /\ UNCHANGED <<stale, count>>

LoadNlsDisk ==
  /\ pc = "nls_disk" /\ Take("nls_disk")
  /\ Goto(IF mount.vfat THEN "nls_io" ELSE "fat_inode")
  /\ UNCHANGED <<mount, count>>

LoadNlsIo ==
  /\ pc = "nls_io" /\ Take("nls_io") /\ Goto("fat_inode")
  /\ UNCHANGED <<mount, count>>

NewFatInode ==
  /\ pc = "fat_inode" /\ Take("fat_inode") /\ Goto("root_inode")
  /\ UNCHANGED <<mount, count>>

NewRootInode ==
  /\ pc = "root_inode" /\ Take("root_inode") /\ Goto("root")
  /\ UNCHANGED <<mount, count>>

(* fat_read_root and d_alloc_root: the dentry owns the inode from here on.     *)
AllocRoot ==
  /\ pc = "root" /\ Goto("live")
  /\ UNCHANGED <<held, ptr, stale, mount, count>>

(* A step fails or finds nonsense: what was read is released on the spot, and  *)
(* the rest at out_fail.                                                       *)
Refused ==
  /\ pc \in {"options", "boot", "check", "reread", "fsinfo", "geometry",
             "nls_disk", "nls_io", "fat_inode", "root_inode", "root"}
  /\ held' = held \ Buffers /\ ptr' = ptr \ Buffers
  /\ Goto("fail")
  /\ UNCHANGED <<stale, mount, count>>

-----------------------------------------------------------------------------
(* The ways out.                                                              *)

(* Undo_SbiFirst is a wrong Undo: README, "Faulty variants".                   *)
Undo_SbiFirst == <<"fat_inode", "sbi", "root_inode", "nls_io", "nls_disk", "iocharset">>

(* out_fail.                                                                   *)
Undo == <<"fat_inode", "root_inode", "nls_io", "nls_disk", "iocharset", "sbi">>

OutFail ==
  /\ pc = "fail" /\ Goto("undo")
  /\ mount' = [mount EXCEPT !.undo = Undo]
  /\ UNCHANGED <<held, ptr, stale, count>>

(* generic_shutdown_super drops the root, then fat_put_super, which flushes    *)
(* the count if it has to.                                                     *)
Put == <<"root_inode", "fat_inode", "nls_disk", "nls_io", "iocharset", "sbi">>

PutSuper ==
  /\ pc = "live" /\ change = "no" /\ flush = "no"
  /\ Goto("undo")
  /\ mount' = [mount EXCEPT !.undo = Put]
  /\ dirt' = FALSE /\ fsinfo' = IF dirt /\ mount.known THEN free ELSE fsinfo
  /\ UNCHANGED <<held, ptr, stale, free, change, flush>>

(* iput ends in fat_clear_inode and fat_detach, which lock the hash, and in    *)
(* fat_destroy_inode.                                                          *)
CanPut == {"sbi", "inode_cache"} \subseteq held /\ mount.hash

Release ==
  /\ pc = "undo" /\ mount.undo # <<>>
  /\ LET x == Head(mount.undo)
     IN  /\ stale' = (stale \/ (x \in ptr /\ (x \in held => x \in Inodes /\ ~CanPut)))
         /\ held' = held \ ({x} \cap ptr) /\ ptr' = ptr \ {x}
  /\ mount' = [mount EXCEPT !.undo = Tail(@)]
  /\ UNCHANGED <<pc, count>>

Released ==
  /\ pc = "undo" /\ mount.undo = <<>>
  /\ mount' = NoMount /\ Goto("none")
  /\ UNCHANGED <<held, ptr, stale, count>>

-----------------------------------------------------------------------------
(* The free count.                                                            *)

(* fat_alloc_clusters and fat_free_clusters: the count, then the mark.         *)
Change ==
  /\ pc = "live" /\ change = "no"
  /\ change' = "counted"
  /\ IF mount.known
     THEN \E n \in 0..Clusters : (n = free + 1 \/ n + 1 = free) /\ free' = n
     ELSE UNCHANGED free
  /\ UNCHANGED <<pc, held, ptr, stale, mount, fsinfo, dirt, flush>>

MarkDirt ==
  /\ change = "counted"
  /\ change' = "no" /\ dirt' = TRUE
  /\ UNCHANGED <<pc, held, ptr, stale, mount, free, fsinfo, flush>>

(* SyncEnd_Clear is a wrong SyncEnd: README, "Faulty variants".               *)
SyncEnd_Clear ==
  /\ flush = "read"
  /\ flush' = "no" /\ dirt' = FALSE
  /\ UNCHANGED <<pc, held, ptr, stale, mount, free, fsinfo, change>>

(* fat_sync_fs clears the mark before it reads the count.                      *)
SyncBegin ==
  /\ pc = "live" /\ flush = "no" /\ dirt
  /\ flush' = "cleared" /\ dirt' = FALSE
  /\ UNCHANGED <<pc, held, ptr, stale, mount, free, fsinfo, change>>

(* fat_clusters_flush: the block is read, which may fail, and then changed.    *)
ClustersFlush ==
  /\ flush = "cleared"
  /\ \/ fsinfo' = IF mount.known THEN free ELSE fsinfo
     \/ MayFail("flush") /\ UNCHANGED fsinfo
  /\ flush' = "read"
  /\ UNCHANGED <<pc, held, ptr, stale, mount, free, dirt, change>>

SyncEnd ==
  /\ flush = "read"
  /\ flush' = "no"
  /\ UNCHANGED <<pc, held, ptr, stale, mount, free, fsinfo, dirt, change>>

-----------------------------------------------------------------------------
Init ==
  /\ pc = "out" /\ held = {} /\ ptr = {} /\ stale = FALSE
  /\ mount = NoMount
  /\ free = 0 /\ fsinfo \in 0..(Clusters + 1)
  /\ dirt = FALSE /\ change = "no" /\ flush = "no"

Next ==
  \/ InitCache \/ InitInodecache \/ InitFails \/ ExitFatFs
  \/ FillSuper \/ Charset \/ OptionsDone \/ ReadBoot \/ Resize \/ Reread \/ SizeFits
  \/ ReadFsinfo \/ Geometry \/ LoadNlsDisk \/ LoadNlsIo
  \/ NewFatInode \/ NewRootInode \/ AllocRoot \/ Refused
  \/ OutFail \/ PutSuper \/ Release \/ Released
  \/ Change \/ MarkDirt \/ SyncBegin \/ ClustersFlush \/ SyncEnd

Spec == Init /\ [][Next]_vars

-----------------------------------------------------------------------------
(* A refused mount and an unmount leave nothing behind, wherever the mount     *)
(* was refused, and nothing is released twice or used after its release.       *)
Balanced ==
  /\ ~stale
  /\ pc = "none" => held = Caches
  /\ pc = "out" => held = {}

(* FSINFO has the free count, or something is still going to write it there.   *)
CountReaches ==
  pc \in {"live", "undo"} /\ mount.known =>
    fsinfo = free \/ dirt \/ change = "counted" \/ flush = "cleared"

-----------------------------------------------------------------------------
(* Why these hold.  The pointers show what is held; each place of the mount    *)
(* has what its way out needs; and what is left to release ends in the         *)
(* private data, on which the release of the inodes depends.                   *)
Resources == Caches \cup Buffers \cup Inodes \cup {"sbi", "iocharset", "nls_disk", "nls_io"}
Early     == {"options", "boot", "check", "reread", "fsinfo"}
Late      == {"geometry", "nls_disk", "nls_io", "fat_inode", "root_inode", "root"}
Mounting  == Early \cup Late
Stages    == {"out", "half", "none", "fail", "live", "undo"} \cup Mounting

Ordered(u) ==
  /\ u \in Seq(Resources \ Caches)
  /\ u # <<>> => u[Len(u)] = "sbi"
  /\ \A k \in 1..Len(u) : u[k] = "sbi" => k = Len(u)
Left(u) == {u[k] : k \in 1..Len(u)}

MountTypeOK ==
  /\ pc \in Stages /\ held \subseteq Resources
  /\ mount \in [vfat : BOOLEAN, charsets : Nat, hash : BOOLEAN, known : BOOLEAN, undo : Seq(Resources)]
  /\ change \in {"no", "counted"} /\ flush \in {"no", "cleared", "read"}

HeldRight ==
  /\ ptr = held /\ ~stale
  /\ held \cap Inodes # {} => mount.hash
  /\ pc \in Late \ {"geometry"} => mount.hash
  /\ "bh" \in held => pc \in {"check", "fsinfo", "geometry"}
  /\ pc = "out" => held = {}
  /\ pc = "half" => held = {"fat_cache"}
  /\ pc = "none" => held = Caches
  /\ pc \in Mounting \cup {"fail", "live"} => Caches \cup {"sbi"} \subseteq held
  /\ pc = "undo" =>
       /\ Caches \subseteq held /\ held \subseteq Caches \cup Left(mount.undo)
       /\ Ordered(mount.undo)
       /\ mount.undo # <<>> => "sbi" \in held

CountKept ==
  /\ pc # "live" => change = "no" /\ flush = "no"
  /\ pc \in Early \cup {"out", "half", "none"} => ~mount.known
  /\ pc \in Late \cup {"fail", "undo"} /\ mount.known => fsinfo = free

MountInv == MountTypeOK /\ HeldRight /\ CountKept /\ CountReaches
=============================================================================
