------------------------------ MODULE FatRead -------------------------------
(***************************************************************************)
(* Reads of a file of the FAT port: fat_sync_read of                       *)
(* src/ATS/myfat/ATS/ats_fat_file.dats with its copy functions.            *)
(*                                                                         *)
(* A read walks the chain of clusters to the one its position is in, and   *)
(* copies from there on block by block, following the chain.  Programs     *)
(* that read the same file exclude each other by its i_mutex, so there is  *)
(* one call under way at a time.  A position in the file stands for the    *)
(* byte there; <<b, o>> is the byte at offset o of block b of the volume.  *)
(***************************************************************************)
EXTENDS Integers, Sequences, FiniteSets

CONSTANTS
  Procs, NoProc,
  max_cluster,    \* clusters are numbered from 2 to max_cluster - 1
  blksz,          \* bytes in a block
  sec_per_clus,   \* blocks in a cluster
  data_start,     \* the block where cluster 2 begins
  Tables,         \* the tables a volume may have
  Sizes,          \* the sizes the file may have
  MaxSize,        \* bound on them and on positions
  Counts,         \* numbers of bytes that are asked for
  Watched,        \* the block whose content is watched
  Fail            \* what may fail: reads of entries, of blocks, copies to the user

clssz == sec_per_clus * blksz
EIO   == 5
FREE  == 0
EOF   == 1        \* FAT_ENT_EOF, and what stands for a bad cluster

Clusters == 2..(max_cluster - 1)
Blocks   == data_start..(data_start + (max_cluster - 2) * sec_per_clus - 1)
Failures == {"entry", "block", "user"}

ASSUME ReadAssumption ==
  /\ NoProc \notin Procs
  /\ max_cluster \in Nat /\ max_cluster > 2
  /\ blksz \in Nat \ {0} /\ sec_per_clus \in Nat \ {0} /\ data_start \in Nat
  /\ Tables \subseteq [Clusters -> Clusters \cup {FREE, EOF}]
  /\ Watched \in Blocks
  /\ MaxSize \in Nat /\ Sizes \subseteq 0..MaxSize
  /\ Counts \subseteq Nat /\ Fail \subseteq Failures

VARIABLES
  fat, i_start, i_size,   \* the file: its chain and its size, which nothing changes
  waiting, i_mutex,       \* who waits for the mutex, and who holds it
  pc,                     \* where the call is whose process holds the mutex
  pos, n,                 \* *ppos, and the bytes it asked for
  ncls, nth_cls,          \* the cluster it is at, and how far the walk has come
  len, left,              \* bytes still to copy: in all, and from this cluster
  nblk, ofs,              \* the block it is at, and the offset in it
  out,                    \* the bytes copied to the user
  err, ret,
  failed,                 \* history: something failed in this call
  touched                 \* the watched block differs from when the volume was mounted

file   == <<fat, i_start, i_size>>
mutex  == <<waiting, i_mutex>>
request == <<pos, n>>
walk   == <<ncls, nth_cls>>
copy   == <<len, left, nblk, ofs>>
answer == <<out, err, ret, failed>>
vars   == <<file, mutex, pc, request, walk, copy, answer, touched>>

Goto(l) == pc' = l
Least(a, b) == IF a < b THEN a ELSE b

Init ==
  /\ fat \in Tables /\ i_start \in Clusters /\ i_size \in Sizes
  /\ waiting = {} /\ i_mutex = NoProc
  /\ pc = "idle"
  /\ pos = 0 /\ n = 0
  /\ ncls = i_start /\ nth_cls = 0
  /\ len = 0 /\ left = 0 /\ nblk = data_start /\ ofs = 0
  /\ out = <<>> /\ err = 0 /\ ret = 0 /\ failed = FALSE
  /\ touched = FALSE

-----------------------------------------------------------------------------
(* The call, and the walk to the cluster of the position *)

Call(p) ==
  /\ p \notin waiting /\ p # i_mutex
  /\ waiting' = waiting \cup {p}
  /\ UNCHANGED <<file, i_mutex, pc, request, walk, copy, answer, touched>>

\* How many of k bytes from position q the file has by its size.
Wanted(q, k) == Least(i_size - q, k)

\* file2inode_acquire, and the test of the position against the size.  What
\* the process asked for matters from here on only, and is chosen here.
Lock(p) ==
  /\ p \in waiting /\ i_mutex = NoProc
  /\ i_mutex' = p /\ waiting' = waiting \ {p}
  /\ pos' \in 0..MaxSize /\ n' \in Counts
  /\ len' = IF pos' >= i_size THEN 0 ELSE Wanted(pos', n')
  /\ Goto(IF pos' >= i_size THEN "unlock" ELSE "look")
  /\ UNCHANGED <<file, walk, left, nblk, ofs, answer, touched>>

cls_num == pos \div clssz
cls_ofs == pos % clssz

\* The end of fat_sync_read, with what was copied and the last error.
Finish_Error(o, e) ==
  /\ pos' = pos + Len(o)
  /\ ret' = IF e = 0 THEN Len(o) ELSE -e
  /\ Goto("unlock")

Finish(o, e) ==
  /\ pos' = pos + Len(o)
  /\ ret' = IF Len(o) > 0 THEN Len(o) ELSE -e
  /\ Goto("unlock")

ncluster2block(c) == (c - 2) * sec_per_clus + data_start

\* copy_clusters_impl gets to cluster c with l bytes to copy, the first of
\* them at offset o; copy_cluster_impl finds the block.
EnterCluster(c, o, l) ==
  /\ ncls' = c
  /\ len' = l
  /\ left' = Least(l, clssz - o)
  /\ nblk' = ncluster2block(c) + o \div blksz
  /\ ofs' = o % blksz
  /\ Goto("block")

\* One step of get_nth_cluster.
Walk ==
  /\ pc = "look" /\ nth_cls < cls_num
  /\ fat[ncls] \in Clusters
  /\ ncls' = fat[ncls] /\ nth_cls' = nth_cls + 1
  /\ UNCHANGED <<file, mutex, pc, request, copy, answer, touched>>

\* It cannot go on: the read ends with EIO, and the position stays.
WalkEnds_Locked ==
  /\ pc = "look" /\ nth_cls < cls_num
  /\ \/ fat[ncls] \in {FREE, EOF} /\ UNCHANGED failed
     \/ "entry" \in Fail /\ failed' = TRUE
  /\ ret' = -EIO
  /\ Goto("idle")
  /\ UNCHANGED <<file, mutex, request, walk, copy, out, err, touched>>

WalkEnds ==
  /\ pc = "look" /\ nth_cls < cls_num
  /\ \/ fat[ncls] \in {FREE, EOF} /\ UNCHANGED failed
     \/ "entry" \in Fail /\ failed' = TRUE
  /\ ret' = -EIO
  /\ Goto("unlock")
  /\ UNCHANGED <<file, mutex, request, walk, copy, out, err, touched>>

Found ==
  /\ pc = "look" /\ nth_cls = cls_num
  /\ EnterCluster(ncls, cls_ofs, len)
  /\ UNCHANGED <<file, mutex, request, nth_cls, answer, touched>>

-----------------------------------------------------------------------------
(* copy_phyblocks_impl, copy_phyblock_impl, sbread *)

\* sbread changes the second byte of the block and writes the block.  The
\* byte goes round the letters, so it may come back to what it was.
Touch ==
  IF nblk = Watched
  THEN touched' = TRUE \/ (touched /\ touched' = FALSE)
  ELSE UNCHANGED touched

\* The first k bytes from offset ofs of the block go to the user.
Copied(k) ==
  /\ out' = out \o [i \in 1..k |-> <<nblk, ofs + i - 1>>]
  /\ len' = len - k /\ left' = left - k

piece == Least(left, blksz - ofs)

\* The block, and what the loop goes on with.
CopyBlock_KeepsOffset ==
  /\ pc = "block"
  /\ Touch /\ Copied(piece)
  /\ IF left > piece
     THEN nblk' = nblk + 1 /\ UNCHANGED <<ofs, pc>>
     ELSE Goto("next") /\ UNCHANGED <<nblk, ofs>>
  /\ UNCHANGED <<file, mutex, request, walk, err, ret, failed>>

CopyBlock ==
  /\ pc = "block"
  /\ Touch /\ Copied(piece)
  /\ IF left > piece
     THEN nblk' = nblk + 1 /\ ofs' = 0 /\ UNCHANGED pc
     ELSE Goto("next") /\ UNCHANGED <<nblk, ofs>>
  /\ UNCHANGED <<file, mutex, request, walk, err, ret, failed>>

\* sb_bread gives no block.
BlockError ==
  /\ "block" \in Fail
  /\ pc = "block"
  /\ err' = EIO /\ failed' = TRUE
  /\ Finish(out, EIO)
  /\ UNCHANGED <<file, mutex, n, walk, copy, out, touched>>

\* copy_to_user leaves the last bytes of the piece out.
UserError ==
  /\ "user" \in Fail
  /\ pc = "block"
  /\ Touch
  /\ \E k \in 0..(piece - 1) : Copied(k) /\ Finish(out', EIO)
  /\ err' = EIO /\ failed' = TRUE
  /\ UNCHANGED <<file, mutex, n, walk, nblk, ofs>>

-----------------------------------------------------------------------------
(* copy_clusters_impl after a cluster: get_next_cluster comes before the test
   whether any bytes are left. *)

NextError ==
  /\ "entry" \in Fail
  /\ pc = "next"
  /\ failed' = TRUE
  /\ Finish(out, err)
  /\ UNCHANGED <<file, mutex, n, walk, copy, out, err, touched>>

NextEnds ==
  /\ pc = "next" /\ fat[ncls] \in {FREE, EOF}
  /\ err' = EIO
  /\ Finish(out, EIO)
  /\ UNCHANGED <<file, mutex, n, walk, copy, out, failed, touched>>

NextCluster ==
  /\ pc = "next" /\ fat[ncls] \in Clusters
  /\ len > 0
  /\ EnterCluster(fat[ncls], 0, len)
  /\ UNCHANGED <<file, mutex, request, nth_cls, answer, touched>>

AllCopied ==
  /\ pc = "next" /\ fat[ncls] \in Clusters
  /\ len = 0
  /\ Finish(out, err)
  /\ UNCHANGED <<file, mutex, n, walk, copy, out, err, failed, touched>>

\* file2inode_release, and the return to the process: the variables of the
\* call are gone.
Unlock ==
  /\ pc = "unlock"
  /\ i_mutex' = NoProc
  /\ Goto("idle")
  /\ pos' = 0 /\ n' = 0
  /\ ncls' = i_start /\ nth_cls' = 0
  /\ len' = 0 /\ left' = 0 /\ nblk' = data_start /\ ofs' = 0
  /\ out' = <<>> /\ err' = 0 /\ ret' = 0 /\ failed' = FALSE
  /\ UNCHANGED <<file, waiting, touched>>

-----------------------------------------------------------------------------
Read == \/ Walk \/ WalkEnds \/ Found
        \/ CopyBlock \/ BlockError \/ UserError
        \/ NextError \/ NextEnds \/ NextCluster \/ AllCopied
        \/ Unlock

Next == Read \/ \E p \in Procs : Call(p) \/ Lock(p)

Spec == Init /\ [][Next]_vars

\* A process in the kernel runs on, and the mutex is handed on in turn.
FairSpec == Spec /\ WF_vars(Read) /\ \A p \in Procs : SF_vars(Lock(p))

-----------------------------------------------------------------------------
(* Properties *)

\* The variables keep their types; the arithmetic of positions never leaves
\* the volume, the cluster or the block.
TypeOK ==
  /\ fat \in Tables /\ i_start \in Clusters /\ i_size \in Sizes
  /\ waiting \subseteq Procs /\ i_mutex \in Procs \cup {NoProc}
  /\ pc \in {"idle", "look", "block", "next", "unlock"}
  /\ pc # "idle" <=> i_mutex # NoProc
  /\ pos \in 0..MaxSize /\ n \in Counts \cup {0}
  /\ ncls \in Clusters /\ nth_cls \in 0..(MaxSize \div clssz)
  /\ len \in 0..MaxSize /\ left \in 0..clssz
  /\ nblk \in Blocks /\ ofs \in 0..(blksz - 1)
  /\ out \in Seq(Blocks \X (0..(blksz - 1))) /\ Len(out) <= MaxSize
  /\ err \in {0, EIO} /\ ret \in -EIO..MaxSize /\ failed \in BOOLEAN
  /\ touched \in BOOLEAN

\* The clusters of the file, in order; EOF or FREE behind its end.
Chain ==
  LET nth[k \in 0..(MaxSize \div clssz + 1)] ==
        IF k = 0 THEN i_start
        ELSE LET c == nth[k - 1] IN IF c \in Clusters THEN fat[c] ELSE c
  IN  nth

\* Where the byte at position i of the file is, and whether there is one.
Holds(i)   == i < i_size /\ Chain[i \div clssz] \in Clusters
Address(i) ==
  <<data_start + (Chain[i \div clssz] - 2) * sec_per_clus + (i % clssz) \div blksz,
    i % blksz>>

\* Where this call began to read.
from == IF pc = "unlock" THEN pos - Len(out) ELSE pos

\* The user gets the bytes of the file from *ppos on, in order, however they
\* are spread over blocks and clusters and wherever a failure ends the read,
\* and *ppos moves by as many as were copied.
RightBytes ==
  pc # "idle" =>
    \A i \in 1..Len(out) : Holds(from + i - 1) /\ out[i] = Address(from + i - 1)

\* When nothing fails the read ends with all that was asked for and that the
\* file holds, even if its chain is shorter than its size or goes in a circle.
Whole ==
  pc = "unlock" /\ ~failed =>
    Len(out) = Cardinality({i \in 0..(MaxSize - 1) : from <= i /\ i < from + n /\ Holds(i)})

\* The result is the number of bytes that were copied; it is an error only if
\* there are none and something failed or the file's chain ends before its
\* size.  A read of no bytes in the last cluster is the exception: it is told
\* EIO, because the end of the chain is met after it.
HonestAnswer ==
  pc = "unlock" =>
    \/ ret = Len(out)
    \/ /\ ret = -EIO /\ out = <<>>
       /\ \/ failed
          \/ ~Holds(from) /\ from < i_size
          \/ n = 0 /\ Chain[from \div clssz + 1] \in {EOF, FREE}

\* What a read answers, with positions that never leave the volume, the cluster
\* or the block on the way.
Answer == TypeOK /\ Whole /\ HonestAnswer

\* A process that calls read returns from it, with the mutex released.
Returns == \A p \in Procs : p \in waiting ~> p \notin waiting /\ p # i_mutex

\* A read leaves the volume as it is ("READ (file, ofs, len, ds)" of
\* spec_simpl.sats speaks of one file, "WRITE" of one before and one after).
\* Not kept: README, "Where the code and its words differ".
ReadOnly == ~touched
=============================================================================
