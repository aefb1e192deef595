------------------------------ MODULE FatTable ------------------------------
(***************************************************************************)
(* The file allocation table of src/ATS/myfat/fat_entry.c, and how it is   *)
(* used to make a directory longer: fat_add_new_entries allocates and      *)
(* fills one or two clusters, fat_chain_add puts them at the end of the    *)
(* directory's chain, and any failure on the way frees them again.         *)
(*                                                                         *)
(* The callers, msdos_create and vfat_create, hold lock_super throughout:  *)
(* one directory grows at a time, and fat_lock is never waited for.  What  *)
(* makes the order of the steps matter is that any of them may fail.  One  *)
(* backup table stands for all of them.                                    *)
(***************************************************************************)
EXTENDS Integers, Sequences, FiniteSets, Functions

CONSTANTS
  Dirs,         \* directories
  max_cluster,  \* the entries are those from 2 to max_cluster - 1
  PerBlock,     \* entries in a block of the table
  start,        \* start[d]: the first cluster of directory d
  Fail          \* the calls that may fail, of the ones below

Clusters == 2..(max_cluster - 1)
Failures == {"scan", "mirror", "fill", "last", "link", "free"}

FREE == 0
EOF  == 1     \* FAT_ENT_EOF, and what stands for a bad cluster

ASSUME TableAssumption ==
  /\ IsFiniteSet(Dirs) /\ Dirs # {}
  /\ max_cluster \in Nat /\ max_cluster > 2 /\ PerBlock \in Nat \ {0}
  /\ start \in [Dirs -> Clusters]
  /\ \A d, e \in Dirs : d # e => start[d] # start[e]
  /\ Fail \subseteq Failures

VARIABLES
  fat,              \* fat[c]: the entry of c in the first table
  backup,           \* the same in the other tables
  free_clusters,    \* number of free clusters, -1 if undefined
  free_clus_valid,
  prev_free,        \* the cluster allocated last
  size,             \* size[d]: the size of directory d, in clusters
  pc,
  dir,              \* the directory that is being made longer
  cluster,          \* the clusters allocated and not added yet
  bhs,              \* the blocks still to be copied to the backup
  lost, stale       \* history: clusters and backup blocks a failure left behind

counts  == <<free_clusters, free_clus_valid, prev_free>>
history == <<lost, stale>>
vars    == <<fat, backup, counts, size, pc, dir, cluster, bhs, history>>

Goto(l) == pc' = l
Free == {c \in Clusters : fat[c] = FREE}
Block(c) == c \div PerBlock
Blocks(cs) == {Block(c) : c \in cs}

Init ==
  /\ fat = [c \in Clusters |-> IF c \in Range(start) THEN EOF ELSE FREE]
  /\ backup = fat
  /\ \/ free_clus_valid = FALSE /\ free_clusters \in -1..(max_cluster - 2)
     \/ free_clus_valid = TRUE /\ free_clusters = Cardinality(Free)
  /\ prev_free \in Clusters
  /\ size = [d \in Dirs |-> 1]
  /\ pc = "idle"
  /\ dir \in Dirs
  /\ cluster = <<>> /\ bhs = {}
  /\ lost = {} /\ stale = {}

-----------------------------------------------------------------------------
(* fat_alloc_clusters *)

\* The order of the search: from the cluster after prev_free round to it.
Rank(c) == (c - (prev_free + 1)) % (max_cluster - 2)
Before(c) == Cardinality({f \in Free : Rank(f) < Rank(c)})
Found(k) == [i \in 1..k |-> CHOOSE c \in Free : Before(c) = i - 1]

\* Where the search reads another block, and what it has found by then.
Reads == {c \in Clusters : Rank(c) = 0 \/ c = 2 \/ c % PerBlock = 0}

\* The table with the clusters of s linked to each other.
Chained(s) ==
  [c \in Clusters |->
     IF \E i \in DOMAIN s : s[i] = c
     THEN LET i == CHOOSE j \in DOMAIN s : s[j] = c
          IN  IF i = Len(s) THEN EOF ELSE s[i + 1]
     ELSE fat[c]]

\* Not refused, by a number of free clusters that is known and valid.
Admitted(nr) == ~(free_clusters # -1 /\ free_clus_valid /\ free_clusters < nr)

\* free_clusters after k clusters were taken: -1, once reached, is "undefined".
Less(k) == IF free_clusters = -1 \/ free_clusters < k THEN -1 ELSE free_clusters - k

\* The blocks of the clusters in s, each once.  X_Y is a wrong X throughout:
\* README, "Faulty variants".
Collected_Last(s) == {Block(s[Len(s)])}
Collected(s) == Blocks(Range(s))

AllocRefused ==
  /\ pc = "idle"
  /\ \E nr \in 1..2 : ~Admitted(nr)
  /\ UNCHANGED vars

Take(k) ==
  /\ dir' \in Dirs
  /\ fat' = Chained(Found(k))
  /\ cluster' = Found(k)
  /\ prev_free' = IF k = 0 THEN prev_free ELSE Found(k)[k]

Alloc ==
  /\ pc = "idle"
  /\ \E nr \in 1..2 :
       /\ Admitted(nr) /\ nr <= Cardinality(Free)
       /\ Take(nr)
       /\ free_clusters' = Less(nr)
       /\ bhs' = Collected(Found(nr))
  /\ Goto("a_mirror")
  /\ UNCHANGED <<backup, free_clus_valid, size, history>>

\* The call fails with k clusters taken: it gives them back.
Undo(k) == IF k = 0 THEN UNCHANGED pc ELSE Goto("free")


AllocNoSpace ==
  /\ pc = "idle"
  /\ LET k == Cardinality(Free) IN
       /\ \E nr \in (k + 1)..2 : Admitted(nr)
       /\ Take(k)
       /\ Undo(k)
  /\ free_clusters' = 0 /\ free_clus_valid' = TRUE
  /\ UNCHANGED <<backup, size, bhs, history>>

\* A block cannot be read, after the search has found k clusters before it.
AllocReadError ==
  /\ "scan" \in Fail
  /\ pc = "idle"
  /\ \E k \in {Before(c) : c \in Reads} :
       /\ \E nr \in (k + 1)..2 : Admitted(nr)
       /\ Take(k)
       /\ Undo(k)
       /\ free_clusters' = Less(k)
  /\ UNCHANGED <<backup, free_clus_valid, size, bhs, history>>

-----------------------------------------------------------------------------
(* fat_mirror_bhs, and the sync before it *)

Mirroring == {"a_mirror", "l_mirror", "f_mirror"}

Mirror ==
  /\ pc \in Mirroring
  /\ \E b \in bhs :
       /\ backup' = [c \in Clusters |-> IF Block(c) = b THEN fat[c] ELSE backup[c]]
       /\ bhs' = bhs \ {b}
       /\ stale' = stale \ {b}
  /\ UNCHANGED <<fat, counts, size, dir, pc, cluster, lost>>

MirrorFails ==
  /\ pc \in Mirroring /\ bhs # {}
  /\ IF pc = "l_mirror" THEN "link" \in Fail ELSE "mirror" \in Fail
  /\ stale' = stale \cup bhs
  /\ bhs' = {}
  /\ IF pc = "f_mirror"
     THEN Goto("idle") /\ cluster' = <<>>
     ELSE Goto("free") /\ UNCHANGED cluster
  /\ UNCHANGED <<fat, backup, counts, size, dir, lost>>

AllocDone ==
  /\ pc = "a_mirror" /\ bhs = {}
  /\ Goto("fill")
  /\ UNCHANGED <<fat, backup, counts, size, dir, cluster, bhs, history>>

-----------------------------------------------------------------------------
(* Filling the clusters, and fat_chain_add *)

Fill ==
  /\ pc = "fill"
  /\ Goto("link") \/ ("fill" \in Fail /\ Goto("free"))
  /\ UNCHANGED <<fat, backup, counts, size, dir, cluster, bhs, history>>

\* The n-th cluster of the chain that begins at c, as table t has it.
At(t, c) ==
  LET at[n \in 0..max_cluster] ==
        IF n = 0 THEN c
        ELSE LET d == at[n - 1] IN IF d \in Clusters THEN t[d] ELSE d
  IN  at

\* The length of that chain, if it ends with EOF.
Ends(t, c, n) == At(t, c)[n] = EOF /\ At(t, c)[n - 1] \in Clusters

\* fat_get_cluster finds the last cluster; its entry gets the new one.
Last_Second(c, n) == IF n = 1 THEN c ELSE At(fat, c)[1]
Last(c, n) == At(fat, c)[n - 1]

\* fat_ent_write: the entry of c, and its block is to be mirrored.
Written(c, new) == fat' = [fat EXCEPT ![c] = new] /\ bhs' = {Block(c)}

Link ==
  /\ pc = "link"
  /\ \E n \in 1..max_cluster :
       /\ Ends(fat, start[dir], n)
       /\ Written(Last(start[dir], n), cluster[1])
  /\ Goto("l_mirror")
  /\ UNCHANGED <<backup, counts, size, dir, cluster, history>>

\* The last cluster is not found: a read fails, a free entry or a loop.
NoLast ==
  /\ pc = "link"
  /\ "last" \in Fail \/ \A n \in 1..max_cluster : ~Ends(fat, start[dir], n)
  /\ Goto("free")
  /\ UNCHANGED <<fat, backup, counts, size, dir, cluster, bhs, history>>

Grow ==
  /\ pc = "l_mirror" /\ bhs = {}
  /\ size' = [size EXCEPT ![dir] = @ + Len(cluster)]
  /\ cluster' = <<>>
  /\ Goto("idle")
  /\ UNCHANGED <<fat, backup, counts, dir, bhs, history>>

-----------------------------------------------------------------------------
(* fat_free_clusters *)

\* The first k clusters of the chain that begins at c.
Prefix(c, k) == {At(fat, c)[i] : i \in 0..(k - 1)}

GiveBack_First(k) ==
  /\ fat' = [c \in Clusters |-> IF c \in Prefix(cluster[1], 1) THEN FREE ELSE fat[c]]
  /\ free_clusters' = IF free_clusters = -1 THEN -1 ELSE free_clusters + k

GiveBack(k) ==
  /\ fat' = [c \in Clusters |-> IF c \in Prefix(cluster[1], k) THEN FREE ELSE fat[c]]
  /\ free_clusters' = IF free_clusters = -1 THEN -1 ELSE free_clusters + k

FreeChain ==
  /\ pc = "free"
  /\ \E n \in 1..max_cluster :
       /\ Ends(fat, cluster[1], n)
       /\ GiveBack(n)
       /\ bhs' = Blocks(Prefix(cluster[1], n))
  /\ Goto("f_mirror")
  /\ UNCHANGED <<backup, free_clus_valid, prev_free, size, dir, cluster, history>>

\* It stops at an entry that cannot be read; what it freed is not mirrored.
FreeReadError ==
  /\ "free" \in Fail
  /\ pc = "free"
  /\ \E n \in 1..max_cluster : \E k \in 0..(n - 1) :
       /\ Ends(fat, cluster[1], n)
       /\ GiveBack(k)
       /\ lost' = lost \cup (Prefix(cluster[1], n) \ Prefix(cluster[1], k))
       /\ stale' = stale \cup Blocks(Range(cluster))
  /\ cluster' = <<>>
  /\ Goto("idle")
  /\ UNCHANGED <<backup, free_clus_valid, prev_free, size, dir, bhs>>

FreeDone ==
  /\ pc = "f_mirror" /\ bhs = {}
  /\ cluster' = <<>>
  /\ Goto("idle")
  /\ UNCHANGED <<fat, backup, counts, size, dir, bhs, history>>

-----------------------------------------------------------------------------
Next ==
  \/ Alloc \/ AllocRefused \/ AllocNoSpace \/ AllocReadError \/ AllocDone
  \/ Mirror \/ MirrorFails
  \/ Fill \/ Link \/ NoLast \/ Grow
  \/ FreeChain \/ FreeReadError \/ FreeDone

Spec == Init /\ [][Next]_vars

-----------------------------------------------------------------------------
(* Properties *)

Labels == {"idle", "a_mirror", "fill", "link", "l_mirror", "free", "f_mirror"}

\* The variables keep their types; free_clusters never passes the number of
\* clusters, and is "undefined" where it would have passed zero.
TypeOK ==
  /\ fat \in [Clusters -> Clusters \cup {FREE, EOF}]
  /\ backup \in [Clusters -> Clusters \cup {FREE, EOF}]
  /\ free_clusters \in -1..(max_cluster - 2)
  /\ free_clus_valid \in BOOLEAN /\ prev_free \in Clusters
  /\ size \in [Dirs -> 1..(max_cluster - 2)]
  /\ pc \in Labels /\ dir \in Dirs
  /\ cluster \in Seq(Clusters) /\ Len(cluster) <= 2
  /\ bhs \subseteq Blocks(Clusters)
  /\ lost \subseteq Clusters /\ stale \subseteq Blocks(Clusters)

Members(c) == {At(fat, c)[n] : n \in 0..max_cluster} \cap Clusters

\* What is allocated and not yet added to the directory or given back.
InFlight == IF pc \in {"a_mirror", "fill", "link", "free"} THEN Range(cluster) ELSE {}

\* What the file system takes for granted of every chain ("invalid cluster
\* chain", "clusters badly computed"): a directory's chain ends, without a
\* free entry or a loop on the way, and is as long as the directory's size
\* says; no cluster is in two chains or about to be.
ChainsSound ==
  /\ \A d \in Dirs :
       \E n \in 1..max_cluster :
         /\ Ends(fat, start[d], n)
         /\ n = size[d] + IF pc = "l_mirror" /\ d = dir THEN Len(cluster) ELSE 0
  /\ InFlight # {} => Ends(fat, cluster[1], Len(cluster))
  /\ \A d \in Dirs : Members(start[d]) \cap InFlight = {}
  /\ \A d \in Dirs : \A e \in Dirs \ {d} : Members(start[d]) \cap Members(start[e]) = {}

\* No failure but that of a read in fat_free_clusters loses clusters: all that
\* are not free are in a directory or about to be added or given back.
NoLeak == Clusters \ Free = lost \cup InFlight \cup UNION {Members(start[d]) : d \in Dirs}

\* A count that counts as valid is right, so no allocation is refused while
\* there is room, whatever wrong count the volume was mounted with.
CountRight ==
  free_clus_valid /\ free_clusters # -1 => free_clusters = Cardinality(Free)

\* The accounts of the volume: no cluster is lost, the count is right.
Accounts == TypeOK /\ NoLeak /\ CountRight

\* Where the backup differs from the table, that block is still to be copied,
\* or was given up by a call that reported an error: a failed allocation whose
\* own blocks were never copied is undone in the backup too.
BackupFollows ==
  \A c \in Clusters :
    backup[c] # fat[c] => Block(c) \in stale \cup bhs \cup Blocks(InFlight)
=============================================================================
