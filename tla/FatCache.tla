------------------------------ MODULE FatCache ------------------------------
(* The per-inode cache of cluster extents of the traced FAT driver            *)
(* (C/myfat/cache.c), with the operations that use it: the block mapping of   *)
(* reads, the appending of a cluster and the truncation of a file.  Reads run *)
(* concurrently under page locks; append and truncate hold i_mutex.  A step is *)
(* what runs under cache_lru_lock, or one read or write of a FAT entry.       *)
EXTENDS Integers, Sequences, FiniteSets

CONSTANTS Procs,      \* processes inside the driver, all on one file
          NoProc,     \* nobody holds i_mutex
          NClusters,  \* clusters of the volume, numbered from 1 here
          Files,      \* the chains that the file may have when its inode is read
          MaxCache,   \* FAT_MAX_CACHE, 8 in the code
          IdSpace     \* cache_valid_id is a counter modulo this (2^32)

ASSUME NoProcAssumption == NoProc \notin Procs
ASSUME SizeAssumption ==
  /\ NClusters \in Nat \ {0}
  /\ \A f \in Files :
       /\ f \in Seq(1 .. NClusters) /\ Len(f) <= NClusters
       /\ \A i, j \in DOMAIN f : f[i] = f[j] => i = j
  /\ MaxCache \in Nat \ {0}
  /\ IdSpace \in Nat \ {0, 1}

Cluster == 1 .. NClusters
Free    == 0               \* FAT_ENT_FREE
Eof     == NClusters + 1   \* FAT_ENT_EOF: above every cluster and every index
Valid   == 0               \* FAT_CACHE_VALID
Ids     == 0 .. IdSpace - 1

(* An extent says that the clusters f .. f+n of the file are d .. d+n.  A copy *)
(* of one, struct fat_cache_id, also has the id it was taken under.            *)
Extent == {e \in [f : Nat \ {0}, d : Cluster, n : Nat] : e.d + e.n \in Cluster}
Copy   == [f : Nat \cup {-1}, d : Cluster \cup {-1}, n : Nat, id : Ids]
Dummy  == [f |-> -1, d |-> -1, n |-> 0, id |-> Valid]

VARIABLES fat,      \* the FAT: the successor of each cluster
          start,    \* i_start
          iblocks,  \* i_blocks, in clusters
          size,     \* i_size, in clusters
          lru,      \* cache_lru, the most recently used first
          nrCaches, \* nr_caches
          validId,  \* cache_valid_id
          mutex,    \* who holds i_mutex
          proc,     \* each process's local variables
          fault     \* what the driver has done that it cannot recover from

vars == <<fat, start, iblocks, size, lru, nrCaches, validId, mutex, proc, fault>>
cache == <<lru, nrCaches, validId>>
file  == <<fat, start, iblocks, size>>

(* op is the caller of fat_get_cluster, target its "cluster" argument; fc and  *)
(* dc are *fclus and *dclus; arg is the cluster to append or the length to cut *)
(* to (while freeing, the first cluster to free).                              *)
Local == [pc : {"idle", "lookup", "walk", "add", "alloc", "got", "free", "fail"},
          op : {"none", "read", "append", "cut"}, target : Nat, cid : Copy,
          fc : Nat, dc : 0 .. NClusters, arg : Nat]
Idle == [pc |-> "idle", op |-> "none", target |-> 0, cid |-> Dummy,
         fc |-> 0, dc |-> 0, arg |-> 0]

(* An inode just filled from its directory entry: the chain is on the disk and *)
(* the cache is empty.                                                         *)
Init ==
  /\ \E f \in Files :
       /\ fat = [c \in Cluster |->
                   IF \E i \in DOMAIN f : f[i] = c
                   THEN LET i == CHOOSE j \in DOMAIN f : f[j] = c
                        IN  IF i = Len(f) THEN Eof ELSE f[i + 1]
                   ELSE Free]
       /\ start = IF f = <<>> THEN 0 ELSE f[1]
       /\ iblocks = Len(f) /\ size = Len(f)
  /\ lru = <<>> /\ nrCaches = 0
  /\ validId \in Ids \ {Valid}
  /\ mutex = NoProc
  /\ proc = [p \in Procs |-> Idle]
  /\ fault = "none"

(* cache_lru_lock can be taken: nobody has died holding it.                    *)
LockFree == fault # "bug"

Goto(p, pc) == proc' = [proc EXCEPT ![p].pc = pc]

(* The head of fat_get_cluster: cluster 0 is i_start itself, any other one is  *)
(* looked up.  The callers have seen that i_start is not 0.                     *)
GetCluster(me, t) ==
  [me EXCEPT !.pc = IF t = 0 THEN "got" ELSE "lookup",
             !.target = t, !.cid = Dummy, !.fc = 0, !.dc = start]

-----------------------------------------------------------------------------
(* The list.                                                                  *)

(* fat_cache_update_lru: the i-th entry becomes the first.                     *)
ToFront(i) ==
  <<lru[i]>> \o SubSeq(lru, 1, i - 1) \o SubSeq(lru, i + 1, Len(lru))

\* X_Y is a wrong X, here and below: README, "Faulty variants".
Covers_OneMore(e, t) == e.f + e.n + 1 >= t
Covers(e, t) == e.f + e.n >= t

(* The places where the scan of fat_cache_lookup has replaced its best entry   *)
(* so far, if it does not stop.                                                *)
Bests(t) ==
  {i \in DOMAIN lru : /\ lru[i].f <= t
                      /\ \A j \in 1 .. i - 1 : lru[j].f <= t => lru[j].f < lru[i].f}

(* It stops at the first of them that covers t.                                *)
IsHit(i, t) ==
  LET covering == {j \in Bests(t) : Covers(lru[j], t)}
  IN  /\ i \in Bests(t)
      /\ IF covering = {} THEN \A j \in Bests(t) : j <= i
         ELSE i \in covering /\ \A j \in covering : i <= j

(* fat_cache_lookup, under the lock.                                           *)
Lookup(p) ==
  LET t == proc[p].target IN
  /\ proc[p].pc = "lookup" /\ LockFree
  /\ \/ /\ Bests(t) = {}
        /\ Goto(p, "walk")
        /\ UNCHANGED lru
     \/ \E i \in DOMAIN lru :
          LET e   == lru[i]
              off == IF Covers(e, t) THEN t - e.f ELSE e.n
          IN  /\ IsHit(i, t)
              /\ lru' = ToFront(i)
              /\ proc' = [proc EXCEPT
                   ![p].cid = [f |-> e.f, d |-> e.d, n |-> e.n, id |-> validId],
                   ![p].fc = e.f + off, ![p].dc = e.d + off,
                   ![p].pc = IF Covers(e, t) THEN "add" ELSE "walk"]
  /\ UNCHANGED <<file, nrCaches, validId, mutex, fault>>

(* One turn of the loop of fat_get_cluster: the successor joins the extent     *)
(* being collected if it is contiguous, or starts a new one.                   *)
Walk(p) ==
  LET me == proc[p]
      next == fat[me.dc]
      cid == IF me.cid.d + me.cid.n + 1 = next
             THEN [me.cid EXCEPT !.n = @ + 1]
             ELSE [f |-> me.fc + 1, d |-> next, n |-> 0, id |-> Valid]
  IN
  /\ me.pc = "walk"
  /\ IF next = Eof THEN Goto(p, "add")
     ELSE /\ next # Free
          /\ proc' = [proc EXCEPT ![p].cid = cid, ![p].fc = @ + 1, ![p].dc = next,
                        ![p].pc = IF me.fc + 1 = me.target THEN "add" ELSE "walk"]
  /\ UNCHANGED <<file, cache, mutex, fault>>

(* The exits of the loop with an error: a FAT block that cannot be read, a     *)
(* free cluster in the chain.                                                  *)
WalkFails(p) ==
  /\ proc[p].pc = "walk"
  /\ Goto(p, "fail")
  /\ UNCHANGED <<file, cache, mutex, fault>>

(* fat_cache_merge: the entry that starts where the copy starts, lengthened.   *)
Same(new) == {i \in DOMAIN lru : lru[i].f = new.f}

Merged(new, i) ==
  [ToFront(i) EXCEPT ![1].n = IF new.n > @ THEN new.n ELSE @]

(* Merging checks that the two agree on the disk cluster: BUG_ON stops the     *)
(* kernel with the spin lock held.                                             *)
Disagree(new) == \E i \in Same(new) : lru[i].d # new.d
BugOn(p) == Disagree(proc[p].cid) /\ fault' = "bug" /\ UNCHANGED <<cache, proc>>

AsExtent(new) == [f |-> new.f, d |-> new.d, n |-> new.n]

(* There is room for one more entry: nr_caches < fat_max_cache.                *)
Room == nrCaches < MaxCache

(* The copy was made by this walk, or after the last invalidation.             *)
Current_Any(new) == TRUE
Current(new) == new.id \in {Valid, validId}

(* fat_cache_add until it returns or drops the lock to allocate.  A full list  *)
(* gives its last entry; the last entry of an empty list is the list head,     *)
(* which is then written as if it were one.                                    *)
Add(p) ==
  LET new == proc[p].cid IN
  /\ proc[p].pc = "add" /\ LockFree
  /\ \/ /\ \/ new.f = -1
           \/ ~Current(new)
        /\ Goto(p, "got")
        /\ UNCHANGED <<cache, fault>>
     \/ /\ new.f # -1 /\ Current(new)
        /\ \/ BugOn(p)
           \/ /\ ~Disagree(new)
              /\ \E i \in Same(new) : lru' = Merged(new, i)
              /\ Goto(p, "got")
              /\ UNCHANGED <<nrCaches, fault>>
           \/ /\ Same(new) = {} /\ Room
              /\ nrCaches' = nrCaches + 1
              /\ Goto(p, "alloc")
              /\ UNCHANGED <<lru, fault>>
           \/ /\ Same(new) = {} /\ ~Room
              /\ IF lru = <<>> THEN fault' = "wild" /\ UNCHANGED lru
                 ELSE /\ lru' = <<AsExtent(new)>> \o SubSeq(lru, 1, Len(lru) - 1)
                      /\ UNCHANGED fault
              /\ Goto(p, "got")
              /\ UNCHANGED nrCaches
        /\ UNCHANGED validId
  /\ UNCHANGED <<file, mutex>>

(* Another process has added the extent meanwhile.                             *)
NotNeeded_Kept == nrCaches' = nrCaches
NotNeeded == nrCaches' = nrCaches - 1

(* fat_cache_add after the allocation, with the lock again.  The id is not     *)
(* looked at a second time.                                                    *)
AddAllocated(p) ==
  LET new == proc[p].cid IN
  /\ proc[p].pc = "alloc" /\ LockFree
  /\ \/ BugOn(p)
     \/ /\ ~Disagree(new)
        /\ \E i \in Same(new) : lru' = Merged(new, i)
        /\ NotNeeded
        /\ Goto(p, "got")
        /\ UNCHANGED fault
     \/ /\ Same(new) = {}
        /\ lru' = <<AsExtent(new)>> \o lru
        /\ Goto(p, "got")
        /\ UNCHANGED <<nrCaches, fault>>
  /\ UNCHANGED <<file, validId, mutex>>

(* cache_valid_id skips the value that stands for "always valid".              *)
NextId ==
  LET n == (validId + 1) % IdSpace IN IF n = Valid THEN Valid + 1 ELSE n

(* fat_cache_inval_inode.                                                      *)
Invalidate ==
  /\ LockFree
  /\ lru' = <<>>
  /\ nrCaches' = nrCaches - Len(lru)
  /\ validId' = NextId

(* The bound on the id: it does not come round to one that a copy still holds, *)
(* which takes 2^32 invalidations during one fat_get_cluster.                  *)
IdNotReused == \A p \in Procs : proc[p].pc = "idle" \/ proc[p].cid.id # NextId

-----------------------------------------------------------------------------
(* Reads.                                                                     *)

(* fat_bmap for a block inside the file.  The page lock (or i_alloc_sem) is    *)
(* held until Return, so truncation to this length or less waits.              *)
ReadBegin(p) ==
  /\ proc[p].pc = "idle"
  /\ \E t \in 0 .. size - 1 :
       proc' = [proc EXCEPT ![p] = GetCluster([Idle EXCEPT !.op = "read"], t)]
  /\ UNCHANGED <<file, cache, mutex, fault>>

(* The mapping is used.  In an append it was the mapping of the new block, and *)
(* the write that asked for it ends by moving i_size.                          *)
Return(p) ==
  /\ proc[p].pc = "got" /\ proc[p].op = "read"
  /\ proc' = [proc EXCEPT ![p] = Idle]
  /\ IF mutex = p THEN size' = size + 1 /\ mutex' = NoProc
     ELSE UNCHANGED <<size, mutex>>
  /\ UNCHANGED <<fat, start, iblocks, cache, fault>>

-----------------------------------------------------------------------------
(* Append, under i_mutex.                                                     *)

(* fat_add_cluster: a free cluster becomes a chain of one, and fat_chain_add   *)
(* looks for the last cluster of the file.                                     *)
AppendBegin(p) ==
  /\ proc[p].pc = "idle" /\ mutex = NoProc
  /\ \E c \in Cluster :
       LET me == [Idle EXCEPT !.op = "append", !.arg = c] IN
       /\ fat[c] = Free
       /\ fat' = [fat EXCEPT ![c] = Eof]
       /\ proc' = [proc EXCEPT ![p] = IF start = 0 THEN [me EXCEPT !.pc = "got"]
                                      ELSE GetCluster(me, Eof)]
  /\ mutex' = p
  /\ UNCHANGED <<start, iblocks, size, cache, fault>>

(* The rest of fat_chain_add, then __fat_get_block maps the block again.       *)
Link(p) ==
  LET me == proc[p]
      newFclus == IF start = 0 THEN 0 ELSE me.fc + 1
  IN
  /\ me.pc = "got" /\ me.op = "append"
  /\ IF start = 0 THEN start' = me.arg /\ UNCHANGED fat
     ELSE fat' = [fat EXCEPT ![me.dc] = me.arg] /\ UNCHANGED start
  /\ IF newFclus # iblocks THEN Invalidate /\ IdNotReused ELSE UNCHANGED cache
  /\ iblocks' = iblocks + 1
  /\ proc' = [proc EXCEPT ![p] =
                [GetCluster([Idle EXCEPT !.op = "read"], size) EXCEPT !.dc = start']]
  /\ UNCHANGED <<size, mutex, fault>>

-----------------------------------------------------------------------------
(* Truncate, under i_mutex.                                                   *)

(* The new i_size, truncate_inode_pages, which waits for the pages beyond it,  *)
(* and the first part of fat_free.                                             *)
CutBegin(p) ==
  /\ proc[p].pc = "idle" /\ mutex = NoProc /\ IdNotReused
  /\ \E k \in 0 .. size - 1 :
       LET me == [Idle EXCEPT !.op = "cut", !.arg = k] IN
       /\ \A q \in Procs : proc[q].pc # "idle" => proc[q].target < k
       /\ size' = k
       /\ IF k = 0 THEN /\ start' = 0
                        /\ proc' = [proc EXCEPT ![p] =
                                      [me EXCEPT !.pc = "free", !.dc = start]]
          ELSE /\ proc' = [proc EXCEPT ![p] = GetCluster(me, k - 1)]
               /\ UNCHANGED start
  /\ Invalidate
  /\ mutex' = p
  /\ UNCHANGED <<fat, iblocks, fault>>

(* The same with IS_DIRSYNC when the size cannot be written: i_start is put    *)
(* back and nothing is freed.                                                  *)
CutNotWritten(p) ==
  /\ proc[p].pc = "idle" /\ mutex = NoProc /\ IdNotReused
  /\ \E k \in 0 .. size - 1 :
       /\ \A q \in Procs : proc[q].pc # "idle" => proc[q].target < k
       /\ size' = k
  /\ Invalidate
  /\ UNCHANGED <<fat, start, iblocks, mutex, proc, fault>>

(* The last cluster to keep gets the end mark, if it does not have it.         *)
CutChain(p) ==
  LET me == proc[p] IN
  /\ me.pc = "got" /\ me.op = "cut"
  /\ IF fat[me.dc] \in Cluster
     THEN /\ fat' = [fat EXCEPT ![me.dc] = Eof]
          /\ proc' = [proc EXCEPT ![p].pc = "free", ![p].dc = fat[me.dc]]
          /\ UNCHANGED mutex
     ELSE /\ proc' = [proc EXCEPT ![p] = Idle]
          /\ mutex' = NoProc
          /\ UNCHANGED fat
  /\ UNCHANGED <<start, iblocks, size, cache, fault>>

(* The clusters of the chain that starts at c.                                 *)
Place(c) ==
  LET at[i \in 0 .. NClusters] ==
        IF i = 0 THEN c ELSE IF at[i - 1] \in Cluster THEN fat[at[i - 1]] ELSE Eof
  IN  at

ChainFrom(c) == {Place(c)[i] : i \in 0 .. NClusters} \cap Cluster

(* i_blocks and fat_free_clusters, which holds lock_fat for the whole chain.   *)
FreeTail(p) ==
  LET tail == ChainFrom(proc[p].dc) IN
  /\ proc[p].pc = "free"
  /\ fat' = [c \in Cluster |-> IF c \in tail THEN Free ELSE fat[c]]
  /\ iblocks' = proc[p].arg
  /\ proc' = [proc EXCEPT ![p] = Idle]
  /\ mutex' = NoProc
  /\ UNCHANGED <<start, size, cache, fault>>

(* An error of fat_get_cluster, or of reading the entry to change, goes to the *)
(* caller; a new cluster that was not linked is freed.                         *)
Fail(p) ==
  LET me == proc[p] IN
  /\ me.pc = "fail"
  /\ fat' = IF me.op = "append" THEN [fat EXCEPT ![me.arg] = Free] ELSE fat
  /\ proc' = [proc EXCEPT ![p] = Idle]
  /\ mutex' = IF mutex = p THEN NoProc ELSE mutex
  /\ UNCHANGED <<start, iblocks, size, cache, fault>>

EntryNotRead(p) ==
  /\ proc[p].pc = "got" /\ proc[p].op \in {"append", "cut"} /\ start # 0
  /\ Goto(p, "fail")
  /\ UNCHANGED <<file, cache, mutex, fault>>

-----------------------------------------------------------------------------
Step(p) ==
  \/ Lookup(p) \/ Walk(p) \/ WalkFails(p) \/ Add(p) \/ AddAllocated(p)
  \/ ReadBegin(p) \/ Return(p)
  \/ AppendBegin(p) \/ Link(p)
  \/ CutBegin(p) \/ CutNotWritten(p) \/ CutChain(p) \/ FreeTail(p)
  \/ Fail(p) \/ EntryNotRead(p)

Next == \E p \in Procs : Step(p)

Spec == Init /\ [][Next]_vars

-----------------------------------------------------------------------------
(* The file's clusters, by index.                                              *)
At == Place(start)

Describes(e) ==
  \A k \in 0 .. e.n : e.f + k <= NClusters /\ At[e.f + k] = e.d + k

(* The types of the state.  An extent always lies inside the volume, even one *)
(* that no longer describes the file.                                          *)
TypeOK ==
  /\ fat \in [Cluster -> 0 .. Eof]
  /\ start \in 0 .. NClusters /\ iblocks \in Nat /\ size \in Nat
  /\ lru \in Seq(Extent)
  /\ nrCaches \in Nat
  /\ validId \in Ids \ {Valid}
  /\ mutex \in Procs \cup {NoProc}
  /\ fault \in {"none", "bug", "wild"}
  /\ proc \in [Procs -> Local]

(* The extents in the list describe the file's chain as it is now, and no two  *)
(* start at the same place.                                                    *)
CacheSound ==
  /\ fault # "bug"
  /\ \A i \in DOMAIN lru : Describes(lru[i])
  /\ \A i, j \in DOMAIN lru : lru[i].f = lru[j].f => i = j

(* A read is answered with the cluster that the chain has at that index.       *)
RightCluster ==
  \A p \in Procs :
    proc[p].pc = "got" /\ proc[p].op = "read" =>
      proc[p].fc = proc[p].target /\ proc[p].dc = At[proc[p].target]

Reserved == {p \in Procs : proc[p].pc = "alloc"}

(* nr_caches counts the entries and the allocations under way.                 *)
CountExact == nrCaches = Len(lru) + Cardinality(Reserved) /\ nrCaches <= MaxCache

NeverWild == fault # "wild"

(* The types hold, the places of the cache are counted exactly although one is *)
(* taken before the lock is dropped to allocate, and the head of the list is   *)
(* never written as if it were an entry.                                       *)
Places == TypeOK /\ CountExact /\ NeverWild

(* "The copy of caches before this id is discarded" (the comment in            *)
(* __fat_cache_inval_inode): a copy taken before an invalidation does not      *)
(* enter the list after it.                                                    *)
(* Not kept: README, "Where the code and its words differ".                    *)
CopiesDiscarded ==
  [][\A p \in Procs :
       lru' # lru /\ proc[p].pc \in {"add", "alloc"} /\ proc'[p].pc = "got" =>
         proc[p].cid.id \in {Valid, validId}]_vars
=============================================================================
