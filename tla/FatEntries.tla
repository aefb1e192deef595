----------------------------- MODULE FatEntries -----------------------------
(* The entries of the file allocation table as bytes in blocks, in the three  *)
(* widths (C/myfat/fatent.c): how an entry is found, read and written, two of  *)
(* FAT12 sharing a byte and one lying in two blocks, and the loops over them   *)
(* that allocate, free and count clusters.  A process grows and cuts a file of *)
(* its own; all of them change bytes of the same blocks.  A step is one read   *)
(* or write of an entry, or the copying of one block.                          *)
EXTENDS Integers, Sequences, SequencesExt, FiniteSets

CONSTANTS Files,        \* files, each with the process that holds its i_mutex
          NoProc,       \* nobody holds fat_lock
          max_cluster,  \* the entries are 2 .. max_cluster - 1
          Formats,      \* [bits, blksz, bufs]: bufs is MAX_BUF_PER_PAGE
          Starts,       \* the first clusters the files may have
          Failing       \* what may fail: "alloc", "walk"

ASSUME NoProcAssumption == NoProc \notin Files
START    == 2              \* FAT_START_ENT
Clusters == START .. max_cluster - 1

(* Blocks are whole entries of 16 and 32 bits, and no cluster's number reads   *)
(* as a mark (BAD_FAT12, BAD_FAT16, BAD_FAT32).                                *)
ASSUME SizeAssumption == max_cluster \in Nat /\ max_cluster > START
ASSUME FormatAssumption ==
  \A v \in Formats :
    /\ v.bits \in {12, 16, 32}
    /\ v.blksz \in Nat \ {0} /\ v.blksz % 4 = 0
    /\ v.bufs \in Nat \ {0, 1}
    /\ max_cluster <= (CASE v.bits = 12 -> 4087 [] v.bits = 16 -> 65527 [] v.bits = 32 -> 268435447)
ASSUME StartsAssumption ==
  \A s \in Starts :
    s \in [Files -> Clusters] /\ \A p, q \in Files : s[p] = s[q] => p = q

FREE     == 0              \* FAT_ENT_FREE
EOF      == 268435455      \* FAT_ENT_EOF, which is EOF_FAT32

VARIABLES format,          \* the width of the entries and the size of the blocks
          fat,             \* the bytes of the table, as the buffers have them
          backup,          \* the bytes of the second table
          start,           \* i_start of each file
          fat_lock,        \* who holds it
          free_clusters, free_clus_valid, prev_free,
          proc             \* each process's local variables

vars  == <<format, fat, backup, start, fat_lock, free_clusters, free_clus_valid, prev_free, proc>>
count == <<free_clusters, free_clus_valid>>

bits  == format.bits
blksz == format.blksz

(* struct fat_entry: ptr has the one or two bytes that the pointers point to.   *)
NoEntry == [entry |-> 0, bhs |-> <<>>, ptr |-> <<>>]
Idle == [pc |-> "idle", fe |-> NoEntry, prev |-> NoEntry, n |-> 0, nr |-> 0,
         taken |-> <<>>, bhs |-> <<>>, then |-> "idle", cl |-> 0]

-----------------------------------------------------------------------------
(* The place of an entry.                                                     *)

Byte(e)    == IF bits = 12 THEN e + (e \div 2) ELSE e * (bits \div 8)
Offset(e)  == Byte(e) % blksz
Blocknr(e) == Byte(e) \div blksz
Crosses(e) == bits = 12 /\ Offset(e) + 1 >= blksz

SetPtr(bhs, offset) ==
  LET at == bhs[1] * blksz + offset
  IN  IF bits # 12 THEN <<at>>
      ELSE IF Len(bhs) = 1 THEN <<at, at + 1>> ELSE <<at, bhs[2] * blksz>>

Located(e, bhs) == [entry |-> e, bhs |-> bhs, ptr |-> SetPtr(bhs, Offset(e))]

(* ent_bread.                                                                  *)
ReadBlock(e) ==
  Located(e, IF Crosses(e) THEN <<Blocknr(e), Blocknr(e) + 1>> ELSE <<Blocknr(e)>>)

(* fat_ent_update_ptr: the blocks that are held have the entry.                *)
Includes(fe, e) ==
  /\ fe.bhs # <<>> /\ fe.bhs[1] = Blocknr(e)
  /\ Crosses(e) => Len(fe.bhs) = 2 /\ fe.bhs[2] = Blocknr(e) + 1

EntRead(fe, e) ==
  IF Includes(fe, e)
  THEN Located(e, IF Crosses(e) \/ bits # 12 THEN fe.bhs ELSE <<fe.bhs[1]>>)
  ELSE ReadBlock(e)

-----------------------------------------------------------------------------
(* The value of an entry.                                                     *)

Eof == CASE bits = 12 -> 4095 [] bits = 16 -> 65535 [] bits = 32 -> EOF
Bad == Eof - 8

Raw(fe) ==
  LET b(i) == fat[fe.ptr[1] + i]
  IN  CASE bits = 12 -> IF fe.entry % 2 = 1
                        THEN (fat[fe.ptr[1]] \div 16) + (fat[fe.ptr[2]] * 16)
                        ELSE (fat[fe.ptr[2]] * 256 + fat[fe.ptr[1]]) % 4096
        [] bits = 16 -> b(0) + 256 * b(1)
        [] bits = 32 -> b(0) + 256 * b(1) + 65536 * b(2) + 16777216 * (b(3) % 16)

Get(fe) == IF Raw(fe) >= Bad THEN EOF ELSE Raw(fe)

\* X_Y is a wrong X, here and below: README, "Faulty variants".
Put_Whole(fe, new) ==
  LET v  == IF new = EOF THEN Eof ELSE new
      at == fe.ptr[1]
  IN  CASE bits = 12 ->
             IF fe.entry % 2 = 1
             THEN [fat EXCEPT ![at] = (v * 16) % 256, ![fe.ptr[2]] = v \div 16]
             ELSE [fat EXCEPT ![at] = v % 256, ![fe.ptr[2]] = ((@ \div 16) * 16) + (v \div 256)]
        [] bits = 16 -> [fat EXCEPT ![at] = v % 256, ![at + 1] = v \div 256]
        [] bits = 32 -> [fat EXCEPT ![at] = v % 256, ![at + 1] = (v \div 256) % 256,
                                    ![at + 2] = (v \div 65536) % 256,
                                    ![at + 3] = ((@ \div 16) * 16) + (v \div 16777216)]

(* ent_put: the half of a byte that is another entry's, and the four bits that *)
(* FAT32 reserves, stay.                                                       *)
Put(fe, new) ==
  LET v  == IF new = EOF THEN Eof ELSE new
      at == fe.ptr[1]
  IN  CASE bits = 12 ->
             IF fe.entry % 2 = 1
             THEN [fat EXCEPT ![at] = ((v * 16) % 256) + (@ % 16), ![fe.ptr[2]] = v \div 16]
             ELSE [fat EXCEPT ![at] = v % 256, ![fe.ptr[2]] = ((@ \div 16) * 16) + (v \div 256)]
        [] bits = 16 -> [fat EXCEPT ![at] = v % 256, ![at + 1] = v \div 256]
        [] bits = 32 -> [fat EXCEPT ![at] = v % 256, ![at + 1] = (v \div 256) % 256,
                                    ![at + 2] = (v \div 65536) % 256,
                                    ![at + 3] = ((@ \div 16) * 16) + (v \div 16777216)]

-----------------------------------------------------------------------------
(* The next entry.                                                            *)

NoMore(fe) == [fe EXCEPT !.entry = @ + 1, !.ptr = <<>>]
BlockEnd(fe) == (fe.bhs[1] + 1) * blksz

Next12_Late(fe) ==
  LET nextp == fe.ptr[2] + 1 + (fe.entry % 2)
  IN  IF Len(fe.bhs) = 2
      THEN [entry |-> fe.entry + 1, bhs |-> <<fe.bhs[2]>>, ptr |-> <<nextp - 1, nextp>>]
      ELSE IF nextp <= BlockEnd(fe)
      THEN [fe EXCEPT !.entry = @ + 1, !.ptr = <<nextp - 1, nextp>>]
      ELSE NoMore(fe)

(* fat12_ent_next: the last two bytes of a block are left to the next reading, *)
(* as the entry there may need two blocks.                                     *)
Next12(fe) ==
  LET nextp == fe.ptr[2] + 1 + (fe.entry % 2)
  IN  IF Len(fe.bhs) = 2
      THEN [entry |-> fe.entry + 1, bhs |-> <<fe.bhs[2]>>, ptr |-> <<nextp - 1, nextp>>]
      ELSE IF nextp < BlockEnd(fe) - 1
      THEN [fe EXCEPT !.entry = @ + 1, !.ptr = <<nextp - 1, nextp>>]
      ELSE NoMore(fe)

EntNext(fe) ==
  IF bits = 12 THEN Next12(fe)
  ELSE LET size == bits \div 8
       IN  IF fe.ptr[1] < BlockEnd(fe) - size
           THEN [fe EXCEPT !.entry = @ + 1, !.ptr = <<@[1] + size>>]
           ELSE NoMore(fe)

(* fat_ent_next says that there is one in these blocks.                        *)
HasNext(fe) == fe.ptr # <<>> /\ fe.entry < max_cluster

-----------------------------------------------------------------------------
Set(p, me)     == proc' = [proc EXCEPT ![p] = me]
At(p, pc)      == proc[p].pc = pc
MayFail(call)  == call \in Failing
With(bhs, b)   == IF b \in ToSet(bhs) THEN bhs ELSE Append(bhs, b)

Collect_First(bhs, fe) == With(bhs, fe.bhs[1])

(* fat_collect_bhs.                                                            *)
Collect(bhs, fe) ==
  IF Len(fe.bhs) = 2 THEN With(With(bhs, fe.bhs[1]), fe.bhs[2]) ELSE With(bhs, fe.bhs[1])

Lock(p)   == fat_lock = NoProc /\ fat_lock' = p
Unlock(p) == fat_lock' = NoProc

(* fat_mirror_bhs copies the blocks one by one, whatever they have by then.    *)
Mirror(me, bhs, then) == [me EXCEPT !.pc = "mirror", !.bhs = bhs, !.then = then]

MirrorBlock(p) ==
  /\ At(p, "mirror")
  /\ LET me == proc[p]
     IN  IF me.bhs = <<>>
         THEN Set(p, [me EXCEPT !.pc = me.then]) /\ UNCHANGED backup
         ELSE /\ backup' = [k \in DOMAIN backup |->
                              IF k \div blksz = Head(me.bhs) THEN fat[k] ELSE backup[k]]
              /\ Set(p, [me EXCEPT !.bhs = Tail(@)])
  /\ UNCHANGED <<format, fat, start, fat_lock, count, prev_free>>

-----------------------------------------------------------------------------
(* fat_alloc_clusters.                                                        *)

AllocBegin(p) ==
  /\ At(p, "idle") /\ Lock(p)
  /\ \E nr \in 1 .. format.bufs \div 2 :
       Set(p, [Idle EXCEPT !.pc =
                 IF free_clusters # -1 /\ free_clus_valid /\ free_clusters < nr
                 THEN "full" ELSE "a_block",
               !.nr = nr, !.n = START, !.fe.entry = prev_free + 1])
  /\ UNCHANGED <<format, fat, backup, start, count, prev_free>>

Wrap_Second(e) == IF e >= max_cluster THEN START + 1 ELSE e

(* The search goes on at the first entry.                                      *)
Wrap(e) == IF e >= max_cluster THEN START ELSE e

(* The outer loop: the next block, or the search has been everywhere.          *)
AllocBlock(p) ==
  /\ At(p, "a_block")
  /\ LET me == proc[p]
     IN  IF me.n < max_cluster
         THEN /\ Set(p, [me EXCEPT !.pc = "a_scan", !.fe = ReadBlock(Wrap(me.fe.entry))])
              /\ UNCHANGED count
         ELSE /\ Set(p, [me EXCEPT !.pc = "full"])
              /\ free_clusters' = 0 /\ free_clus_valid' = TRUE
  /\ UNCHANGED <<format, fat, backup, start, fat_lock, prev_free>>

(* The inner loop goes on, or out.                                             *)
Advance(me) ==
  LET fe == EntNext(me.fe)
  IN  IF me.n + 1 = max_cluster THEN [me EXCEPT !.pc = "a_block", !.n = @ + 1]
      ELSE [me EXCEPT !.pc = IF HasNext(fe) THEN "a_scan" ELSE "a_block",
                      !.n = @ + 1, !.fe = fe]

AllocScan(p) ==
  /\ At(p, "a_scan")
  /\ LET me == proc[p]
     IN  IF Get(me.fe) = FREE
         THEN /\ fat' = Put(me.fe, EOF)
              /\ Set(p, [me EXCEPT !.pc = "a_take"])
         ELSE Set(p, Advance(me)) /\ UNCHANGED fat
  /\ UNCHANGED <<format, backup, start, fat_lock, count, prev_free>>

AllocTake(p) ==
  /\ At(p, "a_take")
  /\ LET me  == proc[p]
         got == [me EXCEPT !.bhs = Collect(@, me.fe), !.taken = Append(@, me.fe.entry)]
     IN  /\ fat' = IF me.prev.bhs # <<>> THEN Put(me.prev, me.fe.entry) ELSE fat
         /\ prev_free' = me.fe.entry
         /\ free_clusters' = IF free_clusters # -1 THEN free_clusters - 1 ELSE -1
         /\ IF Len(got.taken) = me.nr
            THEN Set(p, [Mirror(got, got.bhs, "w_read") EXCEPT !.cl = start[p], !.fe = NoEntry])
                 /\ Unlock(p)
            ELSE Set(p, Advance([got EXCEPT !.prev = me.fe])) /\ UNCHANGED fat_lock
  /\ UNCHANGED <<format, backup, start, free_clus_valid>>

(* The call fails: what it took is given back.                                 *)
GiveBack(me) ==
  IF me.taken = <<>> THEN Idle ELSE [Idle EXCEPT !.pc = "f_lock", !.cl = me.taken[1]]

AllocFails(p) ==
  /\ At(p, "full") \/ (At(p, "a_scan") /\ MayFail("alloc"))
  /\ Set(p, GiveBack(proc[p])) /\ Unlock(p)
  /\ UNCHANGED <<format, fat, backup, start, count, prev_free>>

-----------------------------------------------------------------------------
(* fat_chain_add: fat_get_cluster goes to the end of the chain, which may move *)
(* its pointers within the blocks it has, and the new clusters are linked.     *)

WalkRead(p) ==
  /\ At(p, "w_read")
  /\ LET me == proc[p]
         fe == EntRead(me.fe, me.cl)
     IN  Set(p, CASE Get(fe) = EOF  -> [me EXCEPT !.pc = "l_write"]
                  [] Get(fe) = FREE -> GiveBack(me)
                  [] OTHER          -> [me EXCEPT !.fe = fe, !.cl = Get(fe)])
  /\ UNCHANGED <<format, fat, backup, start, fat_lock, count, prev_free>>

WalkFails(p) ==
  /\ At(p, "w_read") /\ MayFail("walk") /\ ~Includes(proc[p].fe, proc[p].cl)
  /\ Set(p, GiveBack(proc[p]))
  /\ UNCHANGED <<format, fat, backup, start, fat_lock, count, prev_free>>

LinkWrite(p) ==
  /\ At(p, "l_write")
  /\ LET fe == ReadBlock(proc[p].cl)
     IN  /\ fat' = Put(fe, proc[p].taken[1])
         /\ Set(p, Mirror(Idle, fe.bhs, "idle"))
  /\ UNCHANGED <<format, backup, start, fat_lock, count, prev_free>>

-----------------------------------------------------------------------------
(* fat_free, keeping the first cluster, and fat_free_clusters.                *)

CutWrite(p) ==
  /\ At(p, "idle")
  /\ LET fe == ReadBlock(start[p])
     IN  /\ Get(fe) \notin {EOF, FREE}
         /\ fat' = Put(fe, EOF)
         /\ Set(p, [Mirror(Idle, fe.bhs, "f_lock") EXCEPT !.cl = Get(fe)])
  /\ UNCHANGED <<format, backup, start, fat_lock, count, prev_free>>

FreeBegin(p) ==
  /\ At(p, "f_lock") /\ Lock(p)
  /\ Set(p, [proc[p] EXCEPT !.pc = "f_read"])
  /\ UNCHANGED <<format, fat, backup, start, count, prev_free>>

(* A chain that runs into a free entry ends there: "deleting FAT entry beyond  *)
(* EOF".                                                                       *)
FreeEntry(p) ==
  /\ At(p, "f_read")
  /\ LET me == proc[p]
         fe == EntRead(me.fe, me.cl)
     IN  IF Get(fe) = FREE
         THEN Set(p, [me EXCEPT !.pc = "unlock"]) /\ UNCHANGED <<fat, free_clusters>>
         ELSE /\ fat' = Put(fe, FREE)
              /\ Set(p, [me EXCEPT !.pc = "f_collect", !.fe = fe, !.cl = Get(fe)])
              /\ free_clusters' = IF free_clusters # -1 THEN free_clusters + 1 ELSE -1
  /\ UNCHANGED <<format, backup, start, fat_lock, free_clus_valid, prev_free>>

(* The array of blocks is copied out when there may be no room for more.       *)
FreeCollect(p) ==
  /\ At(p, "f_collect")
  /\ LET me  == proc[p]
         bhs == Collect(me.bhs, me.fe)
     IN  Set(p, IF Len(me.bhs) + Len(me.fe.bhs) > format.bufs
                THEN Mirror(me, me.bhs, "f_collect")
                ELSE IF me.cl = EOF THEN Mirror(me, bhs, "unlock")
                ELSE [me EXCEPT !.pc = "f_read", !.bhs = bhs])
  /\ UNCHANGED <<format, fat, backup, start, fat_lock, count, prev_free>>

Done(p) ==
  /\ At(p, "unlock")
  /\ Set(p, Idle) /\ Unlock(p)
  /\ UNCHANGED <<format, fat, backup, start, count, prev_free>>

-----------------------------------------------------------------------------
(* fat_count_free_clusters.                                                   *)

CountBegin(p) ==
  /\ At(p, "idle") /\ ~(free_clusters # -1 /\ free_clus_valid) /\ Lock(p)
  /\ Set(p, [Idle EXCEPT !.pc = "c_block", !.fe.entry = START])
  /\ UNCHANGED <<format, fat, backup, start, count, prev_free>>

CountBlock(p) ==
  /\ At(p, "c_block")
  /\ LET me == proc[p]
     IN  IF me.fe.entry < max_cluster
         THEN Set(p, [me EXCEPT !.pc = "c_scan", !.fe = ReadBlock(me.fe.entry)])
              /\ UNCHANGED count
         ELSE /\ Set(p, [Idle EXCEPT !.pc = "unlock"])
              /\ free_clusters' = me.n /\ free_clus_valid' = TRUE
  /\ UNCHANGED <<format, fat, backup, start, fat_lock, prev_free>>

CountScan(p) ==
  /\ At(p, "c_scan")
  /\ LET me == proc[p]
         fe == EntNext(me.fe)
     IN  Set(p, [me EXCEPT !.pc = IF HasNext(fe) THEN "c_scan" ELSE "c_block",
                           !.n = IF Get(me.fe) = FREE THEN @ + 1 ELSE @, !.fe = fe])
  /\ UNCHANGED <<format, fat, backup, start, fat_lock, count, prev_free>>

-----------------------------------------------------------------------------
(* What the table means: entry e has the bits from e * bits on, the lowest     *)
(* first, of which FAT32 uses 28.                                              *)

Width     == bits \div 4
Nibble(k) == IF k % 2 = 0 THEN fat[k \div 2] % 16 ELSE fat[k \div 2] \div 16
Value(e)  ==
  LET k == (e * Width) \div 2
      v == CASE bits = 12 /\ e % 2 = 0 -> fat[k] + 256 * (fat[k + 1] % 16)
             [] bits = 12 /\ e % 2 = 1 -> (fat[k] \div 16) + 16 * fat[k + 1]
             [] bits = 16 -> fat[k] + 256 * fat[k + 1]
             [] bits = 32 -> fat[k] + 256 * fat[k + 1] + 65536 * fat[k + 2]
                             + 16777216 * (fat[k + 3] % 16)
  IN  IF v >= Bad THEN EOF ELSE v

Free == {e \in Clusters : Value(e) = FREE}

(* The clusters of a file.                                                     *)
Chain(p) ==
  LET path[i \in 1 .. max_cluster] ==
        IF i = 1 THEN start[p]
        ELSE LET c == path[i - 1] IN IF c \in Clusters THEN Value(c) ELSE FREE
  IN  {path[i] : i \in 1 .. max_cluster} \cap Clusters

(* The bytes before the first entry and after the last, and the reserved bits. *)
Rest ==
  [k \in {k \in 0 .. 2 * Cardinality(DOMAIN fat) - 1 :
            \/ k \div Width \notin Clusters
            \/ bits = 32 /\ k % 8 = 7} |-> Nibble(k)]

-----------------------------------------------------------------------------
(* A volume whose files have one cluster each: every entry above them is free. *)
FirstNibble(k, s) ==
  LET e == k \div Width
  IN  IF e < START THEN 15
      ELSE IF bits = 32 /\ k % 8 = 7 THEN 10
      ELSE IF \E p \in Files : s[p] = e THEN 15 ELSE 0

Init ==
  /\ format \in Formats
  /\ start \in Starts
  /\ LET bytes == (((max_cluster * Width + 1) \div 2 + blksz - 1) \div blksz) * blksz
     IN  fat = [b \in 0 .. bytes - 1 |-> FirstNibble(2 * b, start) + 16 * FirstNibble(2 * b + 1, start)]
  /\ backup = fat
  /\ fat_lock = NoProc
  /\ free_clusters = -1 /\ free_clus_valid = FALSE /\ prev_free \in Clusters
  /\ proc = [p \in Files |-> Idle]

Next ==
  \E p \in Files :
    \/ AllocBegin(p) \/ AllocBlock(p) \/ AllocScan(p) \/ AllocTake(p) \/ AllocFails(p)
    \/ WalkRead(p) \/ WalkFails(p) \/ LinkWrite(p)
    \/ CutWrite(p) \/ FreeBegin(p) \/ FreeEntry(p) \/ FreeCollect(p)
    \/ CountBegin(p) \/ CountBlock(p) \/ CountScan(p)
    \/ MirrorBlock(p) \/ Done(p)

Spec == Init /\ [][Next]_vars

-----------------------------------------------------------------------------
(* However the processes' reads and writes of shared bytes and blocks fall     *)
(* together, the bytes are a volume: FatVolume.                                *)
FV == INSTANCE FatVolume
      WITH next <- [e \in Clusters |-> Value(e)], first <- {start[p] : p \in Files}, rest <- Rest
Volume == FV!Spec

(* The pointers of a process that is about to read or write an entry are on    *)
(* the bytes of that entry, in blocks it holds, and the array of collected     *)
(* blocks is not overrun; so no WARN_ON fires.                                 *)
PointersRight ==
  \A p \in Files :
    /\ Len(proc[p].bhs) <= format.bufs
    /\ proc[p].pc \in {"a_scan", "a_take", "c_scan", "f_collect"} =>
         LET fe == proc[p].fe
         IN  /\ fe.entry \in Clusters
             /\ fe.ptr[1] = Byte(fe.entry)
             /\ bits = 12 => fe.ptr[2] = fe.ptr[1] + 1
             /\ \A i \in DOMAIN fe.ptr : fe.ptr[i] \div blksz \in ToSet(fe.bhs)

(* A search that reports a full volume has seen every entry, and a count that  *)
(* is valid is right, or is being counted down or up under the lock.           *)
SearchRight ==
  /\ \A p \in Files :
       At(p, "full") => Cardinality(Free) + Len(proc[p].taken) < proc[p].nr
  /\ fat_lock = NoProc /\ free_clus_valid /\ free_clusters # -1 =>
       free_clusters = Cardinality(Free)

(* When no call is under way, the second table is a copy of the first, and     *)
(* every cluster is free or in a file.                                         *)
Settled ==
  (\A p \in Files : At(p, "idle")) =>
    /\ backup = fat
    /\ Clusters = Free \cup UNION {Chain(p) : p \in Files}
=============================================================================
