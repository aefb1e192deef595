------------------------------- MODULE FatDir -------------------------------
(* The slots of a VFAT directory: how a name becomes a run of slots, long     *)
(* ones before the short one, how the run is written and removed block by     *)
(* block, how the slots are read back as names, and what a stop in between    *)
(* leaves.  The file system is mounted with dirsync; everything here runs     *)
(* under lock_super, so that there is one operation at a time.                *)
EXTENDS Naturals, Sequences, FiniteSets, Functions

CONSTANTS Names,         \* names that users give
          Longs,         \* how many long slots a name takes, 0 for a valid 8.3 name
          Base,          \* what its short name starts with
          Tails,         \* the tails "~1" to "~9", in order
          Random,        \* tails made from the clock
          NoTail,        \* the tail of a valid 8.3 name
          None,
          dir_per_block, \* slots in a block, which is a cluster
          Start,         \* blocks of a new directory
          MaxBlocks,     \* bound on the blocks of the directory
          Bad,           \* blocks that cannot be read
          DirFailures    \* what goes wrong: sets of "alloc", "sync", "erase"
                         \* (a clean-up cannot be written) and "crash"

ASSUME SizesAssumption ==
  /\ dir_per_block \in Nat \ {0} /\ MaxBlocks \in Nat
  /\ Start \in 1..MaxBlocks /\ Bad \subseteq 1..MaxBlocks
ASSUME NamesAssumption == Longs \in [Names -> Nat] /\ None \notin Names
\* Valid 8.3 names that a lookup tells apart differ as short names.
ASSUME ShortAssumption ==
  \A n, k \in Names : Longs[n] = 0 /\ Longs[k] = 0 /\ Base[n] = Base[k] => n = k
ASSUME TailsAssumption == Tails \in Seq(Range(Tails)) /\ NoTail \notin Range(Tails) \cup Random

VARIABLES mem,    \* the slots in the buffers
          disk,   \* the slots on the disk
          op,     \* the operation under lock_super
          filp,   \* an open directory: how it is read, its position and what
                  \* was read from it
          failing \* what goes wrong in this behaviour

dirVars == <<mem, disk, op, filp, failing>>

Alias == {Base[n] : n \in Names} \X ({NoTail} \cup Range(Tails) \cup Random)

\* A name is an atom, a short one with a tail a pair.
ASSUME AliasAssumption == Names \cap Alias = {}

Slot(kind, n, id, last, a) == [kind |-> kind, name |-> n, id |-> id, last |-> last, alias |-> a]
FreeSlot == Slot("free", None, 0, FALSE, None)
NoOp == [pc |-> "none", slots |-> <<>>, at |-> <<>>, pos |-> 0, left |-> 0,
         before |-> {}]

(* owed, told: the names that have been there since the start of the reading. *)
Closed == [how |-> "names", pos |-> 0, owed |-> {}, told |-> {}, twice |-> FALSE]

(* readdir and VFAT_IOCTL_READDIR_BOTH, or VFAT_IOCTL_READDIR_SHORT.           *)
Readings == {"names", "short"}

BlockOf(p)  == (p - 1) \div dir_per_block + 1
BlockSlots(b) == (b - 1) * dir_per_block + 1 .. b * dir_per_block
MayFail(call) == call \in failing

-----------------------------------------------------------------------------
(* Reading.                                                                   *)

(* fat_get_entry: the positions it goes through; a bad block is skipped.       *)
Path ==
  LET good == {p \in 1..(MaxBlocks * dir_per_block) : BlockOf(p) \notin Bad}
  IN  [i \in 1..Cardinality(good) |-> CHOOSE p \in good : Cardinality({q \in good : q <= p}) = i]

Seen(s) == [i \in {i \in DOMAIN Path : Path[i] <= Len(s)} |-> s[Path[i]]]
SlotsIn(v) == Cardinality(DOMAIN v)

(* fat_parse_long: long slots counted down to the short one, with its          *)
(* checksum, from one that is marked as the last piece of a name.              *)
Heads(v, i, from) ==
  {k \in 1..(i - from) :
     /\ v[i - k].last
     /\ \A j \in 1..k : v[i - j].kind = "long" /\ v[i - j].id = j /\ v[i - j].alias = v[i].alias}

MaxOf(S) == CHOOSE x \in S : \A y \in S : y <= x
MinOf(S) == CHOOSE x \in S : \A y \in S : x <= y

NrSlots(v, i, from) == IF Heads(v, i, from) = {} THEN 0 ELSE MaxOf(Heads(v, i, from))

(* A second mark in the run ends the text there.                               *)
LongName(v, i, from) ==
  LET k == MinOf(Heads(v, i, from))
      n == v[i - k].name
  IN  IF Longs[n] = k /\ \A j \in 1..k : v[i - j].name = n THEN n ELSE None

ShortName(a) ==
  IF \E n \in Names : Longs[n] = 0 /\ a = <<Base[n], NoTail>>
  THEN CHOOSE n \in Names : Longs[n] = 0 /\ a = <<Base[n], NoTail>>
  ELSE a

NameAt(v, i, from) ==
  IF Heads(v, i, from) = {} THEN ShortName(v[i].alias) ELSE LongName(v, i, from)

Shorts(v) == {i \in DOMAIN v : v[i].kind = "short"}

(* What readdir tells from the start of the directory.                         *)
Listing(s) == LET v == Seen(s) IN {NameAt(v, i, 1) : i \in Shorts(v)}

(* fat_search_long: the name matches the long or the short one.                *)
Search(s, n) ==
  LET v == Seen(s)
  IN  {i \in Shorts(v) : NameAt(v, i, 1) = n \/ ShortName(v[i].alias) = n}

(* fat_scan, for a short name.                                                 *)
Scan(s, a) == {i \in Shorts(Seen(s)) : Seen(s)[i].alias = a}

-----------------------------------------------------------------------------
(* vfat_create_shortname.                                                     *)

(* Untaken_Any is a wrong Untaken that does not look: README, "Faulty variants". *)
Untaken_Any(tails, n) == tails

Untaken(tails, n) == {t \in tails : Scan(mem, <<Base[n], t>>) = {}}

(* A valid short name must not exist; otherwise the first free tail is taken,  *)
(* and one made from the clock when there is none.                             *)
ShortTails(n) ==
  IF Longs[n] = 0 THEN Untaken({NoTail}, n)
  ELSE LET free == {i \in 1..Len(Tails) : Tails[i] \in Untaken(Range(Tails), n)}
       IN  IF free # {} THEN {Tails[MinOf(free)]} ELSE Untaken(Random, n)

(* vfat_build_slots.                                                           *)
BuildSlots(n, a) ==
  [i \in 1..Longs[n] |-> Slot("long", n, Longs[n] - i + 1, i = 1, a)]
    \o <<Slot("short", None, 0, FALSE, a)>>

-----------------------------------------------------------------------------
(* fat_add_entries.                                                           *)

(* First stage: the first run of k free slots on the path, or else the free    *)
(* slots at its end.                                                           *)
FreeRun(k) ==
  LET v == Seen(mem)
      FreeFrom(i, m) == \A j \in i..(i + m - 1) : v[j].kind = "free"
      full == {i \in 1..(SlotsIn(v) - k + 1) : FreeFrom(i, k)}
      tail == {m \in 0..SlotsIn(v) : FreeFrom(SlotsIn(v) - m + 1, m)}
  IN  IF full # {} THEN SubSeq(Path, MinOf(full), MinOf(full) + k - 1)
      ELSE SubSeq(Path, SlotsIn(v) - MaxOf(tail) + 1, SlotsIn(v))

Create(n) ==
  /\ op = NoOp /\ Search(mem, n) = {}
  /\ \E t \in ShortTails(n) :
       LET slots == BuildSlots(n, <<Base[n], t>>)
       IN  op' = [NoOp EXCEPT !.pc = "long", !.slots = slots, !.before = Listing(mem),
                              !.at = FreeRun(Len(slots))]
  /\ UNCHANGED <<mem, disk, filp, failing>>

(* The blocks of the run; the one with the short slot is written last.         *)
RunBlocks   == {BlockOf(op.at[i]) : i \in 1..Len(op.at)}
Fits        == Len(op.at) = Len(op.slots)
ShortBlocks == IF Fits THEN {BlockOf(op.at[Len(op.at)])} ELSE {}
LongBlocks  == RunBlocks \ ShortBlocks

Filled(blocks) ==
  [p \in 1..Len(mem) |->
     IF \E i \in 1..Len(op.at) : op.at[i] = p /\ BlockOf(p) \in blocks
     THEN op.slots[CHOOSE i \in 1..Len(op.at) : op.at[i] = p] ELSE mem[p]]

Proceed(pc) == op' = [op EXCEPT !.pc = pc]
Synced(blocks) == \A b \in blocks : \A p \in BlockSlots(b) : disk[p] = mem[p]

(* What has been filled is removed again; pos is computed from the last slot.  *)
ErrorRemove ==
  op' = IF op.at = <<>> THEN NoOp
        ELSE [op EXCEPT !.pc = "erase", !.left = Len(op.at),
                        !.pos = op.at[Len(op.at)] - Len(op.at) + 1]

(* Second stage.                                                               *)
FillLong ==
  /\ op.pc = "long"
  /\ mem' = Filled(LongBlocks)
  /\ Proceed("long sync")
  /\ UNCHANGED <<disk, filp, failing>>

(* FillShort_Early is a wrong FillShort that does not wait for the long slots  *)
(* to be on the disk: README, "Faulty variants".                               *)
FillShort_Early ==
  /\ op.pc = "long sync"
  /\ mem' = Filled(ShortBlocks)
  /\ Proceed("short sync")
  /\ UNCHANGED <<disk, filp, failing>>

FillShort ==
  /\ op.pc = "long sync" /\ Synced(LongBlocks)
  /\ mem' = Filled(ShortBlocks)
  /\ Proceed("short sync")
  /\ UNCHANGED <<disk, filp, failing>>

SyncFails ==
  /\ op.pc \in {"long sync", "short sync"} /\ MayFail("sync")
  /\ ErrorRemove
  /\ UNCHANGED <<mem, disk, filp, failing>>

AddDone ==
  /\ op.pc = "short sync" /\ Fits /\ Synced(ShortBlocks)
  /\ op' = NoOp
  /\ UNCHANGED <<mem, disk, filp, failing>>

(* Third stage: the rest goes to new clusters, which are written before        *)
(* fat_chain_add links them.                                                   *)
Rest     == SubSeq(op.slots, Len(op.at) + 1, Len(op.slots))
NrClusters == (Len(Rest) + dir_per_block - 1) \div dir_per_block
Grown    == Rest \o [i \in 1..(NrClusters * dir_per_block - Len(Rest)) |-> FreeSlot]
Room     == Len(mem) + Len(Grown) <= MaxBlocks * dir_per_block

AddNewEntries ==
  /\ op.pc = "short sync" /\ ~Fits /\ Room
  /\ mem' = mem \o Grown
  /\ disk' = disk \o Grown
  /\ op' = NoOp
  /\ UNCHANGED <<filp, failing>>

AddFails ==
  /\ op.pc = "short sync" /\ ~Fits
  /\ ~Room \/ MayFail("alloc")
  /\ ErrorRemove
  /\ UNCHANGED <<mem, disk, filp, failing>>

-----------------------------------------------------------------------------
(* fat_remove_entries.                                                        *)

Erased(positions) == [p \in 1..Len(mem) |-> IF p \in positions THEN FreeSlot ELSE mem[p]]

(* First stage: the short slot, and the slots before it in its block.          *)
Unlink(n) ==
  /\ op = NoOp
  /\ \E i \in Search(mem, n) :
       LET p    == Path[i]
           nr   == NrSlots(Seen(mem), i, 1) + 1
           here == {q \in BlockSlots(BlockOf(p)) : q <= p /\ p - q < nr}
       IN  /\ mem' = Erased(here)
           /\ op' = [NoOp EXCEPT !.pc = "gone", !.at = <<p>>, !.before = Listing(mem),
                                 !.pos = p - nr + 1, !.left = nr - Cardinality(here)]
  /\ filp' = [filp EXCEPT !.owed = @ \ {n}, !.told = @ \ {n}]
  /\ UNCHANGED <<disk, failing>>

(* From here on the name is removed, whatever happens to its long slots.       *)
UnlinkDone ==
  /\ op.pc = "gone"
  /\ \/ Synced(RunBlocks) /\ op' = [op EXCEPT !.pc = "erase"]
     \/ MayFail("sync") /\ op' = NoOp
  /\ UNCHANGED <<mem, disk, filp, failing>>

(* __fat_remove_entries: block by block, from pos on.                          *)
From(p) == {q \in Range(Path) : p <= q /\ q <= Len(mem)}

Erase ==
  /\ op.pc = "erase" /\ op.left > 0 /\ From(op.pos) # {}
  /\ LET p    == MinOf(From(op.pos))
         here == {q \in BlockSlots(BlockOf(p)) : q >= p /\ q - p < op.left}
     IN  /\ mem' = Erased(here)
         /\ op' = [op EXCEPT !.pc = "erase sync", !.at = <<p>>,
                             !.pos = p + Cardinality(here), !.left = @ - Cardinality(here)]
  /\ UNCHANGED <<disk, filp, failing>>

EraseSync ==
  /\ op.pc = "erase sync"
  /\ \/ Synced(RunBlocks) /\ Proceed("erase")
     \/ MayFail("erase") /\ op' = NoOp
  /\ UNCHANGED <<mem, disk, filp, failing>>

EraseDone ==
  /\ op.pc = "erase" /\ (op.left = 0 \/ From(op.pos) = {})
  /\ op' = NoOp
  /\ UNCHANGED <<mem, disk, filp, failing>>

-----------------------------------------------------------------------------
(* The disk.                                                                  *)

WriteBack(b) ==
  /\ b * dir_per_block <= Len(mem) /\ ~Synced({b})
  /\ disk' = [p \in 1..Len(disk) |-> IF BlockOf(p) = b THEN mem[p] ELSE disk[p]]
  /\ UNCHANGED <<mem, op, filp, failing>>

(* The system stops and is started again.                                      *)
Crash ==
  /\ MayFail("crash") /\ (mem # disk \/ op # NoOp)
  /\ mem' = disk /\ op' = NoOp
  /\ filp' = Closed
  /\ UNCHANGED <<disk, failing>>

-----------------------------------------------------------------------------
(* An open directory, read a name at a time: what is asked of the user's      *)
(* buffer ends a call of readdir and the next one goes on at f_pos; a buffer   *)
(* of the ioctl has room for one name, and it may not be writable.             *)

Rewind ==
  /\ filp = Closed /\ op = NoOp
  /\ \E how \in Readings : filp' = [Closed EXCEPT !.how = how, !.pos = 1, !.owed = Listing(mem)]
  /\ UNCHANGED <<mem, disk, op, failing>>

(* The short slots from f_pos on.                                              *)
Following == {i \in Shorts(Seen(mem)) : Path[i] >= filp.pos}
Here      == MinOf({i \in DOMAIN Seen(mem) : Path[i] >= filp.pos})

(* Where an entry is told from: short_only takes no long slots.                *)
Origin(v, i, from) == IF filp.how = "short" THEN Path[i] ELSE Path[i - NrSlots(v, i, from)]

(* PassedTo_Short is a wrong PassedTo that also passes the long slots of the   *)
(* next name: README, "Faulty variants".                                       *)
PassedTo_Short(v, i) ==
  LET later == {j \in Shorts(v) : j > i}
  IN  IF later = {} THEN Len(mem) + 1 ELSE Path[MinOf(later)]

(* Slots without a name are passed until the next name finds the buffer full.  *)
PassedTo(v, i) ==
  LET later == {j \in Shorts(v) : j > i}
  IN  IF later = {} THEN Len(mem) + 1 ELSE Origin(v, MinOf(later), i + 1)

(* The name whose entry is told, as its owner knows it.                        *)
ToldName(v, i) == NameAt(v, i, IF filp.how = "short" THEN 1 ELSE Here)

(* __fat_readdir.                                                              *)
Readdir ==
  /\ filp.pos > 0 /\ op = NoOp /\ Following # {}
  /\ LET v == Seen(mem)
         i == MinOf(Following)
         n == ToldName(v, i)
     IN  filp' = [filp EXCEPT !.pos = PassedTo(v, i), !.owed = @ \ {n},
                            !.told = @ \cup ({n} \cap filp.owed),
                            !.twice = @ \/ n \in filp.told]
  /\ UNCHANGED <<mem, disk, op, failing>>

(* fat_ioctl_filldir cannot write the name.                                    *)
ReaddirFault ==
  /\ filp.pos > 0 /\ op = NoOp /\ Following # {}
  /\ filp' = [filp EXCEPT !.pos = Origin(Seen(mem), MinOf(Following), Here)]
  /\ UNCHANGED <<mem, disk, op, failing>>

CloseDir ==
  /\ filp.pos > 0 /\ op = NoOp /\ Following = {}
  /\ filp' = Closed
  /\ UNCHANGED <<mem, disk, op, failing>>

-----------------------------------------------------------------------------
DirInit ==
  /\ mem = [p \in 1..(Start * dir_per_block) |-> FreeSlot]
  /\ disk = mem
  /\ op = NoOp /\ filp = Closed
  /\ failing \in DirFailures

DirNext ==
  \/ \E n \in Names : Create(n) \/ Unlink(n)
  \/ FillLong \/ FillShort \/ SyncFails \/ AddDone \/ AddNewEntries \/ AddFails
  \/ UnlinkDone \/ Erase \/ EraseSync \/ EraseDone
  \/ \E b \in 1..MaxBlocks : WriteBack(b)
  \/ Crash \/ Rewind \/ Readdir \/ ReaddirFault \/ CloseDir

DirSpec == DirInit /\ [][DirNext]_dirVars

-----------------------------------------------------------------------------
(* The names that a lookup or a listing can tell, which is what lock_super     *)
(* lets anyone see: an operation that fails, or is stopped, has been done as a *)
(* whole or not at all.                                                        *)
Visible == IF op = NoOp THEN Listing(mem) ELSE op.before
Dir == INSTANCE DirListing WITH names <- Visible
OneStep == Dir!Spec

(* No two files have the same short name, nor after a stop.                     *)
AliasUnique ==
  \A p, q \in 1..Len(mem) :
    mem[p].kind = "short" /\ mem[q].kind = "short" /\ mem[p].alias = mem[q].alias => p = q

(* A name that is there as long as a directory is read is told exactly once,   *)
(* however the directory changes in the meantime.                              *)
ListedOnce ==
  /\ ~filp.twice
  /\ filp.pos > 0 /\ op = NoOp /\ Following = {} => filp.owed = {}
=============================================================================
