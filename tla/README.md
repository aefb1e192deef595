# Verification of ATS_LDD

TLA+ modules for the Linux drivers of this repository, the TLC configurations
that check them, and TLAPS proofs about them.  The repository rewrites parts of
two kernel modules in ATS: `scull`, the example character driver of *Linux
Device Drivers*, and the FAT file system, which it also keeps in its original
form with tracing added.

Contents: the system and its parts, which module models what, what each run
shows, the bounds, fairness, what is proved and how, where the code and its words
differ, faulty variants, what is not modelled, and what could follow.

Commands, in this directory:

    tlc -workers 2 -config pipe_safety.cfg MCScullPipe
    tlapm ScullPipe_proofs.tla

`PROJECT.json` lists the runs, the definitions with the lines they translate,
the hazards and the theorems.

## 1. Inventory

What the repository holds:

| directory | what it is |
|---|---|
| `src/ATS/scull` | the scull driver: `main.c` (bare device), `pipe.c`, `access.c`, and `ATS/*.dats`, which hold the core of the bare device |
| `src/ATS/myfat` | the author's current FAT32 port: `fat_*.c`, `sb_mgr.c`, `ATS/ats_fat_*.dats` make `ats_fat.ko`; `msdos_*.c`, `namei_msdos.c`, `ATS/ats_msdos_inode.dats` make `ats_msdos.ko` |
| `src/C/myfat` | fs/fat of Linux 2.6.32 with tracing: the whole file system, of which the port has a part |
| `src/ATS/myfat2`, `src/ATS/myfat_test` | an earlier reorganisation of the same code, and a second traced copy |
| `src/ATS/hello`, `src/C/hello`, `src/shell_script` | exercises, scripts |
| logs, `.svn`, html, `tags` | left aside |

The FAT code is there four times.  Each definition is translated from one copy:
the port where the port has the operation, and the traced copy (`C/myfat`)
where the port leaves it out (12- and 16-bit tables, the extent cache, unlink,
rename, attributes, vfat).

The components, with their state, their operations, what makes them hard, and
what makes them correct:

**scull pipe** (`pipe.c`).  State: a circular buffer (`buffer`, `end`,
`buffersize`, `rp`, `wp`), counts of readers and writers, a semaphore, two wait
queues, the module parameter `scull_p_buffer`.  Operations: open, release, read,
write, poll, fasync, ioctl.  Hard: conditions of the wait queues are read
without the semaphore; a signal may end any wait; an open resets the pointers
under sleeping processes; the last close frees the buffer; faulting user pages.
Correct: bytes come out in order and once; nobody sleeps through what he waits
for; no use of a freed buffer; the semaphore is released on every exit.

**bare scull device** (`main.c`, `ATS/scull*.dats`).  State: a list of quantum
sets, its length and shape (`m_qset`, `n_quantum`), `size`, a semaphore, and the
shape parameters an ioctl changes.  Operations: open (which trims when it is for
writing only), release, read, write, llseek, ioctl.  Hard: the shape is read
before the semaphore is taken; a write extends the list item by item and may
fail half way; reads meet holes.  Correct: the list is a sparse file.

**access-controlled devices** (`access.c`).  State: a token, two counts with
owners, a wait queue, a list of cloned devices.  Operations: open and release of
four devices; they use the bare device's reads, writes and trim.  Hard: take and
give back in separate steps; a blocked open looks at the count and the owner
without the lock; a close wakes after the unlock.  Correct: who may have the
device has it, nobody else, counts are exact, no blocked open is forgotten.

**scull module** (`main.c` 700-816, `pipe.c` 340-397, `access.c` 329-412).
State: what is registered and allocated for three families of devices.  Hard: any
step may fail, one cleanup serves them all, and devices are usable before
initialisation ends.  Correct: the cleanup takes back what was given.

**FAT entry table** (`fat_entry.c`, `fat_misc.c` `fat_chain_add`; in three widths
`C/myfat/fatent.c`).  State: the table, its backups, the count of free clusters
and whether it counts, the place of the last allocation, `fat_lock`.  Operations:
allocate, free, follow, extend a chain, count.  Hard: any block may fail to be
read or written between two changes; entries share bytes and blocks; blocks are
copied after the lock is dropped.  Correct: chains end, are disjoint, no cluster
is lost, the count and the backup are right.

**FAT cluster lookup and extent cache** (`fat_cache.c`, `C/myfat/cache.c`).  State:
per inode, a list of extents with a version number.  Operations: look up, add,
merge, invalidate; map a block; append; truncate.  Hard: the lock is dropped to
allocate and to read the table.  Correct: the extents are the chain.

**FAT directory** (`fat_dir.c`, vfat's creation in `namei_vfat.c`).  State: slots in
blocks, `f_pos` of a reader.  Operations: search, readdir, add (in free slots, then
in a new cluster), remove.  Hard: three stages with undo, stops between writes,
changes between two calls of readdir.  Correct: names appear and go as a whole.

**FAT inodes and names** (`fat_inode.c`, `ats_fat_inode.dats`, `msdos_inode.c`,
`C/myfat/namei_msdos.c`).  State: a hash of inodes by the position of their entry,
".." entries, link counts.  Operations: iget, build, attach, detach, write, evict;
lookup, create, mkdir, unlink, rmdir, rename.  Hard: eviction and writeback against
name operations, a position that changes while it is used, undoing a rename.
Correct: one inode for a slot, and operations that happen or do not.

**FAT file** (`fat_file.c`, `ats_fat_file.dats`).  Read of a byte range, cluster
by cluster, block by block.  Hard: boundaries, partial copies.

**mount** (`sb_mgr.c`, `C/myfat/inode.c`).  Reading of options, the boot sector and
FSINFO with one exit for all failures; the flushing of the free count; unmount; NFS
handles.  **time** (`fat_misc.c`).  Conversion of DOS dates.  **attributes**
(`C/myfat/file.c`, `inode.c`, `fat.h`).  The mode and the flag of an inode from the
attributes of its entry and back.  **names as text** (`namei_msdos.c`,
`namei_vfat.c`).  8.3 and long names made from what a user wrote, and shown again.
**vfat dentries** (`namei_vfat.c`).  What the kernel's cache may believe of names
that have an alias.

How they interact: a program calls the VFS, which calls the file operations of
scull or of FAT.  The three scull parts share `struct scull_dev`, `scull_trim`
and the init and cleanup functions; `access.c` calls the bare device's read and
write through its file operations.  Name operations call the directory code, which
calls the entry table, and then the inode code; read calls the cluster lookup,
which reads the table through the extent cache.  `lock_super` keeps name operations
apart, `i_mutex` the writers of one file, `fat_lock` guards the table, the
hash lock the positions of inodes, `cache_lru_lock` the extents.  Writeback and
eviction come from the kernel at any time.

## 2. Modules

| module | models | checked in | proved in |
|---|---|---|---|
| `PipeFifo` | what a pipe promises: a bounded queue of bytes | `pipe_fifo` | `ScullPipe_proofs` |
| `ScullPipe` | `pipe.c` | `pipe_safety`, `pipe_fifo` | `ScullPipe_proofs` |
| `SparseFile` | what a bare device promises: a file with holes | `dev_file` | `ScullDevices_proofs` |
| `ScullDev` | `main.c`, `ATS/scull.dats`, `ATS/scull_data.dats` | `dev_file` | `ScullDevices_proofs` |
| `ScullAccess` | `access.c` | `access_open` | `ScullDevices_proofs` |
| `ScullModule` | init and cleanup of all three | `scull_module` | `ScullDevices_proofs` |
| `FatTable` | the port's table: `fat_entry.c`, `fat_chain_add`, third stage of `fat_add_entries`, with failures | `fat_table` | `FatDirectories_proofs` |
| `FatVolume` | what a table promises: successors that change one at a time | `fat_entries` | `FatEntries_proofs` |
| `FatEntries` | `C/myfat/fatent.c` in bytes, blocks and processes | `fat_entries` | `FatEntries_proofs` |
| `FatCache` | `C/myfat/cache.c` with block mapping, append and truncate | `fat_cache` | `FatCache_proofs` |
| `FatRead` | `ATS/ats_fat_file.dats`, `ATS/ats_fat_file.cats`, `sbread` of `ATS/ats_fat_cache.cats` | `fat_read` | `FatRead_proofs` |
| `DirListing` | what a directory promises: a set of names | `fat_dir` | `FatDirectories_proofs` |
| `FatDir` | `fat_dir.c` and vfat's creation of slots and aliases | `fat_dir` | `FatDirectories_proofs` |
| `NameSpace` | what a tree promises: names bound in one step | `msdos_names` | `MsdosNames_proofs` |
| `MsdosNames` | msdos name operations and the inode hash | `msdos_names` | `MsdosNames_proofs` |
| `FatMount` | module caches, `fat_fill_super`, flushing, `fat_put_super` | `fat_mount` | `FatMounted_proofs` |
| `FatTime` | the two conversions of times | `fat_mount` | |
| `FatAttrs` | modes and attributes of one inode | `fat_mount` | `FatMounted_proofs` |
| `ShortNames` | msdos 8.3 names | `fat_mount` | |
| `VfatNames` | a vfat directory and the dentry cache | `fat_mount` | `FatMounted_proofs` |
| `VfatText` | vfat names: short ones, pieces, escapes | `fat_mount` | |
| `FatOptions` | `parse_options` and `fat_show_options` | `fat_mount` | |
| `FatHandles` | NFS handles | `fat_mount` | |
| `FatMounted` | the last eight on a volume while it is mounted | `fat_mount` | `FatMounted_proofs` |

`MC...` modules only give constants their values.

### ScullPipe

A process is in one operation, `pc[p]` says where.  Labels begin with the
operation: `o_` open, `c_` close, `r_` read, `w_` write, `p_` poll.  A step ends
where another process could see a difference: before and after the semaphore, at
each evaluation of a wait condition, between `rp += count` and the wrap that
follows, before a wake-up.  `prepare_to_wait`, the test and `schedule` are three
steps, so a wake-up can fall between any two.  Pointers are offsets from
`buffer`; `end` is an expression because the code assigns it with `buffersize`.
What `kmalloc` returns, and what lies behind the allocation, is `Garbage`; a read
that returned it would break `Fifo`.

Choices of the environment: a signal at any interruptible wait, `O_NONBLOCK`, a
faulting page, a failed allocation, the resize ioctl at any time.

Left out: `fasync` (the list of receivers of SIGIO); the order in which a
semaphore serves its waiters.  A process has one file on the device at most.

### ScullDev

Labels name the operation and the place: `r_look` is between the two reads of
the shape, `r_down` waits for the semaphore, `r_main` is in `scull_read_main`,
`r_ret` has let go.  A trim stores `m_qset`, `n_quantum` and then the rest, in
three steps.  Position arithmetic (`ln`, `s_pos`, `q_pos`) is the code's.  A byte
of a new quantum is zero, as `memset` makes it.  A fault or a failed allocation
may end a write after any item of the list was appended.

Left out: parameters that are zero or negative and positions beyond the range
of an int (hazards in `PROJECT.json`).

### ScullAccess

A section under a spin lock is one step.  `scull_w_available` is evaluated
without the lock by a waiter, so it is two steps there, one for the count and one
for the owner.  `Transfer` and `TrimEnd` stand for reads, writes and trims of the
bare device: here it only matters that they are under way.

Left out: a kmalloc that sleeps under the empty spin lock of a uniprocessor kernel
(a hazard); duplicated files.

### ScullModule

Each call of the kernel that initialisation makes is a step and may fail if
`Failing` says so; the cleanup is the code's, with its tests of pointers.  A device
is open to programs from `cdev_add` on, so opens and closes go on during the rest
of the initialisation.  `scull_p_init` returns 0 when it fails, and the next family
gets its device numbers.  Two variables are history: `wrong`, what the kernel was asked
to take back and had not given, and `missed`, what a failed step leaves for the cleanup
to take back all the same.  What an open allocates stays until the cleanup, or until the close
of a pipe.  Left out: `/proc`.

### FatTable

The work of one call of `fat_add_entries` that needs new clusters, with `pc` for
its stages: `a_mirror` (allocated, blocks being copied to the backup), `fill`,
`link`, `l_mirror` (linked, block being copied), `free`, `f_mirror`.  Its callers
(`msdos_create` in `ats_msdos_inode.dats`, `vfat_create` in `namei_vfat.c`) hold
`lock_super` for all of it, so one call is in progress at a time and `fat_lock`
needs no variable.  msdos asks for one cluster, vfat for up to two.  `Fail` names
the calls that may fail.

Found clusters, chains and the count are as in the code: the search starts after
`prev_free` and wraps; reads happen where it enters a block; the count goes down
by one for each cluster and becomes -1, "undefined", below 0.

The initial states have every free count a mount leaves: right and valid, or of
any value and not valid.  With the mount option `usefree` the user vouches for
the count, so it is assumed right.

Abstractions: bad clusters read as the end of a chain, as `fat32_ent_get` makes
them; one backup table; the exit "deleting FAT entry beyond EOF" of
`fat_free_clusters` is not an action because `ChainsSound` excludes it.  `lost` and
`stale` are history variables: what a failing read in `fat_free_clusters` or a
failing copy gave up.

### FatEntries

The table as bytes, in the three widths.  `fe` is `struct fat_entry`: the number of
the entry, the blocks it holds and the addresses its pointers have; every step to
the next entry is the code's, with FAT12's two cases at the end of a block, so that
a wrong pointer reads and writes wrong bytes.  Each process grows and cuts a file
of its own.  A step is one read or write of an entry or the copying of one block to
the second table, which happens after `fat_lock` is dropped.  `FatVolume` is the
table of successors these bytes stand for; what lies in no entry is carried along
as `rest` and may not change.

The array of blocks to copy is `bhs`; `With` adds a block that is not in it, `Collect`
the one or two of an entry.  The recursion of `Chain` is a function, for the proofs.

Abstractions: failing reads in the allocation (`alloc`) and in the walk (`walk`);
failing writes and the undo are in `FatTable`.  Truncation keeps the first cluster.

### FatCache

A step is what runs under `cache_lru_lock`, or one access to the table.  `lru` is
the list, most recently used first.  `fat_cache_add` takes a place, drops the lock to
allocate (`pc = "alloc"`) and looks again, as the code does.  `fault` records a
`BUG_ON` or the overwriting of the list's head.  A read holds no lock but works
below `i_size`; append and truncate hold `i_mutex`, and truncation takes the size
down, invalidates the cache, and then cuts the chain.

Abstractions: the id is a counter modulo `IdSpace`, and a walk does not last while
it goes all the way round (`IdNotReused`); `kmem_cache_alloc` succeeds (its result
is not tested, `cache.c:152`).

### FatRead

One call of `fat_sync_read`: the process waits for `i_mutex`, `look` is in
`get_nth_cluster`, `block` is before the next `sbread`, `next` is after a cluster,
before the lookup of the next, `unlock` is before the release.  The three nested
recursions of the code are a loop over blocks with the number of bytes left in
all (`len`) and in the cluster (`left`); an error leaves all three at once, as it
does in the code.  `NextEnds` is before the test for bytes left, as in the code: a
read that ends in the last cluster sets EIO and drops it.

What a program asked for matters only once it has the mutex and is chosen there;
on return the call's variables are gone.  A byte is named by its block and
offset, so what the user got is a sequence of such names.  The byte `sbread`
changes is followed in one block, `Watched`, as whether it differs from when the
volume was mounted.

The chain and the size of the file are constant (the port cannot write files)
but need not agree: a volume may hold a chain that is too short, runs into a free
entry or goes in a circle.  Entries outside the table, and a file with a size and
no first cluster (`BUG_ON`), are left out.

### FatDir

`mem` are the slots in the buffers, `disk` those that are written; the volume is
mounted with dirsync.  A name is a run of long slots, highest number first, and a
short one.  `op` is the operation under `lock_super`, at one of the stages of
`fat_add_entries` (free slots are filled block by block, the short slot last; then a
new cluster; then undo) or of `fat_remove_entries` (the block with the short slot
first).  `fat__get_entry` maps the position to a block through `fat_bmap` and skips a
block that cannot be read.  `filp` is one open directory with its position, read in
one of two ways; the names owed to it and told are history.  What may go wrong in a
behaviour is one of `DirFailures`: failing allocations with stops and with clean-ups that
cannot be written, or failing allocations with failing writes.

Abstractions: a slot's checksum is the identity of the addition it belongs to; an
alias is a stem and a tail, tried in order and then from the clock; an error of
`fat_bmap` is the end of the directory, as it is for the callers; one reader uses
one of the ioctls or readdir, not both.

### MsdosNames

A slot is a name, a first cluster (which stands for what the file holds) and whether
it is a directory.  A name operation runs under `lock_super`; inside it each call
that may fail or that takes the hash lock is a step, and between them writeback of
inodes and eviction go on.  `fat_iget` may find an inode that is being freed.  Rename
is the code's with all of its error labels.  `NameSpace` is what users may rely on,
while an operation runs they see what was there before (`before`).

Abstractions: two directories that stay; names have been formatted (`ShortNames`);
the rename that only hides a file is left out.

### FatMount, FatMounted and what lives on a mounted volume

`FatMount` follows one volume through the module's life: each acquisition of
`fat_fill_super` is a step, `Refused` takes any of the early exits, and the way out
releases by the code's list, testing the pointers (`ptr`) and not what is held
(`held`).  `stale` records a release or a use of what is not held.  Beside that the
free count goes from allocations to FSINFO, the mark cleared before the count is
read.

`FatMounted` adds what exists only while the volume is mounted.  These parts use no
variable of each other, so they take turns in one quiet state of the mount rather
than in all of them.

- `FatAttrs`: the bits of an entry, and the mode, saved bits and flag of the inode
  made from it.  chmod, the attribute ioctl and a write hold `i_mutex`; writeback
  reads the saved bits and the mode in two steps without it.
- `VfatNames`: entries answer to the name a user gave and to their alias.  Dentries
  are made by lookups and by operations, positive and negative; `version` is
  `i_version` of the directory.  Each operation includes the lookups the kernel makes
  before it.
- `FatTime`, `ShortNames`, `VfatText`, `FatOptions`, `FatHandles`: conversions as
  operators, evaluated over all inputs of their small alphabets.

## 3. Runs

All twelve runs end without an error.

| run | question | instance | states |
|---|---|---|---|
| `pipe_safety` | which invariants hold without any rule for the users | 3 processes, one direction each, sizes 1 and 2, counts up to 2, 1 byte value | 590k |
| `pipe_fifo` | is it a queue when users keep the two rules, and do reads and writes return | 2 processes, one direction each, 2 byte values, sizes 2 and 3, counts up to 2 | 176k, fairness below |
| `access_open` | who may have the four devices | 4 processes chosen to differ in one respect each | 2.5M |
| `dev_file` | is the list one sparse file | 2 processes, shapes {1,2} x {1,2}, positions to 3, counts to 2, the constraint `Together` | 706k |
| `scull_module` | what does a failed or undone initialisation leave | 2 devices, 2 pipes, the access devices with 2 terminals, one file each; every call may fail | 78k |
| `fat_table` | what do failures leave in the table | 2 directories, 5 clusters in blocks of 3, all failures but "link" | 80k |
| `fat_entries` | do bytes, blocks and processes make one table of successors | 2 files, entries 2..5, FAT12 in blocks of 4 bytes with arrays of 3 and 4 blocks, FAT16, FAT32 | 165k |
| `fat_cache` | is the extent cache the chain | 2 processes, 4 clusters, 2 extents, 3 ids; files empty, in order, out of order | 309k |
| `fat_read` | does a read return the file's bytes and tell the truth | 2 processes, 3 clusters of 2 blocks of 2 bytes, 4 tables, sizes 0, 5, 10, 12, counts 0, 1, 3, 8 | 61k, fairness below |
| `fat_dir` | is a directory a set of names | names of 1, 2 and 3 slots, two slots in a block, up to 3 blocks, one tail and one from the clock; failing allocations with stops and failing clean-ups, or with failing writes | 664k |
| `msdos_names` | does a name operation happen or not, with inodes coming and going | 2 directories with a name each, 3 slots, 2 inodes, 2 first clusters, up to 2 links; failing build and ".." | 357k |
| `fat_mount` | does a mount give back what it took, and is what a mounted volume is told what it tells | 2 free clusters, 2 character sets, 4 masks, 4 asked names, 3 nodes, 6 versions | 658k |

What the properties say:

- `ScullPipe`: `SemHeld` (the semaphore is held exactly by the process between a
  down and its up), `NoUseAfterFree`, `ReadersNotStranded` and
  `WritersNotStranded` (a sleeper for whom there is something is about to be
  woken), `Fifo` (it implements `PipeFifo`), `Progress` (reads and writes leave
  their loops).
- `ScullDev`: `ListRight` (the list has its shape, is as long as it says, covers
  the size, and a read below the size finds its item), `File` (it implements
  `SparseFile`).
- `ScullAccess`: `OneOpen`, `ExactCounts`, `OneUser`, `NotStranded`, `OwnClone`.
- `ScullModule`: `Tidy` (whatever fails, nothing is left, a device that can be opened
  has its structures and no two have one number; what is taken back had been given,
  but for the access devices after one of three failures).
- `FatTable`: `ChainsSound` (chains end, are disjoint, are as long as the directory
  says), `Accounts` (no cluster lost, a valid count is right), `BackupFollows`.
- `FatEntries`: `PointersRight`, `SearchRight` (a full volume is full), `Settled`
  (second table equal, every cluster somewhere), `Volume` (implements `FatVolume`).
- `FatCache`: `CacheSound` (every extent describes the chain), `RightCluster`,
  `Places` (places are counted exactly while one is promised).
- `FatRead`: `RightBytes` (the user gets the bytes from the position on, in order,
  and the position follows), `Answer` (`Whole`: all of them when nothing fails;
  `HonestAnswer`: an error only when nothing was copied, and for a reason), `Returns`.
- `FatDir`: `OneStep` (implements `DirListing`: a name appears and goes in one step,
  on the disk too), `ListedOnce` (what stays is told once by a readdir in many
  calls), `AliasUnique`.
- `MsdosNames`: `OneInode` (one usable inode for a slot), `Written` (a clean inode is
  what its entry says), `DirsRight` (".." and link counts), `Unshared` (no cluster in
  two entries), `Atomic` (implements `NameSpace`).
- `FatMounted`: `Balanced` (nothing left, nothing released twice), `CountReaches`
  (the free count is in FSINFO or on its way), `Reload` (an evicted inode comes back
  the same), `CacheTrue` (the dentry cache says what the directory would), `ReadBack`
  (the conversions, over all values of small alphabets: times, names, long names,
  options, handles).

Statements named in a module as "Not kept" are not properties of a run; section
"Where the code and its words differ" tells why.

### Bounds

*scull.*  The pipe needs two processes for every lost wake-up and a third to take
what the first was woken for; sizes 2 and 3 with counts to 2 make a transfer end at,
before and across the end of the buffer, with the gap of one byte that tells full
from empty.  `pipe_fifo` has one direction for each process; that its safety
properties hold for a process that opens for both is proved.  The bare device needs
two quanta in a set, two sets, a hole, and a transfer that ends inside a quantum: one
program alone is followed through all of that, two at once (`Together`) through lists
of two quanta; its safety and its refinement are proved without bounds.  For the
access devices two users on one terminal, a user with two ids, and one with an
override are all the relations the code tests.  Two devices in a family are the least
that make an initialisation fail half way through one.

*FAT table.*  Five clusters in blocks of three (entries 2 | 3 4 5 | 6) make a search
wrap, cross blocks and end in a short block; two directories share a block; all
clusters can be used up.  In `fat_entries` the FAT12 entries 2 and 5 lie in two blocks,
an array of three blocks is full before a freed chain ends, and two files grow into
each other's blocks.  The extent cache has fewer places (2) than a fragmented file has
extents (3), and ids go round.  It has two processes; what more of them do is proved.

*FAT reads.*  Two blocks in a cluster and two bytes in a block make reads begin and
end at, before and behind every border, over chains in order, out of order, too short,
running into a free entry, and circular.

*Directories and names.*  Names of up to three slots in blocks of two lie across a
border and need both free slots and a new cluster; two names share a stem, so one tail
is taken and the clock is asked.  Two directories with a name each and three slots
allow every case of rename between directories: to a new name, over a file, over an
empty directory; two inodes allow one to be evicted while the other is made.  With
`Name <- OneDirectory` in the configuration the same properties hold of renames within
a directory (485k states); both at once are beyond five minutes.  Six versions are two creations, a removal and a rename with stale dentries of each.

### Rules for users

Some promises hold only if the programs keep rules the driver does not enforce.
They are stated as constraints on steps, in the specifications named after them:

- `CarefulOpen`: no open of a pipe while a process sleeps in a write.
- `CarefulSetSize`: no change of `scull_p_buffer` while a buffer is allocated.
- `StableSpec` of `ScullDev`: no trim changes the shape while a call has looked
  at it, and no call looks while a trim changes it.

Runs and theorems that need no rule use `Spec` (`AccessSpec` and `ModuleSpec` where the
proofs of the three scull modules stand in one).

### Fairness

Used in `pipe_fifo` and `fat_read` only.  `WF_vars(Run(p))`: a process in the kernel
that is not blocked runs on, as the scheduler ensures.  `SF_vars(Acquire(p))`: the
semaphore is handed to its waiters in the order they came, so a process cannot be
passed over for ever (strong fairness, because between two grants the step is
disabled).  Nothing makes a program call the driver, send a signal or close a file, so
the liveness properties ask for nothing of that kind: `ReadProgress` says that a read
leaves its loop, or the data is gone, once there was data for it, and `WriteProgress`
the same for space.  In `FatRead` the same holds for a process inside a read and for
`i_mutex`.  The loops elsewhere are over chains, slots and lists that the invariants
keep finite.

### Deadlock

Checked in eight runs.  `fat_cache`, `fat_dir`, `msdos_names` and `fat_mount` say
`CHECK_DEADLOCK FALSE`, because a bound of the model stops them: ids that are all in
use, slots and aliases that are used up after a stop, links, versions.

## 4. Proofs

`ScullPipe_proofs`, first half (no rules).  Seen alone, `ReadersNotStranded` and
`NoUseAfterFree` are not inductive.  `IInv` adds what they rest on: which process
can be in which operation (`FileUse`), that `nreaders` and `nwriters` are the
numbers of open files (`OpenCounts`), so that the last close is the last one, that
there is a buffer while one of them is not zero (`Allocated`), that a pointer
stands at the end only while its owner is about to wrap it (`Pointers`), and that
a copy moves no more than there is (`Transfers`), which stays true up to the
pointer update because by `SemHeld` nobody else is between a down and its up.
From it: `TypeCorrect`, `SemaphoreDiscipline`, `BufferStaysAllocated`,
`NoLostReaderWakeup`.

`ScullPipe_proofs`, second half (with both rules).  `CarefulInv` adds that the allocation
has the size the parameter says, that nobody waits for space while an open is
under way, that what a copy set up is still there when the pointer follows
(`Copied`), and that the unread slots hold written bytes, never `Garbage`.  From
it: `EndIsRight`, `NoLostWriterWakeup`, and `ImplementsFifo`, a step simulation:
every step of the driver is a step of `PipeFifo` or leaves its variables alone.
The step that matters is the pointer update, which is the abstract send or
receive; copying before it and wrapping after it change nothing abstract.

`ScullDevices_proofs`, third part (`StableSpec` of `ScullDev`).  `ListRight` is not inductive: that a read
finds its item rests on the shape it took being the list's, and that a write leaves a
list that covers the size rests on nobody trimming beside it.  `DevInv` adds who holds
the semaphore (`Holding`), that a call knows the shape from its second look on
(`ShapeKept`), that a write stays below the largest position (`Room`), and that a
trim has emptied the list before it changes the shape (`Emptied`).  The arithmetic of
positions is in lemmas of its own: `Place` and `PlaceAfter` (a position and the ones
after it in its quantum have the item, quantum and byte the code computes),
`SameQuantum` (and no others have), `PieceFits`.  What a write does to the list is
in `OtherArray` and `OtherQuantum`: all bytes but those of the one quantum stay.
From this: `ListStaysRight`, `StableKnowsShape`, and `DeviceIsAFile`, the
refinement of `SparseFile` for all shapes and sizes.

`ScullDevices_proofs`, first part.  The properties together with `Told` and the types of the
labels are inductive.  `Told` is needed because a waiter reads the count and then
the owner: between the two the count may drop to 0, and then it must be that
somebody is still to wake it.  The counts are cardinalities; two lemmas,
`HoldersMove` and `TakersMove`, say how a step of one process changes the sets of
holders, and everything about counts follows from them.  From it: `TypeCorrect`,
`CountsAreExact`, `OneProcessOnSingle`, `OneUserAtATime`, `NoLostOpener`,
`TerminalsKeepApart`.

`ScullDevices_proofs`, second part (`CleanupIsTidy`).  Cleanup tests pointers and not how far
initialisation came, so `ModuleInv` says at each stage what has been done: which array a
pointer leads to (`PointersRight`), which numbers and regions are taken (`NumbersRight`,
`RegionsRight`), the state of every cdev of each part, those already put among them
(`ScullCdevs`, `PipeCdevs`, `AccessCdevs`), that the use count is the number of open files
(`CountRight`, `FilesRight`), and what is on the heap.  Any of the calls may fail: what a
failure leaves for the cleanup to take back without asking is `missed`
(`MissedRight`), and what is in `wrong` was missed before (`WrongRight`).  `SomeDevice` was found by the proof: with no bare
device and no pipe, both parts take an empty region at the same place, and giving
one back takes the other.

`FatMounted_proofs`, mount.  That a refused mount leaves nothing is not inductive: the way out
tests pointers, so `MountInv` says that a pointer is set exactly when the thing is held
(`HeldRight`), what is held at each place of `fat_fill_super`, and in which order the
way out releases, `sbi` last.  From it `NothingLeft`, for every set of other failures
without "strdup", and `CountIsWritten` without "flush" (see "Where the code and its
words differ" for both).

`FatMounted_proofs`, attributes.  `Reload` speaks of an inode at rest; `AttrsInv` follows it through
the ioctl and through the writeback, which reads the saved bits and the mode at
different moments: an ioctl in between leaves the inode dirty.  `ModeKept` is what
chmod allows.  From it `ReloadsAsItWas`, for a system attribute that is not cleared
under `sys_immutable`.

`FatMounted_proofs`, names of vfat (`CacheIsTrue`; not `check=s` with `shortname=lower`).
`CacheTrue` speaks of dentries that are valid now; `NamesInv` speaks of all: a positive
one has an entry that answers to its name, and a negative one whose time is the
directory's version has none; no time is later than the version (`Says`).  An entry's
alias is one of its name's, and no two entries answer to one name (`EntriesRight`).  The
lemma that carries it, `EntryAdded`, shows why a test of the alias alone is enough when
an entry is made: a name of 8.3 form is its own only alias.

`FatDirectories_proofs`, first part (`TableChains`, `TableAccounts`, `TableBackup`; "link"
not in `Fail`).  A chain is a recursive function of the table, so facts about it go by
induction: the library's induction theorems take an operator, which the provers
cannot instantiate, but they know that `<` on `Nat` is well founded, and from that
`LeastNumber` and `Induct` follow for sets.  By `Induct`, a chain that ends has no
cluster twice, stays as it is while its entries do (`ChainKept`), and becomes one with
another when its last entry is linked to the first of the other (`Joined`).
`TableInv` says that each directory has a chain as long as its size, that the new
clusters are a row of their own (`Pair`, `Flying`), and the account and the count.
`BackupFollows` is not inductive: it excuses every block of a cluster in flight,
and that excuse ends when the clusters join a chain.  `Copied` excuses a block only
while it is in the list of blocks to copy, or while the clusters are on their way back.

`FatDirectories_proofs`, second part (`Aliases`, `Listings`, `Directory`; every block can be
read, no failed writes together with stops, and for the last two none together with failing
clean-ups either: TLC breaks the properties without, see the next section).  Any names
with any number of long slots, any size of block and of directory.
`AliasUnique` alone is not inductive: an addition has put some of its slots into the
directory, block by block, or takes them out again; a removal takes the short slot first;
and a stop goes back to what the disk has.  `AliasInv` speaks of short slots only: those of
the operation lie in a row of places that were free (`Adding`, `Row`), what is to be
erased has no short slot (`EraseRight`), and the disk has the same short slots but for
one that is `Pending`, whose alias no other has (`DiskRight`).  `RunInv` goes on from it with
whole entries (`Ent`): every short slot that is not `Doomed` or `Pending` ends one, two
entries of one name do not exist (`OneEach`), what is to be erased reaches into none
(`Apart`), all are on the disk as well where the system may stop (`DiskRuns`).  From it
follows what a reader gets: `NameAt` answers with the name of the entry whatever stands
before it, so that long slots left by a stopped removal mislead nobody (`EntName`,
`ListingIs`).  For the open directory, what is owed begins at its position or after it
and what was told ends before it (`DirRight`); new entries go to free slots on either side
and move nothing.  Each step then leaves the names that live (`LiveNames`) alone or changes
them by one, and `Shown`, which is `Visible` under the invariant, moves only when an operation
ends or the system stops (`StepRun`).  Before they were proved, both invariants were
checked by TLC on the constants of `fat_dir`.

`FatRead_proofs` (`ReadsRight`, `ReadAnswers`; no hypothesis).  The sizes of blocks and
clusters are parameters, so division is the difficulty: `DivMod` to `TimesJoin` are the
facts about quotients that the provers lack, and `PlaceOf`, `PlaceAfter`, `BlockAfter` and
`ClusterAfter` say where a position and the ones after it lie.  `RightBytes` and `Answer`
speak of a call that returns; `ReadInv` says for each label how the cluster, the
block, the offset and the two counts of bytes left follow from the position and the
bytes copied so far.  The chain may be circular or broken: what is copied lies on
clusters the walk went through, by induction over the chain, and a walk that ends
early knows it (`Whole`).

`MsdosNames_proofs`, first part (`NamesOneInode`, `NamesLinksEnough`; "remove" not in `Failing`).
`OneInode` alone is not inductive, since attach and detach move an inode between two
slots with writeback and eviction in between.  `Structure` lists the stages an operation
can be at and what its inodes and slots are there (`Stages`), that a name has one slot
but during a rename (`NamesRight`), that dentries and the writeback hold an inode
that is live (`DentriesRight`, `FlushRight`), and that the links of a directory,
with what the operation has yet to add (`Pending`) and to take (`Ending`), cover its
subdirectories.

`MsdosNames_proofs`, second part (`NamesWritten`, `NamesUnshared`, `NamesDirsRight`,
`NamesAtomic`; neither "remove" nor "sync" in `Failing`).  `Contents` goes on from `Structure`: a clean
inode agrees with its entry, two inodes or two entries share only emptiness, but for
the two slots of a rename, ".." is that of the directory the entry is in or is about to
be, and `Shown`: what users see is what they saw before the operation, until the step
that makes it happen.  A name may be shown as its entry or as its inode says, so the
proof of the refinement needs to know when an entry is out of date (`Stale`).  From
it each step is a step of `NameSpace` or changes nothing it shows.  The
hypotheses cannot go: with "remove" failing TLC breaks `OneInode`, `LinksEnough` and all
the others, and with "sync" failing `Written`, `Unshared`, `DotdotRight` and `Atomic`.

`FatCache_proofs` (`CountsHold`, `PlacesHold`, `CacheHolds`, `ReadsMapped`).  `Path` is the
chain as a function of the index, so what an append or a truncation does to it is
said by agreement of two paths up to an index (`Agree`, by the same induction over
chains as above).  `CacheSound` is not inductive: an extent gets into the list from a
copy that a process has carried through a walk, without a lock, while others append and
cut.  `CacheInv` adds where each call has come to on the chain (`CallsRight`) and what
its copy is worth (`CopyFits`): one that goes no further than where the call is going
stays true, since a truncation cuts above every reader; one that goes further was taken
from the list, and is true only as long as its id is the valid one.  The step that
adds a copy must then find it in the list, or find no place and nobody allocating
(`CopyIn`), and here a third process can interfere, as told in the next section: with
two, a copy that comes out of the allocation never goes further than its call.  With
more it may, and be out of date.  `AddsStale` is the step that then adds it, and
`NothingStale` that nobody takes it.  Of any copy at least the first cluster stays so
(`CopyBegins`), so even a stale one does not run into `BUG_ON`, and every other step
keeps `CacheInv` for any number of processes.  Both theorems therefore say two things:
that the property always holds with two, and that with any finite number it holds as
long as no `AddsStale` happens.  The condition is not an assumption about the
environment; it names the one step of the code that can end it.  A read is answered
rightly because no truncation comes below where it is going (`Below`).  `CountsHold`
is for any number of processes; `PlacesHold` needs as many places as processes, since with one more
the list can be empty when all places are allocations under way.

`FatEntries_proofs` (`Invariant`, `Pointers`, `Searches`, `Settles`, `IsVolume`; no
hypothesis, any size of table and blocks, all three widths).  It goes in three layers.
The first is about bytes: where an entry is (`Byte`, `Blocknr`) and that a step
of `fat_ent_next` leaves the blocks and pointers a fresh read would give; what
`ent_put` leaves (`PutEven`, `PutOdd`, `Put16`, `Put32`), in particular that
the other FAT12 entry of a shared byte, and the half bytes of no entry, read as before.  The
second is about successors only.  Nothing in the state says whose a cluster is, and `Volume`
needs it: an entry is linked or released rightly because nothing else leads to it,
which holds because chains of different calls never meet.  So the invariant says that
there are `own` and `rank` (`Owned`): every cluster that is not free has one owner (a
file, the new clusters of a call, a cluster just found), the owner goes along with the
link, the rank grows, no two entries lead to one cluster, and each owner's first cluster
is where a process holds it (`View`).  For each write of an entry there is a lemma that
gives the new `own` and `rank`.  The third is about the search, the count and the second table:
what a search that goes round has passed is not free (`Searching`; the freeing of a cluster
behind its back would break it, and needs the lock), and a byte in which the tables
differ is in a block that some process is still to copy (`Mirrored`): one it has collected, one of
the entry it is at, or, while it gives clusters back, one of their entries.
`Settles` then needs that a chain of a file has all its clusters, by induction along the
rank (`ChainAll`); `IsVolume` is a step simulation.

Assumptions: those the modules state of their constants (`PipeAssumption`,
`DevAssumption`, `NullAssumption`, `AccessAssumption`, `NameAssumption`,
`DirOfAssumption`, `PosAssumption`, `ValuesAssumption`, `TableAssumption`,
`ReadAssumption`, `ModuleAssumption`, `NoProcAssumption`, `SizeAssumption`,
`SizesAssumption`, `NamesAssumption`, `ShortAssumption`, `TailsAssumption`, `AliasAssumption`,
`FormatAssumption`, `StartsAssumption`, and of `FatMounted`): finitely many processes,
directories and slots, sizes that are positive, values that differ, a null pointer that
is no array, files that begin at different clusters.  `FormatAssumption` asks for blocks
that hold whole entries (sectors are powers of two from 512 on), for an array of two
blocks at least, and that no cluster's number reads as a mark of its width: `MAX_FAT12`,
`MAX_FAT16` and `MAX_FAT32` see to that but for the one largest FAT32 volume, whose last
cluster is 0x0FFFFFF7, the mark of a bad one.  What else a theorem needs stands in its
`ASSUME`.

Only model-checked, with the reason: liveness (fairness and ENABLED are outside the
prover); `ReadBack` of `FatMounted` (conversions are recursive
operators, checked over all values of small alphabets).

## Where the code and its words differ

Each of these was met while modelling.  The runs leave the cause out, or the statement
is not a property of a run.

**scull**

- An open of a pipe resets `rp` and `wp` (`pipe.c:81`), which empties the pipe, and
  wakes nobody: a writer that slept on a full pipe sleeps on an empty one
  (`CarefulOpen`).  Every open sets `end` from the current `scull_p_buffer`, whatever
  size was allocated: after a resize `end` is not the end of the buffer
  (`CarefulSetSize`).
- Read and write take the shape before the semaphore, and a trim can change it in
  between; `scull.sats` declares `scull_read_main` for the list's own shape
  (`KnowsShape`; `StableSpec`).
- `scull_trim` "must be called with the device semaphore held"; the opens of
  `access.c` call it without, and sculluid can be open twice (`UserTrimAlone`).
- Initialisation: `main.c:709` says that the cleanup "must be careful to work correctly
  even if some of the items have not been initialized", `access.c:388` that its own is
  "required to never fail, even if nothing was initialized first".  A failed `kmalloc`
  of `scull_devices`, a failed region of the access devices, and a failed `cdev_add` in
  `scull_access_setup` (which puts the kobject twice) make it take back what was not
  given; `Tidy` allows that of the access devices after these three (`missed`), and of
  nothing else.

**FAT table, cache, reads**

- `fat_chain_add` changes the last entry of a directory in memory before its write
  fails; the new cluster is then freed, and the directory's chain runs into a free
  entry.  `fat_table` leaves the failure "link" out.
- The comment in `__fat_cache_inval_inode` says that a copy of a cache entry taken
  before an invalidation is discarded.  With three processes one can enter the list
  after it (`CopiesDiscarded`): its id is compared before the lock is dropped to
  allocate, and not again after.  One process holds a copy of a long extent; two
  others add the same new extent at once, so that one pushes the long one out of the
  full list and the other gives its place back; the first is then in its allocation
  while the file is cut inside the extent, and `CacheSound` fails.  That takes two places
  and three processes; `fat_cache` has two, and `CacheHolds` says that nothing else can
  go wrong with more.
- `fat_cache_add` expects an entry in a full list (`cache.c:160`).  When more processes than
  `FAT_MAX_CACHE` (8) allocate at once, all the places are theirs, the list is empty, and
  the head of the list is written as if it were an entry (`NeverWild`; one place and two
  processes are enough to see it).  The run has as many places as processes.
- `spec_simpl.sats` gives a read one file and a write two; `sbread` changes the second
  byte of every block it reads and writes the block back (`ReadOnly`).
- `fat_sync_read` is declared for `n` greater than 0; its C caller (`fat_file.c:9`) does
  not test that, and a read of no bytes in the last cluster is answered with EIO
  (`HonestAnswer` names it as the exception).

**FAT directories and names**

- `fat__get_entry` skips a block that cannot be read, so `fat_add_entries` may put a
  name on both sides of one, and its `slot_off` is then wrong; removing the name
  erases a slot of another.  `fat_dir` has no such block (`Bad`).
- When a write of new slots and then the erasing of them both fail, the short slot
  stays, or stays without its long ones: the file is there under its alias alone, and
  `OneStep` is violated.  A failing write together with a stop breaks `OneStep`,
  `ListedOnce` and `AliasUnique`: a removal whose write fails returns the error, but the
  name is gone from the buffers and its alias may be given to another; after the stop
  the disk has both.
  Neither is in `DirFailures`.
- The undo of a rename over a file: `namei_msdos.c:616` says that if the new entry did
  not share the data cluster "it shouldn't be serious corruption".  It leaves the
  replaced name's entry with the moved file's cluster, when a write fails.  A failing
  sync breaks `Unshared` and `Written`, a failing removal `OneInode`; so `Failing` is {build, dotdot}.
- A rename of a directory over one in the same directory does not take `i_nlink` down
  (`LinksCounted`).  The links of the code are never fewer than the subdirectories.
- With `dots`, `msdos_hash` takes "foo" and ".foo" for one name, so that a negative
  dentry of one hides the other (`CacheApart`).
- vfat with `check=s` and `shortname=lower` shows a file that was made as "FOO" as "foo",
  a name under which it is not found; `fat_mount` leaves that pair of options out.  A
  failing write in `fat_remove_entries` leaves an entry gone in memory and its dentry
  positive; a rename between directories takes the other directory's counter along.
  Both left out.

**FAT mount and attributes**

- `parse_options` frees the character set and then allocates its copy; when that fails
  the pointer still points to the freed string, which the way out frees again
  ("strdup" in `Failing`).
- A block that cannot be read in `fat_clusters_flush` loses the count ("flush").
- `fat_show_options` writes `codepage=cp437` (`inode.c:842`); the token is
  `codepage=%u`, so the line cannot be given back (`OptionsRemount`).  `allow_utime=0`
  under a mask that leaves group and others writing is not told and comes back as the
  mask's.
- `i_flags &= S_IMMUTABLE` (`file.c:104`) keeps the flag when the system attribute is
  cleared, although under `sys_immutable` "system files are immutable" means the
  others are not (`ClearsSystem`).  A rename to another extension under `showexec`
  keeps the old x bits.
- `fat_get_parent` builds an inode at the place of the ".." entry, a second one beside
  the parent's own.

## Faulty variants

Definitions named `X_Y`, where `X` is a definition of the module and the comment
or the name `Y` says what is wrong, are not part of any specification.  Each is `X`
with a plausible slip (a test dropped, an index off by one, a wake-up forgotten).
Put in place of `X`, it makes the run named in `PROJECT.json` ("mutants") fail at
the property named there: that shows the property depends on that piece of the
code.

## Not modelled

- The copies: `C/myfat`, `ATS/myfat`, `ATS/myfat2` and `ATS/myfat_test` hold the same
  FAT code, with other tracing.  Each definition maps one copy, so the lines of the
  others are not in the map.
- Output only: `/proc` printouts (which do not compile), `statfs`, tracing.
- `fasync` and SIGIO, duplicated and forked files.
- Integers: parameters of scull that are zero or negative, positions beyond the range
  of an int, the arithmetic on the boot sector (`total_sectors - data_start` may pass
  below zero), FAT sizes beyond 32 bits.
- Text: character sets of more than one byte, utf8.
- The kernel's side: page cache writes, readahead and discards, NFS requests without an
  intent, owner and times in `setattr`, the order in which a semaphore serves.
- FAT: the FAT16 root directory's fixed area, a chain of more blocks than
  `MAX_BUF_PER_PAGE`, the rename of a msdos file that only hides it, writes of `i_attrs`
  by a rename beside an ioctl (they are not under `i_mutex`), code under `#if 0`.
- Hello modules, scripts, logs.  ATS declarations (`.sats`) are checked by the ATS
  compiler and read here for what they promise.

## What could follow

1. Proofs: `CacheSound` of `FatCache` for any number of processes, with the id compared again.
2. Vfat's rename between directories in `MsdosNames`, with the dentries of `VfatNames`.
3. A stop in the middle of `FatTable` and `MsdosNames`, and what the next mount finds.
