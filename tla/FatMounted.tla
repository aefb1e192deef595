----------------------------- MODULE FatMounted -----------------------------
(* A volume and what is done on it while it is mounted: the inode of FatAttrs  *)
(* exists only then, and so does the cache of VfatNames; the conversions of    *)
(* FatTime, ShortNames and VfatText are for its entries, FatOptions for the    *)
(* options of its mount, FatHandles for a server that exports it.  The         *)
(* allocations and flushes of FatMount touch nothing of these, so that they    *)
(* take turns here, in one of the states they can meet in.                     *)
EXTENDS FatMount, FatTime, FatAttrs, ShortNames, VfatNames, VfatText, FatOptions,
        FatHandles

Quiet ==
  /\ pc = "live" /\ mount.known /\ mount.charsets = 0
  /\ change = "no" /\ flush = "no" /\ ~dirt /\ free = 0 /\ fsinfo = 0

MountedInit == Init /\ AttrInit /\ VfatInit
MountedNext ==
  \/ ~inode.live /\ version = 0 /\ Next /\ UNCHANGED <<attrVars, vfatVars>>
  \/ Quiet /\ ~mount.vfat /\ AttrNext /\ UNCHANGED <<vars, vfatVars>>
  \/ Quiet /\ mount.vfat /\ VfatNext /\ UNCHANGED <<vars, attrVars>>
MountedSpec == MountedInit /\ [][MountedNext]_<<vars, attrVars, vfatVars>>

(* What is written to a mounted volume is read back.  The fields that          *)
(* fat_time_unix2fat makes follow the calendar, in every time zone, and        *)
(* fat_time_fat2unix gives back the time they were made from; the name that    *)
(* readdir shows of an entry finds it again, with every set of options; a vfat *)
(* name comes back letter by letter from the slots it was put into, long or    *)
(* short; the options that a mount tells give the same mount; and a handle     *)
(* that an NFS client keeps leads back to its file.                            *)
ReadBack ==
  pc = "live" =>
    Conversions /\ NamesReadable /\ VfatNamesReadable /\ OptionsReadable /\ HandlesReadable
=============================================================================
