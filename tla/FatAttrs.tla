------------------------------ MODULE FatAttrs ------------------------------
(* The attributes of one file or directory: the bits in its directory entry,   *)
(* and the mode, the saved bits and the immutable flag of its inode.  The      *)
(* inode is made from the entry, changed by chmod, by the attribute ioctl and  *)
(* by writes, which hold i_mutex, and written back beside them, which does     *)
(* not.                                                                        *)
EXTENDS FiniteSets

CONSTANTS Masks,         \* values of fs_fmask or fs_dmask
          ClearsSystem   \* whether the system attribute is taken away on a
                         \* volume mounted with sys_immutable

(* A mode has bits for the owner and for the others; the group is like these.  *)
R == {"ur", "or"}
W == {"uw", "ow"}
X == {"ux", "ox"}
Mode == SUBSET (R \cup W \cup X)
Attr == {"RO", "ARCH", "SYS"}      \* ATTR_HIDDEN and ATTR_VOLUME are like ATTR_ARCH

VARIABLES file,     \* what it is, and the options of the mount that concern it
          attr,     \* the attributes in the directory entry
          inode,    \* the inode, or NoInode
          dirty,    \* it is on the list of dirty inodes
          call,     \* the ioctl that holds i_mutex
          wb        \* the writeback of the inode

attrVars == <<file, attr, inode, dirty, call, wb>>

NoInode == [mode |-> {}, attrs |-> {}, imm |-> FALSE, live |-> FALSE]
NoCall  == [pc |-> "no", attr |-> {}]
NoWb    == [pc |-> "no", seen |-> {}]
NoFile  == [dir |-> FALSE, exe |-> FALSE, mask |-> {}, rodir |-> FALSE, showexec |-> FALSE,
            sys_immutable |-> FALSE, quiet |-> FALSE]
Files   == {f \in [dir : BOOLEAN, exe : BOOLEAN, mask : Masks, rodir : BOOLEAN, showexec : BOOLEAN,
                   sys_immutable : BOOLEAN, quiet : BOOLEAN] :
              IF f.dir THEN ~f.exe /\ ~f.showexec ELSE ~f.rodir}

-----------------------------------------------------------------------------
(* fat_mode_can_hold_ro, fat_make_mode, fat_make_attrs and fat_save_attrs.     *)
CanHoldRo(f) == (f.dir => f.rodir) /\ ~(W \subseteq f.mask)

MakeMode(f, a, mode) ==
  (IF "RO" \in a /\ (f.dir => f.rodir) THEN mode \ W ELSE mode) \ f.mask

MakeAttrs(f, saved, mode) ==
  saved \cup (IF CanHoldRo(f) /\ mode \cap W = {} THEN {"RO"} ELSE {})

\* X_Y is a wrong X: README, "Faulty variants".
SaveAttrs_All(f, a) == a
SaveAttrs(f, a) == IF CanHoldRo(f) THEN a \ {"RO"} ELSE a

(* fat_fill_inode.  With showexec only a name that ends like a program has x.   *)
Base(f) == IF ~f.dir /\ f.showexec /\ ~f.exe THEN R \cup W ELSE R \cup W \cup X
Filled(f, a) ==
  [mode  |-> MakeMode(f, a, Base(f)),
   attrs |-> SaveAttrs(f, a),
   imm   |-> "SYS" \in a /\ f.sys_immutable,
   live  |-> TRUE]

Load ==
  /\ ~inode.live
  /\ file' \in Files /\ attr' \in SUBSET Attr
  /\ inode' = Filled(file', attr')
  /\ UNCHANGED <<dirty, call, wb>>

-----------------------------------------------------------------------------
(* fat_setattr for a mode.  What fat_sanitize_mode refuses is left as it is    *)
(* without an error.                                                           *)
Sane(mode) ==
  LET perm == mode \ file.mask
      full == perm \cap W = W \ file.mask
  IN  /\ perm \cap (R \cup X) = inode.mode \cap (R \cup X)
      /\ IF CanHoldRo(file) THEN full \/ perm \cap W = {} ELSE full

SetMode(mode) ==
  /\ inode' = IF Sane(mode) THEN [inode EXCEPT !.mode = mode \ file.mask] ELSE inode
  /\ dirty' = TRUE

(* chmod of the owner: the kernel refuses it for an immutable inode.           *)
Chmod ==
  /\ inode.live /\ call = NoCall /\ ~inode.imm
  /\ \E mode \in Mode : SetMode(mode)
  /\ UNCHANGED <<file, attr, call, wb>>

(* fat_ioctl_set_attributes up to fat_setattr.  With the option quiet a user   *)
(* who may not change the mode gets no error, and the call goes on.            *)
IoctlBegin ==
  /\ inode.live /\ call = NoCall
  /\ \E a \in SUBSET Attr, capable \in BOOLEAN :
       /\ file.sys_immutable /\ "SYS" \in a \cup inode.attrs => capable
       /\ file.sys_immutable /\ "SYS" \in inode.attrs /\ "SYS" \notin a => ClearsSystem
       /\ call' = [pc |-> "set", attr |-> a]
       /\ \/ SetMode(MakeMode(file, a, IF file.dir THEN R \cup W \cup X
                                       ELSE R \cup W \cup (inode.mode \cap X)))
          \/ file.quiet /\ UNCHANGED <<inode, dirty>>
  /\ UNCHANGED <<file, attr, wb>>

(* The flag is set, or the other flags are cleared (file.c:104).               *)
IoctlFlag ==
  /\ call.pc = "set"
  /\ inode' = [inode EXCEPT !.imm = @ \/ (file.sys_immutable /\ "SYS" \in call.attr),
                            !.attrs = SaveAttrs(file, call.attr)]
  /\ call' = [call EXCEPT !.pc = "dirty"]
  /\ UNCHANGED <<file, attr, dirty, wb>>

(* The end of the ioctl and of the write.                                       *)
MarkDirty ==
  /\ call.pc = "dirty"
  /\ dirty' = TRUE /\ call' = NoCall
  /\ UNCHANGED <<file, attr, inode, wb>>

(* fat_write_end, the first one after the file was archived.  The file may     *)
(* have been opened before it became immutable.                                *)
FileWrite ==
  /\ inode.live /\ call = NoCall /\ ~file.dir /\ "ARCH" \notin inode.attrs
  /\ inode' = [inode EXCEPT !.attrs = @ \cup {"ARCH"}]
  /\ call' = [NoCall EXCEPT !.pc = "dirty"]
  /\ UNCHANGED <<file, attr, dirty, wb>>

-----------------------------------------------------------------------------
(* The kernel takes the inode from its list, and fat_write_inode reads the     *)
(* saved bits and the mode.                                                    *)
WriteBegin ==
  /\ dirty /\ wb = NoWb
  /\ dirty' = FALSE /\ wb' = [pc |-> "attrs", seen |-> {}]
  /\ UNCHANGED <<file, attr, inode, call>>

WriteAttrs ==
  /\ wb.pc = "attrs"
  /\ wb' = [pc |-> "mode", seen |-> inode.attrs]
  /\ UNCHANGED <<file, attr, inode, dirty, call>>

WriteEnd ==
  /\ wb.pc = "mode"
  /\ attr' = MakeAttrs(file, wb.seen, inode.mode) /\ wb' = NoWb
  /\ UNCHANGED <<file, inode, dirty, call>>

(* An inode that nobody uses and that is clean is forgotten.                   *)
Evict ==
  /\ inode.live /\ ~dirty /\ call = NoCall /\ wb = NoWb
  /\ file' = NoFile /\ attr' = {} /\ inode' = NoInode
  /\ UNCHANGED <<dirty, call, wb>>

AttrInit == file = NoFile /\ attr = {} /\ inode = NoInode /\ dirty = FALSE /\ call = NoCall /\ wb = NoWb
AttrNext ==
  \/ Load \/ Chmod \/ IoctlBegin \/ IoctlFlag \/ MarkDirty \/ FileWrite
  \/ WriteBegin \/ WriteAttrs \/ WriteEnd \/ Evict

-----------------------------------------------------------------------------
(* An inode that is forgotten while it is clean comes back the same: its mode, *)
(* its attributes and its immutable flag are what its entry says under the     *)
(* options of the mount, whatever chmods and ioctls there were and whenever    *)
(* they were written back.                                                     *)
Reload ==
  inode.live /\ ~dirty /\ call = NoCall /\ wb = NoWb => inode = Filled(file, attr)

-----------------------------------------------------------------------------
(* Why it holds.  The mode keeps what the entry cannot say as fat_fill_inode   *)
(* made it, in the midst of an ioctl too; the saved bits and the flag agree    *)
(* but between the ioctl's steps; and a writeback that saw old bits will be    *)
(* followed by another.                                                        *)
AttrsTypeOK ==
  /\ file \in Files \cup {NoFile} /\ attr \subseteq Attr /\ dirty \in BOOLEAN
  /\ inode \in [mode : Mode, attrs : SUBSET Attr, imm : BOOLEAN, live : BOOLEAN]
  /\ call \in [pc : {"no", "set", "dirty"}, attr : SUBSET Attr]
  /\ wb \in [pc : {"no", "attrs", "mode"}, seen : SUBSET Attr]
  /\ call.pc = "no" => call = NoCall
  /\ wb.pc = "no" => wb = NoWb

ModeKept(f, i) ==
  /\ i.mode \cap (R \cup X) = (Base(f) \ f.mask) \cap (R \cup X)
  /\ i.mode \cap W = W \ f.mask \/ (CanHoldRo(f) /\ i.mode \cap W = {})
  /\ CanHoldRo(f) => "RO" \notin i.attrs

AttrsInv ==
  /\ AttrsTypeOK
  /\ inode.live => ModeKept(file, inode)
  /\ inode.live /\ call.pc # "set" => inode.imm = ("SYS" \in inode.attrs /\ file.sys_immutable)
  /\ call.pc = "set" => (inode.imm => file.sys_immutable /\ "SYS" \in call.attr)
  /\ inode.live /\ ~dirty /\ call.pc # "dirty" =>
       /\ wb.pc = "no" => attr = MakeAttrs(file, inode.attrs, inode.mode)
       /\ wb.pc = "mode" => wb.seen = inode.attrs
  /\ ~inode.live => ~dirty /\ call.pc = "no" /\ wb.pc = "no"
=============================================================================
