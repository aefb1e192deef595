----------------------------- MODULE VfatNames ------------------------------
(* A directory of the vfat driver and what the kernel's dentry cache says of   *)
(* it.  An entry answers to two names, the one a user gave and the 8.3 alias   *)
(* that was made for it, so that a name the cache knows to be absent may come  *)
(* into being with another one; i_version tells when it may have.  Names are   *)
(* used under the directory's i_mutex, one call at a time.                     *)
EXTENDS Naturals, FiniteSets

CONSTANTS Asked,        \* the names users give: [key, up, dots]
          Aliases,      \* of each key: the 8.3 keys for its alias
          Nodes,        \* files and directories
          Directories,
          Absent,       \* no node
          MaxVersion,   \* bound on i_version
          Displays      \* the mount options [strict, shortname]

(* An alias is of 8.3 form, and such a name is its own alias.                  *)
ASSUME AliasAssumption ==
  \A key \in DOMAIN Aliases : \A a \in Aliases[key] : a \in DOMAIN Aliases /\ Aliases[a] = {a}
ASSUME AskedAssumption == Asked \subseteq [key : DOMAIN Aliases, up : BOOLEAN, dots : BOOLEAN]
ASSUME NodeAssumption == Absent \notin Nodes
ASSUME DisplayAssumption ==
  Displays \subseteq [strict : BOOLEAN, shortname : {"lower", "win95", "winnt", "mixed"}]

VARIABLES opts,     \* of the mount; strict: check=s
          entries,  \* of the directory
          dentries, \* hashed in the cache
          version   \* i_version of the directory, 0 when it is not in memory

vfatVars == <<opts, entries, dentries, version>>

NoOpts == [strict |-> FALSE, shortname |-> "none"]

Is83(key) == Aliases[key] = {key}

(* vfat_striptail_len: a name is taken without its trailing dots.              *)
Striptail(n) == [n EXCEPT !.dots = FALSE]

(* vfat_cmp, vfat_cmpi, and fat_name_match for the entries.                    *)
vfat_cmp(m, n) == m.key = n.key /\ (opts.strict => m.up = n.up)

(* fat_shortname2uni: how the 8.3 name is shown.                               *)
Displayed(e) ==
  [key |-> e.alias, dots |-> FALSE,
   up  |-> IF opts.shortname = "lower" THEN FALSE ELSE ~e.lcase]

Answers(e, n)  == vfat_cmp(Displayed(e), n) \/ (e.long /\ vfat_cmp(e.name, n))
vfat_find(n)   == {e \in entries : Answers(e, n)}
fat_scan(key)  == {e \in entries : e.alias = key}
NodeFound(n)   == IF vfat_find(n) = {} THEN Absent ELSE (CHOOSE e \in vfat_find(n) : TRUE).node

(* vfat_create_shortname and vfat_build_slots: the entries a name may become.  *)
(* wanted is the name that the user gave.                                      *)
Built(n, node, wanted) ==
  {[name |-> Striptail(n), alias |-> a, node |-> node, wanted |-> Striptail(wanted),
    long  |-> ~Is83(n.key) \/ (~n.up /\ opts.shortname # "winnt"),
    lcase |-> Is83(n.key) /\ ~n.up /\ opts.shortname = "winnt"] :
     a \in {a \in Aliases[n.key] : fat_scan(a) = {}}}

-----------------------------------------------------------------------------
(* The cache.                                                                 *)

Positive(d) == d.node # Absent

(* vfat_revalidate and vfat_revalidate_ci; creating is LOOKUP_CREATE or        *)
(* LOOKUP_RENAME_TARGET.                                                       *)
Valid(d, creating) == Positive(d) \/ ((creating => opts.strict) /\ d.time = version)

Cached(ds, n) == {d \in ds : vfat_cmp(d.name, n)}
Hit(ds, n, creating) == {d \in Cached(ds, n) : Valid(d, creating)}
Dentry(n, node) == [name |-> n, node |-> node, time |-> version]

(* The cache after a lookup: a dentry that is not valid is dropped, and        *)
(* vfat_lookup prefers the name that is asked for, except for directories,     *)
(* which keep the dentry they have.                                            *)
Looked(ds, n, creating) ==
  LET rest  == ds \ Cached(ds, n)
      node  == NodeFound(n)
      alias == {d \in rest : Positive(d) /\ d.node = node}
  IN  IF Hit(ds, n, creating) # {} THEN ds
      ELSE IF alias = {} THEN rest \cup {Dentry(n, node)}
      ELSE IF node \in Directories THEN rest
      ELSE (rest \ alias) \cup {[d EXCEPT !.name = n] : d \in alias}

(* The dentry a lookup gives.                                                  *)
Given(ds, n, creating) ==
  LET after == Looked(ds, n, creating)
  IN  IF Cached(after, n) # {} THEN CHOOSE d \in Cached(after, n) : TRUE
      ELSE CHOOSE d \in after : d.node = NodeFound(n)

LookUp(n) ==
  /\ version > 0
  /\ dentries' = Looked(dentries, n, FALSE)
  /\ UNCHANGED <<opts, entries, version>>

Prune(d) ==
  /\ dentries' = dentries \ {d}
  /\ UNCHANGED <<opts, entries, version>>

-----------------------------------------------------------------------------
(* The operations of the driver, with the lookups that the kernel makes first. *)

(* AfterAdd_Same is a wrong AfterAdd: README, "Faulty variants".               *)
AfterAdd_Same(v) == v
AfterAdd(v) == v + 1

(* vfat_create and vfat_mkdir: the name may be refused, and the inode may not  *)
(* be had although the entry is there.                                         *)
Make(n, node) ==
  LET d    == Given(dentries, n, TRUE)
      rest == Looked(dentries, n, TRUE) \ {d}
  IN  /\ version \in 1..(MaxVersion - 1) /\ ~Positive(d)
      /\ \A e \in entries : e.node # node
      /\ \/ /\ dentries' = rest \cup {d}
            /\ UNCHANGED <<entries, version>>
         \/ \E e \in Built(d.name, node, n) :
              /\ entries' = entries \cup {e}
              /\ version' = AfterAdd(version)
              /\ \/ dentries' = rest \cup {[d EXCEPT !.node = node, !.time = version']}
                 \/ dentries' = rest \cup {d}
      /\ UNCHANGED opts

(* vfat_unlink and vfat_rmdir: d_delete keeps the dentry of a file that nobody *)
(* uses as a negative one.                                                     *)
Delete(n) ==
  LET d    == Given(dentries, n, FALSE)
      rest == Looked(dentries, n, FALSE) \ {d}
  IN  /\ version \in 1..(MaxVersion - 1) /\ Positive(d)
      /\ \E e \in vfat_find(d.name) : entries' = entries \ {e}
      /\ version' = version + 1
      /\ \/ dentries' = rest
         \/ dentries' = rest \cup {[d EXCEPT !.node = Absent]}
      /\ UNCHANGED opts

(* vfat_rename in one directory.  A name that exists keeps its entry, which    *)
(* comes to stand for the other node.                                          *)
Replaced(old, new) ==
  {(entries \ {e, t}) \cup {[t EXCEPT !.node = old.node]} :
     e \in vfat_find(old.name), t \in {t \in entries : t.node = new.node}}
Renamed(old, new, n) ==
  {(entries \ {e}) \cup {t} : e \in vfat_find(old.name), t \in Built(new.name, old.node, n)}

Rename(o, n) ==
  LET first == Looked(dentries, o, FALSE)
      old   == Given(dentries, o, FALSE)
      both  == Looked(first, n, TRUE)
      new   == Given(first, n, TRUE)
      moved == {d \in both : Positive(d) /\ d.node = old.node}
  IN  /\ version \in 1..(MaxVersion - 3)
      /\ Positive(old) /\ old.node # new.node
      /\ Positive(new) => (old.node \in Directories <=> new.node \in Directories)
      /\ \/ /\ entries' \in IF Positive(new) THEN Replaced(old, new) ELSE Renamed(old, new, n)
            /\ version' = AfterAdd(version) + 2
            /\ dentries' = (both \ (moved \cup {new}))
                             \cup {[d EXCEPT !.name = new.name] : d \in moved}
         \/ /\ version' \in {version} \cup (IF Positive(new) THEN {version + 1} ELSE {version + 2})
            /\ dentries' = both
            /\ UNCHANGED entries
      /\ UNCHANGED opts

-----------------------------------------------------------------------------
(* vfat_fill_super sets the operations of the dentries by the options.         *)
ReadDirectory ==
  /\ version = 0 /\ version' = 1
  /\ opts' \in Displays
  /\ UNCHANGED <<entries, dentries>>

Forget ==
  /\ version > 0 /\ entries = {} /\ dentries = {}
  /\ version' = 0 /\ opts' = NoOpts
  /\ UNCHANGED <<entries, dentries>>

VfatInit ==
  /\ opts = NoOpts
  /\ entries = {} /\ dentries = {} /\ version = 0

VfatNext ==
  \/ ReadDirectory \/ Forget
  \/ \E n \in Asked : LookUp(n) \/ Delete(n) \/ \E node \in Nodes : Make(n, node)
  \/ \E o, n \in Asked : Rename(o, n)
  \/ \E d \in dentries : Prune(d)

-----------------------------------------------------------------------------
(* What the cache says without asking the driver is so: a positive dentry's    *)
(* name finds its own node, and a name that is said to be absent finds none.   *)
(* No name finds two entries, the cache has one dentry for a name, and an      *)
(* entry is called as its maker wrote it, whatever was looked up before.       *)
CacheTrue ==
  /\ \A d \in dentries : Valid(d, FALSE) =>
       IF Positive(d) THEN {e.node : e \in vfat_find(d.name)} = {d.node}
       ELSE vfat_find(d.name) = {}
  /\ \A n \in Asked : Cardinality(vfat_find(n)) <= 1 /\ Cardinality(Cached(dentries, n)) <= 1
  /\ \A e \in entries : e.name.up = e.wanted.up
=============================================================================
