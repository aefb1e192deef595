----------------------------- MODULE ShortNames -----------------------------
(* The names of the msdos driver: msdos_format_name makes the 8.3 form of what *)
(* a user wrote, fat_readdir shows an entry's name again, msdos_find and       *)
(* msdos_cmp look for names.  A character stands for all that the code treats  *)
(* alike, and the parts of a name are shorter than 8 and 3.                    *)
EXTENDS Naturals, Sequences, SequencesExt

BASE == 2
EXT  == 1

(* A letter in both cases, a digit, and the characters that some or all names  *)
(* may not have; E5 marks a free slot, and an entry has 05 for it.             *)
Undesirable == {"*"}
IfStrict    == {"+", " "}
Control     == {":", "05"}
Chars       == {"a", "A", "5", ".", "E5"} \cup Undesirable \cup IfStrict \cup Control

(* The mount options dots, nocase and check.                                   *)
Options == [dotsOK : BOOLEAN, nocase : BOOLEAN, check : {"r", "n", "s"}]

Invalid == <<>>     \* -EINVAL

Legal(c, o) ==
  /\ c \notin Control
  /\ o.check # "r" => c \notin Undesirable
  /\ o.check = "s" => c \notin IfStrict \cup {"A"}
Stored(c, o) == IF c = "a" /\ ~o.nocase THEN "A" ELSE c

Dot(s)      == IF Contains(s, ".") THEN CHOOSE i \in DOMAIN s : s[i] = "." /\ \A j \in 1..(i - 1) : s[j] # "."
               ELSE Len(s) + 1
First(s, n) == SubSeq(s, 1, IF n < Len(s) THEN n ELSE Len(s))
Pad(s, n)   == [i \in 1..n |-> IF i <= Len(s) THEN s[i] ELSE " "]
Form(s, n, o) == Pad([i \in DOMAIN s |-> Stored(s[i], o)], n)
NoBlankEnd(s) == s # <<>> => s[Len(s)] # " "
IsLegal(s, o) == \A i \in DOMAIN s : Legal(s[i], o)

(* A deleted slot must not be made of a name.                                  *)
Marked(s) == (IF s[1] = "E5" THEN <<"05">> ELSE <<s[1]>>) \o Tail(s)

HasDot(name)       == name # <<>> /\ name[1] = "."
WithoutDot(name)   == IF HasDot(name) THEN Tail(name) ELSE name

msdos_format_name(name, o) ==
  LET n    == WithoutDot(name)
      base == First(First(n, Dot(n) - 1), BASE)
      rest == SubSeq(n, Dot(n) + 1, Len(n))
      ext  == First(First(rest, Dot(rest) - 1), EXT)
  IN  IF /\ HasDot(name) => o.dotsOK
         /\ base # <<>> /\ NoBlankEnd(base) /\ IsLegal(base, o)
         /\ NoBlankEnd(ext) /\ IsLegal(ext, o)
         /\ o.check = "s" => Dot(n) - 1 = Len(base) /\ rest = ext
      THEN Marked(Form(base, BASE, o)) \o Form(ext, EXT, o)
      ELSE Invalid

(* Restored_Marked is a wrong Restored: README, "Faulty variants".             *)
Restored_Marked(s) == s
Restored(s) == (IF s[1] = "05" THEN <<"E5">> ELSE <<s[1]>>) \o Tail(s)

(* fat_readdir: the name of an entry without a long one.                       *)
Shown(e, hidden, o) ==
  LET w       == Restored(e)
      Lower(s) == [i \in DOMAIN s |-> IF s[i] = "A" /\ ~o.nocase THEN "a" ELSE s[i]]
      Cut(s)  == IF \A i \in DOMAIN s : s[i] = " " THEN <<>>
                 ELSE First(s, CHOOSE n \in DOMAIN s : s[n] # " " /\ \A i \in (n + 1)..Len(s) : s[i] = " ")
      base    == Lower(Cut(SubSeq(w, 1, BASE)))
      ext     == Lower(Cut(SubSeq(w, BASE + 1, BASE + EXT)))
  IN  (IF o.dotsOK /\ hidden THEN <<".">> ELSE <<>>)
      \o base \o (IF ext = <<>> THEN <<>> ELSE <<".">> \o ext)

(* msdos_find in a directory with one entry.                                   *)
Finds(name, e, hidden, o) ==
  /\ msdos_format_name(name, o) = e
  /\ o.dotsOK => (HasDot(name) <=> hidden)

(* msdos_cmp, which tells the dentry cache that two names are one.             *)
Alike(m, n, o) ==
  LET f == msdos_format_name(m, o)
      g == msdos_format_name(n, o)
  IN  IF f = Invalid \/ g = Invalid THEN m = n ELSE f = g

-----------------------------------------------------------------------------
Written == UNION {[1..n -> Chars] : n \in 1..3} \cup UNION {[1..n -> {"a", "5", ".", " ", "E5"}] : n \in 4..5}

(* The entry that a name makes is not a free slot, is shown by a name that the *)
(* driver accepts and that finds it, hidden or not, and the name it was made   *)
(* with finds it too.                                                          *)
NamesReadable ==
  \A o \in Options, name \in Written :
    LET e      == msdos_format_name(name, o)
        hidden == HasDot(name)
    IN  e # Invalid =>
          /\ e[1] # "E5"
          /\ Len(e) = BASE + EXT
          /\ Finds(Shown(e, hidden, o), e, hidden, o)
          /\ Finds(name, e, hidden, o)

(* Names that are one for the cache find the same entries.                     *)
(* Not kept: README, "Where the code and its words differ".                    *)
CacheApart ==
  \A o \in Options, m, n \in UNION {[1..k -> {"a", "A", ".", "*"}] : k \in 1..3}, hidden \in BOOLEAN :
    LET e == msdos_format_name(m, o)
    IN  Alike(m, n, o) /\ e # Invalid => (Finds(m, e, hidden, o) <=> Finds(n, e, hidden, o))
=============================================================================
