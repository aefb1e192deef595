------------------------------ MODULE VfatText ------------------------------
(* The text of vfat names: the Unicode of a name and its pieces in the long   *)
(* slots, and the 8.3 entry that vfat_create_shortname makes of it, before a   *)
(* tail is added.  Characters, BASE and EXT are those of ShortNames.           *)
EXTENDS ShortNames

CONSTANT Unheld   \* Unicode characters that the character set does not have

PIECE == 3        \* characters in a long slot, 13 in the code

-----------------------------------------------------------------------------
(* The 8.3 entry.                                                             *)

vfat_bad_char(c)     == c \in {"*", ":", "05"}
vfat_replace_char(c) == c = "+"
vfat_skip_char(c)    == c \in {".", " "}

(* vfat_striptail_len and vfat_is_used_badchars.                               *)
Usable(n) ==
  n # <<>> /\ n[Len(n)] \notin {".", " "} /\ \A i \in DOMAIN n : ~vfat_bad_char(n[i])

(* to_shortname_char.                                                          *)
ShortChar(c) == IF vfat_replace_char(c) THEN "_" ELSE IF c = "a" THEN "A" ELSE c
ShortChars(s) == [i \in DOMAIN s |-> ShortChar(s[i])]
Taken(s)     == SelectSeq(s, LAMBDA c : ~vfat_skip_char(c))

(* shortname_info of a part of the name.                                       *)
Info(s) ==
  [lower |-> \A c \in Range(s) : c \notin {"A", "E5"},
   upper |-> \A c \in Range(s) : c \notin {"a", "E5"},
   valid |-> \A c \in Range(s) : ~vfat_skip_char(c) /\ ~vfat_replace_char(c)]

(* The extension starts after the last dot; a name that only starts with dots  *)
(* is a base.                                                                  *)
LastDot(n) ==
  LET dots == {i \in DOMAIN n : n[i] = "." /\ \E j \in 1..(i - 1) : ~vfat_skip_char(n[j])}
  IN  IF dots = {} THEN Len(n) + 1 ELSE CHOOSE i \in dots : \A j \in dots : j <= i

(* vfat_create_shortname, in a directory that does not have the name; long     *)
(* tells whether the name takes long slots.                                    *)
vfat_create_shortname(n, create) ==
  LET base  == SubSeq(n, 1, LastDot(n) - 1)
      ext   == SubSeq(n, LastDot(n) + 1, Len(n))
      b     == Info(base)
      e     == Info(ext)
      short == b.valid /\ e.valid /\ Len(base) <= BASE /\ Len(ext) <= EXT
      plain == IF create = "win95" THEN b.upper /\ e.upper
               ELSE (b.upper \/ b.lower) /\ (e.upper \/ e.lower)
      kept  == short /\ plain /\ create = "winnt"
  IN  [entry |-> Marked(Pad(First(ShortChars(Taken(base)), BASE), BASE))
                   \o Pad(First(ShortChars(Taken(ext)), EXT), EXT),
       lcase |-> [base |-> kept /\ ~b.upper, ext |-> kept /\ ~e.upper],
       long  |-> ~(short /\ plain)]

(* fat_shortname2uni, for one part of the entry.                               *)
Part(s, display, lower) ==
  LET w    == [i \in DOMAIN s |->
                 IF s[i] = "A" /\ (display = "lower" \/ (display = "winnt" /\ lower))
                 THEN "a" ELSE s[i]]
      ends == {i \in DOMAIN s : s[i] # " "}
  IN  IF ends = {} THEN <<>> ELSE SubSeq(w, 1, CHOOSE i \in ends : \A j \in ends : j <= i)

(* __fat_readdir: the name of an entry without long slots.                     *)
ShortShown(e, lcase, display) ==
  LET w    == Restored(e)
      base == Part(SubSeq(w, 1, BASE), display, lcase.base)
      ext  == Part(SubSeq(w, BASE + 1, BASE + EXT), display, lcase.ext)
  IN  base \o (IF ext = <<>> THEN <<>> ELSE <<".">> \o ext)

(* shortname=lower, win95, winnt and mixed: how names are shown and made.      *)
ShortnameFlags ==
  {[display |-> "lower", create |-> "win95"], [display |-> "win95", create |-> "win95"],
   [display |-> "winnt", create |-> "winnt"], [display |-> "winnt", create |-> "win95"]}

-----------------------------------------------------------------------------
(* The Unicode of a name.                                                     *)

(* Bytes of the user's name; a character that the set does not have is written *)
(* as a colon and four digits (uni_xlate).                                     *)
Digit(u, k) == (u \div 16 ^ (4 - k)) % 16
ToText(u)   == FlattenSeq([i \in DOMAIN u |->
                 IF u[i] \in Unheld THEN << <<"colon">> >> \o [k \in 1..4 |-> <<"hex", Digit(u[i], k)>>]
                 ELSE << <<"char", u[i]>> >>])

(* xlate_to_uni.                                                               *)
ToUni(s) ==
  LET From[i \in 1..(Len(s) + 1)] ==
        IF i > Len(s) THEN <<>>
        ELSE IF s[i][1] = "colon"
             THEN <<FoldLeft(LAMBDA ec, d : ec * 16 + d[2], 0, SubSeq(s, i + 1, i + 4))>> \o From[i + 5]
             ELSE <<s[i][2]>> \o From[i + 1]
  IN  From[1]

Filler == 65535
(* The end of the name is marked unless the last piece is full.                *)
Pieces(n)  == (n + PIECE - 1) \div PIECE
Padded(u)  == [i \in 1..(Pieces(Len(u)) * PIECE) |->
                 IF i <= Len(u) THEN u[i] ELSE IF i = Len(u) + 1 THEN 0 ELSE Filler]

(* vfat_build_slots: the slots go from the last piece to the first.            *)
LongSlots(u) ==
  LET k == Pieces(Len(u))
  IN  [i \in 1..k |-> [id |-> k - i + 1, last |-> i = 1,
                       text |-> SubSeq(Padded(u), (k - i) * PIECE + 1, (k - i + 1) * PIECE)]]

(* fat_parse_long: the buffer, in which a slot's piece goes to its place.      *)
Unicode(slots) ==
  LET k    == slots[1].id
      text == FlattenSeq([i \in 1..k |-> slots[k - i + 1].text]) \o <<0>>
  IN  SubSeq(text, 1, (CHOOSE i \in DOMAIN text : text[i] = 0 /\ \A j \in 1..(i - 1) : text[j] # 0) - 1)

-----------------------------------------------------------------------------
Given83 == UNION {[1..n -> Chars] : n \in 1..3} \cup UNION {[1..n -> {"a", "A", ".", "E5", " "}] : n \in 4..5}
Unicodes == UNION {[1..n -> {97, 255} \cup Unheld] : n \in 1..7}

(* A name that takes no long slots is shown as it was given, by every rule but *)
(* shortname=lower, which shows it in lower case; and no entry is made that    *)
(* looks free or starts with a blank.                                          *)
Shortened ==
  \A f \in ShortnameFlags, n \in Given83 :
    LET s == vfat_create_shortname(n, f.create)
        shown == ShortShown(s.entry, s.lcase, f.display)
    IN  Usable(n) =>
          /\ s.entry[1] \notin {"E5", " "}
          /\ ~s.long => IF f.display = "lower" THEN ShortChars(shown) = ShortChars(n) ELSE shown = n

(* The name that the long slots hold is the one that was given, and what       *)
(* readdir shows of it is read as that name, with its escapes.                 *)
Lengthened == \A u \in Unicodes : Unicode(LongSlots(u)) = u /\ ToUni(ToText(u)) = u

VfatNamesReadable == Shortened /\ Lengthened
=============================================================================
