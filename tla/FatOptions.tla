----------------------------- MODULE FatOptions -----------------------------
(* The mount options of both drivers: parse_options makes the options of a    *)
(* mount from their text, fat_show_options tells them in /proc/mounts.  A text *)
(* is an option's name and its value; spellings of one token are one text.  A *)
(* mask is the set of its bits.                                                *)
EXTENDS Naturals, Sequences, SequencesExt, TLC

Writing == {"gw", "ow"}       \* S_IWGRP | S_IWOTH
Unset   == {"unset"}          \* (unsigned short)-1

(* What each token sets.                                                       *)
fat_tokens ==
  [check |-> {"name_check"}, uid |-> {"fs_uid"}, gid |-> {"fs_gid"},
   umask |-> {"fs_fmask", "fs_dmask"}, dmask |-> {"fs_dmask"}, fmask |-> {"fs_fmask"},
   allow_utime |-> {"allow_utime"}, codepage |-> {"codepage"}, usefree |-> {"usefree"},
   quiet |-> {"quiet"}, showexec |-> {"showexec"}, sys_immutable |-> {"sys_immutable"},
   flush |-> {"flush"}, tz |-> {"tz_utc"}, errors |-> {"errors"}, obsolete |-> {}]
msdos_tokens == [nocase |-> {"nocase"}, dotsOK |-> {"dotsOK"}]
vfat_tokens ==
  [nocase |-> {"shortname"}, iocharset |-> {"iocharset"}, shortname |-> {"shortname"},
   utf8 |-> {"utf8"}, uni_xlate |-> {"unicode_xlate"}, nonumtail |-> {"numtail"},
   rodir |-> {"rodir"}]

Tokens(vfat) == fat_tokens @@ (IF vfat THEN vfat_tokens ELSE msdos_tokens)

(* The values that match_token, match_int and match_octal take.                *)
Numbers == {0, 7}
ModeMasks == SUBSET Writing \cup {{"gw", "ow", "ox"}}
ValuesOf ==
  [check |-> {"n", "r", "s"}, errors |-> {"continue", "panic", "remount-ro"},
   shortname |-> {"lower", "win95", "winnt", "mixed"},
   codepage |-> {"437", "850"}, iocharset |-> {"iso8859-1", "koi8-r", "utf8"},
   uid |-> Numbers, gid |-> Numbers,
   umask |-> ModeMasks, dmask |-> ModeMasks, fmask |-> ModeMasks, allow_utime |-> ModeMasks,
   utf8 |-> BOOLEAN, uni_xlate |-> BOOLEAN, nonumtail |-> BOOLEAN, dotsOK |-> BOOLEAN]
Takes(name) == IF name \in DOMAIN ValuesOf THEN ValuesOf[name] ELSE {TRUE}

Known(t, vfat) == t[1] \in DOMAIN Tokens(vfat) /\ t[2] \in Takes(t[1])

-----------------------------------------------------------------------------
(* parse_options.                                                             *)

Defaults(vfat, user) ==
  [isvfat |-> vfat, fs_uid |-> user, fs_gid |-> user, fs_fmask |-> Writing, fs_dmask |-> Writing,
   allow_utime |-> Unset, codepage |-> "437", iocharset |-> "iso8859-1",
   shortname |-> IF vfat THEN "mixed" ELSE "none", rodir |-> ~vfat, name_check |-> "n",
   quiet |-> FALSE, showexec |-> FALSE, sys_immutable |-> FALSE, dotsOK |-> FALSE,
   utf8 |-> FALSE, unicode_xlate |-> FALSE, numtail |-> TRUE, usefree |-> FALSE,
   nocase |-> FALSE, tz_utc |-> FALSE, flush |-> FALSE, errors |-> "remount-ro"]

(* The value that a token gives to its field.                                  *)
Meant(t, vfat) ==
  IF t[1] = "allow_utime" THEN t[2] \cap Writing
  ELSE IF t[1] = "nonumtail" THEN ~t[2]
  ELSE IF t[1] = "nocase" /\ vfat THEN "win95"
  ELSE t[2]

SetBy(o, t) ==
  [f \in DOMAIN o |-> IF f \in Tokens(o.isvfat)[t[1]] THEN Meant(t, o.isvfat) ELSE o[f]]

(* Without allow_utime it is taken from dmask; utf8 yields to uni_xlate.       *)
Completed(o) ==
  [o EXCEPT !.allow_utime = IF @ = Unset THEN Writing \ o.fs_dmask ELSE @,
            !.utf8 = @ /\ ~o.unicode_xlate]

Accepted(texts, vfat) == \A i \in DOMAIN texts : Known(texts[i], vfat)

parse_options(texts, vfat, user) == Completed(FoldLeft(SetBy, Defaults(vfat, user), texts))

-----------------------------------------------------------------------------
(* fat_show_options.                                                          *)

(* The code page is told by the name of its table.                             *)
TableOf == [c \in ValuesOf.codepage |-> IF c = "437" THEN "cp437" ELSE "cp850"]

When(condition, name, value) == IF condition THEN << <<name, value>> >> ELSE <<>>
Set(o, names) == FlattenSeq([i \in DOMAIN names |-> When(o[names[i]], names[i], TRUE)])

fat_show_options(o) ==
  When(o.fs_uid # 0, "uid", o.fs_uid) \o When(o.fs_gid # 0, "gid", o.fs_gid)
  \o << <<"fmask", o.fs_fmask>>, <<"dmask", o.fs_dmask>> >>
  \o When(o.allow_utime # {}, "allow_utime", o.allow_utime)
  \o << <<"codepage", TableOf[o.codepage]>> >>
  \o When(o.isvfat, "iocharset", o.iocharset) \o When(o.isvfat, "shortname", o.shortname)
  \o When(o.name_check # "n", "check", o.name_check)
  \o Set(o, <<"usefree", "quiet", "showexec", "sys_immutable">>)
  \o (IF o.isvfat
      THEN Set(o, <<"utf8">>) \o When(o.unicode_xlate, "uni_xlate", TRUE)
             \o When(~o.numtail, "nonumtail", TRUE) \o Set(o, <<"rodir">>)
      ELSE Set(o, <<"dotsOK", "nocase">>))
  \o Set(o, <<"flush">>) \o When(o.tz_utc, "tz", TRUE) \o << <<"errors", o.errors>> >>

-----------------------------------------------------------------------------
Texts(vfat) == UNION {{<<name, v>> : v \in Takes(name)} : name \in DOMAIN Tokens(vfat)}
Plain(texts) == SelectSeq(texts, LAMBDA t : t[1] # "codepage")

(* Fields that are told by leaving them out: an allow_utime that takes less    *)
(* than dmask leaves is not (README, "Where the code and its words differ").   *)
Told(o) ==
  DOMAIN o \ ({"codepage"} \cup (IF o.allow_utime = {} /\ ~(Writing \subseteq o.fs_dmask)
                                 THEN {"allow_utime"} ELSE {}))

(* What a mount tells of its options but for the code page is accepted when    *)
(* root mounts with it again, and gives the same options.                      *)
OptionsReadable ==
  \A vfat \in BOOLEAN, user \in Numbers : \A s, t \in Texts(vfat) :
    LET o     == parse_options(<<s, t>>, vfat, user)
        shown == Plain(fat_show_options(o))
        back  == parse_options(shown, vfat, 0)
    IN  Accepted(shown, vfat) /\ \A f \in Told(o) : back[f] = o[f]

(* What a mount tells of its options can be mounted with again.                *)
(* Not kept: README, "Where the code and its words differ".                    *)
OptionsRemount ==
  \A vfat \in BOOLEAN : Accepted(fat_show_options(parse_options(<<>>, vfat, 0)), vfat)
=============================================================================
