----------------------------- MODULE MCFatMount -----------------------------
(* Small instances of FatMounted for TLC.                                      *)
EXTENDS FatMounted, TLC

CONSTANTS long, a1, a2

(* Masks that take nothing, the writing of some, all writing, and more.        *)
SomeMasks == {{}, {"ow"}, W, {"ox", "ow"}}

(* A long name in both cases, once with a dot at its end, and its first alias. *)
Name(key, up, dots) == [key |-> key, up |-> up, dots |-> dots]
SomeNames ==
  {Name(long, FALSE, FALSE), Name(long, TRUE, TRUE), Name(a1, TRUE, FALSE), Name(a1, FALSE, FALSE)}
AliasKeys == (long :> {a1, a2}) @@ (a1 :> {a1}) @@ (a2 :> {a2})

(* check=s without shortname=lower: README, "Where the code and its words      *)
(* differ".                                                                    *)
SomeOpts == {[strict |-> FALSE, shortname |-> "lower"], [strict |-> FALSE, shortname |-> "winnt"],
             [strict |-> TRUE, shortname |-> "mixed"]}
=============================================================================
