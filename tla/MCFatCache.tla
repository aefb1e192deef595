---------------------------- MODULE MCFatCache ----------------------------
(* Small instances of FatCache for TLC. *)
EXTENDS FatCache, TLC

Sym == Permutations(Procs)

(* A file in pieces, so that the list fills, and one that is contiguous. *)
Pieces     == {<<1, 3, 2>>}
FewFiles   == Pieces \cup {<<>>, <<1, 2, 3>>}
=============================================================================
