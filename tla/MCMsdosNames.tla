---------------------------- MODULE MCMsdosNames ----------------------------
(* Small instances of MsdosNames for TLC. *)
EXTENDS MsdosNames, TLC

CONSTANTS a, b, n1, n2, x1, x2, y1
TwoNames == {<<a, n1>>, <<b, n1>>}
\* The same run with Name <- OneDirectory has the renames within a directory.
OneDirectory == {<<a, n1>>, <<a, n2>>}
TwoAndOne == (x1 :> a) @@ (x2 :> a) @@ (y1 :> b)
Sym == Permutations(Inodes) \cup Permutations(Tags)
=============================================================================
