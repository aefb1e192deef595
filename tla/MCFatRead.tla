----------------------------- MODULE MCFatRead ------------------------------
(* Small instances of FatRead for TLC. *)
EXTENDS FatRead, TLC

CONSTANTS p1, p2

TwoUsers  == {p1, p2}

\* Clusters in order, out of order, a chain too short, one that runs into a
\* free entry, and one in a circle.
SomeTables ==
  {2 :> 3 @@ 3 :> 4 @@ 4 :> EOF, 2 :> EOF @@ 3 :> 4 @@ 4 :> 2,
   2 :> 4 @@ 3 :> FREE @@ 4 :> FREE, 2 :> 4 @@ 3 :> EOF @@ 4 :> 2}
=============================================================================
