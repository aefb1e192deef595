---------------------------- MODULE MCScullPipe ----------------------------
(* Small instances of ScullPipe for TLC. *)
EXTENDS ScullPipe, TLC

CONSTANTS p1, p2, p3

TwoUsers   == {p1, p2}
ThreeUsers == {p1, p2, p3}
OneWay     == {{"r"}, {"w"}}
Sym        == Permutations(Procs)
=============================================================================
