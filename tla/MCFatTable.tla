----------------------------- MODULE MCFatTable -----------------------------
(* Small instances of FatTable for TLC: two directories that grow in turns. *)
EXTENDS FatTable

CONSTANTS d1, d2

TwoDirs    == {d1, d2}
Starts     == [d \in TwoDirs |-> IF d = d1 THEN 2 ELSE 4]
NotTheLink == Failures \ {"link"}
=============================================================================
