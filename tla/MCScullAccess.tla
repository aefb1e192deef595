--------------------------- MODULE MCScullAccess ---------------------------
(* A small instance of ScullAccess for TLC.  p1 and p2 are processes of ann  *)
(* and bob on one terminal, p3 one of bob with ann's effective id on another *)
(* terminal, p4 one of carl that has no terminal and may override.           *)
EXTENDS ScullAccess

CONSTANTS p1, p2, p3, p4

MCTasks    == {p1, p2, p3, p4}
MCUids     == {"ann", "bob", "carl"}
MCuid      == [p \in MCTasks |-> CASE p = p1 -> "ann" [] p = p4 -> "carl" [] OTHER -> "bob"]
MCeuid     == [p \in MCTasks |-> IF p = p3 THEN "ann" ELSE MCuid[p]]
MCtty      == [p \in MCTasks |-> CASE p = p3 -> "tty2" [] p = p4 -> "none" [] OTHER -> "tty1"]
MCOverride == {p4}
=============================================================================
