----------------------------- MODULE DirListing -----------------------------
(* What a directory promises: it holds a set of names, and a name is added or *)
(* removed in one step, also if the system stops in the middle.               *)
CONSTANT Names

VARIABLE names

Init == names = {}

Add(n)    == names' = names \cup {n}
Remove(n) == names' = names \ {n}

Next == \E n \in Names : Add(n) \/ Remove(n)

Spec == Init /\ [][Next]_names
=============================================================================
