----------------------------- MODULE NameSpace -----------------------------
(* What a directory tree promises its users: a name is bound to one file or   *)
(* directory, and is created, removed, moved and written in one step.         *)
CONSTANTS Name,     \* full names, a directory and a name in it
          Content,  \* what a file or directory can hold
          Blank,    \* ... which is nothing for a new file
          Absent    \* a name that is not bound

VARIABLE bound

Init == bound = [n \in Name |-> Absent]

(* Two names never share what they hold.                                       *)
Own(n, c) == c = Blank \/ \A m \in Name \ {n} : bound[m] # c

Create(n, c) ==
  /\ bound[n] = Absent /\ Own(n, c)
  /\ bound' = [bound EXCEPT ![n] = c]

Remove(n) ==
  /\ bound[n] # Absent
  /\ bound' = [bound EXCEPT ![n] = Absent]

(* A move replaces what the new name was bound to.                             *)
Move(m, n) ==
  /\ m # n /\ bound[m] # Absent
  /\ bound' = [bound EXCEPT ![n] = bound[m], ![m] = Absent]

Write(n, c) ==
  /\ bound[n] # Absent /\ Own(n, c)
  /\ bound' = [bound EXCEPT ![n] = c]

Next == \E n \in Name : \/ Remove(n)
                        \/ \E c \in Content : Create(n, c) \/ Write(n, c)
                        \/ \E m \in Name : Move(m, n)

Spec == Init /\ [][Next]_bound
=============================================================================
