----------------------------- MODULE FatVolume ------------------------------
(* What the file allocation table promises its users, whatever the width of   *)
(* its entries: it is a table of successors in which one entry changes at a    *)
(* time, a cluster is linked to while nothing else leads to it and released    *)
(* when nothing does, and what belongs to no entry never changes.              *)
EXTENDS Naturals

CONSTANTS Clusters, FREE, EOF

VARIABLES next,   \* the value of each entry
          first,  \* the first clusters of the files
          rest    \* the parts of the table that are in no entry of a cluster

vars == <<next, first, rest>>

Unreferenced(c) == c \notin first /\ \A e \in Clusters : next[e] # c

Init == first \subseteq Clusters /\ \A e \in Clusters : next[e] = IF e \in first THEN EOF ELSE FREE

Take(e) ==
  /\ next[e] = FREE
  /\ next' = [next EXCEPT ![e] = EOF]

Link(e, c) ==
  /\ next[e] = EOF
  /\ c # e /\ next[c] # FREE /\ Unreferenced(c)
  /\ next' = [next EXCEPT ![e] = c]

Cut(e) ==
  /\ next[e] \in Clusters
  /\ next' = [next EXCEPT ![e] = EOF]

Release(e) ==
  /\ next[e] # FREE /\ Unreferenced(e)
  /\ next' = [next EXCEPT ![e] = FREE]

Next ==
  /\ UNCHANGED <<first, rest>>
  /\ \E e \in Clusters :
       \/ Take(e) \/ Cut(e) \/ Release(e)
       \/ \E c \in Clusters : Link(e, c)

Spec == Init /\ [][Next]_vars
=============================================================================
