----------------------------- MODULE MCScullDev -----------------------------
(* Small instances of ScullDev for TLC. *)
EXTENDS ScullDev, TLC

CONSTANTS p1, p2

TwoUsers == {p1, p2}
Sym      == Permutations(Procs)

\* Bound of dev_file: one program alone is followed through all shapes and
\* positions, two at once while sets have one quantum and the file, the
\* positions and the transfers are shorter.
Together ==
  (\A p \in Procs : mode[p] # "none") =>
    /\ scull_qset = 1 /\ m_qset = 1
    /\ size <= 2 /\ ln_qlst * n_quantum <= 2
    /\ \A p \in Procs : f_pos[p] + call[p].count <= 2 /\ call[p].count <= 1
=============================================================================
