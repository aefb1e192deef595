------------------------------ MODULE MCFatDir ------------------------------
(* Small instances of FatDir for TLC. *)
EXTENDS FatDir, TLC

CONSTANTS s, m, l, b1, b2, t1, t2, r1
Sizes   == (s :> 0) @@ (m :> 1) @@ (l :> 2)
Stems   == (s :> b1) @@ (m :> b2) @@ (l :> b2)
OneTail == <<t1>>
=============================================================================
