---------------------------- MODULE MCFatEntries ----------------------------
(* Small instances of FatEntries for TLC.                                     *)
EXTENDS FatEntries

CONSTANTS f1, f2

TwoFiles == {f1, f2}

\* With blocks of 4 bytes the entries 2 and 5 of FAT12 lie in two blocks, and an
\* array of three is full before both are freed.
AllFormats == {[bits |-> 12, blksz |-> 4, bufs |-> 4], [bits |-> 12, blksz |-> 4, bufs |-> 3],
               [bits |-> 16, blksz |-> 4, bufs |-> 4],
               [bits |-> 32, blksz |-> 8, bufs |-> 2]}

NextToEachOther == {[f \in {f1, f2} |-> IF f = f1 THEN 2 ELSE 3],
                    [f \in {f1, f2} |-> IF f = f1 THEN 4 ELSE 3]}
=============================================================================
