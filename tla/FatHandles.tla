----------------------------- MODULE FatHandles -----------------------------
(* NFS file handles: fat_encode_fh puts the number, the generation, the place  *)
(* and the first cluster of an inode into five words, fat_fh_to_dentry looks   *)
(* for the inode among those in memory, and fat_get_parent goes up from a      *)
(* directory.  The widths are cut: a nibble has 2 bits here and 4 in the code, *)
(* a word 4 nibbles and 8, so that TLC can try every place.                    *)
EXTENDS Naturals, Sequences

Nibble == 4
Word   == Nibble * Nibble * Nibble * Nibble
Size   == Word * Nibble * Nibble        \* i_pos has a word and two nibbles
High   == Word \div Nibble             \* 2^28: a start is below it
HandleLength == 5

NodesAt(places, starts) == [ino : {2}, gen : {2, 3}, pos : places, start : starts]
Places == 1 .. (Size - 1)
Starts == {0, 1, High - 1}

(* fat_read_root: the root is in memory while the volume is mounted.           *)
RootNode == [ino |-> 1, gen |-> 0, pos |-> 0, start |-> 0]

(* The nibbles of i_pos above the starts of the file and of its parent.        *)
fat_encode_fh(i, parent) ==
  <<i.ino, i.gen, (i.pos \div (Nibble * Nibble)) % Word,
    ((i.pos \div Nibble) % Nibble) * High + i.start, (i.pos % Nibble) * High + parent.start>>

(* Try 1, the number with the generation; try 2, the place with the start.  A  *)
(* detached inode has place 0 and is not in the hash.  What is not in memory   *)
(* is not looked for on disk.                                                  *)
fat_fh_to_dentry(cache, fh) ==
  LET numbered == {i \in cache : i.ino = fh[1] /\ i.gen = fh[2]}
      pos      == fh[3] * Nibble * Nibble + (fh[4] \div High) * Nibble + fh[5] \div High
      placed   == {i \in cache : i.pos = pos /\ i.pos # 0 /\ i.start = fh[4] % High}
  IN  IF Len(fh) < HandleLength THEN {} ELSE IF numbered # {} THEN numbered ELSE placed

(* fat_build_inode of the ".." entry: the inode is at the place of that entry, *)
(* not at the parent's own.                                                    *)
fat_get_parent(cache, dotdot) ==
  LET known == {i \in cache : i.pos = dotdot.pos}
  IN  IF known # {} THEN known
      ELSE {[ino |-> 3, gen |-> 2, pos |-> dotdot.pos, start |-> dotdot.start]}

-----------------------------------------------------------------------------
(* A handle leads back to its file: to its inode while that is in memory,      *)
(* detached or not; after it was forgotten and read again, when its number     *)
(* belongs to another file, to the new inode; to nothing when another file     *)
(* with another start has its place.  And it names the parent as the ".."      *)
(* entry that fat_get_parent follows does.                                     *)
HandlesReadable ==
  \A i \in NodesAt(Places, Starts), parent \in {RootNode} \cup NodesAt({Nibble}, {High - 1}) :
    LET fh    == fat_encode_fh(i, parent)
        again == [i EXCEPT !.ino = 4]
        at(p) == [ino |-> i.ino, gen |-> i.gen + 2, pos |-> p, start |-> i.start]
    IN  /\ fat_fh_to_dentry({RootNode, i}, fh) = {i}
        /\ \A step \in {1, Nibble, Nibble * Nibble, Word} :
             fat_fh_to_dentry({RootNode, again, at((i.pos + step) % Size)}, fh) = {again}
        /\ \A other \in Starts \ {i.start} :
             fat_fh_to_dentry({RootNode, [at(i.pos) EXCEPT !.start = other]}, fh) = {}
        /\ LET gone == [i EXCEPT !.pos = 0]
           IN  fat_fh_to_dentry({gone, [at(i.pos) EXCEPT !.ino = 4]}, fat_encode_fh(gone, parent)) = {gone}
        /\ \A above \in fat_get_parent({i}, [pos |-> (i.pos + 1) % Size, start |-> parent.start]) :
             above.start = fh[5] % High
=============================================================================
