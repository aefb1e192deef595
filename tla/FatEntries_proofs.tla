------------------------- MODULE FatEntries_proofs --------------------------
(* Proofs about the entries of the table in their three widths: that the       *)
(* pointers are on the entry's bytes, what a search has seen, that the second  *)
(* table ends as a copy of the first with every cluster free or in a file, and *)
(* that the bytes implement FatVolume.  First what one write leaves of the     *)
(* bytes (PutEven, PutOdd, Put16, Put32), then Inv: an entry has an owner (a   *)
(* file, a call that adds or frees, one that has just taken it, nobody) and,   *)
(* of those with the same owner, a place (rank) that grows along the chain;    *)
(* a block of the two tables differs only where some process has yet to copy   *)
(* it.  Nothing in the state says who owns an entry: own and rank are found    *)
(* anew after every step.                                                      *)
EXTENDS FatEntries, FiniteSetTheorems, SequenceTheorems, WellFoundedInduction, TLAPS

-----------------------------------------------------------------------------
(* Induction.  A set of numbers that is not empty has a least one, and so a    *)
(* set with 0 and, below m, the successor of each, has all up to m.            *)

LEMMA LeastNumber ==
  ASSUME NEW T, T \subseteq Nat, T # {}
  PROVE  \E x \in T : \A y \in T : x <= y
<1> DEFINE R == OpToRel(<, Nat)
<1>1. IsWellFoundedOn(R, Nat)
  BY NatLessThanWellFounded
<1>2. \A x, y \in Nat : <<y, x>> \in R <=> y < x
  BY DEF OpToRel
<1> HIDE DEF R
<1>3. PICK x \in T : \A y \in T : ~(<<y, x>> \in R)
  BY <1>1, WFMin
<1>4. \A y \in T : ~(y < x)
  BY <1>2, <1>3
<1>5. \A y \in T : x <= y
  BY <1>4
<1> QED
  BY <1>5

LEMMA Induct ==
  ASSUME NEW m \in Nat, NEW S, 0 \in S, \A n \in Nat : n \in S /\ n < m => n + 1 \in S
  PROVE  \A n \in 0..m : n \in S
<1> DEFINE T == {n \in 0..m : n \notin S}
<1> SUFFICES ASSUME T # {} PROVE FALSE
  OBVIOUS
<1>0. T \subseteq Nat
  OBVIOUS
<1>1. PICK x \in T : \A y \in T : x <= y
  <2> HIDE DEF T
  <2> QED
    BY <1>0, LeastNumber
<1>2. x # 0 /\ x - 1 \in 0..m /\ x - 1 \notin T
  BY <1>1
<1>3. x - 1 \in S /\ x - 1 < m /\ (x - 1) + 1 = x
  BY <1>2
<1> QED
  BY <1>1, <1>3

-----------------------------------------------------------------------------
(* Arithmetic.                                                                *)

LEMMA DivMod ==
  ASSUME NEW a \in Nat, NEW k \in Nat \ {0}
  PROVE  a \div k \in Nat /\ a % k \in 0..(k - 1) /\ a = (a \div k) * k + (a % k)
OBVIOUS

LEMMA DivUnique ==
  ASSUME NEW k \in Nat \ {0}, NEW b \in Nat, NEW c \in 0..(k - 1)
  PROVE  (k * b + c) \div k = b /\ (k * b + c) % k = c
OBVIOUS

LEMMA DivIs ==
  ASSUME NEW k \in Nat \ {0}, NEW b \in Nat, NEW a \in Nat, b * k <= a, a < b * k + k
  PROVE  a \div k = b /\ a % k = a - (b * k)
<1> DEFINE c == a - (b * k)
<1>1. b * k = k * b /\ b * k \in Int
  OBVIOUS
<1>2. c \in 0..(k - 1) /\ a = k * b + c
  BY <1>1
<1> HIDE DEF c
<1>3. a \div k = b /\ a % k = c
  BY <1>2, DivUnique
<1> QED
  BY <1>3 DEF c

LEMMA TimesNat ==
  ASSUME NEW a \in Nat, NEW b \in Nat
  PROVE  a * b \in Nat
OBVIOUS

LEMMA TimesNext ==
  ASSUME NEW a \in Nat, NEW k \in Nat
  PROVE  (a + 1) * k = a * k + k
OBVIOUS

(* Rounded up to whole blocks there is no less.                                *)
LEMMA RoundUp ==
  ASSUME NEW a \in Nat, NEW k \in Nat \ {0}
  PROVE  ((a + k - 1) \div k) * k \in Nat /\ ((a + k - 1) \div k) * k >= a
<1>0. a + k - 1 \in Nat
  OBVIOUS
<1>1. /\ (a + k - 1) \div k \in Nat /\ (a + k - 1) % k \in 0..(k - 1)
      /\ a + k - 1 = ((a + k - 1) \div k) * k + ((a + k - 1) % k)
  BY <1>0, DivMod
<1>2. ((a + k - 1) \div k) * k \in Nat
  BY <1>1, TimesNat
<1> QED
  BY <1>1, <1>2

(* Where a multiple of 4 ends, no group of two or four bytes does not.         *)
LEMMA InGroup ==
  ASSUME NEW k \in Nat \ {0}, k % 4 = 0, NEW w \in {2, 4}, NEW c \in Nat, NEW i \in 0..(w - 1)
  PROVE  (w * c + i) \div k = (w * c) \div k
<1> DEFINE d == (w * c) \div k
           r == (w * c) % k
           m == k \div 4
<1>0. w * c \in Nat
  BY TimesNat
<1>1. d \in Nat /\ r \in 0..(k - 1) /\ w * c = d * k + r
  BY <1>0, DivMod
<1>2. m \in Nat /\ k = 4 * m
  BY DivMod
<1>3. d * k = 4 * (d * m) /\ d * m \in Nat
  BY <1>1, <1>2
<1>4. d * k \in Nat
  BY <1>1, TimesNat
<1> HIDE DEF d, r, m
<1>5. r + i < k
  <2>1. CASE w = 2
    BY <1>1, <1>2, <1>3, <2>1
  <2>2. CASE w = 4
    BY <1>1, <1>2, <1>3, <2>2
  <2> QED
    BY <2>1, <2>2
<1>6. w * c + i \in Nat /\ d * k <= w * c + i /\ w * c + i < d * k + k
  BY <1>0, <1>1, <1>4, <1>5
<1>7. (w * c + i) \div k = d
  BY <1>1, <1>6, DivIs
<1> QED
  BY <1>7 DEF d

-----------------------------------------------------------------------------
(* The table, and where its entries are.                                      *)

TableSize == (((max_cluster * Width + 1) \div 2 + blksz - 1) \div blksz) * blksz
Table     == [0 .. TableSize - 1 -> 0 .. 255]
Values    == Clusters \cup {FREE, EOF}

LEMMA FormatFacts ==
  ASSUME format \in Formats
  PROVE  /\ bits \in {12, 16, 32} /\ blksz \in Nat \ {0} /\ blksz % 4 = 0
         /\ format.bufs \in Nat \ {0, 1}
         /\ max_cluster \in Nat /\ max_cluster > 2
         /\ bits = 12 => max_cluster <= 4087
         /\ bits = 16 => max_cluster <= 65527
         /\ bits = 32 => max_cluster <= 268435447
<1>1. /\ bits \in {12, 16, 32} /\ blksz \in Nat \ {0} /\ blksz % 4 = 0
      /\ format.bufs \in Nat \ {0, 1}
  BY FormatAssumption DEF bits, blksz
<1>2. max_cluster \in Nat /\ max_cluster > 2
  BY SizeAssumption DEF START
<1>3. max_cluster <= (CASE bits = 12 -> 4087 [] bits = 16 -> 65527 [] bits = 32 -> 268435447)
  BY FormatAssumption DEF bits
<1>4. CASE bits = 12
  BY <1>1, <1>2, <1>3, <1>4
<1>5. CASE bits = 16
  BY <1>1, <1>2, <1>3, <1>5
<1>6. CASE bits = 32
  BY <1>1, <1>2, <1>3, <1>6
<1> QED
  BY <1>1, <1>4, <1>5, <1>6

LEMMA MarkFacts ==
  ASSUME format \in Formats
  PROVE  /\ max_cluster \in Nat /\ max_cluster > 2 /\ max_cluster <= Bad /\ Bad \in Nat /\ Eof \in Nat
         /\ Bad = Eof - 8 /\ Eof <= EOF /\ Bad < EOF
         /\ \A e \in Clusters : e \in Nat /\ e >= 2 /\ e < max_cluster
         /\ FREE \notin Clusters /\ EOF \notin Clusters /\ EOF # FREE /\ 0 \notin Clusters
         /\ FREE = 0
<1>1. CASE bits = 12
  BY <1>1, FormatFacts DEF Bad, Eof, EOF, FREE, Clusters, START
<1>2. CASE bits = 16
  BY <1>2, FormatFacts DEF Bad, Eof, EOF, FREE, Clusters, START
<1>3. CASE bits = 32
  BY <1>3, FormatFacts DEF Bad, Eof, EOF, FREE, Clusters, START
<1> QED
  BY <1>1, <1>2, <1>3, FormatFacts

-----------------------------------------------------------------------------
(* Where an entry is.                                                         *)

LEMMA ByteIs ==
  ASSUME format \in Formats, NEW e \in Nat
  PROVE  /\ Byte(e) \in Nat
         /\ bits = 12 => Byte(e) = e + (e \div 2) /\ Byte(e + 1) = Byte(e) + 1 + (e % 2)
         /\ bits = 16 => Byte(e) = 2 * e
         /\ bits = 32 => Byte(e) = 4 * e
<1>1. CASE bits = 12
  BY <1>1, FormatFacts DEF Byte
<1>2. CASE bits = 16
  BY <1>2, FormatFacts DEF Byte
<1>3. CASE bits = 32
  BY <1>3, FormatFacts DEF Byte
<1> QED
  BY <1>1, <1>2, <1>3, FormatFacts

LEMMA BlockSize == ASSUME format \in Formats PROVE blksz \in Nat \ {0} /\ blksz >= 4
BY FormatFacts

LEMMA Place ==
  ASSUME format \in Formats, NEW e \in Nat
  PROVE  /\ Blocknr(e) \in Nat /\ Offset(e) \in 0..(blksz - 1)
         /\ Byte(e) = Blocknr(e) * blksz + Offset(e)
         /\ Blocknr(e) * blksz \in Nat
         /\ (Blocknr(e) + 1) * blksz = Blocknr(e) * blksz + blksz
<1>1. blksz \in Nat \ {0} /\ Byte(e) \in Nat
  BY BlockSize, ByteIs, Zenon
<1>2. Blocknr(e) \in Nat /\ Offset(e) \in 0..(blksz - 1) /\ Byte(e) = Blocknr(e) * blksz + Offset(e)
  BY <1>1, DivMod DEF Blocknr, Offset
<1>3. Blocknr(e) * blksz \in Nat /\ (Blocknr(e) + 1) * blksz = Blocknr(e) * blksz + blksz
  BY <1>1, <1>2, TimesNat, TimesNext
<1> QED
  BY <1>2, <1>3

(* A byte of a block is of that block.                                        *)
LEMMA PlaceIs ==
  ASSUME format \in Formats, NEW e \in Nat, NEW b \in Nat,
         b * blksz <= Byte(e), Byte(e) < (b + 1) * blksz
  PROVE  Blocknr(e) = b /\ Offset(e) = Byte(e) - (b * blksz)
<1>1. blksz \in Nat \ {0} /\ Byte(e) \in Nat
  BY BlockSize, ByteIs, Zenon
<1>2. (b + 1) * blksz = b * blksz + blksz
  BY <1>1, TimesNext
<1> QED
  BY <1>1, <1>2, DivIs DEF Blocknr, Offset

Ptr(e)    == IF bits = 12 THEN <<Byte(e), Byte(e) + 1>> ELSE <<Byte(e)>>
Blocks(e) == IF Crosses(e) THEN <<Blocknr(e), Blocknr(e) + 1>> ELSE <<Blocknr(e)>>

LEMMA SetPtrIs ==
  ASSUME format \in Formats, NEW e \in Nat, NEW bhs, bhs = Blocks(e)
  PROVE  SetPtr(bhs, Offset(e)) = Ptr(e)
<1>1. bhs[1] = Blocknr(e) /\ (Len(bhs) = 1 <=> ~Crosses(e)) /\ (Crosses(e) => bhs[2] = Blocknr(e) + 1)
  BY DEF Blocks
<1>2. bhs[1] * blksz + Offset(e) = Byte(e)
  BY <1>1, Place
<1>3. ASSUME Crosses(e) PROVE bits = 12 /\ bhs[2] * blksz = Byte(e) + 1
  <2>1. bits = 12 /\ Offset(e) + 1 >= blksz
    BY <1>3 DEF Crosses
  <2>2. /\ Offset(e) \in 0..(blksz - 1) /\ Byte(e) = Blocknr(e) * blksz + Offset(e)
        /\ Blocknr(e) * blksz \in Nat /\ (Blocknr(e) + 1) * blksz = Blocknr(e) * blksz + blksz
        /\ blksz \in Nat \ {0}
    BY Place, BlockSize, Zenon
  <2>3. Offset(e) = blksz - 1
    BY <2>1, <2>2
  <2>4. (Blocknr(e) + 1) * blksz = Byte(e) + 1
    BY <2>2, <2>3
  <2> QED
    BY <1>1, <1>3, <2>1, <2>4
<1>4. CASE bits # 12
  BY <1>2, <1>4 DEF SetPtr, Ptr
<1>5. CASE bits = 12 /\ ~Crosses(e)
  BY <1>1, <1>2, <1>5 DEF SetPtr, Ptr
<1>6. CASE bits = 12 /\ Crosses(e)
  BY <1>1, <1>2, <1>3, <1>6 DEF SetPtr, Ptr
<1> QED
  BY <1>4, <1>5, <1>6

LEMMA ReadBlockIs ==
  ASSUME format \in Formats, NEW e \in Nat
  PROVE  ReadBlock(e) = [entry |-> e, bhs |-> Blocks(e), ptr |-> Ptr(e)]
<1>1. ReadBlock(e) = Located(e, Blocks(e))
  BY DEF ReadBlock, Blocks
<1>2. SetPtr(Blocks(e), Offset(e)) = Ptr(e)
  BY SetPtrIs
<1> QED
  BY <1>1, <1>2 DEF Located

LEMMA BlocksFacts ==
  ASSUME format \in Formats, NEW e \in Nat
  PROVE  /\ Blocks(e) \in Seq(Nat) /\ Len(Blocks(e)) \in {1, 2} /\ Blocks(e)[1] = Blocknr(e)
         /\ Len(Blocks(e)) = 2 <=> Crosses(e)
         /\ Crosses(e) => bits = 12 /\ Blocks(e)[2] = Blocknr(e) + 1 /\ Offset(e) = blksz - 1
         /\ Ptr(e) \in Seq(Nat) /\ Ptr(e)[1] = Byte(e) /\ Ptr(e) # <<>>
         /\ bits = 12 => Ptr(e)[2] = Byte(e) + 1
         /\ Blocks(e) # <<>>
<1>1. Blocknr(e) \in Nat /\ Blocknr(e) + 1 \in Nat /\ Byte(e) \in Nat /\ Byte(e) + 1 \in Nat
  BY Place, ByteIs
<1>0. Offset(e) \in 0..(blksz - 1) /\ blksz \in Nat \ {0}
  BY Place, BlockSize, Zenon
<1>2. Crosses(e) => bits = 12 /\ Offset(e) = blksz - 1
  BY <1>0 DEF Crosses
<1>3. CASE Crosses(e)
  BY <1>1, <1>2, <1>3 DEF Blocks, Ptr
<1>4. CASE ~Crosses(e)
  BY <1>1, <1>4 DEF Blocks, Ptr
<1> QED
  BY <1>3, <1>4

(* A process holds the blocks of an entry, and points to it.                  *)
Right(fe) == fe.entry \in Clusters /\ fe = ReadBlock(fe.entry)

LEMMA RightRead ==
  ASSUME format \in Formats, NEW e \in Clusters
  PROVE  Right(ReadBlock(e)) /\ ReadBlock(e).entry = e /\ ReadBlock(e).bhs = Blocks(e) /\ ReadBlock(e).ptr = Ptr(e)
<1>1. e \in Nat
  BY MarkFacts
<1>2. ReadBlock(e) = [entry |-> e, bhs |-> Blocks(e), ptr |-> Ptr(e)]
  BY <1>1, ReadBlockIs
<1>3. ReadBlock(e).entry = e /\ ReadBlock(e).bhs = Blocks(e) /\ ReadBlock(e).ptr = Ptr(e)
  BY <1>2
<1> QED
  BY <1>3 DEF Right

(* fat_ent_read: held blocks serve as read ones.                              *)
LEMMA EntReadRight ==
  ASSUME format \in Formats, NEW fe, fe.bhs = <<>> \/ Right(fe), NEW e \in Clusters
  PROVE  EntRead(fe, e) = ReadBlock(e)
<1>1. CASE ~Includes(fe, e)
  BY <1>1 DEF EntRead
<1>2. CASE Includes(fe, e)
  <2>1. Right(fe)
    BY <1>2 DEF Includes
  <2> DEFINE d == fe.entry
  <2>2. d \in Clusters /\ d \in Nat /\ e \in Nat
    BY <2>1, MarkFacts DEF Right
  <2>3. fe = [entry |-> d, bhs |-> Blocks(d), ptr |-> Ptr(d)]
    BY <2>1, <2>2, ReadBlockIs DEF Right
  <2>4. fe.bhs = Blocks(d)
    BY <2>3
  <2> HIDE DEF d
  <2>5. fe.bhs[1] = Blocknr(e) /\ (Crosses(e) => Len(fe.bhs) = 2 /\ fe.bhs[2] = Blocknr(e) + 1)
    BY <1>2 DEF Includes
  <2>6. (IF Crosses(e) \/ bits # 12 THEN fe.bhs ELSE <<fe.bhs[1]>>) = Blocks(e)
    <3>1. CASE Crosses(e)
      <4>1. Crosses(d)
        BY <2>2, <2>4, <2>5, <3>1, BlocksFacts
      <4>2. fe.bhs = <<Blocknr(d), Blocknr(d) + 1>>
        BY <2>4, <4>1 DEF Blocks
      <4> QED
        BY <2>5, <3>1, <4>2 DEF Blocks
    <3>2. CASE bits # 12
      <4>1. ~Crosses(d) /\ ~Crosses(e)
        BY <3>2 DEF Crosses
      <4>2. fe.bhs = <<Blocknr(d)>>
        BY <2>4, <4>1 DEF Blocks
      <4> QED
        BY <2>5, <3>2, <4>1, <4>2 DEF Blocks
    <3>3. CASE ~Crosses(e) /\ bits = 12
      BY <2>5, <3>3 DEF Blocks
    <3> QED
      BY <3>1, <3>2, <3>3
  <2>7. EntRead(fe, e) = Located(e, Blocks(e))
    BY <1>2, <2>6 DEF EntRead
  <2>8. ReadBlock(e) = Located(e, Blocks(e))
    BY DEF ReadBlock, Blocks
  <2> QED
    BY <2>7, <2>8
<1> QED
  BY <1>1, <1>2

(* fat_ent_next: the next entry, if it says that there is one.                *)
LEMMA EntNextRight ==
  ASSUME format \in Formats, NEW fe, Right(fe)
  PROVE  /\ EntNext(fe).entry = fe.entry + 1
         /\ HasNext(EntNext(fe)) => fe.entry + 1 \in Clusters /\ EntNext(fe) = ReadBlock(fe.entry + 1)
<1> DEFINE e == fe.entry
           g == EntNext(fe)
<1>1. e \in Clusters /\ e \in Nat /\ e + 1 \in Nat
  BY MarkFacts DEF Right
<1>2. fe = [entry |-> e, bhs |-> Blocks(e), ptr |-> Ptr(e)]
  BY <1>1, ReadBlockIs DEF Right
<1>3. ReadBlock(e + 1) = [entry |-> e + 1, bhs |-> Blocks(e + 1), ptr |-> Ptr(e + 1)]
  BY <1>1, ReadBlockIs
<1>4. fe.bhs = Blocks(e) /\ fe.ptr = Ptr(e) /\ fe.entry = e
  BY <1>2
<1> HIDE DEF e
<1>5. NoMore(fe) = [entry |-> e + 1, bhs |-> Blocks(e), ptr |-> <<>>]
  <2> HIDE DEF e, g
  <2>1. NoMore(fe) = [fe EXCEPT !.entry = @ + 1, !.ptr = <<>>]
    BY DEF NoMore
  <2> QED
    BY <1>2, <2>1
<1>6. /\ Blocknr(e) \in Nat /\ Offset(e) \in 0..(blksz - 1) /\ Byte(e) = Blocknr(e) * blksz + Offset(e)
      /\ Blocknr(e) * blksz \in Nat /\ BlockEnd(fe) = Blocknr(e) * blksz + blksz
      /\ (Blocknr(e) + 1) * blksz = Blocknr(e) * blksz + blksz
  <2>1. fe.bhs[1] = Blocknr(e)
    BY <1>1, <1>4, BlocksFacts, Zenon
  <2>2. BlockEnd(fe) = (Blocknr(e) + 1) * blksz
    BY <2>1 DEF BlockEnd
  <2> QED
    BY <1>1, <2>2, Place
<1>7. g.entry = e + 1 /\ (g.ptr # <<>> => g = ReadBlock(e + 1))
  <2>1. CASE bits = 12
    <3> DEFINE nextp == fe.ptr[2] + 1 + (fe.entry % 2)
    <3>1. Byte(e + 1) = Byte(e) + 1 + (e % 2) /\ nextp = Byte(e + 1) + 1 /\ e % 2 \in {0, 1}
          /\ Byte(e) \in Nat /\ Byte(e + 1) \in Nat
      <4>1. fe.ptr[2] = Byte(e) + 1 /\ fe.entry = e
        BY <1>1, <1>4, <2>1, BlocksFacts, Zenon
      <4>2. Byte(e + 1) = Byte(e) + 1 + (e % 2) /\ Byte(e) \in Nat /\ Byte(e + 1) \in Nat
        BY <1>1, <2>1, ByteIs, Zenon
      <4>3. e % 2 \in {0, 1}
        BY <1>1
      <4> QED
        BY <4>1, <4>2, <4>3
    <3>2. g = Next12(fe)
      BY <2>1 DEF EntNext
    <3>3. nextp - 1 = Byte(e + 1)
      BY <3>1
    <3>4. Ptr(e + 1) = <<nextp - 1, nextp>>
      BY <2>1, <3>1, <3>3 DEF Ptr
    <3>0. blksz \in Nat \ {0} /\ blksz >= 4
      BY BlockSize, Zenon
    <3>5. CASE Len(fe.bhs) = 2
      <4>1. Crosses(e) /\ Offset(e) = blksz - 1 /\ fe.bhs[2] = Blocknr(e) + 1
        BY <1>1, <1>4, <3>5, BlocksFacts
      <4>2. Byte(e) + 1 = (Blocknr(e) + 1) * blksz
        BY <1>6, <3>0, <4>1
      <4>3. Blocknr(e) + 1 \in Nat /\ ((Blocknr(e) + 1) + 1) * blksz = (Blocknr(e) + 1) * blksz + blksz
        BY <1>6, <3>0, TimesNext
      <4>4. (Blocknr(e) + 1) * blksz <= Byte(e + 1) /\ Byte(e + 1) < ((Blocknr(e) + 1) + 1) * blksz
        BY <3>0, <3>1, <4>2, <4>3
      <4>5. Blocknr(e + 1) = Blocknr(e) + 1 /\ Offset(e + 1) = Byte(e + 1) - ((Blocknr(e) + 1) * blksz)
        BY <1>1, <4>3, <4>4, PlaceIs
      <4>6. Offset(e + 1) + 1 < blksz
        BY <3>0, <3>1, <4>2, <4>5
      <4>7. ~Crosses(e + 1)
        BY <1>1, <3>0, <4>6, Place DEF Crosses
      <4>8. Blocks(e + 1) = <<fe.bhs[2]>>
        BY <4>1, <4>5, <4>7 DEF Blocks
      <4>9. g = [entry |-> e + 1, bhs |-> <<fe.bhs[2]>>, ptr |-> <<nextp - 1, nextp>>]
        BY <1>4, <3>2, <3>5 DEF Next12
      <4> HIDE DEF nextp, g
      <4>10. g = ReadBlock(e + 1)
        BY <1>3, <3>4, <4>8, <4>9
      <4> QED
        BY <4>9, <4>10
    <3>6. CASE Len(fe.bhs) # 2 /\ nextp < BlockEnd(fe) - 1
      <4>1. ~Crosses(e)
        BY <1>1, <1>4, <3>6, BlocksFacts
      <4>2. Blocknr(e) * blksz <= Byte(e + 1) /\ Byte(e + 1) < (Blocknr(e) + 1) * blksz
        BY <1>6, <3>0, <3>1, <3>6
      <4>3. Blocknr(e + 1) = Blocknr(e) /\ Offset(e + 1) = Byte(e + 1) - (Blocknr(e) * blksz)
        BY <1>1, <1>6, <4>2, PlaceIs
      <4>4. Offset(e + 1) + 1 < blksz
        BY <1>6, <3>0, <3>1, <3>6, <4>3
      <4>5. ~Crosses(e + 1)
        BY <1>1, <3>0, <4>4, Place DEF Crosses
      <4>6. Blocks(e + 1) = Blocks(e)
        BY <4>1, <4>3, <4>5 DEF Blocks
      <4>7. g = [fe EXCEPT !.entry = @ + 1, !.ptr = <<nextp - 1, nextp>>]
        BY <3>2, <3>6 DEF Next12
      <4> HIDE DEF nextp, g
      <4>8. g = [entry |-> e + 1, bhs |-> Blocks(e), ptr |-> <<nextp - 1, nextp>>]
        BY <1>2, <4>7
      <4>9. g = ReadBlock(e + 1)
        BY <1>3, <3>4, <4>6, <4>8
      <4> QED
        BY <4>8, <4>9
    <3>7. CASE Len(fe.bhs) # 2 /\ ~(nextp < BlockEnd(fe) - 1)
      <4>1. g = NoMore(fe)
        BY <3>2, <3>7 DEF Next12
      <4> QED
        BY <1>5, <4>1
    <3> QED
      BY <3>5, <3>6, <3>7
  <2>2. CASE bits # 12
    <3> DEFINE size == bits \div 8
    <3>1. /\ size \in {2, 4} /\ Byte(e) \in Nat /\ Byte(e + 1) = Byte(e) + size
          /\ blksz \in Nat \ {0} /\ fe.ptr[1] = Byte(e) /\ fe.ptr = <<Byte(e)>>
      <4>1. CASE bits = 16
        BY <1>1, <1>4, <4>1, ByteIs, FormatFacts DEF Ptr
      <4>2. CASE bits = 32
        BY <1>1, <1>4, <4>2, ByteIs, FormatFacts DEF Ptr
      <4> QED
        BY <2>2, <4>1, <4>2, FormatFacts
    <3>2. ~Crosses(e) /\ ~Crosses(e + 1)
      BY <2>2 DEF Crosses
    <3>3. CASE fe.ptr[1] < BlockEnd(fe) - size
      <4>1. Blocknr(e) * blksz <= Byte(e + 1) /\ Byte(e + 1) < (Blocknr(e) + 1) * blksz
        BY <1>6, <3>1, <3>3
      <4>2. Blocknr(e + 1) = Blocknr(e)
        BY <1>1, <1>6, <4>1, PlaceIs
      <4>3. Blocks(e + 1) = Blocks(e) /\ Ptr(e + 1) = <<Byte(e + 1)>>
        BY <2>2, <3>2, <4>2 DEF Blocks, Ptr
      <4>4. g = [fe EXCEPT !.entry = @ + 1, !.ptr = <<@[1] + size>>]
        BY <2>2, <3>3 DEF EntNext
      <4> HIDE DEF size, g
      <4>5. g = [entry |-> e + 1, bhs |-> Blocks(e), ptr |-> <<Byte(e + 1)>>]
        BY <1>2, <1>4, <3>1, <4>4
      <4> QED
        BY <1>3, <4>3, <4>5
    <3>4. CASE ~(fe.ptr[1] < BlockEnd(fe) - size)
      <4>1. g = NoMore(fe)
        BY <2>2, <3>4 DEF EntNext
      <4> QED
        BY <1>5, <4>1
    <3> QED
      BY <3>3, <3>4
  <2> QED
    BY <2>1, <2>2
<1>8. HasNext(g) => e + 1 \in Clusters
  BY <1>1, <1>7, MarkFacts DEF HasNext, Clusters, START
<1> QED
  BY <1>7, <1>8 DEF HasNext, e

-----------------------------------------------------------------------------
(* What an entry says.                                                        *)

Mark(v) == IF v >= Bad THEN EOF ELSE v
Code(w) == IF w = EOF THEN Eof ELSE w

LEMMA Widths == ASSUME format \in Formats PROVE bits = 12 \/ bits = 16 \/ bits = 32
BY FormatFacts

LEMMA WidthIs ==
  /\ bits = 12 => Width = 3
  /\ bits = 16 => Width = 4
  /\ bits = 32 => Width = 8
BY DEF Width

LEMMA TableFacts ==
  ASSUME format \in Formats
  PROVE  TableSize \in Nat /\ TableSize >= (max_cluster * Width + 1) \div 2
<1> DEFINE a == (max_cluster * Width + 1) \div 2
<1>1. a \in Nat
  <2>1. CASE bits = 12
    BY <2>1, FormatFacts DEF Width
  <2>2. CASE bits = 16
    BY <2>2, FormatFacts DEF Width
  <2>3. CASE bits = 32
    BY <2>3, FormatFacts DEF Width
  <2> QED
    BY <2>1, <2>2, <2>3, FormatFacts
<1>2. blksz \in Nat \ {0}
  BY BlockSize
<1>3. TableSize = ((a + blksz - 1) \div blksz) * blksz
  BY DEF TableSize
<1> HIDE DEF a
<1>4. TableSize \in Nat /\ TableSize >= a
  BY <1>1, <1>2, <1>3, RoundUp
<1> QED
  BY <1>4 DEF a

(* The bytes of an entry are in the table.                                    *)
LEMMA InTable ==
  ASSUME format \in Formats, NEW e \in Clusters
  PROVE  /\ Byte(e) \in 0..(TableSize - 1) /\ Byte(e) + 1 \in 0..(TableSize - 1)
         /\ bits = 32 => Byte(e) + 2 \in 0..(TableSize - 1) /\ Byte(e) + 3 \in 0..(TableSize - 1)
<1>0. TableSize \in Nat /\ TableSize >= (max_cluster * Width + 1) \div 2
  BY TableFacts, Zenon
<1>1. e \in Nat /\ max_cluster \in Nat /\ e < max_cluster /\ Byte(e) \in Nat
  BY MarkFacts, ByteIs, Zenon
<1>2. CASE bits = 12
  <2>1. Byte(e) = e + (e \div 2) /\ Width = 3
    BY <1>1, <1>2, ByteIs, WidthIs, Zenon
  <2>2. Byte(e) + 1 < (max_cluster * 3 + 1) \div 2
    BY <1>1, <2>1
  <2> QED
    BY <1>0, <1>1, <1>2, <2>1, <2>2
<1>3. CASE bits = 16
  <2>1. Byte(e) = 2 * e /\ Width = 4
    BY <1>1, <1>3, ByteIs, WidthIs, Zenon
  <2>2. Byte(e) + 1 < (max_cluster * 4 + 1) \div 2
    BY <1>1, <2>1
  <2> QED
    BY <1>0, <1>1, <1>3, <2>1, <2>2
<1>4. CASE bits = 32
  <2>1. Byte(e) = 4 * e /\ Width = 8
    BY <1>1, <1>4, ByteIs, WidthIs, Zenon
  <2>2. Byte(e) + 3 < (max_cluster * 8 + 1) \div 2
    BY <1>1, <2>1
  <2> QED
    BY <1>0, <1>1, <1>4, <2>1, <2>2
<1> QED
  BY <1>2, <1>3, <1>4, Widths, Zenon

LEMMA ByteTable ==
  ASSUME format \in Formats, fat \in Table, NEW e \in Clusters
  PROVE  /\ fat[Byte(e)] \in 0..255 /\ fat[Byte(e) + 1] \in 0..255
         /\ bits = 32 => fat[Byte(e) + 2] \in 0..255 /\ fat[Byte(e) + 3] \in 0..255
<1>1. \A k \in 0..(TableSize - 1) : fat[k] \in 0..255
  BY DEF Table
<1> QED
  BY <1>1, InTable, Zenon

LEMMA WhereValue ==
  ASSUME format \in Formats, NEW e \in Clusters
  PROVE  (e * Width) \div 2 = Byte(e)
<1>1. e \in Nat
  BY MarkFacts
<1>2. CASE bits = 12
  <2>1. Byte(e) = e + (e \div 2) /\ Width = 3
    BY <1>1, <1>2, ByteIs, WidthIs, Zenon
  <2>2. (e * 3) \div 2 = e + (e \div 2)
    BY <1>1
  <2> QED
    BY <2>1, <2>2
<1>3. CASE bits = 16
  <2>1. Byte(e) = 2 * e /\ Width = 4
    BY <1>1, <1>3, ByteIs, WidthIs, Zenon
  <2> QED
    BY <1>1, <2>1
<1>4. CASE bits = 32
  <2>1. Byte(e) = 4 * e /\ Width = 8
    BY <1>1, <1>4, ByteIs, WidthIs, Zenon
  <2> QED
    BY <1>1, <2>1
<1> QED
  BY <1>2, <1>3, <1>4, Widths, Zenon

(* Value of an entry of table t.                                              *)
ValueIn(t, e) ==
  LET k == (e * Width) \div 2
      v == CASE bits = 12 /\ e % 2 = 0 -> t[k] + 256 * (t[k + 1] % 16)
             [] bits = 12 /\ e % 2 = 1 -> (t[k] \div 16) + 16 * t[k + 1]
             [] bits = 16 -> t[k] + 256 * t[k + 1]
             [] bits = 32 -> t[k] + 256 * t[k + 1] + 65536 * t[k + 2] + 16777216 * (t[k + 3] % 16)
  IN  IF v >= Bad THEN EOF ELSE v

LEMMA ValueNow == \A e : Value(e) = ValueIn(fat, e)
BY DEF Value, ValueIn

LEMMA ValueEven ==
  ASSUME format \in Formats, NEW t, NEW e \in Clusters, bits = 12, e % 2 = 0
  PROVE  ValueIn(t, e) = Mark(t[Byte(e)] + 256 * (t[Byte(e) + 1] % 16))
BY WhereValue DEF ValueIn, Mark

LEMMA ValueOdd ==
  ASSUME format \in Formats, NEW t, NEW e \in Clusters, bits = 12, e % 2 = 1
  PROVE  ValueIn(t, e) = Mark((t[Byte(e)] \div 16) + 16 * t[Byte(e) + 1])
BY WhereValue DEF ValueIn, Mark

Word16(t, e) == t[Byte(e)] + 256 * t[Byte(e) + 1]

LEMMA Value16 ==
  ASSUME format \in Formats, NEW t, NEW e \in Clusters, bits = 16
  PROVE  ValueIn(t, e) = Mark(Word16(t, e))
BY WhereValue DEF ValueIn, Mark, Word16

Word32(t, e) ==
  t[Byte(e)] + 256 * t[Byte(e) + 1] + 65536 * t[Byte(e) + 2] + 16777216 * (t[Byte(e) + 3] % 16)

LEMMA Value32 ==
  ASSUME format \in Formats, NEW t, NEW e \in Clusters, bits = 32
  PROVE  ValueIn(t, e) = Mark(Word32(t, e))
BY WhereValue DEF ValueIn, Mark, Word32

LEMMA LowTwelve ==
  ASSUME NEW a \in 0..255, NEW b \in 0..255
  PROVE  (b * 256 + a) % 4096 = a + 256 * (b % 16)
<1>1. b = 16 * (b \div 16) + (b % 16) /\ b \div 16 \in Nat /\ b % 16 \in 0..15
  OBVIOUS
<1>2. b * 256 + a = 4096 * (b \div 16) + (a + 256 * (b % 16)) /\ a + 256 * (b % 16) \in 0..4095
  BY <1>1
<1> QED
  BY <1>1, <1>2

(* The three functions of fatent_operations that read an entry.               *)
LEMMA GetRight ==
  ASSUME format \in Formats, fat \in Table, NEW e \in Clusters
  PROVE  Get(ReadBlock(e)) = Value(e)
<1> DEFINE fe == ReadBlock(e)
<1>1. e \in Nat /\ e % 2 \in {0, 1}
  BY MarkFacts
<1>2. fe.entry = e /\ fe.ptr = Ptr(e)
  BY RightRead
<1>3. fe.ptr[1] = Byte(e) /\ (bits = 12 => fe.ptr[2] = Byte(e) + 1)
  BY <1>1, <1>2, BlocksFacts
<1>4. Get(fe) = Mark(Raw(fe))
  BY DEF Get, Mark
<1> HIDE DEF fe
<1>5. CASE bits = 12 /\ e % 2 = 0
  <2>1. Raw(fe) = (fat[Byte(e) + 1] * 256 + fat[Byte(e)]) % 4096
    BY <1>2, <1>3, <1>5 DEF Raw
  <2>2. Raw(fe) = fat[Byte(e)] + 256 * (fat[Byte(e) + 1] % 16)
    <3> DEFINE a == fat[Byte(e)]
               b == fat[Byte(e) + 1]
    <3>1. a \in 0..255 /\ b \in 0..255
      BY ByteTable, Zenon
    <3>2. Raw(fe) = (b * 256 + a) % 4096
      BY <2>1
    <3> HIDE DEF a, b
    <3>3. Raw(fe) = a + 256 * (b % 16)
      BY <3>1, <3>2, LowTwelve
    <3> QED
      BY <3>3 DEF a, b
  <2> QED
    <3>1. Value(e) = Mark(fat[Byte(e)] + 256 * (fat[Byte(e) + 1] % 16))
      BY <1>5, ValueEven, ValueNow, Zenon
    <3>2. Get(fe) = Mark(fat[Byte(e)] + 256 * (fat[Byte(e) + 1] % 16))
      BY <1>4, <2>2, Zenon
    <3> QED
      BY <3>1, <3>2, Zenon DEF fe
<1>6. CASE bits = 12 /\ e % 2 = 1
  <2>1. Raw(fe) = (fat[Byte(e)] \div 16) + (fat[Byte(e) + 1] * 16)
    BY <1>2, <1>3, <1>6 DEF Raw
  <2>2. Raw(fe) = (fat[Byte(e)] \div 16) + 16 * fat[Byte(e) + 1]
    BY <2>1, ByteTable
  <2> QED
    BY <1>4, <1>6, <2>2, ValueOdd, ValueNow, Zenon DEF fe
<1>7. CASE bits = 16
  <2>1. Byte(e) + 0 = Byte(e)
    BY <1>1, ByteIs
  <2>2. Raw(fe) = Word16(fat, e)
    BY <1>3, <1>7, <2>1 DEF Raw, Word16
  <2> QED
    BY <1>4, <1>7, <2>2, Value16, ValueNow, Zenon DEF fe
<1>8. CASE bits = 32
  <2>1. Byte(e) + 0 = Byte(e)
    BY <1>1, ByteIs
  <2>2. Raw(fe) = Word32(fat, e)
    BY <1>3, <1>8, <2>1 DEF Raw, Word32
  <2> QED
    BY <1>4, <1>8, <2>2, Value32, ValueNow, Zenon DEF fe
<1> QED
  BY <1>1, <1>5, <1>6, <1>7, <1>8, Widths

-----------------------------------------------------------------------------
(* Writing an entry.                                                          *)

LEMMA CodeFacts ==
  ASSUME format \in Formats, NEW w \in Values
  PROVE  /\ Code(w) \in Nat /\ Code(w) <= Eof /\ Mark(Code(w)) = w
         /\ bits = 12 => Code(w) < 4096
         /\ bits = 16 => Code(w) < 65536
         /\ bits = 32 => Code(w) < 268435456
<1>1. /\ max_cluster <= Bad /\ Bad \in Nat /\ Bad = Eof - 8
      /\ \A e \in Clusters : e \in Nat /\ e >= 2 /\ e < max_cluster
      /\ Eof \in Nat /\ max_cluster \in Nat /\ max_cluster > 2 /\ FREE = 0 /\ EOF \notin Clusters /\ EOF # FREE
  BY MarkFacts
<1>0. Eof \in Nat /\ Bad \in Nat /\ Bad <= Eof
  BY <1>1
<1>4. Code(w) \in Nat /\ Code(w) <= Eof /\ Mark(Code(w)) = w
  <2>1. CASE w = EOF
    BY <1>0, <2>1 DEF Code, Mark
  <2>2. CASE w # EOF
    <3>1. w \in Nat /\ w < Bad
      BY <1>1, <2>2 DEF Values
    <3> QED
      BY <1>0, <2>2, <3>1 DEF Code, Mark
  <2> QED
    BY <2>1, <2>2
<1>5. (bits = 12 => Eof = 4095) /\ (bits = 16 => Eof = 65535) /\ (bits = 32 => Eof = 268435455)
  BY DEF Eof, EOF
<1> QED
  BY <1>4, <1>5

(* The bytes that ent_put leaves.                                             *)
Bytes(e) == IF bits = 32 THEN Byte(e) .. Byte(e) + 3 ELSE Byte(e) .. Byte(e) + 1

Left(u, e) == /\ u \in Table
              /\ \A k \in 0..(TableSize - 1) : k \notin Bytes(e) => u[k] = fat[k]

Set2(u, t, i, x, j, y) == u = [t EXCEPT ![i] = x, ![j] = y]

LEMMA PutEven ==
  ASSUME format \in Formats, fat \in Table, bits = 12,
         NEW e \in Clusters, e % 2 = 0, NEW w \in Values, NEW u, u = Put(ReadBlock(e), w)
  PROVE  /\ Left(u, e)
         /\ u[Byte(e)] = Code(w) % 256
         /\ u[Byte(e) + 1] = (fat[Byte(e) + 1] \div 16) * 16 + (Code(w) \div 256)
<1> DEFINE fe == ReadBlock(e)
           v  == Code(w)
           i  == Byte(e)
           y  == ((fat[i + 1] \div 16) * 16) + (v \div 256)
<1>1. e \in Nat /\ fe.entry = e /\ fe.ptr[1] = i /\ fe.ptr[2] = i + 1
  BY RightRead, BlocksFacts, MarkFacts
<1>2. v \in Nat /\ v < 4096
  BY CodeFacts
<1>3. i \in 0..(TableSize - 1) /\ i + 1 \in 0..(TableSize - 1)
  BY InTable, Zenon
<1>4. u = [fat EXCEPT ![fe.ptr[1]] = v % 256, ![fe.ptr[2]] = ((@ \div 16) * 16) + (v \div 256)]
  BY <1>1 DEF Put, Code
<1>5. fat[i + 1] \in 0..255
  BY <1>3 DEF Table
<1> HIDE DEF fe, v, i
<1>6. u = [fat EXCEPT ![i] = v % 256, ![i + 1] = y]
  <2>1. i # i + 1
    BY <1>3
  <2> QED
    BY <1>1, <1>3, <1>4, <2>1 DEF Table
<1>7. v % 256 \in 0..255 /\ y \in 0..255
  BY <1>2, <1>5
<1> HIDE DEF y
<1>8. /\ u \in Table /\ u[i] = v % 256 /\ u[i + 1] = y
      /\ \A k \in 0..(TableSize - 1) : k \notin i .. i + 1 => u[k] = fat[k]
  <2> DEFINE D == 0..(TableSize - 1)
             B == 0..255
             j == i + 1
             X == v % 256
             Y == y
  <2>1. fat \in [D -> B] /\ X \in B /\ Y \in B /\ i \in D /\ j \in D
    BY <1>3, <1>7 DEF Table
  <2>2. i # j
    BY <1>3
  <2>3. Set2(u, fat, i, X, j, Y)
    BY <1>6 DEF Set2
  <2> HIDE DEF D, B, j, X, Y
  <2>4. u \in [D -> B] /\ u[i] = X /\ u[j] = Y /\ \A k \in D : k # i /\ k # j => u[k] = fat[k]
    BY <2>1, <2>2, <2>3 DEF Set2
  <2>5. \A k \in D : k \notin i .. i + 1 => k # i /\ k # j
    BY <1>3 DEF D, j
  <2>6. \A k \in D : k \notin i .. i + 1 => u[k] = fat[k]
    BY <2>4, <2>5, Zenon
  <2> QED
    BY <2>4, <2>6 DEF Table, D, B, j, X, Y
<1> QED
  BY <1>8 DEF Left, Bytes, i, v, y

LEMMA PutOdd ==
  ASSUME format \in Formats, fat \in Table, bits = 12,
         NEW e \in Clusters, e % 2 = 1, NEW w \in Values, NEW u, u = Put(ReadBlock(e), w)
  PROVE  /\ Left(u, e)
         /\ u[Byte(e)] = ((Code(w) * 16) % 256) + (fat[Byte(e)] % 16)
         /\ u[Byte(e) + 1] = Code(w) \div 16
<1> DEFINE fe == ReadBlock(e)
           v  == Code(w)
           i  == Byte(e)
           x  == ((v * 16) % 256) + (fat[i] % 16)
<1>1. e \in Nat /\ fe.entry = e /\ fe.ptr[1] = i /\ fe.ptr[2] = i + 1
  BY RightRead, BlocksFacts, MarkFacts
<1>2. v \in Nat /\ v < 4096
  BY CodeFacts
<1>3. i \in 0..(TableSize - 1) /\ i + 1 \in 0..(TableSize - 1)
  BY InTable, Zenon
<1>4. u = [fat EXCEPT ![fe.ptr[1]] = ((v * 16) % 256) + (@ % 16), ![fe.ptr[2]] = v \div 16]
  BY <1>1 DEF Put, Code
<1>5. fat[i] \in 0..255
  BY <1>3 DEF Table
<1> HIDE DEF fe, v, i
<1>6. u = [fat EXCEPT ![i] = x, ![i + 1] = v \div 16]
  BY <1>1, <1>3, <1>4 DEF Table
<1>7. v \div 16 \in 0..255 /\ x \in 0..255
  BY <1>2, <1>5
<1> HIDE DEF x
<1>8. /\ u \in Table /\ u[i] = x /\ u[i + 1] = v \div 16
      /\ \A k \in 0..(TableSize - 1) : k \notin i .. i + 1 => u[k] = fat[k]
  <2> DEFINE D == 0..(TableSize - 1)
             B == 0..255
             j == i + 1
             X == x
             Y == v \div 16
  <2>1. fat \in [D -> B] /\ X \in B /\ Y \in B /\ i \in D /\ j \in D
    BY <1>3, <1>7 DEF Table
  <2>2. i # j
    BY <1>3
  <2>3. Set2(u, fat, i, X, j, Y)
    BY <1>6 DEF Set2
  <2> HIDE DEF D, B, j, X, Y
  <2>4. u \in [D -> B] /\ u[i] = X /\ u[j] = Y /\ \A k \in D : k # i /\ k # j => u[k] = fat[k]
    BY <2>1, <2>2, <2>3 DEF Set2
  <2>5. \A k \in D : k \notin i .. i + 1 => k # i /\ k # j
    BY <1>3 DEF D, j
  <2>6. \A k \in D : k \notin i .. i + 1 => u[k] = fat[k]
    BY <2>4, <2>5, Zenon
  <2> QED
    BY <2>4, <2>6 DEF Table, D, B, j, X, Y
<1> QED
  BY <1>8 DEF Left, Bytes, i, v, x

LEMMA Put16 ==
  ASSUME format \in Formats, fat \in Table, bits = 16,
         NEW e \in Clusters, NEW w \in Values, NEW u, u = Put(ReadBlock(e), w)
  PROVE  /\ Left(u, e) /\ u[Byte(e)] = Code(w) % 256 /\ u[Byte(e) + 1] = Code(w) \div 256
<1> DEFINE fe == ReadBlock(e)
           v  == Code(w)
           i  == Byte(e)
<1>1. e \in Nat /\ fe.entry = e /\ fe.ptr[1] = i
  BY RightRead, BlocksFacts, MarkFacts
<1>2. v \in Nat /\ v < 65536
  BY CodeFacts
<1>3. i \in 0..(TableSize - 1) /\ i + 1 \in 0..(TableSize - 1)
  BY InTable, Zenon
<1>4. u = [fat EXCEPT ![fe.ptr[1]] = v % 256, ![fe.ptr[1] + 1] = v \div 256]
  BY <1>1 DEF Put, Code
<1> HIDE DEF fe, v, i
<1>6. u = [fat EXCEPT ![i] = v % 256, ![i + 1] = v \div 256]
  BY <1>1, <1>4
<1>7. v \div 256 \in 0..255 /\ v % 256 \in 0..255
  BY <1>2
<1>8. /\ u \in Table /\ u[i] = v % 256 /\ u[i + 1] = v \div 256
      /\ \A k \in 0..(TableSize - 1) : k \notin i .. i + 1 => u[k] = fat[k]
  <2> DEFINE D == 0..(TableSize - 1)
             B == 0..255
             j == i + 1
             X == v % 256
             Y == v \div 256
  <2>1. fat \in [D -> B] /\ X \in B /\ Y \in B /\ i \in D /\ j \in D
    BY <1>3, <1>7 DEF Table
  <2>2. i # j
    BY <1>3
  <2>3. Set2(u, fat, i, X, j, Y)
    BY <1>6 DEF Set2
  <2> HIDE DEF D, B, j, X, Y
  <2>4. u \in [D -> B] /\ u[i] = X /\ u[j] = Y /\ \A k \in D : k # i /\ k # j => u[k] = fat[k]
    BY <2>1, <2>2, <2>3 DEF Set2
  <2>5. \A k \in D : k \notin i .. i + 1 => k # i /\ k # j
    BY <1>3 DEF D, j
  <2>6. \A k \in D : k \notin i .. i + 1 => u[k] = fat[k]
    BY <2>4, <2>5, Zenon
  <2> QED
    BY <2>4, <2>6 DEF Table, D, B, j, X, Y
<1> QED
  BY <1>8 DEF Left, Bytes, i, v

LEMMA Put32 ==
  ASSUME format \in Formats, fat \in Table, bits = 32,
         NEW e \in Clusters, NEW w \in Values, NEW u, u = Put(ReadBlock(e), w)
  PROVE  /\ Left(u, e) /\ u[Byte(e)] = Code(w) % 256 /\ u[Byte(e) + 1] = (Code(w) \div 256) % 256
         /\ u[Byte(e) + 2] = (Code(w) \div 65536) % 256
         /\ u[Byte(e) + 3] = (fat[Byte(e) + 3] \div 16) * 16 + (Code(w) \div 16777216)
<1> DEFINE fe == ReadBlock(e)
           v  == Code(w)
           i  == Byte(e)
           b1 == v % 256
           b2 == (v \div 256) % 256
           b3 == (v \div 65536) % 256
           z  == v \div 16777216
           y  == ((fat[i + 3] \div 16) * 16) + z
<1>1. e \in Nat /\ fe.entry = e /\ fe.ptr[1] = i
  BY RightRead, BlocksFacts, MarkFacts
<1>2. v \in Nat /\ v < 268435456
  BY CodeFacts
<1>3. i \in 0..(TableSize - 1) /\ i + 3 \in 0..(TableSize - 1)
  BY InTable, Zenon
<1>4. u = [fat EXCEPT ![fe.ptr[1]] = b1, ![fe.ptr[1] + 1] = b2, ![fe.ptr[1] + 2] = b3,
                      ![fe.ptr[1] + 3] = ((@ \div 16) * 16) + z]
  BY <1>1, SMT DEF Put, Code
<1>5. fat[i + 3] \in 0..255
  BY <1>3 DEF Table
<1>7. b1 \in 0..255 /\ b2 \in 0..255 /\ b3 \in 0..255 /\ y \in 0..255
  <2>1. z \in 0..15 /\ b1 \in 0..255 /\ b2 \in 0..255 /\ b3 \in 0..255
    BY <1>2, SMT
  <2> HIDE DEF z, b1, b2, b3, v, i
  <2> QED
    BY <1>5, <2>1
<1> HIDE DEF fe, v, i, b1, b2, b3, z
<1>6. u = [fat EXCEPT ![i] = b1, ![i + 1] = b2, ![i + 2] = b3, ![i + 3] = y]
  BY <1>1, <1>3, <1>4 DEF Table
<1> HIDE DEF y
<1>8. /\ u \in Table /\ u[i] = b1 /\ u[i + 1] = b2 /\ u[i + 2] = b3 /\ u[i + 3] = y
      /\ \A k \in 0..(TableSize - 1) : k \notin i .. i + 3 => u[k] = fat[k]
  <2> DEFINE D == 0..(TableSize - 1)
             B == 0..255
             j == i + 1
             l == i + 2
             m == i + 3
             t == [fat EXCEPT ![i] = b1, ![j] = b2]
  <2>1. /\ fat \in [D -> B] /\ b1 \in B /\ b2 \in B /\ b3 \in B /\ y \in B
        /\ i \in D /\ j \in D /\ l \in D /\ m \in D
        /\ i # j /\ l # m /\ i # l /\ i # m /\ j # l /\ j # m
    <3>1. fat \in [D -> B] /\ b1 \in B /\ b2 \in B /\ b3 \in B /\ y \in B
      BY <1>7 DEF Table
    <3>2. i \in Nat /\ TableSize \in Nat /\ i + 3 \in D
      BY <1>3, TableFacts
    <3>3. i \in D /\ j \in D /\ l \in D /\ m \in D
      BY <3>2
    <3>4. i # j /\ l # m /\ i # l /\ i # m /\ j # l /\ j # m
      BY <3>2
    <3> QED
      BY <3>1, <3>3, <3>4
  <2>2. Set2(t, fat, i, b1, j, b2)
    BY DEF Set2
  <2>3. Set2(u, t, l, b3, m, y)
    BY <1>6 DEF Set2
  <2>5. \A k \in D : k \notin i .. i + 3 => k # i /\ k # j /\ k # l /\ k # m
    BY <1>3 DEF D, j, l, m
  <2> HIDE DEF D, B, j, l, m, t
  <2>4. t \in [D -> B] /\ t[i] = b1 /\ t[j] = b2 /\ \A k \in D : k # i /\ k # j => t[k] = fat[k]
    BY <2>1, <2>2 DEF Set2
  <2>6. u \in [D -> B] /\ u[l] = b3 /\ u[m] = y /\ \A k \in D : k # l /\ k # m => u[k] = t[k]
    BY <2>1, <2>3, <2>4 DEF Set2
  <2>7. u[i] = b1 /\ u[j] = b2
    BY <2>1, <2>4, <2>6, Zenon
  <2>8. \A k \in D : k \notin i .. i + 3 => u[k] = fat[k]
    BY <2>4, <2>5, <2>6, Zenon
  <2> QED
    BY <2>6, <2>7, <2>8 DEF Table, D, B, j, l, m
<1> QED
  BY <1>8, SMT DEF Left, Bytes, i, v, b1, b2, b3, y, z

LEMMA JoinEven ==
  ASSUME NEW v \in Nat, v < 4096, NEW f \in 0..255
  PROVE  /\ (v % 256) + 256 * (((f \div 16) * 16 + (v \div 256)) % 16) = v
         /\ ((f \div 16) * 16 + (v \div 256)) \div 16 = f \div 16
<1>1. v = 256 * (v \div 256) + (v % 256) /\ v \div 256 \in 0..15
  OBVIOUS
<1>2. f \div 16 \in 0..15
  OBVIOUS
<1> DEFINE a == f \div 16
           b == v \div 256
<1>3. a \in Nat /\ b \in 0..15
  BY <1>1, <1>2
<1> HIDE DEF a, b
<1>4. (a * 16 + b) % 16 = b /\ (a * 16 + b) \div 16 = a
  BY <1>3
<1>5. ((f \div 16) * 16 + (v \div 256)) % 16 = v \div 256 /\ ((f \div 16) * 16 + (v \div 256)) \div 16 = f \div 16
  BY <1>4 DEF a, b
<1> QED
  BY <1>1, <1>5

LEMMA JoinOdd ==
  ASSUME NEW v \in Nat, v < 4096, NEW f \in 0..255
  PROVE  /\ ((((v * 16) % 256) + (f % 16)) \div 16) + 16 * (v \div 16) = v
         /\ (((v * 16) % 256) + (f % 16)) % 16 = f % 16
<1> DEFINE a == v % 16
           b == v \div 16
           c == f % 16
<1>1. v = 16 * b + a /\ a \in 0..15 /\ b \in 0..255 /\ c \in 0..15
  OBVIOUS
<1>2. v * 16 = 256 * b + 16 * a
  BY <1>1
<1>3. (v * 16) % 256 = 16 * a
  <2> HIDE DEF a, b
  <2>1. (256 * b + 16 * a) % 256 = 16 * a
    BY <1>1
  <2> QED
    BY <1>2, <2>1
<1>4. (16 * a + c) \div 16 = a /\ (16 * a + c) % 16 = c
  <2> HIDE DEF a, c
  <2> QED
    BY <1>1
<1> QED
  BY <1>1, <1>3, <1>4

LEMMA Join16 ==
  ASSUME NEW v \in Nat, v < 65536
  PROVE  (v % 256) + 256 * (v \div 256) = v
OBVIOUS

LEMMA Join32 ==
  ASSUME NEW v \in Nat, v < 268435456, NEW f \in 0..255
  PROVE  /\ (v % 256) + 256 * ((v \div 256) % 256) + 65536 * ((v \div 65536) % 256)
            + 16777216 * (((f \div 16) * 16 + (v \div 16777216)) % 16) = v
         /\ ((f \div 16) * 16 + (v \div 16777216)) \div 16 = f \div 16
<1> DEFINE a == f \div 16
           b == v \div 16777216
<1>1. a \in Nat /\ b \in 0..15
  OBVIOUS
<1>2. (v % 256) + 256 * ((v \div 256) % 256) + 65536 * ((v \div 65536) % 256) + 16777216 * b = v
  OBVIOUS
<1> HIDE DEF a, b
<1>3. (a * 16 + b) % 16 = b /\ (a * 16 + b) \div 16 = a
  BY <1>1
<1>4. ((f \div 16) * 16 + (v \div 16777216)) % 16 = b /\ ((f \div 16) * 16 + (v \div 16777216)) \div 16 = f \div 16
  BY <1>3 DEF a, b
<1> QED
  BY <1>2, <1>4

(* It then has the value written.                                              *)
LEMMA WrittenValue ==
  ASSUME format \in Formats, fat \in Table,
         NEW e \in Clusters, NEW w \in Values, NEW u, u = Put(ReadBlock(e), w)
  PROVE  ValueIn(u, e) = w
<1> DEFINE v == Code(w)
<1>1. /\ v \in Nat /\ Mark(v) = w
      /\ bits = 12 => v < 4096
      /\ bits = 16 => v < 65536
      /\ bits = 32 => v < 268435456
  BY CodeFacts
<1>2. fat[Byte(e)] \in 0..255 /\ fat[Byte(e) + 1] \in 0..255 /\ (bits = 32 => fat[Byte(e) + 3] \in 0..255)
  BY ByteTable, Zenon
<1>3. e % 2 \in {0, 1}
  BY MarkFacts
<1> HIDE DEF v
<1>4. CASE bits = 12 /\ e % 2 = 0
  <2>1. u[Byte(e)] = v % 256 /\ u[Byte(e) + 1] = (fat[Byte(e) + 1] \div 16) * 16 + (v \div 256)
    BY <1>4, PutEven DEF v
  <2>2. u[Byte(e)] + 256 * (u[Byte(e) + 1] % 16) = v
    BY <1>1, <1>2, <1>4, <2>1, JoinEven
  <2> QED
    BY <1>1, <1>4, <2>2, ValueEven
<1>5. CASE bits = 12 /\ e % 2 = 1
  <2>1. u[Byte(e)] = ((v * 16) % 256) + (fat[Byte(e)] % 16) /\ u[Byte(e) + 1] = v \div 16
    BY <1>5, PutOdd DEF v
  <2>2. (u[Byte(e)] \div 16) + 16 * u[Byte(e) + 1] = v
    BY <1>1, <1>2, <1>5, <2>1, JoinOdd
  <2> QED
    BY <1>1, <1>5, <2>2, ValueOdd
<1>6. CASE bits = 16
  <2>1. u[Byte(e)] = v % 256 /\ u[Byte(e) + 1] = v \div 256
    BY <1>6, Put16 DEF v
  <2>2. Word16(u, e) = v
    BY <1>1, <1>6, <2>1, Join16 DEF Word16
  <2> QED
    BY <1>1, <1>6, <2>2, Value16
<1>7. CASE bits = 32
  <2>1. /\ u[Byte(e)] = v % 256 /\ u[Byte(e) + 1] = (v \div 256) % 256
        /\ u[Byte(e) + 2] = (v \div 65536) % 256
        /\ u[Byte(e) + 3] = (fat[Byte(e) + 3] \div 16) * 16 + (v \div 16777216)
    BY <1>7, Put32 DEF v
  <2>2. Word32(u, e) = v
    BY <1>1, <1>2, <1>7, <2>1, Join32 DEF Word32
  <2> QED
    BY <1>1, <1>7, <2>2, Value32
<1> QED
  BY <1>3, <1>4, <1>5, <1>6, <1>7, Widths

LEMMA WrittenLeft ==
  ASSUME format \in Formats, fat \in Table,
         NEW e \in Clusters, NEW w \in Values, NEW u, u = Put(ReadBlock(e), w)
  PROVE  Left(u, e)
<1>1. e % 2 \in {0, 1}
  BY MarkFacts
<1>2. CASE bits = 12 /\ e % 2 = 0
  BY <1>2, PutEven
<1>3. CASE bits = 12 /\ e % 2 = 1
  BY <1>3, PutOdd
<1>4. CASE bits = 16
  BY <1>4, Put16
<1>5. CASE bits = 32
  BY <1>5, Put32
<1> QED
  BY <1>1, <1>2, <1>3, <1>4, <1>5, Widths

(* Two entries of FAT12 share a byte, or none.                                *)
LEMMA Neighbours ==
  ASSUME format \in Formats, bits = 12, NEW c \in Nat, NEW e \in Nat, c < e
  PROVE  /\ Byte(c) + 1 <= Byte(e)
         /\ Byte(c) + 1 = Byte(e) => c % 2 = 0 /\ e % 2 = 1
<1>1. Byte(c) = c + (c \div 2) /\ Byte(e) = e + (e \div 2)
  BY ByteIs
<1> QED
  BY <1>1

(* The other entries have the values they had.                                *)
LEMMA WrittenOthers ==
  ASSUME format \in Formats, fat \in Table,
         NEW e \in Clusters, NEW w \in Values, NEW u, u = Put(ReadBlock(e), w),
         NEW c \in Clusters, c # e
  PROVE  ValueIn(u, c) = ValueIn(fat, c)
<1> DEFINE v == Code(w)
<1>1. /\ v \in Nat
      /\ bits = 12 => v < 4096
  BY CodeFacts
<1>2. fat[Byte(e)] \in 0..255 /\ fat[Byte(e) + 1] \in 0..255
  BY ByteTable, Zenon
<1>3. c \in Nat /\ e \in Nat /\ c % 2 \in {0, 1} /\ e % 2 \in {0, 1} /\ Byte(c) \in Nat /\ Byte(e) \in Nat
  BY MarkFacts, ByteIs
<1>4. Left(u, e)
  BY WrittenLeft
<1>5. \A k \in 0..(TableSize - 1) : k \notin Bytes(e) => u[k] = fat[k]
  BY <1>4 DEF Left
<1>6. /\ Byte(c) \in 0..(TableSize - 1) /\ Byte(c) + 1 \in 0..(TableSize - 1)
      /\ bits = 32 => Byte(c) + 2 \in 0..(TableSize - 1) /\ Byte(c) + 3 \in 0..(TableSize - 1)
  BY InTable, Zenon
<1> HIDE DEF v
<1>7. CASE bits = 12
  <2>0. Bytes(e) = Byte(e) .. Byte(e) + 1
    BY <1>7 DEF Bytes
  <2>1. \/ Byte(c) + 1 < Byte(e) \/ Byte(e) + 1 < Byte(c)
        \/ Byte(c) + 1 = Byte(e) /\ c % 2 = 0 /\ e % 2 = 1
        \/ Byte(e) + 1 = Byte(c) /\ e % 2 = 0 /\ c % 2 = 1
    <3>1. CASE c < e
      BY <1>3, <1>7, <3>1, Neighbours
    <3>2. CASE e < c
      BY <1>3, <1>7, <3>2, Neighbours
    <3> QED
      BY <1>3, <3>1, <3>2
  <2>2. CASE Byte(c) + 1 < Byte(e) \/ Byte(e) + 1 < Byte(c)
    <3>1. Byte(c) \notin Bytes(e) /\ Byte(c) + 1 \notin Bytes(e)
      BY <1>3, <2>0, <2>2
    <3>2. u[Byte(c)] = fat[Byte(c)] /\ u[Byte(c) + 1] = fat[Byte(c) + 1]
      BY <1>5, <1>6, <3>1, Zenon
    <3>3. CASE c % 2 = 0
      BY <1>7, <3>2, <3>3, ValueEven
    <3>4. CASE c % 2 = 1
      BY <1>7, <3>2, <3>4, ValueOdd
    <3> QED
      BY <1>3, <3>3, <3>4
  <2>3. CASE Byte(c) + 1 = Byte(e) /\ c % 2 = 0 /\ e % 2 = 1
    <3>1. Byte(c) \notin Bytes(e)
      BY <1>3, <2>0, <2>3
    <3>2. u[Byte(c)] = fat[Byte(c)]
      BY <1>5, <1>6, <3>1, Zenon
    <3>3. u[Byte(e)] = ((v * 16) % 256) + (fat[Byte(e)] % 16)
      BY <1>7, <2>3, PutOdd DEF v
    <3>4. u[Byte(e)] % 16 = fat[Byte(e)] % 16
      <4> DEFINE f == fat[Byte(e)]
      <4>1. f \in 0..255 /\ u[Byte(e)] = ((v * 16) % 256) + (f % 16)
        BY <1>2, <3>3
      <4> HIDE DEF f
      <4>2. (((v * 16) % 256) + (f % 16)) % 16 = f % 16
        BY <1>1, <1>7, <4>1, JoinOdd
      <4> QED
        BY <4>1, <4>2 DEF f
    <3> QED
      BY <1>7, <2>3, <3>2, <3>4, ValueEven
  <2>4. CASE Byte(e) + 1 = Byte(c) /\ e % 2 = 0 /\ c % 2 = 1
    <3>1. Byte(c) + 1 \notin Bytes(e)
      BY <1>3, <2>0, <2>4
    <3>2. u[Byte(c) + 1] = fat[Byte(c) + 1]
      BY <1>5, <1>6, <3>1, Zenon
    <3>3. u[Byte(e) + 1] = (fat[Byte(e) + 1] \div 16) * 16 + (v \div 256)
      BY <1>7, <2>4, PutEven DEF v
    <3>4. u[Byte(e) + 1] \div 16 = fat[Byte(e) + 1] \div 16
      BY <1>1, <1>2, <1>7, <3>3, JoinEven
    <3> QED
      BY <1>7, <2>4, <3>2, <3>4, ValueOdd
  <2> QED
    BY <2>1, <2>2, <2>3, <2>4
<1>8. CASE bits = 16
  <2>1. Bytes(e) = Byte(e) .. Byte(e) + 1 /\ Byte(e) = 2 * e /\ Byte(c) = 2 * c
    BY <1>3, <1>8, ByteIs DEF Bytes
  <2>2. Byte(c) \notin Bytes(e) /\ Byte(c) + 1 \notin Bytes(e)
    BY <1>3, <2>1
  <2>3. u[Byte(c)] = fat[Byte(c)] /\ u[Byte(c) + 1] = fat[Byte(c) + 1]
    BY <1>5, <1>6, <2>2, Zenon
  <2> QED
    BY <1>8, <2>3, Value16 DEF Word16
<1>9. CASE bits = 32
  <2>1. Bytes(e) = Byte(e) .. Byte(e) + 3 /\ Byte(e) = 4 * e /\ Byte(c) = 4 * c
    BY <1>3, <1>9, ByteIs DEF Bytes
  <2>2. /\ Byte(c) \notin Bytes(e) /\ Byte(c) + 1 \notin Bytes(e)
        /\ Byte(c) + 2 \notin Bytes(e) /\ Byte(c) + 3 \notin Bytes(e)
    BY <1>3, <2>1
  <2>3. /\ u[Byte(c)] = fat[Byte(c)] /\ u[Byte(c) + 1] = fat[Byte(c) + 1]
        /\ u[Byte(c) + 2] = fat[Byte(c) + 2] /\ u[Byte(c) + 3] = fat[Byte(c) + 3]
    BY <1>5, <1>6, <1>9, <2>2, Zenon
  <2> QED
    BY <1>9, <2>3, Value32 DEF Word32
<1> QED
  BY <1>7, <1>8, <1>9, Widths

(* So have the half bytes that are in no entry, or in another one.            *)
NibbleIn(t, k) == IF k % 2 = 0 THEN t[k \div 2] % 16 ELSE t[k \div 2] \div 16

LEMMA WrittenRest ==
  ASSUME format \in Formats, fat \in Table,
         NEW e \in Clusters, NEW w \in Values, NEW u, u = Put(ReadBlock(e), w),
         NEW k \in Nat, k \div 2 \in 0..(TableSize - 1),
         k \div Width # e \/ (bits = 32 /\ k % 8 = 7)
  PROVE  NibbleIn(u, k) = NibbleIn(fat, k)
<1> DEFINE v == Code(w)
<1>1. /\ v \in Nat
      /\ bits = 12 => v < 4096
      /\ bits = 32 => v < 268435456
  BY CodeFacts
<1>2. fat[Byte(e)] \in 0..255 /\ fat[Byte(e) + 1] \in 0..255 /\ (bits = 32 => fat[Byte(e) + 3] \in 0..255)
  BY ByteTable, Zenon
<1>3. e \in Nat /\ e % 2 \in {0, 1} /\ Byte(e) \in Nat
  BY MarkFacts, ByteIs
<1>4. Left(u, e)
  BY WrittenLeft
<1>5. k \div 2 \notin Bytes(e) => u[k \div 2] = fat[k \div 2]
  BY <1>4 DEF Left
<1>6. CASE k \div 2 \notin Bytes(e)
  BY <1>5, <1>6 DEF NibbleIn
<1> HIDE DEF v
<1>7. CASE k \div 2 \in Bytes(e) /\ bits = 12
  <2>1. Bytes(e) = Byte(e) .. Byte(e) + 1 /\ Byte(e) = e + (e \div 2) /\ Width = 3
    <3>1. Byte(e) = e + (e \div 2) /\ Width = 3
      BY <1>3, <1>7, ByteIs, WidthIs, Zenon
    <3> QED
      BY <1>7, <3>1 DEF Bytes
  <2>2. k \div 3 # e
    BY <1>7, <2>1
  <2>3. CASE e % 2 = 0
    <3>1. k \div 2 = Byte(e) + 1 /\ k % 2 # 0
      BY <1>3, <1>7, <2>1, <2>2, <2>3
    <3>2. u[Byte(e) + 1] = (fat[Byte(e) + 1] \div 16) * 16 + (v \div 256)
      BY <1>7, <2>3, PutEven DEF v
    <3>3. u[Byte(e) + 1] \div 16 = fat[Byte(e) + 1] \div 16
      BY <1>1, <1>2, <1>7, <3>2, JoinEven
    <3> QED
      BY <3>1, <3>3 DEF NibbleIn
  <2>4. CASE e % 2 = 1
    <3>1. k \div 2 = Byte(e) /\ k % 2 = 0
      BY <1>3, <1>7, <2>1, <2>2, <2>4
    <3>2. u[Byte(e)] = ((v * 16) % 256) + (fat[Byte(e)] % 16)
      BY <1>7, <2>4, PutOdd DEF v
    <3>3. u[Byte(e)] % 16 = fat[Byte(e)] % 16
      BY <1>1, <1>2, <1>7, <3>2, JoinOdd
    <3> QED
      BY <3>1, <3>3 DEF NibbleIn
  <2> QED
    BY <1>3, <2>3, <2>4
<1>8. CASE k \div 2 \in Bytes(e) /\ bits = 16
  <2>1. Bytes(e) = Byte(e) .. Byte(e) + 1 /\ Byte(e) = 2 * e /\ Width = 4
    BY <1>3, <1>8, ByteIs, WidthIs DEF Bytes
  <2>2. k \div 4 = e
    BY <1>3, <1>8, <2>1
  <2> QED
    BY <1>8, <2>1, <2>2
<1>9. CASE k \div 2 \in Bytes(e) /\ bits = 32
  <2>1. Bytes(e) = Byte(e) .. Byte(e) + 3 /\ Byte(e) = 4 * e /\ Width = 8
    BY <1>3, <1>9, ByteIs, WidthIs DEF Bytes
  <2>2. k \div 8 = e
    BY <1>3, <1>9, <2>1
  <2>3. k % 8 = 7
    BY <1>9, <2>1, <2>2
  <2>4. k \div 2 = Byte(e) + 3 /\ k % 2 # 0
    BY <1>3, <2>1, <2>2, <2>3
  <2>5. u[Byte(e) + 3] = (fat[Byte(e) + 3] \div 16) * 16 + (v \div 16777216)
    BY <1>9, Put32 DEF v
  <2>6. u[Byte(e) + 3] \div 16 = fat[Byte(e) + 3] \div 16
    BY <1>1, <1>2, <1>9, <2>5, Join32
  <2> QED
    BY <2>4, <2>6 DEF NibbleIn
<1> QED
  BY <1>6, <1>7, <1>8, <1>9, Widths

LEMMA InBlocks ==
  ASSUME format \in Formats, NEW e \in Nat
  PROVE  /\ Blocknr(e) \in ToSet(Blocks(e))
         /\ Crosses(e) => Blocknr(e) + 1 \in ToSet(Blocks(e))
<1>1. 1 \in DOMAIN Blocks(e) /\ Blocks(e)[1] = Blocknr(e)
  BY BlocksFacts
<1>2. Crosses(e) => 2 \in DOMAIN Blocks(e) /\ Blocks(e)[2] = Blocknr(e) + 1
  BY BlocksFacts
<1> QED
  BY <1>1, <1>2 DEF ToSet

(* What is written is in the entry's blocks.                                  *)
LEMMA WrittenBlocks ==
  ASSUME format \in Formats, NEW e \in Clusters, NEW k \in Bytes(e)
  PROVE  k \div blksz \in ToSet(Blocks(e))
<1>1. e \in Nat /\ Byte(e) \in Nat /\ blksz \in Nat \ {0}
  BY MarkFacts, ByteIs, BlockSize
<1>2. Byte(e) \div blksz = Blocknr(e)
  BY DEF Blocknr
<1>3. CASE bits = 12
  <2>1. k \in Byte(e) .. Byte(e) + 1
    BY <1>3 DEF Bytes
  <2>2. CASE k = Byte(e)
    BY <1>1, <1>2, <2>2, InBlocks
  <2>3. CASE k = Byte(e) + 1 /\ Crosses(e)
    <3>1. /\ Offset(e) = blksz - 1 /\ Blocks(e)[2] = Blocknr(e) + 1 /\ Len(Blocks(e)) = 2
      BY <1>1, <2>3, BlocksFacts
    <3>2. Blocknr(e) \in Nat /\ Byte(e) = Blocknr(e) * blksz + Offset(e)
      BY <1>1, Place
    <3>3. (Blocknr(e) + 1) * blksz = Blocknr(e) * blksz + blksz /\ Blocknr(e) * blksz \in Nat
      BY <1>1, Place
    <3>4. k = (Blocknr(e) + 1) * blksz
      BY <1>1, <2>3, <3>1, <3>2, <3>3
    <3>5. k \div blksz = Blocknr(e) + 1
      BY <1>1, <3>2, <3>3, <3>4, DivIs
    <3> QED
      BY <1>1, <2>3, <3>5, InBlocks
  <2>4. CASE k = Byte(e) + 1 /\ ~Crosses(e)
    <3>1. Blocknr(e) \in Nat /\ Byte(e) = Blocknr(e) * blksz + Offset(e) /\ Offset(e) \in 0..(blksz - 1)
      BY <1>1, Place
    <3>2. Offset(e) + 1 < blksz
      BY <1>1, <1>3, <2>4, <3>1 DEF Crosses
    <3>3. Blocknr(e) * blksz \in Nat
      BY <1>1, Place
    <3>4. k \in Nat /\ Blocknr(e) * blksz <= k /\ k < Blocknr(e) * blksz + blksz
      BY <1>1, <2>4, <3>1, <3>2, <3>3
    <3>5. k \div blksz = Blocknr(e)
      BY <1>1, <3>1, <3>4, DivIs
    <3> QED
      BY <1>1, <3>5, InBlocks
  <2> QED
    BY <1>1, <2>1, <2>2, <2>3, <2>4
<1>4. CASE bits # 12
  <2> DEFINE n == IF bits = 16 THEN 2 ELSE 4
             i == k - Byte(e)
  <2>1. n \in {2, 4} /\ Byte(e) = n * e /\ i \in 0..(n - 1) /\ k = n * e + i
    <3>1. CASE bits = 16
      BY <1>1, <3>1, ByteIs DEF Bytes
    <3>2. CASE bits = 32
      <4>1. Byte(e) = 4 * e
        BY <1>1, <3>2, ByteIs, Zenon
      <4> QED
        BY <1>1, <3>2, <4>1 DEF Bytes
    <3> QED
      BY <1>4, <3>1, <3>2, Widths
  <2> HIDE DEF n, i
  <2>2. blksz % 4 = 0
    BY FormatFacts
  <2>3. k \div blksz = Blocknr(e)
    <3>1. (n * e + i) \div blksz = (n * e) \div blksz
      BY <1>1, <2>1, <2>2, InGroup
    <3> QED
      BY <1>2, <2>1, <3>1
  <2> QED
    BY <1>1, <2>3, InBlocks
<1> QED
  BY <1>3, <1>4

-----------------------------------------------------------------------------
(* The first table.                                                           *)

FirstTable(s) == [b \in 0 .. TableSize - 1 |-> FirstNibble(2 * b, s) + 16 * FirstNibble(2 * b + 1, s)]

LEMMA NibbleFacts ==
  ASSUME NEW k, NEW s
  PROVE  FirstNibble(k, s) \in 0..15
BY DEF FirstNibble

LEMMA FirstInTable ==
  ASSUME NEW s
  PROVE  FirstTable(s) \in Table
<1> SUFFICES ASSUME NEW b \in 0 .. TableSize - 1
             PROVE  FirstNibble(2 * b, s) + 16 * FirstNibble(2 * b + 1, s) \in 0..255
  BY DEF FirstTable, Table
<1>1. FirstNibble(2 * b, s) \in 0..15 /\ FirstNibble(2 * b + 1, s) \in 0..15
  BY NibbleFacts
<1> QED
  BY <1>1

(* The half bytes of an entry.                                                *)
LEMMA NibbleOf ==
  ASSUME format \in Formats, NEW s, NEW e \in Clusters, NEW k \in Nat, k \div Width = e,
         ~(bits = 32 /\ k % 8 = 7)
  PROVE  FirstNibble(k, s) = IF \E p \in Files : s[p] = e THEN 15 ELSE 0
<1>1. ~(e < START)
  BY MarkFacts DEF START
<1> QED
  BY <1>1 DEF FirstNibble

LEMMA FirstByte ==
  ASSUME NEW s, NEW b \in 0..(TableSize - 1)
  PROVE  FirstTable(s)[b] = FirstNibble(2 * b, s) + 16 * FirstNibble(2 * b + 1, s)
BY DEF FirstTable

LEMMA FirstValue ==
  ASSUME format \in Formats, NEW s, NEW e \in Clusters
  PROVE  ValueIn(FirstTable(s), e) = IF \E p \in Files : s[p] = e THEN EOF ELSE FREE
<1> DEFINE t == FirstTable(s)
           x == IF \E p \in Files : s[p] = e THEN 15 ELSE 0
           B == Byte(e)
<1>1. e \in Nat /\ B \in Nat /\ e % 2 \in {0, 1}
  BY MarkFacts, ByteIs
<1>2. \A k \in Nat : k \div Width = e /\ ~(bits = 32 /\ k % 8 = 7) => FirstNibble(k, s) = x
  BY NibbleOf
<1>3. /\ B \in 0..(TableSize - 1) /\ B + 1 \in 0..(TableSize - 1)
      /\ bits = 32 => B + 2 \in 0..(TableSize - 1) /\ B + 3 \in 0..(TableSize - 1)
  BY InTable, Zenon
<1>4. \A b \in 0..(TableSize - 1) : t[b] = FirstNibble(2 * b, s) + 16 * FirstNibble(2 * b + 1, s)
  BY FirstByte
<1>5. x \in {0, 15} /\ (x = 15 <=> \E p \in Files : s[p] = e)
  OBVIOUS
<1>6. \A k : FirstNibble(k, s) \in 0..15
  BY NibbleFacts
<1>7. Eof \in Nat /\ Bad = Eof - 8 /\ Bad \in Nat /\ Bad > 2 /\ FREE = 0
  BY MarkFacts
<1> HIDE DEF t, x, B
<1>8. \E v : ValueIn(t, e) = Mark(v) /\ (x = 15 => v = Eof) /\ (x = 0 => v = 0)
  <2>1. CASE bits = 12
    <3>1. B = e + (e \div 2) /\ Width = 3
      BY <1>1, <2>1, ByteIs, WidthIs, Zenon DEF B
    <3>2. Eof = 4095
      BY <2>1 DEF Eof
    <3>3. CASE e % 2 = 0
      <4>1. (2 * B) \div 3 = e /\ (2 * B + 1) \div 3 = e /\ (2 * (B + 1)) \div 3 = e /\ 2 * B \in Nat
        BY <1>1, <3>1, <3>3
      <4>2. FirstNibble(2 * B, s) = x /\ FirstNibble(2 * B + 1, s) = x /\ FirstNibble(2 * (B + 1), s) = x
        BY <1>1, <1>2, <2>1, <3>1, <4>1
      <4>3. t[B] = x + 16 * x /\ t[B + 1] = x + 16 * FirstNibble(2 * (B + 1) + 1, s)
        BY <1>3, <1>4, <4>2
      <4>4. t[B] + 256 * (t[B + 1] % 16) = x + 16 * x + 256 * x
        BY <1>5, <1>6, <4>3
      <4>5. ValueIn(t, e) = Mark(x + 16 * x + 256 * x)
        BY <2>1, <3>3, <4>4, ValueEven DEF B
      <4> QED
        BY <1>5, <3>2, <4>5
    <3>4. CASE e % 2 = 1
      <4>1. /\ (2 * B + 1) \div 3 = e /\ (2 * (B + 1)) \div 3 = e /\ (2 * (B + 1) + 1) \div 3 = e
        BY <1>1, <3>1, <3>4
      <4>2. FirstNibble(2 * B + 1, s) = x /\ FirstNibble(2 * (B + 1), s) = x /\ FirstNibble(2 * (B + 1) + 1, s) = x
        BY <1>1, <1>2, <2>1, <3>1, <4>1
      <4>3. t[B] = FirstNibble(2 * B, s) + 16 * x /\ t[B + 1] = x + 16 * x
        BY <1>3, <1>4, <4>2
      <4>4. (t[B] \div 16) + 16 * t[B + 1] = x + 16 * x + 256 * x
        BY <1>5, <1>6, <4>3
      <4>5. ValueIn(t, e) = Mark(x + 16 * x + 256 * x)
        BY <2>1, <3>4, <4>4, ValueOdd DEF B
      <4> QED
        BY <1>5, <3>2, <4>5
    <3> QED
      BY <1>1, <3>3, <3>4
  <2>2. CASE bits = 16
    <3>1. B = 2 * e /\ Width = 4
      BY <1>1, <2>2, ByteIs, WidthIs, Zenon DEF B
    <3>2. Eof = 65535
      BY <2>2 DEF Eof
    <3>3. /\ (2 * B) \div 4 = e /\ (2 * B + 1) \div 4 = e
          /\ (2 * (B + 1)) \div 4 = e /\ (2 * (B + 1) + 1) \div 4 = e
      BY <1>1, <3>1
    <3>4. /\ FirstNibble(2 * B, s) = x /\ FirstNibble(2 * B + 1, s) = x
          /\ FirstNibble(2 * (B + 1), s) = x /\ FirstNibble(2 * (B + 1) + 1, s) = x
      BY <1>1, <1>2, <2>2, <3>1, <3>3
    <3>5. t[B] = x + 16 * x /\ t[B + 1] = x + 16 * x
      BY <1>3, <1>4, <3>4
    <3>6. ValueIn(t, e) = Mark(x + 16 * x + 256 * (x + 16 * x))
      BY <2>2, <3>5, Value16 DEF B, Word16
    <3> QED
      BY <1>5, <3>2, <3>6
  <2>3. CASE bits = 32
    <3>1. B = 4 * e /\ Width = 8
      BY <1>1, <2>3, ByteIs, WidthIs, Zenon DEF B
    <3>2. Eof = 268435455
      BY <2>3 DEF Eof, EOF
    <3>3. \A i \in 0..6 : (2 * B + i) \div 8 = e /\ (2 * B + i) % 8 # 7 /\ 2 * B + i \in Nat
      BY <1>1, <3>1
    <3>4. \A i \in 0..6 : FirstNibble(2 * B + i, s) = x
      BY <1>2, <3>1, <3>3
    <3>5. /\ 2 * B = 2 * B + 0 /\ 2 * (B + 1) = 2 * B + 2 /\ 2 * (B + 1) + 1 = 2 * B + 3
          /\ 2 * (B + 2) = 2 * B + 4 /\ 2 * (B + 2) + 1 = 2 * B + 5 /\ 2 * (B + 3) = 2 * B + 6
      BY <1>1
    <3>6. /\ FirstNibble(2 * B, s) = x /\ FirstNibble(2 * B + 1, s) = x
          /\ FirstNibble(2 * (B + 1), s) = x /\ FirstNibble(2 * (B + 1) + 1, s) = x
          /\ FirstNibble(2 * (B + 2), s) = x /\ FirstNibble(2 * (B + 2) + 1, s) = x
          /\ FirstNibble(2 * (B + 3), s) = x
      BY <3>4, <3>5
    <3>7. /\ t[B] = x + 16 * x /\ t[B + 1] = x + 16 * x /\ t[B + 2] = x + 16 * x
          /\ t[B + 3] = x + 16 * FirstNibble(2 * (B + 3) + 1, s)
      BY <1>3, <1>4, <2>3, <3>6
    <3>8. t[B + 3] % 16 = x
      BY <1>5, <1>6, <3>7
    <3>9. ValueIn(t, e) = Mark(x + 16 * x + 256 * (x + 16 * x) + 65536 * (x + 16 * x) + 16777216 * x)
      BY <2>3, <3>7, <3>8, Value32 DEF B, Word32
    <3> QED
      BY <1>5, <3>2, <3>9
  <2> QED
    BY <2>1, <2>2, <2>3, Widths
<1>9. Mark(Eof) = EOF /\ Mark(0) = FREE
  BY <1>7 DEF Mark
<1> QED
  BY <1>5, <1>8, <1>9 DEF t

(* The domain of a table, as Rest has it.                                     *)
LEMMA TableDomain ==
  ASSUME format \in Formats, NEW t \in Table
  PROVE  Cardinality(DOMAIN t) = TableSize
<1>1. TableSize \in Nat
  BY TableFacts
<1>2. DOMAIN t = 0..(TableSize - 1)
  BY DEF Table
<1>3. Cardinality(0..(TableSize - 1)) = IF 0 > TableSize - 1 THEN 0 ELSE (TableSize - 1) - 0 + 1
  BY <1>1, FS_Interval
<1> QED
  BY <1>1, <1>2, <1>3

-----------------------------------------------------------------------------
(* The invariant: the local variables.                                        *)

Allocating == {"a_block", "a_scan", "a_take", "full"}
Walking    == {"w_read", "l_write"}
Freeing    == {"f_lock", "f_read", "f_collect"}
Counting   == {"c_block", "c_scan"}
Thens      == {"idle", "w_read", "f_lock", "f_collect", "unlock"}
Pcs        == Allocating \cup Walking \cup Freeing \cup Counting \cup {"idle", "unlock", "mirror"}

(* Where a process is when it has copied its blocks.                          *)
Pc(me)    == IF me.pc = "mirror" THEN me.then ELSE me.pc
Locked(me) == Pc(me) \in Allocating \cup Counting \cup {"f_read", "f_collect", "unlock"}

Entries == [entry : Nat, bhs : Seq(Nat), ptr : Seq(Nat)]
Locals  == [pc : Pcs, fe : Entries, prev : Entries, n : Nat, nr : Nat, taken : Seq(Clusters),
            bhs : Seq(Nat), then : Thens, cl : Clusters \cup {0, EOF}]

(* What a process that holds the blocks of an entry has.                      *)
Rights   == {ReadBlock(e) : e \in Clusters}
BlocksAt == [e \in Clusters |-> Blocks(e)]

LocalOK(R, bufs, me) ==
  /\ Len(me.bhs) <= bufs
  /\ me.pc \in {"a_scan", "a_take", "c_scan"} \/ Pc(me) = "f_collect" => me.fe \in R
  /\ Pc(me) \in {"w_read", "l_write", "f_lock", "f_read"} => me.fe.bhs = <<>> \/ me.fe \in R
  /\ me.pc \in {"a_block", "c_block"} => me.fe.entry \in START .. max_cluster
  /\ me.pc = "a_block" => me.n \in START .. max_cluster
  /\ me.pc \in {"a_scan", "a_take"} => me.n \in Clusters
  /\ me.pc \in Allocating =>
       /\ Len(me.taken) < me.nr /\ 2 * me.nr <= bufs /\ Len(me.bhs) <= 2 * Len(me.taken)
       /\ IF me.taken = <<>> THEN me.prev.bhs = <<>> ELSE me.prev \in R
  /\ Pc(me) \in Walking => me.cl \in Clusters /\ me.taken # <<>>
  /\ Pc(me) \in {"f_lock", "f_read"} => me.cl \in Clusters
  /\ Pc(me) = "f_collect" => me.cl \in Clusters \cup {EOF}
  /\ me.pc \in Walking \cup Counting \cup {"idle", "f_lock", "unlock"} => me.bhs = <<>>

Types ==
  /\ format \in Formats
  /\ fat \in Table /\ backup \in Table
  /\ start \in Starts
  /\ fat_lock \in Files \cup {NoProc}
  /\ prev_free \in Clusters
  /\ proc \in [Files -> Locals]
  /\ \A p \in Files : LocalOK(Rights, format.bufs, proc[p]) /\ (fat_lock = p <=> Locked(proc[p]))

-----------------------------------------------------------------------------
(* The invariant: whose an entry is.                                          *)

Nobody == <<NoProc, "file">>
Owners == (Files \cup {NoProc}) \X {"file", "new", "fresh"}

(* What a process is about to do to the chains: the first of the clusters it   *)
(* adds or frees, the one it has just taken, the last it has added, where it   *)
(* walks, and the end it has found.                                            *)
View(me) ==
  [head  |-> IF Pc(me) \in Allocating \cup Walking /\ me.taken # <<>> THEN me.taken[1]
             ELSE IF Pc(me) \in Freeing THEN me.cl ELSE 0,
   fresh |-> IF me.pc = "a_take" THEN me.fe.entry ELSE 0,
   last  |-> IF me.pc \in Allocating /\ me.taken # <<>> THEN me.prev.entry ELSE 0,
   walk  |-> IF Pc(me) \in Walking THEN me.cl ELSE 0,
   end   |-> IF me.pc = "l_write" THEN me.cl ELSE 0]

Views == [p \in Files |-> View(proc[p])]
Nxt   == [e \in Clusters |-> Value(e)]

Root(t, own, c, who) == c \in Clusters /\ own[c] = who /\ \A d \in Clusters : t[d] # c

OwnedBy(t, own, s, v, p) ==
  /\ Root(t, own, s, <<p, "file">>)
  /\ v.head \in Clusters => Root(t, own, v.head, <<p, "new">>)
  /\ v.fresh \in Clusters => Root(t, own, v.fresh, <<p, "fresh">>) /\ t[v.fresh] = EOF
  /\ v.last \in Clusters => own[v.last] = <<p, "new">> /\ t[v.last] = EOF
  /\ v.walk \in Clusters => own[v.walk] = <<p, "file">>
  /\ v.end \in Clusters => v.end = v.walk /\ t[v.end] = EOF

Owned(t, own, rank, s, V) ==
  /\ t \in [Clusters -> Values] /\ own \in [Clusters -> Owners] /\ rank \in [Clusters -> Nat]
  /\ \A e \in Clusters : t[e] = FREE <=> own[e] = Nobody
  /\ \A e \in Clusters : t[e] \in Clusters => own[t[e]] = own[e] /\ rank[e] < rank[t[e]]
  /\ \A d, e \in Clusters : t[d] = t[e] /\ t[d] \in Clusters => d = e
  /\ \A p \in Files : OwnedBy(t, own, s[p], V[p], p)
  /\ \A c \in Clusters : own[c] # Nobody =>
       \/ \E d \in Clusters : t[d] = c
       \/ \E p \in Files : c \in {s[p], V[p].head, V[p].fresh}

-----------------------------------------------------------------------------
(* The invariant: what a search has seen.                                     *)

FreeIn(t) == {e \in Clusters : t[e] = FREE}

(* The entries before e, going round, that a search has looked at.            *)
Seen(c, e, n) == (c < e /\ c >= e - (n - START)) \/ c >= e + max_cluster - n

Sought(t, me) ==
  /\ me.pc \in {"a_block", "a_scan", "a_take"} =>
       \A c \in Clusters : Seen(c, me.fe.entry, me.n) => t[c] # FREE
  /\ me.pc = "a_block" /\ me.n = max_cluster => FreeIn(t) = {}
  /\ me.pc = "full" => Cardinality(FreeIn(t)) + Len(me.taken) < me.nr
  /\ me.pc \in Counting => me.n = Cardinality({c \in FreeIn(t) : c < me.fe.entry})

Searching ==
  /\ \A p \in Files : Sought(Nxt, proc[p])
  /\ free_clus_valid \in BOOLEAN
  /\ IF free_clus_valid
     THEN free_clusters = Cardinality(FreeIn(Nxt)) + (IF \E p \in Files : At(p, "a_take") THEN 1 ELSE 0)
     ELSE free_clusters = -1

-----------------------------------------------------------------------------
(* The invariant: the second table.                                           *)

(* The blocks of the clusters that a process adds or frees.                   *)
ClassBlocks(B, own, p) == UNION {ToSet(B[c]) : c \in {d \in Clusters : own[d] = <<p, "new">>}}

(* The blocks that a process is going to copy.                                *)
Dirty(B, own, me, p) ==
  ToSet(me.bhs)
  \cup (IF me.pc = "a_take" \/ Pc(me) = "f_collect" THEN ToSet(me.fe.bhs) ELSE {})
  \cup (IF Pc(me) \in Freeing THEN ClassBlocks(B, own, p) ELSE {})

Mirrored(own) ==
  /\ \A p \in Files : proc[p].pc \in Allocating => ToSet(proc[p].bhs) = ClassBlocks(BlocksAt, own, p)
  /\ \A k \in 0..(TableSize - 1) : backup[k] # fat[k] =>
       \E p \in Files : k \div blksz \in Dirty(BlocksAt, own, proc[p], p)

Inv ==
  /\ Types
  /\ Searching
  /\ \E own, rank : Owned(Nxt, own, rank, start, Views) /\ Mirrored(own)

-----------------------------------------------------------------------------
(* How the ownership of entries changes.                                      *)

LEMMA OwnFacts ==
  ASSUME format \in Formats
  PROVE  /\ FREE \notin Clusters /\ EOF \notin Clusters /\ EOF # FREE /\ 0 \notin Clusters
         /\ \A p \in Files : /\ p # NoProc
                             /\ <<p, "file">> \in Owners /\ <<p, "new">> \in Owners /\ <<p, "fresh">> \in Owners
                             /\ <<p, "file">> # Nobody /\ <<p, "new">> # Nobody /\ <<p, "fresh">> # Nobody
                             /\ <<p, "file">> # <<p, "new">> /\ <<p, "file">> # <<p, "fresh">>
                             /\ <<p, "new">> # <<p, "fresh">>
         /\ \A p, q \in Files : p # q =>
              /\ <<p, "file">> # <<q, "file">> /\ <<p, "file">> # <<q, "new">> /\ <<p, "file">> # <<q, "fresh">>
              /\ <<p, "new">> # <<q, "file">> /\ <<p, "new">> # <<q, "new">> /\ <<p, "new">> # <<q, "fresh">>
              /\ <<p, "fresh">> # <<q, "file">> /\ <<p, "fresh">> # <<q, "new">> /\ <<p, "fresh">> # <<q, "fresh">>
         /\ Nobody \in Owners
         /\ EOF \in Values /\ FREE \in Values /\ Clusters \subseteq Values
<1>1. FREE \notin Clusters /\ EOF \notin Clusters /\ EOF # FREE /\ 0 \notin Clusters
  BY MarkFacts
<1> QED
  BY <1>1, NoProcAssumption DEF Owners, Nobody, Values

(* Only what a process is about to do changes.                                *)
LEMMA OwnKeep ==
  ASSUME NEW t, NEW own, NEW rank, NEW s, NEW V, Owned(t, own, rank, s, V),
         NEW W, NEW p \in Files, \A q \in Files : q # p => W[q] = V[q],
         OwnedBy(t, own, s[p], W[p], p),
         \A c \in Clusters : c \in {V[p].head, V[p].fresh} => c \in {W[p].head, W[p].fresh}
  PROVE  Owned(t, own, rank, s, W)
<1>1. \A q \in Files : OwnedBy(t, own, s[q], W[q], q)
  BY DEF Owned
<1>2. ASSUME NEW c \in Clusters, own[c] # Nobody, \A d \in Clusters : t[d] # c
      PROVE  \E q \in Files : c \in {s[q], W[q].head, W[q].fresh}
  <2>1. PICK q \in Files : c \in {s[q], V[q].head, V[q].fresh}
    BY <1>2 DEF Owned
  <2>2. CASE q = p
    BY <2>1, <2>2
  <2>3. CASE q # p
    BY <2>1, <2>3
  <2> QED
    BY <2>2, <2>3
<1> QED
  BY <1>1, <1>2 DEF Owned

(* Only p's turn.                                                             *)
Turn(V, W, p) == \A q \in Files : q # p => W[q] = V[q]

Idles(v) == v.fresh \notin Clusters /\ v.last \notin Clusters /\ v.walk \notin Clusters /\ v.end \notin Clusters

(* An entry that is free is taken.                                            *)
LEMMA OwnTake ==
  ASSUME format \in Formats,
         NEW t, NEW own, NEW rank, NEW s, NEW V, Owned(t, own, rank, s, V),
         NEW W, NEW p \in Files, Turn(V, W, p),
         NEW e \in Clusters, t[e] = FREE,
         V[p].fresh \notin Clusters, W[p].fresh = e, W[p].head = V[p].head, W[p].last = V[p].last,
         W[p].walk \notin Clusters, W[p].end \notin Clusters
  PROVE  Owned([t EXCEPT ![e] = EOF], [own EXCEPT ![e] = <<p, "fresh">>], rank, s, W)
<1> USE DEF Turn
<1> DEFINE who == <<p, "fresh">>
           u   == [t EXCEPT ![e] = EOF]
           o   == [own EXCEPT ![e] = who]
<1>0. /\ t \in [Clusters -> Values] /\ own \in [Clusters -> Owners] /\ rank \in [Clusters -> Nat]
      /\ \A d \in Clusters : t[d] = FREE <=> own[d] = Nobody
      /\ \A d \in Clusters : t[d] \in Clusters => own[t[d]] = own[d] /\ rank[d] < rank[t[d]]
      /\ \A c, d \in Clusters : t[c] = t[d] /\ t[c] \in Clusters => c = d
      /\ \A q \in Files : OwnedBy(t, own, s[q], V[q], q)
      /\ \A c \in Clusters : own[c] # Nobody =>
           \/ \E d \in Clusters : t[d] = c
           \/ \E q \in Files : c \in {s[q], V[q].head, V[q].fresh}
  BY DEF Owned
<1>1. own[e] = Nobody /\ who \in Owners /\ who # Nobody /\ EOF \in Values /\ EOF # FREE /\ EOF \notin Clusters /\ FREE \notin Clusters
  BY <1>0, OwnFacts, Zenon
<1>2. \A d \in Clusters : t[d] # e
  BY <1>0, <1>1
<1>3. /\ u \in [Clusters -> Values] /\ u[e] = EOF /\ \A d \in Clusters : d # e => u[d] = t[d]
      /\ o \in [Clusters -> Owners] /\ o[e] = who /\ \A d \in Clusters : d # e => o[d] = own[d]
  BY <1>0, <1>1
<1> HIDE DEF u, o, who
<1>4. \A d \in Clusters : u[d] = FREE <=> o[d] = Nobody
  <2> TAKE d \in Clusters
  <2>1. CASE d = e
    BY <1>1, <1>3, <2>1
  <2>2. CASE d # e
    BY <1>0, <1>3, <2>2
  <2> QED
    BY <2>1, <2>2
<1>5. \A d \in Clusters : u[d] \in Clusters => o[u[d]] = o[d] /\ rank[d] < rank[u[d]]
  <2> TAKE d \in Clusters
  <2> HAVE u[d] \in Clusters
  <2>1. d # e /\ u[d] = t[d] /\ t[d] # e
    BY <1>1, <1>2, <1>3
  <2> QED
    BY <1>0, <1>3, <2>1
<1>6. \A c, d \in Clusters : u[c] = u[d] /\ u[c] \in Clusters => c = d
  BY <1>0, <1>1, <1>3
<1>7. \A c \in Clusters : c # e /\ (\A d \in Clusters : t[d] # c) => \A d \in Clusters : u[d] # c
  <2> TAKE c \in Clusters
  <2> HAVE c # e /\ \A d \in Clusters : t[d] # c
  <2> TAKE d \in Clusters
  <2>1. CASE d = e
    BY <1>1, <1>3, <2>1
  <2>2. CASE d # e
    BY <1>3, <2>2
  <2> QED
    BY <2>1, <2>2
<1>8. \A c \in Clusters, w \in Owners : Root(t, own, c, w) /\ w # Nobody => Root(u, o, c, w) /\ c # e
  BY <1>1, <1>3, <1>7, Zenon DEF Root
<1>9. ASSUME NEW q \in Files PROVE OwnedBy(u, o, s[q], W[q], q)
  <2>0. /\ OwnedBy(t, own, s[q], V[q], q)
        /\ <<q, "file">> \in Owners /\ <<q, "new">> \in Owners /\ <<q, "fresh">> \in Owners
        /\ <<q, "file">> # Nobody /\ <<q, "new">> # Nobody /\ <<q, "fresh">> # Nobody
    BY <1>0, OwnFacts, Zenon
  <2>1. Root(u, o, s[q], <<q, "file">>)
    BY <1>8, <2>0 DEF OwnedBy, Root
  <2>2. W[q].head \in Clusters => Root(u, o, W[q].head, <<q, "new">>)
    BY <1>8, <2>0 DEF OwnedBy
  <2>3. W[q].fresh \in Clusters => Root(u, o, W[q].fresh, <<q, "fresh">>) /\ u[W[q].fresh] = EOF
    <3>1. CASE q = p
      <4>1. \A d \in Clusters : u[d] # e
        BY <1>1, <1>2, <1>3
      <4> QED
        BY <1>3, <3>1, <4>1 DEF Root, who
    <3>2. CASE q # p
      <4>1. W[q].fresh \in Clusters => Root(t, own, W[q].fresh, <<q, "fresh">>) /\ t[W[q].fresh] = EOF
        BY <2>0, <3>2 DEF OwnedBy
      <4> QED
        BY <1>3, <1>8, <2>0, <4>1
    <3> QED
      BY <3>1, <3>2
  <2>4. W[q].last \in Clusters => o[W[q].last] = <<q, "new">> /\ u[W[q].last] = EOF
    BY <1>1, <1>3, <2>0 DEF OwnedBy
  <2>5. W[q].walk \in Clusters => o[W[q].walk] = <<q, "file">>
    BY <1>1, <1>3, <2>0 DEF OwnedBy
  <2>6. W[q].end \in Clusters => W[q].end = W[q].walk /\ u[W[q].end] = EOF
    BY <1>1, <1>3, <2>0 DEF OwnedBy
  <2> QED
    BY <2>1, <2>2, <2>3, <2>4, <2>5, <2>6 DEF OwnedBy
<1>10. \A c \in Clusters : o[c] # Nobody =>
         \/ \E d \in Clusters : u[d] = c
         \/ \E q \in Files : c \in {s[q], W[q].head, W[q].fresh}
  <2> TAKE c \in Clusters
  <2> HAVE o[c] # Nobody
  <2>1. CASE c = e
    BY <2>1
  <2>2. CASE c # e
    <3>1. own[c] # Nobody
      BY <1>3, <2>2
    <3>2. CASE \E d \in Clusters : t[d] = c
      <4>1. PICK d \in Clusters : t[d] = c
        BY <3>2
      <4>2. d # e
        BY <1>1, <4>1
      <4> QED
        BY <1>3, <4>1, <4>2
    <3>3. CASE \E q \in Files : c \in {s[q], V[q].head, V[q].fresh}
      <4>1. PICK q \in Files : c \in {s[q], V[q].head, V[q].fresh}
        BY <3>3
      <4>2. c \in {s[q], W[q].head, W[q].fresh}
        <5>1. CASE q = p
          BY <4>1, <5>1
        <5>2. CASE q # p
          BY <4>1, <5>2
        <5> QED
          BY <5>1, <5>2
      <4> QED
        BY <4>2
    <3> QED
      BY <1>0, <3>1, <3>2, <3>3
  <2> QED
    BY <2>1, <2>2
<1>11. rank \in [Clusters -> Nat]
  BY <1>0
<1>12. Owned(u, o, rank, s, W)
  BY <1>3, <1>4, <1>5, <1>6, <1>9, <1>10, <1>11, Zenon DEF Owned
<1> QED
  BY <1>12 DEF u, o, who

(* An entry that was taken is the first of the new ones.                      *)
LEMMA OwnFirst ==
  ASSUME format \in Formats,
         NEW t, NEW own, NEW rank, NEW s, NEW V, Owned(t, own, rank, s, V),
         NEW W, NEW p \in Files, Turn(V, W, p),
         NEW e \in Clusters, V[p].fresh = e, V[p].head \notin Clusters,
         W[p].head = e, W[p].fresh \notin Clusters, W[p].last \in Clusters => W[p].last = e,
         W[p].walk \in Clusters => W[p].walk = s[p], W[p].end \notin Clusters
  PROVE  Owned(t, [own EXCEPT ![e] = <<p, "new">>], rank, s, W)
<1> USE DEF Turn
<1> DEFINE who == <<p, "new">>
           o   == [own EXCEPT ![e] = who]
<1>0. /\ t \in [Clusters -> Values] /\ own \in [Clusters -> Owners] /\ rank \in [Clusters -> Nat]
      /\ \A d \in Clusters : t[d] = FREE <=> own[d] = Nobody
      /\ \A d \in Clusters : t[d] \in Clusters => own[t[d]] = own[d] /\ rank[d] < rank[t[d]]
      /\ \A c, d \in Clusters : t[c] = t[d] /\ t[c] \in Clusters => c = d
      /\ \A q \in Files : OwnedBy(t, own, s[q], V[q], q)
      /\ \A c \in Clusters : own[c] # Nobody =>
           \/ \E d \in Clusters : t[d] = c
           \/ \E q \in Files : c \in {s[q], V[q].head, V[q].fresh}
  BY DEF Owned
<1>1. /\ own[e] = <<p, "fresh">> /\ t[e] = EOF /\ \A d \in Clusters : t[d] # e
      /\ who \in Owners /\ who # Nobody /\ own[e] # Nobody /\ EOF \notin Clusters /\ EOF # FREE
  BY <1>0, OwnFacts DEF OwnedBy, Root
<1>2. \A q \in Files : /\ <<q, "file">> # own[e] /\ <<q, "new">> # own[e]
                       /\ q # p => <<q, "fresh">> # own[e]
  BY <1>1, OwnFacts
<1>3. o \in [Clusters -> Owners] /\ o[e] = who /\ \A d \in Clusters : d # e => o[d] = own[d]
  BY <1>0, <1>1
<1> HIDE DEF o, who
<1>4. \A d \in Clusters : t[d] = FREE <=> o[d] = Nobody
  BY <1>0, <1>1, <1>3
<1>5. \A d \in Clusters : t[d] \in Clusters => o[t[d]] = o[d] /\ rank[d] < rank[t[d]]
  <2> TAKE d \in Clusters
  <2> HAVE t[d] \in Clusters
  <2>1. d # e /\ t[d] # e
    BY <1>1
  <2> QED
    BY <1>0, <1>3, <2>1
<1>8. \A c, w : Root(t, own, c, w) /\ w # own[e] => Root(t, o, c, w)
  BY <1>3 DEF Root
<1>9. ASSUME NEW q \in Files PROVE OwnedBy(t, o, s[q], W[q], q)
  <2>0. /\ OwnedBy(t, own, s[q], V[q], q)
        /\ <<q, "file">> # own[e] /\ <<q, "new">> # own[e] /\ (q # p => <<q, "fresh">> # own[e])
    BY <1>0, <1>2, Zenon
  <2>1. Root(t, o, s[q], <<q, "file">>)
    BY <1>8, <2>0 DEF OwnedBy
  <2>2. CASE q = p
    <3>1. Root(t, o, e, <<q, "new">>)
      BY <1>1, <1>3, <2>2 DEF Root, who
    <3>2. o[s[q]] = <<q, "file">>
      BY <2>1 DEF Root
    <3> QED
      BY <1>1, <1>3, <2>1, <2>2, <3>1, <3>2 DEF OwnedBy, who
  <2>3. CASE q # p
    <3>1. W[q] = V[q]
      BY <2>3
    <3>2. W[q].head \in Clusters => Root(t, o, W[q].head, <<q, "new">>)
      BY <1>8, <2>0, <3>1 DEF OwnedBy
    <3>3. W[q].fresh \in Clusters => Root(t, o, W[q].fresh, <<q, "fresh">>) /\ t[W[q].fresh] = EOF
      BY <1>8, <2>0, <2>3, <3>1 DEF OwnedBy
    <3>4. W[q].last \in Clusters => o[W[q].last] = <<q, "new">> /\ t[W[q].last] = EOF
      BY <1>3, <2>0, <3>1 DEF OwnedBy
    <3>5. W[q].walk \in Clusters => o[W[q].walk] = <<q, "file">>
      BY <1>3, <2>0, <3>1 DEF OwnedBy
    <3>6. W[q].end \in Clusters => W[q].end = W[q].walk /\ t[W[q].end] = EOF
      BY <2>0, <3>1 DEF OwnedBy
    <3> QED
      BY <2>1, <3>2, <3>3, <3>4, <3>5, <3>6 DEF OwnedBy
  <2> QED
    BY <2>2, <2>3
<1>10. \A c \in Clusters : o[c] # Nobody =>
         \/ \E d \in Clusters : t[d] = c
         \/ \E q \in Files : c \in {s[q], W[q].head, W[q].fresh}
  <2> TAKE c \in Clusters
  <2> HAVE o[c] # Nobody
  <2>1. CASE c = e
    BY <2>1
  <2>2. CASE c # e
    <3>1. own[c] # Nobody
      BY <1>3, <2>2
    <3>2. ASSUME NEW q \in Files, c \in {s[q], V[q].head, V[q].fresh}
          PROVE  c \in {s[q], W[q].head, W[q].fresh}
      <4>1. CASE q = p
        BY <2>2, <3>2, <4>1
      <4>2. CASE q # p
        BY <3>2, <4>2
      <4> QED
        BY <4>1, <4>2
    <3> QED
      BY <1>0, <3>1, <3>2
  <2> QED
    BY <2>1, <2>2
<1>12. Owned(t, o, rank, s, W)
  BY <1>0, <1>3, <1>4, <1>5, <1>9, <1>10, Zenon DEF Owned
<1> QED
  BY <1>12 DEF o, who

(* It is linked to the last of the new ones.                                  *)
LEMMA OwnJoin ==
  ASSUME format \in Formats,
         NEW t, NEW own, NEW rank, NEW s, NEW V, Owned(t, own, rank, s, V),
         NEW W, NEW p \in Files, Turn(V, W, p),
         NEW e \in Clusters, V[p].fresh = e, NEW l \in Clusters, V[p].last = l,
         W[p].head = V[p].head, W[p].fresh \notin Clusters, W[p].last \in Clusters => W[p].last = e,
         W[p].walk \in Clusters => W[p].walk = s[p], W[p].end \notin Clusters
  PROVE  Owned([t EXCEPT ![l] = e], [own EXCEPT ![e] = <<p, "new">>],
               [rank EXCEPT ![e] = rank[l] + 1], s, W)
<1> USE DEF Turn
<1> DEFINE who == <<p, "new">>
           u   == [t EXCEPT ![l] = e]
           o   == [own EXCEPT ![e] = who]
           r   == [rank EXCEPT ![e] = rank[l] + 1]
<1>0. /\ t \in [Clusters -> Values] /\ own \in [Clusters -> Owners] /\ rank \in [Clusters -> Nat]
      /\ \A d \in Clusters : t[d] = FREE <=> own[d] = Nobody
      /\ \A d \in Clusters : t[d] \in Clusters => own[t[d]] = own[d] /\ rank[d] < rank[t[d]]
      /\ \A c, d \in Clusters : t[c] = t[d] /\ t[c] \in Clusters => c = d
      /\ \A q \in Files : OwnedBy(t, own, s[q], V[q], q)
      /\ \A c \in Clusters : own[c] # Nobody =>
           \/ \E d \in Clusters : t[d] = c
           \/ \E q \in Files : c \in {s[q], V[q].head, V[q].fresh}
  BY DEF Owned
<1>1. /\ own[e] = <<p, "fresh">> /\ t[e] = EOF /\ \A d \in Clusters : t[d] # e
      /\ own[l] = <<p, "new">> /\ t[l] = EOF /\ l # e
      /\ who \in Owners /\ who # Nobody /\ own[e] # Nobody /\ EOF \notin Clusters /\ EOF # FREE
      /\ FREE \notin Clusters /\ e \in Values
  BY <1>0, OwnFacts DEF OwnedBy, Root
<1>2. \A q \in Files : /\ <<q, "file">> # own[e] /\ <<q, "new">> # own[e]
                       /\ q # p => <<q, "fresh">> # own[e] /\ <<q, "new">> # own[l]
                       /\ <<q, "file">> # own[l] /\ <<q, "fresh">> # own[l]
  BY <1>1, OwnFacts
<1>3. /\ o \in [Clusters -> Owners] /\ o[e] = who /\ \A d \in Clusters : d # e => o[d] = own[d]
      /\ u \in [Clusters -> Values] /\ u[l] = e /\ \A d \in Clusters : d # l => u[d] = t[d]
      /\ r \in [Clusters -> Nat] /\ r[e] = rank[l] + 1 /\ \A d \in Clusters : d # e => r[d] = rank[d]
  BY <1>0, <1>1
<1>13. who = own[l]
  BY <1>1
<1> HIDE DEF o, who, u, r
<1>4. \A d \in Clusters : u[d] = FREE <=> o[d] = Nobody
  <2> TAKE d \in Clusters
  <2>1. CASE d = e
    BY <1>1, <1>3, <2>1
  <2>2. CASE d = l
    BY <1>0, <1>1, <1>3, <2>2
  <2>3. CASE d # e /\ d # l
    BY <1>0, <1>3, <2>3
  <2> QED
    BY <2>1, <2>2, <2>3
<1>5. \A d \in Clusters : u[d] \in Clusters => o[u[d]] = o[d] /\ r[d] < r[u[d]]
  <2> TAKE d \in Clusters
  <2> HAVE u[d] \in Clusters
  <2>1. CASE d = l
    <3>1. o[u[d]] = o[d]
      BY <1>1, <1>3, <1>13, <2>1
    <3>2. r[d] < r[u[d]]
      BY <1>0, <1>1, <1>3, <2>1
    <3> QED
      BY <3>1, <3>2
  <2>2. CASE d # l
    <3>1. u[d] = t[d] /\ t[d] \in Clusters /\ d # e /\ t[d] # e
      BY <1>1, <1>3, <2>2
    <3>2. own[t[d]] = own[d] /\ rank[d] < rank[t[d]]
      BY <1>0, <3>1
    <3> QED
      BY <1>3, <3>1, <3>2
  <2> QED
    BY <2>1, <2>2
<1>6. \A c, d \in Clusters : u[c] = u[d] /\ u[c] \in Clusters => c = d
  <2> TAKE c, d \in Clusters
  <2> HAVE u[c] = u[d] /\ u[c] \in Clusters
  <2>0. u[l] = e /\ (\A x \in Clusters : x # l => u[x] = t[x]) /\ (\A x \in Clusters : t[x] # e)
    BY <1>1, <1>3
  <2>1. CASE c = l
    BY <2>0, <2>1
  <2>2. CASE d = l
    BY <2>0, <2>2
  <2>3. CASE c # l /\ d # l
    <3>1. t[c] = t[d] /\ t[c] \in Clusters
      BY <2>0, <2>3
    <3> QED
      BY <1>0, <3>1
  <2> QED
    BY <2>1, <2>2, <2>3
<1>8. \A c, w : Root(t, own, c, w) /\ w # own[e] => Root(u, o, c, w)
  <2> TAKE c, w
  <2> HAVE Root(t, own, c, w) /\ w # own[e]
  <2>1. c \in Clusters /\ own[c] = w /\ c # e /\ \A d \in Clusters : t[d] # c
    BY DEF Root
  <2>2. o[c] = w
    BY <1>3, <2>1
  <2>3. \A d \in Clusters : u[d] # c
    <3> TAKE d \in Clusters
    <3>1. CASE d = l
      BY <1>3, <2>1, <3>1
    <3>2. CASE d # l
      BY <1>3, <2>1, <3>2
    <3> QED
      BY <3>1, <3>2
  <2> QED
    BY <2>1, <2>2, <2>3 DEF Root
<1>9. ASSUME NEW q \in Files PROVE OwnedBy(u, o, s[q], W[q], q)
  <2>0. /\ OwnedBy(t, own, s[q], V[q], q)
        /\ <<q, "file">> # own[e] /\ <<q, "new">> # own[e]
        /\ q # p => <<q, "fresh">> # own[e] /\ <<q, "new">> # own[l]
        /\ <<q, "file">> # own[l] /\ <<q, "fresh">> # own[l]
    BY <1>0, <1>2, Zenon
  <2>1. Root(u, o, s[q], <<q, "file">>)
    BY <1>8, <2>0 DEF OwnedBy
  <2>4. W[q].head \in Clusters => Root(u, o, W[q].head, <<q, "new">>)
    <3>1. W[q].head = V[q].head
      OBVIOUS
    <3> QED
      BY <1>8, <2>0, <3>1 DEF OwnedBy
  <2>2. CASE q = p
    <3>1. o[s[q]] = <<q, "file">>
      BY <2>1 DEF Root
    <3>2. W[q].last \in Clusters => o[W[q].last] = <<q, "new">> /\ u[W[q].last] = EOF
      BY <1>1, <1>3, <2>2 DEF who
    <3> QED
      BY <2>1, <2>2, <2>4, <3>1, <3>2 DEF OwnedBy
  <2>3. CASE q # p
    <3>1. W[q] = V[q]
      BY <2>3
    <3>3. W[q].fresh \in Clusters => Root(u, o, W[q].fresh, <<q, "fresh">>) /\ u[W[q].fresh] = EOF
      <4> HAVE W[q].fresh \in Clusters
      <4>1. Root(t, own, W[q].fresh, <<q, "fresh">>) /\ t[W[q].fresh] = EOF
        BY <2>0, <3>1 DEF OwnedBy
      <4>2. W[q].fresh # l
        BY <2>0, <4>1 DEF Root
      <4> QED
        BY <1>3, <1>8, <2>0, <2>3, <4>1, <4>2
    <3>4. W[q].last \in Clusters => o[W[q].last] = <<q, "new">> /\ u[W[q].last] = EOF
      <4> HAVE W[q].last \in Clusters
      <4>1. own[W[q].last] = <<q, "new">> /\ t[W[q].last] = EOF
        BY <2>0, <3>1 DEF OwnedBy
      <4>2. W[q].last # l /\ W[q].last # e
        BY <2>0, <2>3, <4>1
      <4> QED
        BY <1>3, <4>1, <4>2
    <3>5. W[q].walk \in Clusters => o[W[q].walk] = <<q, "file">> /\ W[q].walk # l
      BY <1>3, <2>0, <3>1 DEF OwnedBy
    <3>6. W[q].end \in Clusters => W[q].end = W[q].walk /\ u[W[q].end] = EOF
      BY <1>3, <2>0, <3>1, <3>5 DEF OwnedBy
    <3> QED
      BY <2>1, <2>4, <3>3, <3>4, <3>5, <3>6 DEF OwnedBy
  <2> QED
    BY <2>2, <2>3
<1>10. \A c \in Clusters : o[c] # Nobody =>
         \/ \E d \in Clusters : u[d] = c
         \/ \E q \in Files : c \in {s[q], W[q].head, W[q].fresh}
  <2> TAKE c \in Clusters
  <2> HAVE o[c] # Nobody
  <2>1. CASE c = e
    BY <1>3, <2>1
  <2>2. CASE c # e
    <3>1. own[c] # Nobody
      BY <1>3, <2>2
    <3>2. ASSUME NEW q \in Files, c \in {s[q], V[q].head, V[q].fresh}
          PROVE  c \in {s[q], W[q].head, W[q].fresh}
      <4>1. CASE q = p
        BY <2>2, <3>2, <4>1
      <4>2. CASE q # p
        BY <3>2, <4>2
      <4> QED
        BY <4>1, <4>2
    <3>3. ASSUME NEW d \in Clusters, t[d] = c PROVE u[d] = c
      BY <1>1, <1>3, <3>3
    <3> QED
      BY <1>0, <3>1, <3>2, <3>3
  <2> QED
    BY <2>1, <2>2
<1>12. Owned(u, o, r, s, W)
  BY <1>3, <1>4, <1>5, <1>6, <1>9, <1>10, Zenon DEF Owned
<1> QED
  BY <1>12 DEF u, o, r, who

Relabel(own, who, by) == [d \in Clusters |-> IF own[d] = who THEN by ELSE own[d]]
After(own, rank, who, c) == [d \in Clusters |-> IF own[d] = who THEN rank[d] + rank[c] + 1 ELSE rank[d]]

(* The new ones are linked to the end of the file.                            *)
LEMMA OwnLink ==
  ASSUME format \in Formats,
         NEW t, NEW own, NEW rank, NEW s, NEW V, Owned(t, own, rank, s, V),
         NEW W, NEW p \in Files, Turn(V, W, p),
         NEW c \in Clusters, V[p].end = c, NEW h \in Clusters, V[p].head = h,
         V[p].fresh \notin Clusters, Idles(W[p]), W[p].head \notin Clusters
  PROVE  Owned([t EXCEPT ![c] = h], Relabel(own, <<p, "new">>, <<p, "file">>),
               After(own, rank, <<p, "new">>, c), s, W)
<1> USE DEF Turn, After
<1> DEFINE who == <<p, "new">>
           by  == <<p, "file">>
           u   == [t EXCEPT ![c] = h]
           o   == Relabel(own, who, by)
           r   == [d \in Clusters |-> IF own[d] = who THEN rank[d] + rank[c] + 1 ELSE rank[d]]
<1>0. /\ t \in [Clusters -> Values] /\ own \in [Clusters -> Owners] /\ rank \in [Clusters -> Nat]
      /\ \A d \in Clusters : t[d] = FREE <=> own[d] = Nobody
      /\ \A d \in Clusters : t[d] \in Clusters => own[t[d]] = own[d] /\ rank[d] < rank[t[d]]
      /\ \A a, d \in Clusters : t[a] = t[d] /\ t[a] \in Clusters => a = d
      /\ \A q \in Files : OwnedBy(t, own, s[q], V[q], q)
      /\ \A a \in Clusters : own[a] # Nobody =>
           \/ \E d \in Clusters : t[d] = a
           \/ \E q \in Files : a \in {s[q], V[q].head, V[q].fresh}
  BY DEF Owned
<1>1. /\ own[h] = who /\ (\A d \in Clusters : t[d] # h) /\ t[c] = EOF /\ own[c] = by
      /\ by \in Owners /\ by # Nobody /\ who # Nobody /\ by # who /\ EOF \notin Clusters /\ EOF # FREE
      /\ FREE \notin Clusters /\ h \in Values
  <2>1. OwnedBy(t, own, s[p], V[p], p)
    BY <1>0
  <2>2. own[h] = who /\ (\A d \in Clusters : t[d] # h) /\ t[c] = EOF
    BY <2>1 DEF OwnedBy, Root
  <2>3. own[c] = by
    BY <2>1 DEF OwnedBy
  <2>4. /\ by \in Owners /\ by # Nobody /\ who # Nobody /\ by # who /\ EOF \notin Clusters /\ EOF # FREE
        /\ FREE \notin Clusters /\ h \in Values
    BY OwnFacts
  <2> QED
    BY <2>2, <2>3, <2>4
<1>2. \A q \in Files : /\ <<q, "file">> # who /\ <<q, "fresh">> # who
                       /\ q # p => <<q, "new">> # who /\ <<q, "file">> # by
                       /\ <<q, "new">> # by /\ <<q, "fresh">> # by
  BY OwnFacts
<1>3. /\ o \in [Clusters -> Owners]
      /\ \A d \in Clusters : own[d] = who => o[d] = by
      /\ \A d \in Clusters : own[d] # who => o[d] = own[d]
  BY <1>0, <1>1 DEF Relabel
<1>14. /\ u \in [Clusters -> Values] /\ u[c] = h /\ \A d \in Clusters : d # c => u[d] = t[d]
  BY <1>0, <1>1
<1>15. /\ r \in [Clusters -> Nat]
       /\ \A d \in Clusters : own[d] = who => r[d] = rank[d] + rank[c] + 1
       /\ \A d \in Clusters : own[d] # who => r[d] = rank[d]
  BY <1>0
<1> HIDE DEF o, u, r
<1>16. who = <<p, "new">> /\ by = <<p, "file">>
  OBVIOUS
<1> HIDE DEF who, by
<1>4. \A d \in Clusters : u[d] = FREE <=> o[d] = Nobody
  <2> TAKE d \in Clusters
  <2>1. o[d] = Nobody <=> own[d] = Nobody
    BY <1>1, <1>3
  <2>2. u[d] = FREE <=> t[d] = FREE
    BY <1>1, <1>14
  <2> QED
    BY <1>0, <2>1, <2>2
<1>5. \A d \in Clusters : u[d] \in Clusters => o[u[d]] = o[d] /\ r[d] < r[u[d]]
  <2> TAKE d \in Clusters
  <2> HAVE u[d] \in Clusters
  <2>1. CASE d = c
    <3>1. o[u[d]] = o[d]
      BY <1>1, <1>3, <1>14, <2>1
    <3>2. r[h] = rank[h] + rank[c] + 1 /\ r[c] = rank[c] /\ rank[h] \in Nat /\ rank[c] \in Nat
      BY <1>0, <1>1, <1>15
    <3> QED
      BY <1>14, <2>1, <3>1, <3>2
  <2>2. CASE d # c
    <3>1. u[d] = t[d] /\ t[d] \in Clusters
      BY <1>14, <2>2
    <3>2. own[t[d]] = own[d] /\ rank[d] < rank[t[d]] /\ rank[d] \in Nat /\ rank[t[d]] \in Nat /\ rank[c] \in Nat
      BY <1>0, <3>1
    <3>3. CASE own[d] = who
      BY <1>3, <1>15, <3>1, <3>2, <3>3
    <3>4. CASE own[d] # who
      BY <1>3, <1>15, <3>1, <3>2, <3>4
    <3> QED
      BY <3>3, <3>4
  <2> QED
    BY <2>1, <2>2
<1>6. \A a, d \in Clusters : u[a] = u[d] /\ u[a] \in Clusters => a = d
  <2> TAKE a, d \in Clusters
  <2> HAVE u[a] = u[d] /\ u[a] \in Clusters
  <2>1. CASE a = c
    BY <1>1, <1>14, <2>1
  <2>2. CASE d = c
    BY <1>1, <1>14, <2>2
  <2>3. CASE a # c /\ d # c
    BY <1>0, <1>14, <2>3
  <2> QED
    BY <2>1, <2>2, <2>3
<1>8. \A a, w : Root(t, own, a, w) /\ w # who => Root(u, o, a, w)
  <2> TAKE a, w
  <2> HAVE Root(t, own, a, w) /\ w # who
  <2>1. a \in Clusters /\ own[a] = w /\ a # h /\ \A d \in Clusters : t[d] # a
    BY <1>1 DEF Root
  <2>2. o[a] = w
    BY <1>3, <2>1
  <2>3. \A d \in Clusters : u[d] # a
    <3> TAKE d \in Clusters
    <3>1. CASE d = c
      BY <1>14, <2>1, <3>1
    <3>2. CASE d # c
      BY <1>14, <2>1, <3>2
    <3> QED
      BY <3>1, <3>2
  <2> QED
    BY <2>1, <2>2, <2>3 DEF Root
<1>9. ASSUME NEW q \in Files PROVE OwnedBy(u, o, s[q], W[q], q)
  <2>0. /\ OwnedBy(t, own, s[q], V[q], q)
        /\ <<q, "file">> # who /\ <<q, "fresh">> # who
        /\ q # p => <<q, "new">> # who /\ <<q, "file">> # by
        /\ <<q, "new">> # by /\ <<q, "fresh">> # by
    BY <1>0, <1>2, Zenon
  <2>1. Root(u, o, s[q], <<q, "file">>)
    BY <1>8, <2>0 DEF OwnedBy
  <2>2. CASE q = p
    BY <2>1, <2>2 DEF OwnedBy, Idles
  <2>3. CASE q # p
    <3>1. W[q] = V[q]
      BY <2>3
    <3>2. W[q].head \in Clusters => Root(u, o, W[q].head, <<q, "new">>)
      BY <1>8, <2>0, <2>3, <3>1 DEF OwnedBy
    <3>3. W[q].fresh \in Clusters => Root(u, o, W[q].fresh, <<q, "fresh">>) /\ u[W[q].fresh] = EOF
      <4> HAVE W[q].fresh \in Clusters
      <4>1. Root(t, own, W[q].fresh, <<q, "fresh">>) /\ t[W[q].fresh] = EOF
        BY <2>0, <3>1 DEF OwnedBy
      <4>2. W[q].fresh # c
        BY <1>1, <2>0, <4>1 DEF Root
      <4>3. Root(u, o, W[q].fresh, <<q, "fresh">>)
        BY <1>8, <2>0, <4>1
      <4> QED
        BY <1>14, <4>1, <4>2, <4>3
    <3>4. W[q].last \in Clusters => o[W[q].last] = <<q, "new">> /\ u[W[q].last] = EOF
      <4> HAVE W[q].last \in Clusters
      <4>1. own[W[q].last] = <<q, "new">> /\ t[W[q].last] = EOF
        BY <2>0, <3>1 DEF OwnedBy
      <4>2. W[q].last # c /\ own[W[q].last] # who
        BY <1>1, <2>0, <2>3, <4>1
      <4> QED
        BY <1>3, <1>14, <4>1, <4>2
    <3>5. W[q].walk \in Clusters => o[W[q].walk] = <<q, "file">> /\ W[q].walk # c
      <4> HAVE W[q].walk \in Clusters
      <4>1. own[W[q].walk] = <<q, "file">>
        BY <2>0, <3>1 DEF OwnedBy
      <4> QED
        BY <1>1, <1>3, <2>0, <2>3, <4>1
    <3>6. W[q].end \in Clusters => W[q].end = W[q].walk /\ u[W[q].end] = EOF
      BY <1>14, <2>0, <3>1, <3>5 DEF OwnedBy
    <3> QED
      BY <2>1, <3>2, <3>3, <3>4, <3>5, <3>6 DEF OwnedBy
  <2> QED
    BY <2>2, <2>3
<1>10. \A a \in Clusters : o[a] # Nobody =>
         \/ \E d \in Clusters : u[d] = a
         \/ \E q \in Files : a \in {s[q], W[q].head, W[q].fresh}
  <2> TAKE a \in Clusters
  <2> HAVE o[a] # Nobody
  <2>1. CASE a = h
    BY <1>14, <2>1
  <2>2. CASE a # h
    <3>1. own[a] # Nobody
      BY <1>1, <1>3
    <3>2. ASSUME NEW q \in Files, a \in {s[q], V[q].head, V[q].fresh}
          PROVE  a \in {s[q], W[q].head, W[q].fresh}
      <4>1. CASE q = p
        BY <2>2, <3>2, <4>1
      <4>2. CASE q # p
        BY <3>2, <4>2
      <4> QED
        BY <4>1, <4>2
    <3>3. ASSUME NEW d \in Clusters, t[d] = a PROVE u[d] = a
      BY <1>1, <1>14, <3>3
    <3> QED
      BY <1>0, <3>1, <3>2, <3>3
  <2> QED
    BY <2>1, <2>2
<1>12. Owned(u, o, r, s, W)
  BY <1>3, <1>4, <1>5, <1>6, <1>9, <1>10, <1>14, <1>15, Zenon DEF Owned
<1> QED
  BY <1>12 DEF u, o, r, who, by

CutOwn(own, c, who, by) == [d \in Clusters |-> IF own[d] = who /\ d # c THEN by ELSE own[d]]

(* A file is cut after its first cluster.                                     *)
LEMMA OwnCut ==
  ASSUME format \in Formats,
         NEW t, NEW own, NEW rank, NEW s, NEW V, Owned(t, own, rank, s, V),
         NEW W, NEW p \in Files, Turn(V, W, p),
         NEW c \in Clusters, c = s[p], t[c] \in Clusters,
         V[p].fresh \notin Clusters, V[p].head \notin Clusters, Idles(W[p]), W[p].head = t[c]
  PROVE  Owned([t EXCEPT ![c] = EOF], CutOwn(own, c, <<p, "file">>, <<p, "new">>), rank, s, W)
<1> USE DEF Turn
<1> DEFINE who == <<p, "file">>
           by  == <<p, "new">>
           n   == t[c]
           u   == [t EXCEPT ![c] = EOF]
           o   == CutOwn(own, c, who, by)
<1>0. /\ t \in [Clusters -> Values] /\ own \in [Clusters -> Owners] /\ rank \in [Clusters -> Nat]
      /\ \A d \in Clusters : t[d] = FREE <=> own[d] = Nobody
      /\ \A d \in Clusters : t[d] \in Clusters => own[t[d]] = own[d] /\ rank[d] < rank[t[d]]
      /\ \A a, d \in Clusters : t[a] = t[d] /\ t[a] \in Clusters => a = d
      /\ \A q \in Files : OwnedBy(t, own, s[q], V[q], q)
      /\ \A a \in Clusters : own[a] # Nobody =>
           \/ \E d \in Clusters : t[d] = a
           \/ \E q \in Files : a \in {s[q], V[q].head, V[q].fresh}
  BY DEF Owned
<1>1. /\ n \in Clusters /\ own[n] = who /\ (\A d \in Clusters : t[d] # c) /\ own[c] = who /\ n # c
      /\ by \in Owners /\ by # Nobody /\ who # Nobody /\ by # who /\ EOF \notin Clusters /\ EOF # FREE
      /\ FREE \notin Clusters /\ EOF \in Values
  <2>1. OwnedBy(t, own, s[p], V[p], p)
    BY <1>0
  <2>2. (\A d \in Clusters : t[d] # c) /\ own[c] = who
    BY <2>1 DEF OwnedBy, Root
  <2>3. n \in Clusters /\ own[n] = who /\ n # c
    BY <1>0, <2>2
  <2>4. /\ by \in Owners /\ by # Nobody /\ who # Nobody /\ by # who /\ EOF \notin Clusters /\ EOF # FREE
        /\ FREE \notin Clusters /\ EOF \in Values
    BY OwnFacts
  <2> QED
    BY <2>2, <2>3, <2>4
<1>2. \A q \in Files : /\ <<q, "new">> # who /\ <<q, "fresh">> # who
                       /\ q # p => <<q, "new">> # who /\ <<q, "file">> # who
  BY OwnFacts
<1>3. /\ o \in [Clusters -> Owners]
      /\ \A d \in Clusters : own[d] = who /\ d # c => o[d] = by
      /\ \A d \in Clusters : own[d] # who \/ d = c => o[d] = own[d]
  BY <1>0, <1>1 DEF CutOwn
<1>14. /\ u \in [Clusters -> Values] /\ u[c] = EOF /\ \A d \in Clusters : d # c => u[d] = t[d]
  BY <1>0, <1>1
<1>16. who = <<p, "file">> /\ by = <<p, "new">> /\ n = t[c]
  OBVIOUS
<1> HIDE DEF o, u, who, by, n
<1>4. \A d \in Clusters : u[d] = FREE <=> o[d] = Nobody
  <2> TAKE d \in Clusters
  <2>1. o[d] = Nobody <=> own[d] = Nobody
    BY <1>1, <1>3
  <2>2. u[d] = FREE <=> t[d] = FREE
    BY <1>1, <1>14, <1>16
  <2> QED
    BY <1>0, <2>1, <2>2
<1>5. \A d \in Clusters : u[d] \in Clusters => o[u[d]] = o[d] /\ rank[d] < rank[u[d]]
  <2> TAKE d \in Clusters
  <2> HAVE u[d] \in Clusters
  <2>1. d # c /\ u[d] = t[d] /\ t[d] # c
    BY <1>1, <1>14
  <2>2. own[t[d]] = own[d] /\ rank[d] < rank[t[d]]
    BY <1>0, <2>1
  <2>3. CASE own[d] = who
    BY <1>3, <2>1, <2>2, <2>3
  <2>4. CASE own[d] # who
    BY <1>3, <2>1, <2>2, <2>4
  <2> QED
    BY <2>3, <2>4
<1>6. \A a, d \in Clusters : u[a] = u[d] /\ u[a] \in Clusters => a = d
  BY <1>0, <1>1, <1>14
<1>7. \A a \in Clusters : (\A d \in Clusters : t[d] # a) => \A d \in Clusters : u[d] # a
  BY <1>1, <1>14
<1>8. \A a, w : Root(t, own, a, w) /\ w # who => Root(u, o, a, w)
  <2> TAKE a, w
  <2> HAVE Root(t, own, a, w) /\ w # who
  <2>1. a \in Clusters /\ own[a] = w /\ \A d \in Clusters : t[d] # a
    BY DEF Root
  <2> QED
    BY <1>3, <1>7, <2>1 DEF Root
<1>9. ASSUME NEW q \in Files PROVE OwnedBy(u, o, s[q], W[q], q)
  <2>0. /\ OwnedBy(t, own, s[q], V[q], q)
        /\ <<q, "new">> # who /\ <<q, "fresh">> # who
        /\ q # p => <<q, "new">> # who /\ <<q, "file">> # who
    BY <1>0, <1>2, Zenon
  <2>2. CASE q = p
    <3>1. Root(u, o, c, who)
      BY <1>1, <1>3, <1>7 DEF Root
    <3>2. Root(u, o, n, by)
      <4>1. \A d \in Clusters : u[d] # n
        <5> TAKE d \in Clusters
        <5>1. CASE d = c
          BY <1>1, <1>14, <5>1
        <5>2. CASE d # c
          BY <1>0, <1>1, <1>14, <1>16, <5>2
        <5> QED
          BY <5>1, <5>2
      <4> QED
        BY <1>1, <1>3, <4>1 DEF Root
    <3> QED
      BY <1>16, <2>2, <3>1, <3>2 DEF OwnedBy, Idles
  <2>3. CASE q # p
    <3>1. W[q] = V[q]
      BY <2>3
    <3>7. Root(u, o, s[q], <<q, "file">>)
      BY <1>8, <2>0, <2>3 DEF OwnedBy
    <3>2. W[q].head \in Clusters => Root(u, o, W[q].head, <<q, "new">>)
      BY <1>8, <2>0, <2>3, <3>1 DEF OwnedBy
    <3>3. W[q].fresh \in Clusters => Root(u, o, W[q].fresh, <<q, "fresh">>) /\ u[W[q].fresh] = EOF
      <4> HAVE W[q].fresh \in Clusters
      <4>1. Root(t, own, W[q].fresh, <<q, "fresh">>) /\ t[W[q].fresh] = EOF
        BY <2>0, <3>1 DEF OwnedBy
      <4>3. Root(u, o, W[q].fresh, <<q, "fresh">>)
        BY <1>8, <2>0, <4>1
      <4>4. u[W[q].fresh] = EOF
        BY <1>14, <4>1
      <4> QED
        BY <4>3, <4>4
    <3>4. W[q].last \in Clusters => o[W[q].last] = <<q, "new">> /\ u[W[q].last] = EOF
      <4> HAVE W[q].last \in Clusters
      <4>1. own[W[q].last] = <<q, "new">> /\ t[W[q].last] = EOF
        BY <2>0, <3>1 DEF OwnedBy
      <4>2. u[W[q].last] = EOF
        BY <1>14, <4>1
      <4>3. own[W[q].last] # who
        BY <2>0, <4>1
      <4> QED
        BY <1>3, <4>1, <4>2, <4>3
    <3>5. W[q].walk \in Clusters => o[W[q].walk] = <<q, "file">>
      <4> HAVE W[q].walk \in Clusters
      <4>1. own[W[q].walk] = <<q, "file">>
        BY <2>0, <3>1 DEF OwnedBy
      <4> QED
        BY <1>3, <2>0, <2>3, <4>1
    <3>6. W[q].end \in Clusters => W[q].end = W[q].walk /\ u[W[q].end] = EOF
      <4> HAVE W[q].end \in Clusters
      <4>1. W[q].end = W[q].walk /\ t[W[q].end] = EOF
        BY <2>0, <3>1 DEF OwnedBy
      <4> QED
        BY <1>14, <4>1
    <3> QED
      BY <3>2, <3>3, <3>4, <3>5, <3>6, <3>7 DEF OwnedBy
  <2> QED
    BY <2>2, <2>3
<1>10. \A a \in Clusters : o[a] # Nobody =>
         \/ \E d \in Clusters : u[d] = a
         \/ \E q \in Files : a \in {s[q], W[q].head, W[q].fresh}
  <2> TAKE a \in Clusters
  <2> HAVE o[a] # Nobody
  <2>1. CASE a = n
    BY <1>16, <2>1
  <2>2. CASE a # n
    <3>1. own[a] # Nobody
      BY <1>1, <1>3
    <3>2. ASSUME NEW q \in Files, a \in {s[q], V[q].head, V[q].fresh}
          PROVE  a \in {s[q], W[q].head, W[q].fresh}
      <4>1. CASE q = p
        BY <3>2, <4>1
      <4>2. CASE q # p
        BY <3>2, <4>2
      <4> QED
        BY <4>1, <4>2
    <3>3. ASSUME NEW d \in Clusters, t[d] = a PROVE u[d] = a
      BY <1>14, <1>16, <2>2, <3>3
    <3> QED
      BY <1>0, <3>1, <3>2, <3>3
  <2> QED
    BY <2>1, <2>2
<1>11. rank \in [Clusters -> Nat]
  BY <1>0
<1>12. Owned(u, o, rank, s, W)
  BY <1>3, <1>4, <1>5, <1>6, <1>9, <1>10, <1>11, <1>14, Zenon DEF Owned
<1> QED
  BY <1>12 DEF u, o, who, by

(* The first of the clusters to be freed is free.                             *)
LEMMA OwnRelease ==
  ASSUME format \in Formats,
         NEW t, NEW own, NEW rank, NEW s, NEW V, Owned(t, own, rank, s, V),
         NEW W, NEW p \in Files, Turn(V, W, p),
         NEW c \in Clusters, V[p].head = c, V[p].fresh \notin Clusters,
         Idles(W[p]), W[p].head = t[c]
  PROVE  Owned([t EXCEPT ![c] = FREE], [own EXCEPT ![c] = Nobody], rank, s, W)
<1> USE DEF Turn
<1> DEFINE who == <<p, "new">>
           n   == t[c]
           u   == [t EXCEPT ![c] = FREE]
           o   == [own EXCEPT ![c] = Nobody]
<1>0. /\ t \in [Clusters -> Values] /\ own \in [Clusters -> Owners] /\ rank \in [Clusters -> Nat]
      /\ \A d \in Clusters : t[d] = FREE <=> own[d] = Nobody
      /\ \A d \in Clusters : t[d] \in Clusters => own[t[d]] = own[d] /\ rank[d] < rank[t[d]]
      /\ \A a, d \in Clusters : t[a] = t[d] /\ t[a] \in Clusters => a = d
      /\ \A q \in Files : OwnedBy(t, own, s[q], V[q], q)
      /\ \A a \in Clusters : own[a] # Nobody =>
           \/ \E d \in Clusters : t[d] = a
           \/ \E q \in Files : a \in {s[q], V[q].head, V[q].fresh}
  BY DEF Owned
<1>1. /\ own[c] = who /\ (\A d \in Clusters : t[d] # c)
      /\ Nobody \in Owners /\ who # Nobody /\ FREE \notin Clusters /\ EOF # FREE /\ FREE \in Values
      /\ n \in Clusters => own[n] = who /\ n # c
  <2>1. OwnedBy(t, own, s[p], V[p], p)
    BY <1>0
  <2>2. own[c] = who /\ (\A d \in Clusters : t[d] # c)
    BY <2>1 DEF OwnedBy, Root
  <2>3. n \in Clusters => own[n] = who /\ n # c
    BY <1>0, <2>2
  <2>4. Nobody \in Owners /\ who # Nobody /\ FREE \notin Clusters /\ EOF # FREE /\ FREE \in Values
    BY OwnFacts
  <2> QED
    BY <2>2, <2>3, <2>4
<1>2. \A q \in Files : /\ <<q, "file">> # who /\ <<q, "fresh">> # who
                       /\ q # p => <<q, "new">> # who
  BY OwnFacts
<1>3. /\ o \in [Clusters -> Owners] /\ o[c] = Nobody /\ \A d \in Clusters : d # c => o[d] = own[d]
      /\ u \in [Clusters -> Values] /\ u[c] = FREE /\ \A d \in Clusters : d # c => u[d] = t[d]
  BY <1>0, <1>1
<1>16. who = <<p, "new">> /\ n = t[c]
  OBVIOUS
<1> HIDE DEF o, u, who, n
<1>4. \A d \in Clusters : u[d] = FREE <=> o[d] = Nobody
  <2> TAKE d \in Clusters
  <2>1. CASE d = c
    BY <1>3, <2>1
  <2>2. CASE d # c
    BY <1>0, <1>3, <2>2
  <2> QED
    BY <2>1, <2>2
<1>5. \A d \in Clusters : u[d] \in Clusters => o[u[d]] = o[d] /\ rank[d] < rank[u[d]]
  <2> TAKE d \in Clusters
  <2> HAVE u[d] \in Clusters
  <2>1. d # c /\ u[d] = t[d] /\ t[d] # c
    BY <1>1, <1>3
  <2> QED
    BY <1>0, <1>3, <2>1
<1>6. \A a, d \in Clusters : u[a] = u[d] /\ u[a] \in Clusters => a = d
  BY <1>0, <1>1, <1>3
<1>7. \A a \in Clusters : (\A d \in Clusters : t[d] # a) => \A d \in Clusters : u[d] # a
  BY <1>1, <1>3
<1>8. \A a, w : Root(t, own, a, w) /\ w # who => Root(u, o, a, w) /\ a # c
  <2> TAKE a, w
  <2> HAVE Root(t, own, a, w) /\ w # who
  <2>1. a \in Clusters /\ own[a] = w /\ a # c /\ \A d \in Clusters : t[d] # a
    BY <1>1 DEF Root
  <2> QED
    BY <1>3, <1>7, <2>1 DEF Root
<1>9. ASSUME NEW q \in Files PROVE OwnedBy(u, o, s[q], W[q], q)
  <2>0. /\ OwnedBy(t, own, s[q], V[q], q)
        /\ <<q, "file">> # who /\ <<q, "fresh">> # who /\ (q # p => <<q, "new">> # who)
    BY <1>0, <1>2, Zenon
  <2>1. Root(u, o, s[q], <<q, "file">>)
    BY <1>8, <2>0 DEF OwnedBy
  <2>2. CASE q = p
    <3>1. n \in Clusters => Root(u, o, n, who)
      <4> HAVE n \in Clusters
      <4>1. \A d \in Clusters : u[d] # n
        <5> TAKE d \in Clusters
        <5>1. CASE d = c
          BY <1>1, <1>3, <5>1
        <5>2. CASE d # c
          BY <1>0, <1>3, <1>16, <5>2
        <5> QED
          BY <5>1, <5>2
      <4> QED
        BY <1>1, <1>3, <4>1 DEF Root
    <3> QED
      BY <1>16, <2>1, <2>2, <3>1 DEF OwnedBy, Idles
  <2>3. CASE q # p
    <3>1. W[q] = V[q]
      BY <2>3
    <3>2. W[q].head \in Clusters => Root(u, o, W[q].head, <<q, "new">>)
      BY <1>8, <2>0, <2>3, <3>1 DEF OwnedBy
    <3>3. W[q].fresh \in Clusters => Root(u, o, W[q].fresh, <<q, "fresh">>) /\ u[W[q].fresh] = EOF
      <4> HAVE W[q].fresh \in Clusters
      <4>1. Root(t, own, W[q].fresh, <<q, "fresh">>) /\ t[W[q].fresh] = EOF
        BY <2>0, <3>1 DEF OwnedBy
      <4>3. Root(u, o, W[q].fresh, <<q, "fresh">>) /\ W[q].fresh # c
        BY <1>8, <2>0, <4>1
      <4> QED
        BY <1>3, <4>1, <4>3
    <3>4. W[q].last \in Clusters => o[W[q].last] = <<q, "new">> /\ u[W[q].last] = EOF
      <4> HAVE W[q].last \in Clusters
      <4>1. own[W[q].last] = <<q, "new">> /\ t[W[q].last] = EOF
        BY <2>0, <3>1 DEF OwnedBy
      <4>2. W[q].last # c
        BY <1>1, <2>0, <2>3, <4>1
      <4> QED
        BY <1>3, <4>1, <4>2
    <3>5. W[q].walk \in Clusters => o[W[q].walk] = <<q, "file">> /\ W[q].walk # c
      <4> HAVE W[q].walk \in Clusters
      <4>1. own[W[q].walk] = <<q, "file">>
        BY <2>0, <3>1 DEF OwnedBy
      <4>2. W[q].walk # c
        BY <1>1, <2>0, <4>1
      <4> QED
        BY <1>3, <4>1, <4>2
    <3>6. W[q].end \in Clusters => W[q].end = W[q].walk /\ u[W[q].end] = EOF
      <4> HAVE W[q].end \in Clusters
      <4>1. W[q].end = W[q].walk /\ t[W[q].end] = EOF
        BY <2>0, <3>1 DEF OwnedBy
      <4> QED
        BY <1>3, <3>5, <4>1
    <3> QED
      BY <2>1, <3>2, <3>3, <3>4, <3>5, <3>6 DEF OwnedBy
  <2> QED
    BY <2>2, <2>3
<1>10. \A a \in Clusters : o[a] # Nobody =>
         \/ \E d \in Clusters : u[d] = a
         \/ \E q \in Files : a \in {s[q], W[q].head, W[q].fresh}
  <2> TAKE a \in Clusters
  <2> HAVE o[a] # Nobody
  <2>0. a # c
    BY <1>3
  <2>1. CASE a = n
    BY <1>16, <2>1
  <2>2. CASE a # n
    <3>1. own[a] # Nobody
      BY <1>3, <2>0
    <3>2. ASSUME NEW q \in Files, a \in {s[q], V[q].head, V[q].fresh}
          PROVE  a \in {s[q], W[q].head, W[q].fresh}
      <4>1. CASE q = p
        BY <2>0, <3>2, <4>1
      <4>2. CASE q # p
        BY <3>2, <4>2
      <4> QED
        BY <4>1, <4>2
    <3>3. ASSUME NEW d \in Clusters, t[d] = a PROVE u[d] = a
      BY <1>3, <1>16, <2>2, <3>3
    <3> QED
      BY <1>0, <3>1, <3>2, <3>3
  <2> QED
    BY <2>1, <2>2
<1>11. rank \in [Clusters -> Nat]
  BY <1>0
<1>12. Owned(u, o, rank, s, W)
  BY <1>3, <1>4, <1>5, <1>6, <1>9, <1>10, <1>11, Zenon DEF Owned
<1> QED
  BY <1>12 DEF u, o

(* An entry that has an owner comes after one that its owner knows.           *)
LEMMA ClassRoot ==
  ASSUME format \in Formats, NEW t, NEW own, NEW rank, NEW s, NEW V, Owned(t, own, rank, s, V),
         NEW c \in Clusters, own[c] # Nobody
  PROVE  \E p \in Files, d \in Clusters :
           /\ own[d] = own[c]
           /\ \/ d = s[p] /\ own[c] = <<p, "file">>
              \/ d = V[p].head /\ own[c] = <<p, "new">>
              \/ d = V[p].fresh /\ own[c] = <<p, "fresh">>
<1> DEFINE D == {d \in Clusters : own[d] = own[c]}
           T == {rank[d] : d \in D}
<1>0. /\ rank \in [Clusters -> Nat]
      /\ \A d \in Clusters : t[d] \in Clusters => own[t[d]] = own[d] /\ rank[d] < rank[t[d]]
      /\ \A q \in Files : OwnedBy(t, own, s[q], V[q], q)
      /\ \A d \in Clusters : own[d] # Nobody =>
           \/ \E e \in Clusters : t[e] = d
           \/ \E q \in Files : d \in {s[q], V[q].head, V[q].fresh}
  BY DEF Owned
<1>1. T \subseteq Nat /\ T # {}
  BY <1>0
<1>2. PICK x \in T : \A y \in T : x <= y
  <2> HIDE DEF T
  <2> QED
    BY <1>1, LeastNumber
<1>3. PICK d \in D : x = rank[d]
  BY <1>2
<1>4. d \in Clusters /\ own[d] = own[c] /\ \A e \in Clusters : own[e] = own[c] => rank[d] <= rank[e]
  BY <1>2, <1>3
<1>5. \A e \in Clusters : t[e] # d
  <2> SUFFICES ASSUME NEW e \in Clusters, t[e] = d PROVE FALSE
    OBVIOUS
  <2>1. own[e] = own[c] /\ rank[e] < rank[d]
    BY <1>0, <1>4
  <2>2. rank[e] \in Nat /\ rank[d] \in Nat
    BY <1>0, <1>4
  <2> QED
    BY <1>4, <2>1, <2>2
<1>6. PICK q \in Files : d \in {s[q], V[q].head, V[q].fresh}
  BY <1>0, <1>4, <1>5
<1>7. OwnedBy(t, own, s[q], V[q], q)
  BY <1>0
<1> QED
  BY <1>4, <1>6, <1>7 DEF OwnedBy, Root

LEMMA NoOrphan ==
  ASSUME format \in Formats, NEW t, NEW own, NEW rank, NEW s, NEW V, Owned(t, own, rank, s, V),
         NEW p \in Files, V[p].head \notin Clusters
  PROVE  \A c \in Clusters : own[c] # <<p, "new">>
<1> SUFFICES ASSUME NEW c \in Clusters, own[c] = <<p, "new">> PROVE FALSE
  OBVIOUS
<1>1. own[c] # Nobody
  BY OwnFacts
<1>2. PICK q \in Files, d \in Clusters :
           /\ own[d] = own[c]
           /\ \/ d = s[q] /\ own[c] = <<q, "file">>
              \/ d = V[q].head /\ own[c] = <<q, "new">>
              \/ d = V[q].fresh /\ own[c] = <<q, "fresh">>
  BY <1>1, ClassRoot
<1> QED
  BY <1>2

-----------------------------------------------------------------------------
(* What a step of one process leaves.                                         *)

LEMMA Frame ==
  ASSUME format' = format
  PROVE  /\ bits' = bits /\ blksz' = blksz /\ TableSize' = TableSize /\ Table' = Table
         /\ Rights' = Rights /\ BlocksAt' = BlocksAt
<1>1. bits' = bits /\ blksz' = blksz
  BY DEF bits, blksz
<1>2. TableSize' = TableSize
  BY <1>1 DEF TableSize, Width
<1>3. Table' = Table
  BY <1>2 DEF Table
<1>4. Rights' = Rights
  BY <1>1 DEF Rights, ReadBlock, Located, SetPtr, Crosses, Offset, Blocknr, Byte
<1>5. BlocksAt' = BlocksAt
  BY <1>1 DEF BlocksAt, Blocks, Crosses, Offset, Blocknr, Byte
<1> QED
  BY <1>1, <1>2, <1>3, <1>4, <1>5

(* The record of a process becomes r, and no other's changes.                 *)
Sets(p, r) == /\ proc' \in [Files -> Locals] /\ proc'[p] = r
              /\ \A q \in Files : q # p => proc'[q] = proc[q]

LEMMA SetIs ==
  ASSUME proc \in [Files -> Locals], NEW p \in Files, NEW r \in Locals, Set(p, r)
  PROVE  Sets(p, r)
BY DEF Set, Sets

(* An entry is written.                                                       *)
Wrote(e, w) ==
  /\ fat' \in Table /\ Nxt' = [Nxt EXCEPT ![e] = w] /\ Rest' = Rest
  /\ \A k \in 0..(TableSize - 1) : fat'[k] # fat[k] => k \div blksz \in ToSet(BlocksAt[e])

LEMMA RestSame ==
  ASSUME format \in Formats, format' = format, fat \in Table, fat' \in Table,
         \A k \in Nat : k \div 2 \in 0..(TableSize - 1) /\ (k \div Width \notin Clusters \/ (bits = 32 /\ k % 8 = 7))
                        => NibbleIn(fat', k) = NibbleIn(fat, k)
  PROVE  Rest' = Rest
<1> DEFINE D == {k \in 0 .. 2 * TableSize - 1 :
                   \/ k \div Width \notin Clusters
                   \/ bits = 32 /\ k % 8 = 7}
<1>1. Cardinality(DOMAIN fat) = TableSize /\ Cardinality(DOMAIN fat') = TableSize /\ TableSize \in Nat
  BY TableDomain, TableFacts
<1>2. bits' = bits /\ Width' = Width
  BY Frame DEF Width
<1>3. Rest = [k \in D |-> NibbleIn(fat, k)]
  BY <1>1 DEF Rest, Nibble, NibbleIn
<1>4. Rest' = [k \in D |-> NibbleIn(fat', k)]
  BY <1>1, <1>2 DEF Rest, Nibble, NibbleIn
<1>5. \A k \in D : NibbleIn(fat', k) = NibbleIn(fat, k)
  <2> TAKE k \in D
  <2>1. k \in Nat /\ k \div 2 \in 0..(TableSize - 1)
    BY <1>1
  <2> QED
    BY <2>1
<1> HIDE DEF D
<1> QED
  BY <1>3, <1>4, <1>5

LEMMA NxtIs ==
  ASSUME format \in Formats, format' = format
  PROVE  Nxt = [e \in Clusters |-> ValueIn(fat, e)] /\ Nxt' = [e \in Clusters |-> ValueIn(fat', e)]
<1>1. bits' = bits /\ Width' = Width /\ Bad' = Bad
  <2>1. bits' = bits /\ bits \in {12, 16, 32}
    BY Frame, Widths
  <2>2. Width' = Width
    BY <2>1 DEF Width
  <2>3. Eof' = Eof
    BY <2>1 DEF Eof
  <2> QED
    BY <2>1, <2>2, <2>3 DEF Bad
<1>2. \A e : Value(e) = ValueIn(fat, e)
  BY ValueNow
<1>3. \A e \in Clusters : Value(e)' = ValueIn(fat', e)
  BY <1>1 DEF Value, ValueIn
<1> QED
  BY <1>2, <1>3 DEF Nxt

LEMMA PutWrites ==
  ASSUME format \in Formats, format' = format, fat \in Table, Nxt \in [Clusters -> Values],
         NEW e \in Clusters, NEW w \in Values, fat' = Put(ReadBlock(e), w)
  PROVE  Wrote(e, w)
<1>1. Left(fat', e)
  BY WrittenLeft
<1>2. ValueIn(fat', e) = w
  BY WrittenValue
<1>3. \A c \in Clusters : c # e => ValueIn(fat', c) = ValueIn(fat, c)
  BY WrittenOthers
<1>4. Nxt = [c \in Clusters |-> ValueIn(fat, c)] /\ Nxt' = [c \in Clusters |-> ValueIn(fat', c)]
  BY NxtIs
<1>5. Nxt' = [Nxt EXCEPT ![e] = w]
  BY <1>2, <1>3, <1>4
<1>6. fat' \in Table /\ \A k \in 0..(TableSize - 1) : k \notin Bytes(e) => fat'[k] = fat[k]
  BY <1>1 DEF Left
<1>7. \A k \in Nat : k \div 2 \in 0..(TableSize - 1) /\ (k \div Width \notin Clusters \/ (bits = 32 /\ k % 8 = 7))
                     => NibbleIn(fat', k) = NibbleIn(fat, k)
  <2> TAKE k \in Nat
  <2> HAVE k \div 2 \in 0..(TableSize - 1) /\ (k \div Width \notin Clusters \/ (bits = 32 /\ k % 8 = 7))
  <2>1. k \div Width # e \/ (bits = 32 /\ k % 8 = 7)
    OBVIOUS
  <2> QED
    BY <2>1, WrittenRest
<1>8. Rest' = Rest
  BY <1>6, <1>7, RestSame
<1>9. \A k \in 0..(TableSize - 1) : fat'[k] # fat[k] => k \div blksz \in ToSet(BlocksAt[e])
  BY <1>6, WrittenBlocks DEF BlocksAt
<1> QED
  BY <1>5, <1>6, <1>8, <1>9 DEF Wrote

LEMMA TableKept ==
  ASSUME format \in Formats, format' = format, fat' = fat
  PROVE  Nxt' = Nxt /\ Rest' = Rest
<1>1. bits' = bits /\ Width' = Width /\ Bad' = Bad
  <2>1. bits' = bits /\ bits \in {12, 16, 32}
    BY Frame, Widths
  <2>2. Width' = Width
    BY <2>1 DEF Width
  <2>3. Eof' = Eof
    BY <2>1 DEF Eof
  <2> QED
    BY <2>1, <2>2, <2>3 DEF Bad
<1>2. Nxt' = Nxt
  BY NxtIs
<1>3. Rest' = Rest
  BY <1>1 DEF Rest, Nibble
<1> QED
  BY <1>2, <1>3

(* The lock is kept, taken, or given up.                                      *)
Locks(p, me, r) ==
  \/ fat_lock' = fat_lock /\ (Locked(r) <=> Locked(me))
  \/ fat_lock = NoProc /\ fat_lock' = p /\ Locked(r)
  \/ Locked(me) /\ fat_lock' = NoProc /\ ~Locked(r)

LEMMA TypesStep ==
  ASSUME Types, format' = format, start' = start, NEW p \in Files, NEW r \in Locals, Sets(p, r),
         LocalOK(Rights, format.bufs, r), fat' \in Table, backup' \in Table, prev_free' \in Clusters,
         Locks(p, proc[p], r)
  PROVE  Types'
<1>1. Rights' = Rights /\ Table' = Table
  BY Frame
<1>2. fat_lock' \in Files \cup {NoProc}
  BY DEF Types, Locks
<1>3. \A q \in Files : LocalOK(Rights, format.bufs, proc'[q])
  BY DEF Types, Sets
<1>4. \A q \in Files : fat_lock' = q <=> Locked(proc'[q])
  <2>1. (\A q \in Files : fat_lock = q <=> Locked(proc[q])) /\ NoProc \notin Files
    BY NoProcAssumption DEF Types
  <2>2. \A q \in Files : q # p => proc'[q] = proc[q]
    BY DEF Sets
  <2>3. proc'[p] = r
    BY DEF Sets
  <2> QED
    BY <2>1, <2>2, <2>3 DEF Locks
<1>5. /\ format' \in Formats /\ start' \in Starts /\ proc' \in [Files -> Locals]
  BY DEF Types, Sets
<1> QED
  BY <1>1, <1>2, <1>3, <1>4, <1>5 DEF Types

(* Only the process that holds the lock searches.                             *)
LEMMA NotSearching ==
  ASSUME NEW me, ~Locked(me), NEW t
  PROVE  Sought(t, me) /\ me.pc # "a_take"
BY DEF Sought, Locked, Pc, Allocating, Counting

Counts(t, atTake) ==
  IF free_clus_valid THEN free_clusters = Cardinality(FreeIn(t)) + (IF atTake THEN 1 ELSE 0)
  ELSE free_clusters = -1

LEMMA SearchStep ==
  ASSUME Searching, NEW p \in Files, NEW r, Sets(p, r),
         FreeIn(Nxt') = FreeIn(Nxt), Sought(Nxt', r), r.pc = "a_take" <=> proc[p].pc = "a_take",
         free_clusters' = free_clusters, free_clus_valid' = free_clus_valid
  PROVE  Searching'
<1>1. \A c \in Clusters : Nxt'[c] = FREE <=> Nxt[c] = FREE
  BY DEF FreeIn
<1>2. \A q \in Files : Sought(Nxt', proc'[q])
  <2> TAKE q \in Files
  <2>1. CASE q = p
    BY <2>1 DEF Sets
  <2>2. CASE q # p
    <3>1. Sought(Nxt, proc[q]) /\ proc'[q] = proc[q]
      BY <2>2 DEF Searching, Sets
    <3> QED
      BY <1>1, <3>1 DEF Sought
  <2> QED
    BY <2>1, <2>2
<1>3. (\E q \in Files : proc'[q].pc = "a_take") <=> (\E q \in Files : proc[q].pc = "a_take")
  BY DEF Sets
<1> QED
  BY <1>2, <1>3 DEF Searching, At

LEMMA SearchLocked ==
  ASSUME Types, NEW p \in Files, NEW r, Sets(p, r), fat_lock = p,
         Sought(Nxt', r), free_clus_valid' \in BOOLEAN,
         IF free_clus_valid'
         THEN free_clusters' = Cardinality(FreeIn(Nxt')) + (IF r.pc = "a_take" THEN 1 ELSE 0)
         ELSE free_clusters' = -1
  PROVE  Searching'
<1>1. \A q \in Files : q # p => ~Locked(proc[q]) /\ proc'[q] = proc[q]
  BY DEF Types, Sets
<1>2. proc'[p] = r
  BY DEF Sets
<1>3. \A q \in Files : Sought(Nxt', proc'[q])
  BY <1>1, <1>2, NotSearching
<1>4. \A q \in Files : q # p => proc'[q].pc # "a_take"
  BY <1>1, NotSearching
<1>5. (\E q \in Files : proc'[q].pc = "a_take") <=> r.pc = "a_take"
  BY <1>2, <1>4
<1> QED
  BY <1>3, <1>5 DEF Searching, At

LEMMA MirrorStep ==
  ASSUME NEW own, Mirrored(own), format' = format, backup' = backup,
         NEW p \in Files, NEW r, Sets(p, r), NEW o,
         \A q \in Files : q # p => ClassBlocks(BlocksAt, o, q) = ClassBlocks(BlocksAt, own, q),
         \A k \in 0..(TableSize - 1) : fat'[k] # fat[k] => k \div blksz \in Dirty(BlocksAt, o, r, p),
         Dirty(BlocksAt, own, proc[p], p) \subseteq Dirty(BlocksAt, o, r, p),
         r.pc \in Allocating => ToSet(r.bhs) = ClassBlocks(BlocksAt, o, p)
  PROVE  Mirrored(o)'
<1>1. TableSize' = TableSize /\ blksz' = blksz /\ BlocksAt' = BlocksAt
  BY Frame
<1>2. /\ \A q \in Files : q # p => proc'[q] = proc[q]
      /\ proc'[p] = r
  BY DEF Sets
<1>3. \A q \in Files : proc'[q].pc \in Allocating => ToSet(proc'[q].bhs) = ClassBlocks(BlocksAt, o, q)
  BY <1>2 DEF Mirrored
<1>4. \A q \in Files : q # p => Dirty(BlocksAt, own, proc[q], q) = Dirty(BlocksAt, o, proc'[q], q)
  BY <1>2 DEF Dirty
<1>5. \A k \in 0..(TableSize - 1) : backup'[k] # fat'[k] =>
         \E q \in Files : k \div blksz \in Dirty(BlocksAt, o, proc'[q], q)
  <2> TAKE k \in 0..(TableSize - 1)
  <2> HAVE backup'[k] # fat'[k]
  <2>1. CASE fat'[k] # fat[k]
    BY <1>2, <2>1
  <2>2. CASE fat'[k] = fat[k]
    <3>1. PICK q \in Files : k \div blksz \in Dirty(BlocksAt, own, proc[q], q)
      BY <2>2 DEF Mirrored
    <3>2. k \div blksz \in Dirty(BlocksAt, o, proc'[q], q)
      BY <1>2, <1>4, <3>1
    <3> QED
      BY <3>2
  <2> QED
    BY <2>1, <2>2
<1> QED
  BY <1>1, <1>3, <1>5 DEF Mirrored


-----------------------------------------------------------------------------
(* The variables of a process, and entries that it reads.                     *)

LEMMA Local ==
  ASSUME Types, NEW p \in Files
  PROVE  /\ format \in Formats /\ fat \in Table /\ backup \in Table /\ start \in Starts
         /\ start[p] \in Clusters /\ prev_free \in Clusters
         /\ proc \in [Files -> Locals] /\ proc[p] \in Locals /\ LocalOK(Rights, format.bufs, proc[p])
         /\ (fat_lock = p <=> Locked(proc[p])) /\ format.bufs \in Nat
<1>1. /\ format \in Formats /\ fat \in Table /\ backup \in Table /\ start \in Starts /\ prev_free \in Clusters
      /\ proc \in [Files -> Locals] /\ LocalOK(Rights, format.bufs, proc[p])
      /\ (fat_lock = p <=> Locked(proc[p]))
  BY DEF Types
<1>2. start[p] \in Clusters
  BY <1>1, StartsAssumption
<1>3. format.bufs \in Nat
  BY <1>1, FormatAssumption
<1> QED
  BY <1>1, <1>2, <1>3

LEMMA Fields ==
  ASSUME NEW me \in Locals
  PROVE  /\ me.pc \in Pcs /\ me.fe \in Entries /\ me.prev \in Entries /\ me.n \in Nat /\ me.nr \in Nat
         /\ me.taken \in Seq(Clusters) /\ me.bhs \in Seq(Nat) /\ me.then \in Thens
         /\ me.cl \in Clusters \cup {0, EOF}
BY DEF Locals

LEMMA IdleLocal == Idle \in Locals /\ NoEntry \in Entries /\ NoEntry.bhs = <<>>
BY DEF Idle, Locals, NoEntry, Entries, Pcs, Thens

LEMMA ReadRight ==
  ASSUME format \in Formats, NEW e \in Clusters
  PROVE  /\ ReadBlock(e) \in Rights /\ ReadBlock(e).entry = e /\ ReadBlock(e) \in Entries
         /\ ReadBlock(e).bhs = BlocksAt[e] /\ ReadBlock(e).bhs # <<>> /\ Len(ReadBlock(e).bhs) \in {1, 2}
<1>1. e \in Nat
  BY MarkFacts
<1>2. ReadBlock(e) = [entry |-> e, bhs |-> Blocks(e), ptr |-> Ptr(e)]
  BY <1>1, ReadBlockIs
<1>3. Blocks(e) \in Seq(Nat) /\ Len(Blocks(e)) \in {1, 2} /\ Ptr(e) \in Seq(Nat) /\ Blocks(e) # <<>>
  BY <1>1, BlocksFacts
<1>4. ReadBlock(e) \in Entries
  BY <1>1, <1>2, <1>3 DEF Entries
<1> QED
  BY <1>2, <1>3, <1>4 DEF Rights, BlocksAt

LEMMA RightFacts ==
  ASSUME format \in Formats, NEW fe \in Rights
  PROVE  /\ Right(fe) /\ fe = ReadBlock(fe.entry) /\ fe.entry \in Clusters /\ fe \in Entries
         /\ fe.bhs = BlocksAt[fe.entry] /\ fe.bhs # <<>> /\ Len(fe.bhs) \in {1, 2}
<1>1. PICK e \in Clusters : fe = ReadBlock(e)
  BY DEF Rights
<1> QED
  BY <1>1, ReadRight DEF Right

LEMMA GetNow ==
  ASSUME format \in Formats, fat \in Table, NEW e \in Clusters
  PROVE  Get(ReadBlock(e)) = Nxt[e]
BY GetRight DEF Nxt

LEMMA ReadNow ==
  ASSUME format \in Formats, fat \in Table, NEW fe, fe.bhs = <<>> \/ fe \in Rights, NEW e \in Clusters
  PROVE  EntRead(fe, e) = ReadBlock(e) /\ Get(EntRead(fe, e)) = Nxt[e]
<1>1. fe.bhs = <<>> \/ Right(fe)
  BY RightFacts
<1>2. EntRead(fe, e) = ReadBlock(e)
  BY <1>1, EntReadRight
<1> QED
  BY <1>2, GetNow

(* The entry after one that is read, if these blocks have it.                 *)
LEMMA NextRight ==
  ASSUME format \in Formats, NEW fe \in Rights
  PROVE  /\ EntNext(fe) \in Entries /\ EntNext(fe).entry = fe.entry + 1
         /\ HasNext(EntNext(fe)) => fe.entry + 1 \in Clusters /\ EntNext(fe) \in Rights
<1>0. fe.entry \in Clusters /\ fe = ReadBlock(fe.entry) /\ Right(fe) /\ fe.entry \in Nat
  BY RightFacts, MarkFacts
<1>1. EntNext(fe).entry = fe.entry + 1
  BY <1>0, EntNextRight
<1>2. HasNext(EntNext(fe)) => fe.entry + 1 \in Clusters /\ EntNext(fe) \in Rights
  BY <1>0, EntNextRight DEF Rights
<1>3. fe \in Entries /\ fe.bhs = Blocks(fe.entry) /\ fe.ptr = Ptr(fe.entry)
  <2>1. ReadBlock(fe.entry) = [entry |-> fe.entry, bhs |-> Blocks(fe.entry), ptr |-> Ptr(fe.entry)]
    BY <1>0, ReadBlockIs
  <2>2. ReadBlock(fe.entry).bhs = Blocks(fe.entry) /\ ReadBlock(fe.entry).ptr = Ptr(fe.entry)
    BY <2>1
  <2> QED
    BY <1>0, <2>2, RightFacts
<1> DEFINE e == fe.entry
<1>4. /\ Blocks(e) \in Seq(Nat) /\ Len(Blocks(e)) \in {1, 2} /\ Ptr(e) \in Seq(Nat) /\ Ptr(e)[1] = Byte(e)
      /\ Len(Blocks(e)) = 2 <=> Crosses(e)
      /\ Crosses(e) => bits = 12 /\ Blocks(e)[2] = Blocknr(e) + 1
      /\ bits = 12 => Ptr(e)[2] = Byte(e) + 1
  BY <1>0, BlocksFacts
<1>5. Byte(e) \in Nat /\ Blocknr(e) \in Nat
  BY <1>0, ByteIs, Place
<1>6. NoMore(fe) \in Entries
  <2>1. <<>> \in Seq(Nat) /\ fe.entry + 1 \in Nat
    BY <1>0
  <2> QED
    BY <1>3, <2>1 DEF NoMore, Entries
<1>7. CASE bits = 12
  <2> DEFINE nextp == fe.ptr[2] + 1 + (fe.entry % 2)
  <2>1. nextp \in Nat /\ nextp - 1 \in Nat
    <3>1. fe.ptr[2] = Byte(e) + 1
      BY <1>3, <1>4, <1>7
    <3>2. fe.entry % 2 \in {0, 1}
      BY <1>0
    <3> HIDE DEF e
    <3> QED
      BY <1>5, <3>1, <3>2
  <2> HIDE DEF nextp
  <2>2. <<nextp - 1, nextp>> \in Seq(Nat)
    BY <2>1
  <2>3. [fe EXCEPT !.entry = @ + 1, !.ptr = <<nextp - 1, nextp>>] \in Entries
    <3>1. fe.entry + 1 \in Nat
      BY <1>0
    <3> HIDE DEF e
    <3> QED
      BY <1>3, <2>2, <3>1 DEF Entries
  <2>4. Len(fe.bhs) = 2 => [entry |-> fe.entry + 1, bhs |-> <<fe.bhs[2]>>, ptr |-> <<nextp - 1, nextp>>] \in Entries
    <3> HAVE Len(fe.bhs) = 2
    <3>1. fe.bhs[2] \in Nat
      <4>1. fe.bhs \in Seq(Nat)
        BY <1>3, <1>4
      <4> QED
        BY <4>1
    <3>2. <<fe.bhs[2]>> \in Seq(Nat) /\ fe.entry + 1 \in Nat
      BY <1>0, <3>1
    <3> HIDE DEF e
    <3> QED
      BY <2>2, <3>2 DEF Entries
  <2>5. EntNext(fe) = Next12(fe)
    BY <1>7 DEF EntNext
  <2> QED
    BY <1>1, <1>2, <1>6, <2>3, <2>4, <2>5 DEF Next12, nextp
<1>8. CASE bits # 12
  <2> DEFINE size == bits \div 8
  <2>1. size \in Nat
    BY <1>8, Widths
  <2> HIDE DEF size
  <2>2. <<fe.ptr[1] + size>> \in Seq(Nat)
    <3>1. fe.ptr[1] + size \in Nat
      BY <1>3, <1>4, <1>5, <2>1
    <3> QED
      BY <3>1
  <2>3. [fe EXCEPT !.entry = @ + 1, !.ptr = <<@[1] + size>>] \in Entries
    <3>1. fe.entry + 1 \in Nat
      BY <1>0
    <3> HIDE DEF e
    <3> QED
      BY <1>3, <2>2, <3>1 DEF Entries
  <2>4. EntNext(fe) \in {[fe EXCEPT !.entry = @ + 1, !.ptr = <<@[1] + size>>], NoMore(fe)}
    BY <1>8 DEF EntNext, size
  <2> QED
    BY <1>1, <1>2, <1>6, <2>3, <2>4
<1> QED
  BY <1>7, <1>8

LEMMA WithFacts ==
  ASSUME NEW bhs \in Seq(Nat), NEW b \in Nat
  PROVE  /\ With(bhs, b) \in Seq(Nat) /\ Len(With(bhs, b)) <= Len(bhs) + 1
         /\ ToSet(With(bhs, b)) = ToSet(bhs) \cup {b}
<1>1. CASE b \in ToSet(bhs)
  BY <1>1 DEF With
<1>2. CASE b \notin ToSet(bhs)
  <2>1. With(bhs, b) = Append(bhs, b)
    BY <1>2 DEF With
  <2>2. ToSet(Append(bhs, b)) = ToSet(bhs) \cup {b}
    <3> DEFINE a == Append(bhs, b)
    <3>1. /\ DOMAIN a = 1 .. Len(bhs) + 1 /\ DOMAIN bhs = 1 .. Len(bhs) /\ Len(bhs) \in Nat
          /\ a[Len(bhs) + 1] = b /\ \A i \in 1 .. Len(bhs) : a[i] = bhs[i]
      OBVIOUS
    <3> HIDE DEF a
    <3>2. ToSet(a) \subseteq ToSet(bhs) \cup {b}
      <4> SUFFICES ASSUME NEW i \in DOMAIN a PROVE a[i] \in ToSet(bhs) \cup {b}
        BY DEF ToSet
      <4>1. i \in 1 .. Len(bhs) \/ i = Len(bhs) + 1
        BY <3>1
      <4> QED
        BY <3>1, <4>1 DEF ToSet
    <3>3. ToSet(bhs) \subseteq ToSet(a)
      <4> SUFFICES ASSUME NEW i \in DOMAIN bhs PROVE bhs[i] \in ToSet(a)
        BY DEF ToSet
      <4>1. i \in DOMAIN a /\ a[i] = bhs[i]
        BY <3>1
      <4> QED
        BY <4>1 DEF ToSet
    <3>4. b \in ToSet(a)
      <4>1. Len(bhs) + 1 \in DOMAIN a
        BY <3>1
      <4> QED
        BY <3>1, <4>1 DEF ToSet
    <3> QED
      BY <3>2, <3>3, <3>4 DEF a
  <2> QED
    BY <2>1, <2>2
<1> QED
  BY <1>1, <1>2

LEMMA CollectFacts ==
  ASSUME format \in Formats, NEW bhs \in Seq(Nat), NEW fe \in Rights
  PROVE  /\ Collect(bhs, fe) \in Seq(Nat) /\ Len(Collect(bhs, fe)) <= Len(bhs) + Len(fe.bhs)
         /\ ToSet(Collect(bhs, fe)) = ToSet(bhs) \cup ToSet(fe.bhs)
<1>1. fe.bhs \in Seq(Nat) /\ Len(fe.bhs) \in {1, 2}
  BY RightFacts DEF Entries
<1>2. fe.bhs[1] \in Nat
  BY <1>1
<1> DEFINE one == With(bhs, fe.bhs[1])
<1>3. one \in Seq(Nat) /\ Len(one) <= Len(bhs) + 1 /\ ToSet(one) = ToSet(bhs) \cup {fe.bhs[1]}
  BY <1>2, WithFacts
<1> HIDE DEF one
<1>4. CASE Len(fe.bhs) = 2
  <2>1. fe.bhs[2] \in Nat /\ ToSet(fe.bhs) = {fe.bhs[1], fe.bhs[2]}
    <3>1. DOMAIN fe.bhs = {1, 2}
      BY <1>1, <1>4
    <3>2. fe.bhs[2] \in Nat
      BY <1>1, <3>1
    <3> QED
      BY <3>1, <3>2 DEF ToSet
  <2>2. Collect(bhs, fe) = With(one, fe.bhs[2])
    BY <1>4 DEF Collect, one
  <2>3. /\ With(one, fe.bhs[2]) \in Seq(Nat) /\ Len(With(one, fe.bhs[2])) <= Len(one) + 1
        /\ ToSet(With(one, fe.bhs[2])) = ToSet(one) \cup {fe.bhs[2]}
    BY <1>3, <2>1, WithFacts
  <2> HIDE DEF one
  <2>4. Len(With(one, fe.bhs[2])) <= Len(bhs) + Len(fe.bhs)
    BY <1>3, <1>4, <2>3
  <2> QED
    BY <1>3, <2>1, <2>2, <2>3, <2>4
<1>5. CASE Len(fe.bhs) = 1
  <2>1. ToSet(fe.bhs) = {fe.bhs[1]}
    BY <1>1, <1>5 DEF ToSet
  <2>2. Collect(bhs, fe) = one
    BY <1>5 DEF Collect, one
  <2> QED
    BY <1>3, <1>5, <2>1, <2>2
<1> QED
  BY <1>1, <1>4, <1>5

-----------------------------------------------------------------------------
(* Steps that keep the table.                                                 *)

LEMMA ViewsStep ==
  ASSUME NEW p \in Files, NEW r, Sets(p, r)
  PROVE  Views'[p] = View(r) /\ Views[p] = View(proc[p]) /\ \A q \in Files : q # p => Views'[q] = Views[q]
BY DEF Views, Sets

LEMMA StepKeep ==
  ASSUME Inv, NEW p \in Files, NEW r \in Locals, Sets(p, r),
         format' = format, start' = start, fat' = fat, backup' = backup, prev_free' \in Clusters,
         LocalOK(Rights, format.bufs, r), Locks(p, proc[p], r), Searching',
         \A own, rank : Owned(Nxt, own, rank, start, Views) /\ Mirrored(own) =>
            /\ OwnedBy(Nxt, own, start[p], View(r), p)
            /\ Dirty(BlocksAt, own, proc[p], p) \subseteq Dirty(BlocksAt, own, r, p)
            /\ r.pc \in Allocating => ToSet(r.bhs) = ClassBlocks(BlocksAt, own, p),
         \A c \in Clusters : c \in {View(proc[p]).head, View(proc[p]).fresh} => c \in {View(r).head, View(r).fresh}
  PROVE  Inv'
<1>1. Types /\ fat \in Table /\ backup \in Table /\ format \in Formats
  BY DEF Inv, Types
<1>2. Types'
  BY <1>1, TypesStep
<1>3. PICK own, rank : Owned(Nxt, own, rank, start, Views) /\ Mirrored(own)
  BY DEF Inv
<1>4. /\ OwnedBy(Nxt, own, start[p], View(r), p)
      /\ Dirty(BlocksAt, own, proc[p], p) \subseteq Dirty(BlocksAt, own, r, p)
      /\ r.pc \in Allocating => ToSet(r.bhs) = ClassBlocks(BlocksAt, own, p)
  BY <1>3
<1>5. Nxt' = Nxt
  BY <1>1, TableKept
<1>6. Views'[p] = View(r) /\ Views[p] = View(proc[p]) /\ \A q \in Files : q # p => Views'[q] = Views[q]
  BY ViewsStep
<1>7. Owned(Nxt, own, rank, start, Views')
  BY <1>3, <1>4, <1>6, OwnKeep
<1>8. Owned(Nxt', own, rank, start', Views')
  BY <1>5, <1>7
<1>9. Mirrored(own)'
  BY <1>3, <1>4, MirrorStep
<1> QED
  BY <1>2, <1>8, <1>9 DEF Inv

(* What it is about to do to the chains is the same.                          *)
LEMMA StepSame ==
  ASSUME Inv, NEW p \in Files, NEW r \in Locals, Sets(p, r),
         format' = format, start' = start, fat' = fat, backup' = backup, prev_free' \in Clusters,
         LocalOK(Rights, format.bufs, r), Locks(p, proc[p], r), Searching',
         View(r) = View(proc[p]),
         \A own, rank : Owned(Nxt, own, rank, start, Views) /\ Mirrored(own) =>
            /\ Dirty(BlocksAt, own, proc[p], p) \subseteq Dirty(BlocksAt, own, r, p)
            /\ r.pc \in Allocating => ToSet(r.bhs) = ClassBlocks(BlocksAt, own, p)
  PROVE  Inv'
<1>1. \A own, rank : Owned(Nxt, own, rank, start, Views) /\ Mirrored(own) =>
            /\ OwnedBy(Nxt, own, start[p], View(r), p)
            /\ Dirty(BlocksAt, own, proc[p], p) \subseteq Dirty(BlocksAt, own, r, p)
            /\ r.pc \in Allocating => ToSet(r.bhs) = ClassBlocks(BlocksAt, own, p)
  <2> TAKE own, rank
  <2> HAVE Owned(Nxt, own, rank, start, Views) /\ Mirrored(own)
  <2>1. Views[p] = View(proc[p])
    BY ViewsStep
  <2>2. OwnedBy(Nxt, own, start[p], View(r), p)
    BY <2>1 DEF Owned
  <2> QED
    BY <2>2
<1> QED
  BY <1>1, StepKeep

(* No process searches, before or after.                                      *)
LEMMA SearchKept ==
  ASSUME Searching, NEW p \in Files, NEW r, Sets(p, r), FreeIn(Nxt') = FreeIn(Nxt),
         Sought(Nxt', r), r.pc # "a_take", proc[p].pc # "a_take",
         free_clusters' = free_clusters, free_clus_valid' = free_clus_valid
  PROVE  Searching'
BY SearchStep

LEMMA OnePiece ==
  ASSUME format \in Formats, NEW own, NEW o, NEW q \in Files,
         \A c \in Clusters : (o[c] = <<q, "new">>) <=> (own[c] = <<q, "new">>)
  PROVE  ClassBlocks(BlocksAt, o, q) = ClassBlocks(BlocksAt, own, q)
BY DEF ClassBlocks

LEMMA NoClass ==
  ASSUME NEW own, NEW p \in Files, \A c \in Clusters : own[c] # <<p, "new">>
  PROVE  ClassBlocks(BlocksAt, own, p) = {}
BY DEF ClassBlocks

-----------------------------------------------------------------------------
(* fat_free takes the lock.                                                   *)
LEMMA FreeBeginStep ==
  ASSUME Inv, NEW p \in Files, FreeBegin(p)
  PROVE  Inv'
<1> DEFINE me == proc[p]
           r  == [me EXCEPT !.pc = "f_read"]
<1>1. Types /\ Searching
  BY DEF Inv
<1>2. /\ format \in Formats /\ fat \in Table /\ prev_free \in Clusters /\ proc \in [Files -> Locals]
      /\ me \in Locals /\ LocalOK(Rights, format.bufs, me) /\ (fat_lock = p <=> Locked(me))
  BY <1>1, Local
<1>3. /\ me.pc = "f_lock" /\ fat_lock = NoProc /\ fat_lock' = p /\ Set(p, r)
      /\ format' = format /\ start' = start /\ fat' = fat /\ backup' = backup /\ prev_free' = prev_free
      /\ free_clusters' = free_clusters /\ free_clus_valid' = free_clus_valid
  BY DEF FreeBegin, At, Lock, count
<1>4. /\ r \in Locals /\ r.pc = "f_read" /\ r.fe = me.fe /\ r.prev = me.prev /\ r.n = me.n /\ r.nr = me.nr
      /\ r.taken = me.taken /\ r.bhs = me.bhs /\ r.then = me.then /\ r.cl = me.cl
  BY <1>2 DEF Locals, Pcs, Freeing
<1>5. Sets(p, r)
  BY <1>2, <1>3, <1>4, SetIs
<1> HIDE DEF r
<1>6. LocalOK(Rights, format.bufs, r)
  BY <1>2, <1>3, <1>4 DEF LocalOK, Pc, Allocating, Walking, Freeing, Counting
<1>7. Locked(r) /\ Locks(p, me, r)
  BY <1>3, <1>4 DEF Locks, Locked, Pc
<1>8. View(r) = View(me)
  BY <1>3, <1>4 DEF View, Pc, Allocating, Walking, Freeing
<1>9. Nxt' = Nxt
  BY <1>2, <1>3, TableKept
<1>10. Sought(Nxt', r)
  BY <1>4 DEF Sought, Counting
<1>11. Searching'
  BY <1>1, <1>3, <1>4, <1>5, <1>9, <1>10, SearchKept
<1>12. \A own : Dirty(BlocksAt, own, me, p) \subseteq Dirty(BlocksAt, own, r, p)
  BY <1>3, <1>4 DEF Dirty, Pc, Freeing
<1>13. r.pc \notin Allocating /\ prev_free' \in Clusters
  BY <1>2, <1>3, <1>4 DEF Allocating
<1> QED
  BY <1>3, <1>4, <1>5, <1>6, <1>7, <1>8, <1>11, <1>12, <1>13, StepSame

-----------------------------------------------------------------------------
(* Counting free entries.                                                     *)

LEMMA FreeFinite ==
  ASSUME NEW t, NEW D, D \subseteq FreeIn(t)
  PROVE  IsFiniteSet(D) /\ Cardinality(D) \in Nat
<1>1. IsFiniteSet(Clusters)
  <2>1. START \in Int /\ max_cluster - 1 \in Int
    BY SizeAssumption DEF START
  <2> QED
    BY <2>1, FS_Interval DEF Clusters
<1>2. D \subseteq Clusters
  BY DEF FreeIn
<1> QED
  BY <1>1, <1>2, FS_Subset, FS_CardinalityType

LEMMA FreeOneMore ==
  ASSUME NEW t, NEW u, NEW e \in Clusters, t[e] = FREE, u[e] # FREE, \A c \in Clusters : c # e => u[c] = t[c]
  PROVE  Cardinality(FreeIn(t)) = Cardinality(FreeIn(u)) + 1
<1>1. FreeIn(t) = FreeIn(u) \cup {e} /\ e \notin FreeIn(u)
  BY DEF FreeIn
<1>2. IsFiniteSet(FreeIn(u))
  BY FreeFinite
<1> QED
  BY <1>1, <1>2, FS_AddElement

LEMMA CountNext ==
  ASSUME NEW t, NEW e \in Clusters
  PROVE  Cardinality({c \in FreeIn(t) : c < e + 1})
           = Cardinality({c \in FreeIn(t) : c < e}) + (IF t[e] = FREE THEN 1 ELSE 0)
<1> DEFINE A == {c \in FreeIn(t) : c < e}
           B == {c \in FreeIn(t) : c < e + 1}
<1>1. \A c \in Clusters : c \in Nat
  BY SizeAssumption DEF Clusters, START
<1>2. IsFiniteSet(A) /\ Cardinality(A) \in Nat
  BY FreeFinite
<1>3. \A c \in FreeIn(t) : c \in Nat /\ (c < e + 1 <=> c < e \/ c = e)
  BY <1>1 DEF FreeIn
<1>4. CASE t[e] = FREE
  <2>1. B = A \cup {e} /\ e \notin A
    <3>1. e \in FreeIn(t) /\ e \in Nat
      BY <1>1, <1>4 DEF FreeIn
    <3>2. ~(e < e) /\ e < e + 1
      BY <3>1
    <3> QED
      BY <1>3, <3>1, <3>2
  <2> HIDE DEF A, B
  <2>2. Cardinality(B) = Cardinality(A) + 1
    BY <1>2, <2>1, FS_AddElement
  <2> QED
    BY <1>4, <2>2 DEF A, B
<1>5. CASE t[e] # FREE
  <2>1. B = A
    BY <1>3, <1>5 DEF FreeIn
  <2> QED
    BY <1>2, <1>5, <2>1
<1> QED
  BY <1>4, <1>5

LEMMA CountEnds ==
  ASSUME NEW t
  PROVE  /\ Cardinality({c \in FreeIn(t) : c < START}) = 0
         /\ {c \in FreeIn(t) : c < max_cluster} = FreeIn(t)
<1>1. \A c \in Clusters : c \in Nat /\ ~(c < START) /\ c < max_cluster
  BY SizeAssumption DEF Clusters, START
<1>2. {c \in FreeIn(t) : c < START} = {}
  BY <1>1 DEF FreeIn
<1>3. {c \in FreeIn(t) : c < max_cluster} = FreeIn(t)
  BY <1>1 DEF FreeIn
<1> QED
  BY <1>2, <1>3, FS_EmptySet

-----------------------------------------------------------------------------
(* A call that is done gives the lock up.                                     *)
LEMMA DoneStep ==
  ASSUME Inv, NEW p \in Files, Done(p)
  PROVE  Inv'
<1> DEFINE me == proc[p]
           r  == Idle
<1>1. Types /\ Searching
  BY DEF Inv
<1>2. /\ format \in Formats /\ fat \in Table /\ prev_free \in Clusters /\ proc \in [Files -> Locals]
      /\ me \in Locals /\ LocalOK(Rights, format.bufs, me) /\ (fat_lock = p <=> Locked(me)) /\ format.bufs \in Nat
  BY <1>1, Local
<1>3. /\ me.pc = "unlock" /\ fat_lock' = NoProc /\ Set(p, r)
      /\ format' = format /\ start' = start /\ fat' = fat /\ backup' = backup /\ prev_free' = prev_free
      /\ free_clusters' = free_clusters /\ free_clus_valid' = free_clus_valid
  BY DEF Done, At, Unlock, count
<1>4. /\ r \in Locals /\ r.pc = "idle" /\ r.fe = NoEntry /\ r.taken = <<>> /\ r.bhs = <<>> /\ r.cl = 0
  BY IdleLocal DEF Idle
<1>5. Sets(p, r)
  BY <1>2, <1>3, <1>4, SetIs
<1> HIDE DEF r
<1>6. LocalOK(Rights, format.bufs, r)
  BY <1>2, <1>4 DEF LocalOK, Pc, Allocating, Walking, Freeing, Counting
<1>7. Locked(me) /\ ~Locked(r) /\ Locks(p, me, r)
  BY <1>3, <1>4 DEF Locks, Locked, Pc, Allocating, Counting
<1>8. View(r) = View(me)
  BY <1>3, <1>4 DEF View, Pc, Allocating, Walking, Freeing
<1>9. Nxt' = Nxt
  BY <1>2, <1>3, TableKept
<1>10. Sought(Nxt', r)
  BY <1>4 DEF Sought, Counting
<1>11. Searching'
  BY <1>1, <1>3, <1>4, <1>5, <1>9, <1>10, SearchKept
<1>12. \A own : Dirty(BlocksAt, own, me, p) \subseteq Dirty(BlocksAt, own, r, p)
  <2>1. me.bhs = <<>>
    BY <1>2, <1>3 DEF LocalOK
  <2> QED
    BY <1>3, <1>4, <2>1 DEF Dirty, Pc, Freeing
<1>13. r.pc \notin Allocating /\ prev_free' \in Clusters
  BY <1>2, <1>3, <1>4 DEF Allocating
<1> QED
  BY <1>3, <1>4, <1>5, <1>6, <1>7, <1>8, <1>11, <1>12, <1>13, StepSame

-----------------------------------------------------------------------------
(* fat_count_free_clusters.                                                   *)
LEMMA CountBeginStep ==
  ASSUME Inv, NEW p \in Files, CountBegin(p)
  PROVE  Inv'
<1> DEFINE me == proc[p]
           r  == [Idle EXCEPT !.pc = "c_block", !.fe.entry = START]
<1>1. Types /\ Searching
  BY DEF Inv
<1>2. /\ format \in Formats /\ fat \in Table /\ prev_free \in Clusters /\ proc \in [Files -> Locals]
      /\ me \in Locals /\ LocalOK(Rights, format.bufs, me) /\ (fat_lock = p <=> Locked(me)) /\ format.bufs \in Nat
  BY <1>1, Local
<1>3. /\ me.pc = "idle" /\ fat_lock = NoProc /\ fat_lock' = p /\ Set(p, r)
      /\ format' = format /\ start' = start /\ fat' = fat /\ backup' = backup /\ prev_free' = prev_free
      /\ free_clusters' = free_clusters /\ free_clus_valid' = free_clus_valid
  BY DEF CountBegin, At, Lock, count
<1>4. /\ r \in Locals /\ r.pc = "c_block" /\ r.fe.entry = START /\ r.taken = <<>> /\ r.bhs = <<>> /\ r.n = 0
  BY IdleLocal DEF Idle, Locals, Pcs, Counting, Entries, NoEntry, START
<1>5. Sets(p, r)
  BY <1>2, <1>3, <1>4, SetIs
<1> HIDE DEF r
<1>6. LocalOK(Rights, format.bufs, r)
  <2>1. START \in START .. max_cluster
    BY SizeAssumption DEF START
  <2> QED
    BY <1>2, <1>4, <2>1 DEF LocalOK, Pc, Allocating, Walking, Freeing, Counting
<1>7. Locked(r) /\ Locks(p, me, r)
  BY <1>3, <1>4 DEF Locks, Locked, Pc, Counting
<1>8. View(r) = View(me)
  BY <1>3, <1>4 DEF View, Pc, Allocating, Walking, Freeing
<1>9. Nxt' = Nxt
  BY <1>2, <1>3, TableKept
<1>10. Sought(Nxt', r)
  BY <1>4, CountEnds DEF Sought, Counting
<1>11. Searching'
  BY <1>1, <1>3, <1>4, <1>5, <1>9, <1>10, SearchKept
<1>12. \A own : Dirty(BlocksAt, own, me, p) \subseteq Dirty(BlocksAt, own, r, p)
  <2>1. me.bhs = <<>>
    BY <1>2, <1>3 DEF LocalOK
  <2> QED
    BY <1>3, <1>4, <2>1 DEF Dirty, Pc, Freeing
<1>13. r.pc \notin Allocating /\ prev_free' \in Clusters
  BY <1>2, <1>3, <1>4 DEF Allocating
<1> QED
  BY <1>3, <1>4, <1>5, <1>6, <1>7, <1>8, <1>11, <1>12, <1>13, StepSame

LEMMA CountScanStep ==
  ASSUME Inv, NEW p \in Files, CountScan(p)
  PROVE  Inv'
<1> DEFINE me == proc[p]
           fe == EntNext(me.fe)
           n  == IF Get(me.fe) = FREE THEN me.n + 1 ELSE me.n
           r  == [me EXCEPT !.pc = IF HasNext(fe) THEN "c_scan" ELSE "c_block", !.n = n, !.fe = fe]
<1>1. Types /\ Searching
  BY DEF Inv
<1>2. /\ format \in Formats /\ fat \in Table /\ prev_free \in Clusters /\ proc \in [Files -> Locals]
      /\ me \in Locals /\ LocalOK(Rights, format.bufs, me) /\ (fat_lock = p <=> Locked(me)) /\ format.bufs \in Nat
  BY <1>1, Local
<1>3. /\ me.pc = "c_scan" /\ fat_lock' = fat_lock /\ Set(p, r)
      /\ format' = format /\ start' = start /\ fat' = fat /\ backup' = backup /\ prev_free' = prev_free
      /\ free_clusters' = free_clusters /\ free_clus_valid' = free_clus_valid
  BY DEF CountScan, At, count
<1>4. me.fe \in Rights /\ me.bhs = <<>>
  BY <1>2, <1>3 DEF LocalOK, Pc, Counting
<1>5. me.fe.entry \in Clusters /\ Get(me.fe) = Nxt[me.fe.entry]
  BY <1>2, <1>4, RightFacts, GetNow
<1>6. fe \in Entries /\ fe.entry = me.fe.entry + 1 /\ (HasNext(fe) => fe \in Rights)
  BY <1>2, <1>4, NextRight
<1>7. n \in Nat /\ me.n = Cardinality({c \in FreeIn(Nxt) : c < me.fe.entry})
  BY <1>1, <1>2, <1>3, Fields DEF Searching, Sought, Counting
<1> HIDE DEF fe, n
<1>8. /\ r \in Locals /\ r.pc = (IF HasNext(fe) THEN "c_scan" ELSE "c_block") /\ r.fe = fe /\ r.n = n
      /\ r.taken = me.taken /\ r.bhs = me.bhs
  BY <1>2, <1>6, <1>7 DEF Locals, Pcs, Counting
<1>9. Sets(p, r)
  BY <1>2, <1>3, <1>8, SetIs
<1> HIDE DEF r
<1>10. LocalOK(Rights, format.bufs, r)
  <2>1. fe.entry \in START .. max_cluster
    BY <1>5, <1>6, SizeAssumption DEF Clusters, START
  <2> QED
    BY <1>2, <1>4, <1>6, <1>8, <2>1 DEF LocalOK, Pc, Allocating, Walking, Freeing, Counting
<1>11. Locks(p, me, r)
  BY <1>3, <1>8 DEF Locks, Locked, Pc, Counting
<1>12. View(r) = View(me)
  BY <1>3, <1>8 DEF View, Pc, Allocating, Walking, Freeing
<1>13. Nxt' = Nxt
  BY <1>2, <1>3, TableKept
<1>14. n = Cardinality({c \in FreeIn(Nxt) : c < me.fe.entry + 1})
  <2> DEFINE e == me.fe.entry
             a == Cardinality({c \in FreeIn(Nxt) : c < e})
             b == Cardinality({c \in FreeIn(Nxt) : c < e + 1})
  <2>1. b = a + (IF Nxt[e] = FREE THEN 1 ELSE 0)
    BY <1>5, CountNext
  <2>2. me.n = a /\ me.n \in Nat
    BY <1>2, <1>7, Fields
  <2>3. n = me.n + (IF Nxt[e] = FREE THEN 1 ELSE 0)
    BY <1>5, <2>2 DEF n
  <2> HIDE DEF a, b
  <2>4. b = n
    BY <2>1, <2>2, <2>3
  <2> QED
    BY <2>4 DEF b
<1>15. Sought(Nxt', r)
  BY <1>6, <1>8, <1>13, <1>14 DEF Sought, Counting
<1>16. Searching'
  BY <1>1, <1>3, <1>8, <1>9, <1>13, <1>15, SearchKept
<1>17. \A own : Dirty(BlocksAt, own, me, p) \subseteq Dirty(BlocksAt, own, r, p)
  BY <1>3, <1>4, <1>8 DEF Dirty, Pc, Freeing
<1>18. r.pc \notin Allocating /\ prev_free' \in Clusters
  BY <1>2, <1>3, <1>8 DEF Allocating
<1> QED
  BY <1>3, <1>8, <1>9, <1>10, <1>11, <1>12, <1>16, <1>17, <1>18, StepSame

LEMMA CountBlockStep ==
  ASSUME Inv, NEW p \in Files, CountBlock(p)
  PROVE  Inv'
<1> DEFINE me == proc[p]
<1>1. Types /\ Searching
  BY DEF Inv
<1>2. /\ format \in Formats /\ fat \in Table /\ prev_free \in Clusters /\ proc \in [Files -> Locals]
      /\ me \in Locals /\ LocalOK(Rights, format.bufs, me) /\ (fat_lock = p <=> Locked(me)) /\ format.bufs \in Nat
  BY <1>1, Local
<1>3. /\ me.pc = "c_block" /\ fat_lock' = fat_lock
      /\ format' = format /\ start' = start /\ fat' = fat /\ backup' = backup /\ prev_free' = prev_free
  BY DEF CountBlock, At
<1>4. /\ me.fe.entry \in START .. max_cluster /\ me.bhs = <<>>
      /\ me.n = Cardinality({c \in FreeIn(Nxt) : c < me.fe.entry})
  BY <1>1, <1>2, <1>3 DEF LocalOK, Counting, Searching, Sought
<1>5. Nxt' = Nxt /\ prev_free' \in Clusters
  BY <1>2, <1>3, TableKept
<1>6. CASE me.fe.entry < max_cluster
  <2> DEFINE r == [me EXCEPT !.pc = "c_scan", !.fe = ReadBlock(me.fe.entry)]
  <2>1. me.fe.entry \in Clusters
    BY <1>4, <1>6, SizeAssumption DEF Clusters, START
  <2>2. /\ ReadBlock(me.fe.entry) \in Rights /\ ReadBlock(me.fe.entry).entry = me.fe.entry
        /\ ReadBlock(me.fe.entry) \in Entries
    BY <1>2, <2>1, ReadRight
  <2>3. Set(p, r) /\ free_clusters' = free_clusters /\ free_clus_valid' = free_clus_valid
    BY <1>6 DEF CountBlock, count
  <2>4. /\ r \in Locals /\ r.pc = "c_scan" /\ r.fe = ReadBlock(me.fe.entry) /\ r.n = me.n
        /\ r.taken = me.taken /\ r.bhs = me.bhs
    BY <1>2, <2>2 DEF Locals, Pcs, Counting
  <2>5. Sets(p, r)
    BY <1>2, <2>3, <2>4, SetIs
  <2> HIDE DEF r
  <2>6. LocalOK(Rights, format.bufs, r)
    BY <1>2, <1>4, <2>2, <2>4 DEF LocalOK, Pc, Allocating, Walking, Freeing, Counting
  <2>7. Locks(p, me, r)
    BY <1>3, <2>4 DEF Locks, Locked, Pc, Counting
  <2>8. View(r) = View(me)
    BY <1>3, <2>4 DEF View, Pc, Allocating, Walking, Freeing
  <2>9. Sought(Nxt', r)
    BY <1>4, <1>5, <2>2, <2>4 DEF Sought, Counting
  <2>10. Searching'
    BY <1>1, <1>3, <1>5, <2>3, <2>4, <2>5, <2>9, SearchKept
  <2>11. \A own : Dirty(BlocksAt, own, me, p) \subseteq Dirty(BlocksAt, own, r, p)
    BY <1>3, <1>4, <2>4 DEF Dirty, Pc, Freeing
  <2>12. r.pc \notin Allocating
    BY <2>4 DEF Allocating
  <2> QED
    BY <1>3, <1>5, <2>4, <2>5, <2>6, <2>7, <2>8, <2>10, <2>11, <2>12, StepSame
<1>7. CASE ~(me.fe.entry < max_cluster)
  <2> DEFINE r == [Idle EXCEPT !.pc = "unlock"]
  <2>1. me.fe.entry = max_cluster
    BY <1>4, <1>7, SizeAssumption DEF START
  <2>2. me.n = Cardinality(FreeIn(Nxt))
    BY <1>4, <2>1, CountEnds
  <2>3. Set(p, r) /\ free_clusters' = me.n /\ free_clus_valid' = TRUE
    BY <1>7 DEF CountBlock
  <2>4. /\ r \in Locals /\ r.pc = "unlock" /\ r.fe = NoEntry /\ r.taken = <<>> /\ r.bhs = <<>>
    BY IdleLocal DEF Idle, Locals, Pcs
  <2>5. Sets(p, r)
    BY <1>2, <2>3, <2>4, SetIs
  <2> HIDE DEF r
  <2>6. LocalOK(Rights, format.bufs, r)
    BY <1>2, <2>4 DEF LocalOK, Pc, Allocating, Walking, Freeing, Counting
  <2>7. Locked(me) /\ Locks(p, me, r)
    BY <1>3, <2>4 DEF Locks, Locked, Pc, Counting
  <2>8. View(r) = View(me)
    BY <1>3, <2>4 DEF View, Pc, Allocating, Walking, Freeing
  <2>9. Sought(Nxt', r)
    BY <2>4 DEF Sought, Counting
  <2>10. Searching'
    <3>1. Cardinality(FreeIn(Nxt)) \in Nat
      BY FreeFinite
    <3> QED
      BY <1>1, <1>2, <1>5, <2>2, <2>3, <2>4, <2>5, <2>7, <2>9, <3>1, SearchLocked
  <2>11. \A own : Dirty(BlocksAt, own, me, p) \subseteq Dirty(BlocksAt, own, r, p)
    BY <1>3, <1>4, <2>4 DEF Dirty, Pc, Freeing
  <2>12. r.pc \notin Allocating
    BY <2>4 DEF Allocating
  <2> QED
    BY <1>3, <1>5, <2>4, <2>5, <2>6, <2>7, <2>8, <2>10, <2>11, <2>12, StepSame
<1> QED
  BY <1>6, <1>7

-----------------------------------------------------------------------------
(* fat_alloc_clusters.                                                        *)

LEMMA SeenFacts ==
  ASSUME NEW c \in Clusters, NEW e \in START .. max_cluster, NEW n \in START .. max_cluster
  PROVE  /\ e # START => ~Seen(c, e, START)
         /\ Seen(c, START, n) => Seen(c, max_cluster, n)
         /\ Seen(c, e + 1, n + 1) => c = e \/ Seen(c, e, n)
         /\ e # max_cluster /\ n + 1 = max_cluster => c = e \/ Seen(c, e, n)
BY SizeAssumption DEF Seen, Clusters, START

LEMMA AdvanceRight ==
  ASSUME format \in Formats, NEW m \in Locals, m.pc \in Allocating, m.fe \in Rights, m.n \in Clusters,
         NEW t, t[m.fe.entry] # FREE,
         \A c \in Clusters : Seen(c, m.fe.entry, m.n) => t[c] # FREE
  PROVE  LET r == Advance(m)
         IN  /\ r \in Locals /\ r.pc \in {"a_block", "a_scan"}
             /\ r.prev = m.prev /\ r.nr = m.nr /\ r.taken = m.taken /\ r.bhs = m.bhs
             /\ r.pc = "a_scan" => r.fe \in Rights /\ r.n \in Clusters
             /\ r.pc = "a_block" => r.n \in START .. max_cluster /\ r.fe.entry \in START .. max_cluster
             /\ Sought(t, r)
<1> DEFINE r  == Advance(m)
           fe == EntNext(m.fe)
           e  == m.fe.entry
<1>1. e \in Clusters /\ fe \in Entries /\ fe.entry = e + 1 /\ (HasNext(fe) => fe \in Rights)
  BY RightFacts, NextRight
<1>2. /\ e \in START .. max_cluster /\ e # max_cluster /\ e + 1 \in START .. max_cluster
      /\ m.n \in START .. max_cluster /\ m.n + 1 \in START .. max_cluster /\ m.n + 1 \in Nat
      /\ m.n + 1 # max_cluster => m.n + 1 \in Clusters
  BY <1>1, SizeAssumption DEF Clusters, START
<1>3. \A c \in Clusters : Seen(c, e + 1, m.n + 1) => t[c] # FREE
  <2> TAKE c \in Clusters
  <2> HAVE Seen(c, e + 1, m.n + 1)
  <2>1. c = e \/ Seen(c, e, m.n)
    BY <1>2, SeenFacts
  <2> QED
    BY <2>1
<1>4. CASE m.n + 1 = max_cluster
  <2>1. \A c \in Clusters : t[c] # FREE
    <3> TAKE c \in Clusters
    <3>1. c = e \/ Seen(c, e, m.n)
      BY <1>2, <1>4, SeenFacts
    <3> QED
      BY <3>1
  <2>2. r = [m EXCEPT !.pc = "a_block", !.n = m.n + 1]
    BY <1>4 DEF Advance
  <2> HIDE DEF r
  <2>3. /\ r \in Locals /\ r.pc = "a_block" /\ r.fe = m.fe /\ r.n = m.n + 1
        /\ r.prev = m.prev /\ r.nr = m.nr /\ r.taken = m.taken /\ r.bhs = m.bhs
    BY <1>2, <2>2 DEF Locals, Pcs, Allocating
  <2>4. FreeIn(t) = {}
    BY <2>1 DEF FreeIn
  <2>5. Sought(t, r)
    BY <2>1, <2>3, <2>4 DEF Sought, Counting
  <2> QED
    BY <1>2, <2>3, <2>5 DEF r
<1>5. CASE m.n + 1 # max_cluster
  <2>1. r = [m EXCEPT !.pc = IF HasNext(fe) THEN "a_scan" ELSE "a_block", !.n = m.n + 1, !.fe = fe]
    BY <1>5 DEF Advance
  <2> HIDE DEF r, fe
  <2>2. /\ r \in Locals /\ r.pc = (IF HasNext(fe) THEN "a_scan" ELSE "a_block") /\ r.fe = fe /\ r.n = m.n + 1
        /\ r.prev = m.prev /\ r.nr = m.nr /\ r.taken = m.taken /\ r.bhs = m.bhs
    BY <1>1, <1>2, <2>1 DEF Locals, Pcs, Allocating
  <2>3. Sought(t, r)
    BY <1>1, <1>3, <1>5, <2>2 DEF Sought, Counting
  <2> QED
    BY <1>1, <1>2, <1>5, <2>2, <2>3 DEF r
<1> QED
  BY <1>4, <1>5

LEMMA AllocBeginStep ==
  ASSUME Inv, NEW p \in Files, AllocBegin(p)
  PROVE  Inv'
<1> DEFINE me == proc[p]
<1>1. Types /\ Searching
  BY DEF Inv
<1>2. /\ format \in Formats /\ fat \in Table /\ prev_free \in Clusters /\ proc \in [Files -> Locals]
      /\ me \in Locals /\ LocalOK(Rights, format.bufs, me) /\ (fat_lock = p <=> Locked(me)) /\ format.bufs \in Nat
  BY <1>1, Local
<1>3. /\ me.pc = "idle" /\ fat_lock = NoProc /\ fat_lock' = p
      /\ format' = format /\ start' = start /\ fat' = fat /\ backup' = backup /\ prev_free' = prev_free
      /\ free_clusters' = free_clusters /\ free_clus_valid' = free_clus_valid
  BY DEF AllocBegin, At, Lock, count
<1>4. PICK nr \in 1 .. format.bufs \div 2 :
        Set(p, [Idle EXCEPT !.pc = IF free_clusters # -1 /\ free_clus_valid /\ free_clusters < nr
                                   THEN "full" ELSE "a_block",
                            !.nr = nr, !.n = START, !.fe.entry = prev_free + 1])
  BY DEF AllocBegin
<1> DEFINE short == free_clusters # -1 /\ free_clus_valid /\ free_clusters < nr
           e     == prev_free + 1
           r     == [Idle EXCEPT !.pc = IF short THEN "full" ELSE "a_block",
                                 !.nr = nr, !.n = START, !.fe.entry = e]
<1>5. nr \in Nat /\ 0 < nr /\ 2 * nr <= format.bufs
  BY <1>2
<1>6. e \in Nat /\ e \in START .. max_cluster /\ e # START /\ START \in Nat /\ START \in START .. max_cluster /\ START # max_cluster
  BY <1>2, SizeAssumption DEF Clusters, START
<1>7. Set(p, r)
  BY <1>4
<1> HIDE DEF short, e
<1>8. /\ r \in Locals /\ r.pc = (IF short THEN "full" ELSE "a_block") /\ r.fe.entry = e /\ r.n = START
      /\ r.nr = nr /\ r.taken = <<>> /\ r.bhs = <<>> /\ r.prev = NoEntry
  BY <1>5, <1>6, IdleLocal DEF Idle, Locals, Pcs, Allocating, Entries, NoEntry
<1>9. Sets(p, r)
  BY <1>2, <1>7, <1>8, SetIs
<1> HIDE DEF r
<1>10. LocalOK(Rights, format.bufs, r)
  <2>1. NoEntry.bhs = <<>>
    BY IdleLocal
  <2> QED
    BY <1>2, <1>5, <1>6, <1>8, <2>1 DEF LocalOK, Pc, Allocating, Walking, Freeing, Counting
<1>11. Locked(r) /\ Locks(p, me, r)
  BY <1>3, <1>8 DEF Locks, Locked, Pc, Allocating
<1>12. View(r) = View(me)
  BY <1>3, <1>8 DEF View, Pc, Allocating, Walking, Freeing
<1>13. Nxt' = Nxt
  BY <1>2, <1>3, TableKept
<1>14. Sought(Nxt', r)
  <2>1. \A c \in Clusters : ~Seen(c, e, START)
    BY <1>6, SeenFacts
  <2>2. short => Cardinality(FreeIn(Nxt)) < nr
    <3>1. Cardinality(FreeIn(Nxt)) \in Nat
      BY FreeFinite
    <3>2. short => free_clusters < nr /\ \/ free_clusters = Cardinality(FreeIn(Nxt)) + 1
                                         \/ free_clusters = Cardinality(FreeIn(Nxt)) + 0
      BY <1>1 DEF Searching, short
    <3> QED
      BY <1>5, <3>1, <3>2
  <2>3. Cardinality(FreeIn(Nxt)) \in Nat
    BY FreeFinite
  <2> QED
    BY <1>6, <1>8, <1>13, <2>1, <2>2, <2>3 DEF Sought, Counting
<1>15. Searching'
  BY <1>1, <1>3, <1>8, <1>9, <1>13, <1>14, SearchKept
<1>16. ASSUME NEW own, NEW rank, Owned(Nxt, own, rank, start, Views), Mirrored(own)
       PROVE  /\ Dirty(BlocksAt, own, me, p) \subseteq Dirty(BlocksAt, own, r, p)
              /\ r.pc \in Allocating => ToSet(r.bhs) = ClassBlocks(BlocksAt, own, p)
  <2>1. me.bhs = <<>>
    BY <1>2, <1>3 DEF LocalOK
  <2>2. ToSet(<<>>) = {}
    BY DEF ToSet
  <2>3. Dirty(BlocksAt, own, me, p) = {}
    BY <1>3, <2>1, <2>2 DEF Dirty, Pc, Freeing
  <2>4. Views[p].head \notin Clusters
    <3>1. Views[p] = View(me) /\ View(me).head = 0
      BY <1>3, <1>9, ViewsStep DEF View, Pc, Allocating, Walking, Freeing
    <3> QED
      BY <1>2, <3>1, OwnFacts
  <2>5. ClassBlocks(BlocksAt, own, p) = {}
    <3>1. \A c \in Clusters : own[c] # <<p, "new">>
      BY <1>2, <1>16, <2>4, NoOrphan
    <3> QED
      BY <3>1, NoClass
  <2> QED
    BY <1>8, <2>2, <2>3, <2>5
<1>17. prev_free' \in Clusters
  BY <1>2, <1>3
<1> QED
  BY <1>3, <1>8, <1>9, <1>10, <1>11, <1>12, <1>15, <1>16, <1>17, StepSame

LEMMA AllocBlockStep ==
  ASSUME Inv, NEW p \in Files, AllocBlock(p)
  PROVE  Inv'
<1> DEFINE me == proc[p]
<1>1. Types /\ Searching
  BY DEF Inv
<1>2. /\ format \in Formats /\ fat \in Table /\ prev_free \in Clusters /\ proc \in [Files -> Locals]
      /\ me \in Locals /\ LocalOK(Rights, format.bufs, me) /\ (fat_lock = p <=> Locked(me)) /\ format.bufs \in Nat
  BY <1>1, Local
<1>3. /\ me.pc = "a_block" /\ fat_lock' = fat_lock
      /\ format' = format /\ start' = start /\ fat' = fat /\ backup' = backup /\ prev_free' = prev_free
  BY DEF AllocBlock, At
<1>4. /\ me.fe.entry \in START .. max_cluster /\ me.n \in START .. max_cluster
      /\ Len(me.taken) < me.nr /\ 2 * me.nr <= format.bufs /\ Len(me.bhs) <= 2 * Len(me.taken)
      /\ IF me.taken = <<>> THEN me.prev.bhs = <<>> ELSE me.prev \in Rights
      /\ Len(me.bhs) <= format.bufs
  BY <1>2, <1>3 DEF LocalOK, Allocating
<1>5. /\ \A c \in Clusters : Seen(c, me.fe.entry, me.n) => Nxt[c] # FREE
      /\ me.n = max_cluster => FreeIn(Nxt) = {}
  BY <1>1, <1>3 DEF Searching, Sought
<1>6. Nxt' = Nxt /\ prev_free' \in Clusters
  BY <1>2, <1>3, TableKept
<1>7. \A own : Mirrored(own) => ToSet(me.bhs) = ClassBlocks(BlocksAt, own, p)
  BY <1>3 DEF Mirrored, Allocating
<1>8. CASE me.n < max_cluster
  <2> DEFINE e == Wrap(me.fe.entry)
             r == [me EXCEPT !.pc = "a_scan", !.fe = ReadBlock(e)]
  <2>1. /\ e \in Clusters /\ me.n \in Clusters
        /\ e = me.fe.entry \/ (e = START /\ me.fe.entry = max_cluster)
    BY <1>4, <1>8, SizeAssumption DEF Clusters, START, Wrap
  <2>2. Set(p, r) /\ free_clusters' = free_clusters /\ free_clus_valid' = free_clus_valid
    BY <1>8 DEF AllocBlock, count
  <2> HIDE DEF e
  <2>3. ReadBlock(e) \in Rights /\ ReadBlock(e).entry = e /\ ReadBlock(e) \in Entries
    BY <1>2, <2>1, ReadRight
  <2>4. /\ r \in Locals /\ r.pc = "a_scan" /\ r.fe = ReadBlock(e) /\ r.n = me.n /\ r.nr = me.nr /\ r.prev = me.prev
        /\ r.taken = me.taken /\ r.bhs = me.bhs
    BY <1>2, <2>3 DEF Locals, Pcs, Allocating
  <2>5. Sets(p, r)
    BY <1>2, <2>2, <2>4, SetIs
  <2> HIDE DEF r
  <2>6. LocalOK(Rights, format.bufs, r)
    BY <1>4, <2>1, <2>3, <2>4 DEF LocalOK, Pc, Allocating, Walking, Freeing, Counting
  <2>7. Locks(p, me, r)
    BY <1>3, <2>4 DEF Locks, Locked, Pc, Allocating
  <2>8. View(r) = View(me)
    BY <1>3, <2>4 DEF View, Pc, Allocating, Walking, Freeing
  <2>9. Sought(Nxt', r)
    <3>1. \A c \in Clusters : Seen(c, e, me.n) => Nxt[c] # FREE
      <4> TAKE c \in Clusters
      <4> HAVE Seen(c, e, me.n)
      <4>1. Seen(c, me.fe.entry, me.n)
        BY <1>4, <2>1, SeenFacts
      <4> QED
        BY <1>5, <4>1
    <3> QED
      BY <1>6, <2>3, <2>4, <3>1 DEF Sought, Counting
  <2>10. Searching'
    BY <1>1, <1>3, <1>6, <2>2, <2>4, <2>5, <2>9, SearchKept
  <2>11. \A own : Dirty(BlocksAt, own, me, p) \subseteq Dirty(BlocksAt, own, r, p)
    BY <1>3, <2>4 DEF Dirty, Pc, Freeing
  <2>12. \A own : Mirrored(own) => ToSet(r.bhs) = ClassBlocks(BlocksAt, own, p)
    BY <1>7, <2>4
  <2> QED
    BY <1>3, <1>6, <2>4, <2>5, <2>6, <2>7, <2>8, <2>10, <2>11, <2>12, StepSame
<1>9. CASE ~(me.n < max_cluster)
  <2> DEFINE r == [me EXCEPT !.pc = "full"]
  <2>1. me.n = max_cluster
    BY <1>4, <1>9, SizeAssumption DEF START
  <2>2. Set(p, r) /\ free_clusters' = 0 /\ free_clus_valid' = TRUE
    BY <1>9 DEF AllocBlock
  <2>3. /\ r \in Locals /\ r.pc = "full" /\ r.n = me.n /\ r.nr = me.nr /\ r.prev = me.prev
        /\ r.taken = me.taken /\ r.bhs = me.bhs
    BY <1>2 DEF Locals, Pcs, Allocating
  <2>4. Sets(p, r)
    BY <1>2, <2>2, <2>3, SetIs
  <2> HIDE DEF r
  <2>5. LocalOK(Rights, format.bufs, r)
    BY <1>4, <2>3 DEF LocalOK, Pc, Allocating, Walking, Freeing, Counting
  <2>6. Locked(me) /\ Locks(p, me, r)
    BY <1>3, <2>3 DEF Locks, Locked, Pc, Allocating
  <2>7. View(r) = View(me)
    BY <1>3, <2>3 DEF View, Pc, Allocating, Walking, Freeing
  <2>8. Cardinality(FreeIn(Nxt)) = 0
    BY <1>5, <2>1, FS_EmptySet
  <2>9. Sought(Nxt', r)
    <3>1. Len(me.taken) \in Nat
      BY <1>2, Fields
    <3> QED
      BY <1>4, <1>6, <2>3, <2>8, <3>1 DEF Sought, Counting
  <2>10. Searching'
    BY <1>1, <1>2, <1>6, <2>2, <2>3, <2>4, <2>6, <2>8, <2>9, SearchLocked
  <2>11. \A own : Dirty(BlocksAt, own, me, p) \subseteq Dirty(BlocksAt, own, r, p)
    BY <1>3, <2>3 DEF Dirty, Pc, Freeing
  <2>12. \A own : Mirrored(own) => ToSet(r.bhs) = ClassBlocks(BlocksAt, own, p)
    BY <1>7, <2>3
  <2> QED
    BY <1>3, <1>6, <2>3, <2>4, <2>5, <2>6, <2>7, <2>10, <2>11, <2>12, StepSame
<1> QED
  BY <1>8, <1>9

LEMMA NoBlocks == ToSet(<<>>) = {}
BY DEF ToSet

(* What a call that failed took, is about to be freed.                        *)
LEMMA GiveBackIs ==
  ASSUME NEW me \in Locals, me.pc \in Allocating \cup Walking, me.taken # <<>>, format \in Formats
  PROVE  /\ GiveBack(me) \in Locals /\ GiveBack(me).pc = "f_lock" /\ GiveBack(me).cl = me.taken[1]
         /\ GiveBack(me).fe = NoEntry /\ GiveBack(me).bhs = <<>> /\ GiveBack(me).taken = <<>>
         /\ me.taken[1] \in Clusters /\ View(me).head = me.taken[1]
<1>1. me.taken \in Seq(Clusters)
  BY Fields
<1>2. me.taken[1] \in Clusters
  BY <1>1
<1>3. GiveBack(me) = [Idle EXCEPT !.pc = "f_lock", !.cl = me.taken[1]]
  BY DEF GiveBack
<1>4. View(me).head = me.taken[1]
  BY DEF View, Pc, Allocating, Walking
<1> QED
  BY <1>2, <1>3, <1>4, IdleLocal DEF Idle, Locals, Pcs, Freeing

LEMMA FreeingView ==
  ASSUME NEW r, r.pc \in Freeing
  PROVE  View(r) = [head |-> r.cl, fresh |-> 0, last |-> 0, walk |-> 0, end |-> 0]
BY DEF View, Pc, Freeing, Allocating, Walking

LEMMA AllocFailsStep ==
  ASSUME Inv, NEW p \in Files, AllocFails(p)
  PROVE  Inv'
<1> DEFINE me == proc[p]
           r  == GiveBack(me)
<1>1. Types /\ Searching
  BY DEF Inv
<1>2. /\ format \in Formats /\ fat \in Table /\ prev_free \in Clusters /\ proc \in [Files -> Locals]
      /\ me \in Locals /\ LocalOK(Rights, format.bufs, me) /\ (fat_lock = p <=> Locked(me)) /\ format.bufs \in Nat
  BY <1>1, Local
<1>3. /\ me.pc \in {"full", "a_scan"} /\ fat_lock' = NoProc /\ Set(p, r)
      /\ format' = format /\ start' = start /\ fat' = fat /\ backup' = backup /\ prev_free' = prev_free
      /\ free_clusters' = free_clusters /\ free_clus_valid' = free_clus_valid
  BY DEF AllocFails, At, Unlock, count
<1>4. me.pc \in Allocating /\ Pc(me) = me.pc /\ me.pc # "a_take" /\ Locked(me)
  BY <1>3 DEF Allocating, Pc, Locked
<1>5. Nxt' = Nxt /\ prev_free' \in Clusters
  BY <1>2, <1>3, TableKept
<1>6. ASSUME NEW own, Mirrored(own)
      PROVE  Dirty(BlocksAt, own, me, p) = ClassBlocks(BlocksAt, own, p)
  BY <1>3, <1>4, <1>6 DEF Mirrored, Dirty, Freeing
<1>7. CASE me.taken = <<>>
  <2>1. r = Idle
    BY <1>7 DEF GiveBack
  <2> HIDE DEF r
  <2>2. r \in Locals /\ r.pc = "idle" /\ r.fe = NoEntry /\ r.taken = <<>> /\ r.bhs = <<>> /\ r.cl = 0
    BY <2>1, IdleLocal DEF Idle
  <2>3. Sets(p, r)
    BY <1>2, <1>3, <2>2, SetIs
  <2>4. LocalOK(Rights, format.bufs, r)
    BY <1>2, <2>2 DEF LocalOK, Pc, Allocating, Walking, Freeing, Counting
  <2>5. Locks(p, me, r)
    BY <1>3, <1>4, <2>2 DEF Locks, Locked, Pc, Allocating, Counting
  <2>6. View(r) = View(me) /\ View(me).head = 0
    BY <1>3, <1>7, <2>2 DEF View, Pc, Allocating, Walking, Freeing
  <2>7. Sought(Nxt', r)
    BY <2>2 DEF Sought, Counting
  <2>8. Searching'
    BY <1>1, <1>3, <1>4, <1>5, <2>2, <2>3, <2>7, SearchKept
  <2>9. ASSUME NEW own, NEW rank, Owned(Nxt, own, rank, start, Views), Mirrored(own)
        PROVE  Dirty(BlocksAt, own, me, p) \subseteq Dirty(BlocksAt, own, r, p)
    <3>1. Views[p].head \notin Clusters
      <4>1. Views[p] = View(me)
        BY <2>3, ViewsStep
      <4> QED
        BY <1>2, <2>6, <4>1, OwnFacts
    <3>2. \A c \in Clusters : own[c] # <<p, "new">>
      BY <1>2, <2>9, <3>1, NoOrphan
    <3> QED
      BY <1>6, <2>9, <3>2, NoClass
  <2>10. r.pc \notin Allocating
    BY <2>2 DEF Allocating
  <2> QED
    BY <1>3, <1>5, <2>2, <2>3, <2>4, <2>5, <2>6, <2>8, <2>9, <2>10, StepSame
<1>8. CASE me.taken # <<>>
  <2>1. /\ r \in Locals /\ r.pc = "f_lock" /\ r.cl = me.taken[1] /\ r.fe = NoEntry /\ r.bhs = <<>> /\ r.taken = <<>>
        /\ me.taken[1] \in Clusters /\ View(me).head = me.taken[1]
    BY <1>2, <1>4, <1>8, GiveBackIs
  <2> HIDE DEF r
  <2>2. Sets(p, r)
    BY <1>2, <1>3, <2>1, SetIs
  <2>3. LocalOK(Rights, format.bufs, r)
    BY <1>2, <2>1, IdleLocal DEF LocalOK, Pc, Allocating, Walking, Freeing, Counting
  <2>4. Locks(p, me, r)
    BY <1>3, <1>4, <2>1 DEF Locks, Locked, Pc, Allocating, Counting
  <2>5. Sought(Nxt', r)
    BY <2>1 DEF Sought, Counting
  <2>6. Searching'
    BY <1>1, <1>3, <1>4, <1>5, <2>1, <2>2, <2>5, SearchKept
  <2>7. View(r) = [head |-> me.taken[1], fresh |-> 0, last |-> 0, walk |-> 0, end |-> 0] /\ View(me).fresh = 0
    BY <1>3, <2>1, FreeingView DEF Freeing, View
  <2>8. ASSUME NEW own, NEW rank, Owned(Nxt, own, rank, start, Views), Mirrored(own)
        PROVE  /\ OwnedBy(Nxt, own, start[p], View(r), p)
               /\ Dirty(BlocksAt, own, me, p) \subseteq Dirty(BlocksAt, own, r, p)
               /\ r.pc \in Allocating => ToSet(r.bhs) = ClassBlocks(BlocksAt, own, p)
    <3>1. OwnedBy(Nxt, own, start[p], View(me), p)
      <4>1. Views[p] = View(me)
        BY <2>2, ViewsStep
      <4> QED
        BY <2>8, <4>1 DEF Owned
    <3>2. OwnedBy(Nxt, own, start[p], View(r), p)
      <4>1. 0 \notin Clusters
        BY <1>2, OwnFacts
      <4> QED
        BY <2>1, <2>7, <3>1, <4>1 DEF OwnedBy
    <3>3. ClassBlocks(BlocksAt, own, p) \subseteq Dirty(BlocksAt, own, r, p)
      BY <2>1 DEF Dirty, Pc, Freeing
    <3> QED
      BY <1>6, <2>1, <2>8, <3>2, <3>3 DEF Allocating
  <2>9. \A c \in Clusters : c \in {View(me).head, View(me).fresh} => c \in {View(r).head, View(r).fresh}
    BY <1>2, <2>1, <2>7, OwnFacts
  <2> QED
    BY <1>3, <1>5, <2>1, <2>2, <2>3, <2>4, <2>6, <2>8, <2>9, StepKeep
<1> QED
  BY <1>7, <1>8

-----------------------------------------------------------------------------
(* The walk to the end of the chain.                                          *)

(* A walk that fails gives back.                                              *)
LEMMA WalkFailsStep ==
  ASSUME Inv, NEW p \in Files, WalkFails(p)
  PROVE  Inv'
<1> DEFINE me == proc[p]
           r  == GiveBack(me)
<1>1. Types /\ Searching
  BY DEF Inv
<1>2. /\ format \in Formats /\ fat \in Table /\ prev_free \in Clusters /\ proc \in [Files -> Locals]
      /\ me \in Locals /\ LocalOK(Rights, format.bufs, me) /\ (fat_lock = p <=> Locked(me)) /\ format.bufs \in Nat
  BY <1>1, Local
<1>3. /\ me.pc = "w_read" /\ fat_lock' = fat_lock /\ Set(p, r)
      /\ format' = format /\ start' = start /\ fat' = fat /\ backup' = backup /\ prev_free' = prev_free
      /\ free_clusters' = free_clusters /\ free_clus_valid' = free_clus_valid
  BY DEF WalkFails, At, count
<1>4. me.bhs = <<>> /\ me.taken # <<>> /\ me.pc \in Walking
  BY <1>2, <1>3 DEF LocalOK, Pc, Walking
<1>5. Nxt' = Nxt /\ prev_free' \in Clusters
  BY <1>2, <1>3, TableKept
<1>6. /\ r \in Locals /\ r.pc = "f_lock" /\ r.cl = me.taken[1] /\ r.fe = NoEntry /\ r.bhs = <<>> /\ r.taken = <<>>
      /\ me.taken[1] \in Clusters /\ View(me).head = me.taken[1]
  BY <1>2, <1>4, GiveBackIs
<1> HIDE DEF r
<1>7. Sets(p, r)
  BY <1>2, <1>3, <1>6, SetIs
<1>8. LocalOK(Rights, format.bufs, r)
  BY <1>2, <1>6, IdleLocal DEF LocalOK, Pc, Allocating, Walking, Freeing, Counting
<1>9. Locks(p, me, r)
  BY <1>3, <1>6 DEF Locks, Locked, Pc, Allocating, Counting
<1>10. Sought(Nxt', r)
  BY <1>6 DEF Sought, Counting
<1>11. Searching'
  BY <1>1, <1>3, <1>5, <1>6, <1>7, <1>10, SearchKept
<1>12. View(r) = [head |-> me.taken[1], fresh |-> 0, last |-> 0, walk |-> 0, end |-> 0] /\ View(me).fresh = 0
  BY <1>3, <1>6, FreeingView DEF Freeing, View
<1>13. ASSUME NEW own, NEW rank, Owned(Nxt, own, rank, start, Views), Mirrored(own)
       PROVE  /\ OwnedBy(Nxt, own, start[p], View(r), p)
              /\ Dirty(BlocksAt, own, me, p) \subseteq Dirty(BlocksAt, own, r, p)
              /\ r.pc \in Allocating => ToSet(r.bhs) = ClassBlocks(BlocksAt, own, p)
  <2>1. OwnedBy(Nxt, own, start[p], View(me), p)
    <3>1. Views[p] = View(me)
      BY <1>7, ViewsStep
    <3> QED
      BY <1>13, <3>1 DEF Owned
  <2>2. OwnedBy(Nxt, own, start[p], View(r), p)
    <3>1. 0 \notin Clusters
      BY <1>2, OwnFacts
    <3> QED
      BY <1>6, <1>12, <2>1, <3>1 DEF OwnedBy
  <2>3. Dirty(BlocksAt, own, me, p) = {}
    BY <1>3, <1>4, NoBlocks DEF Dirty, Pc, Freeing
  <2> QED
    BY <1>6, <2>2, <2>3 DEF Allocating
<1>14. \A c \in Clusters : c \in {View(me).head, View(me).fresh} => c \in {View(r).head, View(r).fresh}
  BY <1>2, <1>6, <1>12, OwnFacts
<1> QED
  BY <1>3, <1>5, <1>6, <1>7, <1>8, <1>9, <1>11, <1>13, <1>14, StepKeep

LEMMA WalkReadStep ==
  ASSUME Inv, NEW p \in Files, WalkRead(p)
  PROVE  Inv'
<1> DEFINE me == proc[p]
           fe == EntRead(me.fe, me.cl)
           w  == Nxt[me.cl]
<1>1. Types /\ Searching
  BY DEF Inv
<1>2. /\ format \in Formats /\ fat \in Table /\ prev_free \in Clusters /\ proc \in [Files -> Locals]
      /\ me \in Locals /\ LocalOK(Rights, format.bufs, me) /\ (fat_lock = p <=> Locked(me)) /\ format.bufs \in Nat
  BY <1>1, Local
<1>3. /\ me.pc = "w_read" /\ fat_lock' = fat_lock
      /\ format' = format /\ start' = start /\ fat' = fat /\ backup' = backup /\ prev_free' = prev_free
      /\ free_clusters' = free_clusters /\ free_clus_valid' = free_clus_valid
  BY DEF WalkRead, At, count
<1>4. /\ me.bhs = <<>> /\ me.taken # <<>> /\ me.cl \in Clusters
      /\ me.fe.bhs = <<>> \/ me.fe \in Rights
  BY <1>2, <1>3 DEF LocalOK, Pc, Walking
<1>5. Nxt' = Nxt /\ prev_free' \in Clusters
  BY <1>2, <1>3, TableKept
<1>6. fe = ReadBlock(me.cl) /\ Get(fe) = w
  BY <1>2, <1>4, ReadNow
<1>7. fe \in Rights /\ fe \in Entries
  BY <1>2, <1>4, <1>6, ReadRight
<1>8. PICK own, rank : Owned(Nxt, own, rank, start, Views)
  BY DEF Inv
<1>9. View(me) = [head |-> me.taken[1], fresh |-> 0, last |-> 0, walk |-> me.cl, end |-> 0] /\ Views[p] = View(me)
  BY <1>3, <1>4 DEF View, Pc, Walking, Allocating, Views
<1>10. w \in Clusters \cup {EOF}
  <2>1. own[me.cl] = <<p, "file">> /\ <<p, "file">> # Nobody
    <3>1. OwnedBy(Nxt, own, start[p], View(me), p)
      BY <1>8, <1>9 DEF Owned
    <3>2. own[me.cl] = <<p, "file">>
      BY <1>4, <1>9, <3>1 DEF OwnedBy
    <3> QED
      BY <1>2, <3>2, OwnFacts
  <2>2. w \in Values /\ w # FREE
    BY <1>4, <1>8, <2>1 DEF Owned
  <2> QED
    BY <2>2 DEF Values
<1> DEFINE r == IF w = EOF THEN [me EXCEPT !.pc = "l_write"] ELSE [me EXCEPT !.fe = fe, !.cl = w]
<1>11. Set(p, r)
  <2>1. w # FREE /\ EOF # FREE
    BY <1>2, <1>10, OwnFacts
  <2> QED
    BY <1>6, <2>1 DEF WalkRead
<1> HIDE DEF fe, w
<1>12. /\ r \in Locals /\ r.pc = (IF w = EOF THEN "l_write" ELSE "w_read") /\ r.fe = (IF w = EOF THEN me.fe ELSE fe)
       /\ r.cl = (IF w = EOF THEN me.cl ELSE w) /\ r.taken = me.taken /\ r.bhs = <<>>
  BY <1>2, <1>3, <1>4, <1>7, <1>10 DEF Locals, Pcs, Walking
<1>13. Sets(p, r)
  BY <1>2, <1>11, <1>12, SetIs
<1> HIDE DEF r
<1>14. r.cl \in Clusters
  BY <1>4, <1>10, <1>12
<1>15. LocalOK(Rights, format.bufs, r)
  BY <1>2, <1>4, <1>7, <1>12, <1>14 DEF LocalOK, Pc, Allocating, Walking, Freeing, Counting
<1>16. Locks(p, me, r)
  BY <1>3, <1>12 DEF Locks, Locked, Pc, Allocating, Counting
<1>17. Sought(Nxt', r) /\ r.pc # "a_take"
  BY <1>12 DEF Sought, Counting
<1>18. Searching'
  BY <1>1, <1>3, <1>5, <1>13, <1>17, SearchKept
<1>19. View(r) = [head |-> me.taken[1], fresh |-> 0, last |-> 0, walk |-> r.cl, end |-> IF w = EOF THEN me.cl ELSE 0]
  BY <1>4, <1>12 DEF View, Pc, Walking, Allocating
<1>20. ASSUME NEW o, NEW k, Owned(Nxt, o, k, start, Views), Mirrored(o)
       PROVE  /\ OwnedBy(Nxt, o, start[p], View(r), p)
              /\ Dirty(BlocksAt, o, me, p) \subseteq Dirty(BlocksAt, o, r, p)
              /\ r.pc \in Allocating => ToSet(r.bhs) = ClassBlocks(BlocksAt, o, p)
  <2>1. OwnedBy(Nxt, o, start[p], View(me), p)
    BY <1>9, <1>20 DEF Owned
  <2>2. 0 \notin Clusters
    BY <1>2, OwnFacts
  <2>3. o[me.cl] = <<p, "file">>
    BY <1>4, <1>9, <2>1 DEF OwnedBy
  <2>4. w # EOF => o[w] = o[me.cl]
    BY <1>4, <1>10, <1>20 DEF Owned, w
  <2>5. OwnedBy(Nxt, o, start[p], View(r), p)
    <3>1. o[r.cl] = <<p, "file">>
      BY <1>12, <2>3, <2>4
    <3>2. w = EOF => Nxt[me.cl] = EOF /\ r.cl = me.cl
      BY <1>12 DEF w
    <3>3. me.taken[1] \in Clusters => Root(Nxt, o, me.taken[1], <<p, "new">>)
      BY <1>9, <2>1 DEF OwnedBy
    <3>4. Root(Nxt, o, start[p], <<p, "file">>)
      BY <2>1 DEF OwnedBy
    <3> QED
      BY <1>19, <2>2, <3>1, <3>2, <3>3, <3>4 DEF OwnedBy
  <2>6. Dirty(BlocksAt, o, me, p) = {}
    BY <1>3, <1>4, NoBlocks DEF Dirty, Pc, Freeing
  <2> QED
    BY <1>12, <2>5, <2>6 DEF Allocating
<1>21. \A c \in Clusters : c \in {View(me).head, View(me).fresh} => c \in {View(r).head, View(r).fresh}
  BY <1>9, <1>19
<1> QED
  BY <1>3, <1>5, <1>12, <1>13, <1>15, <1>16, <1>18, <1>20, <1>21, StepKeep

-----------------------------------------------------------------------------
(* The copying of blocks to the second table.                                 *)

LEMMA TailBlocks ==
  ASSUME NEW bhs \in Seq(Nat), bhs # <<>>
  PROVE  /\ Tail(bhs) \in Seq(Nat) /\ Len(Tail(bhs)) <= Len(bhs)
         /\ ToSet(bhs) = {Head(bhs)} \cup ToSet(Tail(bhs))
<1> DEFINE b == Tail(bhs)
           n == Len(bhs)
<1>1. b \in Seq(Nat) /\ n \in Nat \ {0} /\ Len(b) = n - 1 /\ Head(bhs) = bhs[1]
  OBVIOUS
<1>2. DOMAIN b = 1 .. n - 1 /\ DOMAIN bhs = 1 .. n
  BY <1>1
<1>3. \A i \in 1 .. n - 1 : b[i] = bhs[i + 1]
  OBVIOUS
<1> DEFINE h == Head(bhs)
<1>4. h = bhs[1] /\ n \in Nat \ {0}
  BY <1>1
<1> HIDE DEF b, n, h
<1>5. ToSet(bhs) \subseteq {h} \cup ToSet(b)
  <2> SUFFICES ASSUME NEW i \in DOMAIN bhs PROVE bhs[i] \in {h} \cup ToSet(b)
    BY DEF ToSet
  <2>1. CASE i = 1
    BY <1>4, <2>1
  <2>2. CASE i # 1
    <3>1. i \in 1 .. n
      BY <1>2
    <3>2. i - 1 \in 1 .. n - 1 /\ (i - 1) + 1 = i
      BY <1>4, <2>2, <3>1
    <3>3. i - 1 \in DOMAIN b /\ b[i - 1] = bhs[i]
      <4>1. b[i - 1] = bhs[(i - 1) + 1]
        BY <1>3, <3>2
      <4> QED
        BY <1>2, <3>2, <4>1
    <3> QED
      BY <3>3 DEF ToSet
  <2> QED
    BY <2>1, <2>2
<1>6. h \in ToSet(bhs)
  <2>1. 1 \in DOMAIN bhs /\ h = bhs[1]
    BY <1>2, <1>4
  <2> QED
    BY <2>1 DEF ToSet
<1>7. ToSet(b) \subseteq ToSet(bhs)
  <2> SUFFICES ASSUME NEW i \in DOMAIN b PROVE b[i] \in ToSet(bhs)
    BY DEF ToSet
  <2>1. i \in 1 .. n - 1
    BY <1>2
  <2>2. i + 1 \in 1 .. n
    BY <1>4, <2>1
  <2>3. b[i] = bhs[i + 1]
    BY <1>3, <2>1
  <2>4. i + 1 \in DOMAIN bhs
    BY <1>2, <2>2
  <2> QED
    BY <2>3, <2>4 DEF ToSet
<1>8. ToSet(bhs) = {h} \cup ToSet(b)
  BY <1>5, <1>6, <1>7
<1>9. Len(b) <= n
  BY <1>1, <1>4
<1>10. b \in Seq(Nat)
  BY <1>1
<1> QED
  BY <1>8, <1>9, <1>10 DEF b, n, h

LEMMA MirrorBlockStep ==
  ASSUME Inv, NEW p \in Files, MirrorBlock(p)
  PROVE  Inv'
<1> DEFINE me == proc[p]
<1>1. Types /\ Searching
  BY DEF Inv
<1>2. /\ format \in Formats /\ fat \in Table /\ backup \in Table /\ prev_free \in Clusters
      /\ proc \in [Files -> Locals] /\ me \in Locals /\ LocalOK(Rights, format.bufs, me)
      /\ (fat_lock = p <=> Locked(me)) /\ format.bufs \in Nat
  BY <1>1, Local
<1>3. /\ me.pc = "mirror" /\ fat_lock' = fat_lock
      /\ format' = format /\ start' = start /\ fat' = fat /\ prev_free' = prev_free
      /\ free_clusters' = free_clusters /\ free_clus_valid' = free_clus_valid
  BY DEF MirrorBlock, At, count
<1>4. me.then \in Thens /\ me.bhs \in Seq(Nat)
  BY <1>2, Fields
<1>5. Nxt' = Nxt /\ prev_free' \in Clusters
  BY <1>2, <1>3, TableKept
<1>6. CASE me.bhs = <<>>
  <2> DEFINE r == [me EXCEPT !.pc = me.then]
  <2>1. Set(p, r) /\ backup' = backup
    BY <1>6 DEF MirrorBlock
  <2>2. /\ r \in Locals /\ r.pc = me.then /\ r.fe = me.fe /\ r.cl = me.cl /\ r.taken = me.taken /\ r.bhs = <<>>
        /\ r.then = me.then /\ r.prev = me.prev
    <3>1. me.then \in Pcs
      BY <1>4 DEF Thens, Pcs, Walking, Freeing
    <3> QED
      BY <1>2, <1>6, <3>1 DEF Locals
  <2>3. Sets(p, r)
    BY <1>2, <2>1, <2>2, SetIs
  <2> HIDE DEF r
  <2>4. Pc(r) = me.then /\ Pc(me) = me.then /\ r.pc # "mirror"
    BY <1>3, <1>4, <2>2 DEF Pc, Thens
  <2>5. LocalOK(Rights, format.bufs, r)
    BY <1>2, <1>3, <1>4, <1>6, <2>2, <2>4 DEF LocalOK, Allocating, Walking, Freeing, Counting, Thens
  <2>6. Locks(p, me, r)
    BY <1>3, <2>4 DEF Locks, Locked
  <2>7. View(r) = View(me)
    BY <1>3, <1>4, <2>2, <2>4 DEF View, Walking, Allocating, Thens
  <2>8. Sought(Nxt', r) /\ r.pc # "a_take" /\ r.pc \notin Allocating
    BY <1>4, <2>2 DEF Sought, Counting, Thens, Allocating
  <2>9. Searching'
    BY <1>1, <1>3, <1>5, <2>3, <2>8, SearchKept
  <2>10. \A own : Dirty(BlocksAt, own, me, p) \subseteq Dirty(BlocksAt, own, r, p)
    BY <1>3, <1>6, <2>2, <2>4 DEF Dirty
  <2> QED
    BY <1>3, <1>5, <2>1, <2>2, <2>3, <2>5, <2>6, <2>7, <2>8, <2>9, <2>10, StepSame
<1>7. CASE me.bhs # <<>>
  <2> DEFINE b == Tail(me.bhs)
             h == Head(me.bhs)
             r == [me EXCEPT !.bhs = b]
  <2>1. /\ Set(p, r)
        /\ backup' = [k \in DOMAIN backup |-> IF k \div blksz = h THEN fat[k] ELSE backup[k]]
    BY <1>7 DEF MirrorBlock
  <2>2. b \in Seq(Nat) /\ Len(b) <= Len(me.bhs) /\ ToSet(me.bhs) = {h} \cup ToSet(b)
    BY <1>4, <1>7, TailBlocks
  <2>3. /\ backup' \in Table
        /\ \A k \in 0..(TableSize - 1) : backup'[k] = IF k \div blksz = h THEN fat[k] ELSE backup[k]
    BY <1>2, <2>1 DEF Table
  <2> HIDE DEF b, h
  <2>4. /\ r \in Locals /\ r.pc = "mirror" /\ r.fe = me.fe /\ r.cl = me.cl /\ r.taken = me.taken /\ r.bhs = b
        /\ r.then = me.then /\ r.prev = me.prev
    BY <1>2, <1>3, <2>2 DEF Locals
  <2>5. Sets(p, r)
    BY <1>2, <2>1, <2>4, SetIs
  <2> HIDE DEF r
  <2>6. Pc(r) = me.then /\ Pc(me) = me.then
    BY <1>3, <2>4 DEF Pc
  <2>7. LocalOK(Rights, format.bufs, r)
    <3>1. Len(b) <= format.bufs
      <4>1. Len(me.bhs) <= format.bufs
        BY <1>2 DEF LocalOK
      <4>2. Len(me.bhs) \in Nat /\ Len(b) \in Nat
        BY <1>4, <2>2
      <4> QED
        BY <1>2, <2>2, <4>1, <4>2
    <3> QED
      BY <1>2, <1>3, <2>4, <2>6, <3>1 DEF LocalOK, Allocating, Walking, Counting
  <2>8. Types'
    <3>1. Locks(p, me, r)
      BY <1>3, <2>6 DEF Locks, Locked
    <3> QED
      BY <1>1, <1>2, <1>3, <1>5, <2>3, <2>4, <2>5, <2>7, <3>1, TypesStep
  <2>9. View(r) = View(me)
    BY <1>3, <2>4, <2>6 DEF View, Walking, Allocating
  <2>10. Sought(Nxt', r)
    BY <2>4 DEF Sought, Counting
  <2>11. Searching'
    BY <1>1, <1>3, <1>5, <2>4, <2>5, <2>10, SearchKept
  <2>12. PICK own, rank : Owned(Nxt, own, rank, start, Views) /\ Mirrored(own)
    BY DEF Inv
  <2>13. Owned(Nxt', own, rank, start', Views')
    <3>1. Views'[p] = Views[p] /\ \A q \in Files : q # p => Views'[q] = Views[q]
      BY <2>5, <2>9, ViewsStep
    <3>2. OwnedBy(Nxt, own, start[p], Views'[p], p)
      BY <2>12, <3>1 DEF Owned
    <3>3. Owned(Nxt, own, rank, start, Views')
      BY <2>12, <3>1, <3>2, OwnKeep
    <3> QED
      BY <1>3, <1>5, <3>3
  <2>14. Mirrored(own)'
    <3>1. TableSize' = TableSize /\ blksz' = blksz /\ BlocksAt' = BlocksAt
      BY <1>3, Frame
    <3>2. /\ \A q \in Files : q # p => proc'[q] = proc[q]
          /\ proc'[p] = r
      BY <2>5 DEF Sets
    <3>3. \A q \in Files : proc'[q].pc \in Allocating => ToSet(proc'[q].bhs) = ClassBlocks(BlocksAt, own, q)
      BY <2>4, <2>12, <3>2 DEF Mirrored, Allocating
    <3>4. Dirty(BlocksAt, own, me, p) = {h} \cup Dirty(BlocksAt, own, r, p)
      BY <1>3, <2>2, <2>4, <2>6 DEF Dirty
    <3>5. \A k \in 0..(TableSize - 1) : backup'[k] # fat'[k] =>
            \E q \in Files : k \div blksz \in Dirty(BlocksAt, own, proc'[q], q)
      <4> TAKE k \in 0..(TableSize - 1)
      <4> HAVE backup'[k] # fat'[k]
      <4>1. k \div blksz # h /\ backup[k] # fat[k]
        BY <1>3, <2>3
      <4>2. PICK q \in Files : k \div blksz \in Dirty(BlocksAt, own, proc[q], q)
        BY <2>12, <4>1 DEF Mirrored
      <4>3. CASE q = p
        <5>1. k \div blksz \in Dirty(BlocksAt, own, r, p)
          BY <3>4, <4>1, <4>2, <4>3
        <5> QED
          BY <3>2, <5>1
      <4>4. CASE q # p
        BY <3>2, <4>2, <4>4
      <4> QED
        BY <4>3, <4>4
    <3> QED
      BY <3>1, <3>3, <3>5 DEF Mirrored
  <2> QED
    BY <2>8, <2>11, <2>13, <2>14 DEF Inv
<1> QED
  BY <1>6, <1>7

-----------------------------------------------------------------------------
(* The array of blocks.                                                       *)
LEMMA FreeCollectStep ==
  ASSUME Inv, NEW p \in Files, FreeCollect(p)
  PROVE  Inv'
<1> DEFINE me   == proc[p]
           bhs  == Collect(me.bhs, me.fe)
           over == Len(me.bhs) + Len(me.fe.bhs) > format.bufs
           r    == IF over THEN Mirror(me, me.bhs, "f_collect")
                   ELSE IF me.cl = EOF THEN Mirror(me, bhs, "unlock")
                   ELSE [me EXCEPT !.pc = "f_read", !.bhs = bhs]
<1>1. Types /\ Searching
  BY DEF Inv
<1>2. /\ format \in Formats /\ fat \in Table /\ prev_free \in Clusters /\ proc \in [Files -> Locals]
      /\ me \in Locals /\ LocalOK(Rights, format.bufs, me) /\ (fat_lock = p <=> Locked(me)) /\ format.bufs \in Nat
  BY <1>1, Local
<1>3. /\ me.pc = "f_collect" /\ fat_lock' = fat_lock /\ Set(p, r)
      /\ format' = format /\ start' = start /\ fat' = fat /\ backup' = backup /\ prev_free' = prev_free
      /\ free_clusters' = free_clusters /\ free_clus_valid' = free_clus_valid
  BY DEF FreeCollect, At, count
<1>4. me.fe \in Rights /\ me.cl \in Clusters \cup {EOF} /\ Len(me.bhs) <= format.bufs
  BY <1>2, <1>3 DEF LocalOK, Pc
<1>5. Nxt' = Nxt /\ prev_free' \in Clusters
  BY <1>2, <1>3, TableKept
<1>6. /\ me.bhs \in Seq(Nat) /\ bhs \in Seq(Nat) /\ Len(bhs) <= Len(me.bhs) + Len(me.fe.bhs)
      /\ ToSet(bhs) = ToSet(me.bhs) \cup ToSet(me.fe.bhs) /\ Len(me.fe.bhs) \in {1, 2}
  BY <1>2, <1>4, CollectFacts, Fields, RightFacts
<1>7. ~over => Len(bhs) <= format.bufs
  <2> DEFINE a == Len(me.bhs)
             b == Len(me.fe.bhs)
             c == Len(bhs)
  <2>1. a \in Nat /\ b \in Nat /\ c \in Nat /\ c <= a + b /\ (over <=> a + b > format.bufs)
    <3>1. a \in Nat /\ b \in Nat
      BY <1>6
    <3>2. c \in Nat
      <4> HIDE DEF bhs
      <4> QED
        BY <1>6
    <3>3. c <= a + b
      BY <1>6
    <3>4. over <=> a + b > format.bufs
      OBVIOUS
    <3> HIDE DEF a, b, c, over
    <3> QED
      BY <3>1, <3>2, <3>3, <3>4
  <2> HIDE DEF a, b, c, over
  <2>2. ~over => c <= format.bufs
    BY <1>2, <2>1
  <2> QED
    BY <2>2 DEF c
<1>8. /\ over => r = [me EXCEPT !.pc = "mirror", !.bhs = me.bhs, !.then = "f_collect"]
      /\ ~over /\ me.cl = EOF => r = [me EXCEPT !.pc = "mirror", !.bhs = bhs, !.then = "unlock"]
      /\ ~over /\ me.cl # EOF => r = [me EXCEPT !.pc = "f_read", !.bhs = bhs]
  BY DEF Mirror
<1> HIDE DEF bhs, over, r
<1>9. /\ r \in Locals /\ r.fe = me.fe /\ r.cl = me.cl /\ r.bhs = (IF over THEN me.bhs ELSE bhs)
      /\ r.pc = (IF ~over /\ me.cl # EOF THEN "f_read" ELSE "mirror")
      /\ Pc(r) = (IF over THEN "f_collect" ELSE IF me.cl = EOF THEN "unlock" ELSE "f_read")
  <2>1. CASE over
    <3>1. r = [me EXCEPT !.pc = "mirror", !.bhs = me.bhs, !.then = "f_collect"]
      BY <1>8, <2>1
    <3> QED
      BY <1>2, <1>6, <2>1, <3>1 DEF Locals, Pcs, Thens, Pc
  <2>2. CASE ~over /\ me.cl = EOF
    <3>1. r = [me EXCEPT !.pc = "mirror", !.bhs = bhs, !.then = "unlock"]
      BY <1>8, <2>2
    <3> QED
      BY <1>2, <1>6, <2>2, <3>1 DEF Locals, Pcs, Thens, Pc
  <2>3. CASE ~over /\ me.cl # EOF
    <3>1. r = [me EXCEPT !.pc = "f_read", !.bhs = bhs]
      BY <1>8, <2>3
    <3> QED
      BY <1>2, <1>6, <2>3, <3>1 DEF Locals, Pcs, Freeing, Pc
  <2> QED
    BY <2>1, <2>2, <2>3
<1>10. Sets(p, r)
  BY <1>2, <1>3, <1>9, SetIs
<1>11. LocalOK(Rights, format.bufs, r)
  BY <1>4, <1>7, <1>9 DEF LocalOK, Allocating, Walking, Freeing, Counting
<1>12. Locks(p, me, r)
  BY <1>3, <1>9 DEF Locks, Locked, Pc
<1>13. Sought(Nxt', r) /\ r.pc # "a_take" /\ r.pc \notin Allocating
  BY <1>9 DEF Sought, Counting, Allocating
<1>14. Searching'
  BY <1>1, <1>3, <1>5, <1>10, <1>13, SearchKept
<1>15. /\ View(me) = [head |-> me.cl, fresh |-> 0, last |-> 0, walk |-> 0, end |-> 0]
       /\ View(r) = [head |-> IF ~over /\ me.cl = EOF THEN 0 ELSE me.cl, fresh |-> 0, last |-> 0, walk |-> 0, end |-> 0]
  BY <1>3, <1>9 DEF View, Pc, Allocating, Walking, Freeing
<1>16. EOF \notin Clusters /\ 0 \notin Clusters
  BY <1>2, OwnFacts
<1>17. ASSUME NEW own, NEW rank, Owned(Nxt, own, rank, start, Views), Mirrored(own)
       PROVE  /\ OwnedBy(Nxt, own, start[p], View(r), p)
              /\ Dirty(BlocksAt, own, me, p) \subseteq Dirty(BlocksAt, own, r, p)
  <2>1. Views[p] = View(me)
    BY <1>10, ViewsStep
  <2>2. OwnedBy(Nxt, own, start[p], View(me), p)
    BY <1>17, <2>1 DEF Owned
  <2>3. OwnedBy(Nxt, own, start[p], View(r), p)
    BY <1>15, <1>16, <2>2 DEF OwnedBy
  <2>4. Dirty(BlocksAt, own, me, p) = ToSet(me.bhs) \cup ToSet(me.fe.bhs) \cup ClassBlocks(BlocksAt, own, p)
    BY <1>3 DEF Dirty, Pc, Freeing
  <2>5. me.cl = EOF => ClassBlocks(BlocksAt, own, p) = {}
    <3> HAVE me.cl = EOF
    <3>1. Views[p].head \notin Clusters
      BY <1>15, <1>16, <2>1
    <3>2. \A c \in Clusters : own[c] # <<p, "new">>
      BY <1>2, <1>17, <3>1, NoOrphan
    <3> QED
      BY <3>2, NoClass
  <2>6. Dirty(BlocksAt, own, me, p) \subseteq Dirty(BlocksAt, own, r, p)
    BY <1>6, <1>9, <2>4, <2>5 DEF Dirty, Freeing
  <2> QED
    BY <2>3, <2>6
<1>18. \A c \in Clusters : c \in {View(me).head, View(me).fresh} => c \in {View(r).head, View(r).fresh}
  BY <1>15, <1>16
<1> QED
  BY <1>3, <1>5, <1>9, <1>10, <1>11, <1>12, <1>13, <1>14, <1>17, <1>18, StepKeep

-----------------------------------------------------------------------------
(* Steps that write an entry.                                                 *)

(* No other process's new clusters change.                                    *)
OthersNew(own, o, p) ==
  \A q \in Files : q # p => \A c \in Clusters : (o[c] = <<q, "new">>) <=> (own[c] = <<q, "new">>)

LEMMA StepWrite ==
  ASSUME Inv, NEW p \in Files, NEW r \in Locals, Sets(p, r),
         format' = format, start' = start, backup' = backup, prev_free' \in Clusters,
         LocalOK(Rights, format.bufs, r), Locks(p, proc[p], r), Searching',
         NEW own, Mirrored(own), NEW e \in Clusters, NEW w, Wrote(e, w),
         NEW o, NEW k, Owned([Nxt EXCEPT ![e] = w], o, k, start, Views'),
         OthersNew(own, o, p),
         ToSet(BlocksAt[e]) \cup Dirty(BlocksAt, own, proc[p], p) \subseteq Dirty(BlocksAt, o, r, p),
         r.pc \in Allocating => ToSet(r.bhs) = ClassBlocks(BlocksAt, o, p)
  PROVE  Inv'
<1>1. Types /\ backup \in Table /\ format \in Formats
  BY DEF Inv, Types
<1>2. /\ fat' \in Table /\ Nxt' = [Nxt EXCEPT ![e] = w]
      /\ \A b \in 0..(TableSize - 1) : fat'[b] # fat[b] => b \div blksz \in ToSet(BlocksAt[e])
  BY DEF Wrote
<1>3. Types'
  BY <1>1, <1>2, TypesStep
<1>4. \A q \in Files : q # p => ClassBlocks(BlocksAt, o, q) = ClassBlocks(BlocksAt, own, q)
  BY <1>1, OnePiece DEF OthersNew
<1>5. /\ Dirty(BlocksAt, own, proc[p], p) \subseteq Dirty(BlocksAt, o, r, p)
      /\ \A b \in 0..(TableSize - 1) : fat'[b] # fat[b] => b \div blksz \in Dirty(BlocksAt, o, r, p)
  BY <1>2
<1>6. Mirrored(o)'
  BY <1>4, <1>5, MirrorStep
<1>7. Owned(Nxt', o, k, start', Views')
  BY <1>2
<1> QED
  BY <1>3, <1>6, <1>7 DEF Inv

LEMMA AllocScanStep ==
  ASSUME Inv, NEW p \in Files, AllocScan(p)
  PROVE  Inv'
<1> DEFINE me == proc[p]
           e  == me.fe.entry
<1>1. Types /\ Searching
  BY DEF Inv
<1>2. /\ format \in Formats /\ fat \in Table /\ prev_free \in Clusters /\ proc \in [Files -> Locals]
      /\ me \in Locals /\ LocalOK(Rights, format.bufs, me) /\ (fat_lock = p <=> Locked(me)) /\ format.bufs \in Nat
  BY <1>1, Local
<1>3. /\ me.pc = "a_scan" /\ fat_lock' = fat_lock
      /\ format' = format /\ start' = start /\ backup' = backup /\ prev_free' = prev_free
      /\ free_clusters' = free_clusters /\ free_clus_valid' = free_clus_valid
  BY DEF AllocScan, At, count
<1>4. /\ me.fe \in Rights /\ me.n \in Clusters
      /\ Len(me.taken) < me.nr /\ 2 * me.nr <= format.bufs /\ Len(me.bhs) <= 2 * Len(me.taken)
      /\ IF me.taken = <<>> THEN me.prev.bhs = <<>> ELSE me.prev \in Rights
      /\ Len(me.bhs) <= format.bufs
  BY <1>2, <1>3 DEF LocalOK, Allocating
<1>5. /\ e \in Clusters /\ me.fe = ReadBlock(e) /\ Get(me.fe) = Nxt[e] /\ me.fe.bhs = BlocksAt[e]
  BY <1>2, <1>4, RightFacts, GetNow
<1>6. prev_free' \in Clusters /\ Locked(me) /\ fat_lock = p /\ me.pc \in Allocating
  BY <1>2, <1>3 DEF Locked, Pc, Allocating
<1>7. \A c \in Clusters : Seen(c, e, me.n) => Nxt[c] # FREE
  BY <1>1, <1>3 DEF Searching, Sought
<1>8. PICK own, rank : Owned(Nxt, own, rank, start, Views) /\ Mirrored(own)
  BY DEF Inv
<1>9. ToSet(me.bhs) = ClassBlocks(BlocksAt, own, p)
  BY <1>6, <1>8 DEF Mirrored
<1>10. CASE Nxt[e] = FREE
  <2> DEFINE r == [me EXCEPT !.pc = "a_take"]
             o == [own EXCEPT ![e] = <<p, "fresh">>]
  <2>1. Set(p, r) /\ fat' = Put(ReadBlock(e), EOF)
    BY <1>5, <1>10 DEF AllocScan
  <2>2. /\ r \in Locals /\ r.pc = "a_take" /\ r.fe = me.fe /\ r.n = me.n /\ r.nr = me.nr /\ r.prev = me.prev
        /\ r.taken = me.taken /\ r.bhs = me.bhs
    BY <1>2 DEF Locals, Pcs, Allocating
  <2>3. Sets(p, r)
    BY <1>2, <2>1, <2>2, SetIs
  <2> HIDE DEF r
  <2>4. LocalOK(Rights, format.bufs, r)
    BY <1>4, <2>2 DEF LocalOK, Pc, Allocating, Walking, Freeing, Counting
  <2>5. Locks(p, me, r)
    BY <1>3, <2>2 DEF Locks, Locked, Pc, Allocating
  <2>6. Nxt \in [Clusters -> Values] /\ own \in [Clusters -> Owners] /\ own[e] = Nobody
    BY <1>5, <1>8, <1>10 DEF Owned
  <2>7. Wrote(e, EOF)
    BY <1>2, <1>3, <1>5, <2>1, <2>6, PutWrites, OwnFacts
  <2>8. Nxt' = [Nxt EXCEPT ![e] = EOF]
    BY <2>7 DEF Wrote
  <2>9. Nxt'[e] # FREE /\ \A c \in Clusters : c # e => Nxt'[c] = Nxt[c]
    <3>1. EOF # FREE
      BY <1>2, OwnFacts
    <3> QED
      BY <1>5, <2>6, <2>8, <3>1
  <2>10. Searching'
    <3>1. Cardinality(FreeIn(Nxt)) = Cardinality(FreeIn(Nxt')) + 1
      BY <1>5, <1>10, <2>9, FreeOneMore
    <3>2. \A c \in Clusters : Seen(c, e, me.n) => Nxt'[c] # FREE
      BY <1>7, <2>9
    <3>3. Sought(Nxt', r)
      BY <2>2, <3>2 DEF Sought, Counting
    <3>4. \A q \in Files : proc[q].pc # "a_take"
      <4> TAKE q \in Files
      <4>1. CASE q = p
        BY <1>3, <4>1
      <4>2. CASE q # p
        <5>1. ~Locked(proc[q])
          BY <1>1, <1>6, <4>2 DEF Types
        <5> QED
          BY <5>1, NotSearching
      <4> QED
        BY <4>1, <4>2
    <3>5. /\ free_clus_valid \in BOOLEAN
          /\ IF free_clus_valid THEN free_clusters = Cardinality(FreeIn(Nxt)) + 0 ELSE free_clusters = -1
      BY <1>1, <3>4 DEF Searching, At
    <3>6. Cardinality(FreeIn(Nxt')) \in Nat /\ Cardinality(FreeIn(Nxt)) \in Nat
      BY FreeFinite
    <3>7. /\ free_clus_valid' \in BOOLEAN
          /\ IF free_clus_valid'
             THEN free_clusters' = Cardinality(FreeIn(Nxt')) + (IF r.pc = "a_take" THEN 1 ELSE 0)
             ELSE free_clusters' = -1
      BY <1>3, <2>2, <3>1, <3>5, <3>6
    <3> QED
      BY <1>1, <1>6, <2>3, <3>3, <3>7, SearchLocked
  <2>11. Owned([Nxt EXCEPT ![e] = EOF], o, rank, start, Views')
    <3>1. Views'[p] = View(r) /\ Views[p] = View(me) /\ \A q \in Files : q # p => Views'[q] = Views[q]
      BY <2>3, ViewsStep
    <3>2. /\ View(me).fresh = 0 /\ View(r).fresh = e /\ View(r).head = View(me).head /\ View(r).last = View(me).last
          /\ View(r).walk = 0 /\ View(r).end = 0
      BY <1>3, <2>2 DEF View, Pc, Allocating, Walking, Freeing
    <3>3. 0 \notin Clusters
      BY <1>2, OwnFacts
    <3>4. Turn(Views, Views', p)
      BY <3>1 DEF Turn
    <3>5. /\ Views[p].fresh \notin Clusters /\ Views'[p].fresh = e /\ Views'[p].head = Views[p].head
          /\ Views'[p].last = Views[p].last /\ Views'[p].walk \notin Clusters /\ Views'[p].end \notin Clusters
      BY <3>1, <3>2, <3>3
    <3> QED
      BY <1>2, <1>5, <1>8, <1>10, <3>4, <3>5, OwnTake
  <2>12. \A q \in Files : \A c \in Clusters : (o[c] = <<q, "new">>) <=> (own[c] = <<q, "new">>)
    <3> TAKE q \in Files
    <3>1. <<p, "fresh">> # <<q, "new">> /\ Nobody # <<q, "new">>
      <4>1. <<q, "new">> # Nobody
        BY <1>2, OwnFacts
      <4> QED
        BY <4>1
    <3> TAKE c \in Clusters
    <3>2. CASE c = e
      BY <1>5, <2>6, <3>1, <3>2
    <3>3. CASE c # e
      BY <1>5, <2>6, <3>3
    <3> QED
      BY <3>2, <3>3
  <2> HIDE DEF o
  <2>13. r.pc \in Allocating => ToSet(r.bhs) = ClassBlocks(BlocksAt, o, p)
    BY <1>2, <1>9, <2>2, <2>12, OnePiece
  <2>14. ToSet(BlocksAt[e]) \cup Dirty(BlocksAt, own, me, p) \subseteq Dirty(BlocksAt, o, r, p)
    BY <1>3, <1>5, <2>2 DEF Dirty, Pc, Freeing
  <2>15. OthersNew(own, o, p)
    BY <2>12 DEF OthersNew
  <2> QED
    BY <1>3, <1>5, <1>6, <1>8, <2>2, <2>3, <2>4, <2>5, <2>7, <2>10, <2>11, <2>13, <2>14, <2>15, StepWrite
<1>11. CASE Nxt[e] # FREE
  <2> DEFINE r == Advance(me)
  <2>1. Set(p, r) /\ fat' = fat
    BY <1>5, <1>11 DEF AllocScan
  <2>2. /\ r \in Locals /\ r.pc \in {"a_block", "a_scan"}
        /\ r.prev = me.prev /\ r.nr = me.nr /\ r.taken = me.taken /\ r.bhs = me.bhs
        /\ r.pc = "a_scan" => r.fe \in Rights /\ r.n \in Clusters
        /\ r.pc = "a_block" => r.n \in START .. max_cluster /\ r.fe.entry \in START .. max_cluster
        /\ Sought(Nxt, r)
    BY <1>2, <1>4, <1>6, <1>7, <1>11, AdvanceRight
  <2>3. Sets(p, r)
    BY <1>2, <2>1, <2>2, SetIs
  <2> HIDE DEF r
  <2>4. LocalOK(Rights, format.bufs, r)
    BY <1>4, <2>2 DEF LocalOK, Pc, Allocating, Walking, Freeing, Counting
  <2>5. Locks(p, me, r)
    BY <1>3, <2>2 DEF Locks, Locked, Pc, Allocating
  <2>6. View(r) = View(me)
    BY <1>3, <2>2 DEF View, Pc, Allocating, Walking, Freeing
  <2>7. Nxt' = Nxt
    BY <1>2, <1>3, <2>1, TableKept
  <2>8. Searching'
    BY <1>1, <1>3, <2>2, <2>3, <2>7, SearchKept
  <2>9. \A f : Dirty(BlocksAt, f, me, p) \subseteq Dirty(BlocksAt, f, r, p)
    BY <1>3, <2>2 DEF Dirty, Pc, Freeing
  <2>10. \A f : Mirrored(f) => ToSet(r.bhs) = ClassBlocks(BlocksAt, f, p)
    BY <1>6, <2>2 DEF Mirrored
  <2> QED
    BY <1>3, <1>6, <2>1, <2>2, <2>3, <2>4, <2>5, <2>6, <2>8, <2>9, <2>10, StepSame
<1> QED
  BY <1>10, <1>11

-----------------------------------------------------------------------------
(* The link of the new clusters.                                              *)
LEMMA LinkWriteStep ==
  ASSUME Inv, NEW p \in Files, LinkWrite(p)
  PROVE  Inv'
<1> DEFINE me == proc[p]
           c  == me.cl
           h  == me.taken[1]
           r  == Mirror(Idle, ReadBlock(c).bhs, "idle")
<1>1. Types /\ Searching
  BY DEF Inv
<1>2. /\ format \in Formats /\ fat \in Table /\ prev_free \in Clusters /\ proc \in [Files -> Locals]
      /\ me \in Locals /\ LocalOK(Rights, format.bufs, me) /\ (fat_lock = p <=> Locked(me)) /\ format.bufs \in Nat
  BY <1>1, Local
<1>3. /\ me.pc = "l_write" /\ fat_lock' = fat_lock /\ Set(p, r) /\ fat' = Put(ReadBlock(c), h)
      /\ format' = format /\ start' = start /\ backup' = backup /\ prev_free' = prev_free
      /\ free_clusters' = free_clusters /\ free_clus_valid' = free_clus_valid
  BY DEF LinkWrite, At, count
<1>4. c \in Clusters /\ me.taken # <<>> /\ me.bhs = <<>>
  BY <1>2, <1>3 DEF LocalOK, Pc, Walking
<1>5. h \in Clusters
  <2>1. me.taken \in Seq(Clusters)
    BY <1>2, Fields
  <2> QED
    BY <1>4, <2>1
<1>6. /\ ReadBlock(c).bhs = BlocksAt[c] /\ ReadBlock(c).bhs \in Seq(Nat) /\ Len(ReadBlock(c).bhs) \in {1, 2}
  BY <1>2, <1>4, ReadRight DEF Entries
<1> DEFINE bhs == ReadBlock(c).bhs
<1>7. r = [Idle EXCEPT !.pc = "mirror", !.bhs = bhs, !.then = "idle"]
  BY DEF Mirror
<1> HIDE DEF bhs, r
<1>8. /\ r \in Locals /\ r.pc = "mirror" /\ r.then = "idle" /\ r.bhs = bhs /\ r.fe = NoEntry
  BY <1>6, <1>7, IdleLocal DEF Idle, Locals, Pcs, Thens, bhs
<1>9. Sets(p, r)
  BY <1>2, <1>3, <1>8, SetIs
<1>10. LocalOK(Rights, format.bufs, r)
  <2>1. Len(bhs) <= format.bufs
    <3>1. 2 <= format.bufs
      <4>1. format.bufs \in Nat \ {0, 1}
        BY <1>2, FormatAssumption
      <4> QED
        BY <4>1
    <3> DEFINE a == Len(bhs)
    <3>2. a = 1 \/ a = 2
      BY <1>6 DEF bhs
    <3>3. format.bufs \in Nat
      BY <1>2
    <3> HIDE DEF a
    <3>4. a <= format.bufs
      BY <3>1, <3>2, <3>3
    <3> QED
      BY <3>4 DEF a
  <2> QED
    BY <1>8, <2>1 DEF LocalOK, Pc, Allocating, Walking, Freeing, Counting
<1>11. Locks(p, me, r)
  BY <1>3, <1>8 DEF Locks, Locked, Pc, Allocating, Counting
<1>12. PICK own, rank : Owned(Nxt, own, rank, start, Views) /\ Mirrored(own)
  BY DEF Inv
<1>13. /\ View(me) = [head |-> h, fresh |-> 0, last |-> 0, walk |-> c, end |-> c]
       /\ View(r) = [head |-> 0, fresh |-> 0, last |-> 0, walk |-> 0, end |-> 0]
       /\ 0 \notin Clusters /\ EOF # FREE
       /\ Views'[p] = View(r) /\ Views[p] = View(me) /\ \A q \in Files : q # p => Views'[q] = Views[q]
  <2>1. View(me) = [head |-> h, fresh |-> 0, last |-> 0, walk |-> c, end |-> c]
    BY <1>3, <1>4 DEF View, Pc, Allocating, Walking, Freeing
  <2>2. View(r) = [head |-> 0, fresh |-> 0, last |-> 0, walk |-> 0, end |-> 0]
    BY <1>8 DEF View, Pc, Allocating, Walking, Freeing
  <2>3. 0 \notin Clusters /\ EOF # FREE
    BY <1>2, OwnFacts
  <2>4. Views'[p] = View(r) /\ Views[p] = View(me) /\ \A q \in Files : q # p => Views'[q] = Views[q]
    BY <1>9, ViewsStep
  <2> QED
    BY <2>1, <2>2, <2>3, <2>4
<1>14. Nxt \in [Clusters -> Values] /\ own \in [Clusters -> Owners] /\ Nxt[c] = EOF
  <2>1. OwnedBy(Nxt, own, start[p], View(me), p)
    BY <1>12, <1>13 DEF Owned
  <2>2. Nxt[c] = EOF
    BY <1>4, <1>13, <2>1 DEF OwnedBy
  <2> QED
    BY <1>12, <2>2 DEF Owned
<1>15. Wrote(c, h)
  <2>1. h \in Values
    BY <1>2, <1>5, OwnFacts
  <2> QED
    BY <1>2, <1>3, <1>4, <1>14, <2>1, PutWrites
<1>16. FreeIn(Nxt') = FreeIn(Nxt)
  <2>1. Nxt' = [Nxt EXCEPT ![c] = h]
    BY <1>15 DEF Wrote
  <2>2. h # FREE
    BY <1>2, <1>5, OwnFacts
  <2>3. \A d \in Clusters : Nxt'[d] = FREE <=> Nxt[d] = FREE
    <3> TAKE d \in Clusters
    <3>1. CASE d = c
      BY <1>13, <1>14, <2>1, <2>2, <3>1
    <3>2. CASE d # c
      BY <1>14, <2>1, <3>2
    <3> QED
      BY <3>1, <3>2
  <2> QED
    BY <2>3 DEF FreeIn
<1>17. Sought(Nxt', r)
  BY <1>8 DEF Sought, Counting
<1>18. Searching'
  BY <1>1, <1>3, <1>8, <1>9, <1>16, <1>17, SearchKept
<1> DEFINE o == Relabel(own, <<p, "new">>, <<p, "file">>)
           k == After(own, rank, <<p, "new">>, c)
<1>19. Owned([Nxt EXCEPT ![c] = h], o, k, start, Views')
  <2>1. Idles(Views'[p]) /\ Views'[p].head \notin Clusters
    BY <1>13 DEF Idles
  <2>2. Views[p].end = c /\ Views[p].head = h /\ Views[p].fresh \notin Clusters
    BY <1>13
  <2>3. Turn(Views, Views', p)
    BY <1>13 DEF Turn
  <2> QED
    BY <1>2, <1>4, <1>5, <1>12, <2>1, <2>2, <2>3, OwnLink
<1>20. OthersNew(own, o, p)
  <2> USE DEF OthersNew
  <2> TAKE q \in Files
  <2> HAVE q # p
  <2>1. <<p, "new">> # <<q, "new">> /\ <<p, "file">> # <<q, "new">>
    BY <1>2, OwnFacts
  <2> QED
    BY <2>1 DEF Relabel
<1> HIDE DEF o, k
<1>21. ToSet(BlocksAt[c]) \cup Dirty(BlocksAt, own, me, p) \subseteq Dirty(BlocksAt, o, r, p)
  <2>1. Dirty(BlocksAt, own, me, p) = {}
    BY <1>3, <1>4, NoBlocks DEF Dirty, Pc, Freeing
  <2>2. ToSet(BlocksAt[c]) \subseteq Dirty(BlocksAt, o, r, p)
    BY <1>6, <1>8 DEF Dirty, bhs
  <2> QED
    BY <2>1, <2>2
<1>22. r.pc \notin Allocating /\ prev_free' \in Clusters
  BY <1>2, <1>3, <1>8 DEF Allocating
<1> QED
  BY <1>3, <1>4, <1>8, <1>9, <1>10, <1>11, <1>12, <1>15, <1>18, <1>19, <1>20, <1>21, <1>22, StepWrite

-----------------------------------------------------------------------------
(* The file is cut after its first cluster.                                   *)
LEMMA CutWriteStep ==
  ASSUME Inv, NEW p \in Files, CutWrite(p)
  PROVE  Inv'
<1> DEFINE me == proc[p]
           c  == start[p]
           n  == Nxt[c]
           r  == [Mirror(Idle, ReadBlock(c).bhs, "f_lock") EXCEPT !.cl = n]
<1>1. Types /\ Searching
  BY DEF Inv
<1>2. /\ format \in Formats /\ fat \in Table /\ prev_free \in Clusters /\ proc \in [Files -> Locals]
      /\ me \in Locals /\ LocalOK(Rights, format.bufs, me) /\ (fat_lock = p <=> Locked(me)) /\ format.bufs \in Nat
      /\ c \in Clusters
  BY <1>1, Local
<1>3. Get(ReadBlock(c)) = n
  BY <1>2, GetNow
<1>4. /\ me.pc = "idle" /\ fat_lock' = fat_lock /\ Set(p, r) /\ fat' = Put(ReadBlock(c), EOF) /\ n \notin {EOF, FREE}
      /\ format' = format /\ start' = start /\ backup' = backup /\ prev_free' = prev_free
      /\ free_clusters' = free_clusters /\ free_clus_valid' = free_clus_valid
  BY <1>3 DEF CutWrite, At, count
<1>5. me.bhs = <<>>
  BY <1>2, <1>4 DEF LocalOK
<1>6. /\ ReadBlock(c).bhs = BlocksAt[c] /\ ReadBlock(c).bhs \in Seq(Nat) /\ Len(ReadBlock(c).bhs) \in {1, 2}
  BY <1>2, ReadRight DEF Entries
<1>7. PICK own, rank : Owned(Nxt, own, rank, start, Views) /\ Mirrored(own)
  BY DEF Inv
<1>8. Nxt \in [Clusters -> Values] /\ own \in [Clusters -> Owners]
  BY <1>7 DEF Owned
<1>9. n \in Clusters /\ EOF \in Values /\ EOF # FREE /\ n # FREE /\ 0 \notin Clusters
  BY <1>2, <1>4, <1>8, OwnFacts DEF Values
<1> DEFINE bhs == ReadBlock(c).bhs
<1>10. r = [Idle EXCEPT !.pc = "mirror", !.bhs = bhs, !.then = "f_lock", !.cl = n]
  BY DEF Mirror
<1> HIDE DEF bhs, r
<1>11. /\ r \in Locals /\ r.pc = "mirror" /\ r.then = "f_lock" /\ r.bhs = bhs /\ r.fe = NoEntry /\ r.cl = n
  BY <1>6, <1>9, <1>10, IdleLocal DEF Idle, Locals, Pcs, Thens, bhs
<1>12. Sets(p, r)
  BY <1>2, <1>4, <1>11, SetIs
<1>13. LocalOK(Rights, format.bufs, r)
  <2>1. Len(bhs) <= format.bufs
    <3>1. 2 <= format.bufs
      <4>1. format.bufs \in Nat \ {0, 1}
        BY <1>2, FormatAssumption
      <4> QED
        BY <4>1
    <3> DEFINE a == Len(bhs)
    <3>2. a = 1 \/ a = 2
      BY <1>6 DEF bhs
    <3>3. format.bufs \in Nat
      BY <1>2
    <3> HIDE DEF a
    <3>4. a <= format.bufs
      BY <3>1, <3>2, <3>3
    <3> QED
      BY <3>4 DEF a
  <2> QED
    BY <1>9, <1>11, <2>1, IdleLocal DEF LocalOK, Pc, Allocating, Walking, Freeing, Counting
<1>14. Locks(p, me, r)
  BY <1>4, <1>11 DEF Locks, Locked, Pc, Allocating, Counting
<1>15. /\ View(me) = [head |-> 0, fresh |-> 0, last |-> 0, walk |-> 0, end |-> 0]
       /\ View(r) = [head |-> n, fresh |-> 0, last |-> 0, walk |-> 0, end |-> 0]
  BY <1>4, <1>11 DEF View, Pc, Allocating, Walking, Freeing
<1>16. Views'[p] = View(r) /\ Views[p] = View(me) /\ Turn(Views, Views', p)
  BY <1>12, ViewsStep DEF Turn
<1>17. Wrote(c, EOF)
  BY <1>2, <1>4, <1>8, <1>9, PutWrites
<1>18. FreeIn(Nxt') = FreeIn(Nxt)
  <2>1. Nxt' = [Nxt EXCEPT ![c] = EOF]
    BY <1>17 DEF Wrote
  <2>2. \A d \in Clusters : Nxt'[d] = FREE <=> Nxt[d] = FREE
    <3> TAKE d \in Clusters
    <3>1. CASE d = c
      BY <1>2, <1>8, <1>9, <2>1, <3>1
    <3>2. CASE d # c
      BY <1>8, <2>1, <3>2
    <3> QED
      BY <3>1, <3>2
  <2> QED
    BY <2>2 DEF FreeIn
<1>19. Sought(Nxt', r)
  BY <1>11 DEF Sought, Counting
<1>20. Searching'
  BY <1>1, <1>4, <1>11, <1>12, <1>18, <1>19, SearchKept
<1> DEFINE o == CutOwn(own, c, <<p, "file">>, <<p, "new">>)
<1>21. Owned([Nxt EXCEPT ![c] = EOF], o, rank, start, Views')
  <2>1. Idles(Views'[p]) /\ Views'[p].head = Nxt[c]
    BY <1>9, <1>15, <1>16 DEF Idles
  <2>2. Views[p].head \notin Clusters /\ Views[p].fresh \notin Clusters
    BY <1>9, <1>15, <1>16
  <2>3. Nxt[c] \in Clusters /\ Turn(Views, Views', p) /\ c = start[p]
    BY <1>9, <1>16
  <2> QED
    BY <1>2, <1>7, <2>1, <2>2, <2>3, OwnCut
<1>22. OthersNew(own, o, p)
  <2> USE DEF OthersNew
  <2> TAKE q \in Files
  <2> HAVE q # p
  <2>1. <<p, "new">> # <<q, "new">> /\ <<p, "file">> # <<q, "new">>
    BY <1>2, OwnFacts
  <2> QED
    BY <2>1 DEF CutOwn
<1> HIDE DEF o
<1>23. ToSet(BlocksAt[c]) \cup Dirty(BlocksAt, own, me, p) \subseteq Dirty(BlocksAt, o, r, p)
  <2>1. Dirty(BlocksAt, own, me, p) = {}
    BY <1>4, <1>5, NoBlocks DEF Dirty, Pc, Freeing
  <2>2. ToSet(BlocksAt[c]) \subseteq Dirty(BlocksAt, o, r, p)
    BY <1>6, <1>11 DEF Dirty, bhs
  <2> QED
    BY <2>1, <2>2
<1>24. r.pc \notin Allocating /\ prev_free' \in Clusters
  BY <1>2, <1>4, <1>11 DEF Allocating
<1> HIDE DEF n
<1> QED
  BY <1>2, <1>4, <1>7, <1>11, <1>12, <1>13, <1>14, <1>17, <1>20, <1>21, <1>22, <1>23, <1>24, StepWrite

-----------------------------------------------------------------------------
(* An entry is freed.                                                         *)
LEMMA FreeEntryStep ==
  ASSUME Inv, NEW p \in Files, FreeEntry(p)
  PROVE  Inv'
<1> DEFINE me == proc[p]
           c  == me.cl
           fe == ReadBlock(c)
           n  == Nxt[c]
           r  == [me EXCEPT !.pc = "f_collect", !.fe = fe, !.cl = n]
<1>1. Types /\ Searching
  BY DEF Inv
<1>2. /\ format \in Formats /\ fat \in Table /\ prev_free \in Clusters /\ proc \in [Files -> Locals]
      /\ me \in Locals /\ LocalOK(Rights, format.bufs, me) /\ (fat_lock = p <=> Locked(me)) /\ format.bufs \in Nat
  BY <1>1, Local
<1>3. /\ me.pc = "f_read" /\ fat_lock' = fat_lock
      /\ format' = format /\ start' = start /\ backup' = backup /\ prev_free' = prev_free
      /\ free_clus_valid' = free_clus_valid
  BY DEF FreeEntry, At
<1>4. /\ c \in Clusters /\ Len(me.bhs) <= format.bufs
      /\ me.fe.bhs = <<>> \/ me.fe \in Rights
  BY <1>2, <1>3 DEF LocalOK, Pc
<1>5. EntRead(me.fe, c) = fe /\ Get(EntRead(me.fe, c)) = n
  BY <1>2, <1>4, ReadNow
<1>6. fe \in Rights /\ fe \in Entries /\ fe.bhs = BlocksAt[c]
  BY <1>2, <1>4, ReadRight
<1>7. PICK own, rank : Owned(Nxt, own, rank, start, Views) /\ Mirrored(own)
  BY DEF Inv
<1>8. Nxt \in [Clusters -> Values] /\ own \in [Clusters -> Owners]
  BY <1>7 DEF Owned
<1>9. /\ View(me) = [head |-> c, fresh |-> 0, last |-> 0, walk |-> 0, end |-> 0]
      /\ Views[p] = View(me) /\ 0 \notin Clusters /\ FREE \in Values /\ <<p, "new">> # Nobody
  <2>1. View(me) = [head |-> c, fresh |-> 0, last |-> 0, walk |-> 0, end |-> 0]
    BY <1>3 DEF View, Pc, Allocating, Walking, Freeing
  <2>2. 0 \notin Clusters /\ FREE \in Values /\ <<p, "new">> # Nobody
    BY <1>2, OwnFacts
  <2> QED
    BY <2>1, <2>2 DEF Views
<1>10. own[c] = <<p, "new">> /\ n # FREE /\ n \in Clusters \cup {EOF}
  <2>1. OwnedBy(Nxt, own, start[p], View(me), p)
    BY <1>7, <1>9 DEF Owned
  <2>2. own[c] = <<p, "new">>
    BY <1>4, <1>9, <2>1 DEF OwnedBy, Root
  <2>3. n # FREE
    BY <1>4, <1>7, <1>9, <2>2 DEF Owned
  <2> QED
    BY <1>4, <1>8, <2>2, <2>3 DEF Values
<1>11. /\ fat' = Put(fe, FREE) /\ Set(p, r)
       /\ free_clusters' = IF free_clusters # -1 THEN free_clusters + 1 ELSE -1
  BY <1>5, <1>10 DEF FreeEntry
<1> HIDE DEF fe, n
<1>12. /\ r \in Locals /\ r.pc = "f_collect" /\ r.fe = fe /\ r.cl = n /\ r.bhs = me.bhs
  BY <1>2, <1>6, <1>10 DEF Locals, Pcs, Freeing
<1>13. Sets(p, r)
  BY <1>2, <1>11, <1>12, SetIs
<1> HIDE DEF r
<1>14. LocalOK(Rights, format.bufs, r)
  BY <1>4, <1>6, <1>10, <1>12 DEF LocalOK, Pc, Allocating, Walking, Freeing, Counting
<1>15. Locked(me) /\ fat_lock = p /\ Locks(p, me, r)
  BY <1>2, <1>3, <1>12 DEF Locks, Locked, Pc
<1>16. /\ View(r) = [head |-> n, fresh |-> 0, last |-> 0, walk |-> 0, end |-> 0]
       /\ Views'[p] = View(r) /\ Turn(Views, Views', p)
  <2>1. View(r) = [head |-> n, fresh |-> 0, last |-> 0, walk |-> 0, end |-> 0]
    BY <1>12, FreeingView DEF Freeing
  <2> QED
    BY <1>13, <2>1, ViewsStep DEF Turn
<1>17. Wrote(c, FREE)
  BY <1>2, <1>3, <1>4, <1>8, <1>9, <1>11, PutWrites DEF fe
<1>18. Searching'
  <2>1. Nxt' = [Nxt EXCEPT ![c] = FREE]
    BY <1>17 DEF Wrote
  <2>2. Nxt'[c] = FREE /\ Nxt[c] # FREE /\ \A d \in Clusters : d # c => Nxt[d] = Nxt'[d]
    BY <1>4, <1>8, <1>10, <2>1 DEF n
  <2>3. Cardinality(FreeIn(Nxt')) = Cardinality(FreeIn(Nxt)) + 1
    BY <1>4, <2>2, FreeOneMore
  <2>4. Sought(Nxt', r)
    BY <1>12 DEF Sought, Counting
  <2>5. \A q \in Files : proc[q].pc # "a_take"
    <3> TAKE q \in Files
    <3>1. CASE q = p
      BY <1>3, <3>1
    <3>2. CASE q # p
      <4>1. ~Locked(proc[q])
        BY <1>1, <1>15, <3>2 DEF Types
      <4> QED
        BY <4>1, NotSearching
    <3> QED
      BY <3>1, <3>2
  <2>6. /\ free_clus_valid \in BOOLEAN
        /\ IF free_clus_valid THEN free_clusters = Cardinality(FreeIn(Nxt)) + 0 ELSE free_clusters = -1
    BY <1>1, <2>5 DEF Searching, At
  <2>7. Cardinality(FreeIn(Nxt')) \in Nat /\ Cardinality(FreeIn(Nxt)) \in Nat
    BY FreeFinite
  <2>8. /\ free_clus_valid' \in BOOLEAN
        /\ IF free_clus_valid'
           THEN free_clusters' = Cardinality(FreeIn(Nxt')) + (IF r.pc = "a_take" THEN 1 ELSE 0)
           ELSE free_clusters' = -1
    BY <1>3, <1>11, <1>12, <2>3, <2>6, <2>7
  <2> QED
    BY <1>1, <1>13, <1>15, <2>4, <2>8, SearchLocked
<1> DEFINE o == [own EXCEPT ![c] = Nobody]
<1>19. Owned([Nxt EXCEPT ![c] = FREE], o, rank, start, Views')
  <2>1. Idles(Views'[p]) /\ Views'[p].head = Nxt[c]
    BY <1>9, <1>16 DEF Idles, n
  <2>2. Views[p].head = c /\ Views[p].fresh \notin Clusters /\ Turn(Views, Views', p)
    BY <1>9, <1>16
  <2> QED
    BY <1>2, <1>4, <1>7, <2>1, <2>2, OwnRelease
<1>20. /\ o[c] = Nobody /\ \A d \in Clusters : d # c => o[d] = own[d]
  BY <1>4, <1>8
<1> HIDE DEF o
<1>21. OthersNew(own, o, p)
  <2> USE DEF OthersNew
  <2> TAKE q \in Files
  <2> HAVE q # p
  <2>1. <<p, "new">> # <<q, "new">> /\ Nobody # <<q, "new">>
    <3>1. <<q, "new">> # Nobody /\ <<p, "new">> # <<q, "new">>
      BY <1>2, OwnFacts
    <3> QED
      BY <3>1
  <2> QED
    BY <1>10, <1>20, <2>1
<1>22. ToSet(BlocksAt[c]) \cup Dirty(BlocksAt, own, me, p) \subseteq Dirty(BlocksAt, o, r, p)
  <2>1. ClassBlocks(BlocksAt, own, p) \subseteq ToSet(BlocksAt[c]) \cup ClassBlocks(BlocksAt, o, p)
    <3> SUFFICES ASSUME NEW d \in Clusters, own[d] = <<p, "new">>
                 PROVE  ToSet(BlocksAt[d]) \subseteq ToSet(BlocksAt[c]) \cup ClassBlocks(BlocksAt, o, p)
      BY DEF ClassBlocks
    <3>1. CASE d = c
      BY <3>1
    <3>2. CASE d # c
      <4>1. o[d] = <<p, "new">>
        BY <1>20, <3>2
      <4> QED
        BY <4>1 DEF ClassBlocks
    <3> QED
      BY <3>1, <3>2
  <2>2. Dirty(BlocksAt, own, me, p) = ToSet(me.bhs) \cup ClassBlocks(BlocksAt, own, p)
    BY <1>3 DEF Dirty, Pc, Freeing
  <2>3. Dirty(BlocksAt, o, r, p) = ToSet(me.bhs) \cup ToSet(BlocksAt[c]) \cup ClassBlocks(BlocksAt, o, p)
    BY <1>6, <1>12 DEF Dirty, Pc, Freeing
  <2> QED
    BY <2>1, <2>2, <2>3
<1>23. r.pc \notin Allocating /\ prev_free' \in Clusters
  BY <1>2, <1>3, <1>12 DEF Allocating
<1> QED
  BY <1>3, <1>4, <1>7, <1>12, <1>13, <1>14, <1>15, <1>17, <1>18, <1>19, <1>21, <1>22, <1>23, StepWrite

-----------------------------------------------------------------------------
(* A cluster that was found is added to the new ones.                         *)

LEMMA ClassMore ==
  ASSUME NEW own, NEW o, NEW p \in Files, NEW e \in Clusters, o[e] = <<p, "new">>, own[e] # <<p, "new">>,
         \A c \in Clusters : c # e => o[c] = own[c]
  PROVE  ClassBlocks(BlocksAt, o, p) = ClassBlocks(BlocksAt, own, p) \cup ToSet(BlocksAt[e])
<1>1. {d \in Clusters : o[d] = <<p, "new">>} = {d \in Clusters : own[d] = <<p, "new">>} \cup {e}
  <2>1. \A d \in Clusters : o[d] = <<p, "new">> => own[d] = <<p, "new">> \/ d = e
    OBVIOUS
  <2>2. \A d \in Clusters : own[d] = <<p, "new">> \/ d = e => o[d] = <<p, "new">>
    OBVIOUS
  <2> QED
    BY <2>1, <2>2
<1> QED
  BY <1>1 DEF ClassBlocks

(* The link of the last new cluster to this one, if there is one.             *)
LEMMA Joined ==
  ASSUME format \in Formats, format' = format, fat \in Table,
         NEW p \in Files, NEW me, NEW e \in Clusters,
         IF me.taken = <<>> THEN me.prev.bhs = <<>> ELSE me.prev \in Rights,
         fat' = IF me.prev.bhs # <<>> THEN Put(me.prev, e) ELSE fat,
         NEW own, NEW rank, Owned(Nxt, own, rank, start, Views), Turn(Views, Views', p),
         Views[p].fresh = e,
         me.taken = <<>> => Views[p].head \notin Clusters,
         me.taken # <<>> => Views[p].last = me.prev.entry /\ Views[p].head = me.taken[1],
         Views'[p].head = IF me.taken = <<>> THEN e ELSE me.taken[1],
         Views'[p].fresh \notin Clusters, Views'[p].last \in Clusters => Views'[p].last = e,
         Views'[p].walk \in Clusters => Views'[p].walk = start[p], Views'[p].end \notin Clusters
  PROVE  /\ fat' \in Table /\ Nxt' \in [Clusters -> Values]
         /\ \A c \in Clusters : Nxt'[c] = FREE <=> Nxt[c] = FREE
         /\ \A b \in 0..(TableSize - 1) : fat'[b] # fat[b] =>
              b \div blksz \in ClassBlocks(BlocksAt, own, p)
         /\ \E k : Owned(Nxt', [own EXCEPT ![e] = <<p, "new">>], k, start, Views')
<1>0. Nxt \in [Clusters -> Values] /\ OwnedBy(Nxt, own, start[p], Views[p], p)
  BY DEF Owned
<1>1. CASE me.taken = <<>>
  <2>1. fat' = fat
    BY <1>1
  <2>2. Nxt' = Nxt
    BY <2>1, TableKept
  <2>3. Owned(Nxt, [own EXCEPT ![e] = <<p, "new">>], rank, start, Views')
    <3>1. Views[p].head \notin Clusters /\ Views'[p].head = e
      BY <1>1
    <3> QED
      BY <3>1, OwnFirst
  <2> QED
    BY <1>0, <2>1, <2>2, <2>3
<1>2. CASE me.taken # <<>>
  <2> DEFINE l == me.prev.entry
  <2>1. me.prev = ReadBlock(l) /\ l \in Clusters /\ me.prev.bhs # <<>>
    BY <1>2, RightFacts
  <2>2. Views[p].last = l /\ Views'[p].head = Views[p].head
    BY <1>2
  <2> HIDE DEF l
  <2>3. e \in Values /\ e # FREE /\ EOF # FREE
    BY OwnFacts
  <2>4. fat' = Put(ReadBlock(l), e)
    BY <2>1
  <2>5. Wrote(l, e)
    BY <1>0, <2>1, <2>3, <2>4, PutWrites
  <2>6. /\ fat' \in Table /\ Nxt' = [Nxt EXCEPT ![l] = e]
        /\ \A b \in 0..(TableSize - 1) : fat'[b] # fat[b] => b \div blksz \in ToSet(BlocksAt[l])
    BY <2>5 DEF Wrote
  <2>7. own[l] = <<p, "new">> /\ Nxt[l] = EOF
    BY <1>0, <2>1, <2>2 DEF OwnedBy
  <2>8. \A c \in Clusters : Nxt'[c] = FREE <=> Nxt[c] = FREE
    <3> TAKE c \in Clusters
    <3>1. CASE c = l
      BY <1>0, <2>1, <2>3, <2>6, <2>7, <3>1
    <3>2. CASE c # l
      BY <1>0, <2>6, <3>2
    <3> QED
      BY <3>1, <3>2
  <2>9. Nxt' \in [Clusters -> Values]
    BY <1>0, <2>3, <2>6
  <2>10. ToSet(BlocksAt[l]) \subseteq ClassBlocks(BlocksAt, own, p)
    BY <2>1, <2>7 DEF ClassBlocks
  <2>11. Owned([Nxt EXCEPT ![l] = e], [own EXCEPT ![e] = <<p, "new">>], [rank EXCEPT ![e] = rank[l] + 1], start, Views')
    BY <2>1, <2>2, OwnJoin
  <2>12. \A b \in 0..(TableSize - 1) : fat'[b] # fat[b] => b \div blksz \in ClassBlocks(BlocksAt, own, p)
    BY <2>6, <2>10
  <2> QED
    BY <2>6, <2>8, <2>9, <2>11, <2>12
<1> QED
  BY <1>1, <1>2

LEMMA AllocTakeStep ==
  ASSUME Inv, NEW p \in Files, AllocTake(p)
  PROVE  Inv'
<1> DEFINE me    == proc[p]
           e     == me.fe.entry
           bhs   == Collect(me.bhs, me.fe)
           taken == Append(me.taken, e)
           got   == [me EXCEPT !.bhs = bhs, !.taken = taken]
           all   == Len(taken) = me.nr
           m     == [got EXCEPT !.prev = me.fe]
           r     == IF all THEN [Mirror(got, got.bhs, "w_read") EXCEPT !.cl = start[p], !.fe = NoEntry]
                    ELSE Advance(m)
<1>1. Types /\ Searching
  BY DEF Inv
<1>2. /\ format \in Formats /\ fat \in Table /\ backup \in Table /\ prev_free \in Clusters /\ proc \in [Files -> Locals]
      /\ me \in Locals /\ LocalOK(Rights, format.bufs, me) /\ (fat_lock = p <=> Locked(me)) /\ format.bufs \in Nat
      /\ start[p] \in Clusters
  BY <1>1, Local
<1>3. /\ me.pc = "a_take" /\ Set(p, r) /\ fat_lock' = (IF all THEN NoProc ELSE fat_lock)
      /\ fat' = IF me.prev.bhs # <<>> THEN Put(me.prev, e) ELSE fat
      /\ format' = format /\ start' = start /\ backup' = backup /\ prev_free' = e
      /\ free_clusters' = (IF free_clusters # -1 THEN free_clusters - 1 ELSE -1)
      /\ free_clus_valid' = free_clus_valid
  <2>1. /\ me.pc = "a_take"
        /\ fat' = IF me.prev.bhs # <<>> THEN Put(me.prev, e) ELSE fat
        /\ format' = format /\ start' = start /\ backup' = backup /\ prev_free' = e
        /\ free_clusters' = (IF free_clusters # -1 THEN free_clusters - 1 ELSE -1)
        /\ free_clus_valid' = free_clus_valid
    BY DEF AllocTake, At
  <2>2. got.taken = taken
    BY <1>2 DEF Locals
  <2>3. Set(p, r) /\ fat_lock' = (IF all THEN NoProc ELSE fat_lock)
    <3>1. CASE all
      BY <2>2, <3>1 DEF AllocTake, Unlock
    <3>2. CASE ~all
      BY <2>2, <3>2 DEF AllocTake
    <3> QED
      BY <3>1, <3>2
  <2> QED
    BY <2>1, <2>3
<1>4. /\ me.fe \in Rights /\ me.n \in Clusters
      /\ Len(me.taken) < me.nr /\ 2 * me.nr <= format.bufs /\ Len(me.bhs) <= 2 * Len(me.taken)
      /\ IF me.taken = <<>> THEN me.prev.bhs = <<>> ELSE me.prev \in Rights
      /\ Len(me.bhs) <= format.bufs
  BY <1>2, <1>3 DEF LocalOK, Allocating
<1>5. e \in Clusters /\ me.fe.bhs = BlocksAt[e] /\ Len(me.fe.bhs) \in {1, 2} /\ me.fe \in Entries
  BY <1>2, <1>4, RightFacts
<1>6. /\ me.bhs \in Seq(Nat) /\ bhs \in Seq(Nat) /\ Len(bhs) <= Len(me.bhs) + Len(me.fe.bhs)
      /\ ToSet(bhs) = ToSet(me.bhs) \cup ToSet(me.fe.bhs) /\ me.taken \in Seq(Clusters) /\ me.nr \in Nat
  BY <1>2, <1>4, CollectFacts, Fields
<1>7. /\ taken \in Seq(Clusters) /\ Len(taken) = Len(me.taken) + 1 /\ taken # <<>>
      /\ taken[1] = IF me.taken = <<>> THEN e ELSE me.taken[1]
  <2> HIDE DEF e
  <2>1. me.taken \in Seq(Clusters) /\ e \in Clusters
    BY <1>5, <1>6
  <2>2. taken \in Seq(Clusters) /\ Len(taken) = Len(me.taken) + 1 /\ taken # <<>>
    BY <2>1
  <2>3. me.taken = <<>> => taken[1] = e
    BY <2>1
  <2>4. me.taken # <<>> => taken[1] = me.taken[1]
    BY <2>1
  <2> QED
    BY <2>2, <2>3, <2>4
<1>8. /\ Len(taken) <= me.nr /\ Len(bhs) <= 2 * Len(taken) /\ Len(bhs) <= format.bufs
  <2> DEFINE a == Len(me.bhs)
             b == Len(me.fe.bhs)
             c == Len(bhs)
             d == Len(me.taken)
             f == Len(taken)
  <2>1. a \in Nat /\ b \in {1, 2} /\ d \in Nat /\ f = d + 1 /\ d < me.nr /\ 2 * me.nr <= format.bufs /\ a <= 2 * d
    BY <1>4, <1>5, <1>6, <1>7
  <2>2. c \in Nat
    <3> HIDE DEF bhs
    <3> QED
      BY <1>6
  <2>3. c <= a + b
    BY <1>6
  <2>4. me.nr \in Nat /\ format.bufs \in Nat
    BY <1>2, <1>6
  <2> HIDE DEF a, b, c, d, f
  <2>5. f <= me.nr /\ c <= 2 * f /\ c <= format.bufs
    BY <2>1, <2>2, <2>3, <2>4
  <2> QED
    BY <2>5 DEF c, f
<1>9. Locked(me) /\ fat_lock = p /\ me.pc \in Allocating /\ Pc(me) = me.pc
  BY <1>2, <1>3 DEF Locked, Pc, Allocating
<1> HIDE DEF bhs, taken, all
<1>10. /\ got \in Locals /\ got.pc = "a_take" /\ got.fe = me.fe /\ got.prev = me.prev /\ got.n = me.n /\ got.nr = me.nr
       /\ got.taken = taken /\ got.bhs = bhs
  BY <1>2, <1>3, <1>6, <1>7 DEF Locals
<1>11. /\ m \in Locals /\ m.pc = "a_take" /\ m.fe = me.fe /\ m.prev = me.fe /\ m.n = me.n /\ m.nr = me.nr
       /\ m.taken = taken /\ m.bhs = bhs
  <2> HIDE DEF got
  <2> QED
    BY <1>5, <1>10 DEF Locals
<1>12. all => /\ r \in Locals /\ r.pc = "mirror" /\ r.then = "w_read" /\ r.fe = NoEntry /\ r.cl = start[p]
              /\ r.taken = taken /\ r.bhs = bhs
  <2> HAVE all
  <2>1. r = [Mirror(got, got.bhs, "w_read") EXCEPT !.cl = start[p], !.fe = NoEntry]
    OBVIOUS
  <2> HIDE DEF got
  <2>2. r = [got EXCEPT !.pc = "mirror", !.bhs = bhs, !.then = "w_read", !.cl = start[p], !.fe = NoEntry]
    BY <1>10, <2>1 DEF Mirror
  <2> HIDE DEF r
  <2> QED
    BY <1>2, <1>6, <1>10, <2>2, IdleLocal DEF Locals, Pcs, Thens
<1>13. ~all => r = Advance(m)
  OBVIOUS
<1> HIDE DEF r, m, got
<1>14. PICK own, rank : Owned(Nxt, own, rank, start, Views) /\ Mirrored(own)
  BY DEF Inv
<1>15. own \in [Clusters -> Owners] /\ own[e] = <<p, "fresh">> /\ Nxt[e] = EOF
  <2>1. View(me).fresh = e
    BY <1>3 DEF View
  <2>2. OwnedBy(Nxt, own, start[p], View(me), p)
    BY <1>14 DEF Owned, Views
  <2> QED
    BY <1>5, <1>14, <2>1, <2>2 DEF Owned, OwnedBy, Root
<1>16. ~all => /\ r \in Locals /\ r.pc \in {"a_block", "a_scan"}
               /\ r.prev = me.fe /\ r.nr = me.nr /\ r.taken = taken /\ r.bhs = bhs
               /\ r.pc = "a_scan" => r.fe \in Rights /\ r.n \in Clusters
               /\ r.pc = "a_block" => r.n \in START .. max_cluster /\ r.fe.entry \in START .. max_cluster
               /\ Sought(Nxt, r)
  <2> HAVE ~all
  <2>1. Nxt[m.fe.entry] # FREE /\ m.fe \in Rights /\ m.n \in Clusters /\ m.pc \in Allocating
    <3>1. EOF # FREE
      BY <1>2, OwnFacts
    <3> QED
      BY <1>4, <1>11, <1>15, <3>1 DEF Allocating
  <2>2. \A c \in Clusters : Seen(c, m.fe.entry, m.n) => Nxt[c] # FREE
    BY <1>1, <1>3, <1>11 DEF Searching, Sought
  <2>3. /\ Advance(m) \in Locals /\ Advance(m).pc \in {"a_block", "a_scan"}
        /\ Advance(m).prev = m.prev /\ Advance(m).nr = m.nr /\ Advance(m).taken = m.taken /\ Advance(m).bhs = m.bhs
        /\ Advance(m).pc = "a_scan" => Advance(m).fe \in Rights /\ Advance(m).n \in Clusters
        /\ Advance(m).pc = "a_block" => Advance(m).n \in START .. max_cluster /\ Advance(m).fe.entry \in START .. max_cluster
        /\ Sought(Nxt, Advance(m))
    BY <1>2, <1>11, <2>1, <2>2, AdvanceRight
  <2> QED
    BY <1>11, <1>13, <2>3
<1>17. r \in Locals /\ r.taken = taken /\ r.bhs = bhs /\ r.pc # "a_take" /\ r.pc # "l_write"
  BY <1>12, <1>16
<1>18. Sets(p, r)
  BY <1>2, <1>3, <1>17, SetIs
<1>19. LocalOK(Rights, format.bufs, r)
  <2>1. CASE all
    BY <1>2, <1>7, <1>8, <1>12, <2>1, IdleLocal DEF LocalOK, Pc, Allocating, Walking, Freeing, Counting
  <2>2. CASE ~all
    <3>1. Len(taken) < me.nr
      <4> DEFINE f == Len(taken)
      <4>1. f \in Nat /\ f <= me.nr /\ f # me.nr /\ me.nr \in Nat
        BY <1>6, <1>7, <1>8, <2>2 DEF all
      <4> HIDE DEF f
      <4>2. f < me.nr
        BY <4>1
      <4> QED
        BY <4>2 DEF f
    <3> QED
      BY <1>4, <1>7, <1>8, <1>16, <2>2, <3>1 DEF LocalOK, Pc, Allocating, Walking, Freeing, Counting
  <2> QED
    BY <2>1, <2>2
<1>20. Locks(p, me, r)
  <2>1. CASE all
    BY <1>3, <1>9, <1>12, <2>1 DEF Locks, Locked, Pc, Allocating, Counting
  <2>2. CASE ~all
    BY <1>3, <1>9, <1>16, <2>2 DEF Locks, Locked, Pc, Allocating
  <2> QED
    BY <2>1, <2>2
<1>21. /\ View(me).fresh = e
       /\ View(me).head = (IF me.taken = <<>> THEN 0 ELSE me.taken[1])
       /\ me.taken # <<>> => View(me).last = me.prev.entry
  BY <1>3, <1>9 DEF View, Walking, Freeing, Allocating
<1>22. /\ View(r).head = taken[1] /\ View(r).fresh = 0 /\ View(r).end = 0
       /\ View(r).last \in {0, e} /\ View(r).walk \in {0, start[p]}
  <2>1. CASE all
    BY <1>7, <1>12, <2>1 DEF View, Pc, Walking, Freeing, Allocating
  <2>2. CASE ~all
    BY <1>7, <1>16, <2>2 DEF View, Pc, Walking, Freeing, Allocating
  <2> QED
    BY <2>1, <2>2
<1>23. Views'[p] = View(r) /\ Views[p] = View(me) /\ Turn(Views, Views', p)
  BY <1>18, ViewsStep DEF Turn
<1>24. 0 \notin Clusters
  BY <1>2, OwnFacts
<1>40. PICK o : o = [own EXCEPT ![e] = <<p, "new">>]
  OBVIOUS
<1>25. /\ fat' \in Table /\ Nxt' \in [Clusters -> Values]
       /\ \A c \in Clusters : Nxt'[c] = FREE <=> Nxt[c] = FREE
       /\ \A b \in 0..(TableSize - 1) : fat'[b] # fat[b] => b \div blksz \in ClassBlocks(BlocksAt, own, p)
       /\ \E k : Owned(Nxt', o, k, start, Views')
  <2>1. /\ Views[p].fresh = e
        /\ me.taken = <<>> => Views[p].head \notin Clusters
        /\ me.taken # <<>> => Views[p].last = me.prev.entry /\ Views[p].head = me.taken[1]
    BY <1>21, <1>23, <1>24
  <2>2. /\ Views'[p].head = IF me.taken = <<>> THEN e ELSE me.taken[1]
        /\ Views'[p].fresh \notin Clusters /\ (Views'[p].last \in Clusters => Views'[p].last = e)
        /\ (Views'[p].walk \in Clusters => Views'[p].walk = start[p]) /\ Views'[p].end \notin Clusters
    BY <1>7, <1>22, <1>23, <1>24
  <2> QED
    BY <1>2, <1>3, <1>4, <1>5, <1>14, <1>23, <1>40, <2>1, <2>2, Joined
<1>26. FreeIn(Nxt') = FreeIn(Nxt)
  BY <1>25 DEF FreeIn
<1>27. o[e] = <<p, "new">> /\ \A c \in Clusters : c # e => o[c] = own[c]
  BY <1>5, <1>15, <1>40
<1>28. \A q \in Files : /\ <<p, "fresh">> # <<q, "new">>
                        /\ q # p => <<p, "new">> # <<q, "new">>
  BY <1>2, OwnFacts
<1>29. \A q \in Files : q # p => ClassBlocks(BlocksAt, o, q) = ClassBlocks(BlocksAt, own, q)
  <2> TAKE q \in Files
  <2> HAVE q # p
  <2>1. \A c \in Clusters : (o[c] = <<q, "new">>) <=> (own[c] = <<q, "new">>)
    BY <1>15, <1>27, <1>28
  <2> QED
    BY <1>2, <2>1, OnePiece
<1>30. ClassBlocks(BlocksAt, o, p) = ClassBlocks(BlocksAt, own, p) \cup ToSet(BlocksAt[e])
  <2>1. own[e] # <<p, "new">>
    BY <1>15, <1>28
  <2> QED
    BY <1>5, <1>27, <2>1, ClassMore
<1>31. ToSet(me.bhs) = ClassBlocks(BlocksAt, own, p) /\ ToSet(bhs) = ClassBlocks(BlocksAt, o, p)
  <2>1. ToSet(me.bhs) = ClassBlocks(BlocksAt, own, p)
    BY <1>9, <1>14 DEF Mirrored
  <2> QED
    BY <1>5, <1>6, <1>30, <2>1
<1>32. Dirty(BlocksAt, own, me, p) = ToSet(bhs) /\ ToSet(bhs) \subseteq Dirty(BlocksAt, o, r, p)
  BY <1>3, <1>6, <1>9, <1>17 DEF Dirty, Freeing
<1>33. Mirrored(o)'
  <2>1. \A b \in 0..(TableSize - 1) : fat'[b] # fat[b] => b \div blksz \in Dirty(BlocksAt, o, r, p)
    BY <1>25, <1>30, <1>31, <1>32
  <2>2. Dirty(BlocksAt, own, proc[p], p) \subseteq Dirty(BlocksAt, o, r, p)
    BY <1>32
  <2>3. r.pc \in Allocating => ToSet(r.bhs) = ClassBlocks(BlocksAt, o, p)
    BY <1>17, <1>31
  <2>4. Mirrored(own) /\ format' = format /\ backup' = backup
    BY <1>3, <1>14
  <2> QED
    BY <1>18, <1>29, <2>1, <2>2, <2>3, <2>4, MirrorStep
<1>34. Types'
  BY <1>1, <1>2, <1>3, <1>5, <1>17, <1>18, <1>19, <1>20, <1>25, TypesStep
<1>35. Searching'
  <2>1. Sought(Nxt', r)
    <3>1. CASE all
      BY <1>12, <3>1 DEF Sought, Counting
    <3>2. CASE ~all
      <4>1. Sought(Nxt, r)
        BY <1>16, <3>2
      <4> QED
        BY <1>25, <1>26, <4>1 DEF Sought
    <3> QED
      BY <3>1, <3>2
  <2>2. /\ free_clus_valid \in BOOLEAN
        /\ IF free_clus_valid THEN free_clusters = Cardinality(FreeIn(Nxt)) + 1 ELSE free_clusters = -1
    BY <1>1, <1>3 DEF Searching, At
  <2>3. Cardinality(FreeIn(Nxt)) \in Nat
    BY FreeFinite
  <2>4. /\ free_clus_valid' \in BOOLEAN
        /\ IF free_clus_valid'
           THEN free_clusters' = Cardinality(FreeIn(Nxt')) + (IF r.pc = "a_take" THEN 1 ELSE 0)
           ELSE free_clusters' = -1
    BY <1>3, <1>17, <1>26, <2>2, <2>3
  <2> QED
    BY <1>1, <1>9, <1>18, <2>1, <2>4, SearchLocked
<1>36. PICK k : Owned(Nxt', o, k, start', Views')
  BY <1>3, <1>25
<1> QED
  BY <1>33, <1>34, <1>35, <1>36 DEF Inv

-----------------------------------------------------------------------------
(* The invariant holds.                                                       *)

LEMMA InvInit == Init => Inv
<1> SUFFICES ASSUME Init PROVE Inv
  OBVIOUS
<1>1. /\ format \in Formats /\ start \in Starts /\ backup = fat /\ fat_lock = NoProc
      /\ free_clusters = -1 /\ free_clus_valid = FALSE /\ prev_free \in Clusters
      /\ proc = [p \in Files |-> Idle]
  BY DEF Init
<1>2. fat = FirstTable(start)
  BY DEF Init, FirstTable, TableSize
<1>3. fat \in Table
  BY <1>2, FirstInTable
<1>4. /\ Idle \in Locals /\ Idle.pc = "idle" /\ Idle.bhs = <<>> /\ ~Locked(Idle)
      /\ View(Idle) = [head |-> 0, fresh |-> 0, last |-> 0, walk |-> 0, end |-> 0]
  BY IdleLocal DEF Idle, Locked, Pc, Allocating, Walking, Freeing, Counting, View
<1>5. LocalOK(Rights, format.bufs, Idle)
  <2>1. Len(<<>>) <= format.bufs
    BY <1>1, FormatAssumption
  <2> QED
    BY <1>4, <2>1 DEF LocalOK, Pc, Allocating, Walking, Freeing, Counting
<1>6. Types
  BY <1>1, <1>3, <1>4, <1>5, NoProcAssumption DEF Types
<1>7. Searching
  BY <1>1, <1>4 DEF Searching, Sought, Counting
<1> DEFINE first(e) == \E p \in Files : start[p] = e
           own  == [e \in Clusters |-> IF first(e) THEN <<CHOOSE p \in Files : start[p] = e, "file">> ELSE Nobody]
           rank == [e \in Clusters |-> 0]
<1>8. \A p \in Files : start[p] \in Clusters /\ own[start[p]] = <<p, "file">>
  <2> TAKE p \in Files
  <2>1. start[p] \in Clusters /\ \A q \in Files : start[q] = start[p] => q = p
    BY <1>1, StartsAssumption
  <2>2. (CHOOSE q \in Files : start[q] = start[p]) = p
    BY <2>1
  <2> QED
    BY <2>1, <2>2
<1>9. \A e \in Clusters : (first(e) => own[e] \in Owners /\ own[e] # Nobody) /\ (~first(e) => own[e] = Nobody)
  <2> TAKE e \in Clusters
  <2>1. ASSUME first(e) PROVE own[e] \in Owners /\ own[e] # Nobody
    <3>1. PICK p \in Files : start[p] = e
      BY <2>1
    <3>2. own[e] = <<p, "file">>
      BY <1>8, <3>1
    <3> QED
      BY <1>1, <3>2, OwnFacts
  <2> QED
    BY <2>1
<1>10. rank \in [Clusters -> Nat] /\ own \in [Clusters -> Owners]
  <2>1. Nobody \in Owners
    BY <1>1, OwnFacts
  <2>2. rank \in [Clusters -> Nat]
    OBVIOUS
  <2> QED
    BY <1>9, <2>1, <2>2
<1> HIDE DEF own, rank
<1>11. \A e \in Clusters : Nxt[e] = IF first(e) THEN EOF ELSE FREE
  BY <1>1, <1>2, FirstValue, ValueNow DEF Nxt
<1>12. EOF # FREE /\ EOF \notin Clusters /\ FREE \notin Clusters /\ 0 \notin Clusters /\ EOF \in Values /\ FREE \in Values
  BY <1>1, OwnFacts
<1>13. \A e \in Clusters : Nxt[e] \in Values /\ Nxt[e] \notin Clusters /\ (Nxt[e] = FREE <=> own[e] = Nobody)
  BY <1>9, <1>11, <1>12
<1>14. Nxt \in [Clusters -> Values]
  BY <1>13 DEF Nxt
<1>15. \A p \in Files : Views[p] = [head |-> 0, fresh |-> 0, last |-> 0, walk |-> 0, end |-> 0]
  BY <1>1, <1>4 DEF Views
<1>16. \A p \in Files : OwnedBy(Nxt, own, start[p], Views[p], p)
  <2> TAKE p \in Files
  <2>1. Root(Nxt, own, start[p], <<p, "file">>)
    BY <1>8, <1>13 DEF Root
  <2> QED
    BY <1>12, <1>15, <2>1 DEF OwnedBy
<1>17. \A c \in Clusters : own[c] # Nobody => \E p \in Files : c \in {start[p], Views[p].head, Views[p].fresh}
  BY <1>9
<1>18. Owned(Nxt, own, rank, start, Views)
  BY <1>10, <1>13, <1>14, <1>16, <1>17 DEF Owned
<1>19. Mirrored(own)
  BY <1>1, <1>4 DEF Mirrored, Allocating
<1> QED
  BY <1>6, <1>7, <1>18, <1>19 DEF Inv

LEMMA InvNext == Inv /\ [Next]_vars => Inv'
<1> SUFFICES ASSUME Inv, [Next]_vars PROVE Inv'
  OBVIOUS
<1>1. ASSUME NEW p \in Files, AllocBegin(p) PROVE Inv'
  BY <1>1, AllocBeginStep
<1>2. ASSUME NEW p \in Files, AllocBlock(p) PROVE Inv'
  BY <1>2, AllocBlockStep
<1>3. ASSUME NEW p \in Files, AllocScan(p) PROVE Inv'
  BY <1>3, AllocScanStep
<1>4. ASSUME NEW p \in Files, AllocTake(p) PROVE Inv'
  BY <1>4, AllocTakeStep
<1>5. ASSUME NEW p \in Files, AllocFails(p) PROVE Inv'
  BY <1>5, AllocFailsStep
<1>6. ASSUME NEW p \in Files, WalkRead(p) PROVE Inv'
  BY <1>6, WalkReadStep
<1>7. ASSUME NEW p \in Files, WalkFails(p) PROVE Inv'
  BY <1>7, WalkFailsStep
<1>8. ASSUME NEW p \in Files, LinkWrite(p) PROVE Inv'
  BY <1>8, LinkWriteStep
<1>9. ASSUME NEW p \in Files, CutWrite(p) PROVE Inv'
  BY <1>9, CutWriteStep
<1>10. ASSUME NEW p \in Files, FreeBegin(p) PROVE Inv'
  BY <1>10, FreeBeginStep
<1>11. ASSUME NEW p \in Files, FreeEntry(p) PROVE Inv'
  BY <1>11, FreeEntryStep
<1>12. ASSUME NEW p \in Files, FreeCollect(p) PROVE Inv'
  BY <1>12, FreeCollectStep
<1>13. ASSUME NEW p \in Files, CountBegin(p) PROVE Inv'
  BY <1>13, CountBeginStep
<1>14. ASSUME NEW p \in Files, CountBlock(p) PROVE Inv'
  BY <1>14, CountBlockStep
<1>15. ASSUME NEW p \in Files, CountScan(p) PROVE Inv'
  BY <1>15, CountScanStep
<1>16. ASSUME NEW p \in Files, MirrorBlock(p) PROVE Inv'
  BY <1>16, MirrorBlockStep
<1>17. ASSUME NEW p \in Files, Done(p) PROVE Inv'
  BY <1>17, DoneStep
<1>18. CASE UNCHANGED vars
  <2>1. /\ format' = format /\ fat' = fat /\ backup' = backup /\ start' = start /\ fat_lock' = fat_lock
        /\ free_clusters' = free_clusters /\ free_clus_valid' = free_clus_valid /\ prev_free' = prev_free
        /\ proc' = proc
    BY <1>18 DEF vars
  <2>2. TableSize' = TableSize /\ Table' = Table /\ blksz' = blksz /\ Rights' = Rights /\ BlocksAt' = BlocksAt
    BY <2>1, Frame
  <2>3. Nxt' = Nxt
    <3>1. format \in Formats
      BY DEF Inv, Types
    <3> QED
      BY <2>1, <3>1, TableKept
  <2>4. Views' = Views
    BY <2>1 DEF Views
  <2>5. Types'
    BY <2>1, <2>2 DEF Inv, Types
  <2>6. Searching'
    BY <2>1, <2>3 DEF Inv, Searching, At
  <2>7. PICK own, rank : Owned(Nxt, own, rank, start, Views) /\ Mirrored(own)
    BY DEF Inv
  <2>8. Mirrored(own)'
    BY <2>1, <2>2, <2>7 DEF Mirrored
  <2>9. Owned(Nxt', own, rank, start', Views')
    BY <2>1, <2>3, <2>4, <2>7
  <2> QED
    BY <2>5, <2>6, <2>8, <2>9 DEF Inv
<1> QED
  BY <1>1, <1>2, <1>3, <1>4, <1>5, <1>6, <1>7, <1>8, <1>9, <1>10, <1>11, <1>12, <1>13, <1>14, <1>15, <1>16,
     <1>17, <1>18, Zenon DEF Next

(* From every start, with every format and every failure: each cluster is free, *)
(* in the chain of one file or among the new clusters of one call, the search   *)
(* has counted what it has passed, and each block of the second table is the    *)
(* first's or about to be written.                                              *)
THEOREM Invariant == Spec => []Inv
<1>1. Init => Inv
  BY InvInit
<1>2. Inv /\ [Next]_vars => Inv'
  BY InvNext
<1> QED
  BY <1>1, <1>2, PTL DEF Spec

LEMMA TypesPointers == Types => PointersRight
<1> SUFFICES ASSUME Types, NEW p \in Files
             PROVE  /\ Len(proc[p].bhs) <= format.bufs
                    /\ proc[p].pc \in {"a_scan", "a_take", "c_scan", "f_collect"} =>
                         LET fe == proc[p].fe
                         IN  /\ fe.entry \in Clusters
                             /\ fe.ptr[1] = Byte(fe.entry)
                             /\ bits = 12 => fe.ptr[2] = fe.ptr[1] + 1
                             /\ \A i \in DOMAIN fe.ptr : fe.ptr[i] \div blksz \in ToSet(fe.bhs)
  BY DEF PointersRight
<1> DEFINE me == proc[p]
           e  == me.fe.entry
<1>1. format \in Formats /\ LocalOK(Rights, format.bufs, me)
  BY Local
<1>2. Len(me.bhs) <= format.bufs
  BY <1>1 DEF LocalOK
<1>3. ASSUME me.pc \in {"a_scan", "a_take", "c_scan", "f_collect"}
      PROVE  /\ e \in Clusters /\ me.fe.ptr[1] = Byte(e)
             /\ bits = 12 => me.fe.ptr[2] = me.fe.ptr[1] + 1
             /\ \A i \in DOMAIN me.fe.ptr : me.fe.ptr[i] \div blksz \in ToSet(me.fe.bhs)
  <2>1. me.fe \in Rights
    BY <1>1, <1>3 DEF LocalOK, Pc
  <2>2. e \in Clusters /\ e \in Nat /\ me.fe = ReadBlock(e)
    BY <1>1, <2>1, RightFacts, MarkFacts
  <2> HIDE DEF e
  <2>3. ReadBlock(e).bhs = Blocks(e) /\ ReadBlock(e).ptr = Ptr(e)
    BY <1>1, <2>2, RightRead
  <2>4. me.fe.bhs = Blocks(e) /\ me.fe.ptr = Ptr(e)
    BY <2>2, <2>3
  <2>5. Ptr(e)[1] = Byte(e) /\ (bits = 12 => Ptr(e)[2] = Byte(e) + 1)
    BY <1>1, <2>2, BlocksFacts
  <2>6. \A i \in DOMAIN Ptr(e) : Ptr(e)[i] \in Bytes(e)
    <3>1. Byte(e) \in Nat
      BY <1>1, <2>2, ByteIs
    <3>2. Byte(e) \in Bytes(e) /\ Byte(e) + 1 \in Bytes(e)
      BY <3>1 DEF Bytes
    <3>3. CASE bits = 12
      BY <3>2, <3>3 DEF Ptr
    <3>4. CASE bits # 12
      BY <3>2, <3>4 DEF Ptr
    <3> QED
      BY <3>3, <3>4
  <2>7. \A i \in DOMAIN Ptr(e) : Ptr(e)[i] \div blksz \in ToSet(Blocks(e))
    BY <1>1, <2>2, <2>6, WrittenBlocks
  <2> QED
    BY <2>2, <2>4, <2>5, <2>7
<1> QED
  BY <1>2, <1>3

(* The pointers are on the bytes of the entry.                                *)
THEOREM Pointers == Spec => []PointersRight
<1>1. Inv => PointersRight
  BY TypesPointers DEF Inv
<1> QED
  BY <1>1, Invariant, PTL

(* What a search and a count say.                                             *)
THEOREM Searches == Spec => []SearchRight
<1>1. Inv => SearchRight
  <2> SUFFICES ASSUME Inv PROVE SearchRight
    OBVIOUS
  <2>1. Types /\ Searching
    BY DEF Inv
  <2>2. Free = FreeIn(Nxt)
    BY DEF Free, FreeIn, Nxt
  <2>3. \A p \in Files : At(p, "full") => Cardinality(Free) + Len(proc[p].taken) < proc[p].nr
    BY <2>1, <2>2 DEF Searching, Sought, At
  <2>4. ASSUME fat_lock = NoProc, free_clus_valid, free_clusters # -1
        PROVE  free_clusters = Cardinality(Free)
    <3>1. \A p \in Files : ~At(p, "a_take")
      <4> TAKE p \in Files
      <4>1. ~Locked(proc[p])
        BY <2>1, <2>4, NoProcAssumption DEF Types
      <4> QED
        BY <4>1, NotSearching DEF At
    <3>2. free_clusters = Cardinality(FreeIn(Nxt)) + 0
      BY <2>1, <2>4, <3>1 DEF Searching
    <3>3. Cardinality(FreeIn(Nxt)) \in Nat
      BY FreeFinite
    <3> QED
      BY <2>2, <3>2, <3>3
  <2> QED
    BY <2>3, <2>4 DEF SearchRight
<1> QED
  BY <1>1, Invariant, PTL

-----------------------------------------------------------------------------
(* The chains, when nobody is at work.                                        *)

(* What Chain's recursive definition is.                                      *)
Path(p) ==
  CHOOSE path : path = [i \in 1 .. max_cluster |->
    IF i = 1 THEN start[p]
    ELSE LET c == path[i - 1] IN IF c \in Clusters THEN Value(c) ELSE FREE]

LEMMA PathDef ==
  ASSUME NEW p \in Files
  PROVE  /\ Chain(p) = {Path(p)[i] : i \in 1 .. max_cluster} \cap Clusters
         /\ Path(p)[1] = start[p]
         /\ \A i \in 1 .. (max_cluster - 1) :
              Path(p)[i + 1] = IF Path(p)[i] \in Clusters THEN Nxt[Path(p)[i]] ELSE FREE
<1> DEFINE D(f, i) == IF i = 1 THEN start[p]
                      ELSE LET c == f[i - 1] IN IF c \in Clusters THEN Value(c) ELSE FREE
           S == {k \in Nat : \E f : f = [i \in 1 .. (k + 1) |-> D(f, i)]}
<1>0. max_cluster \in Nat /\ max_cluster - 1 \in Nat /\ max_cluster > 1
  BY SizeAssumption DEF START
<1>1. 0 \in S
  <2> DEFINE g == [i \in 1 .. (0 + 1) |-> start[p]]
  <2>1. g = [i \in 1 .. (0 + 1) |-> D(g, i)]
    OBVIOUS
  <2> QED
    BY <2>1
<1>2. ASSUME NEW k \in Nat, k \in S PROVE k + 1 \in S
  <2>1. PICK f : f = [i \in 1 .. (k + 1) |-> D(f, i)]
    BY <1>2
  <2> DEFINE g == [i \in 1 .. ((k + 1) + 1) |-> D(f, i)]
  <2>2. \A i \in 1 .. (k + 1) : g[i] = f[i]
    BY <2>1
  <2>3. \A i \in 1 .. ((k + 1) + 1) : i # 1 => i - 1 \in 1 .. (k + 1)
    OBVIOUS
  <2>4. \A i \in 1 .. ((k + 1) + 1) : D(g, i) = D(f, i)
    <3> TAKE i \in 1 .. ((k + 1) + 1)
    <3>1. CASE i = 1
      BY <3>1
    <3>2. CASE i # 1
      <4>1. g[i - 1] = f[i - 1]
        BY <2>2, <2>3, <3>2
      <4> HIDE DEF g
      <4> QED
        BY <3>2, <4>1
    <3> QED
      BY <3>1, <3>2
  <2>5. g = [i \in 1 .. ((k + 1) + 1) |-> D(g, i)]
    BY <2>4
  <2>6. \E h : h = [i \in 1 .. ((k + 1) + 1) |-> D(h, i)]
    <3> HIDE DEF g, D
    <3> QED
      BY <2>5
  <2> QED
    BY <2>6
<1>3. max_cluster - 1 \in S
  <2> HIDE DEF S
  <2>1. \A n \in 0..(max_cluster - 1) : n \in S
    BY <1>0, <1>1, <1>2, Induct
  <2> QED
    BY <1>0, <2>1
<1>4. PICK f : f = [i \in 1 .. max_cluster |-> D(f, i)]
  <2>1. (max_cluster - 1) + 1 = max_cluster
    BY <1>0
  <2> QED
    BY <1>3, <2>1
<1> DEFINE a == CHOOSE path : path = [i \in 1 .. max_cluster |-> D(path, i)]
<1>5. a = [i \in 1 .. max_cluster |-> D(a, i)]
  BY <1>4
<1>6. a = Path(p)
  BY DEF Path
<1>7. \A i \in 1 .. max_cluster : a[i] = D(a, i)
  BY <1>5
<1> HIDE DEF a
<1>8. Path(p)[1] = start[p]
  BY <1>0, <1>6, <1>7
<1>9. ASSUME NEW i \in 1 .. (max_cluster - 1)
      PROVE  Path(p)[i + 1] = IF Path(p)[i] \in Clusters THEN Nxt[Path(p)[i]] ELSE FREE
  <2>1. i + 1 \in 1 .. max_cluster /\ i + 1 # 1 /\ (i + 1) - 1 = i
    BY <1>0
  <2>2. Path(p)[i + 1] = IF Path(p)[i] \in Clusters THEN Value(Path(p)[i]) ELSE FREE
    BY <1>6, <1>7, <2>1
  <2> QED
    BY <2>2 DEF Nxt
<1>10. Chain(p) = {Path(p)[i] : i \in 1 .. max_cluster} \cap Clusters
  BY DEF Chain, Path
<1> QED
  BY <1>8, <1>9, <1>10

(* There is no room in the path for more than the clusters.                   *)
LEMMA PathEnds ==
  ASSUME format \in Formats, NEW own, NEW rank, NEW s, NEW V, Owned(Nxt, own, rank, s, V), NEW p \in Files
  PROVE  Path(p)[max_cluster] \notin Clusters
<1> SUFFICES ASSUME Path(p)[max_cluster] \in Clusters PROVE FALSE
  OBVIOUS
<1> DEFINE a == Path(p)
           m == max_cluster
           S == {n \in Nat : \A i \in 1..m : i + n <= m /\ a[i + n] \in Clusters => a[i] \in Clusters}
           T == {n \in Nat : n + 1 <= m => \A i \in 1..n : rank[a[i]] < rank[a[n + 1]]}
<1>0. m \in Nat /\ m > START /\ FREE \notin Clusters /\ m - 1 \in Nat
  BY SizeAssumption, OwnFacts DEF START
<1>1. \A i \in 1..(m - 1) : a[i + 1] = IF a[i] \in Clusters THEN Nxt[a[i]] ELSE FREE
  BY PathDef
<1>2. /\ rank \in [Clusters -> Nat]
      /\ \A d \in Clusters : Nxt[d] \in Clusters => rank[d] < rank[Nxt[d]]
  BY DEF Owned
<1> HIDE DEF a, m
<1>3. 0 \in S
  BY <1>0
<1>4. ASSUME NEW n \in Nat, n \in S PROVE n + 1 \in S
  <2> SUFFICES ASSUME NEW i \in 1..m, i + (n + 1) <= m, a[i + (n + 1)] \in Clusters PROVE a[i] \in Clusters
    OBVIOUS
  <2>1. i + 1 \in 1..m /\ (i + 1) + n = i + (n + 1) /\ i \in 1..(m - 1)
    BY <1>0
  <2>2. a[i + 1] \in Clusters
    BY <1>4, <2>1
  <2> QED
    BY <1>0, <1>1, <2>1, <2>2
<1>5. \A n \in 0..m : n \in S
  <2> HIDE DEF S
  <2> QED
    BY <1>0, <1>3, <1>4, Induct
<1>6. \A i \in 1..m : a[i] \in Clusters
  <2> TAKE i \in 1..m
  <2>1. m - i \in 0..m /\ i + (m - i) = m /\ m - i \in Nat
    BY <1>0
  <2>2. a[m] \in Clusters
    BY DEF a, m
  <2>3. i + (m - i) <= m /\ a[i + (m - i)] \in Clusters => a[i] \in Clusters
    BY <1>5, <2>1
  <2> QED
    BY <1>0, <2>1, <2>2, <2>3
<1>7. 0 \in T
  OBVIOUS
<1>8. ASSUME NEW n \in Nat, n \in T PROVE n + 1 \in T
  <2> SUFFICES ASSUME (n + 1) + 1 <= m, NEW i \in 1..(n + 1) PROVE rank[a[i]] < rank[a[(n + 1) + 1]]
    OBVIOUS
  <2>1. n + 1 \in 1..m /\ (n + 1) + 1 \in 1..m /\ n + 1 \in 1..(m - 1) /\ i \in 1..m /\ n + 1 <= m
    BY <1>0
  <2>2. a[(n + 1) + 1] = Nxt[a[n + 1]] /\ a[(n + 1) + 1] \in Clusters /\ a[n + 1] \in Clusters /\ a[i] \in Clusters
    BY <1>1, <1>6, <2>1
  <2>3. rank[a[n + 1]] < rank[a[(n + 1) + 1]]
    BY <1>2, <2>2
  <2>4. CASE i = n + 1
    BY <2>3, <2>4
  <2>5. CASE i # n + 1
    <3>1. rank[a[i]] < rank[a[n + 1]]
      <4>1. i \in 1..n
        BY <2>5
      <4> QED
        BY <1>8, <2>1, <4>1
    <3>2. rank[a[i]] \in Nat /\ rank[a[n + 1]] \in Nat /\ rank[a[(n + 1) + 1]] \in Nat
      BY <1>2, <2>2
    <3> QED
      BY <2>3, <3>1, <3>2
  <2> QED
    BY <2>4, <2>5
<1>9. \A n \in 0..m : n \in T
  <2> HIDE DEF T
  <2> QED
    BY <1>0, <1>7, <1>8, Induct
<1>10. ASSUME NEW i \in 1..m, NEW j \in 1..m, i < j PROVE a[i] # a[j]
  <2>1. j - 1 \in 0..m /\ (j - 1) + 1 = j /\ (j - 1) + 1 <= m /\ i \in 1..(j - 1)
    BY <1>0, <1>10
  <2>2. rank[a[i]] < rank[a[j]]
    BY <1>9, <2>1
  <2>3. rank[a[i]] \in Nat
    BY <1>2, <1>6
  <2> QED
    BY <2>2, <2>3
<1>11. \A i, j \in 1..m : i # j => a[i] # a[j]
  <2> TAKE i, j \in 1..m
  <2>1. i < j \/ j < i \/ i = j
    BY <1>0
  <2> QED
    BY <1>10, <2>1
<1>12. /\ IsFiniteSet(1..m) /\ Cardinality(1..m) = m
       /\ IsFiniteSet(Clusters) /\ Cardinality(Clusters) = m - 2
  <2>1. IsFiniteSet(1..m) /\ Cardinality(1..m) = IF 1 > m THEN 0 ELSE (m - 1) + 1
    BY <1>0, FS_Interval
  <2>2. IsFiniteSet(START..(m - 1)) /\ Cardinality(START..(m - 1)) = IF START > m - 1 THEN 0 ELSE ((m - 1) - START) + 1
    <3>1. START \in Int /\ m - 1 \in Int
      BY <1>0 DEF START
    <3> QED
      BY <3>1, FS_Interval
  <2> QED
    BY <1>0, <2>1, <2>2 DEF START, Clusters, m
<1> DEFINE f == [i \in 1..m |-> a[i]]
<1>13. f \in [1..m -> Clusters]
  BY <1>6
<1>14. \E i, j \in 1..m : i # j /\ f[i] = f[j]
  <2>1. Cardinality(Clusters) < Cardinality(1..m)
    BY <1>0, <1>12
  <2> HIDE DEF f
  <2> QED
    BY <1>12, <1>13, <2>1, FS_PigeonHole
<1> QED
  BY <1>11, <1>14

(* A file's chain has every entry that the file owns.                         *)
LEMMA ChainAll ==
  ASSUME format \in Formats, NEW own, NEW rank, Owned(Nxt, own, rank, start, Views),
         \A q \in Files : Views[q].head \notin Clusters /\ Views[q].fresh \notin Clusters,
         NEW p \in Files
  PROVE  \A c \in Clusters : own[c] = <<p, "file">> => c \in Chain(p)
<1> DEFINE D == {d \in Clusters : own[d] = <<p, "file">> /\ d \notin Chain(p)}
           T == {rank[d] : d \in D}
<1> SUFFICES ASSUME D # {} PROVE FALSE
  OBVIOUS
<1>0. /\ rank \in [Clusters -> Nat]
      /\ \A d \in Clusters : Nxt[d] \in Clusters => own[Nxt[d]] = own[d] /\ rank[d] < rank[Nxt[d]]
      /\ \A q \in Files : OwnedBy(Nxt, own, start[q], Views[q], q)
      /\ \A d \in Clusters : own[d] # Nobody =>
           \/ \E e \in Clusters : Nxt[e] = d
           \/ \E q \in Files : d \in {start[q], Views[q].head, Views[q].fresh}
  BY DEF Owned
<1>1. T \subseteq Nat /\ T # {}
  BY <1>0
<1>2. PICK x \in T : \A y \in T : x <= y
  <2> HIDE DEF T
  <2> QED
    BY <1>1, LeastNumber
<1>3. PICK d \in D : x = rank[d]
  BY <1>2
<1>4. /\ d \in Clusters /\ own[d] = <<p, "file">> /\ d \notin Chain(p)
      /\ \A e \in Clusters : own[e] = <<p, "file">> /\ e \notin Chain(p) => rank[d] <= rank[e]
  BY <1>2, <1>3
<1>5. /\ Chain(p) = {Path(p)[i] : i \in 1 .. max_cluster} \cap Clusters
      /\ Path(p)[1] = start[p]
      /\ \A i \in 1 .. (max_cluster - 1) :
           Path(p)[i + 1] = IF Path(p)[i] \in Clusters THEN Nxt[Path(p)[i]] ELSE FREE
      /\ Path(p)[max_cluster] \notin Clusters
  BY PathDef, PathEnds
<1>6. max_cluster \in Nat /\ max_cluster > 1
  BY SizeAssumption DEF START
<1>7. CASE \E e \in Clusters : Nxt[e] = d
  <2>1. PICK e \in Clusters : Nxt[e] = d
    BY <1>7
  <2>2. own[e] = <<p, "file">> /\ rank[e] < rank[d] /\ rank[e] \in Nat /\ rank[d] \in Nat
    BY <1>0, <1>4, <2>1
  <2>3. e \in Chain(p)
    BY <1>4, <2>2
  <2>4. PICK i \in 1 .. max_cluster : e = Path(p)[i]
    BY <1>5, <2>3
  <2>5. i # max_cluster
    BY <1>5, <2>1, <2>4
  <2>6. i \in 1 .. (max_cluster - 1) /\ i + 1 \in 1 .. max_cluster
    BY <1>6, <2>5
  <2>7. Path(p)[i + 1] = d
    BY <1>5, <2>1, <2>4, <2>6
  <2> QED
    BY <1>4, <1>5, <2>6, <2>7
<1>8. CASE \A e \in Clusters : Nxt[e] # d
  <2>1. own[d] # Nobody
    BY <1>4, OwnFacts
  <2>2. PICK q \in Files : d \in {start[q], Views[q].head, Views[q].fresh}
    BY <1>0, <1>4, <1>8, <2>1
  <2>3. d = start[q]
    BY <1>4, <2>2
  <2>4. own[d] = <<q, "file">>
    BY <1>0, <2>3 DEF OwnedBy, Root
  <2>5. q = p
    BY <1>4, <2>4
  <2>6. 1 \in 1 .. max_cluster
    BY <1>6
  <2> QED
    BY <1>4, <1>5, <2>3, <2>5, <2>6
<1> QED
  BY <1>7, <1>8

(* When no call is under way the second table is a copy of the first, and      *)
(* every cluster is free or in a file: what was taken, linked, cut off and     *)
(* freed adds up.                                                              *)
THEOREM Settles == Spec => []Settled
<1>1. Inv => Settled
  <2> SUFFICES ASSUME Inv, \A p \in Files : At(p, "idle")
               PROVE  backup = fat /\ Clusters = Free \cup UNION {Chain(p) : p \in Files}
    BY DEF Settled
  <2>1. Types /\ format \in Formats
    BY DEF Inv, Types
  <2>2. PICK own, rank : Owned(Nxt, own, rank, start, Views) /\ Mirrored(own)
    BY DEF Inv
  <2>3. \A p \in Files : /\ proc[p].pc = "idle" /\ proc[p].bhs = <<>>
                         /\ Views[p] = [head |-> 0, fresh |-> 0, last |-> 0, walk |-> 0, end |-> 0]
    <3> TAKE p \in Files
    <3>1. proc[p].pc = "idle"
      BY DEF At
    <3>2. proc[p].bhs = <<>>
      BY <2>1, <3>1, Local DEF LocalOK
    <3>3. View(proc[p]) = [head |-> 0, fresh |-> 0, last |-> 0, walk |-> 0, end |-> 0]
      BY <3>1 DEF View, Pc, Allocating, Walking, Freeing
    <3> QED
      BY <3>1, <3>2, <3>3 DEF Views
  <2>4. \A p \in Files : Dirty(BlocksAt, own, proc[p], p) = {}
    <3> TAKE p \in Files
    <3>1. ToSet(<<>>) = {}
      BY DEF ToSet
    <3> QED
      BY <2>3, <3>1 DEF Dirty, Pc, Freeing
  <2>5. backup = fat
    <3>1. \A k \in 0..(TableSize - 1) : backup[k] = fat[k]
      BY <2>2, <2>4 DEF Mirrored
    <3>2. fat \in Table /\ backup \in Table
      BY <2>1 DEF Types
    <3>3. /\ fat = [k \in 0..(TableSize - 1) |-> fat[k]]
          /\ backup = [k \in 0..(TableSize - 1) |-> backup[k]]
      BY <3>2 DEF Table
    <3> QED
      BY <3>1, <3>3
  <2>6. 0 \notin Clusters
    BY <2>1, OwnFacts
  <2>7. ASSUME NEW c \in Clusters, c \notin Free PROVE \E p \in Files : c \in Chain(p)
    <3>1. own[c] # Nobody
      BY <2>2, <2>7 DEF Owned, Free, Nxt
    <3>2. PICK p \in Files, d \in Clusters :
             /\ own[d] = own[c]
             /\ \/ d = start[p] /\ own[c] = <<p, "file">>
                \/ d = Views[p].head /\ own[c] = <<p, "new">>
                \/ d = Views[p].fresh /\ own[c] = <<p, "fresh">>
      BY <2>1, <2>2, <3>1, ClassRoot
    <3>3. own[c] = <<p, "file">>
      BY <2>3, <2>6, <3>2
    <3>4. \A q \in Files : Views[q].head \notin Clusters /\ Views[q].fresh \notin Clusters
      BY <2>3, <2>6
    <3> QED
      BY <2>1, <2>2, <3>3, <3>4, ChainAll
  <2>8. Free \subseteq Clusters /\ \A p \in Files : Chain(p) \subseteq Clusters
    BY PathDef DEF Free
  <2> QED
    BY <2>5, <2>7, <2>8
<1> QED
  BY <1>1, Invariant, PTL

-----------------------------------------------------------------------------
(* The bytes are a volume.                                                    *)

LEMMA VolumeKept ==
  ASSUME format \in Formats, format' = format, fat' = fat, start' = start
  PROVE  UNCHANGED FV!vars
<1>1. Nxt' = Nxt /\ Rest' = Rest
  BY TableKept
<1> QED
  BY <1>1 DEF FV!vars, Nxt

LEMMA VolumeTakes ==
  ASSUME NEW e \in Clusters, start' = start, Wrote(e, EOF), Nxt[e] = FREE
  PROVE  FV!Next
<1>1. Nxt' = [Nxt EXCEPT ![e] = EOF] /\ Rest' = Rest
  BY DEF Wrote
<1>2. FV!Take(e)
  BY <1>1 DEF FV!Take, Nxt
<1> QED
  BY <1>1, <1>2 DEF FV!Next

LEMMA VolumeCuts ==
  ASSUME NEW e \in Clusters, start' = start, Wrote(e, EOF), Nxt[e] \in Clusters
  PROVE  FV!Next
<1>1. Nxt' = [Nxt EXCEPT ![e] = EOF] /\ Rest' = Rest
  BY DEF Wrote
<1>2. FV!Cut(e)
  BY <1>1 DEF FV!Cut, Nxt
<1> QED
  BY <1>1, <1>2 DEF FV!Next

LEMMA VolumeLinks ==
  ASSUME NEW e \in Clusters, NEW c \in Clusters, start' = start, Wrote(e, c), Nxt[e] = EOF,
         c # e, Nxt[c] # FREE, \A d \in Clusters : Nxt[d] # c, \A q \in Files : start[q] # c
  PROVE  FV!Next
<1>1. Nxt' = [Nxt EXCEPT ![e] = c] /\ Rest' = Rest
  BY DEF Wrote
<1>2. FV!Link(e, c)
  BY <1>1 DEF FV!Link, FV!Unreferenced, Nxt
<1> QED
  BY <1>1, <1>2 DEF FV!Next

LEMMA VolumeReleases ==
  ASSUME NEW e \in Clusters, start' = start, Wrote(e, FREE),
         Nxt[e] # FREE, \A d \in Clusters : Nxt[d] # e, \A q \in Files : start[q] # e
  PROVE  FV!Next
<1>1. Nxt' = [Nxt EXCEPT ![e] = FREE] /\ Rest' = Rest
  BY DEF Wrote
<1>2. FV!Release(e)
  BY <1>1 DEF FV!Release, FV!Unreferenced, Nxt
<1> QED
  BY <1>1, <1>2 DEF FV!Next

(* What a process adds or frees is in no chain, and is not free.              *)
LEMMA Apart ==
  ASSUME format \in Formats, NEW own, NEW rank, NEW s, NEW V, Owned(Nxt, own, rank, s, V),
         NEW p \in Files, NEW c, NEW kind \in {"new", "fresh"}, Root(Nxt, own, c, <<p, kind>>)
  PROVE  /\ c \in Clusters /\ Nxt[c] # FREE /\ \A d \in Clusters : Nxt[d] # c
         /\ \A q \in Files : s[q] # c
<1>1. c \in Clusters /\ own[c] = <<p, kind>> /\ \A d \in Clusters : Nxt[d] # c
  BY DEF Root
<1>2. <<p, kind>> # Nobody
  BY OwnFacts
<1>3. Nxt[c] # FREE
  BY <1>1, <1>2 DEF Owned
<1>4. ASSUME NEW q \in Files PROVE s[q] # c
  <2>1. own[s[q]] = <<q, "file">>
    BY DEF Owned, OwnedBy, Root
  <2> QED
    BY <1>1, <2>1
<1> QED
  BY <1>1, <1>3, <1>4

LEMMA VolumeScan ==
  ASSUME Inv, NEW p \in Files, AllocScan(p)
  PROVE  FV!Next \/ UNCHANGED FV!vars
<1> DEFINE me == proc[p]
           e  == me.fe.entry
<1>1. Types /\ format \in Formats /\ fat \in Table /\ LocalOK(Rights, format.bufs, me)
  BY Local DEF Inv
<1>2. me.pc = "a_scan" /\ format' = format /\ start' = start
  BY DEF AllocScan, At
<1>3. me.fe \in Rights
  BY <1>1, <1>2 DEF LocalOK
<1>4. e \in Clusters /\ me.fe = ReadBlock(e) /\ Get(me.fe) = Nxt[e]
  BY <1>1, <1>3, RightFacts, GetNow
<1>5. Nxt \in [Clusters -> Values]
  BY DEF Inv, Owned
<1>6. CASE Nxt[e] = FREE
  <2>1. fat' = Put(ReadBlock(e), EOF)
    BY <1>4, <1>6 DEF AllocScan
  <2>2. Wrote(e, EOF)
    BY <1>1, <1>2, <1>4, <1>5, <2>1, PutWrites, OwnFacts
  <2> QED
    BY <1>2, <1>4, <1>6, <2>2, VolumeTakes
<1>7. CASE Nxt[e] # FREE
  <2>1. fat' = fat
    BY <1>4, <1>7 DEF AllocScan
  <2> QED
    BY <1>1, <1>2, <2>1, VolumeKept
<1> QED
  BY <1>6, <1>7

LEMMA VolumeTake ==
  ASSUME Inv, NEW p \in Files, AllocTake(p)
  PROVE  FV!Next \/ UNCHANGED FV!vars
<1> DEFINE me == proc[p]
           e  == me.fe.entry
           l  == me.prev.entry
<1>1. Types /\ format \in Formats /\ fat \in Table /\ LocalOK(Rights, format.bufs, me)
  BY Local DEF Inv
<1>2. /\ me.pc = "a_take" /\ format' = format /\ start' = start
      /\ fat' = IF me.prev.bhs # <<>> THEN Put(me.prev, e) ELSE fat
  BY DEF AllocTake, At
<1>3. me.fe \in Rights /\ IF me.taken = <<>> THEN me.prev.bhs = <<>> ELSE me.prev \in Rights
  BY <1>1, <1>2 DEF LocalOK, Allocating
<1>4. PICK own, rank : Owned(Nxt, own, rank, start, Views)
  BY DEF Inv
<1>5. e \in Clusters
  BY <1>1, <1>3, RightFacts
<1>6. CASE me.taken = <<>>
  BY <1>1, <1>2, <1>3, <1>6, VolumeKept
<1>7. CASE me.taken # <<>>
  <2>1. l \in Clusters /\ me.prev = ReadBlock(l) /\ me.prev.bhs # <<>>
    BY <1>1, <1>3, <1>7, RightFacts
  <2>2. Views[p].fresh = e /\ Views[p].last = l
    BY <1>2, <1>7 DEF Views, View, Allocating
  <2>3. OwnedBy(Nxt, own, start[p], Views[p], p)
    BY <1>4 DEF Owned
  <2>4. Root(Nxt, own, e, <<p, "fresh">>) /\ own[l] = <<p, "new">> /\ Nxt[l] = EOF
    BY <1>5, <2>1, <2>2, <2>3 DEF OwnedBy
  <2>5. Nxt[e] # FREE /\ (\A d \in Clusters : Nxt[d] # e) /\ \A q \in Files : start[q] # e
    BY <1>1, <1>4, <2>4, Apart
  <2>6. e # l
    BY <2>4 DEF Root
  <2>7. Wrote(l, e)
    <3>1. e \in Values /\ Nxt \in [Clusters -> Values]
      BY <1>1, <1>4, <1>5, OwnFacts DEF Owned
    <3>2. fat' = Put(ReadBlock(l), e)
      BY <1>2, <2>1
    <3> QED
      BY <1>1, <1>2, <2>1, <3>1, <3>2, PutWrites
  <2> QED
    BY <1>2, <1>5, <2>1, <2>4, <2>5, <2>6, <2>7, VolumeLinks
<1> QED
  BY <1>6, <1>7

LEMMA VolumeLink ==
  ASSUME Inv, NEW p \in Files, LinkWrite(p)
  PROVE  FV!Next
<1> DEFINE me == proc[p]
           c  == me.cl
           h  == me.taken[1]
<1>1. Types /\ format \in Formats /\ fat \in Table /\ me \in Locals /\ LocalOK(Rights, format.bufs, me)
  BY Local DEF Inv
<1>2. me.pc = "l_write" /\ format' = format /\ start' = start /\ fat' = Put(ReadBlock(c), h)
  BY DEF LinkWrite, At
<1>3. c \in Clusters /\ me.taken # <<>>
  BY <1>1, <1>2 DEF LocalOK, Pc, Walking
<1>4. h \in Clusters
  <2>1. me.taken \in Seq(Clusters)
    BY <1>1, Fields
  <2> QED
    BY <1>3, <2>1
<1>5. PICK own, rank : Owned(Nxt, own, rank, start, Views)
  BY DEF Inv
<1>6. Views[p].head = h /\ Views[p].walk = c /\ Views[p].end = c
  BY <1>2, <1>3 DEF Views, View, Pc, Allocating, Walking
<1>7. OwnedBy(Nxt, own, start[p], Views[p], p)
  BY <1>5 DEF Owned
<1>8. Root(Nxt, own, h, <<p, "new">>) /\ own[c] = <<p, "file">> /\ Nxt[c] = EOF
  BY <1>3, <1>4, <1>6, <1>7 DEF OwnedBy
<1>9. Nxt[h] # FREE /\ (\A d \in Clusters : Nxt[d] # h) /\ \A q \in Files : start[q] # h
  BY <1>1, <1>5, <1>8, Apart
<1>10. h # c
  BY <1>8 DEF Root
<1>11. Wrote(c, h)
  <2>1. h \in Values /\ Nxt \in [Clusters -> Values]
    BY <1>1, <1>4, <1>5, OwnFacts DEF Owned
  <2> QED
    BY <1>1, <1>2, <1>3, <2>1, PutWrites
<1> QED
  BY <1>2, <1>3, <1>4, <1>8, <1>9, <1>10, <1>11, VolumeLinks

LEMMA VolumeCut ==
  ASSUME Inv, NEW p \in Files, CutWrite(p)
  PROVE  FV!Next
<1> DEFINE c == start[p]
<1>1. Types /\ format \in Formats /\ fat \in Table /\ c \in Clusters
  BY Local DEF Inv
<1>2. Get(ReadBlock(c)) = Nxt[c] /\ Nxt \in [Clusters -> Values] /\ EOF \in Values
  BY <1>1, GetNow, OwnFacts DEF Inv, Owned
<1>3. /\ format' = format /\ start' = start /\ fat' = Put(ReadBlock(c), EOF)
      /\ Nxt[c] \notin {EOF, FREE}
  BY <1>2 DEF CutWrite
<1>4. Nxt[c] \in Clusters
  BY <1>1, <1>2, <1>3 DEF Values
<1>5. Wrote(c, EOF)
  BY <1>1, <1>2, <1>3, PutWrites
<1> QED
  BY <1>1, <1>3, <1>4, <1>5, VolumeCuts

LEMMA VolumeFree ==
  ASSUME Inv, NEW p \in Files, FreeEntry(p)
  PROVE  FV!Next
<1> DEFINE me == proc[p]
           c  == me.cl
<1>1. Types /\ format \in Formats /\ fat \in Table /\ LocalOK(Rights, format.bufs, me)
  BY Local DEF Inv
<1>2. me.pc = "f_read" /\ format' = format /\ start' = start
  BY DEF FreeEntry, At
<1>3. c \in Clusters /\ (me.fe.bhs = <<>> \/ me.fe \in Rights)
  BY <1>1, <1>2 DEF LocalOK, Pc
<1>4. EntRead(me.fe, c) = ReadBlock(c) /\ Get(EntRead(me.fe, c)) = Nxt[c]
  BY <1>1, <1>3, ReadNow
<1>5. PICK own, rank : Owned(Nxt, own, rank, start, Views)
  BY DEF Inv
<1>6. Views[p].head = c
  BY <1>2 DEF Views, View, Pc, Allocating, Walking, Freeing
<1>7. OwnedBy(Nxt, own, start[p], Views[p], p)
  BY <1>5 DEF Owned
<1>8. Root(Nxt, own, c, <<p, "new">>)
  BY <1>3, <1>6, <1>7 DEF OwnedBy
<1>9. Nxt[c] # FREE /\ (\A d \in Clusters : Nxt[d] # c) /\ \A q \in Files : start[q] # c
  BY <1>1, <1>5, <1>8, Apart
<1>10. Wrote(c, FREE)
  <2>1. FREE \in Values /\ Nxt \in [Clusters -> Values]
    BY <1>1, <1>5, OwnFacts DEF Owned
  <2>2. fat' = Put(ReadBlock(c), FREE)
    BY <1>4, <1>9 DEF FreeEntry
  <2> QED
    BY <1>1, <1>2, <1>3, <2>1, <2>2, PutWrites
<1> QED
  BY <1>2, <1>3, <1>9, <1>10, VolumeReleases

LEMMA VolumeStep == Inv /\ [Next]_vars => [FV!Next]_(FV!vars)
<1> SUFFICES ASSUME Inv, [Next]_vars PROVE FV!Next \/ UNCHANGED FV!vars
  OBVIOUS
<1>0. format \in Formats
  BY DEF Inv, Types
<1>1. CASE UNCHANGED vars
  <2>1. format' = format /\ fat' = fat /\ start' = start
    BY <1>1 DEF vars
  <2> QED
    BY <1>0, <2>1, VolumeKept
<1>2. ASSUME NEW p \in Files, AllocBegin(p) \/ AllocBlock(p) \/ AllocFails(p) \/ WalkRead(p) \/ WalkFails(p)
                             \/ FreeBegin(p) \/ FreeCollect(p) \/ CountBegin(p) \/ CountBlock(p) \/ CountScan(p)
                             \/ MirrorBlock(p) \/ Done(p)
      PROVE  UNCHANGED FV!vars
  <2>1. format' = format /\ fat' = fat /\ start' = start
    BY <1>2 DEF AllocBegin, AllocBlock, AllocFails, WalkRead, WalkFails, FreeBegin, FreeCollect, CountBegin,
                CountBlock, CountScan, MirrorBlock, Done
  <2> QED
    BY <1>0, <2>1, VolumeKept
<1>3. ASSUME NEW p \in Files, AllocScan(p) \/ AllocTake(p) \/ LinkWrite(p) \/ CutWrite(p) \/ FreeEntry(p)
      PROVE  FV!Next \/ UNCHANGED FV!vars
  BY <1>3, VolumeScan, VolumeTake, VolumeLink, VolumeCut, VolumeFree
<1> QED
  BY <1>1, <1>2, <1>3, Zenon DEF Next

LEMMA VolumeInit == Init => FV!Init
<1> SUFFICES ASSUME Init PROVE FV!Init
  OBVIOUS
<1>1. format \in Formats /\ start \in Starts
  BY DEF Init
<1>2. fat = FirstTable(start)
  BY DEF Init, FirstTable, TableSize
<1>3. {start[p] : p \in Files} \subseteq Clusters
  BY <1>1, StartsAssumption
<1>4. \A e \in Clusters : Value(e) = IF \E p \in Files : start[p] = e THEN EOF ELSE FREE
  BY <1>1, <1>2, FirstValue, ValueNow
<1> QED
  BY <1>3, <1>4 DEF FV!Init

(* Whatever the width of the entries and however the processes' reads and      *)
(* writes fall together, every step changes one entry of the volume as         *)
(* FatVolume allows, or none: no entry's write reaches another's bits, what is *)
(* linked or released has nothing that leads to it.                            *)
THEOREM IsVolume == Spec => Volume
BY VolumeInit, VolumeStep, Invariant, PTL DEF Spec, Volume, FV!Spec
=============================================================================
