---------------------------- MODULE FatRead_proofs ----------------------------
(* Proofs about reads of a file: whatever the table, the sizes of blocks and   *)
(* clusters and the failures, a read gives the bytes of the file from its      *)
(* position on, and answers for them.  The chain of clusters is a recursive    *)
(* function, so what is said of it goes by induction (Induct); the place of a  *)
(* position is a cluster of the chain, a block of it and an offset, and        *)
(* ReadInv says where on that way the call is.                                 *)
EXTENDS FatRead, FiniteSetTheorems, SequenceTheorems, WellFoundedInduction, TLAPS

-----------------------------------------------------------------------------
(* Induction.                                                                 *)

LEMMA LeastNumber ==
  ASSUME NEW T, T \subseteq Nat, T # {}
  PROVE  \E x \in T : \A y \in T : x <= y
<1> DEFINE R == OpToRel(<, Nat)
<1>1. IsWellFoundedOn(R, Nat)
  BY NatLessThanWellFounded
<1>2. \A x, y \in Nat : <<y, x>> \in R <=> y < x
  BY DEF OpToRel
<1> HIDE DEF R
<1>3. PICK x \in T : \A y \in T : ~(<<y, x>> \in R)
  BY <1>1, WFMin
<1>4. \A y \in T : ~(y < x)
  BY <1>2, <1>3
<1>5. \A y \in T : x <= y
  BY <1>4
<1> QED
  BY <1>5

(* A set with 0 and, below m, the successor of each has all up to m.           *)
LEMMA Induct ==
  ASSUME NEW m \in Nat, NEW S, 0 \in S, \A k \in Nat : k \in S /\ k < m => k + 1 \in S
  PROVE  \A k \in 0..m : k \in S
<1> DEFINE T == {k \in 0..m : k \notin S}
<1> SUFFICES ASSUME T # {} PROVE FALSE
  OBVIOUS
<1>0. T \subseteq Nat
  OBVIOUS
<1>1. PICK x \in T : \A y \in T : x <= y
  <2> HIDE DEF T
  <2> QED
    BY <1>0, LeastNumber
<1>2. x # 0 /\ x - 1 \in 0..m /\ x - 1 \notin T
  BY <1>1
<1>3. x - 1 \in S /\ x - 1 < m /\ (x - 1) + 1 = x
  BY <1>2
<1> QED
  BY <1>1, <1>3

-----------------------------------------------------------------------------
(* Places: a position is byte b of block u of cluster a.                      *)

LEMMA DivMod ==
  ASSUME NEW a \in Nat, NEW k \in Nat \ {0}
  PROVE  a \div k \in Nat /\ a % k \in 0..(k - 1) /\ a = k * (a \div k) + (a % k)
OBVIOUS

LEMMA DivLess ==
  ASSUME NEW k \in Nat \ {0}, NEW l \in Nat, NEW a \in Nat, a < k * l
  PROVE  (a \div k) < l
OBVIOUS

LEMMA DivUnique ==
  ASSUME NEW k \in Nat \ {0}, NEW b \in Nat, NEW c \in 0..(k - 1)
  PROVE  (k * b + c) \div k = b /\ (k * b + c) % k = c
OBVIOUS

LEMMA DivMonotone ==
  ASSUME NEW k \in Nat \ {0}, NEW a \in Nat, NEW b \in Nat, a <= b
  PROVE  a \div k <= b \div k
OBVIOUS

LEMMA TimesNat ==
  ASSUME NEW a \in Nat, NEW b \in Nat
  PROVE  a * b \in Nat
OBVIOUS

LEMMA TimesPositive ==
  ASSUME NEW a \in Nat \ {0}, NEW b \in Nat \ {0}
  PROVE  a * b \in Nat \ {0}
OBVIOUS

LEMMA TimesMonotone ==
  ASSUME NEW a \in Nat, NEW b \in Nat, NEW k \in Nat, a <= b
  PROVE  a * k <= b * k
OBVIOUS

LEMMA TimesShift ==
  ASSUME NEW a \in Nat, NEW k \in Nat
  PROVE  k * (a + 1) = k * a + k
OBVIOUS

LEMMA TimesJoin ==
  ASSUME NEW s \in Nat, NEW b \in Nat, NEW a \in Nat, NEW u \in Nat, NEW c \in Nat
  PROVE  (s * b) * a + (b * u + c) = b * (s * a + u) + c
OBVIOUS

(* The numbers of a volume.                                                    *)
LEMMA Volume ==
  /\ blksz \in Nat \ {0} /\ sec_per_clus \in Nat \ {0} /\ clssz \in Nat \ {0}
  /\ blksz <= clssz /\ data_start \in Nat /\ max_cluster \in Nat /\ max_cluster > 2
  /\ MaxSize \in Nat /\ MaxSize \div clssz \in Nat
<1>1. /\ blksz \in Nat \ {0} /\ sec_per_clus \in Nat \ {0} /\ data_start \in Nat
      /\ max_cluster \in Nat /\ max_cluster > 2 /\ MaxSize \in Nat
  BY ReadAssumption
<1>2. clssz \in Nat \ {0}
  BY <1>1, TimesPositive DEF clssz
<1>3. 1 * blksz <= sec_per_clus * blksz
  BY <1>1, TimesMonotone
<1>4. blksz <= clssz
  BY <1>1, <1>3 DEF clssz
<1>5. MaxSize \div clssz \in Nat
  BY <1>1, <1>2, DivMod
<1> QED
  BY <1>1, <1>2, <1>4, <1>5

ClusterOf(x) == x \div clssz
BlockOf(x)   == (x % clssz) \div blksz
ByteOf(x)    == x % blksz

(* The place whose numbers are a, u and b.                                     *)
LEMMA PlaceIs ==
  ASSUME NEW a \in Nat, NEW u \in 0..(sec_per_clus - 1), NEW b \in 0..(blksz - 1)
  PROVE  LET x == clssz * a + (blksz * u + b) IN
           /\ x \in Nat /\ ClusterOf(x) = a /\ BlockOf(x) = u /\ ByteOf(x) = b
           /\ x % clssz = blksz * u + b /\ blksz * u + b \in 0..(clssz - 1)
<1> DEFINE s == sec_per_clus
           k == blksz
           c == clssz
           r == k * u + b
           x == c * a + r
<1>1. k \in Nat \ {0} /\ s \in Nat \ {0} /\ c \in Nat \ {0} /\ u \in Nat /\ b \in Nat /\ u <= s - 1
  BY Volume
<1>2. r \in Nat /\ r < k * (u + 1)
  <2>1. k * u \in Nat /\ k * (u + 1) = k * u + k
    BY <1>1, TimesNat, TimesShift
  <2> QED
    BY <1>1, <2>1
<1>3. k * (u + 1) <= c
  <2>1. (u + 1) * k <= s * k
    BY <1>1, TimesMonotone
  <2> QED
    BY <1>1, <2>1 DEF clssz
<1>4. k * (u + 1) \in Nat
  BY <1>1, TimesNat
<1>5. r \in 0..(c - 1)
  <2> HIDE DEF r, c
  <2> QED
    BY <1>1, <1>2, <1>3, <1>4
<1>6. x \div c = a /\ x % c = r
  <2> HIDE DEF r, c
  <2> QED
    BY <1>1, <1>5, DivUnique
<1>7. r \div k = u /\ r % k = b
  BY <1>1, DivUnique
<1>8. x % k = b
  <2>1. x = k * (s * a + u) + b
    BY <1>1, TimesJoin DEF clssz
  <2> DEFINE m == s * a + u
  <2>2. m \in Nat
    BY <1>1, TimesNat
  <2>3. (k * m + b) % k = b
    <3> HIDE DEF m
    <3> QED
      BY <1>1, <2>2, DivUnique
  <2> QED
    BY <2>1, <2>3
<1>9. x \in Nat
  <2>1. c * a \in Nat
    BY <1>1, TimesNat
  <2> QED
    BY <1>2, <2>1
<1> QED
  BY <1>5, <1>6, <1>7, <1>8, <1>9 DEF ClusterOf, BlockOf, ByteOf

(* Each position has a place.                                                  *)
LEMMA PlaceOf ==
  ASSUME NEW x \in Nat
  PROVE  /\ ClusterOf(x) \in Nat /\ BlockOf(x) \in 0..(sec_per_clus - 1) /\ ByteOf(x) \in 0..(blksz - 1)
         /\ x = clssz * ClusterOf(x) + (blksz * BlockOf(x) + ByteOf(x))
         /\ x % clssz = blksz * BlockOf(x) + ByteOf(x) /\ (x % clssz) % blksz = ByteOf(x)
         /\ x % clssz \in 0..(clssz - 1)
<1> DEFINE s == sec_per_clus
           k == blksz
           c == clssz
           a == x \div c
           r == x % c
           u == r \div k
           b == r % k
<1>1. k \in Nat \ {0} /\ s \in Nat \ {0} /\ c \in Nat \ {0}
  BY Volume
<1>2. a \in Nat /\ r \in 0..(c - 1) /\ x = c * a + r
  BY <1>1, DivMod
<1>3. r \in Nat /\ r < k * s
  <2>1. c = k * s
    BY <1>1 DEF clssz
  <2> HIDE DEF r, c
  <2> QED
    BY <1>1, <1>2, <2>1
<1>4. u \in Nat /\ b \in 0..(k - 1) /\ r = k * u + b
  <2> HIDE DEF r
  <2> QED
    BY <1>1, <1>3, DivMod
<1>5. u < s
  <2> HIDE DEF r
  <2> QED
    BY <1>1, <1>3, DivLess
<1>6. u \in 0..(s - 1)
  BY <1>1, <1>4, <1>5
<1>7. x = c * a + (k * u + b)
  BY <1>2, <1>4
<1> HIDE DEF a, u, b
<1>8. ByteOf(c * a + (k * u + b)) = b
  BY <1>2, <1>4, <1>6, PlaceIs
<1>9. ByteOf(x) = b
  BY <1>7, <1>8
<1> QED
  BY <1>2, <1>4, <1>6, <1>7, <1>9 DEF ClusterOf, BlockOf, a, u, b

(* The positions behind x in its block.                                        *)
LEMMA PlaceAfter ==
  ASSUME NEW x \in Nat, NEW j \in Nat, ByteOf(x) + j < blksz
  PROVE  /\ ClusterOf(x + j) = ClusterOf(x) /\ BlockOf(x + j) = BlockOf(x)
         /\ ByteOf(x + j) = ByteOf(x) + j
<1> DEFINE a == ClusterOf(x)
           u == BlockOf(x)
           b == ByteOf(x)
<1>1. a \in Nat /\ u \in 0..(sec_per_clus - 1) /\ b \in 0..(blksz - 1)
      /\ x = clssz * a + (blksz * u + b)
  BY PlaceOf
<1>2. clssz * a \in Nat /\ blksz * u \in Nat
  BY <1>1, Volume, TimesNat
<1>3. b + j \in 0..(blksz - 1)
  BY <1>1, Volume
<1>4. x + j = clssz * a + (blksz * u + (b + j))
  <2> DEFINE y == clssz * a
             z == blksz * u
  <2>1. y \in Nat /\ z \in Nat /\ x = y + (z + b) /\ b \in Nat
    BY <1>1, <1>2
  <2> HIDE DEF y, z, b
  <2>2. x + j = y + (z + (b + j))
    BY <2>1
  <2> QED
    BY <2>2 DEF y, z
<1> HIDE DEF a, u, b
<1> DEFINE e == b + j
<1>5. /\ ClusterOf(clssz * a + (blksz * u + e)) = a /\ BlockOf(clssz * a + (blksz * u + e)) = u
      /\ ByteOf(clssz * a + (blksz * u + e)) = e
  <2>1. e \in 0..(blksz - 1)
    BY <1>3
  <2> HIDE DEF e
  <2> QED
    BY <1>1, <2>1, PlaceIs
<1> QED
  BY <1>4, <1>5 DEF a, u, b

(* The block behind the one of x, in the same cluster.                         *)
LEMMA BlockAfter ==
  ASSUME NEW x \in Nat, (x % clssz) + (blksz - ByteOf(x)) < clssz
  PROVE  LET y == x + (blksz - ByteOf(x)) IN
           /\ y \in Nat /\ ClusterOf(y) = ClusterOf(x) /\ BlockOf(y) = BlockOf(x) + 1 /\ ByteOf(y) = 0
           /\ y % clssz = (x % clssz) + (blksz - ByteOf(x))
<1> DEFINE a == ClusterOf(x)
           u == BlockOf(x)
           b == ByteOf(x)
           v == u + 1
           y == x + (blksz - b)
           k == blksz
           c == clssz
<1>1. /\ a \in Nat /\ u \in 0..(sec_per_clus - 1) /\ b \in 0..(k - 1) /\ x = c * a + (k * u + b)
      /\ x % c = k * u + b
  BY PlaceOf
<1>2. k \in Nat \ {0} /\ c \in Nat /\ sec_per_clus \in Nat \ {0} /\ c = k * sec_per_clus
  BY Volume DEF clssz
<1>3. c * a \in Nat /\ k * u \in Nat /\ k * v = k * u + k
  BY <1>1, <1>2, TimesNat, TimesShift
<1>4. (x % c) + (k - b) = k * v
  <2> DEFINE z == k * u
  <2>1. z \in Nat /\ x % c = z + b /\ k * v = z + k /\ b \in Nat
    BY <1>1, <1>3
  <2> HIDE DEF z, b
  <2> QED
    BY <1>2, <2>1
<1>5. y = c * a + (k * v + 0)
  <2> DEFINE w == c * a
             z == k * u
  <2>1. w \in Nat /\ z \in Nat /\ x = w + (z + b) /\ k * v = z + k /\ b \in Nat
    BY <1>1, <1>3
  <2> HIDE DEF w, z, b
  <2>2. x + (k - b) = w + (k * v + 0)
    BY <1>2, <2>1
  <2> QED
    BY <2>2 DEF w
<1>6. v \in 0..(sec_per_clus - 1)
  <2>1. k * v < c
    BY <1>4
  <2>2. v < sec_per_clus
    <3> SUFFICES ASSUME sec_per_clus <= v PROVE FALSE
      BY <1>1, <1>2
    <3>1. sec_per_clus * k <= v * k /\ v * k = k * v /\ sec_per_clus * k = c
      BY <1>1, <1>2, TimesMonotone
    <3>2. k * v \in Nat
      BY <1>1, <1>2, TimesNat
    <3> QED
      BY <1>2, <2>1, <3>1, <3>2
  <2> QED
    BY <1>1, <1>2, <2>2
<1>7. LET z == c * a + (k * v + 0) IN
        /\ z \in Nat /\ ClusterOf(z) = a /\ BlockOf(z) = v /\ ByteOf(z) = 0 /\ z % c = k * v + 0
  <2>1. 0 \in 0..(k - 1)
    BY <1>2
  <2> HIDE DEF v, a
  <2> QED
    BY <1>1, <1>6, <2>1, PlaceIs
<1>8. k * v + 0 = k * v
  BY <1>1, <1>2, TimesNat
<1> HIDE DEF y
<1>9. y \in Nat /\ ClusterOf(y) = a /\ BlockOf(y) = v /\ ByteOf(y) = 0 /\ y % c = k * v
  BY <1>5, <1>7, <1>8
<1> QED
  BY <1>4, <1>9 DEF y

(* The cluster behind the one of x.                                            *)
LEMMA ClusterAfter ==
  ASSUME NEW x \in Nat
  PROVE  LET y == x + (clssz - (x % clssz)) IN
           y \in Nat /\ ClusterOf(y) = ClusterOf(x) + 1 /\ y % clssz = 0 /\ y > x
<1> DEFINE c == clssz
           a == x \div c
           r == x % c
           y == x + (c - r)
<1>1. c \in Nat \ {0}
  BY Volume
<1>2. a \in Nat /\ r \in 0..(c - 1) /\ x = c * a + r
  BY <1>1, DivMod
<1>3. c * (a + 1) = c * a + c /\ c * a \in Nat
  BY <1>1, <1>2, TimesShift, TimesNat
<1>4. y = c * (a + 1) + 0 /\ y \in Nat /\ y > x
  <2> DEFINE w == c * a
             q == c * (a + 1)
  <2>1. w \in Nat /\ x = w + r /\ q = w + c
    BY <1>2, <1>3
  <2> HIDE DEF w, q, r, c
  <2>2. x + (c - r) = q + 0 /\ x + (c - r) \in Nat /\ x + (c - r) > x
    BY <1>1, <1>2, <2>1
  <2> QED
    BY <2>2 DEF q, r, c
<1>5. (c * (a + 1) + 0) \div c = a + 1 /\ (c * (a + 1) + 0) % c = 0
  <2> DEFINE b == a + 1
  <2>1. b \in Nat /\ 0 \in 0..(c - 1)
    BY <1>1, <1>2
  <2> HIDE DEF b
  <2>2. (c * b + 0) \div c = b /\ (c * b + 0) % c = 0
    BY <1>1, <2>1, DivUnique
  <2> QED
    BY <2>2 DEF b
<1> QED
  BY <1>4, <1>5 DEF ClusterOf

(* A block of a cluster is one of the volume.                                  *)
LEMMA BlockInVolume ==
  ASSUME NEW c \in Clusters, NEW u \in 0..(sec_per_clus - 1)
  PROVE  /\ data_start + (c - 2) * sec_per_clus + u \in Blocks
         /\ ncluster2block(c) + u = data_start + (c - 2) * sec_per_clus + u
<1> DEFINE s == sec_per_clus
           m == max_cluster - 2
           d == c - 2
<1>1. s \in Nat \ {0} /\ data_start \in Nat /\ m \in Nat /\ d \in Nat /\ d + 1 <= m /\ u \in Nat /\ u <= s - 1
  BY Volume DEF Clusters
<1>2. s * (d + 1) = s * d + s /\ d * s \in Nat /\ m * s \in Nat
  BY <1>1, TimesShift, TimesNat
<1>3. (d + 1) * s <= m * s
  BY <1>1, TimesMonotone
<1>4. (d + 1) * s = d * s + s
  BY <1>1, <1>2
<1> DEFINE x == d * s
           y == m * s
           z == (d + 1) * s
<1>5. x \in Nat /\ y \in Nat /\ z <= y /\ z = x + s
  BY <1>2, <1>3, <1>4
<1>6. data_start + x + u \in data_start..(data_start + y - 1) /\ (x + data_start) + u = data_start + x + u
  <2> HIDE DEF x, y, z
  <2> QED
    BY <1>1, <1>5
<1> QED
  BY <1>6 DEF Blocks, ncluster2block

-----------------------------------------------------------------------------
(* The chain of the file.                                                     *)

Top == MaxSize \div clssz + 1

(* What follows d in a chain.                                                  *)
Follow(d) == IF d \in Clusters THEN fat[d] ELSE d

(* The recursive definition of Chain has a solution.                           *)
LEMMA ChainDef ==
  /\ Top \in Nat /\ Chain[0] = i_start
  /\ \A k \in 1..Top : Chain[k] = Follow(Chain[k - 1])
<1> DEFINE D(f, k) == IF k = 0 THEN i_start ELSE Follow(f[k - 1])
           S == {m \in Nat : \E f : f = [k \in 0..m |-> D(f, k)]}
<1>0. Top \in Nat
  BY Volume DEF Top
<1>1. 0 \in S
  <2> DEFINE g == [k \in 0..0 |-> i_start]
  <2>1. g = [k \in 0..0 |-> D(g, k)]
    OBVIOUS
  <2> QED
    BY <2>1
<1>2. ASSUME NEW m \in Nat, m \in S PROVE m + 1 \in S
  <2>1. PICK f : f = [k \in 0..m |-> D(f, k)]
    BY <1>2
  <2> DEFINE g == [k \in 0..(m + 1) |-> D(f, k)]
  <2>2. \A k \in 0..m : g[k] = f[k]
    BY <2>1
  <2>3. \A k \in 0..(m + 1) : k # 0 => k - 1 \in 0..m
    OBVIOUS
  <2>4. ASSUME NEW k \in 0..(m + 1) PROVE D(g, k) = D(f, k)
    <3>1. CASE k = 0
      BY <3>1
    <3>2. CASE k # 0
      <4>1. g[k - 1] = f[k - 1]
        <5> HIDE DEF g
        <5> QED
          BY <2>2, <2>3, <3>2
      <4> HIDE DEF g
      <4> QED
        BY <3>2, <4>1
    <3> QED
      BY <3>1, <3>2
  <2>5. g = [k \in 0..(m + 1) |-> D(g, k)]
    BY <2>4
  <2>6. \E h : h = [k \in 0..(m + 1) |-> D(h, k)]
    <3> HIDE DEF g, D
    <3> QED
      BY <2>5
  <2> QED
    BY <2>6
<1>3. Top \in S
  <2> HIDE DEF S
  <2>1. \A k \in 0..Top : k \in S
    BY <1>0, <1>1, <1>2, Induct
  <2> QED
    BY <1>0, <2>1
<1>4. PICK f : f = [k \in 0..Top |-> D(f, k)]
  BY <1>3
<1> DEFINE a == CHOOSE nth : nth = [k \in 0..Top |-> D(nth, k)]
<1>5. a = [k \in 0..Top |-> D(a, k)]
  BY <1>4
<1>6. a = Chain
  BY DEF Chain, Top, Follow
<1>7. \A k \in 0..Top : a[k] = D(a, k)
  BY <1>5
<1> HIDE DEF a
<1>8. Chain[0] = i_start
  BY <1>0, <1>6, <1>7
<1>9. ASSUME NEW k \in 1..Top PROVE Chain[k] = Follow(Chain[k - 1])
  BY <1>0, <1>6, <1>7
<1> QED
  BY <1>0, <1>8, <1>9

(* A chain that has left the clusters stays outside.                           *)
LEMMA ChainOut ==
  ASSUME NEW j \in 0..Top, NEW k \in 0..Top, j <= k, Chain[j] \notin Clusters
  PROVE  Chain[k] \notin Clusters
<1> DEFINE S == {i \in Nat : i <= Top - j => Chain[j + i] \notin Clusters}
           m == k - j
<1>0. Top \in Nat /\ j \in Nat /\ k \in Nat /\ m \in Nat /\ m <= Top - j /\ j + m = k /\ j + 0 = j
  BY ChainDef
<1>1. 0 \in S
  BY <1>0
<1>2. ASSUME NEW i \in Nat, i \in S, i < m PROVE i + 1 \in S
  <2>1. Chain[j + i] \notin Clusters
    BY <1>0, <1>2
  <2>2. j + (i + 1) \in 1..Top /\ (j + (i + 1)) - 1 = j + i
    BY <1>0, <1>2
  <2>3. Chain[j + (i + 1)] = Follow(Chain[j + i])
    BY <2>2, ChainDef
  <2> QED
    BY <2>1, <2>3 DEF Follow
<1> HIDE DEF S, m
<1>3. \A i \in 0..m : i \in S
  BY <1>0, <1>1, <1>2, Induct
<1>4. m \in S
  BY <1>0, <1>3
<1> QED
  BY <1>0, <1>4 DEF S

LEMMA FileSame ==
  ASSUME UNCHANGED file
  PROVE  i_size' = i_size /\ fat' = fat /\ i_start' = i_start /\ Chain' = Chain
<1>1. i_size' = i_size /\ fat' = fat /\ i_start' = i_start
  BY DEF file
<1>2. Chain' = Chain
  BY <1>1 DEF Chain
<1> QED
  BY <1>1, <1>2

(* The clusters of positions in the file are in the domain of the chain.       *)
LEMMA InChain ==
  ASSUME NEW x \in 0..MaxSize
  PROVE  ClusterOf(x) \in 0..(Top - 1) /\ ClusterOf(x) \in Nat
<1>1. x \in Nat /\ x <= MaxSize /\ MaxSize \in Nat /\ clssz \in Nat \ {0}
  BY Volume
<1>2. ClusterOf(x) \in Nat /\ ClusterOf(x) <= MaxSize \div clssz
  BY <1>1, PlaceOf, DivMonotone DEF ClusterOf
<1> QED
  BY <1>2, Volume DEF Top

-----------------------------------------------------------------------------
(* The invariant.                                                             *)

(* The block of position i, and the position the call has come to.             *)
BlockAt(i) == data_start + (Chain[ClusterOf(i)] - 2) * sec_per_clus + BlockOf(i)
at == pos + Len(out)

BytesOf(o, f) == \A i \in 1..Len(o) : Holds(f + i - 1) /\ o[i] = Address(f + i - 1)

Beginning ==
  pc = "idle" => out = <<>> /\ err = 0 /\ ret = 0 /\ ~failed /\ nth_cls = 0 /\ ncls = i_start

Going ==
  pc \in {"look", "block", "next"} =>
    /\ pos < i_size /\ err = 0 /\ ~failed
    /\ Len(out) + len = Wanted(pos, n) /\ BytesOf(out, pos)

Looking == pc = "look" => out = <<>> /\ nth_cls <= cls_num /\ ncls = Chain[nth_cls]

InBlock ==
  pc = "block" =>
    /\ ncls = Chain[ClusterOf(at)] /\ nblk = BlockAt(at) /\ ofs = ByteOf(at)
    /\ left = Least(len, clssz - (at % clssz)) /\ (len = 0 => n = 0)

Between ==
  pc = "next" =>
    /\ len > 0 => at % clssz = 0 /\ Chain[ClusterOf(at)] = fat[ncls]
    /\ IF n = 0 THEN Chain[ClusterOf(pos) + 1] = fat[ncls] ELSE out # <<>>

Ended ==
  pc = "unlock" =>
    /\ from \in Nat /\ Len(out) <= n /\ BytesOf(out, from)
    /\ failed \/ pos = from + n \/ pos >= i_size \/ Chain[ClusterOf(pos)] \notin Clusters
    /\ HonestAnswer

ReadInv == TypeOK /\ Beginning /\ Going /\ Looking /\ InBlock /\ Between /\ Ended

Buffers == Seq(Blocks \X (0..(blksz - 1)))

LEMMA Facts ==
  ASSUME TypeOK
  PROVE  /\ i_size \in Nat /\ i_size <= MaxSize /\ pos \in Nat /\ pos <= MaxSize /\ n \in Nat
         /\ len \in Nat /\ len <= MaxSize /\ left \in Nat /\ nth_cls \in Nat
         /\ out \in Buffers /\ Len(out) \in Nat /\ Len(out) <= MaxSize /\ (out = <<>> <=> Len(out) = 0)
         /\ fat \in [Clusters -> Clusters \cup {FREE, EOF}] /\ i_start \in Clusters /\ ncls \in Clusters
         /\ FREE \notin Clusters /\ EOF \notin Clusters /\ ret \in Int
         /\ ofs \in Nat /\ nblk \in Blocks
<1>1. MaxSize \in Nat /\ Sizes \subseteq 0..MaxSize /\ Counts \subseteq Nat /\ blksz \in Nat \ {0}
      /\ Tables \subseteq [Clusters -> Clusters \cup {FREE, EOF}]
  BY ReadAssumption
<1>2. i_size \in 0..MaxSize /\ pos \in 0..MaxSize /\ n \in Nat /\ len \in 0..MaxSize
  BY <1>1 DEF TypeOK
<1>3. left \in Nat /\ nth_cls \in Nat /\ ofs \in Nat
  BY <1>1, Volume DEF TypeOK
<1>4. out \in Buffers /\ Len(out) <= MaxSize
  BY DEF TypeOK, Buffers
<1>5. Len(out) \in Nat /\ (out = <<>> <=> Len(out) = 0)
  BY <1>4, LenProperties, EmptySeq DEF Buffers
<1>6. FREE \notin Clusters /\ EOF \notin Clusters /\ ret \in Int
  BY <1>1 DEF FREE, EOF, Clusters, TypeOK, EIO
<1>7. fat \in [Clusters -> Clusters \cup {FREE, EOF}] /\ i_start \in Clusters /\ ncls \in Clusters /\ nblk \in Blocks
  BY <1>1 DEF TypeOK
<1> QED
  BY <1>1, <1>2, <1>3, <1>4, <1>5, <1>6, <1>7

LEMMA ReadInit == Init => ReadInv
<1> SUFFICES ASSUME Init PROVE ReadInv
  OBVIOUS
<1>1. /\ pc = "idle" /\ i_mutex = NoProc /\ waiting = {} /\ out = <<>> /\ err = 0 /\ ret = 0
      /\ failed = FALSE /\ touched = FALSE /\ pos = 0 /\ n = 0 /\ nth_cls = 0 /\ ncls = i_start
      /\ len = 0 /\ left = 0 /\ nblk = data_start /\ ofs = 0
      /\ fat \in Tables /\ i_start \in Clusters /\ i_size \in Sizes
  BY DEF Init
<1>2. 0 \in 0..MaxSize /\ 0 \in 0..clssz /\ 0 \in 0..(MaxSize \div clssz) /\ 0 \in 0..(blksz - 1)
      /\ 0 \in -EIO..MaxSize
  BY Volume DEF EIO
<1>3. data_start \in Blocks
  <2>1. 2 \in Clusters /\ 0 \in 0..(sec_per_clus - 1)
    BY Volume DEF Clusters
  <2>2. data_start + (2 - 2) * sec_per_clus + 0 \in Blocks
    BY <2>1, BlockInVolume
  <2>3. data_start + (2 - 2) * sec_per_clus + 0 = data_start
    BY Volume
  <2> QED
    BY <2>2, <2>3
<1>4. out \in Seq(Blocks \X (0..(blksz - 1))) /\ Len(out) <= MaxSize
  BY <1>1, Volume
<1>5. TypeOK
  BY <1>1, <1>2, <1>3, <1>4 DEF TypeOK
<1> QED
  BY <1>1, <1>5 DEF ReadInv, Beginning, Going, Looking, InBlock, Between, Ended

-----------------------------------------------------------------------------
(* The parts of the invariant after a step.                                   *)

LEMMA BytesNext ==
  ASSUME UNCHANGED file, NEW f, BytesOf(out', f)
  PROVE  BytesOf(out, f)'
BY FileSame DEF BytesOf, Holds, Address

LEMMA BlockNext ==
  ASSUME UNCHANGED file, NEW y \in Nat, at' = y, ncls' = Chain[ClusterOf(y)],
         nblk' = BlockAt(y), ofs' = ByteOf(y), left' = Least(len', clssz - (y % clssz)),
         len' = 0 => n' = 0
  PROVE  InBlock'
BY FileSame DEF InBlock, BlockAt, ClusterOf, BlockOf, ByteOf, Least

(* What a step inside a call, or none, leaves for Going.                        *)
LEMMA GoingNext ==
  ASSUME UNCHANGED file, UNCHANGED <<pos, n, err, failed>>, pos < i_size, err = 0, ~failed,
         Len(out') + len' = Wanted(pos, n), BytesOf(out', pos)
  PROVE  Going'
<1>1. i_size' = i_size /\ pos' = pos /\ n' = n /\ err' = 0 /\ ~failed'
  BY FileSame
<1>2. \A f : BytesOf(out', f) => BytesOf(out, f)'
  BY BytesNext
<1>3. BytesOf(out, pos)'
  <2>1. PICK f : f = pos
    OBVIOUS
  <2>2. BytesOf(out, f)' /\ pos' = f
    BY <1>1, <1>2, <2>1
  <2> QED
    BY <2>2 DEF BytesOf
<1> QED
  BY <1>1, <1>3 DEF Going, Wanted

(* The end of fat_sync_read: what was copied, and how the read came to end.    *)
LEMMA EndNext ==
  ASSUME ReadInv, UNCHANGED file, UNCHANGED n, pc' = "unlock", pos' = pos + Len(out'),
         out' \in Buffers, BytesOf(out', pos), Len(out') <= n,
         \/ failed' \/ pos' = pos + n \/ pos' >= i_size \/ Chain[ClusterOf(pos')] \notin Clusters,
         \/ ret' = Len(out')
         \/ /\ ret' = -EIO /\ Len(out') = 0
            /\ \/ failed'
               \/ n = 0 /\ Chain[ClusterOf(pos) + 1] \in {EOF, FREE}
               \/ pos < i_size /\ Chain[ClusterOf(pos)] \notin Clusters
  PROVE  (Beginning /\ Going /\ Looking /\ InBlock /\ Between /\ Ended)'
<1>1. i_size' = i_size /\ Chain' = Chain /\ n' = n
  BY FileSame
<1>2. pos \in Nat /\ Len(out') \in Nat /\ (out' = <<>> <=> Len(out') = 0)
  BY Facts, LenProperties, EmptySeq DEF ReadInv, Buffers
<1>3. PICK f \in Nat : f = pos
  BY <1>2
<1>4. from' = f
  BY <1>2, <1>3 DEF from
<1>5. BytesOf(out, from)'
  <2>1. BytesOf(out, f)'
    BY <1>3, BytesNext
  <2> QED
    BY <1>4, <2>1 DEF BytesOf
<1>6. HonestAnswer'
  BY <1>1, <1>2, <1>3, <1>4 DEF HonestAnswer, Holds, ClusterOf
<1>7. Ended'
  BY <1>1, <1>2, <1>3, <1>4, <1>5, <1>6 DEF Ended, ClusterOf
<1> QED
  BY <1>7 DEF Beginning, Going, Looking, InBlock, Between

-----------------------------------------------------------------------------
(* The call, and the walk.                                                    *)

LEMMA CallStep ==
  ASSUME ReadInv, NEW p \in Procs, Call(p)
  PROVE  ReadInv'
<1>1. /\ waiting' = waiting \cup {p} /\ UNCHANGED <<fat, i_start, i_size, i_mutex, pc, pos, n, ncls, nth_cls>>
      /\ UNCHANGED <<len, left, nblk, ofs, out, err, ret, failed, touched>> /\ UNCHANGED file
  BY DEF Call, file, request, walk, copy, answer
<1>2. TypeOK'
  BY <1>1 DEF ReadInv, TypeOK
<1>3. Chain' = Chain
  BY <1>1, FileSame
<1>4. (Beginning /\ Looking /\ InBlock /\ Between)'
  BY <1>1, <1>3 DEF ReadInv, Beginning, Looking, cls_num, InBlock, BlockAt, at, Between, ClusterOf, BlockOf, ByteOf, Least
<1>5. Going'
  BY <1>1, <1>3 DEF ReadInv, Going, Wanted, Least, BytesOf, Holds, Address
<1>6. Ended'
  BY <1>1, <1>3 DEF ReadInv, Ended, from, BytesOf, Holds, Address, HonestAnswer, ClusterOf
<1> QED
  BY <1>2, <1>4, <1>5, <1>6 DEF ReadInv

LEMMA Stutter ==
  ASSUME ReadInv, UNCHANGED vars
  PROVE  ReadInv'
<1>1. /\ UNCHANGED <<waiting, fat, i_start, i_size, i_mutex, pc, pos, n, ncls, nth_cls>>
      /\ UNCHANGED <<len, left, nblk, ofs, out, err, ret, failed, touched>> /\ UNCHANGED file
  BY DEF vars, file, mutex, request, walk, copy, answer
<1>2. TypeOK'
  BY <1>1 DEF ReadInv, TypeOK
<1>3. Chain' = Chain
  BY <1>1, FileSame
<1>4. (Beginning /\ Looking /\ InBlock /\ Between)'
  BY <1>1, <1>3 DEF ReadInv, Beginning, Looking, cls_num, InBlock, BlockAt, at, Between, ClusterOf, BlockOf, ByteOf, Least
<1>5. Going'
  BY <1>1, <1>3 DEF ReadInv, Going, Wanted, Least, BytesOf, Holds, Address
<1>6. Ended'
  BY <1>1, <1>3 DEF ReadInv, Ended, from, BytesOf, Holds, Address, HonestAnswer, ClusterOf
<1> QED
  BY <1>2, <1>4, <1>5, <1>6 DEF ReadInv

(* What the file has for a request within it.                                  *)
LEMMA WantedFacts ==
  ASSUME NEW q \in Nat, NEW k \in Nat, i_size \in Nat, q < i_size
  PROVE  /\ Wanted(q, k) \in Nat /\ Wanted(q, k) <= k /\ q + Wanted(q, k) <= i_size
         /\ (Wanted(q, k) = 0 => k = 0)
         /\ (q + Wanted(q, k) = q + k \/ q + Wanted(q, k) >= i_size)
<1>1. i_size - q \in Nat \ {0}
  OBVIOUS
<1> QED
  BY <1>1 DEF Wanted, Least

LEMMA LockStep ==
  ASSUME ReadInv, NEW p \in Procs, Lock(p)
  PROVE  ReadInv'
<1>1. /\ p \in waiting /\ i_mutex = NoProc /\ i_mutex' = p /\ waiting' = waiting \ {p}
      /\ pos' \in 0..MaxSize /\ n' \in Counts
      /\ UNCHANGED file /\ i_size' = i_size
      /\ UNCHANGED <<fat, i_start, ncls, nth_cls, left, nblk, ofs, out, err, ret, failed, touched>>
  BY DEF Lock, file, walk, answer
<1>2. pc = "idle" /\ out = <<>> /\ err = 0 /\ ret = 0 /\ ~failed /\ nth_cls = 0 /\ ncls = i_start
  BY <1>1 DEF ReadInv, TypeOK, Beginning
<1>3. PICK q \in Nat, k \in Nat : pos' = q /\ n' = k /\ q <= MaxSize
  BY <1>1, ReadAssumption
<1>4. i_size \in Nat /\ i_size <= MaxSize /\ MaxSize \in Nat /\ Len(out) = 0 /\ p # NoProc
  BY <1>2, Facts, ReadAssumption DEF ReadInv
<1>5. Chain' = Chain
  BY <1>1, FileSame
<1>6. CASE q >= i_size
  <2>1. pc' = "unlock" /\ len' = 0
    BY <1>1, <1>3, <1>6 DEF Lock, Goto
  <2>2. TypeOK'
    BY <1>1, <1>4, <2>1 DEF ReadInv, TypeOK
  <2>3. from' = q
    BY <1>1, <1>3, <1>4, <2>1 DEF from
  <2>5. Ended'
    BY <1>1, <1>2, <1>3, <1>4, <1>6, <2>1, <2>3 DEF Ended, BytesOf, HonestAnswer
  <2> QED
    BY <2>1, <2>2, <2>5 DEF ReadInv, Beginning, Going, Looking, InBlock, Between
<1>7. CASE q < i_size
  <2>1. pc' = "look" /\ len' = Wanted(q, k)
    BY <1>1, <1>3, <1>4, <1>7 DEF Lock, Goto
  <2>2. len' \in Nat /\ q + len' <= i_size
    BY <1>3, <1>4, <1>7, <2>1, WantedFacts
  <2>3. TypeOK'
    <3>1. len' \in 0..MaxSize
      <4>1. q \in Nat /\ i_size \in Nat /\ i_size <= MaxSize /\ MaxSize \in Nat
        BY <1>4
      <4>2. \A l \in Nat : q + l <= i_size => l <= MaxSize
        BY <4>1
      <4>3. \A l \in Nat : l <= MaxSize => l \in 0..MaxSize
        BY <4>1
      <4> QED
        BY <2>2, <4>2, <4>3
    <3> QED
      BY <1>1, <1>4, <2>1, <3>1 DEF ReadInv, TypeOK
  <2>4. Going'
    BY <1>1, <1>2, <1>3, <1>4, <1>7, <2>1, <2>2 DEF Going, Wanted, BytesOf
  <2>5. Looking'
    <3>1. q \div clssz \in Nat
      BY <1>3, Volume, DivMod
    <3> QED
      BY <1>1, <1>2, <1>3, <1>5, <3>1, ChainDef DEF Looking, cls_num
  <2> QED
    BY <2>1, <2>3, <2>4, <2>5 DEF ReadInv, Beginning, InBlock, Between, Ended
<1> QED
  BY <1>3, <1>4, <1>6, <1>7

(* Where a call is that looks for its cluster.                                 *)
LEMMA LookFacts ==
  ASSUME ReadInv, pc = "look"
  PROVE  /\ cls_num \in 0..(Top - 1) /\ cls_num \in Nat /\ cls_num = ClusterOf(pos)
         /\ nth_cls \in Nat /\ nth_cls <= cls_num /\ ncls = Chain[nth_cls] /\ ncls \in Clusters
         /\ pos < i_size /\ out = <<>> /\ Len(out) = 0 /\ err = 0 /\ ~failed /\ len = Wanted(pos, n)
         /\ fat[ncls] \in Clusters \cup {FREE, EOF} /\ Top \in Nat
         /\ (nth_cls < cls_num => Chain[nth_cls + 1] = fat[ncls])
<1>1. /\ pos < i_size /\ err = 0 /\ ~failed /\ Len(out) + len = Wanted(pos, n)
      /\ out = <<>> /\ nth_cls <= cls_num /\ ncls = Chain[nth_cls]
  BY DEF ReadInv, Going, Looking
<1>2. /\ pos \in 0..MaxSize /\ nth_cls \in Nat /\ Len(out) = 0 /\ len \in Nat /\ ncls \in Clusters
      /\ fat[ncls] \in Clusters \cup {FREE, EOF}
  <2>1. pos \in Nat /\ pos <= MaxSize /\ MaxSize \in Nat
    BY Facts, Volume DEF ReadInv
  <2>2. pos \in 0..MaxSize
    BY <2>1
  <2> QED
    BY <1>1, <2>2, Facts DEF ReadInv
<1>3. cls_num \in 0..(Top - 1) /\ cls_num \in Nat /\ cls_num = ClusterOf(pos)
  BY <1>2, InChain DEF cls_num, ClusterOf
<1>4. Top \in Nat
  BY ChainDef
<1>5. ASSUME nth_cls < cls_num PROVE Chain[nth_cls + 1] = fat[ncls]
  <2>1. nth_cls + 1 \in 1..Top /\ (nth_cls + 1) - 1 = nth_cls
    BY <1>2, <1>3, <1>4, <1>5
  <2>2. Chain[nth_cls + 1] = Follow(Chain[nth_cls])
    BY <2>1, ChainDef
  <2> QED
    BY <1>1, <1>2, <2>2 DEF Follow
<1> QED
  BY <1>1, <1>2, <1>3, <1>4, <1>5

LEMMA WalkStep ==
  ASSUME ReadInv, Walk
  PROVE  ReadInv'
<1>1. /\ pc = "look" /\ pc' = "look" /\ nth_cls < cls_num /\ fat[ncls] \in Clusters
      /\ ncls' = fat[ncls] /\ nth_cls' = nth_cls + 1 /\ UNCHANGED file /\ UNCHANGED <<fat, i_start, i_size>>
      /\ UNCHANGED <<waiting, i_mutex, pos, n, len, left, nblk, ofs, out, err, ret, failed, touched>>
  BY DEF Walk, file, mutex, request, copy, answer
<1>2. /\ cls_num \in Nat /\ cls_num \in 0..(Top - 1) /\ nth_cls \in Nat /\ out = <<>>
      /\ Chain[nth_cls + 1] = fat[ncls] /\ Top - 1 = MaxSize \div clssz /\ Top \in Nat
  BY <1>1, LookFacts, Volume DEF Top
<1>3. nth_cls + 1 \in 0..(MaxSize \div clssz) /\ nth_cls + 1 <= cls_num
  BY <1>1, <1>2
<1>4. TypeOK'
  BY <1>1, <1>3 DEF ReadInv, TypeOK
<1>5. Going'
  <2>1. /\ pos < i_size /\ err = 0 /\ ~failed /\ Len(out) + len = Wanted(pos, n) /\ BytesOf(out, pos)
    BY <1>1 DEF ReadInv, Going
  <2>2. BytesOf(out', pos) /\ Len(out') + len' = Wanted(pos, n)
    BY <1>1, <2>1
  <2> QED
    BY <1>1, <2>1, <2>2, GoingNext
<1>6. Looking'
  BY <1>1, <1>2, <1>3, FileSame DEF Looking, cls_num
<1> QED
  BY <1>1, <1>4, <1>5, <1>6 DEF ReadInv, Beginning, InBlock, Between, Ended

(* The call ends without having copied anything.                               *)
LEMMA WalkEndsStep ==
  ASSUME ReadInv, WalkEnds
  PROVE  ReadInv'
<1>1. /\ pc = "look" /\ pc' = "unlock" /\ nth_cls < cls_num /\ ret' = -EIO
      /\ (fat[ncls] \in {FREE, EOF} /\ failed' = failed) \/ failed' = TRUE
      /\ UNCHANGED file /\ UNCHANGED <<fat, i_start, i_size>>
      /\ UNCHANGED <<waiting, i_mutex, pos, n, ncls, nth_cls, len, left, nblk, ofs, out, err, touched>>
  BY DEF WalkEnds, file, mutex, request, walk, copy, Goto
<1>2. /\ cls_num \in 0..(Top - 1) /\ cls_num = ClusterOf(pos) /\ nth_cls \in Nat /\ out = <<>> /\ Len(out) = 0
      /\ pos < i_size /\ ~failed /\ Chain[nth_cls + 1] = fat[ncls] /\ Top \in Nat
  BY <1>1, LookFacts
<1>3. /\ pos \in Nat /\ n \in Nat /\ out \in Buffers /\ FREE \notin Clusters /\ EOF \notin Clusters
      /\ MaxSize \in Nat
  BY Facts, Volume DEF ReadInv
<1>4. failed' \/ Chain[ClusterOf(pos)] \notin Clusters
  <2>1. CASE fat[ncls] \in {FREE, EOF}
    <3>1. nth_cls + 1 \in 0..Top /\ cls_num \in 0..Top /\ nth_cls + 1 <= cls_num
      BY <1>1, <1>2
    <3>2. Chain[nth_cls + 1] \notin Clusters
      BY <1>2, <1>3, <2>1
    <3> QED
      BY <1>2, <3>1, <3>2, ChainOut
  <2>2. CASE failed'
    BY <2>2
  <2> QED
    BY <1>1, <2>1, <2>2
<1>5. TypeOK'
  <2>1. -EIO \in -EIO..MaxSize
    BY <1>3 DEF EIO
  <2>2. failed' \in BOOLEAN
    BY <1>1 DEF ReadInv, TypeOK
  <2> QED
    BY <1>1, <2>1, <2>2 DEF ReadInv, TypeOK
<1>6. /\ BytesOf(out', pos) /\ Len(out') <= n /\ pos' = pos + Len(out') /\ out' \in Buffers
      /\ pos' = pos /\ Len(out') = 0
  BY <1>1, <1>2, <1>3 DEF BytesOf
<1>7. (Beginning /\ Going /\ Looking /\ InBlock /\ Between /\ Ended)'
  BY <1>1, <1>2, <1>4, <1>6, EndNext
<1> QED
  BY <1>5, <1>7 DEF ReadInv

-----------------------------------------------------------------------------
(* Into a cluster, and through its blocks.                                     *)

(* A call that enters cluster c, where position y is, with l bytes to copy.     *)
LEMMA EnterFacts ==
  ASSUME TypeOK, NEW y \in Nat, NEW c \in Clusters, c = Chain[ClusterOf(y)],
         NEW l \in Nat, EnterCluster(c, y % clssz, l)
  PROVE  /\ ncls' = c /\ len' = l /\ pc' = "block"
         /\ nblk' = BlockAt(y) /\ nblk' \in Blocks /\ ofs' = ByteOf(y) /\ ofs' \in 0..(blksz - 1)
         /\ left' = Least(l, clssz - (y % clssz)) /\ left' \in 0..clssz
<1> DEFINE o == y % clssz
           u == BlockOf(y)
<1>1. /\ ncls' = c /\ len' = l /\ pc' = "block" /\ left' = Least(l, clssz - o)
      /\ nblk' = ncluster2block(c) + u /\ ofs' = o % blksz
  BY DEF EnterCluster, Goto, BlockOf
<1>2. u \in 0..(sec_per_clus - 1) /\ o % blksz = ByteOf(y) /\ ByteOf(y) \in 0..(blksz - 1) /\ o \in 0..(clssz - 1)
  BY PlaceOf
<1>3. nblk' = BlockAt(y) /\ nblk' \in Blocks
  BY <1>1, <1>2, BlockInVolume DEF BlockAt
<1>4. left' \in 0..clssz
  <2> HIDE DEF o
  <2>1. clssz \in Nat \ {0}
    BY Volume
  <2> QED
    BY <1>1, <1>2, <2>1 DEF Least
<1> QED
  BY <1>1, <1>2, <1>3, <1>4

LEMMA FoundStep ==
  ASSUME ReadInv, Found
  PROVE  ReadInv'
<1>1. /\ pc = "look" /\ nth_cls = cls_num /\ EnterCluster(ncls, cls_ofs, len) /\ UNCHANGED file
      /\ UNCHANGED <<waiting, i_mutex, fat, i_start, i_size, pos, n, nth_cls, out, err, ret, failed, touched>>
  BY DEF Found, file, mutex, request, answer
<1>2. /\ cls_num = ClusterOf(pos) /\ ncls = Chain[nth_cls] /\ ncls \in Clusters /\ pos < i_size
      /\ out = <<>> /\ Len(out) = 0 /\ err = 0 /\ ~failed /\ len = Wanted(pos, n)
  BY <1>1, LookFacts
<1>3. /\ pos \in Nat /\ n \in Nat /\ len \in Nat /\ i_size \in Nat
  BY Facts DEF ReadInv
<1>4. /\ ncls' = ncls /\ len' = len /\ pc' = "block" /\ nblk' = BlockAt(pos) /\ nblk' \in Blocks
      /\ ofs' = ByteOf(pos) /\ ofs' \in 0..(blksz - 1)
      /\ left' = Least(len, clssz - (pos % clssz)) /\ left' \in 0..clssz
  BY <1>1, <1>2, <1>3, EnterFacts DEF cls_ofs, ReadInv
<1>5. TypeOK'
  BY <1>1, <1>4 DEF ReadInv, TypeOK
<1>6. Going'
  <2>1. Len(out') + len' = Wanted(pos, n) /\ BytesOf(out', pos)
    BY <1>1, <1>4 DEF ReadInv, Going
  <2> QED
    BY <1>1, <1>2, <2>1, GoingNext
<1>7. InBlock'
  <2>1. PICK y \in Nat : y = pos
    BY <1>3
  <2>2. at' = y
    BY <1>1, <1>2, <1>3, <2>1 DEF at
  <2>3. len' = 0 => n' = 0
    BY <1>1, <1>2, <1>3, <1>4, WantedFacts
  <2>4. ncls' = Chain[ClusterOf(y)] /\ nblk' = BlockAt(y) /\ ofs' = ByteOf(y)
        /\ left' = Least(len', clssz - (y % clssz))
    BY <1>1, <1>2, <1>4, <2>1
  <2> QED
    BY <1>1, <2>2, <2>3, <2>4, BlockNext
<1> QED
  BY <1>4, <1>5, <1>6, <1>7 DEF ReadInv, Beginning, Looking, Between, Ended

(* Where a call is that copies a block: within the file, and the piece within  *)
(* the block, the cluster and the file.                                        *)
LEMMA BlockFacts ==
  ASSUME ReadInv, pc = "block"
  PROVE  /\ at \in Nat /\ at < i_size /\ at = pos + Len(out) /\ pos \in Nat /\ pos < i_size /\ n \in Nat
         /\ len \in Nat /\ left \in Nat /\ piece \in Nat /\ piece <= left /\ left <= len
         /\ at + len <= i_size /\ Len(out) + len <= n /\ (len = 0 => n = 0)
         /\ Chain[ClusterOf(at)] = ncls /\ ncls \in Clusters /\ nblk = BlockAt(at)
         /\ ofs = ByteOf(at) /\ ofs \in 0..(blksz - 1) /\ ofs + piece <= blksz
         /\ left = Least(len, clssz - (at % clssz)) /\ at % clssz \in 0..(clssz - 1)
         /\ i_size <= MaxSize /\ i_size \in Nat /\ err = 0 /\ ~failed /\ out \in Buffers /\ BytesOf(out, pos)
         /\ Len(out) \in Nat /\ Len(out) + len = Wanted(pos, n)
         /\ (pos + Len(out) + len = pos + n \/ pos + Len(out) + len >= i_size)
<1>1. /\ pos < i_size /\ err = 0 /\ ~failed /\ Len(out) + len = Wanted(pos, n) /\ BytesOf(out, pos)
      /\ ncls = Chain[ClusterOf(at)] /\ nblk = BlockAt(at) /\ ofs = ByteOf(at)
      /\ left = Least(len, clssz - (at % clssz)) /\ (len = 0 => n = 0)
  BY DEF ReadInv, Going, InBlock
<1>2. /\ pos \in Nat /\ n \in Nat /\ len \in Nat /\ left \in Nat /\ Len(out) \in Nat /\ out \in Buffers
      /\ i_size \in Nat /\ i_size <= MaxSize /\ ncls \in Clusters
  BY Facts DEF ReadInv
<1>3. at \in Nat /\ at = pos + Len(out)
  BY <1>2 DEF at
<1>4. at % clssz \in 0..(clssz - 1) /\ ofs \in 0..(blksz - 1) /\ clssz \in Nat \ {0} /\ blksz \in Nat \ {0}
  BY <1>1, <1>3, PlaceOf, Volume
<1>5. left <= len
  <2> DEFINE r == at % clssz
  <2>1. left = Least(len, clssz - r) /\ r \in 0..(clssz - 1)
    BY <1>1, <1>4
  <2> HIDE DEF r
  <2> QED
    BY <1>2, <1>4, <2>1 DEF Least
<1>6. piece \in Nat /\ piece <= left /\ ofs + piece <= blksz
  BY <1>2, <1>4 DEF piece, Least
<1> DEFINE w == Wanted(pos, n)
<1>7. /\ w \in Nat /\ w <= n /\ pos + w <= i_size /\ (w = 0 => n = 0)
      /\ (pos + w = pos + n \/ pos + w >= i_size)
  BY <1>1, <1>2, WantedFacts
<1> DEFINE m == Len(out)
<1>8. /\ (pos + m) + len <= i_size /\ m + len <= n /\ pos + m < i_size
      /\ (pos + m + len = pos + n \/ pos + m + len >= i_size)
  <2>1. m \in Nat /\ m + len = w /\ (len = 0 => n = 0)
    BY <1>1, <1>2
  <2> HIDE DEF w, m
  <2>2. (pos + m) + len = pos + w
    BY <1>2, <1>7, <2>1
  <2>3. pos + m < i_size
    <3>1. CASE len = 0
      BY <1>1, <1>2, <1>7, <2>1, <3>1
    <3>2. CASE len # 0
      BY <1>2, <1>7, <2>1, <2>2, <3>2
    <3> QED
      BY <3>1, <3>2
  <2> QED
    BY <1>7, <2>1, <2>2, <2>3
<1> QED
  BY <1>1, <1>2, <1>3, <1>4, <1>5, <1>6, <1>8

LEMMA AddressIs ==
  ASSUME NEW x
  PROVE  /\ Address(x) = <<BlockAt(x), ByteOf(x)>>
         /\ Holds(x) <=> x < i_size /\ Chain[ClusterOf(x)] \in Clusters
BY DEF Address, BlockAt, ClusterOf, BlockOf, ByteOf, Holds

(* The first k bytes of the piece are those of the file that come next.        *)
LEMMA MoreBytes ==
  ASSUME ReadInv, pc = "block", NEW k \in 0..piece, Copied(k)
  PROVE  /\ out' \in Buffers /\ Len(out') = Len(out) + k /\ BytesOf(out', pos)
         /\ len' = len - k /\ left' = left - k /\ len' \in Nat /\ left' \in Nat
         /\ pos + Len(out') = at + k /\ k \in Nat /\ Len(out') <= n /\ Len(out') + len' = Len(out) + len
<1> DEFINE T == Blocks \X (0..(blksz - 1))
           e == [i \in 1..k |-> <<nblk, ofs + i - 1>>]
           m == Len(out)
<1>1. /\ at \in Nat /\ at = pos + m /\ pos \in Nat /\ len \in Nat /\ left \in Nat /\ piece \in Nat
      /\ piece <= left /\ left <= len /\ at + len <= i_size /\ i_size \in Nat /\ m + len <= n
      /\ Chain[ClusterOf(at)] = ncls /\ ncls \in Clusters /\ nblk = BlockAt(at) /\ n \in Nat
      /\ ofs = ByteOf(at) /\ ofs \in 0..(blksz - 1) /\ ofs + piece <= blksz
      /\ out \in Buffers /\ BytesOf(out, pos) /\ m \in Nat
  BY BlockFacts
<1>2. blksz \in Nat /\ nblk \in Blocks /\ k \in Nat /\ k <= piece
  BY <1>1, Volume, Facts DEF ReadInv
<1>3. out' = out \o e /\ len' = len - k /\ left' = left - k
  BY DEF Copied
<1>4. \A j \in 1..k : ofs + j - 1 \in 0..(blksz - 1) /\ ofs + (j - 1) < blksz /\ j - 1 \in Nat
  <2>1. blksz \in Nat /\ ofs \in Nat /\ piece \in Nat /\ k \in Nat /\ k <= piece /\ ofs + piece <= blksz
    BY <1>1, <1>2
  <2>2. ASSUME NEW j \in 1..k
        PROVE  ofs + j - 1 \in 0..(blksz - 1) /\ ofs + (j - 1) < blksz /\ j - 1 \in Nat
    BY <2>1, <2>2
  <2> QED
    BY <2>2
<1>5. e \in Seq(T) /\ Len(e) = k
  BY <1>2, <1>4
<1>6. /\ out' \in Seq(T) /\ Len(out') = m + k
      /\ \A i \in 1..(m + k) : out'[i] = IF i <= m THEN out[i] ELSE e[i - m]
  <2> HIDE DEF T, e
  <2> QED
    BY <1>1, <1>3, <1>5, ConcatProperties DEF Buffers, T
<1>7. ASSUME NEW i \in 1..Len(out') PROVE Holds(pos + i - 1) /\ out'[i] = Address(pos + i - 1)
  <2>0. i \in Nat /\ i >= 1 /\ i <= m + k
    BY <1>1, <1>2, <1>6
  <2>1. CASE i <= m
    <3>1. i \in 1..m /\ i \in 1..(m + k)
      <4> HIDE DEF m
      <4> QED
        BY <1>1, <1>2, <2>0, <2>1
    <3>2. out'[i] = out[i]
      BY <1>6, <2>1, <3>1
    <3> QED
      BY <1>1, <3>1, <3>2 DEF BytesOf
  <2>2. CASE i > m
    <3>0. i - m \in 1..k
      <4> HIDE DEF m
      <4> QED
        BY <1>1, <1>2, <2>0, <2>2
    <3>1. PICK j \in 1..k : j = i - m
      BY <3>0
    <3> DEFINE x == at + (j - 1)
    <3>2. x = pos + i - 1 /\ x < i_size
      <4>1. j \in Nat /\ j >= 1 /\ j <= k /\ i = m + j
        BY <1>1, <1>2, <2>0, <3>1
      <4> HIDE DEF m
      <4> QED
        BY <1>1, <1>2, <4>1
    <3>3. ClusterOf(x) = ClusterOf(at) /\ BlockOf(x) = BlockOf(at) /\ ByteOf(x) = ofs + (j - 1)
      BY <1>1, <1>4, PlaceAfter
    <3>4. BlockAt(x) = nblk
      BY <1>1, <3>3 DEF BlockAt
    <3>5. out'[i] = <<nblk, ofs + (j - 1)>>
      <4>1. i \in 1..(m + k) /\ ~(i <= m)
        BY <1>1, <1>2, <2>0, <2>2
      <4>2. out'[i] = e[j]
        BY <1>6, <3>1, <4>1
      <4>3. ofs + j - 1 = ofs + (j - 1)
        BY <1>1, <1>2
      <4> QED
        BY <4>2, <4>3
    <3> HIDE DEF x
    <3>6. Holds(x) /\ out'[i] = Address(x)
      BY <1>1, <3>2, <3>3, <3>4, <3>5, AddressIs
    <3> QED
      BY <3>2, <3>6
  <2> QED
    BY <1>1, <2>0, <2>1, <2>2
<1>8. BytesOf(out', pos)
  BY <1>7 DEF BytesOf
<1>9. /\ len' \in Nat /\ left' \in Nat /\ pos + (m + k) = at + k /\ m + k <= n
      /\ (m + k) + len' = m + len
  <2> HIDE DEF m
  <2> QED
    BY <1>1, <1>2, <1>3
<1> QED
  BY <1>2, <1>3, <1>6, <1>8, <1>9 DEF Buffers, T

LEMMA CopyBlockStep ==
  ASSUME ReadInv, CopyBlock
  PROVE  ReadInv'
<1>1. /\ pc = "block" /\ Copied(piece) /\ UNCHANGED file
      /\ UNCHANGED <<waiting, i_mutex, fat, i_start, i_size, pos, n, ncls, nth_cls, err, ret, failed>>
      /\ \/ left > piece /\ nblk' = nblk + 1 /\ ofs' = 0 /\ pc' = "block"
         \/ ~(left > piece) /\ nblk' = nblk /\ ofs' = ofs /\ pc' = "next"
      /\ touched' \in BOOLEAN
  BY DEF CopyBlock, Touch, file, mutex, request, walk, Goto, ReadInv, TypeOK
<1> DEFINE m == Len(out)
           r == at % clssz
           q == piece
<1>2. /\ at \in Nat /\ at < i_size /\ at = pos + m /\ pos \in Nat /\ pos < i_size /\ n \in Nat
      /\ len \in Nat /\ left \in Nat /\ q \in Nat /\ q <= left /\ left <= len
      /\ at + len <= i_size /\ m + len <= n /\ (len = 0 => n = 0)
      /\ Chain[ClusterOf(at)] = ncls /\ ncls \in Clusters /\ nblk = BlockAt(at)
      /\ ofs = ByteOf(at) /\ ofs \in 0..(blksz - 1) /\ ofs + q <= blksz
      /\ left = Least(len, clssz - r) /\ r \in 0..(clssz - 1)
      /\ i_size <= MaxSize /\ i_size \in Nat /\ err = 0 /\ ~failed
      /\ m \in Nat /\ m + len = Wanted(pos, n)
  BY <1>1, BlockFacts
<1>3. /\ out' \in Buffers /\ Len(out') = m + q /\ BytesOf(out', pos)
      /\ len' = len - q /\ left' = left - q /\ len' \in Nat /\ left' \in Nat
      /\ pos + Len(out') = at + q /\ Len(out') <= n /\ Len(out') + len' = m + len
  <2>1. q \in 0..q
    BY <1>2
  <2> QED
    BY <1>1, <2>1, MoreBytes
<1>4. /\ MaxSize \in Nat /\ clssz \in Nat \ {0} /\ blksz \in Nat \ {0} /\ sec_per_clus \in Nat \ {0} /\ left <= clssz
      /\ len <= MaxSize
  BY Volume, Facts DEF ReadInv, TypeOK
<1>5. /\ len' \in 0..MaxSize /\ left' \in 0..clssz /\ Len(out') <= MaxSize
  <2>1. Len(out') \in Nat /\ Len(out') <= i_size
    <3> HIDE DEF m, q
    <3>1. Len(out') = m + q /\ m + q <= i_size
      BY <1>2, <1>3
    <3> QED
      BY <1>2, <3>1
  <2>2. len' <= len /\ left' <= left
    BY <1>2, <1>3
  <2>3. len' <= MaxSize /\ left' <= clssz
    <3>1. \A a, b, c \in Nat : a <= b /\ b <= c => a <= c
      OBVIOUS
    <3> QED
      BY <1>2, <1>3, <1>4, <2>2, <3>1
  <2>4. \A a, b \in Nat : a <= b => a \in 0..b
    OBVIOUS
  <2> QED
    BY <1>3, <1>4, <2>1, <2>3, <2>4, <1>2
<1>6. Going'
  <2>1. Len(out') + len' = Wanted(pos, n)
    BY <1>2, <1>3
  <2> QED
    BY <1>1, <1>2, <1>3, <2>1, GoingNext
<1>7. CASE left > q
  <2>0. q = blksz - ofs
    <3>1. q = Least(left, blksz - ofs)
      BY DEF piece
    <3>2. left \in Nat /\ q \in Nat
      BY <1>2
    <3> HIDE DEF q
    <3> QED
      BY <1>7, <3>1, <3>2 DEF Least
  <2>1. nblk' = nblk + 1 /\ ofs' = 0 /\ pc' = "block" /\ q = blksz - ofs
    BY <1>1, <1>7, <2>0
  <2> DEFINE y == at + q
  <2>2. r + q < clssz
    <3> HIDE DEF r, q
    <3> QED
      BY <1>2, <1>4, <1>7 DEF Least
  <2>3. /\ y \in Nat /\ ClusterOf(y) = ClusterOf(at) /\ BlockOf(y) = BlockOf(at) + 1 /\ ByteOf(y) = 0
        /\ y % clssz = r + q
    <3>1. r + (blksz - ByteOf(at)) < clssz /\ blksz - ByteOf(at) = q
      BY <1>2, <2>1, <2>2
    <3> QED
      BY <1>2, <3>1, BlockAfter
  <2>4. nblk' = BlockAt(y) /\ nblk' \in Blocks
    <3>1. /\ BlockOf(y) \in 0..(sec_per_clus - 1) /\ BlockOf(at) \in Nat
          /\ (Chain[ClusterOf(at)] - 2) * sec_per_clus \in Nat /\ data_start \in Nat
      <4>1. ncls - 2 \in Nat /\ sec_per_clus \in Nat /\ data_start \in Nat
        BY <1>2, Volume DEF Clusters
      <4>2. (ncls - 2) * sec_per_clus \in Nat
        BY <4>1, TimesNat
      <4>3. BlockOf(y) \in 0..(sec_per_clus - 1) /\ BlockOf(at) \in 0..(sec_per_clus - 1)
        BY <1>2, <2>3, PlaceOf
      <4> QED
        BY <1>2, <4>1, <4>2, <4>3
    <3>2. BlockAt(y) = BlockAt(at) + 1
      <4> DEFINE z == (Chain[ClusterOf(at)] - 2) * sec_per_clus
      <4>1. BlockAt(y) = data_start + z + (BlockOf(at) + 1) /\ BlockAt(at) = data_start + z + BlockOf(at)
        BY <2>3 DEF BlockAt
      <4>2. z \in Nat
        BY <3>1
      <4> HIDE DEF z
      <4> QED
        BY <3>1, <4>1, <4>2
    <3>3. BlockAt(y) \in Blocks
      <4> HIDE DEF y
      <4> QED
        BY <1>2, <2>3, <3>1, BlockInVolume DEF BlockAt
    <3> QED
      BY <1>2, <2>1, <3>2, <3>3
  <2>5. TypeOK'
    <3>1. 0 \in 0..(blksz - 1)
      BY <1>4
    <3> QED
      BY <1>1, <1>3, <1>5, <2>1, <2>4, <3>1 DEF ReadInv, TypeOK, Buffers
  <2>6. left' = Least(len', clssz - (y % clssz))
    <3> DEFINE c == y % clssz
    <3>1. c = r + q
      BY <2>3
    <3> HIDE DEF c, r, q, y
    <3>2. r \in Nat /\ q \in Nat /\ len \in Nat /\ clssz \in Nat /\ left = Least(len, clssz - r)
          /\ len' = len - q /\ left' = left - q
      BY <1>2, <1>3, <1>4
    <3>3. Least(len, clssz - r) - q = Least(len - q, clssz - (r + q))
      BY <3>2 DEF Least
    <3>4. left' = Least(len - q, clssz - (r + q))
      BY <3>2, <3>3
    <3>5. Least(len - q, clssz - (r + q)) = Least(len', clssz - c)
      BY <3>1, <3>2
    <3> QED
      BY <3>4, <3>5 DEF c
  <2>7. len' = 0 => n' = 0
    BY <1>2, <1>3, <1>7
  <2>8. PICK x \in Nat : x = y
    BY <2>3
  <2>9. at' = x
    BY <1>1, <1>3, <2>8 DEF at
  <2>10. ncls' = Chain[ClusterOf(x)] /\ nblk' = BlockAt(x) /\ ofs' = ByteOf(x)
         /\ left' = Least(len', clssz - (x % clssz))
    BY <1>1, <1>2, <2>1, <2>3, <2>4, <2>6, <2>8
  <2>11. InBlock'
    BY <1>1, <2>7, <2>9, <2>10, BlockNext
  <2> QED
    BY <1>6, <2>1, <2>5, <2>11 DEF ReadInv, Beginning, Looking, Between, Ended
<1>8. CASE ~(left > q)
  <2>1. nblk' = nblk /\ ofs' = ofs /\ pc' = "next" /\ q = left
    BY <1>1, <1>2, <1>8
  <2>2. TypeOK'
    BY <1>1, <1>3, <1>5, <2>1 DEF ReadInv, TypeOK, Buffers
  <2> DEFINE y == at + q
  <2>3. ClusterOf(at) \in 0..(Top - 1) /\ ClusterOf(pos) \in 0..(Top - 1) /\ Top \in Nat
    <3>1. at \in 0..MaxSize /\ pos \in 0..MaxSize
      BY <1>2, <1>4
    <3> QED
      BY <3>1, InChain, ChainDef
  <2>4. Chain[ClusterOf(at) + 1] = fat[ncls]
    <3>1. ClusterOf(at) + 1 \in 1..Top /\ (ClusterOf(at) + 1) - 1 = ClusterOf(at)
      BY <2>3
    <3>2. Chain[ClusterOf(at) + 1] = Follow(Chain[ClusterOf(at)])
      BY <3>1, ChainDef
    <3> QED
      BY <1>2, <3>2 DEF Follow
  <2>5. len' > 0 => y % clssz = 0 /\ ClusterOf(y) = ClusterOf(at) + 1
    <3> SUFFICES ASSUME len' > 0 PROVE y % clssz = 0 /\ ClusterOf(y) = ClusterOf(at) + 1
      OBVIOUS
    <3>1. q = clssz - r
      <4> HIDE DEF r, q
      <4> QED
        BY <1>2, <1>3, <1>4, <2>1 DEF Least
    <3>2. y = at + (clssz - (at % clssz))
      BY <3>1
    <3> QED
      BY <1>2, <3>2, ClusterAfter
  <2>6. n = 0 => at = pos
    <3> HIDE DEF m
    <3> QED
      BY <1>2
  <2>7. n # 0 => Len(out') # 0
    <3>1. CASE len = 0
      BY <1>2, <3>1
    <3>2. CASE len # 0
      <4>1. left > 0
        <5> HIDE DEF r
        <5> QED
          BY <1>2, <1>4, <3>2 DEF Least
      <4>2. Len(out') = m + q /\ q > 0 /\ m \in Nat /\ q \in Nat
        BY <1>2, <1>3, <2>1, <4>1
      <4> HIDE DEF m, q
      <4> QED
        BY <4>2
    <3> QED
      BY <3>1, <3>2
  <2>8. PICK x \in Nat : x = y
    BY <1>2
  <2>9. at' = x
    BY <1>1, <1>3, <2>8 DEF at
  <2>10. len' > 0 => x % clssz = 0 /\ Chain[ClusterOf(x)] = fat[ncls]
    BY <2>4, <2>5, <2>8
  <2>11. IF n = 0 THEN Chain[ClusterOf(pos) + 1] = fat[ncls] ELSE out' # <<>>
    <3>1. n # 0 => out' # <<>>
      BY <2>7
    <3> QED
      BY <2>4, <2>6, <3>1
  <2>12. Between'
    BY <1>1, <2>9, <2>10, <2>11, FileSame DEF Between, ClusterOf
  <2> QED
    BY <1>6, <2>1, <2>2, <2>12 DEF ReadInv, Beginning, Looking, InBlock, Ended
<1> QED
  BY <1>7, <1>8

-----------------------------------------------------------------------------
(* The ends of a read.                                                        *)

LEMMA FinishFacts ==
  ASSUME TypeOK, NEW m \in Nat, pos + m <= i_size, NEW e \in {0, EIO},
         pos' = pos + m, ret' = IF m > 0 THEN m ELSE -e
  PROVE  /\ pos' \in 0..MaxSize /\ ret' \in -EIO..MaxSize
         /\ ret' = m \/ (ret' = -EIO /\ m = 0 /\ e = EIO)
<1>1. pos \in Nat /\ i_size \in Nat /\ i_size <= MaxSize /\ MaxSize \in Nat /\ EIO = 5
  BY Facts, Volume DEF EIO
<1>2. pos + m \in 0..MaxSize /\ m <= MaxSize
  BY <1>1
<1> QED
  BY <1>1, <1>2

LEMMA BlockErrorStep ==
  ASSUME ReadInv, BlockError
  PROVE  ReadInv'
<1>1. /\ pc = "block" /\ err' = EIO /\ failed' = TRUE /\ UNCHANGED file /\ pc' = "unlock"
      /\ pos' = pos + Len(out) /\ ret' = IF Len(out) > 0 THEN Len(out) ELSE -EIO
      /\ UNCHANGED <<waiting, i_mutex, fat, i_start, i_size, n, ncls, nth_cls, len, left, nblk, ofs, out, touched>>
  BY DEF BlockError, Finish, Goto, file, mutex, walk, copy
<1>2. /\ pos + Len(out) <= i_size /\ Len(out) \in Nat /\ Len(out) <= n /\ BytesOf(out, pos) /\ out \in Buffers
  <2>1. /\ at = pos + Len(out) /\ at \in Nat /\ at < i_size /\ i_size \in Nat /\ Len(out) + len <= n
        /\ Len(out) \in Nat /\ len \in Nat /\ n \in Nat /\ BytesOf(out, pos) /\ out \in Buffers
    BY <1>1, BlockFacts
  <2> DEFINE m == Len(out)
  <2>2. m <= n
    <3>1. m \in Nat /\ len \in Nat /\ n \in Nat /\ m + len <= n
      BY <2>1
    <3> HIDE DEF m
    <3> QED
      BY <3>1
  <2> QED
    BY <2>1, <2>2
<1>3. /\ pos' \in 0..MaxSize /\ ret' \in -EIO..MaxSize
      /\ ret' = Len(out) \/ (ret' = -EIO /\ Len(out) = 0)
  BY <1>1, <1>2, FinishFacts DEF ReadInv
<1>4. TypeOK'
  BY <1>1, <1>3 DEF ReadInv, TypeOK
<1>5. /\ pos' = pos + Len(out') /\ BytesOf(out', pos) /\ Len(out') <= n /\ out' \in Buffers
      /\ ret' = Len(out') \/ (ret' = -EIO /\ Len(out') = 0)
  BY <1>1, <1>2, <1>3
<1>6. (Beginning /\ Going /\ Looking /\ InBlock /\ Between /\ Ended)'
  BY <1>1, <1>5, EndNext
<1> QED
  BY <1>4, <1>6 DEF ReadInv

LEMMA UserErrorStep ==
  ASSUME ReadInv, UserError
  PROVE  ReadInv'
<1>1. /\ pc = "block" /\ err' = EIO /\ failed' = TRUE /\ UNCHANGED file /\ pc' = "unlock"
      /\ UNCHANGED <<waiting, i_mutex, fat, i_start, i_size, n, ncls, nth_cls, nblk, ofs>>
      /\ touched' \in BOOLEAN
  BY DEF UserError, Finish, Touch, Goto, file, mutex, walk, ReadInv, TypeOK
<1>2. PICK k \in 0..(piece - 1) : Copied(k) /\ Finish(out', EIO)
  BY DEF UserError
<1> DEFINE m == Len(out')
<1>3. /\ at = pos + Len(out) /\ at \in Nat /\ i_size \in Nat /\ at + len <= i_size
      /\ piece \in Nat /\ piece <= left /\ left <= len /\ left \in Nat /\ len \in Nat
      /\ i_size <= MaxSize /\ MaxSize \in Nat /\ pos \in Nat /\ left <= clssz /\ clssz \in Nat
      /\ len <= MaxSize
  BY <1>1, BlockFacts, Volume, Facts DEF ReadInv, TypeOK
<1>4. k \in 0..piece
  BY <1>2, <1>3
<1>5. /\ out' \in Buffers /\ BytesOf(out', pos) /\ m = Len(out) + k /\ m <= n
      /\ len' = len - k /\ left' = left - k /\ len' \in Nat /\ left' \in Nat /\ pos + m = at + k /\ k \in Nat
  BY <1>1, <1>2, <1>4, MoreBytes
<1>6. m \in Nat /\ pos + m <= i_size /\ m <= MaxSize /\ len' \in 0..MaxSize /\ left' \in 0..clssz
  <2>1. m \in Nat
    BY <1>5, LenProperties DEF Buffers
  <2>2. k <= len /\ k <= left
    BY <1>3, <1>4
  <2>3. pos + m <= i_size
    <3>1. at + k <= i_size
      BY <1>3, <1>5, <2>2
    <3> QED
      BY <1>5, <3>1
  <2>4. m <= MaxSize
    <3> HIDE DEF m
    <3> QED
      BY <1>3, <2>1, <2>3
  <2>5. len - k \in 0..MaxSize /\ left - k \in 0..clssz
    BY <1>3, <1>5, <2>2
  <2> QED
    BY <1>5, <2>1, <2>3, <2>4, <2>5
<1>7. pos' = pos + m /\ ret' = IF m > 0 THEN m ELSE -EIO
  BY <1>2 DEF Finish
<1>8. /\ pos' \in 0..MaxSize /\ ret' \in -EIO..MaxSize
      /\ ret' = m \/ (ret' = -EIO /\ m = 0)
  <2> HIDE DEF m
  <2> QED
    BY <1>6, <1>7, FinishFacts DEF ReadInv
<1>9. TypeOK'
  BY <1>1, <1>5, <1>6, <1>8 DEF ReadInv, TypeOK, Buffers
<1>10. (Beginning /\ Going /\ Looking /\ InBlock /\ Between /\ Ended)'
  BY <1>1, <1>5, <1>7, <1>8, EndNext
<1> QED
  BY <1>9, <1>10 DEF ReadInv

(* Where a call is behind a cluster.                                           *)
LEMMA NextFacts ==
  ASSUME ReadInv, pc = "next"
  PROVE  /\ pos \in Nat /\ pos < i_size /\ i_size \in Nat /\ i_size <= MaxSize /\ n \in Nat /\ len \in Nat
         /\ Len(out) \in Nat /\ at = pos + Len(out) /\ at \in Nat /\ pos + Len(out) <= i_size /\ Len(out) <= n
         /\ BytesOf(out, pos) /\ out \in Buffers /\ err = 0 /\ ~failed /\ Len(out) + len = Wanted(pos, n)
         /\ (len > 0 => at % clssz = 0 /\ Chain[ClusterOf(at)] = fat[ncls] /\ at < i_size)
         /\ (n = 0 => Chain[ClusterOf(pos) + 1] = fat[ncls]) /\ (n # 0 => Len(out) > 0)
         /\ (len = 0 => pos + Len(out) = pos + n \/ pos + Len(out) >= i_size)
         /\ fat[ncls] \in Clusters \cup {FREE, EOF} /\ FREE \notin Clusters /\ EOF \notin Clusters
<1>1. /\ pos < i_size /\ err = 0 /\ ~failed /\ Len(out) + len = Wanted(pos, n) /\ BytesOf(out, pos)
      /\ len > 0 => at % clssz = 0 /\ Chain[ClusterOf(at)] = fat[ncls]
      /\ IF n = 0 THEN Chain[ClusterOf(pos) + 1] = fat[ncls] ELSE out # <<>>
  BY DEF ReadInv, Going, Between
<1>2. /\ pos \in Nat /\ n \in Nat /\ len \in Nat /\ Len(out) \in Nat /\ out \in Buffers
      /\ i_size \in Nat /\ i_size <= MaxSize /\ (out = <<>> <=> Len(out) = 0)
      /\ fat[ncls] \in Clusters \cup {FREE, EOF} /\ FREE \notin Clusters /\ EOF \notin Clusters
  BY Facts DEF ReadInv
<1> DEFINE m == Len(out)
           w == Wanted(pos, n)
<1>3. w \in Nat /\ w <= n /\ pos + w <= i_size /\ (pos + w = pos + n \/ pos + w >= i_size)
  BY <1>1, <1>2, WantedFacts
<1>4. m \in Nat /\ m + len = w
  BY <1>1, <1>2
<1>5. /\ pos + m <= i_size /\ m <= n /\ pos + m \in Nat /\ (len > 0 => pos + m < i_size)
      /\ (len = 0 => pos + m = pos + n \/ pos + m >= i_size)
  <2> HIDE DEF m, w
  <2> QED
    BY <1>2, <1>3, <1>4
<1>6. n # 0 => m > 0
  <2>1. n # 0 => m # 0
    BY <1>1, <1>2
  <2> HIDE DEF m
  <2> QED
    BY <1>4, <2>1
<1>7. at = pos + m
  BY DEF at
<1> QED
  BY <1>1, <1>2, <1>5, <1>6, <1>7

LEMMA NextErrorStep ==
  ASSUME ReadInv, NextError \/ NextEnds \/ AllCopied
  PROVE  ReadInv'
<1>1. /\ pc = "next" /\ UNCHANGED file /\ pc' = "unlock"
      /\ UNCHANGED <<waiting, i_mutex, fat, i_start, i_size, n, ncls, nth_cls, len, left, nblk, ofs, out, touched>>
      /\ pos' = pos + Len(out)
  BY DEF NextError, NextEnds, AllCopied, Finish, Goto, file, mutex, walk, copy
<1>2. /\ pos \in Nat /\ pos < i_size /\ i_size \in Nat /\ n \in Nat /\ len \in Nat /\ Len(out) \in Nat
      /\ at = pos + Len(out) /\ pos + Len(out) <= i_size /\ Len(out) <= n
      /\ BytesOf(out, pos) /\ out \in Buffers /\ err = 0 /\ ~failed
      /\ (len > 0 => Chain[ClusterOf(at)] = fat[ncls])
      /\ (n = 0 => Chain[ClusterOf(pos) + 1] = fat[ncls]) /\ (n # 0 => Len(out) > 0)
      /\ (len = 0 => pos + Len(out) = pos + n \/ pos + Len(out) >= i_size)
      /\ FREE \notin Clusters /\ EOF \notin Clusters
  BY <1>1, NextFacts
<1>3. PICK e \in {0, EIO} : err' \in {0, EIO} /\ ret' = IF Len(out) > 0 THEN Len(out) ELSE -e
  BY <1>2 DEF NextError, NextEnds, AllCopied, Finish
<1>4. /\ pos' \in 0..MaxSize /\ ret' \in -EIO..MaxSize
      /\ ret' = Len(out) \/ (ret' = -EIO /\ Len(out) = 0)
  BY <1>1, <1>2, <1>3, FinishFacts DEF ReadInv
<1>5. failed' \in BOOLEAN
  BY DEF NextError, NextEnds, AllCopied, ReadInv, TypeOK
<1>6. TypeOK'
  BY <1>1, <1>3, <1>4, <1>5 DEF ReadInv, TypeOK
<1>7. failed' \/ pos' = pos + n \/ pos' >= i_size \/ Chain[ClusterOf(pos')] \notin Clusters
  <2>1. CASE NextError
    BY <2>1 DEF NextError
  <2>2. CASE len = 0
    BY <1>1, <1>2, <2>2
  <2>3. CASE NextEnds /\ len > 0
    <3>1. fat[ncls] \in {FREE, EOF} /\ Chain[ClusterOf(at)] = fat[ncls] /\ pos' = at
      BY <1>1, <1>2, <2>3 DEF NextEnds
    <3> QED
      BY <1>2, <3>1
  <2>4. CASE AllCopied
    <3>1. len = 0
      BY <2>4 DEF AllCopied
    <3> QED
      BY <2>2, <3>1
  <2> QED
    BY <1>2, <2>1, <2>2, <2>3, <2>4
<1>8. \/ ret' = Len(out)
      \/ /\ ret' = -EIO /\ Len(out) = 0
         /\ \/ failed'
            \/ n = 0 /\ Chain[ClusterOf(pos) + 1] \in {EOF, FREE}
  <2>1. CASE Len(out) > 0
    BY <1>3, <2>1
  <2>2. CASE Len(out) = 0
    <3>1. n = 0
      BY <1>2, <2>2
    <3>2. CASE NextError
      <4>1. failed'
        BY <3>2 DEF NextError
      <4> QED
        BY <1>4, <4>1
    <3>3. CASE NextEnds
      BY <1>2, <1>4, <2>2, <3>1, <3>3 DEF NextEnds
    <3>4. CASE AllCopied
      <4>1. ret' = IF Len(out) > 0 THEN Len(out) ELSE -err
        BY <3>4 DEF AllCopied, Finish
      <4>2. PICK z \in {0, EIO} : z = err /\ z = 0
        BY <1>2
      <4>3. ret' = IF Len(out) > 0 THEN Len(out) ELSE -z
        BY <4>1, <4>2
      <4>4. ret' = Len(out) \/ (ret' = -EIO /\ Len(out) = 0 /\ z = EIO)
        BY <1>1, <1>2, <4>3, FinishFacts DEF ReadInv
      <4> QED
        BY <4>2, <4>4 DEF EIO
    <3> QED
      BY <3>2, <3>3, <3>4
  <2> QED
    BY <1>2, <2>1, <2>2
<1>9. /\ pos' = pos + Len(out') /\ BytesOf(out', pos) /\ Len(out') <= n /\ out' \in Buffers
      /\ Len(out') = Len(out)
  BY <1>1, <1>2
<1>10. (Beginning /\ Going /\ Looking /\ InBlock /\ Between /\ Ended)'
  BY <1>1, <1>7, <1>8, <1>9, EndNext
<1> QED
  BY <1>6, <1>10 DEF ReadInv

LEMMA NextClusterStep ==
  ASSUME ReadInv, NextCluster
  PROVE  ReadInv'
<1>1. /\ pc = "next" /\ fat[ncls] \in Clusters /\ len > 0 /\ EnterCluster(fat[ncls], 0, len) /\ UNCHANGED file
      /\ UNCHANGED <<waiting, i_mutex, fat, i_start, i_size, pos, n, nth_cls, out, err, ret, failed, touched>>
  BY DEF NextCluster, file, mutex, request, answer
<1>2. /\ pos \in Nat /\ pos < i_size /\ i_size \in Nat /\ n \in Nat /\ len \in Nat /\ at \in Nat
      /\ BytesOf(out, pos) /\ err = 0 /\ ~failed /\ Len(out) + len = Wanted(pos, n)
      /\ at % clssz = 0 /\ Chain[ClusterOf(at)] = fat[ncls]
  BY <1>1, NextFacts
<1>3. /\ ncls' = fat[ncls] /\ len' = len /\ pc' = "block" /\ nblk' = BlockAt(at) /\ nblk' \in Blocks
      /\ ofs' = ByteOf(at) /\ ofs' \in 0..(blksz - 1)
      /\ left' = Least(len, clssz - (at % clssz)) /\ left' \in 0..clssz
  <2>1. PICK y \in Nat, c \in Clusters : y = at /\ c = fat[ncls]
    BY <1>1, <1>2
  <2>2. EnterCluster(c, y % clssz, len)
    BY <1>1, <1>2, <2>1
  <2> QED
    BY <1>2, <2>1, <2>2, EnterFacts DEF ReadInv
<1>4. TypeOK'
  BY <1>1, <1>3 DEF ReadInv, TypeOK
<1>5. Going'
  <2>1. Len(out') + len' = Wanted(pos, n) /\ BytesOf(out', pos)
    BY <1>1, <1>2, <1>3
  <2> QED
    BY <1>1, <1>2, <2>1, GoingNext
<1>6. InBlock'
  <2>1. PICK y \in Nat : y = at
    BY <1>2
  <2>2. at' = y
    BY <1>1, <2>1 DEF at
  <2>3. len' = 0 => n' = 0
    BY <1>1, <1>3
  <2>4. ncls' = Chain[ClusterOf(y)] /\ nblk' = BlockAt(y) /\ ofs' = ByteOf(y)
        /\ left' = Least(len', clssz - (y % clssz))
    BY <1>1, <1>2, <1>3, <2>1
  <2> QED
    BY <1>1, <2>2, <2>3, <2>4, BlockNext
<1> QED
  BY <1>3, <1>4, <1>5, <1>6 DEF ReadInv, Beginning, Looking, Between, Ended

LEMMA UnlockStep ==
  ASSUME ReadInv, Unlock
  PROVE  ReadInv'
<1>1. /\ i_mutex' = NoProc /\ pc' = "idle" /\ pos' = 0 /\ n' = 0 /\ ncls' = i_start /\ nth_cls' = 0
      /\ len' = 0 /\ left' = 0 /\ nblk' = data_start /\ ofs' = 0
      /\ out' = <<>> /\ err' = 0 /\ ret' = 0 /\ failed' = FALSE
      /\ UNCHANGED <<fat, i_start, i_size, waiting, touched>>
  BY DEF Unlock, Goto, file
<1>2. 0 \in 0..MaxSize /\ 0 \in 0..clssz /\ 0 \in 0..(MaxSize \div clssz) /\ 0 \in 0..(blksz - 1)
      /\ 0 \in -EIO..MaxSize
  BY Volume DEF EIO
<1>3. data_start \in Blocks
  <2>1. 2 \in Clusters /\ 0 \in 0..(sec_per_clus - 1)
    BY Volume DEF Clusters
  <2>2. data_start + (2 - 2) * sec_per_clus + 0 \in Blocks
    BY <2>1, BlockInVolume
  <2>3. data_start + (2 - 2) * sec_per_clus + 0 = data_start
    BY Volume
  <2> QED
    BY <2>2, <2>3
<1>4. out' \in Seq(Blocks \X (0..(blksz - 1))) /\ Len(out') <= MaxSize
  BY <1>1, Volume
<1>5. TypeOK'
  BY <1>1, <1>2, <1>3, <1>4 DEF ReadInv, TypeOK
<1> QED
  BY <1>1, <1>5 DEF ReadInv, Beginning, Going, Looking, InBlock, Between, Ended

LEMMA ReadNext == ReadInv /\ [Next]_vars => ReadInv'
<1> SUFFICES ASSUME ReadInv, [Next]_vars PROVE ReadInv'
  OBVIOUS
<1>1. CASE Walk \/ WalkEnds \/ Found
  BY <1>1, WalkStep, WalkEndsStep, FoundStep
<1>2. CASE CopyBlock \/ BlockError \/ UserError
  BY <1>2, CopyBlockStep, BlockErrorStep, UserErrorStep
<1>3. CASE NextError \/ NextEnds \/ NextCluster \/ AllCopied \/ Unlock
  BY <1>3, NextErrorStep, NextClusterStep, UnlockStep
<1>4. ASSUME NEW p \in Procs, Call(p) \/ Lock(p) PROVE ReadInv'
  BY <1>4, CallStep, LockStep
<1>5. CASE UNCHANGED vars
  BY <1>5, Stutter
<1> QED
  BY <1>1, <1>2, <1>3, <1>4, <1>5 DEF Next, Read

LEMMA AlwaysReadInv == Spec => []ReadInv
<1>1. Init => ReadInv
  BY ReadInit
<1>2. ReadInv /\ [Next]_vars => ReadInv'
  BY ReadNext
<1> QED
  BY <1>1, <1>2, PTL DEF Spec

-----------------------------------------------------------------------------
(* What follows from the invariant.                                           *)

(* The user gets the bytes of the file from *ppos on, in order, for every      *)
(* table, every size of blocks, clusters, files and requests, and wherever a   *)
(* failure ends the read (fat_sync_read).                                      *)
THEOREM ReadsRight == Spec => []RightBytes
<1>1. ReadInv => RightBytes
  <2> SUFFICES ASSUME ReadInv PROVE RightBytes
    OBVIOUS
  <2>1. CASE pc \in {"look", "block", "next"}
    BY <2>1 DEF ReadInv, Going, BytesOf, RightBytes, from
  <2>2. CASE pc = "unlock"
    BY <2>2 DEF ReadInv, Ended, BytesOf, RightBytes
  <2> QED
    BY <2>1, <2>2 DEF ReadInv, TypeOK, RightBytes
<1> QED
  BY <1>1, AlwaysReadInv, PTL

(* A read that nothing disturbs ends where the request, the size or the chain  *)
(* does.                                                                      *)
LEMMA InvGivesWhole == ReadInv => Whole
<1> SUFFICES ASSUME ReadInv, pc = "unlock", ~failed
             PROVE Len(out) = Cardinality({i \in 0..(MaxSize - 1) : from <= i /\ i < from + n /\ Holds(i)})
  BY DEF Whole
<1> DEFINE m == Len(out)
           f == from
           W == {i \in 0..(MaxSize - 1) : f <= i /\ i < f + n /\ Holds(i)}
<1>1. /\ f \in Nat /\ m <= n /\ BytesOf(out, f)
      /\ pos = f + n \/ pos >= i_size \/ Chain[ClusterOf(pos)] \notin Clusters
  BY DEF ReadInv, Ended
<1>2. /\ m \in Nat /\ n \in Nat /\ pos \in Nat /\ pos <= MaxSize /\ i_size \in Nat /\ i_size <= MaxSize
      /\ MaxSize \in Nat
  BY Facts, Volume DEF ReadInv
<1>3. pos = f + m
  <2>1. f = pos - m
    BY DEF from
  <2> HIDE DEF f, m
  <2> QED
    BY <1>1, <1>2, <2>1
<1>4. ASSUME NEW i \in f..(f + m - 1) PROVE i \in W
  <2>1. i - f + 1 \in 1..m /\ f + (i - f + 1) - 1 = i /\ i \in Nat /\ f <= i /\ i < f + n
    <3> HIDE DEF f, m
    <3> QED
      BY <1>1, <1>2, <1>4
  <2>2. Holds(i)
    <3> DEFINE j == i - f + 1
    <3>1. j \in 1..Len(out) /\ f + j - 1 = i
      BY <2>1
    <3> HIDE DEF j, f
    <3>2. Holds(f + j - 1)
      BY <1>1, <3>1 DEF BytesOf
    <3> QED
      BY <3>1, <3>2
  <2>3. i < i_size
    BY <2>2 DEF Holds
  <2> QED
    BY <1>2, <2>1, <2>2, <2>3
<1>5. ASSUME NEW i \in W PROVE i \in f..(f + m - 1)
  <2>1. i \in Nat /\ f <= i /\ i < f + n /\ Holds(i) /\ i < i_size /\ i < MaxSize
    BY <1>2, <1>5 DEF Holds
  <2>2. i < pos
    <3> SUFFICES ASSUME pos <= i PROVE FALSE
      BY <1>2, <2>1
    <3>1. pos # f + n /\ ~(pos >= i_size)
      <4> HIDE DEF f
      <4> QED
        BY <1>1, <1>2, <2>1
    <3>2. Chain[ClusterOf(pos)] \notin Clusters
      BY <1>1, <3>1
    <3>3. ClusterOf(pos) \in 0..(Top - 1) /\ ClusterOf(i) \in 0..(Top - 1) /\ Top \in Nat
      <4>1. pos \in 0..MaxSize /\ i \in 0..MaxSize
        BY <1>2, <2>1
      <4> QED
        BY <4>1, InChain, ChainDef
    <3>4. ClusterOf(pos) <= ClusterOf(i)
      BY <1>2, <2>1, Volume, DivMonotone DEF ClusterOf
    <3>5. ClusterOf(pos) \in 0..Top /\ ClusterOf(i) \in 0..Top
      BY <3>3
    <3>6. Chain[ClusterOf(i)] \notin Clusters
      BY <3>2, <3>4, <3>5, ChainOut
    <3> QED
      BY <2>1, <3>6, AddressIs
  <2> HIDE DEF f, m
  <2> QED
    BY <1>1, <1>2, <1>3, <2>1, <2>2
<1>6. W = f..(f + m - 1)
  <2> HIDE DEF W
  <2> QED
    BY <1>4, <1>5
<1>7. Cardinality(f..(f + m - 1)) = m
  <2> HIDE DEF f, m
  <2>1. f \in Int /\ f + m - 1 \in Int
    BY <1>1, <1>2
  <2>2. Cardinality(f..(f + m - 1)) = IF f > f + m - 1 THEN 0 ELSE (f + m - 1) - f + 1
    <3> DEFINE g == f + m - 1
    <3>1. g \in Int
      BY <2>1
    <3> HIDE DEF g
    <3>2. Cardinality(f..g) = IF f > g THEN 0 ELSE g - f + 1
      BY <2>1, <3>1, FS_Interval
    <3> QED
      BY <3>2 DEF g
  <2> QED
    BY <1>1, <1>2, <2>2
<1> QED
  BY <1>6, <1>7

(* A read answers with the number of bytes it copied, which is all that was    *)
(* asked for and that the file has unless something failed; it reports an      *)
(* error only for a reason; and its positions never leave the volume, the      *)
(* cluster or the block.                                                      *)
THEOREM ReadAnswers == Spec => []Answer
<1>1. ReadInv => TypeOK /\ HonestAnswer
  BY DEF ReadInv, Ended, HonestAnswer
<1>2. ReadInv => Answer
  BY <1>1, InvGivesWhole DEF Answer
<1> QED
  BY <1>2, AlwaysReadInv, PTL
=============================================================================
