----------------------- MODULE FatDirectories_proofs -----------------------
(* Proofs about the two halves of a directory: the chain of clusters that it    *)
(* is (FatTable) and the slots in them (FatDir).                                *)
(*                                                                              *)
(* The table: the directories' chains, the account of clusters and the backup.  *)
(* A chain is the recursive function At, so what is said of it goes by          *)
(* induction (Induct, from the least number of a set): a chain that ends has no *)
(* cluster twice and stays as it is while its entries do (ChainKept), and       *)
(* fat_chain_add makes one chain of two (Joined).  TableInv is inductive when   *)
(* the write of the link never fails ("link"): after that failure the last      *)
(* entry of a directory leads to a free cluster.                                *)
(*                                                                              *)
(* The slots: AliasInv is about the short slots alone, in the buffers and on    *)
(* the disk, with what the operation under way is adding or removing.  RunInv   *)
(* builds on it: every short slot ends the whole entry of a name, but for what  *)
(* is doomed or pending; no two entries touch; and an open directory has before *)
(* it what it owes and behind it what it has told.                              *)
EXTENDS FatTable, FatDir, FiniteSetTheorems, SequenceTheorems, WellFoundedInduction, TLAPS

-----------------------------------------------------------------------------
(* Induction.  A set of numbers that is not empty has a least one, and so a    *)
(* set with 0 and, below m, the successor of each, has all up to m.            *)

LEMMA LeastNumber ==
  ASSUME NEW T, T \subseteq Nat, T # {}
  PROVE  \E x \in T : \A y \in T : x <= y
<1> DEFINE R == OpToRel(<, Nat)
<1>1. IsWellFoundedOn(R, Nat)
  BY NatLessThanWellFounded
<1>2. \A x, y \in Nat : <<y, x>> \in R <=> y < x
  BY DEF OpToRel
<1> HIDE DEF R
<1>3. PICK x \in T : \A y \in T : ~(<<y, x>> \in R)
  BY <1>1, WFMin
<1>4. \A y \in T : ~(y < x)
  BY <1>2, <1>3
<1>5. \A y \in T : x <= y
  BY <1>4
<1> QED
  BY <1>5

LEMMA Induct ==
  ASSUME NEW m \in Nat, NEW S, 0 \in S, \A n \in Nat : n \in S /\ n < m => n + 1 \in S
  PROVE  \A n \in 0..m : n \in S
<1> DEFINE T == {n \in 0..m : n \notin S}
<1> SUFFICES ASSUME T # {} PROVE FALSE
  OBVIOUS
<1>0. T \subseteq Nat
  OBVIOUS
<1>1. PICK x \in T : \A y \in T : x <= y
  <2> HIDE DEF T
  <2> QED
    BY <1>0, LeastNumber
<1>2. x # 0 /\ x - 1 \in 0..m /\ x - 1 \notin T
  BY <1>1
<1>3. x - 1 \in S /\ x - 1 < m /\ (x - 1) + 1 = x
  BY <1>2
<1> QED
  BY <1>1, <1>3

-----------------------------------------------------------------------------
(* Chains.                                                                    *)

LEMMA Sizes == max_cluster \in Nat /\ max_cluster > 2 /\ EOF \notin Clusters /\ FREE \notin Clusters
               /\ EOF # FREE /\ Clusters \subseteq Nat
BY TableAssumption DEF Clusters, EOF, FREE

(* What follows d in a chain.                                                  *)
Follow(t, d) == IF d \in Clusters THEN t[d] ELSE d

(* The recursive definition of At has a solution.                              *)
LEMMA AtDef ==
  ASSUME NEW t, NEW c
  PROVE  /\ At(t, c)[0] = c
         /\ \A n \in 1..max_cluster : At(t, c)[n] = Follow(t, At(t, c)[n - 1])
<1> DEFINE D(f, n) == IF n = 0 THEN c ELSE LET d == f[n - 1] IN IF d \in Clusters THEN t[d] ELSE d
           S == {k \in Nat : \E f : f = [n \in 0..k |-> D(f, n)]}
<1>0. max_cluster \in Nat
  BY Sizes
<1>1. 0 \in S
  <2> DEFINE g == [n \in 0..0 |-> c]
  <2>1. g = [n \in 0..0 |-> D(g, n)]
    OBVIOUS
  <2> QED
    BY <2>1
<1>2. ASSUME NEW k \in Nat, k \in S PROVE k + 1 \in S
  <2>1. PICK f : f = [n \in 0..k |-> D(f, n)]
    BY <1>2
  <2> DEFINE g == [n \in 0..(k + 1) |-> D(f, n)]
  <2>2. \A n \in 0..k : g[n] = f[n]
    BY <2>1
  <2>3. \A n \in 0..(k + 1) : n # 0 => n - 1 \in 0..k
    OBVIOUS
  <2>4. \A n \in 0..(k + 1) : D(g, n) = D(f, n)
    BY <2>2, <2>3
  <2>5. g = [n \in 0..(k + 1) |-> D(g, n)]
    BY <2>4
  <2>6. \E h : h = [n \in 0..(k + 1) |-> D(h, n)]
    <3> HIDE DEF g, D
    <3> QED
      BY <2>5
  <2> QED
    BY <2>6
<1>3. max_cluster \in S
  <2> HIDE DEF S
  <2>1. \A n \in 0..max_cluster : n \in S
    BY <1>0, <1>1, <1>2, Induct
  <2> QED
    BY <1>0, <2>1
<1>4. PICK f : f = [n \in 0..max_cluster |-> D(f, n)]
  BY <1>3
<1> DEFINE a == CHOOSE at : at = [n \in 0..max_cluster |-> D(at, n)]
<1>5. a = [n \in 0..max_cluster |-> D(a, n)]
  BY <1>4
<1>6. a = At(t, c)
  BY DEF At
<1>7. \A n \in 0..max_cluster : a[n] = D(a, n)
  BY <1>5
<1> HIDE DEF a
<1>8. At(t, c)[0] = c
  BY <1>0, <1>6, <1>7
<1>9. ASSUME NEW n \in 1..max_cluster PROVE At(t, c)[n] = Follow(t, At(t, c)[n - 1])
  BY <1>0, <1>6, <1>7 DEF Follow
<1> QED
  BY <1>8, <1>9

(* Two tables that agree on what a chain goes through have the same chain.     *)
LEMMA AtSame ==
  ASSUME NEW t, NEW u, NEW c, NEW k \in 0..max_cluster,
         \A i \in 0..(k - 1) : At(t, c)[i] \in Clusters => u[At(t, c)[i]] = t[At(t, c)[i]]
  PROVE  \A i \in 0..k : At(u, c)[i] = At(t, c)[i]
<1> DEFINE S == {i \in Nat : i <= k => At(u, c)[i] = At(t, c)[i]}
<1>0. k \in Nat /\ k <= max_cluster /\ max_cluster \in Nat
  BY Sizes
<1>1. 0 \in S
  BY AtDef
<1>2. ASSUME NEW n \in Nat, n \in S, n < k PROVE n + 1 \in S
  <2>1. At(u, c)[n] = At(t, c)[n]
    BY <1>2
  <2>2. n + 1 \in 1..max_cluster /\ (n + 1) - 1 = n /\ n \in 0..(k - 1)
    BY <1>0, <1>2
  <2>3. At(u, c)[n + 1] = Follow(u, At(u, c)[n]) /\ At(t, c)[n + 1] = Follow(t, At(t, c)[n])
    BY <2>2, AtDef
  <2>4. Follow(u, At(t, c)[n]) = Follow(t, At(t, c)[n])
    BY <2>2 DEF Follow
  <2> QED
    BY <2>1, <2>3, <2>4
<1> HIDE DEF S
<1>3. \A i \in 0..k : i \in S
  BY <1>0, <1>1, <1>2, Induct
<1> QED
  BY <1>0, <1>3 DEF S

(* A chain goes on from where another one is.                                  *)
LEMMA AtShift ==
  ASSUME NEW t, NEW c, NEW d, NEW i \in 0..max_cluster, At(t, c)[i] = d
  PROVE  \A k \in 0..(max_cluster - i) : At(t, c)[i + k] = At(t, d)[k]
<1> DEFINE S == {k \in Nat : i + k <= max_cluster => At(t, c)[i + k] = At(t, d)[k]}
<1>0. i \in Nat /\ max_cluster \in Nat /\ i <= max_cluster /\ max_cluster - i \in Nat
  BY Sizes
<1>1. 0 \in S
  BY <1>0, AtDef
<1>2. ASSUME NEW n \in Nat, n \in S, n < max_cluster - i PROVE n + 1 \in S
  <2>1. At(t, c)[i + n] = At(t, d)[n]
    BY <1>0, <1>2
  <2>2. /\ i + (n + 1) \in 1..max_cluster /\ (i + (n + 1)) - 1 = i + n
        /\ n + 1 \in 1..max_cluster /\ (n + 1) - 1 = n
    BY <1>0, <1>2
  <2>3. At(t, c)[i + (n + 1)] = Follow(t, At(t, c)[i + n]) /\ At(t, d)[n + 1] = Follow(t, At(t, d)[n])
    BY <2>2, AtDef
  <2> QED
    BY <2>1, <2>3
<1> HIDE DEF S
<1>3. \A k \in 0..(max_cluster - i) : k \in S
  BY <1>0, <1>1, <1>2, Induct
<1> QED
  BY <1>0, <1>3 DEF S

(* A chain that has left the clusters stays where it is.                       *)
LEMMA AtStays ==
  ASSUME NEW t, NEW c, NEW i \in 0..max_cluster, At(t, c)[i] \notin Clusters
  PROVE  \A j \in i..max_cluster : At(t, c)[j] = At(t, c)[i]
<1> DEFINE d == At(t, c)[i]
           S == {k \in Nat : k <= max_cluster => At(t, d)[k] = d}
<1>0. i \in Nat /\ max_cluster \in Nat
  BY Sizes
<1>1. 0 \in S
  BY AtDef
<1>2. ASSUME NEW n \in Nat, n \in S, n < max_cluster PROVE n + 1 \in S
  <2>1. n + 1 \in 1..max_cluster /\ (n + 1) - 1 = n
    BY <1>0, <1>2
  <2>2. At(t, d)[n] = d
    BY <1>0, <1>2
  <2>3. At(t, d)[n + 1] = Follow(t, At(t, d)[n])
    <3> HIDE DEF d
    <3> QED
      BY <2>1, AtDef
  <2>4. At(t, d)[n + 1] = d
    BY <2>2, <2>3 DEF Follow
  <2> QED
    BY <2>4
<1> HIDE DEF S
<1>3. \A k \in 0..max_cluster : k \in S
  BY <1>0, <1>1, <1>2, Induct
<1> SUFFICES ASSUME NEW j \in i..max_cluster PROVE At(t, c)[j] = d
  OBVIOUS
<1>4. j - i \in 0..(max_cluster - i) /\ i + (j - i) = j /\ j - i \in 0..max_cluster
  BY <1>0
<1>5. At(t, c)[i + (j - i)] = At(t, d)[j - i]
  <2> HIDE DEF d
  <2>1. At(t, c)[i] = d
    BY DEF d
  <2> QED
    BY <1>4, <2>1, AtShift
<1> QED
  BY <1>0, <1>3, <1>4, <1>5 DEF S

(* A chain that ends.                                                          *)
LEMMA EndsPath ==
  ASSUME NEW t, NEW c, NEW n \in 1..max_cluster, Ends(t, c, n)
  PROVE  /\ \A i \in 0..(n - 1) : At(t, c)[i] \in Clusters
         /\ \A i \in n..max_cluster : At(t, c)[i] = EOF
         /\ c \in Clusters
         /\ \A i \in 0..(n - 1) : t[At(t, c)[i]] = At(t, c)[i + 1]
<1>0. max_cluster \in Nat /\ n \in Nat /\ n <= max_cluster /\ n >= 1 /\ EOF \notin Clusters
  BY Sizes
<1>1. ASSUME NEW i \in 0..(n - 1) PROVE At(t, c)[i] \in Clusters
  <2> SUFFICES ASSUME At(t, c)[i] \notin Clusters PROVE FALSE
    OBVIOUS
  <2>1. i \in 0..max_cluster /\ n - 1 \in i..max_cluster
    BY <1>0
  <2> QED
    BY <2>1, AtStays DEF Ends
<1>2. n \in 0..max_cluster
  BY <1>0
<1>3. \A i \in n..max_cluster : At(t, c)[i] = EOF
  BY <1>0, <1>2, AtStays DEF Ends
<1>4. c \in Clusters
  BY <1>0, <1>1, AtDef
<1>5. ASSUME NEW i \in 0..(n - 1) PROVE t[At(t, c)[i]] = At(t, c)[i + 1]
  <2>1. i + 1 \in 1..max_cluster /\ (i + 1) - 1 = i
    BY <1>0
  <2> QED
    BY <1>1, <2>1, AtDef DEF Follow
<1> QED
  BY <1>1, <1>3, <1>4, <1>5

(* It has one length.                                                          *)
LEMMA EndsUnique ==
  ASSUME NEW t, NEW c, NEW n \in 1..max_cluster, NEW m \in 1..max_cluster, Ends(t, c, n), Ends(t, c, m)
  PROVE  n = m
<1>0. max_cluster \in Nat /\ n \in Nat /\ m \in Nat /\ EOF \notin Clusters
  BY Sizes
<1>1. ASSUME NEW k \in 1..max_cluster, NEW l \in 1..max_cluster, Ends(t, c, k), Ends(t, c, l), k < l PROVE FALSE
  <2>1. k \in 0..(l - 1) /\ At(t, c)[k] = EOF
    BY <1>0, <1>1 DEF Ends
  <2> QED
    BY <1>0, <1>1, <2>1, EndsPath
<1> QED
  BY <1>0, <1>1

(* It has no cluster twice.                                                    *)
LEMMA EndsDistinct ==
  ASSUME NEW t, NEW c, NEW n \in 1..max_cluster, Ends(t, c, n)
  PROVE  \A i, j \in 0..(n - 1) : At(t, c)[i] = At(t, c)[j] => i = j
<1>0. max_cluster \in Nat /\ n \in Nat /\ n <= max_cluster /\ n >= 1 /\ EOF \notin Clusters
  BY Sizes
<1>1. ASSUME NEW i \in 0..(n - 1), NEW j \in 0..(n - 1), i < j, At(t, c)[i] = At(t, c)[j] PROVE FALSE
  <2> DEFINE d == At(t, c)[i]
             k == n - j
  <2>1. /\ i \in 0..max_cluster /\ j \in 0..max_cluster
        /\ k \in 0..(max_cluster - i) /\ k \in 0..(max_cluster - j)
        /\ j + k = n /\ i + k \in 0..(n - 1)
    BY <1>0, <1>1
  <2>2. At(t, c)[j + k] = At(t, d)[k]
    <3> HIDE DEF k, d
    <3>1. At(t, c)[j] = d
      BY <1>1 DEF d
    <3> QED
      BY <2>1, <3>1, AtShift
  <2>3. At(t, c)[i + k] = At(t, d)[k]
    <3> HIDE DEF k, d
    <3>1. At(t, c)[i] = d
      BY DEF d
    <3> QED
      BY <2>1, <3>1, AtShift
  <2>4. At(t, c)[n] = EOF /\ At(t, c)[i + k] \in Clusters
    BY <2>1, EndsPath DEF Ends
  <2> HIDE DEF k, d
  <2> QED
    BY <1>0, <2>1, <2>2, <2>3, <2>4
<1> QED
  BY <1>0, <1>1

(* The clusters of a chain, and those of one that ends.                        *)
MembersOf(t, c) == {At(t, c)[n] : n \in 0..max_cluster} \cap Clusters

LEMMA EndsMembers ==
  ASSUME NEW t, NEW c, NEW n \in 1..max_cluster, Ends(t, c, n)
  PROVE  MembersOf(t, c) = {At(t, c)[i] : i \in 0..(n - 1)}
<1>0. max_cluster \in Nat /\ n \in Nat /\ n <= max_cluster /\ n >= 1 /\ EOF \notin Clusters
  BY Sizes
<1>1. \A i \in 0..max_cluster : At(t, c)[i] \in Clusters <=> i \in 0..(n - 1)
  BY <1>0, EndsPath
<1>2. 0..(n - 1) \subseteq 0..max_cluster
  BY <1>0
<1> QED
  BY <1>1, <1>2 DEF MembersOf

(* A chain does not change with a table that changes elsewhere.                *)
LEMMA ChainKept ==
  ASSUME NEW t, NEW u, NEW c, NEW n \in 1..max_cluster, Ends(t, c, n),
         \A x \in MembersOf(t, c) : u[x] = t[x]
  PROVE  Ends(u, c, n) /\ MembersOf(u, c) = MembersOf(t, c)
<1>0. max_cluster \in Nat /\ n \in Nat /\ n <= max_cluster /\ n >= 1 /\ n \in 0..max_cluster
      /\ n - 1 \in 0..n
  BY Sizes
<1>1. \A i \in 0..(n - 1) : At(t, c)[i] \in Clusters => u[At(t, c)[i]] = t[At(t, c)[i]]
  BY EndsMembers
<1>2. \A i \in 0..n : At(u, c)[i] = At(t, c)[i]
  BY <1>0, <1>1, AtSame
<1>3. Ends(u, c, n)
  BY <1>0, <1>2 DEF Ends
<1>4. 0..(n - 1) \subseteq 0..n
  BY <1>0
<1> QED
  BY <1>2, <1>3, <1>4, EndsMembers

(* One or two clusters in a row are a chain.                                   *)
InRow(t, s) == /\ s \in Seq(Clusters) /\ Len(s) \in 1..2
               /\ \A i \in DOMAIN s : t[s[i]] = IF i = Len(s) THEN EOF ELSE s[i + 1]
               /\ Len(s) = 2 => s[1] # s[2]

LEMMA RowChain ==
  ASSUME NEW t, NEW s, InRow(t, s)
  PROVE  /\ s[1] \in Clusters /\ Range(s) \subseteq Clusters /\ Ends(t, s[1], Len(s))
         /\ \A i \in 0..(Len(s) - 1) : At(t, s[1])[i] = s[i + 1]
         /\ MembersOf(t, s[1]) = Range(s)
<1>0. /\ max_cluster \in Nat /\ max_cluster > 2 /\ DOMAIN s = 1..Len(s)
      /\ \A i \in DOMAIN s : s[i] \in Clusters
  BY Sizes DEF InRow
<1>1. At(t, s[1])[0] = s[1] /\ At(t, s[1])[1] = Follow(t, s[1]) /\ At(t, s[1])[2] = Follow(t, At(t, s[1])[1])
  BY <1>0, AtDef
<1>2. s[1] \in Clusters /\ Range(s) \subseteq Clusters
  BY <1>0 DEF Range, InRow
<1>3. ASSUME Len(s) = 1
      PROVE  Ends(t, s[1], Len(s)) /\ \A i \in 0..(Len(s) - 1) : At(t, s[1])[i] = s[i + 1]
  <2>1. t[s[1]] = EOF
    BY <1>0, <1>3 DEF InRow
  <2>2. Ends(t, s[1], Len(s))
    BY <1>0, <1>1, <1>2, <1>3, <2>1 DEF Ends, Follow
  <2>3. \A i \in 0..(Len(s) - 1) : At(t, s[1])[i] = s[i + 1]
    BY <1>1, <1>3
  <2> QED
    BY <2>2, <2>3
<1>4. ASSUME Len(s) = 2
      PROVE  Ends(t, s[1], Len(s)) /\ \A i \in 0..(Len(s) - 1) : At(t, s[1])[i] = s[i + 1]
  <2>1. t[s[1]] = s[2] /\ t[s[2]] = EOF /\ s[2] \in Clusters
    BY <1>0, <1>4 DEF InRow
  <2>2. At(t, s[1])[1] = s[2] /\ At(t, s[1])[2] = EOF
    BY <1>1, <1>2, <2>1 DEF Follow
  <2>3. Ends(t, s[1], Len(s))
    BY <1>4, <2>1, <2>2 DEF Ends
  <2>4. \A i \in 0..(Len(s) - 1) : At(t, s[1])[i] = s[i + 1]
    BY <1>1, <1>4, <2>2
  <2> QED
    BY <2>3, <2>4
<1>5. /\ Ends(t, s[1], Len(s)) /\ \A i \in 0..(Len(s) - 1) : At(t, s[1])[i] = s[i + 1]
      /\ Len(s) \in 1..max_cluster
  BY <1>0, <1>3, <1>4 DEF InRow
<1>6. MembersOf(t, s[1]) = Range(s)
  <2>1. MembersOf(t, s[1]) = {At(t, s[1])[i] : i \in 0..(Len(s) - 1)}
    BY <1>5, EndsMembers
  <2>2. \A x : x \in Range(s) <=> \E i \in 1..Len(s) : x = s[i]
    BY <1>0 DEF Range
  <2>3. Len(s) \in Nat /\ \A i \in 1..Len(s) : i - 1 \in 0..(Len(s) - 1) /\ (i - 1) + 1 = i
    BY DEF InRow
  <2>4. \A i \in 0..(Len(s) - 1) : i + 1 \in 1..Len(s)
    BY <2>3
  <2>5. ASSUME NEW i \in 0..(Len(s) - 1) PROVE At(t, s[1])[i] \in Range(s)
    BY <1>5, <2>2, <2>4
  <2>6. ASSUME NEW i \in 1..Len(s) PROVE s[i] \in MembersOf(t, s[1])
    <3>1. At(t, s[1])[i - 1] = s[i]
      BY <1>5, <2>3
    <3> QED
      BY <2>1, <2>3, <3>1
  <2>7. MembersOf(t, s[1]) \subseteq Range(s)
    BY <2>1, <2>5
  <2>8. Range(s) \subseteq MembersOf(t, s[1])
    BY <2>2, <2>6
  <2> QED
    BY <2>7, <2>8
<1> QED
  BY <1>2, <1>5, <1>6

(* fat_chain_add: the row follows the last cluster of the chain.               *)
LEMMA Joined ==
  ASSUME NEW t, NEW u, NEW c, NEW n \in 1..max_cluster,
         Ends(t, c, n), NEW s, InRow(t, s), Range(s) \cap MembersOf(t, c) = {},
         u[At(t, c)[n - 1]] = s[1],
         \A x \in Clusters : x # At(t, c)[n - 1] => u[x] = t[x],
         NEW m \in 1..max_cluster, m = n + Len(s)
  PROVE  Ends(u, c, m) /\ MembersOf(u, c) = MembersOf(t, c) \cup Range(s)
<1> DEFINE l == At(t, c)[n - 1]
<1>0. /\ max_cluster \in Nat /\ n \in Nat /\ n >= 1 /\ n - 1 \in 0..max_cluster /\ n \in 0..max_cluster
      /\ n <= max_cluster /\ Len(s) \in Nat /\ Len(s) >= 1
      /\ n - 1 \in 0..(n - 1) /\ n \in 1..max_cluster /\ m = n + Len(s) /\ m <= max_cluster
  BY Sizes DEF InRow
<1>1. l \in Clusters /\ l \in MembersOf(t, c) /\ u[l] = s[1] /\ \A x \in Clusters : x # l => u[x] = t[x]
  BY <1>0, EndsPath, EndsMembers
<1>2. \A i \in 0..(n - 1) : At(u, c)[i] = At(t, c)[i]
  <2>1. ASSUME NEW i \in 0..((n - 1) - 1), At(t, c)[i] \in Clusters PROVE u[At(t, c)[i]] = t[At(t, c)[i]]
    <3>1. i \in 0..(n - 1) /\ i # n - 1
      BY <1>0
    <3>2. At(t, c)[i] # l
      BY <1>0, <3>1, EndsDistinct
    <3> QED
      BY <1>1, <2>1, <3>2
  <2> HIDE DEF l
  <2>2. \A i \in 0..((n - 1) - 1) : At(t, c)[i] \in Clusters => u[At(t, c)[i]] = t[At(t, c)[i]]
    BY <2>1
  <2> DEFINE k == n - 1
  <2>3. k \in 0..max_cluster
    BY <1>0
  <2>4. \A i \in 0..(k - 1) : At(t, c)[i] \in Clusters => u[At(t, c)[i]] = t[At(t, c)[i]]
    BY <2>2
  <2>5. \A i \in 0..k : At(u, c)[i] = At(t, c)[i]
    <3> HIDE DEF k
    <3> QED
      BY <2>3, <2>4, AtSame
  <2> QED
    BY <2>5
<1>3. At(u, c)[n] = s[1]
  <2>1. At(u, c)[n] = Follow(u, At(u, c)[n - 1])
    BY <1>0, AtDef
  <2>2. At(u, c)[n - 1] = l
    BY <1>0, <1>2
  <2> QED
    BY <1>1, <2>1, <2>2 DEF Follow
<1>4. InRow(u, s)
  <2>1. \A i \in DOMAIN s : s[i] \in Clusters /\ s[i] # l
    BY <1>1 DEF Range, InRow
  <2> HIDE DEF l
  <2>2. \A i \in DOMAIN s : u[s[i]] = t[s[i]]
    BY <1>1, <2>1
  <2> QED
    BY <2>2 DEF InRow
<1>5. Ends(u, s[1], Len(s)) /\ MembersOf(u, s[1]) = Range(s) /\ Len(s) \in 1..max_cluster
  BY <1>0, <1>4, RowChain DEF InRow
<1>6. \A k \in 0..(max_cluster - n) : At(u, c)[n + k] = At(u, s[1])[k]
  BY <1>0, <1>3, AtShift
<1>7. Ends(u, c, m)
  <2>0. m <= max_cluster
    OBVIOUS
  <2>1. Len(s) \in 0..(max_cluster - n) /\ Len(s) - 1 \in 0..(max_cluster - n)
        /\ m - 1 = n + (Len(s) - 1)
    BY <1>0, <2>0
  <2> QED
    BY <1>5, <1>6, <2>1 DEF Ends
<1>9. MembersOf(u, c) = {At(u, c)[i] : i \in 0..(m - 1)}
  BY <1>7, EndsMembers
<1>10. MembersOf(t, c) = {At(t, c)[i] : i \in 0..(n - 1)}
  BY EndsMembers
<1>11. Range(s) = {At(u, s[1])[i] : i \in 0..(Len(s) - 1)}
  BY <1>5, EndsMembers
<1>12. ASSUME NEW x PROVE x \in MembersOf(u, c) <=> x \in MembersOf(t, c) \/ x \in Range(s)
  <2>1. ASSUME NEW i \in 0..(m - 1) PROVE At(u, c)[i] \in MembersOf(t, c) \/ At(u, c)[i] \in Range(s)
    <3>1. CASE i <= n - 1
      <4>1. i \in 0..(n - 1)
        BY <1>0, <3>1
      <4> QED
        BY <1>2, <1>10, <4>1
    <3>2. CASE ~(i <= n - 1)
      <4>1. i - n \in 0..(Len(s) - 1) /\ i - n \in 0..(max_cluster - n) /\ n + (i - n) = i
        BY <1>0, <3>2
      <4>2. At(u, c)[n + (i - n)] = At(u, s[1])[i - n]
        BY <1>6, <4>1
      <4> QED
        BY <1>11, <4>1, <4>2
    <3> QED
      BY <3>1, <3>2
  <2>2. ASSUME NEW i \in 0..(n - 1) PROVE At(t, c)[i] \in MembersOf(u, c)
    <3>1. i \in 0..(m - 1)
      BY <1>0
    <3> QED
      BY <1>2, <1>9, <3>1
  <2>3. ASSUME NEW i \in 0..(Len(s) - 1) PROVE At(u, s[1])[i] \in MembersOf(u, c)
    <3>1. n + i \in 0..(m - 1) /\ i \in 0..(max_cluster - n)
      BY <1>0
    <3>2. At(u, c)[n + i] = At(u, s[1])[i]
      BY <1>6, <3>1
    <3> QED
      BY <1>9, <3>1, <3>2
  <2>4. x \in MembersOf(u, c) => x \in MembersOf(t, c) \/ x \in Range(s)
    BY <1>9, <2>1
  <2>5. x \in MembersOf(t, c) => x \in MembersOf(u, c)
    BY <1>10, <2>2
  <2>6. x \in Range(s) => x \in MembersOf(u, c)
    BY <1>11, <2>3
  <2> QED
    BY <2>4, <2>5, <2>6
<1> QED
  BY <1>7, <1>12

(* A chain and a row beside it fit into the table.                             *)
LEMMA ClustersFinite == IsFiniteSet(Clusters) /\ Cardinality(Clusters) = max_cluster - 2
<1>1. 2 \in Int /\ max_cluster - 1 \in Int /\ ~(2 > max_cluster - 1) /\ (max_cluster - 1) - 2 + 1 = max_cluster - 2
  BY Sizes
<1> QED
  BY <1>1, FS_Interval DEF Clusters

LEMMA ChainSize ==
  ASSUME NEW t, NEW c, NEW n \in 1..max_cluster, Ends(t, c, n)
  PROVE  IsFiniteSet(MembersOf(t, c)) /\ Cardinality(MembersOf(t, c)) = n /\ MembersOf(t, c) \subseteq Clusters
<1> DEFINE f == [i \in 1..n |-> At(t, c)[i - 1]]
<1>0. n \in Nat /\ max_cluster \in Nat /\ n <= max_cluster /\ \A i \in 1..n : i - 1 \in 0..(n - 1)
  BY Sizes
<1>1. MembersOf(t, c) = {At(t, c)[i] : i \in 0..(n - 1)}
  BY EndsMembers
<1>2. f \in [1..n -> MembersOf(t, c)]
  BY <1>0, <1>1
<1>3. \A x \in MembersOf(t, c) : \E i \in 1..n : f[i] = x
  <2> SUFFICES ASSUME NEW i \in 0..(n - 1) PROVE \E j \in 1..n : f[j] = At(t, c)[i]
    BY <1>1
  <2>1. i + 1 \in 1..n /\ (i + 1) - 1 = i
    BY <1>0
  <2> QED
    BY <2>1
<1>4. \A i, j \in 1..n : f[i] = f[j] => i = j
  <2> SUFFICES ASSUME NEW i \in 1..n, NEW j \in 1..n, f[i] = f[j] PROVE i = j
    OBVIOUS
  <2>1. i - 1 = j - 1
    BY <1>0, EndsDistinct
  <2> QED
    BY <1>0, <2>1
<1>5. f \in Bijection(1..n, MembersOf(t, c))
  <2> DEFINE M == MembersOf(t, c)
  <2> HIDE DEF f, M
  <2>1. f \in [1..n -> M] /\ \A x \in M : \E i \in 1..n : f[i] = x
    BY <1>2, <1>3 DEF M
  <2>2. f \in Surjection(1..n, M)
    BY <2>1 DEF Surjection
  <2>3. f \in Injection(1..n, M)
    <3>1. DOMAIN f = 1..n
      BY <2>1
    <3>2. IsInjective(f)
      BY <1>4, <3>1 DEF IsInjective
    <3> QED
      BY <2>1, <3>2 DEF Injection
  <2>4. f \in Bijection(1..n, M)
    BY <2>2, <2>3 DEF Bijection
  <2> QED
    BY <2>4 DEF M
<1>6. ExistsBijection(1..n, MembersOf(t, c))
  BY <1>5 DEF ExistsBijection
<1>7. IsFiniteSet(1..n) /\ Cardinality(1..n) = n
  <2>1. 1 \in Int /\ n \in Int /\ ~(1 > n) /\ n - 1 + 1 = n
    BY <1>0
  <2> QED
    BY <2>1, FS_Interval
<1> QED
  BY <1>6, <1>7, FS_Bijection DEF MembersOf

LEMMA RowSize ==
  ASSUME NEW t, NEW s, InRow(t, s)
  PROVE  IsFiniteSet(Range(s)) /\ Cardinality(Range(s)) = Len(s)
<1>1. MembersOf(t, s[1]) = Range(s) /\ Ends(t, s[1], Len(s)) /\ Len(s) \in 1..max_cluster
  BY RowChain, Sizes DEF InRow
<1> QED
  BY <1>1, ChainSize

LEMMA ChainAndRow ==
  ASSUME NEW t, NEW c, NEW n \in 1..max_cluster, Ends(t, c, n), NEW s, InRow(t, s),
         Range(s) \cap MembersOf(t, c) = {}
  PROVE  n + Len(s) <= max_cluster - 2
<1> DEFINE M == MembersOf(t, c)
           U == M \cup Range(s)
<1>1. IsFiniteSet(M) /\ Cardinality(M) = n /\ M \subseteq Clusters
  BY ChainSize
<1>2. IsFiniteSet(Range(s)) /\ Cardinality(Range(s)) = Len(s) /\ Range(s) \subseteq Clusters
  BY RowSize, RowChain
<1>3. Cardinality(M \cap Range(s)) = 0
  <2>1. M \cap Range(s) = {}
    OBVIOUS
  <2> QED
    BY <2>1, FS_EmptySet
<1> HIDE DEF M
<1>4. Cardinality(U) = n + Len(s) - 0
  BY <1>1, <1>2, <1>3, FS_Union
<1>5. Cardinality(U) <= max_cluster - 2
  <2>1. U \in SUBSET Clusters
    BY <1>1, <1>2
  <2> QED
    BY <2>1, ClustersFinite, FS_Subset
<1>6. n \in Nat /\ Len(s) \in Nat
  BY DEF InRow
<1> QED
  BY <1>4, <1>5, <1>6

-----------------------------------------------------------------------------
(* Allocation.                                                                *)

LEMMA ModSmall ==
  ASSUME NEW N \in Nat, N > 0, NEW a \in (-N)..(N - 1)
  PROVE  a % N = IF a >= 0 THEN a ELSE a + N
<1>1. CASE a >= 0
  <2> QED
    BY <1>1
<1>2. CASE a < 0
  <2> QED
    BY <1>2
<1> QED
  BY <1>1, <1>2

LEMMA RankDistinct ==
  ASSUME prev_free \in Clusters
  PROVE  /\ \A c \in Clusters : Rank(c) \in Nat
         /\ \A c, d \in Clusters : Rank(c) = Rank(d) => c = d
<1> DEFINE N == max_cluster - 2
           p == prev_free + 1
<1>0. N \in Nat /\ N > 0 /\ p \in 3..(N + 2) /\ \A c \in Clusters : c \in 2..(N + 1)
  BY Sizes DEF Clusters
<1>1. \A c \in Clusters : c - p \in (-N)..(N - 1)
  <2> HIDE DEF N, p
  <2> QED
    BY <1>0
<1>2. \A c \in Clusters : Rank(c) = IF c - p >= 0 THEN c - p ELSE c - p + N
  <2> SUFFICES ASSUME NEW c \in Clusters PROVE (c - p) % N = IF c - p >= 0 THEN c - p ELSE c - p + N
    BY DEF Rank
  <2> DEFINE a == c - p
  <2>1. a \in (-N)..(N - 1)
    BY <1>1
  <2> HIDE DEF a, N
  <2>2. a % N = IF a >= 0 THEN a ELSE a + N
    BY <1>0, <2>1, ModSmall
  <2> QED
    BY <2>2 DEF a
<1> HIDE DEF N, p
<1> QED
  BY <1>0, <1>2

(* The search finds one free cluster, and then another.                        *)
LEMMA FoundFirst ==
  ASSUME prev_free \in Clusters, NEW T, T \subseteq Clusters, T # {}
  PROVE  \E c \in T : \A d \in T \ {c} : Rank(c) < Rank(d)
<1> DEFINE R == {Rank(c) : c \in T}
<1>1. R \subseteq Nat /\ R # {}
  BY RankDistinct
<1>2. PICK r \in R : \A q \in R : r <= q
  <2> HIDE DEF R
  <2> QED
    BY <1>1, LeastNumber
<1>3. PICK c \in T : r = Rank(c)
  BY <1>2
<1>4. ASSUME NEW d \in T \ {c} PROVE Rank(c) < Rank(d)
  <2>1. Rank(c) \in Nat /\ Rank(d) \in Nat /\ Rank(c) # Rank(d)
    BY RankDistinct
  <2>2. Rank(c) <= Rank(d)
    BY <1>2, <1>3
  <2> QED
    BY <2>1, <2>2
<1> QED
  BY <1>4

LEMMA FreeFinite == IsFiniteSet(Free) /\ Cardinality(Free) \in Nat /\ Free \subseteq Clusters
                    /\ Cardinality(Free) <= max_cluster - 2
<1>1. Free \in SUBSET Clusters
  BY DEF Free
<1> HIDE DEF Free
<1> QED
  BY <1>1, ClustersFinite, FS_Subset, FS_CardinalityType

LEMMA FoundTwo ==
  ASSUME prev_free \in Clusters
  PROVE  /\ Cardinality(Free) >= 1 => \E c \in Free : Before(c) = 0
         /\ Cardinality(Free) >= 2 => \E c \in Free : Before(c) = 1
<1>0. \A x, y \in Clusters : Rank(x) \in Nat /\ Rank(y) \in Nat /\ (Rank(x) < Rank(y) => ~(Rank(y) < Rank(x)))
      /\ ~(Rank(x) < Rank(x))
  BY RankDistinct
<1> SUFFICES ASSUME Cardinality(Free) >= 1
             PROVE  /\ \E c \in Free : Before(c) = 0
                    /\ Cardinality(Free) >= 2 => \E c \in Free : Before(c) = 1
  BY FreeFinite
<1>1. Free # {}
  BY FS_EmptySet
<1>2. PICK c \in Free : \A d \in Free \ {c} : Rank(c) < Rank(d)
  BY <1>1, FreeFinite, FoundFirst
<1>3. Before(c) = 0
  <2>1. {f \in Free : Rank(f) < Rank(c)} = {}
    BY <1>0, <1>2, FreeFinite
  <2> QED
    BY <2>1, FS_EmptySet DEF Before
<1>4. ASSUME Cardinality(Free) >= 2 PROVE \E d \in Free : Before(d) = 1
  <2>1. Free \ {c} # {}
    <3>1. SUFFICES ASSUME Free = {c} PROVE FALSE
      BY <1>2
    <3> QED
      BY <1>4, <3>1, FS_Singleton
  <2>2. PICK d \in Free \ {c} : \A e \in (Free \ {c}) \ {d} : Rank(d) < Rank(e)
    <3> DEFINE T == Free \ {c}
    <3>1. T # {} /\ T \subseteq Clusters
      BY <2>1, FreeFinite
    <3> HIDE DEF T
    <3>2. \E d \in T : \A e \in T \ {d} : Rank(d) < Rank(e)
      BY <3>1, FoundFirst
    <3> QED
      BY <3>2 DEF T
  <2>3. {f \in Free : Rank(f) < Rank(d)} = {c}
    BY <1>0, <1>2, <2>2, FreeFinite
  <2>4. Before(d) = 1
    BY <2>3, FS_Singleton DEF Before
  <2> QED
    BY <2>2, <2>4
<1> QED
  BY <1>2, <1>3, <1>4

LEMMA FoundFree ==
  ASSUME prev_free \in Clusters, NEW k \in 0..2, k <= Cardinality(Free)
  PROVE  /\ Found(k) \in Seq(Clusters) /\ Len(Found(k)) = k
         /\ \A i \in 1..k : Found(k)[i] \in Free
         /\ k = 2 => Found(k)[1] # Found(k)[2]
<1> DEFINE s == Found(k)
<1>0. k \in Nat /\ Cardinality(Free) \in Nat
  BY FreeFinite
<1>1. ASSUME NEW i \in 1..k PROVE s[i] \in Free /\ Before(s[i]) = i - 1
  <2>1. \E c \in Free : Before(c) = i - 1
    <3>1. CASE i = 1
      BY <1>0, <3>1, FoundTwo
    <3>2. CASE i = 2
      BY <1>0, <3>2, FoundTwo
    <3> QED
      BY <1>0, <3>1, <3>2
  <2>2. s[i] = CHOOSE c \in Free : Before(c) = i - 1
    BY DEF Found
  <2> QED
    BY <2>1, <2>2
<1>2. s = [i \in 1..k |-> s[i]]
  BY DEF Found
<1>3. \A i \in 1..k : s[i] \in Clusters
  BY <1>1, FreeFinite
<1>4. s \in Seq(Clusters) /\ Len(s) = k
  <2> HIDE DEF s
  <2>1. s \in [1..k -> Clusters]
    BY <1>2, <1>3
  <2> QED
    BY <1>0, <2>1
<1>5. k = 2 => s[1] # s[2]
  <2> SUFFICES ASSUME k = 2 PROVE s[1] # s[2]
    OBVIOUS
  <2>1. 1 \in 1..k /\ 2 \in 1..k
    OBVIOUS
  <2>2. Before(s[1]) = 1 - 1 /\ Before(s[2]) = 2 - 1
    <3> HIDE DEF s
    <3> QED
      BY <1>1, <2>1
  <2> QED
    BY <2>2
<1> QED
  BY <1>1, <1>4, <1>5

(* The clusters taken are in a row; the other entries are as they were.        *)
LEMMA ChainedRow ==
  ASSUME NEW s \in Seq(Clusters), Len(s) \in 0..2, Len(s) = 2 => s[1] # s[2],
         fat \in [Clusters -> Clusters \cup {FREE, EOF}]
  PROVE  /\ Chained(s) \in [Clusters -> Clusters \cup {FREE, EOF}]
         /\ Len(s) # 0 => InRow(Chained(s), s)
         /\ \A c \in Clusters \ Range(s) : Chained(s)[c] = fat[c]
         /\ \A c \in Range(s) : Chained(s)[c] # FREE
<1> DEFINE n == Len(s)
<1>0. n \in 0..2 /\ DOMAIN s = 1..n /\ \A i \in 1..n : s[i] \in Clusters
  OBVIOUS
<1>1. \A i, j \in 1..n : s[i] = s[j] => i = j
  <2>1. n = 2 => s[1] # s[2]
    OBVIOUS
  <2>2. \A i \in 1..n : i = 1 \/ (i = 2 /\ n = 2)
    BY <1>0
  <2> HIDE DEF n
  <2> QED
    BY <2>1, <2>2
<1> HIDE DEF n
<1>2. \A i \in 1..n : i # n => i + 1 \in 1..n
  BY <1>0
<1>3. \A i \in 1..n : Chained(s)[s[i]] = IF i = n THEN EOF ELSE s[i + 1]
  <2> SUFFICES ASSUME NEW i \in 1..n PROVE Chained(s)[s[i]] = IF i = n THEN EOF ELSE s[i + 1]
    OBVIOUS
  <2>1. s[i] \in Clusters /\ \E j \in DOMAIN s : s[j] = s[i]
    BY <1>0
  <2>2. (CHOOSE j \in DOMAIN s : s[j] = s[i]) = i
    BY <1>0, <1>1
  <2> QED
    BY <2>1, <2>2 DEF Chained, n
<1>4. \A c \in Clusters \ Range(s) : Chained(s)[c] = fat[c]
  BY DEF Chained, Range
<1>5. \A c : c \in Range(s) <=> \E i \in 1..n : c = s[i]
  BY <1>0 DEF Range
<1>6. \A c \in Range(s) : Chained(s)[c] \in Clusters \cup {EOF}
  BY <1>0, <1>2, <1>3, <1>5
<1>7. Chained(s) \in [Clusters -> Clusters \cup {FREE, EOF}]
  <2>1. \A c \in Clusters : Chained(s)[c] \in Clusters \cup {FREE, EOF}
    BY <1>4, <1>6
  <2> DEFINE u == Chained(s)
  <2>2. u = [c \in Clusters |-> u[c]]
    BY DEF Chained
  <2> HIDE DEF u
  <2>3. u \in [Clusters -> Clusters \cup {FREE, EOF}]
    <3>1. \A c \in Clusters : u[c] \in Clusters \cup {FREE, EOF}
      BY <2>1 DEF u
    <3> QED
      BY <2>2, <3>1
  <2> QED
    BY <2>3 DEF u
<1>8. n # 0 => InRow(Chained(s), s)
  <2> SUFFICES ASSUME n # 0 PROVE InRow(Chained(s), s)
    OBVIOUS
  <2>1. \A i \in DOMAIN s : Chained(s)[s[i]] = IF i = Len(s) THEN EOF ELSE s[i + 1]
    BY <1>0, <1>3 DEF n
  <2>2. Len(s) \in 1..2 /\ (Len(s) = 2 => s[1] # s[2])
    BY <1>0 DEF n
  <2> DEFINE u == Chained(s)
  <2> HIDE DEF u
  <2>3. \A i \in DOMAIN s : u[s[i]] = IF i = Len(s) THEN EOF ELSE s[i + 1]
    BY <2>1 DEF u
  <2>4. InRow(u, s)
    BY <2>2, <2>3 DEF InRow
  <2> QED
    BY <2>4 DEF u
<1> QED
  BY <1>4, <1>6, <1>7, <1>8, Sizes DEF n

-----------------------------------------------------------------------------
(* The inductive invariant.                                                   *)

Flying == pc \in {"a_mirror", "fill", "link", "free"}

(* The length of a directory's chain.                                         *)
Length(d) == size[d] + IF pc = "l_mirror" /\ d = dir THEN Len(cluster) ELSE 0

(* The chains of the directories end where their sizes say, and no two meet.   *)
DirsChained ==
  /\ \A d \in Dirs : Length(d) \in 1..(max_cluster - 2) /\ Ends(fat, start[d], Length(d))
  /\ \A d \in Dirs : \A e \in Dirs \ {d} : Members(start[d]) \cap Members(start[e]) = {}

(* What is allocated and not yet added is one or two clusters in a row, which  *)
(* no directory has and no failure has lost.                                   *)
Pair ==
  Flying => /\ InRow(fat, cluster)
            /\ \A d \in Dirs : Members(start[d]) \cap Range(cluster) = {}
            /\ Range(cluster) \cap lost = {}
            /\ free_clusters # -1 => free_clusters + Len(cluster) <= max_cluster - 2

Copying ==
  /\ bhs # {} => pc \in Mirroring
  /\ pc = "l_mirror" => Len(cluster) \in 1..2

(* A block of the backup that differs is given up, still to be copied, or that *)
(* of a cluster that is about to be freed.                                     *)
Giving == IF pc = "free" THEN Blocks(Range(cluster)) ELSE {}
Copied == \A c \in Clusters : backup[c] # fat[c] => Block(c) \in stale \cup bhs \cup Giving

TableInv == TypeOK /\ DirsChained /\ Pair /\ Copying /\ NoLeak /\ CountRight /\ Copied

-----------------------------------------------------------------------------
(* What the steps share.                                                      *)

LEMMA Dirless == \A d \in Dirs : start[d] \in Clusters
BY TableAssumption

LEMMA ChainOf ==
  ASSUME DirsChained, NEW d \in Dirs
  PROVE  /\ Length(d) \in 1..max_cluster /\ Ends(fat, start[d], Length(d))
         /\ Members(start[d]) = MembersOf(fat, start[d])
         /\ Members(start[d]) \subseteq Clusters
         /\ \A x \in Members(start[d]) : fat[x] # FREE
<1> DEFINE n == Length(d)
           c == start[d]
<1>1. n \in 1..max_cluster /\ Ends(fat, c, n)
  BY Sizes DEF DirsChained
<1>2. MembersOf(fat, c) = {At(fat, c)[i] : i \in 0..(n - 1)}
  <2> HIDE DEF n, c
  <2> QED
    BY <1>1, EndsMembers
<1>3. /\ \A i \in 0..(n - 1) : At(fat, c)[i] \in Clusters
      /\ \A i \in n..max_cluster : At(fat, c)[i] = EOF
      /\ \A i \in 0..(n - 1) : fat[At(fat, c)[i]] = At(fat, c)[i + 1]
  <2> HIDE DEF n, c
  <2> QED
    BY <1>1, EndsPath
<1>4. ASSUME NEW i \in 0..(n - 1) PROVE fat[At(fat, c)[i]] # FREE
  <2> HIDE DEF n, c
  <2>1. i + 1 \in 0..(n - 1) \/ i + 1 \in n..max_cluster
    BY <1>1, Sizes
  <2> QED
    BY <1>3, <2>1, Sizes
<1>5. Members(c) = MembersOf(fat, c)
  BY DEF Members, MembersOf
<1> QED
  BY <1>1, <1>2, <1>3, <1>4, <1>5

(* The chains of the directories go on as they were.                           *)
LEMMA ChainsStay ==
  ASSUME DirsChained, \A d \in Dirs : \A x \in Members(start[d]) : fat'[x] = fat[x],
         \A d \in Dirs : Length(d)' = Length(d)
  PROVE  DirsChained' /\ \A d \in Dirs : Members(start[d])' = Members(start[d])
<1>1. ASSUME NEW d \in Dirs
      PROVE  /\ Length(d)' \in 1..(max_cluster - 2) /\ Ends(fat', start[d], Length(d)')
             /\ Members(start[d])' = Members(start[d])
  <2> DEFINE n == Length(d)
             c == start[d]
  <2>1. n \in 1..max_cluster /\ Ends(fat, c, n) /\ \A x \in MembersOf(fat, c) : fat'[x] = fat[x]
    BY ChainOf
  <2>2. Ends(fat', c, n) /\ MembersOf(fat', c) = MembersOf(fat, c)
    <3> HIDE DEF n, c
    <3> QED
      BY <2>1, ChainKept
  <2>3. Members(c)' = MembersOf(fat', c) /\ Members(c) = MembersOf(fat, c)
    BY DEF Members, MembersOf
  <2>4. Length(d) \in 1..(max_cluster - 2)
    BY DEF DirsChained
  <2>5. Length(d)' = Length(d)
    OBVIOUS
  <2>6. Members(start[d])' = Members(start[d])
    BY <2>2, <2>3
  <2> QED
    BY <2>2, <2>4, <2>5, <2>6
<1>2. DirsChained'
  <2>1. \A d \in Dirs : \A e \in Dirs \ {d} : Members(start[d])' \cap Members(start[e])' = {}
    BY <1>1 DEF DirsChained
  <2> QED
    BY <1>1, <2>1 DEF DirsChained
<1> QED
  BY <1>1, <1>2

(* A step that leaves the table, the counts and what is in flight as they are. *)
LEMMA Quiet ==
  ASSUME DirsChained, Pair, NoLeak, CountRight,
         UNCHANGED <<fat, free_clusters, free_clus_valid, lost>>,
         \A d \in Dirs : Length(d)' = Length(d), InFlight' = InFlight,
         Flying' => Flying /\ cluster' = cluster
  PROVE  DirsChained' /\ Pair' /\ NoLeak' /\ CountRight'
<1>1. DirsChained' /\ \A d \in Dirs : Members(start[d])' = Members(start[d])
  BY ChainsStay
<1>2. Free' = Free
  BY DEF Free
<1>3. CountRight'
  BY <1>2 DEF CountRight
<1>4. NoLeak'
  <2>1. UNION {Members(start[d])' : d \in Dirs} = UNION {Members(start[d]) : d \in Dirs}
    BY <1>1
  <2> QED
    BY <1>2, <2>1 DEF NoLeak
<1>5. Pair'
  <2> SUFFICES ASSUME Flying' PROVE Pair'
    BY DEF Pair
  <2>1. Flying /\ cluster' = cluster /\ InRow(fat', cluster')
    BY DEF Pair
  <2>2. \A d \in Dirs : Members(start[d])' \cap Range(cluster') = {}
    BY <1>1, <2>1 DEF Pair
  <2>3. /\ Range(cluster') \cap lost' = {}
        /\ free_clusters' # -1 => free_clusters' + Len(cluster') <= max_cluster - 2
    BY <2>1 DEF Pair
  <2> QED
    BY <2>1, <2>2, <2>3 DEF Pair
<1> QED
  BY <1>1, <1>3, <1>4, <1>5

(* Nothing happens.                                                           *)
LEMMA Still ==
  ASSUME TableInv, UNCHANGED vars
  PROVE  TableInv'
BY DEF TableInv, vars, counts, history, TypeOK, DirsChained, Pair, Flying, Length, InRow, Copying,
       NoLeak, CountRight, Copied, Giving, Members, InFlight, Free

-----------------------------------------------------------------------------
(* One lemma for each step that leaves the table as it is.                     *)

LEMMA MirrorStep ==
  ASSUME TableInv, Mirror
  PROVE  TableInv'
<1>1. /\ UNCHANGED <<fat, free_clusters, free_clus_valid, prev_free, size, dir, pc, cluster, lost>>
      /\ pc \in Mirroring
  BY DEF Mirror, counts
<1>2. PICK b \in bhs : /\ backup' = [c \in Clusters |-> IF Block(c) = b THEN fat[c] ELSE backup[c]]
                       /\ bhs' = bhs \ {b} /\ stale' = stale \ {b}
  BY DEF Mirror
<1>3. DirsChained' /\ Pair' /\ NoLeak' /\ CountRight'
  <2>1. (\A d \in Dirs : Length(d)' = Length(d)) /\ InFlight' = InFlight
        /\ (Flying' => Flying /\ cluster' = cluster)
    BY <1>1 DEF Length, InFlight, Flying
  <2> QED
    BY <1>1, <2>1, Quiet DEF TableInv
<1>4. TypeOK'
  <2>1. \A c \in Clusters : backup'[c] \in Clusters \cup {FREE, EOF}
    BY <1>2 DEF TableInv, TypeOK
  <2>2. backup' \in [Clusters -> Clusters \cup {FREE, EOF}]
    BY <1>2, <2>1
  <2> QED
    BY <1>1, <1>2, <2>2 DEF TableInv, TypeOK
<1>5. Copying'
  BY <1>1 DEF TableInv, Copying
<1>6. Copied'
  BY <1>1, <1>2 DEF TableInv, Copied, Giving, Mirroring
<1> QED
  BY <1>3, <1>4, <1>5, <1>6 DEF TableInv

LEMMA MirrorFailsStep ==
  ASSUME TableInv, MirrorFails, "link" \notin Fail
  PROVE  TableInv'
<1>1. /\ UNCHANGED <<fat, backup, free_clusters, free_clus_valid, prev_free, size, dir, lost>>
      /\ pc \in {"a_mirror", "f_mirror"} /\ bhs' = {} /\ stale' = stale \cup bhs
      /\ \/ pc = "f_mirror" /\ pc' = "idle" /\ cluster' = <<>>
         \/ pc = "a_mirror" /\ pc' = "free" /\ cluster' = cluster
  BY DEF MirrorFails, counts, Mirroring, Goto
<1>3. DirsChained' /\ Pair' /\ NoLeak' /\ CountRight'
  <2>1. (\A d \in Dirs : Length(d)' = Length(d)) /\ InFlight' = InFlight
        /\ (Flying' => Flying /\ cluster' = cluster)
    BY <1>1 DEF Length, InFlight, Flying
  <2> QED
    BY <1>1, <2>1, Quiet DEF TableInv
<1>4. TypeOK'
  <2>0. <<>> \in Seq(Clusters) /\ Len(<<>>) <= 2
    OBVIOUS
  <2>1. cluster' \in Seq(Clusters) /\ Len(cluster') <= 2
    <3>1. cluster \in Seq(Clusters) /\ Len(cluster) <= 2
      BY DEF TableInv, TypeOK
    <3>2. CASE cluster' = <<>>
      BY <2>0, <3>2
    <3>3. CASE cluster' = cluster
      BY <3>1, <3>3
    <3> QED
      BY <1>1, <3>2, <3>3
  <2> QED
    BY <1>1, <2>1 DEF TableInv, TypeOK, Labels
<1>5. Copying'
  BY <1>1 DEF TableInv, Copying
<1>6. Copied'
  BY <1>1 DEF TableInv, Copied, Giving
<1> QED
  BY <1>3, <1>4, <1>5, <1>6 DEF TableInv

(* AllocDone, Fill and NoLast only go on, with nothing left to copy.           *)
LEMMA OnStep ==
  ASSUME TableInv, AllocDone \/ Fill \/ NoLast
  PROVE  TableInv'
<1>1. /\ UNCHANGED <<fat, backup, free_clusters, free_clus_valid, prev_free, size, dir, cluster, bhs,
                     lost, stale>>
      /\ pc \in {"a_mirror", "fill", "link"} /\ pc' \in {"fill", "link", "free"} /\ bhs = {}
  BY DEF AllocDone, Fill, NoLast, counts, history, Goto, TableInv, Copying, Mirroring
<1>3. DirsChained' /\ Pair' /\ NoLeak' /\ CountRight'
  <2>1. (\A d \in Dirs : Length(d)' = Length(d)) /\ InFlight' = InFlight
        /\ (Flying' => Flying /\ cluster' = cluster)
    BY <1>1 DEF Length, InFlight, Flying
  <2> QED
    BY <1>1, <2>1, Quiet DEF TableInv
<1>4. TypeOK'
  BY <1>1 DEF TableInv, TypeOK, Labels
<1>5. Copying'
  BY <1>1 DEF TableInv, Copying
<1>6. Copied'
  BY <1>1 DEF TableInv, Copied, Giving
<1> QED
  BY <1>3, <1>4, <1>5, <1>6 DEF TableInv

LEMMA GrowStep ==
  ASSUME TableInv, Grow
  PROVE  TableInv'
<1>1. /\ UNCHANGED <<fat, backup, free_clusters, free_clus_valid, prev_free, dir, bhs, lost, stale>>
      /\ pc = "l_mirror" /\ bhs = {} /\ cluster' = <<>> /\ pc' = "idle"
      /\ size' = [size EXCEPT ![dir] = @ + Len(cluster)] /\ dir \in Dirs
  BY DEF Grow, counts, history, Goto, TableInv, TypeOK
<1>2. \A d \in Dirs : Length(d)' = Length(d) /\ size'[d] = Length(d)
  <2> SUFFICES ASSUME NEW d \in Dirs PROVE Length(d)' = Length(d) /\ size'[d] = Length(d)
    OBVIOUS
  <2>1. Length(d)' = size'[d] + 0
    BY <1>1 DEF Length
  <2>2. Length(d) = IF d = dir THEN size[d] + Len(cluster) ELSE size[d] + 0
    BY <1>1 DEF Length
  <2>3. size \in [Dirs -> 1..(max_cluster - 2)]
    BY DEF TableInv, TypeOK
  <2>4. size'[d] = IF d = dir THEN size[d] + Len(cluster) ELSE size[d]
    BY <1>1, <2>3
  <2>5. size[d] \in Int /\ Len(cluster) \in Int
    BY <2>3 DEF TableInv, TypeOK
  <2> QED
    BY <2>1, <2>2, <2>4, <2>5
<1>3. DirsChained' /\ Pair' /\ NoLeak' /\ CountRight'
  <2>1. InFlight' = InFlight /\ (Flying' => Flying /\ cluster' = cluster)
    BY <1>1 DEF InFlight, Flying
  <2> QED
    BY <1>1, <1>2, <2>1, Quiet DEF TableInv
<1>4. TypeOK'
  <2>1. \A d \in Dirs : size'[d] \in 1..(max_cluster - 2)
    BY <1>2 DEF TableInv, DirsChained
  <2>2. size' \in [Dirs -> 1..(max_cluster - 2)]
    BY <1>1, <2>1 DEF TableInv, TypeOK
  <2>3. cluster' \in Seq(Clusters) /\ Len(cluster') <= 2
    BY <1>1
  <2> QED
    BY <1>1, <2>2, <2>3 DEF TableInv, TypeOK, Labels
<1>5. Copying'
  BY <1>1 DEF TableInv, Copying
<1>6. Copied'
  BY <1>1 DEF TableInv, Copied, Giving
<1> QED
  BY <1>3, <1>4, <1>5, <1>6 DEF TableInv

LEMMA FreeDoneStep ==
  ASSUME TableInv, FreeDone
  PROVE  TableInv'
<1>1. /\ UNCHANGED <<fat, backup, free_clusters, free_clus_valid, prev_free, size, dir, bhs, lost, stale>>
      /\ pc = "f_mirror" /\ bhs = {} /\ cluster' = <<>> /\ pc' = "idle"
  BY DEF FreeDone, counts, history, Goto
<1>3. DirsChained' /\ Pair' /\ NoLeak' /\ CountRight'
  <2>1. (\A d \in Dirs : Length(d)' = Length(d)) /\ InFlight' = InFlight
        /\ (Flying' => Flying /\ cluster' = cluster)
    BY <1>1 DEF Length, InFlight, Flying
  <2> QED
    BY <1>1, <2>1, Quiet DEF TableInv
<1>4. TypeOK'
  <2>1. cluster' \in Seq(Clusters) /\ Len(cluster') <= 2
    BY <1>1
  <2> QED
    BY <1>1, <2>1 DEF TableInv, TypeOK, Labels
<1>5. Copying'
  BY <1>1 DEF TableInv, Copying
<1>6. Copied'
  BY <1>1 DEF TableInv, Copied, Giving
<1> QED
  BY <1>3, <1>4, <1>5, <1>6 DEF TableInv

-----------------------------------------------------------------------------
(* Allocation: the clusters found leave the free ones.                        *)

LEMMA TakeStep ==
  ASSUME TypeOK, NEW k \in 0..2, k <= Cardinality(Free), Take(k)
  PROVE  /\ cluster' \in Seq(Clusters) /\ Len(cluster') = k /\ Range(cluster') \subseteq Free
         /\ k # 0 => InRow(fat', cluster')
         /\ fat' \in [Clusters -> Clusters \cup {FREE, EOF}]
         /\ prev_free' \in Clusters /\ dir' \in Dirs
         /\ \A c \in Clusters \ Range(cluster') : fat'[c] = fat[c]
         /\ Free' = Free \ Range(cluster')
         /\ Cardinality(Free') = Cardinality(Free) - k
<1> DEFINE s == Found(k)
<1>0. prev_free \in Clusters /\ fat \in [Clusters -> Clusters \cup {FREE, EOF}]
  BY DEF TypeOK
<1>1. /\ dir' \in Dirs /\ fat' = Chained(s) /\ cluster' = s
      /\ prev_free' = IF k = 0 THEN prev_free ELSE s[k]
  BY DEF Take
<1>2. /\ s \in Seq(Clusters) /\ Len(s) = k /\ (\A i \in 1..k : s[i] \in Free) /\ (k = 2 => s[1] # s[2])
  BY <1>0, FoundFree
<1> HIDE DEF s
<1>3. /\ Chained(s) \in [Clusters -> Clusters \cup {FREE, EOF}]
      /\ k # 0 => InRow(Chained(s), s)
      /\ \A c \in Clusters \ Range(s) : Chained(s)[c] = fat[c]
      /\ \A c \in Range(s) : Chained(s)[c] # FREE
  BY <1>0, <1>2, ChainedRow
<1>4. Range(s) \subseteq Free
  BY <1>2 DEF Range
<1>5. Free' = Free \ Range(s)
  <2>1. \A c \in Clusters : fat'[c] = FREE <=> fat[c] = FREE /\ c \notin Range(s)
    BY <1>1, <1>3
  <2> QED
    BY <2>1 DEF Free
<1>6. Cardinality(Free') = Cardinality(Free) - k
  <2>1. IsFiniteSet(Range(s)) /\ Cardinality(Range(s)) = k
    <3>1. CASE k = 0
      <4>1. Range(s) = {}
        BY <1>2, <3>1 DEF Range
      <4> QED
        BY <3>1, <4>1, FS_EmptySet
    <3>2. CASE k # 0
      BY <1>2, <1>3, <3>2, RowSize
    <3> QED
      BY <3>1, <3>2
  <2>2. Free \cap Range(s) = Range(s)
    BY <1>4
  <2>3. Cardinality(Free \ Range(s)) = Cardinality(Free) - Cardinality(Free \cap Range(s))
    <3> HIDE DEF Free, Range
    <3> QED
      BY FreeFinite, FS_Difference, <2>1
  <2> QED
    BY <1>5, <2>1, <2>2, <2>3
<1>7. prev_free' \in Clusters
  BY <1>0, <1>1, <1>2
<1> QED
  BY <1>1, <1>2, <1>3, <1>4, <1>5, <1>6, <1>7

(* What every allocation keeps, whether it ends well or not.                   *)
LEMMA TakenKeeps ==
  ASSUME TableInv, pc = "idle", NEW k \in 0..2, k <= Cardinality(Free), Take(k), lost' = lost,
         size' = size, pc' \in {"idle", "a_mirror", "free"}, k # 0 => pc' # "idle", k = 0 => pc' = "idle",
         free_clusters' # -1 => free_clusters' + k <= max_cluster - 2
  PROVE  DirsChained' /\ Pair' /\ NoLeak'
<1>1. /\ cluster' \in Seq(Clusters) /\ Len(cluster') = k /\ Range(cluster') \subseteq Free
      /\ k # 0 => InRow(fat', cluster')
      /\ \A c \in Clusters \ Range(cluster') : fat'[c] = fat[c]
      /\ Free' = Free \ Range(cluster')
  BY TakeStep DEF TableInv
<1>2. \A d \in Dirs : Members(start[d]) \cap Free = {}
  BY ChainOf DEF TableInv, Free
<1>3. DirsChained' /\ \A d \in Dirs : Members(start[d])' = Members(start[d])
  <2>1. \A d \in Dirs : Length(d)' = Length(d)
    BY DEF Length
  <2>2. \A d \in Dirs : \A x \in Members(start[d]) : fat'[x] = fat[x]
    BY <1>1, <1>2, ChainOf DEF TableInv
  <2> QED
    BY <2>1, <2>2, ChainsStay DEF TableInv
<1>4. lost \cap Free = {}
  BY DEF TableInv, NoLeak
<1>5. Pair'
  <2> SUFFICES ASSUME Flying' PROVE Pair'
    BY DEF Pair
  <2>1. InRow(fat', cluster')
    BY <1>1 DEF Flying
  <2>2. \A d \in Dirs : Members(start[d])' \cap Range(cluster') = {}
    BY <1>1, <1>2, <1>3
  <2>3. Range(cluster') \cap lost' = {}
    BY <1>1, <1>4
  <2>4. free_clusters' # -1 => free_clusters' + Len(cluster') <= max_cluster - 2
    BY <1>1
  <2> QED
    BY <2>1, <2>2, <2>3, <2>4 DEF Pair
<1>6. InFlight' = Range(cluster')
  <2>1. k = 0 => Range(cluster') = {}
    BY <1>1 DEF Range
  <2> QED
    BY <2>1 DEF InFlight
<1>7. NoLeak'
  <2>1. UNION {Members(start[d])' : d \in Dirs} = UNION {Members(start[d]) : d \in Dirs}
    BY <1>3
  <2>2. InFlight = {}
    BY DEF InFlight
  <2>3. Clusters \ Free' = (Clusters \ Free) \cup Range(cluster')
    BY <1>1, FreeFinite
  <2> QED
    BY <1>6, <2>1, <2>2, <2>3 DEF TableInv, NoLeak
<1> QED
  BY <1>3, <1>5, <1>7

(* free_clusters after k of the free clusters were taken.                      *)
LEMMA LessRight ==
  ASSUME TypeOK, CountRight, NEW k \in 0..2, k <= Cardinality(Free), free_clusters' = Less(k),
         free_clus_valid' = free_clus_valid, Cardinality(Free') = Cardinality(Free) - k
  PROVE  /\ CountRight' /\ free_clusters' \in -1..(max_cluster - 2)
         /\ free_clusters' # -1 => free_clusters' + k <= max_cluster - 2
<1>1. free_clusters \in -1..(max_cluster - 2) /\ max_cluster \in Nat /\ max_cluster > 2 /\ Cardinality(Free) \in Nat
  BY Sizes, FreeFinite DEF TypeOK
<1>2. free_clusters' = IF free_clusters = -1 \/ free_clusters < k THEN -1 ELSE free_clusters - k
  BY DEF Less
<1>3. free_clusters' \in -1..(max_cluster - 2) /\ (free_clusters' # -1 => free_clusters' = free_clusters - k)
  BY <1>1, <1>2
<1>4. CountRight'
  BY <1>1, <1>3 DEF CountRight
<1>5. free_clusters' # -1 => free_clusters' + k <= max_cluster - 2
  BY <1>1, <1>2
<1> QED
  BY <1>3, <1>4, <1>5

LEMMA AllocStep ==
  ASSUME TableInv, Alloc
  PROVE  TableInv'
<1>1. PICK k \in 1..2 : /\ k <= Cardinality(Free) /\ Take(k) /\ free_clusters' = Less(k)
                        /\ bhs' = Collected(Found(k))
  BY DEF Alloc
<1>2. /\ pc = "idle" /\ pc' = "a_mirror"
      /\ UNCHANGED <<backup, free_clus_valid, size, lost, stale>>
  BY DEF Alloc, Goto, history
<1>3. bhs' = Blocks(Range(cluster'))
  BY <1>1 DEF Take, Collected
<1>0. k \in 0..2 /\ k # 0
  OBVIOUS
<1>4. /\ cluster' \in Seq(Clusters) /\ Len(cluster') = k /\ Range(cluster') \subseteq Free
      /\ fat' \in [Clusters -> Clusters \cup {FREE, EOF}]
      /\ prev_free' \in Clusters /\ dir' \in Dirs
      /\ \A c \in Clusters \ Range(cluster') : fat'[c] = fat[c]
      /\ Cardinality(Free') = Cardinality(Free) - k
  BY <1>0, <1>1, TakeStep DEF TableInv
<1>5. /\ CountRight' /\ free_clusters' \in -1..(max_cluster - 2)
      /\ free_clusters' # -1 => free_clusters' + k <= max_cluster - 2
  BY <1>0, <1>1, <1>2, <1>4, LessRight DEF TableInv
<1>6. DirsChained' /\ Pair' /\ NoLeak'
  BY <1>0, <1>1, <1>2, <1>5, TakenKeeps
<1>7. TypeOK'
  <2>1. bhs' \subseteq Blocks(Clusters)
    BY <1>3, <1>4, FreeFinite DEF Blocks
  <2> QED
    BY <1>2, <1>4, <1>5, <2>1 DEF TableInv, TypeOK, Labels
<1>8. Copying'
  BY <1>2 DEF Copying, Mirroring
<1>9. Copied'
  <2> SUFFICES ASSUME NEW c \in Clusters, backup[c] # fat'[c] PROVE Block(c) \in stale \cup bhs'
    BY <1>2 DEF Copied
  <2>1. CASE c \in Range(cluster')
    BY <1>3, <2>1 DEF Blocks
  <2>2. CASE c \notin Range(cluster')
    <3>1. backup[c] # fat[c]
      BY <1>4, <2>2
    <3>2. bhs = {} /\ Giving = {}
      BY <1>2 DEF TableInv, Copying, Mirroring, Giving
    <3> QED
      BY <3>1, <3>2 DEF TableInv, Copied
  <2> QED
    BY <2>1, <2>2
<1> QED
  BY <1>5, <1>6, <1>7, <1>8, <1>9 DEF TableInv

(* An allocation that fails with k clusters taken.                             *)
LEMMA FailedAlloc ==
  ASSUME TableInv, pc = "idle", NEW k \in 0..2, k <= Cardinality(Free), Take(k), Undo(k),
         UNCHANGED <<backup, size, bhs, lost, stale>>, free_clus_valid' \in BOOLEAN, CountRight',
         free_clusters' \in -1..(max_cluster - 2),
         free_clusters' # -1 => free_clusters' + k <= max_cluster - 2
  PROVE  TableInv'
<1>1. pc' = IF k = 0 THEN "idle" ELSE "free"
  BY DEF Undo, Goto
<1>4. /\ cluster' \in Seq(Clusters) /\ Len(cluster') = k /\ Range(cluster') \subseteq Free
      /\ fat' \in [Clusters -> Clusters \cup {FREE, EOF}]
      /\ prev_free' \in Clusters /\ dir' \in Dirs
      /\ \A c \in Clusters \ Range(cluster') : fat'[c] = fat[c]
  BY TakeStep DEF TableInv
<1>6. DirsChained' /\ Pair' /\ NoLeak'
  BY <1>1, TakenKeeps
<1>7. TypeOK'
  BY <1>1, <1>4 DEF TableInv, TypeOK, Labels
<1>8. Copying'
  BY <1>1 DEF TableInv, Copying, Mirroring
<1>9. Copied'
  <2> SUFFICES ASSUME NEW c \in Clusters, backup[c] # fat'[c] PROVE Block(c) \in stale \cup bhs \cup Giving'
    BY DEF Copied
  <2>1. CASE c \in Range(cluster')
    <3>1. k # 0
      BY <1>4, <2>1 DEF Range
    <3> QED
      BY <1>1, <2>1, <3>1 DEF Blocks, Giving
  <2>2. CASE c \notin Range(cluster')
    <3>1. backup[c] # fat[c]
      BY <1>4, <2>2
    <3>2. Giving = {}
      BY DEF Giving
    <3> QED
      BY <3>1, <3>2 DEF TableInv, Copied
  <2> QED
    BY <2>1, <2>2
<1> QED
  BY <1>6, <1>7, <1>8, <1>9 DEF TableInv

LEMMA NoSpaceStep ==
  ASSUME TableInv, AllocNoSpace
  PROVE  TableInv'
<1> DEFINE k == Cardinality(Free)
<1>0. k \in Nat /\ max_cluster - 2 \in Nat /\ k <= max_cluster - 2
  BY FreeFinite, Sizes
<1>1. /\ pc = "idle" /\ Take(k) /\ Undo(k) /\ free_clusters' = 0 /\ free_clus_valid' = TRUE
      /\ UNCHANGED <<backup, size, bhs, lost, stale>>
      /\ \E nr \in (k + 1)..2 : TRUE
  BY DEF AllocNoSpace, history
<1>2. k \in 0..2 /\ k <= Cardinality(Free)
  BY <1>0, <1>1
<1>3. Cardinality(Free') = Cardinality(Free) - k
  <2> HIDE DEF k
  <2> QED
    BY <1>1, <1>2, TakeStep DEF TableInv
<1>4. CountRight'
  BY <1>0, <1>1, <1>3 DEF CountRight
<1>5. /\ free_clusters' \in -1..(max_cluster - 2)
      /\ free_clusters' # -1 => free_clusters' + k <= max_cluster - 2
  BY <1>0, <1>1
<1> HIDE DEF k
<1> QED
  BY <1>1, <1>2, <1>4, <1>5, FailedAlloc

LEMMA ReadErrorStep ==
  ASSUME TableInv, AllocReadError
  PROVE  TableInv'
<1>1. PICK k \in {Before(c) : c \in Reads} : /\ \E nr \in (k + 1)..2 : Admitted(nr)
                                             /\ Take(k) /\ Undo(k) /\ free_clusters' = Less(k)
  BY DEF AllocReadError
<1>2. pc = "idle" /\ UNCHANGED <<backup, free_clus_valid, size, bhs, lost, stale>>
  BY DEF AllocReadError, history
<1>3. k \in 0..2 /\ k <= Cardinality(Free)
  <2>1. PICK c : k = Before(c)
    BY <1>1
  <2> DEFINE T == {f \in Free : Rank(f) < Rank(c)}
  <2>2. T \in SUBSET Free /\ k = Cardinality(T)
    BY <2>1 DEF Before
  <2> HIDE DEF T
  <2>3. IsFiniteSet(T) /\ Cardinality(T) <= Cardinality(Free)
    BY <2>2, FreeFinite, FS_Subset
  <2>4. k \in Nat
    BY <2>2, <2>3, FS_CardinalityType
  <2> QED
    BY <1>1, <2>2, <2>3, <2>4
<1>4. Cardinality(Free') = Cardinality(Free) - k
  BY <1>1, <1>3, TakeStep DEF TableInv
<1>5. /\ CountRight' /\ free_clusters' \in -1..(max_cluster - 2)
      /\ free_clusters' # -1 => free_clusters' + k <= max_cluster - 2
  BY <1>1, <1>2, <1>3, <1>4, LessRight DEF TableInv
<1>6. free_clus_valid' \in BOOLEAN
  BY <1>2 DEF TableInv, TypeOK
<1> QED
  BY <1>1, <1>2, <1>3, <1>5, <1>6, FailedAlloc

-----------------------------------------------------------------------------
(* fat_chain_add: what is in flight becomes the end of the directory's chain.  *)

LEMMA LinkStep ==
  ASSUME TableInv, Link
  PROVE  TableInv'
<1>g. PICK g \in Dirs : g = dir
  BY DEF TableInv, TypeOK
<1> DEFINE n == Length(g)
           c == start[g]
           l == At(fat, c)[n - 1]
           m == n + Len(cluster)
<1>0. max_cluster \in Nat /\ max_cluster > 2 /\ g = dir /\ g \in Dirs /\ fat \in [Clusters -> Clusters \cup {FREE, EOF}]
  BY <1>g, Sizes DEF TableInv, TypeOK
<1>1. /\ pc = "link" /\ pc' = "l_mirror"
      /\ UNCHANGED <<backup, free_clusters, free_clus_valid, prev_free, size, dir, cluster, lost, stale>>
  BY DEF Link, Goto, counts, history
<1>2. /\ InRow(fat, cluster) /\ \A d \in Dirs : Members(start[d]) \cap Range(cluster) = {}
      /\ bhs = {} /\ Giving = {}
  BY <1>1 DEF TableInv, Pair, Flying, Copying, Mirroring, Giving
<1>3. n \in 1..max_cluster /\ Ends(fat, c, n) /\ Members(c) = MembersOf(fat, c) /\ n = size[g]
      /\ Members(c) \subseteq Clusters
  <2>1. n = size[g] + 0
    BY <1>0, <1>1 DEF Length
  <2>2. size[g] \in Int
    BY <1>0 DEF TableInv, TypeOK
  <2> QED
    BY <1>0, <2>1, <2>2, ChainOf DEF TableInv
<1>4. fat' = [fat EXCEPT ![l] = cluster[1]] /\ bhs' = {Block(l)}
  <2>1. PICK k \in 1..max_cluster : Ends(fat, c, k) /\ Written(Last(c, k), cluster[1])
    BY <1>g DEF Link
  <2>2. k = n
    <3> HIDE DEF n, c
    <3> QED
      BY <1>3, <2>1, EndsUnique
  <2> QED
    BY <2>1, <2>2 DEF Written, Last
<1>5. l \in Clusters /\ l \in Members(c)
  <2> HIDE DEF n, c
  <2>1. n - 1 \in 0..(n - 1)
    BY <1>0, <1>3
  <2>2. l \in Clusters /\ l \in MembersOf(fat, c)
    BY <1>3, <2>1, EndsPath, EndsMembers
  <2> QED
    BY <1>3, <2>2
<1>6. cluster[1] \in Clusters /\ Range(cluster) \subseteq Clusters /\ Len(cluster) \in 1..2
  BY <1>2, RowChain DEF InRow
<1> HIDE DEF l
<1>7. /\ fat' \in [Clusters -> Clusters \cup {FREE, EOF}] /\ fat'[l] = cluster[1]
      /\ \A x \in Clusters : x # l => fat'[x] = fat[x]
  BY <1>0, <1>4, <1>5, <1>6
<1>8. m \in 1..max_cluster /\ m <= max_cluster - 2
  <2> HIDE DEF n, c
  <2>1. Range(cluster) \cap MembersOf(fat, c) = {}
    <3>1. Members(c) \cap Range(cluster) = {}
      BY <1>0, <1>2 DEF c
    <3> QED
      BY <1>3, <3>1
  <2>2. n + Len(cluster) <= max_cluster - 2
    BY <1>2, <1>3, <2>1, ChainAndRow
  <2> QED
    BY <1>0, <1>3, <1>6, <2>2
<1>9. Ends(fat', c, m) /\ MembersOf(fat', c) = MembersOf(fat, c) \cup Range(cluster)
  <2>1. Members(c) \cap Range(cluster) = {}
    BY <1>0, <1>2
  <2>2. m = n + Len(cluster)
    OBVIOUS
  <2> HIDE DEF n, c, m
  <2>3. Range(cluster) \cap MembersOf(fat, c) = {}
    BY <1>3, <2>1
  <2>4. fat'[At(fat, c)[n - 1]] = cluster[1] /\ \A x \in Clusters : x # At(fat, c)[n - 1] => fat'[x] = fat[x]
    BY <1>7 DEF l
  <2>5. /\ n \in 1..max_cluster /\ m \in 1..max_cluster
        /\ Ends(fat, c, n) /\ InRow(fat, cluster)
    BY <1>2, <1>3, <1>8
  <2> QED
    BY <2>2, <2>3, <2>4, <2>5, Joined
<1>10. Members(c)' = Members(c) \cup Range(cluster)
  <2>1. Members(c)' = MembersOf(fat', c)
    BY DEF Members, MembersOf
  <2> QED
    BY <1>3, <1>9, <2>1
<1>11. Length(g)' = m
  BY <1>0, <1>1, <1>3 DEF Length
<1>12. ASSUME NEW d \in Dirs \ {g}
       PROVE  /\ Length(d)' \in 1..(max_cluster - 2) /\ Ends(fat', start[d], Length(d)')
              /\ Members(start[d])' = Members(start[d])
  <2> DEFINE k == Length(d)
             e == start[d]
  <2>1. k \in 1..max_cluster /\ Ends(fat, e, k) /\ Members(e) = MembersOf(fat, e) /\ Members(e) \subseteq Clusters
    BY ChainOf DEF TableInv
  <2>2. l \notin Members(e)
    BY <1>0, <1>5 DEF TableInv, DirsChained
  <2>3. Ends(fat', e, k) /\ MembersOf(fat', e) = MembersOf(fat, e)
    <3> HIDE DEF k, e
    <3>1. \A x \in MembersOf(fat, e) : fat'[x] = fat[x]
      BY <1>7, <2>1, <2>2
    <3> QED
      BY <2>1, <3>1, ChainKept
  <2>4. Length(d)' = Length(d)
    BY <1>0, <1>1 DEF Length
  <2>5. Members(e)' = MembersOf(fat', e)
    BY DEF Members, MembersOf
  <2>6. k \in 1..(max_cluster - 2)
    BY DEF TableInv, DirsChained
  <2>7. Members(start[d])' = Members(start[d])
    BY <2>1, <2>3, <2>5
  <2> QED
    BY <2>3, <2>4, <2>6, <2>7
<1>13. DirsChained'
  <2>1. ASSUME NEW d \in Dirs PROVE Length(d)' \in 1..(max_cluster - 2) /\ Ends(fat', start[d], Length(d)')
    <3>1. CASE d = g
      <4>1. Length(d)' = m
        BY <1>11, <3>1
      <4> HIDE DEF n, m
      <4> QED
        BY <1>0, <1>8, <1>9, <3>1, <4>1
    <3>2. CASE d # g
      BY <1>12, <3>2
    <3> QED
      BY <3>1, <3>2
  <2>2. ASSUME NEW d \in Dirs, NEW e \in Dirs \ {d} PROVE Members(start[d])' \cap Members(start[e])' = {}
    <3>0. Members(start[d]) \cap Members(start[e]) = {}
      BY DEF TableInv, DirsChained
    <3>1. CASE d = g
      BY <1>2, <1>10, <1>12, <3>0, <3>1
    <3>2. CASE d # g
      <4>1. CASE e = g
        BY <1>2, <1>10, <1>12, <3>0, <3>2, <4>1
      <4>2. CASE e # g
        BY <1>12, <3>0, <3>2, <4>2
      <4> QED
        BY <4>1, <4>2
    <3> QED
      BY <3>1, <3>2
  <2> QED
    BY <2>1, <2>2 DEF DirsChained
<1>14. Free' = Free
  <2>1. fat[l] # FREE /\ fat'[l] # FREE
    BY <1>0, <1>5, <1>6, <1>7, ChainOf, Sizes DEF TableInv
  <2>2. \A x \in Clusters : fat'[x] = FREE <=> fat[x] = FREE
    BY <1>7, <2>1
  <2> QED
    BY <2>2 DEF Free
<1>15. NoLeak'
  <2>1. UNION {Members(start[d])' : d \in Dirs} = (UNION {Members(start[d]) : d \in Dirs}) \cup Range(cluster)
    <3>1. \A x : (\E d \in Dirs : x \in Members(start[d])')
                 <=> (\E d \in Dirs : x \in Members(start[d])) \/ x \in Range(cluster)
      BY <1>0, <1>10, <1>12
    <3> QED
      BY <3>1
  <2>2. InFlight = Range(cluster) /\ InFlight' = {}
    BY <1>1 DEF InFlight
  <2>3. Clusters \ Free' = lost' \cup UNION {Members(start[d])' : d \in Dirs}
    BY <1>1, <1>14, <2>1, <2>2 DEF TableInv, NoLeak
  <2> QED
    BY <2>2, <2>3 DEF NoLeak
<1>16. CountRight' /\ Pair'
  BY <1>1, <1>14 DEF TableInv, CountRight, Pair, Flying
<1>17. TypeOK'
  <2>1. bhs' \subseteq Blocks(Clusters)
    BY <1>4, <1>5 DEF Blocks
  <2> QED
    BY <1>1, <1>7, <2>1 DEF TableInv, TypeOK, Labels
<1>18. Copying'
  BY <1>1, <1>6 DEF Copying, Mirroring
<1>19. Copied'
  <2> SUFFICES ASSUME NEW x \in Clusters, backup[x] # fat'[x] PROVE Block(x) \in stale \cup bhs'
    BY <1>1 DEF Copied
  <2>1. x = l \/ backup[x] # fat[x]
    BY <1>7
  <2> QED
    BY <1>2, <1>4, <2>1 DEF TableInv, Copied
<1> QED
  BY <1>13, <1>15, <1>16, <1>17, <1>18, <1>19 DEF TableInv

-----------------------------------------------------------------------------
(* fat_free_clusters                                                          *)

(* The chain that begins at cluster[1] is what is in flight.                   *)
LEMMA FlyingChain ==
  ASSUME TableInv, pc = "free", NEW n \in 1..max_cluster, Ends(fat, cluster[1], n)
  PROVE  /\ n = Len(cluster) /\ n \in 1..2 /\ Prefix(cluster[1], n) = Range(cluster)
         /\ \A k \in 0..n : Prefix(cluster[1], k) = {cluster[i] : i \in 1..k}
<1>1. InRow(fat, cluster)
  BY DEF TableInv, Pair, Flying
<1>2. /\ Ends(fat, cluster[1], Len(cluster)) /\ Len(cluster) \in 1..max_cluster /\ Len(cluster) \in 1..2
      /\ \A i \in 0..(Len(cluster) - 1) : At(fat, cluster[1])[i] = cluster[i + 1]
  <2>1. Ends(fat, cluster[1], Len(cluster)) /\ \A i \in 0..(Len(cluster) - 1) : At(fat, cluster[1])[i] = cluster[i + 1]
    BY <1>1, RowChain
  <2>2. Len(cluster) \in 1..2
    BY <1>1 DEF InRow
  <2>3. max_cluster \in Nat /\ max_cluster > 2
    BY Sizes
  <2>4. Len(cluster) \in 1..max_cluster
    <3> DEFINE m == Len(cluster)
    <3> HIDE DEF m
    <3>1. m \in 1..2
      BY <2>2 DEF m
    <3>2. m \in 1..max_cluster
      BY <2>3, <3>1
    <3> QED
      BY <3>2 DEF m
  <2> QED
    BY <2>1, <2>2, <2>4
<1>3. n = Len(cluster)
  BY <1>2, EndsUnique
<1>4. ASSUME NEW k \in 0..n PROVE Prefix(cluster[1], k) = {cluster[i] : i \in 1..k}
  <2>1. \A i \in 0..(k - 1) : At(fat, cluster[1])[i] = cluster[i + 1] /\ i + 1 \in 1..k
    BY <1>2, <1>3
  <2>2. \A i \in 1..k : i - 1 \in 0..(k - 1) /\ (i - 1) + 1 = i
    BY <1>3
  <2>3. \A i \in 1..k : cluster[i] = At(fat, cluster[1])[i - 1]
    BY <2>1, <2>2
  <2>4. Prefix(cluster[1], k) \subseteq {cluster[i] : i \in 1..k}
    BY <2>1 DEF Prefix
  <2>5. {cluster[i] : i \in 1..k} \subseteq Prefix(cluster[1], k)
    BY <2>2, <2>3 DEF Prefix
  <2> QED
    BY <2>4, <2>5
<1>5. Prefix(cluster[1], n) = Range(cluster)
  <2>1. DOMAIN cluster = 1..n /\ n \in 0..n
    BY <1>1, <1>3 DEF InRow
  <2>2. Prefix(cluster[1], n) = {cluster[i] : i \in 1..n}
    BY <1>4, <2>1
  <2> QED
    BY <2>1, <2>2 DEF Range
<1> QED
  BY <1>2, <1>3, <1>4, <1>5

(* The first k clusters in flight are free again.                              *)
LEMMA GivenBack ==
  ASSUME TableInv, pc = "free", NEW n \in 1..max_cluster, Ends(fat, cluster[1], n),
         NEW k \in 0..n, GiveBack(k), free_clus_valid' = free_clus_valid, size' = size, pc' # "l_mirror"
  PROVE  /\ fat' \in [Clusters -> Clusters \cup {FREE, EOF}]
         /\ free_clusters' \in -1..(max_cluster - 2)
         /\ \A c \in Clusters \ Prefix(cluster[1], k) : fat'[c] = fat[c]
         /\ Free' = Free \cup Prefix(cluster[1], k)
         /\ DirsChained' /\ CountRight' /\ \A d \in Dirs : Members(start[d])' = Members(start[d])
<1> DEFINE P == Prefix(cluster[1], k)
<1>0. fat \in [Clusters -> Clusters \cup {FREE, EOF}] /\ free_clusters \in -1..(max_cluster - 2)
  BY DEF TableInv, TypeOK
<1>1. /\ fat' = [c \in Clusters |-> IF c \in P THEN FREE ELSE fat[c]]
      /\ free_clusters' = IF free_clusters = -1 THEN -1 ELSE free_clusters + k
  BY DEF GiveBack
<1>2. /\ n = Len(cluster) /\ n \in 1..2 /\ Prefix(cluster[1], n) = Range(cluster)
      /\ P = {cluster[i] : i \in 1..k} /\ k \in 0..2
  BY FlyingChain
<1>3. /\ InRow(fat, cluster) /\ \A d \in Dirs : Members(start[d]) \cap Range(cluster) = {}
      /\ Range(cluster) \cap lost = {}
      /\ free_clusters # -1 => free_clusters + Len(cluster) <= max_cluster - 2
  BY DEF TableInv, Pair, Flying
<1>4. \A i \in 1..k : i \in DOMAIN cluster /\ cluster[i] \in Clusters /\ cluster[i] \in Range(cluster)
  BY <1>2, <1>3 DEF InRow, Range
<1>5. P \subseteq Range(cluster) /\ P \subseteq Clusters
  BY <1>2, <1>4
<1> HIDE DEF P
<1>6. /\ fat' \in [Clusters -> Clusters \cup {FREE, EOF}]
      /\ \A c \in Clusters : fat'[c] = IF c \in P THEN FREE ELSE fat[c]
  BY <1>0, <1>1
<1>7. Free' = Free \cup P
  <2>1. \A c \in Clusters : fat'[c] = FREE <=> fat[c] = FREE \/ c \in P
    BY <1>6
  <2> QED
    BY <1>5, <2>1 DEF Free
<1>8. free_clusters' \in -1..(max_cluster - 2)
  BY <1>0, <1>1, <1>2, <1>3, Sizes
<1>9. DirsChained' /\ \A d \in Dirs : Members(start[d])' = Members(start[d])
  <2>1. \A d \in Dirs : Length(d)' = Length(d)
    BY DEF Length
  <2>2. \A d \in Dirs : \A x \in Members(start[d]) : fat'[x] = fat[x]
    BY <1>3, <1>5, <1>6, ChainOf DEF TableInv
  <2> QED
    BY <2>1, <2>2, ChainsStay DEF TableInv
<1>10. Free \cap P = {}
  <2>1. Range(cluster) \subseteq Clusters \ Free
    BY DEF TableInv, NoLeak, InFlight
  <2> QED
    BY <1>5, <2>1
<1>11. IsFiniteSet(P) /\ Cardinality(P) = k
  <2>1. CASE k = 0
    <3>1. P = {}
      BY <1>2, <2>1
    <3> QED
      BY <2>1, <3>1, FS_EmptySet
  <2>2. CASE k = 1
    <3>1. P = {cluster[1]}
      BY <1>2, <2>2
    <3> QED
      BY <2>2, <3>1, FS_Singleton
  <2>3. CASE k = 2
    <3>1. k = n
      BY <1>2, <2>3
    <3>2. P = Range(cluster) /\ Len(cluster) = k
      BY <1>2, <3>1 DEF P
    <3> QED
      BY <1>3, <3>2, RowSize
  <2> QED
    BY <1>2, <2>1, <2>2, <2>3
<1>12. Cardinality(Free') = Cardinality(Free) + k
  <2>1. Cardinality(Free \cap P) = 0
    BY <1>10, FS_EmptySet
  <2>2. Cardinality(Free \cup P) = Cardinality(Free) + k - 0
    BY <1>11, <2>1, FreeFinite, FS_Union
  <2>3. Cardinality(Free) \in Int /\ k \in Int
    BY FreeFinite
  <2> QED
    BY <1>7, <2>2, <2>3
<1>13. CountRight'
  <2>1. free_clusters \in Int /\ k \in Nat /\ free_clusters >= -1
    BY <1>0, <1>2, Sizes
  <2>2. free_clusters' # -1 => free_clusters # -1 /\ free_clusters' = free_clusters + k
    BY <1>1, <2>1
  <2> QED
    BY <1>12, <2>1, <2>2 DEF TableInv, CountRight
<1> QED
  BY <1>6, <1>7, <1>8, <1>9, <1>13 DEF P

LEMMA FreeChainStep ==
  ASSUME TableInv, FreeChain
  PROVE  TableInv'
<1>1. PICK n \in 1..max_cluster : /\ Ends(fat, cluster[1], n) /\ GiveBack(n)
                                  /\ bhs' = Blocks(Prefix(cluster[1], n))
  BY DEF FreeChain
<1>2. /\ pc = "free" /\ pc' = "f_mirror"
      /\ UNCHANGED <<backup, free_clus_valid, prev_free, size, dir, cluster, lost, stale>>
  BY DEF FreeChain, Goto, history
<1>3. Prefix(cluster[1], n) = Range(cluster)
  BY <1>1, <1>2, FlyingChain
<1>4. n \in 0..n
  BY Sizes
<1>5. /\ fat' \in [Clusters -> Clusters \cup {FREE, EOF}]
      /\ free_clusters' \in -1..(max_cluster - 2)
      /\ \A c \in Clusters \ Range(cluster) : fat'[c] = fat[c]
      /\ Free' = Free \cup Range(cluster)
      /\ DirsChained' /\ CountRight' /\ \A d \in Dirs : Members(start[d])' = Members(start[d])
  <2>1. pc' # "l_mirror"
    BY <1>2
  <2> QED
    BY <1>1, <1>2, <1>3, <1>4, <2>1, GivenBack
<1>6. /\ Range(cluster) \subseteq Clusters /\ Range(cluster) \cap lost = {}
      /\ \A d \in Dirs : Members(start[d]) \cap Range(cluster) = {}
  <2>1. InRow(fat, cluster)
    BY <1>2 DEF TableInv, Pair, Flying
  <2> QED
    BY <1>2, <2>1, RowChain DEF TableInv, Pair, Flying
<1>7. TypeOK'
  <2>1. bhs' \subseteq Blocks(Clusters)
    BY <1>1, <1>3, <1>6 DEF Blocks
  <2> QED
    BY <1>2, <1>5, <2>1 DEF TableInv, TypeOK, Labels
<1>8. Copying' /\ Pair'
  BY <1>2 DEF Copying, Mirroring, Pair, Flying
<1>9. NoLeak'
  <2>1. UNION {Members(start[d])' : d \in Dirs} = UNION {Members(start[d]) : d \in Dirs}
    BY <1>5
  <2>2. InFlight = Range(cluster) /\ InFlight' = {}
    BY <1>2 DEF InFlight
  <2>3. Clusters \ Free = lost \cup Range(cluster) \cup UNION {Members(start[d]) : d \in Dirs}
    BY <2>2 DEF TableInv, NoLeak
  <2>4. Clusters \ Free' = lost \cup UNION {Members(start[d]) : d \in Dirs}
    <3> DEFINE U == UNION {Members(start[d]) : d \in Dirs}
    <3>1. U \cap Range(cluster) = {}
      BY <1>6
    <3> HIDE DEF U
    <3>2. Clusters \ Free = lost \cup Range(cluster) \cup U
      BY <2>3 DEF U
    <3>3. Clusters \ Free' = lost \cup U
      BY <1>5, <1>6, <3>1, <3>2
    <3> QED
      BY <3>3 DEF U
  <2> QED
    BY <1>2, <2>1, <2>2, <2>4 DEF NoLeak
<1>10. Copied'
  <2> SUFFICES ASSUME NEW c \in Clusters, backup[c] # fat'[c] PROVE Block(c) \in stale \cup bhs'
    BY <1>2 DEF Copied
  <2>1. CASE c \in Range(cluster)
    BY <1>1, <1>3, <2>1 DEF Blocks
  <2>2. CASE c \notin Range(cluster)
    <3>1. backup[c] # fat[c]
      BY <1>5, <2>2
    <3>2. Giving = Blocks(Range(cluster)) /\ bhs = {}
      BY <1>2 DEF Giving, TableInv, Copying, Mirroring
    <3>3. Block(c) \in stale \cup Blocks(Range(cluster))
      BY <3>1, <3>2 DEF TableInv, Copied
    <3> QED
      BY <1>1, <1>3, <3>3
  <2> QED
    BY <2>1, <2>2
<1> QED
  BY <1>5, <1>7, <1>8, <1>9, <1>10 DEF TableInv

LEMMA FreeErrorStep ==
  ASSUME TableInv, FreeReadError
  PROVE  TableInv'
<1>1. PICK n \in 1..max_cluster :
        \E k \in 0..(n - 1) :
          /\ Ends(fat, cluster[1], n) /\ GiveBack(k)
          /\ lost' = lost \cup (Prefix(cluster[1], n) \ Prefix(cluster[1], k))
          /\ stale' = stale \cup Blocks(Range(cluster))
  BY DEF FreeReadError
<1>2. PICK k \in 0..(n - 1) :
        /\ Ends(fat, cluster[1], n) /\ GiveBack(k)
        /\ lost' = lost \cup (Prefix(cluster[1], n) \ Prefix(cluster[1], k))
        /\ stale' = stale \cup Blocks(Range(cluster))
  BY <1>1
<1>3. /\ pc = "free" /\ pc' = "idle" /\ cluster' = <<>>
      /\ UNCHANGED <<backup, free_clus_valid, prev_free, size, dir, bhs>>
  BY DEF FreeReadError, Goto
<1> DEFINE P == Prefix(cluster[1], k)
<1>4. k \in 0..n
  BY Sizes
<1>5. Prefix(cluster[1], n) = Range(cluster) /\ P \subseteq Range(cluster)
  <2>1. /\ n = Len(cluster) /\ n \in 1..2 /\ Prefix(cluster[1], n) = Range(cluster)
        /\ P = {cluster[i] : i \in 1..k}
    BY <1>2, <1>3, <1>4, FlyingChain
  <2>2. \A i \in 1..k : i \in DOMAIN cluster
    BY <2>1 DEF TableInv, TypeOK
  <2> QED
    BY <2>1, <2>2 DEF Range
<1>6. /\ fat' \in [Clusters -> Clusters \cup {FREE, EOF}]
      /\ free_clusters' \in -1..(max_cluster - 2)
      /\ \A c \in Clusters \ P : fat'[c] = fat[c]
      /\ Free' = Free \cup P
      /\ DirsChained' /\ CountRight' /\ \A d \in Dirs : Members(start[d])' = Members(start[d])
  <2>1. pc' # "l_mirror"
    BY <1>3
  <2> QED
    BY <1>2, <1>3, <1>4, <2>1, GivenBack
<1> HIDE DEF P
<1>7. /\ Range(cluster) \subseteq Clusters /\ Range(cluster) \cap lost = {}
      /\ \A d \in Dirs : Members(start[d]) \cap Range(cluster) = {}
  <2>1. InRow(fat, cluster)
    BY <1>3 DEF TableInv, Pair, Flying
  <2> QED
    BY <1>3, <2>1, RowChain DEF TableInv, Pair, Flying
<1>8. lost' = lost \cup (Range(cluster) \ P)
  BY <1>2, <1>5 DEF P
<1>9. TypeOK'
  <2>1. lost' \subseteq Clusters /\ stale' \subseteq Blocks(Clusters)
    BY <1>2, <1>7, <1>8 DEF TableInv, TypeOK, Blocks
  <2>2. <<>> \in Seq(Clusters) /\ Len(<<>>) <= 2
    OBVIOUS
  <2> QED
    BY <1>3, <1>6, <2>1, <2>2 DEF TableInv, TypeOK, Labels
<1>10. Copying' /\ Pair'
  BY <1>3 DEF TableInv, Copying, Mirroring, Pair, Flying
<1>11. NoLeak'
  <2>1. UNION {Members(start[d])' : d \in Dirs} = UNION {Members(start[d]) : d \in Dirs}
    BY <1>6
  <2>2. InFlight = Range(cluster) /\ InFlight' = {}
    BY <1>3 DEF InFlight
  <2>3. Clusters \ Free = lost \cup Range(cluster) \cup UNION {Members(start[d]) : d \in Dirs}
    BY <2>2 DEF TableInv, NoLeak
  <2>4. Clusters \ Free' = lost' \cup UNION {Members(start[d]) : d \in Dirs}
    <3> DEFINE U == UNION {Members(start[d]) : d \in Dirs}
    <3>1. U \cap Range(cluster) = {}
      BY <1>7
    <3> HIDE DEF U
    <3>2. Clusters \ Free = lost \cup Range(cluster) \cup U
      BY <2>3 DEF U
    <3>3. Clusters \ Free' = lost' \cup U
      BY <1>5, <1>6, <1>7, <1>8, <3>1, <3>2
    <3> QED
      BY <3>3 DEF U
  <2> QED
    BY <2>1, <2>2, <2>4 DEF NoLeak
<1>12. Copied'
  <2> SUFFICES ASSUME NEW c \in Clusters, backup[c] # fat'[c] PROVE Block(c) \in stale' \cup bhs
    BY <1>3 DEF Copied
  <2>1. CASE c \in P
    BY <1>2, <1>5, <2>1 DEF Blocks
  <2>2. CASE c \notin P
    <3>1. backup[c] # fat[c]
      BY <1>6, <2>2
    <3>2. Giving = Blocks(Range(cluster))
      BY <1>3 DEF Giving
    <3>3. Block(c) \in stale \cup bhs \cup Blocks(Range(cluster))
      BY <3>1, <3>2 DEF TableInv, Copied
    <3> QED
      BY <1>2, <3>3
  <2> QED
    BY <2>1, <2>2
<1> QED
  BY <1>6, <1>9, <1>10, <1>11, <1>12 DEF TableInv

-----------------------------------------------------------------------------
(* The theorems.  All are for every number of directories, clusters and        *)
(* entries in a block, and for every set of calls that may fail but "link".    *)

LEMMA TableInit == Init => TableInv
<1> SUFFICES ASSUME Init PROVE TableInv
  OBVIOUS
<1>0. /\ max_cluster \in Nat /\ max_cluster > 2 /\ start \in [Dirs -> Clusters]
      /\ \A d, e \in Dirs : d # e => start[d] # start[e]
  BY TableAssumption
<1>1. /\ fat = [c \in Clusters |-> IF c \in Range(start) THEN EOF ELSE FREE] /\ backup = fat
      /\ prev_free \in Clusters /\ size = [d \in Dirs |-> 1] /\ pc = "idle" /\ dir \in Dirs
      /\ cluster = <<>> /\ bhs = {} /\ lost = {} /\ stale = {}
  BY DEF Init
<1>2. free_clusters \in -1..(max_cluster - 2) /\ free_clus_valid \in BOOLEAN /\ CountRight
  <2>1. max_cluster - 2 \in Nat /\ Cardinality(Free) \in Nat /\ Cardinality(Free) <= max_cluster - 2
    BY <1>0, FreeFinite
  <2>2. \/ free_clus_valid = FALSE /\ free_clusters \in -1..(max_cluster - 2)
        \/ free_clus_valid = TRUE /\ free_clusters = Cardinality(Free)
    BY DEF Init
  <2>3. free_clusters \in -1..(max_cluster - 2)
    BY <2>1, <2>2
  <2> QED
    BY <2>2, <2>3 DEF CountRight
<1>3. TypeOK
  <2>1. fat \in [Clusters -> Clusters \cup {FREE, EOF}]
    BY <1>1
  <2>2. size \in [Dirs -> 1..(max_cluster - 2)]
    BY <1>0, <1>1
  <2>3. cluster \in Seq(Clusters) /\ Len(cluster) <= 2
    BY <1>1
  <2> QED
    BY <1>1, <1>2, <2>1, <2>2, <2>3 DEF TypeOK, Labels
<1>4. ASSUME NEW d \in Dirs
      PROVE  /\ Length(d) = 1 /\ Ends(fat, start[d], 1) /\ Members(start[d]) = {start[d]}
  <2>1. Length(d) = 1
    BY <1>1 DEF Length
  <2> DEFINE c == start[d]
  <2>2. c \in Clusters /\ fat[c] = EOF
    BY <1>0, <1>1 DEF Range
  <2> HIDE DEF c
  <2>3. At(fat, c)[0] = c /\ At(fat, c)[1] = EOF
    <3>1. 1 \in 1..max_cluster /\ 1 - 1 = 0
      BY <1>0
    <3>2. At(fat, c)[1] = Follow(fat, At(fat, c)[0])
      BY <3>1, AtDef
    <3>3. At(fat, c)[0] = c
      BY AtDef
    <3> QED
      BY <2>2, <3>2, <3>3 DEF Follow
  <2>4. Ends(fat, c, 1)
    BY <2>2, <2>3 DEF Ends
  <2>5. MembersOf(fat, c) = {At(fat, c)[i] : i \in 0..(1 - 1)}
    <3>1. 1 \in 1..max_cluster
      BY <1>0
    <3> QED
      BY <2>4, <3>1, EndsMembers
  <2>6. 0..(1 - 1) = {0}
    OBVIOUS
  <2>7. Members(c) = {c}
    BY <2>3, <2>5, <2>6 DEF Members, MembersOf
  <2> QED
    BY <2>1, <2>4, <2>7 DEF c
<1>5. DirsChained
  <2>1. 1 \in 1..(max_cluster - 2)
    BY <1>0
  <2> QED
    BY <1>0, <1>4, <2>1 DEF DirsChained
<1>6. Pair /\ Copying
  BY <1>1 DEF Pair, Flying, Copying
<1>7. NoLeak
  <2>1. Clusters \ Free = Range(start)
    <3>1. EOF # FREE /\ Range(start) \subseteq Clusters
      BY <1>0, Sizes DEF Range
    <3> QED
      BY <1>1, <3>1 DEF Free
  <2>2. UNION {Members(start[d]) : d \in Dirs} = Range(start)
    <3>1. UNION {Members(start[d]) : d \in Dirs} = {start[d] : d \in Dirs}
      BY <1>4
    <3> QED
      BY <1>0, <3>1 DEF Range
  <2>3. InFlight = {}
    BY <1>1 DEF InFlight
  <2> QED
    BY <1>1, <2>1, <2>2, <2>3 DEF NoLeak
<1>8. Copied
  BY <1>1 DEF Copied
<1> QED
  BY <1>2, <1>3, <1>5, <1>6, <1>7, <1>8 DEF TableInv

LEMMA TableNext ==
  ASSUME TableInv, [Next]_vars, "link" \notin Fail
  PROVE  TableInv'
<1>1. CASE UNCHANGED vars
  BY <1>1, Still
<1>2. CASE AllocRefused
  BY <1>2, Still DEF AllocRefused
<1>3. CASE Alloc
  BY <1>3, AllocStep
<1>4. CASE AllocNoSpace
  BY <1>4, NoSpaceStep
<1>5. CASE AllocReadError
  BY <1>5, ReadErrorStep
<1>6. CASE AllocDone \/ Fill \/ NoLast
  BY <1>6, OnStep
<1>7. CASE Mirror
  BY <1>7, MirrorStep
<1>8. CASE MirrorFails
  BY <1>8, MirrorFailsStep
<1>9. CASE Link
  BY <1>9, LinkStep
<1>10. CASE Grow
  BY <1>10, GrowStep
<1>11. CASE FreeChain
  BY <1>11, FreeChainStep
<1>12. CASE FreeReadError
  BY <1>12, FreeErrorStep
<1>13. CASE FreeDone
  BY <1>13, FreeDoneStep
<1> QED
  BY <1>1, <1>2, <1>3, <1>4, <1>5, <1>6, <1>7, <1>8, <1>9, <1>10, <1>11, <1>12, <1>13 DEF Next

(* The invariant holds after every sequence of growths of directories, with    *)
(* failures of searches, mirrors, fills, reads of the last cluster and frees.  *)
THEOREM TableHolds ==
  ASSUME "link" \notin Fail
  PROVE  Spec => []TableInv
<1>1. Init => TableInv
  BY TableInit
<1>2. TableInv /\ [Next]_vars => TableInv'
  BY TableNext
<1> QED
  BY <1>1, <1>2, PTL DEF Spec

(* A directory's chain ends where its size says and meets no other, whatever   *)
(* fat_alloc_clusters, fat_chain_add and fat_free_clusters have done.          *)
THEOREM TableChains ==
  ASSUME "link" \notin Fail
  PROVE  Spec => []ChainsSound
<1>1. TableInv => ChainsSound
  <2> SUFFICES ASSUME TableInv PROVE ChainsSound
    OBVIOUS
  <2>1. \A d \in Dirs : \E n \in 1..max_cluster :
          /\ Ends(fat, start[d], n)
          /\ n = size[d] + IF pc = "l_mirror" /\ d = dir THEN Len(cluster) ELSE 0
    <3>1. \A d \in Dirs : Length(d) \in 1..max_cluster /\ Ends(fat, start[d], Length(d))
      BY ChainOf DEF TableInv
    <3> QED
      BY <3>1 DEF Length
  <2>2. InFlight # {} => Ends(fat, cluster[1], Len(cluster))
    <3> SUFFICES ASSUME InFlight # {} PROVE Ends(fat, cluster[1], Len(cluster))
      OBVIOUS
    <3>1. InRow(fat, cluster)
      BY DEF InFlight, TableInv, Pair, Flying
    <3> QED
      BY <3>1, RowChain
  <2>3. \A d \in Dirs : Members(start[d]) \cap InFlight = {}
    BY DEF InFlight, TableInv, Pair, Flying
  <2>4. \A d \in Dirs : \A e \in Dirs \ {d} : Members(start[d]) \cap Members(start[e]) = {}
    BY DEF TableInv, DirsChained
  <2> QED
    BY <2>1, <2>2, <2>3, <2>4 DEF ChainsSound
<1> QED
  BY <1>1, TableHolds, PTL

(* Every cluster is free, in a directory, in flight or lost by a failed free,  *)
(* and a valid free_clusters is the number of free ones.                       *)
THEOREM TableAccounts ==
  ASSUME "link" \notin Fail
  PROVE  Spec => []Accounts
<1>1. TableInv => Accounts
  BY DEF TableInv, Accounts
<1> QED
  BY <1>1, TableHolds, PTL

(* Where the backup table differs, the block is still to be copied or an error *)
(* was reported.                                                               *)
THEOREM TableBackup ==
  ASSUME "link" \notin Fail
  PROVE  Spec => []BackupFollows
<1>1. TableInv => BackupFollows
  <2> SUFFICES ASSUME TableInv PROVE BackupFollows
    OBVIOUS
  <2>1. Giving \subseteq Blocks(InFlight)
    BY DEF Giving, InFlight
  <2> QED
    BY <2>1 DEF TableInv, Copied, BackupFollows
<1> QED
  BY <1>1, TableHolds, PTL

-----------------------------------------------------------------------------
(* Numbers.                                                                    *)

LEMMA DivMod ==
  ASSUME NEW a \in Nat, NEW k \in Nat \ {0}
  PROVE  a \div k \in Nat /\ a % k \in 0..(k - 1) /\ a = k * (a \div k) + (a % k)
OBVIOUS

LEMMA DivUnique ==
  ASSUME NEW k \in Nat \ {0}, NEW b \in Nat, NEW c \in 0..(k - 1)
  PROVE  (k * b + c) \div k = b /\ (k * b + c) % k = c
OBVIOUS

LEMMA TimesNat ==
  ASSUME NEW a \in Nat, NEW b \in Nat
  PROVE  a * b \in Nat
OBVIOUS

LEMMA TimesMonotone ==
  ASSUME NEW a \in Nat, NEW b \in Nat, NEW k \in Nat, a <= b
  PROVE  a * k <= b * k
OBVIOUS

-----------------------------------------------------------------------------
(* Places in a directory.                                                     *)

Most == MaxBlocks * dir_per_block

LEMMA LeastOf ==
  ASSUME NEW T, T \subseteq Nat, T # {}
  PROVE  MinOf(T) \in T /\ \A y \in T : MinOf(T) <= y
BY LeastNumber DEF MinOf

LEMMA MostOf ==
  ASSUME NEW T, NEW m \in Nat, T \subseteq 0..m, T # {}
  PROVE  MaxOf(T) \in T /\ \A y \in T : y <= MaxOf(T)
<1> DEFINE U == {m - y : y \in T}
<1>1. U \subseteq Nat /\ U # {}
  <2>1. \A y \in T : m - y \in Nat
    OBVIOUS
  <2> QED
    BY <2>1
<1>2. PICK u \in U : \A z \in U : u <= z
  <2> HIDE DEF U
  <2> QED
    BY <1>1, LeastNumber
<1>3. PICK x \in T : u = m - x
  BY <1>2
<1>4. \A y \in T : y <= x
  <2> TAKE y \in T
  <2>1. u <= m - y
    BY <1>2
  <2> QED
    BY <1>3, <2>1
<1> QED
  BY <1>3, <1>4 DEF MaxOf

LEMMA SizesFacts ==
  /\ dir_per_block \in Nat \ {0} /\ MaxBlocks \in Nat /\ Start \in Nat \ {0} /\ Start <= MaxBlocks
  /\ Most \in Nat /\ Start * dir_per_block \in Nat /\ Start * dir_per_block <= Most
<1>1. dir_per_block \in Nat \ {0} /\ MaxBlocks \in Nat /\ Start \in Nat \ {0} /\ Start <= MaxBlocks
  BY SizesAssumption
<1>2. Most \in Nat /\ Start * dir_per_block \in Nat
  BY <1>1, TimesNat DEF Most
<1>3. Start * dir_per_block <= Most
  BY <1>1, TimesMonotone DEF Most
<1> QED
  BY <1>1, <1>2, <1>3

(* The slots of a block.                                                       *)
LEMMA SlotsAre ==
  ASSUME NEW b \in Nat \ {0}, NEW p \in BlockSlots(b)
  PROVE  p \in Nat \ {0} /\ BlockOf(p) = b
<1> DEFINE c == p - ((b - 1) * dir_per_block + 1)
           a == b - 1
<1>1. dir_per_block \in Nat \ {0} /\ a \in Nat /\ a * dir_per_block \in Nat
  BY SizesFacts, TimesNat
<1>2. b * dir_per_block = a * dir_per_block + dir_per_block
  BY <1>1
<1>3. p \in a * dir_per_block + 1 .. a * dir_per_block + dir_per_block
  BY <1>2 DEF BlockSlots
<1>4. c \in 0 .. dir_per_block - 1 /\ p - 1 = dir_per_block * a + c
  BY <1>1, <1>3
<1> HIDE DEF c
<1>5. (dir_per_block * a + c) \div dir_per_block = a
  BY <1>1, <1>4, DivUnique
<1> QED
  BY <1>1, <1>3, <1>4, <1>5 DEF BlockOf

LEMMA InItsBlock ==
  ASSUME NEW p \in Nat \ {0}
  PROVE  BlockOf(p) \in Nat \ {0} /\ p \in BlockSlots(BlockOf(p)) /\ p <= BlockOf(p) * dir_per_block
<1> DEFINE a == (p - 1) \div dir_per_block
           c == (p - 1) % dir_per_block
<1>1. dir_per_block \in Nat \ {0} /\ p - 1 \in Nat
  BY SizesFacts
<1>2. a \in Nat /\ c \in 0 .. dir_per_block - 1 /\ p - 1 = dir_per_block * a + c
  BY <1>1, DivMod
<1>3. BlockOf(p) = a + 1
  BY DEF BlockOf
<1> HIDE DEF a, c
<1>4. a * dir_per_block \in Nat /\ dir_per_block * a = a * dir_per_block /\ (a + 1) * dir_per_block = a * dir_per_block + dir_per_block
  BY <1>1, <1>2, TimesNat
<1>5. p \in a * dir_per_block + 1 .. (a + 1) * dir_per_block /\ p <= (a + 1) * dir_per_block
  BY <1>1, <1>2, <1>4
<1>6. (a + 1) - 1 = a
  BY <1>2
<1> QED
  BY <1>2, <1>3, <1>5, <1>6 DEF BlockSlots

LEMMA UpTo ==
  ASSUME NEW a \in Int, NEW n \in Int, a <= n + 1
  PROVE  Cardinality(a .. n) = n - a + 1
<1>1. Cardinality(a .. n) = IF a > n THEN 0 ELSE n - a + 1
  BY FS_Interval
<1> QED
  BY <1>1

(* Where every block can be read, the path goes through all places.            *)
LEMMA PathIs ==
  ASSUME Bad = {}
  PROVE  Path = [i \in 1 .. Most |-> i]
<1> DEFINE good == {p \in 1 .. MaxBlocks * dir_per_block : BlockOf(p) \notin Bad}
<1>1. good = 1 .. Most /\ Most \in Nat
  BY SizesFacts DEF Most
<1>2. Cardinality(good) = Most
  <2>1. Cardinality(1 .. Most) = Most - 1 + 1
    BY <1>1, UpTo
  <2> HIDE DEF good
  <2> QED
    BY <1>1, <2>1
<1>3. \A i \in 1 .. Most : (CHOOSE p \in good : Cardinality({q \in good : q <= p}) = i) = i
  <2> TAKE i \in 1 .. Most
  <2>1. \A p \in good : Cardinality({q \in good : q <= p}) = p
    <3> TAKE p \in good
    <3> DEFINE low == {q \in good : q <= p}
    <3>1. low = 1 .. p
      BY <1>1
    <3>2. p \in Nat \ {0}
      BY <1>1
    <3> HIDE DEF good, low
    <3>3. Cardinality(1 .. p) = p - 1 + 1
      BY <3>2, UpTo
    <3>4. Cardinality(low) = p
      BY <3>1, <3>2, <3>3
    <3> QED
      BY <3>4 DEF low
  <2>2. i \in good
    BY <1>1
  <2> HIDE DEF good
  <2> QED
    BY <2>1, <2>2
<1> HIDE DEF good
<1>4. Path = [i \in 1 .. Cardinality(good) |-> CHOOSE p \in good : Cardinality({q \in good : q <= p}) = i]
  BY DEF Path, good
<1> QED
  BY <1>2, <1>3, <1>4

LEMMA SeenIs ==
  ASSUME Bad = {}, NEW S, NEW s \in Seq(S), Len(s) <= Most
  PROVE  Seen(s) = s /\ DOMAIN s = 1 .. Len(s) /\ SlotsIn(Seen(s)) = Len(s)
<1>1. Most \in Nat /\ Len(s) \in Nat /\ DOMAIN s = 1 .. Len(s) /\ s = [i \in 1 .. Len(s) |-> s[i]]
  BY SizesFacts
<1>2. {i \in DOMAIN Path : Path[i] <= Len(s)} = 1 .. Len(s)
  BY <1>1, PathIs
<1>3. Seen(s) = [i \in 1 .. Len(s) |-> s[Path[i]]]
  BY <1>2 DEF Seen
<1>4. \A i \in 1 .. Len(s) : Path[i] = i
  BY <1>1, PathIs
<1>5. Seen(s) = s
  BY <1>1, <1>3, <1>4
<1>6. Cardinality(1 .. Len(s)) = Len(s)
  <2> DEFINE n == Len(s)
  <2>1. n \in Nat
    BY <1>1
  <2> HIDE DEF n
  <2>2. Cardinality(1 .. n) = n - 1 + 1
    BY <2>1, UpTo
  <2>3. Cardinality(1 .. n) = n
    BY <2>1, <2>2
  <2> QED
    BY <2>3 DEF n
<1> QED
  BY <1>1, <1>5, <1>6 DEF SlotsIn

-----------------------------------------------------------------------------
(* Slots and runs of them.                                                    *)

Tailed == {a \in Alias : a[2] # NoTail}

SlotRecs ==
  [kind : {"free", "long", "short"}, name : Names \cup {None}, id : Nat, last : BOOLEAN, alias : Alias \cup {None}]

SlotOK(x) ==
  /\ x.kind = "long" => x.name \in Names /\ x.alias \in Tailed
  /\ x.kind = "short" => x.alias \in Alias

SlotSet == {x \in SlotRecs : SlotOK(x)}

(* The alias that a name may get.                                             *)
Fitting(n, a) == a \in Alias /\ a[1] = Base[n] /\ (Longs[n] = 0 <=> a[2] = NoTail)

LEMMA SlotFacts ==
  /\ FreeSlot \in SlotSet /\ FreeSlot.kind = "free"
  /\ \A a \in Alias : /\ Slot("short", None, 0, FALSE, a) \in SlotSet
                      /\ Slot("short", None, 0, FALSE, a).kind = "short"
                      /\ Slot("short", None, 0, FALSE, a).alias = a
  /\ \A n \in Names, j \in Nat, l \in BOOLEAN, a \in Tailed : Slot("long", n, j, l, a) \in SlotSet
<1>1. FreeSlot \in SlotSet /\ FreeSlot.kind = "free"
  BY DEF FreeSlot, Slot, SlotSet, SlotRecs, SlotOK
<1>2. \A a \in Alias : /\ Slot("short", None, 0, FALSE, a) \in SlotSet
                       /\ Slot("short", None, 0, FALSE, a).kind = "short"
                       /\ Slot("short", None, 0, FALSE, a).alias = a
  BY DEF Slot, SlotSet, SlotRecs, SlotOK
<1>3. \A n \in Names, j \in Nat, l \in BOOLEAN, a \in Tailed : Slot("long", n, j, l, a) \in SlotSet
  <2> TAKE n \in Names, j \in Nat, l \in BOOLEAN, a \in Tailed
  <2>1. a \in Alias
    BY DEF Tailed
  <2> QED
    BY <2>1 DEF Slot, SlotSet, SlotRecs, SlotOK
<1> QED
  BY <1>1, <1>2, <1>3

LEMMA BuildIs ==
  ASSUME NEW n \in Names, NEW a, Fitting(n, a)
  PROVE  /\ BuildSlots(n, a) \in Seq(SlotSet) /\ Longs[n] \in Nat /\ Len(BuildSlots(n, a)) = Longs[n] + 1
         /\ \A i \in 1 .. Longs[n] : BuildSlots(n, a)[i] = Slot("long", n, Longs[n] - i + 1, i = 1, a)
         /\ BuildSlots(n, a)[Longs[n] + 1] = Slot("short", None, 0, FALSE, a)
<1> DEFINE k == Longs[n]
           x == [i \in 1 .. k |-> Slot("long", n, k - i + 1, i = 1, a)]
           y == Slot("short", None, 0, FALSE, a)
<1>1. k \in Nat
  BY NamesAssumption
<1>2. y \in SlotSet
  BY SlotFacts DEF Fitting
<1>3. \A i \in 1 .. k : Slot("long", n, k - i + 1, i = 1, a) \in SlotSet
  <2> TAKE i \in 1 .. k
  <2>1. a \in Tailed
    BY <1>1 DEF Fitting, Tailed
  <2>2. k - i + 1 \in Nat /\ (i = 1) \in BOOLEAN
    BY <1>1
  <2> HIDE DEF k
  <2> QED
    BY <2>1, <2>2, SlotFacts
<1>4. x \in Seq(SlotSet) /\ Len(x) = k /\ \A i \in 1 .. k : x[i] = Slot("long", n, k - i + 1, i = 1, a)
  <2> HIDE DEF k
  <2> QED
    BY <1>1, <1>3
<1>5. BuildSlots(n, a) = x \o <<y>>
  BY DEF BuildSlots
<1> HIDE DEF x, y, k
<1>6. <<y>> \in Seq(SlotSet) /\ Len(<<y>>) = 1 /\ <<y>>[1] = y
  BY <1>2
<1>7. x \o <<y>> \in Seq(SlotSet) /\ Len(x \o <<y>>) = k + 1
  BY <1>1, <1>4, <1>6
<1>8. \A i \in 1 .. k : (x \o <<y>>)[i] = x[i]
  BY <1>1, <1>4, <1>6
<1>9. (x \o <<y>>)[k + 1] = y
  BY <1>1, <1>4, <1>6
<1> QED
  BY <1>1, <1>4, <1>5, <1>7, <1>8, <1>9 DEF k, y

(* A row of places from s on, up to the end of the directory if it is short.   *)
Row(at, s, k, m) ==
  /\ at \in Seq(Nat) /\ Len(at) <= k /\ s + Len(at) <= m + 1
  /\ \A i \in 1 .. Len(at) : at[i] = s + i - 1
  /\ Len(at) < k => s + Len(at) = m + 1

LEMMA PathPart ==
  ASSUME Bad = {}, NEW a \in Nat \ {0}, NEW b \in Nat, b <= Most, a <= b + 1
  PROVE  /\ SubSeq(Path, a, b) \in Seq(Nat) /\ Len(SubSeq(Path, a, b)) = b - a + 1
         /\ \A i \in 1 .. b - a + 1 : SubSeq(Path, a, b)[i] = a + i - 1
<1>1. Most \in Nat
  BY SizesFacts
<1>2. Path = [i \in 1 .. Most |-> i]
  BY PathIs
<1>3. Path \in Seq(Nat) /\ Len(Path) = Most
  BY <1>1, <1>2
<1> DEFINE q == SubSeq(Path, a, b)
<1>4. /\ q \in Seq(Nat) /\ Len(q) = (IF a <= b THEN b - a + 1 ELSE 0)
      /\ \A i \in 1 .. b - a + 1 : q[i] = Path[a + i - 1]
  BY <1>1, <1>3, SubSeqProperties
<1>5. Len(q) = b - a + 1
  BY <1>4
<1>6. \A i \in 1 .. b - a + 1 : a + i - 1 \in 1 .. Most
  BY <1>1
<1> HIDE DEF q
<1>7. \A i \in 1 .. b - a + 1 : q[i] = a + i - 1
  BY <1>2, <1>4, <1>6
<1> QED
  BY <1>4, <1>5, <1>7 DEF q

(* Where fat_add_entries puts k slots: a row of free ones.                      *)
LEMMA FreeRunIs ==
  ASSUME Bad = {}, mem \in Seq(SlotSet), Len(mem) <= Most, NEW k \in Nat \ {0}
  PROVE  \E s \in Nat \ {0} : /\ Row(FreeRun(k), s, k, Len(mem))
                              /\ \A i \in 1 .. Len(FreeRun(k)) : mem[s + i - 1].kind = "free"
<1> DEFINE m == Len(mem)
           FreeFrom(i, c) == \A j \in i .. (i + c - 1) : mem[j].kind = "free"
           full == {i \in 1 .. (m - k + 1) : FreeFrom(i, k)}
           tail == {c \in 0 .. m : FreeFrom(m - c + 1, c)}
<1>1. m \in Nat /\ m <= Most /\ Most \in Nat /\ Seen(mem) = mem /\ SlotsIn(Seen(mem)) = m
  BY SeenIs, SizesFacts
<1>2. FreeRun(k) = IF full # {} THEN SubSeq(Path, MinOf(full), MinOf(full) + k - 1)
                   ELSE SubSeq(Path, m - MaxOf(tail) + 1, m)
  BY <1>1 DEF FreeRun
<1> HIDE DEF m, full, tail
<1>3. CASE full # {}
  <2> DEFINE s == MinOf(full)
  <2>1. s \in full
    <3>1. full \subseteq Nat
      BY <1>1 DEF full
    <3> QED
      BY <1>3, <3>1, LeastOf
  <2> HIDE DEF s
  <2>2. s \in Nat \ {0} /\ s + k - 1 <= m /\ FreeFrom(s, k)
    <3>1. s \in 1 .. (m - k + 1) /\ FreeFrom(s, k)
      BY <2>1 DEF full
    <3> QED
      BY <1>1, <3>1
  <2> DEFINE at == SubSeq(Path, s, s + k - 1)
             b  == s + k - 1
  <2>3. b \in Nat /\ b <= Most /\ s <= b + 1 /\ b - s + 1 = k
    BY <1>1, <2>2
  <2>4. at \in Seq(Nat) /\ Len(at) = k /\ \A i \in 1 .. k : at[i] = s + i - 1
    <3> HIDE DEF b
    <3>1. /\ SubSeq(Path, s, b) \in Seq(Nat) /\ Len(SubSeq(Path, s, b)) = k
          /\ \A i \in 1 .. k : SubSeq(Path, s, b)[i] = s + i - 1
      BY <2>2, <2>3, PathPart
    <3> QED
      BY <3>1 DEF b
  <2>5. FreeRun(k) = at
    BY <1>2, <1>3 DEF s
  <2> HIDE DEF at, b
  <2>6. Row(at, s, k, m)
    BY <1>1, <2>2, <2>4 DEF Row
  <2>7. \A i \in 1 .. k : mem[s + i - 1].kind = "free"
    BY <2>2
  <2> QED
    BY <2>2, <2>4, <2>5, <2>6, <2>7 DEF m
<1>4. CASE full = {}
  <2> DEFINE c == MaxOf(tail)
             s == m - c + 1
  <2>1. c \in tail /\ \A y \in tail : y <= c
    <3>1. tail \subseteq 0 .. m /\ 0 \in tail
      BY <1>1 DEF tail
    <3> QED
      BY <1>1, <3>1, MostOf
  <2>2. c \in 0 .. m /\ FreeFrom(m - c + 1, c)
    BY <2>1 DEF tail
  <2> HIDE DEF c
  <2>3. s \in Nat \ {0} /\ s + c = m + 1 /\ s <= m + 1 /\ m - s + 1 = c
    BY <1>1, <2>2
  <2>4. c < k
    <3> SUFFICES ASSUME k <= c PROVE FALSE
      BY <2>2
    <3> DEFINE i == m - k + 1
    <3>1. i \in 1 .. (m - k + 1)
      BY <1>1, <2>2
    <3>2. FreeFrom(i, k)
      <4> TAKE j \in i .. (i + k - 1)
      <4>1. j \in (m - c + 1) .. ((m - c + 1) + c - 1)
        BY <1>1, <2>2
      <4> QED
        BY <2>2, <4>1
    <3> QED
      BY <1>4, <3>1, <3>2 DEF full
  <2> DEFINE at == SubSeq(Path, s, m)
  <2>5. at \in Seq(Nat) /\ Len(at) = c /\ \A i \in 1 .. c : at[i] = s + i - 1
    <3> HIDE DEF s
    <3>1. /\ at \in Seq(Nat) /\ Len(at) = m - s + 1
          /\ \A i \in 1 .. m - s + 1 : at[i] = s + i - 1
      BY <1>1, <2>3, PathPart
    <3> QED
      BY <2>3, <3>1
  <2>6. FreeRun(k) = at
    BY <1>2, <1>4 DEF c
  <2>7. \A i \in 1 .. c : mem[s + i - 1].kind = "free"
    <3> TAKE i \in 1 .. c
    <3>1. s + i - 1 \in (m - c + 1) .. ((m - c + 1) + c - 1)
      BY <1>1, <2>2
    <3> QED
      BY <2>2, <3>1
  <2> HIDE DEF at, s
  <2>8. Row(at, s, k, m)
    BY <1>1, <2>2, <2>3, <2>4, <2>5 DEF Row
  <2> QED
    BY <2>3, <2>5, <2>6, <2>7, <2>8 DEF m
<1> QED
  BY <1>3, <1>4

-----------------------------------------------------------------------------
(* The invariant for short names.                                             *)

Adds == {"long", "long sync", "short sync"}
Pcs  == Adds \cup {"none", "gone", "erase", "erase sync"}

OpTyped ==
  /\ op = [pc |-> op.pc, slots |-> op.slots, at |-> op.at, pos |-> op.pos, left |-> op.left, before |-> op.before]
  /\ op.pc \in Pcs /\ op.at \in Seq(Nat) /\ op.pos \in Nat /\ op.left \in Nat
  /\ op.pc = "none" => op = NoOp

DirTypes ==
  /\ mem \in Seq(SlotSet) /\ disk \in Seq(SlotSet) /\ Len(disk) = Len(mem) /\ Len(mem) <= Most
  /\ OpTyped
  /\ failing \in DirFailures

(* No two short slots are the same, in the buffers or on the disk.            *)
Unique(v) ==
  \A p, q \in 1 .. Len(v) : v[p].kind = "short" /\ v[q].kind = "short" /\ v[p].alias = v[q].alias => p = q

(* Whether slot i of those to be added is in the directory.                    *)
Placed(i) == op.pc = "short sync" \/ (op.pc = "long sync" /\ BlockOf(op.at[i]) \in LongBlocks)

(* Name n is being added with alias a, from place s on.                        *)
Adding(n, a, s) ==
  /\ Fitting(n, a) /\ op.slots = BuildSlots(n, a)
  /\ Row(op.at, s, Longs[n] + 1, Len(mem))
  /\ \A i \in 1 .. Len(op.at) : IF Placed(i) THEN mem[s + i - 1] = op.slots[i] ELSE mem[s + i - 1].kind = "free"
  /\ \A q \in 1 .. Len(mem) :
       mem[q].kind = "short" /\ mem[q].alias = a => op.pc = "short sync" /\ Fits /\ q = s + Longs[n]

AddRight == op.pc \in Adds => \E n \in Names, a \in Alias, s \in Nat \ {0} : Adding(n, a, s)

(* The short slot of what is being removed is gone from the buffers.           *)
GoneRight ==
  op.pc = "gone" => Len(op.at) = 1 /\ op.at[1] \in 1 .. Len(mem) /\ mem[op.at[1]].kind # "short"

(* What is to be erased has no short slot, but for an entry whose writing failed. *)
EraseRight ==
  op.pc = "gone" \/ (op.pc \in {"erase", "erase sync"} /\ "sync" \notin failing) =>
    /\ op.pos # 0
    /\ \A q \in op.pos .. op.pos + op.left - 1 : q \in 1 .. Len(mem) => mem[q].kind # "short"

(* The short slot that may be on the disk and not in the buffers, or the other *)
(* way round.                                                                  *)
Pending ==
  IF op.pc = "short sync" /\ Fits THEN {op.at[Len(op.at)]} ELSE IF op.pc = "gone" THEN {op.at[1]} ELSE {}

Alike(x, y) == (x.kind = "short" <=> y.kind = "short") /\ (x.kind = "short" => y.alias = x.alias)

(* Where the system may stop, the disk has the short slots of the buffers, and *)
(* one that it has or lacks besides is of an alias that no other slot has.     *)
DiskRight ==
  "crash" \in failing =>
    /\ "sync" \notin failing
    /\ \A i \in 1 .. Len(mem) : i \notin Pending => Alike(mem[i], disk[i])
    /\ \A i \in Pending : disk[i].kind = "short" =>
         \A q \in 1 .. Len(mem) : q # i /\ mem[q].kind = "short" => mem[q].alias # disk[i].alias

AliasInv == DirTypes /\ Unique(mem) /\ AddRight /\ GoneRight /\ EraseRight /\ DiskRight

-----------------------------------------------------------------------------
(* What the steps do.                                                         *)

LEMMA TailFits ==
  ASSUME Bad = {}, mem \in Seq(SlotSet), Len(mem) <= Most, NEW n \in Names, NEW t \in ShortTails(n)
  PROVE  /\ Fitting(n, <<Base[n], t>>)
         /\ \A q \in 1 .. Len(mem) : mem[q].kind = "short" => mem[q].alias # <<Base[n], t>>
<1> DEFINE a == <<Base[n], t>>
           free == {i \in 1 .. Len(Tails) : Tails[i] \in Untaken(Range(Tails), n)}
<1>1. Seen(mem) = mem /\ DOMAIN mem = 1 .. Len(mem)
  BY SeenIs
<1>2. Len(Tails) \in Nat /\ free \subseteq Nat
  BY TailsAssumption
<1>3. free # {} => Tails[MinOf(free)] \in Untaken(Range(Tails), n)
  <2>1. free # {} => MinOf(free) \in free
    <3> HIDE DEF free
    <3> QED
      BY <1>2, LeastOf
  <2> QED
    BY <2>1
<1>4. \/ Longs[n] = 0 /\ t \in Untaken({NoTail}, n)
      \/ Longs[n] # 0 /\ t \in Untaken(Range(Tails), n)
      \/ Longs[n] # 0 /\ t \in Untaken(Random, n)
  <2> HIDE DEF free
  <2>1. t \in IF Longs[n] = 0 THEN Untaken({NoTail}, n)
              ELSE IF free # {} THEN {Tails[MinOf(free)]} ELSE Untaken(Random, n)
    BY DEF ShortTails, free
  <2> QED
    BY <1>3, <2>1
<1>5. /\ Scan(mem, a) = {}
      /\ t \in {NoTail} \cup Range(Tails) \cup Random
      /\ Longs[n] = 0 <=> t = NoTail
  BY <1>4, TailsAssumption DEF Untaken
<1>6. a \in Alias /\ a[1] = Base[n] /\ a[2] = t
  BY <1>5 DEF Alias
<1>7. Fitting(n, a)
  BY <1>5, <1>6 DEF Fitting
<1>8. \A q \in 1 .. Len(mem) : mem[q].kind = "short" => mem[q].alias # a
  <2> HIDE DEF a
  <2> QED
    BY <1>1, <1>5 DEF Scan, Shorts
<1> QED
  BY <1>7, <1>8

LEMMA AddFacts ==
  ASSUME mem \in Seq(SlotSet), NEW n \in Names, NEW a \in Alias, NEW s \in Nat \ {0}, Adding(n, a, s)
  PROVE  /\ Longs[n] \in Nat /\ Len(op.slots) = Longs[n] + 1 /\ Len(op.at) \in Nat /\ Len(op.at) <= Longs[n] + 1
         /\ Fits <=> Len(op.at) = Longs[n] + 1
         /\ ~Fits => s + Len(op.at) = Len(mem) + 1
         /\ s + Len(op.at) <= Len(mem) + 1
         /\ \A i \in 1 .. Len(op.at) : op.at[i] = s + i - 1 /\ s + i - 1 \in 1 .. Len(mem)
         /\ \A i \in 1 .. Longs[n] + 1 : op.slots[i] \in SlotSet /\ (op.slots[i].kind = "short" <=> i = Longs[n] + 1)
         /\ op.slots[Longs[n] + 1].alias = a
         /\ \A i \in 1 .. Longs[n] : op.slots[i] = Slot("long", n, Longs[n] - i + 1, i = 1, a)
         /\ op.slots \in Seq(SlotSet)
         /\ op.slots[Longs[n] + 1] = Slot("short", None, 0, FALSE, a)
<1>1. /\ BuildSlots(n, a) \in Seq(SlotSet) /\ Longs[n] \in Nat /\ Len(BuildSlots(n, a)) = Longs[n] + 1
      /\ \A i \in 1 .. Longs[n] : BuildSlots(n, a)[i] = Slot("long", n, Longs[n] - i + 1, i = 1, a)
      /\ BuildSlots(n, a)[Longs[n] + 1] = Slot("short", None, 0, FALSE, a)
  BY BuildIs DEF Adding
<1>2. op.slots = BuildSlots(n, a) /\ Row(op.at, s, Longs[n] + 1, Len(mem))
  BY DEF Adding
<1>3. op.slots[Longs[n] + 1].kind = "short" /\ op.slots[Longs[n] + 1].alias = a
  BY <1>1, <1>2, SlotFacts DEF Slot
<1>4. \A i \in 1 .. Longs[n] : op.slots[i].kind = "long"
  <2> TAKE i \in 1 .. Longs[n]
  <2>1. op.slots[i] = Slot("long", n, Longs[n] - i + 1, i = 1, a)
    BY <1>1, <1>2
  <2>2. Slot("long", n, Longs[n] - i + 1, i = 1, a).kind = "long"
    BY DEF Slot
  <2> QED
    BY <2>1, <2>2
<1>5. op.slots \in Seq(SlotSet) /\ Len(op.slots) = Longs[n] + 1
  BY <1>1, <1>2
<1> DEFINE k == Longs[n]
           z == op.slots
<1>6. \A i \in 1 .. k + 1 : z[i] \in SlotSet /\ (z[i].kind = "short" <=> i = k + 1)
  <2>1. k \in Nat /\ z \in Seq(SlotSet) /\ Len(z) = k + 1 /\ z[k + 1].kind = "short" /\ \A i \in 1 .. k : z[i].kind = "long"
    BY <1>1, <1>3, <1>4, <1>5
  <2> HIDE DEF k, z
  <2> QED
    BY <2>1
<1>7. /\ Len(op.at) \in Nat /\ Len(op.at) <= k + 1 /\ s + Len(op.at) <= Len(mem) + 1
      /\ \A i \in 1 .. Len(op.at) : op.at[i] = s + i - 1
      /\ Len(op.at) < k + 1 => s + Len(op.at) = Len(mem) + 1
  BY <1>2 DEF Row
<1>8. Fits <=> Len(op.at) = k + 1
  BY <1>5 DEF Fits
<1> DEFINE l == Len(op.at)
           m == Len(mem)
<1>9. \A i \in 1 .. l : s + i - 1 \in 1 .. m
  <2>1. l \in Nat /\ s + l <= m + 1 /\ s \in Nat \ {0} /\ m \in Nat
    BY <1>7
  <2> HIDE DEF l, m
  <2> TAKE i \in 1 .. l
  <2> QED
    BY <2>1
<1>10. ~Fits => s + l = m + 1
  <2>1. k \in Nat /\ l \in Nat /\ l <= k + 1 /\ (l < k + 1 => s + l = m + 1) /\ (Fits <=> l = k + 1)
    BY <1>1, <1>7, <1>8
  <2> HIDE DEF l, k, m
  <2> QED
    BY <2>1
<1> QED
  BY <1>1, <1>2, <1>3, <1>5, <1>6, <1>7, <1>8, <1>9, <1>10

LEMMA AddPlaces ==
  ASSUME mem \in Seq(SlotSet), NEW n \in Names, NEW a \in Alias, NEW s \in Nat \ {0}, Adding(n, a, s)
  PROVE  /\ Longs[n] \in Nat /\ Len(op.at) \in Nat /\ Len(op.at) <= Longs[n] + 1
         /\ Fits <=> Len(op.at) = Longs[n] + 1
         /\ \A i \in 1 .. Len(op.at) : op.at[i] = s + i - 1
<1>1. Longs[n] \in Nat /\ Len(op.at) \in Nat /\ Len(op.at) <= Longs[n] + 1 /\ Len(op.slots) = Longs[n] + 1
  BY AddFacts
<1>2. Fits <=> Len(op.at) = Longs[n] + 1
  BY <1>1 DEF Fits
<1>3. \A i \in 1 .. Len(op.at) : op.at[i] = s + i - 1
  BY DEF Adding, Row
<1> QED
  BY <1>1, <1>2, <1>3

LEMMA BlocksAre ==
  ASSUME NEW p \in Nat \ {0}, NEW q
  PROVE  q \in BlockSlots(BlockOf(p)) <=> q \in Nat \ {0} /\ BlockOf(q) = BlockOf(p)
<1>1. BlockOf(p) \in Nat \ {0}
  BY InItsBlock
<1>2. ASSUME q \in BlockSlots(BlockOf(p)) PROVE q \in Nat \ {0} /\ BlockOf(q) = BlockOf(p)
  BY <1>1, <1>2, SlotsAre
<1>3. ASSUME q \in Nat \ {0}, BlockOf(q) = BlockOf(p) PROVE q \in BlockSlots(BlockOf(p))
  <2>1. q \in BlockSlots(BlockOf(q))
    BY <1>3, InItsBlock
  <2> QED
    BY <1>3, <2>1
<1> QED
  BY <1>2, <1>3

(* The slots of a block up to p, and from p on.                                *)
LEMMA HereDown ==
  ASSUME NEW p \in Nat \ {0}, NEW nr \in Nat \ {0}, nr <= p
  PROVE  \E lo \in 1 .. p :
           /\ {q \in BlockSlots(BlockOf(p)) : q <= p /\ p - q < nr} = lo .. p
           /\ Cardinality(lo .. p) = p - lo + 1 /\ p - nr + 1 <= lo
<1> DEFINE b0 == (BlockOf(p) - 1) * dir_per_block + 1
           b1 == BlockOf(p) * dir_per_block
           lo == IF b0 <= p - nr + 1 THEN p - nr + 1 ELSE b0
<1>1. BlockSlots(BlockOf(p)) = b0 .. b1 /\ p \in b0 .. b1 /\ b0 \in Nat \ {0} /\ b1 \in Nat
  <2>1. BlockOf(p) \in Nat \ {0} /\ p \in BlockSlots(BlockOf(p)) /\ dir_per_block \in Nat \ {0}
    BY InItsBlock, SizesFacts
  <2>2. BlockOf(p) - 1 \in Nat
    BY <2>1
  <2>3. (BlockOf(p) - 1) * dir_per_block \in Nat /\ BlockOf(p) * dir_per_block \in Nat
    BY <2>1, <2>2, TimesNat
  <2> QED
    BY <2>1, <2>3 DEF BlockSlots
<1> HIDE DEF b0, b1
<1>2. lo \in 1 .. p /\ p - nr + 1 <= lo
  BY <1>1
<1>3. {q \in b0 .. b1 : q <= p /\ p - q < nr} = lo .. p
  BY <1>1
<1> HIDE DEF lo
<1>4. Cardinality(lo .. p) = p - lo + 1
  BY <1>2, UpTo
<1> QED
  BY <1>1, <1>2, <1>3, <1>4

LEMMA HereUp ==
  ASSUME NEW p \in Nat \ {0}, NEW left \in Nat \ {0}
  PROVE  \E e \in Nat :
           /\ {q \in BlockSlots(BlockOf(p)) : q >= p /\ q - p < left} = p .. e
           /\ Cardinality(p .. e) = e - p + 1 /\ p <= e /\ e <= p + left - 1
<1> DEFINE b0 == (BlockOf(p) - 1) * dir_per_block + 1
           b1 == BlockOf(p) * dir_per_block
           e == IF b1 <= p + left - 1 THEN b1 ELSE p + left - 1
<1>1. BlockSlots(BlockOf(p)) = b0 .. b1 /\ p \in b0 .. b1 /\ b0 \in Nat \ {0} /\ b1 \in Nat
  <2>1. BlockOf(p) \in Nat \ {0} /\ p \in BlockSlots(BlockOf(p)) /\ dir_per_block \in Nat \ {0}
    BY InItsBlock, SizesFacts
  <2>2. BlockOf(p) - 1 \in Nat
    BY <2>1
  <2>3. (BlockOf(p) - 1) * dir_per_block \in Nat /\ BlockOf(p) * dir_per_block \in Nat
    BY <2>1, <2>2, TimesNat
  <2> QED
    BY <2>1, <2>3 DEF BlockSlots
<1> HIDE DEF b0, b1
<1>2. e \in Nat /\ p <= e /\ e <= p + left - 1
  BY <1>1
<1>3. {q \in b0 .. b1 : q >= p /\ q - p < left} = p .. e
  BY <1>1
<1> HIDE DEF e
<1>4. Cardinality(p .. e) = e - p + 1
  BY <1>2, UpTo
<1> QED
  BY <1>1, <1>2, <1>3, <1>4

LEMMA ErasedIs ==
  ASSUME mem \in Seq(SlotSet), NEW P
  PROVE  /\ Erased(P) \in Seq(SlotSet) /\ Len(Erased(P)) = Len(mem)
         /\ \A p \in 1 .. Len(mem) : Erased(P)[p] = IF p \in P THEN FreeSlot ELSE mem[p]
<1> DEFINE m == Len(mem)
<1>1. m \in Nat /\ \A p \in 1 .. m : mem[p] \in SlotSet
  OBVIOUS
<1>2. Erased(P) = [p \in 1 .. m |-> IF p \in P THEN FreeSlot ELSE mem[p]]
  BY DEF Erased
<1> HIDE DEF m
<1>3. \A p \in 1 .. m : (IF p \in P THEN FreeSlot ELSE mem[p]) \in SlotSet
  BY <1>1, SlotFacts
<1>4. Erased(P) \in Seq(SlotSet) /\ Len(Erased(P)) = m
  BY <1>1, <1>2, <1>3
<1>5. \A p \in 1 .. m : Erased(P)[p] = IF p \in P THEN FreeSlot ELSE mem[p]
  BY <1>2
<1> QED
  BY <1>4, <1>5 DEF m

LEMMA FilledIs ==
  ASSUME mem \in Seq(SlotSet), NEW n \in Names, NEW a \in Alias, NEW s \in Nat \ {0}, Adding(n, a, s), NEW blocks
  PROVE  /\ Filled(blocks) \in Seq(SlotSet) /\ Len(Filled(blocks)) = Len(mem)
         /\ \A i \in 1 .. Len(op.at) :
              Filled(blocks)[s + i - 1] = IF BlockOf(op.at[i]) \in blocks THEN op.slots[i] ELSE mem[s + i - 1]
         /\ \A p \in 1 .. Len(mem) : p \notin s .. s + Len(op.at) - 1 => Filled(blocks)[p] = mem[p]
<1> DEFINE m == Len(mem)
           l == Len(op.at)
           k == Longs[n]
           z == op.slots
           at == op.at
           in(p) == \E i \in 1 .. l : at[i] = p /\ BlockOf(p) \in blocks
           val(p) == IF in(p) THEN z[CHOOSE i \in 1 .. l : at[i] = p] ELSE mem[p]
<1>1. m \in Nat /\ \A p \in 1 .. m : mem[p] \in SlotSet
  OBVIOUS
<1>2. /\ k \in Nat /\ l \in Nat /\ l <= k + 1
      /\ \A i \in 1 .. l : at[i] = s + i - 1 /\ s + i - 1 \in 1 .. m
      /\ \A i \in 1 .. k + 1 : z[i] \in SlotSet
  BY AddFacts
<1>3. Filled(blocks) = [p \in 1 .. m |-> val(p)]
  BY DEF Filled
<1> HIDE DEF m, l, k, z, at
<1>4. \A i \in 1 .. l : (CHOOSE j \in 1 .. l : at[j] = s + i - 1) = i
  <2> TAKE i \in 1 .. l
  <2>1. \A j \in 1 .. l : at[j] = s + i - 1 <=> j = i
    BY <1>2
  <2> QED
    BY <2>1
<1>5. \A i \in 1 .. l : val(s + i - 1) = IF BlockOf(at[i]) \in blocks THEN z[i] ELSE mem[s + i - 1]
  <2> TAKE i \in 1 .. l
  <2>1. at[i] = s + i - 1
    BY <1>2
  <2>2. in(s + i - 1) <=> BlockOf(at[i]) \in blocks
    BY <2>1
  <2>3. (CHOOSE j \in 1 .. l : at[j] = s + i - 1) = i
    BY <1>4
  <2> QED
    BY <2>1, <2>2, <2>3
<1>6. \A p \in 1 .. m : p \notin s .. s + l - 1 => val(p) = mem[p]
  <2> TAKE p \in 1 .. m
  <2>1. p \notin s .. s + l - 1 => ~in(p)
    BY <1>2
  <2> QED
    BY <2>1
<1>7. \A p \in 1 .. m : val(p) \in SlotSet
  <2> TAKE p \in 1 .. m
  <2>1. CASE p \in s .. s + l - 1
    <3>1. PICK i \in 1 .. l : p = s + i - 1
      <4>1. p - s + 1 \in 1 .. l /\ p = s + (p - s + 1) - 1
        BY <1>1, <1>2, <2>1
      <4> QED
        BY <4>1
    <3>2. z[i] \in SlotSet
      <4>1. i \in 1 .. k + 1
        BY <1>2
      <4> QED
        BY <1>2, <4>1
    <3>3. mem[p] \in SlotSet
      BY <1>1
    <3> QED
      BY <1>5, <3>1, <3>2, <3>3
  <2>2. CASE p \notin s .. s + l - 1
    BY <1>1, <1>6, <2>2
  <2> QED
    BY <2>1, <2>2
<1> HIDE DEF val
<1>8. Filled(blocks) \in Seq(SlotSet) /\ Len(Filled(blocks)) = m
  BY <1>1, <1>3, <1>7
<1>9. \A i \in 1 .. l : Filled(blocks)[s + i - 1] = IF BlockOf(at[i]) \in blocks THEN z[i] ELSE mem[s + i - 1]
  BY <1>2, <1>3, <1>5
<1>10. \A p \in 1 .. m : p \notin s .. s + l - 1 => Filled(blocks)[p] = mem[p]
  BY <1>3, <1>6
<1> QED
  BY <1>8, <1>9, <1>10 DEF m, l, z, at

(* What goes to new clusters: the rest of the slots, and free ones.            *)
LEMMA GrownIs ==
  ASSUME mem \in Seq(SlotSet), NEW n \in Names, NEW a \in Alias, NEW s \in Nat \ {0}, Adding(n, a, s), ~Fits
  PROVE  /\ Grown \in Seq(SlotSet) /\ Longs[n] + 1 - Len(op.at) \in 1 .. Len(Grown)
         /\ \A i \in 1 .. Len(Grown) :
              Grown[i] = IF i <= Longs[n] + 1 - Len(op.at) THEN op.slots[Len(op.at) + i] ELSE FreeSlot
<1> DEFINE l == Len(op.at)
           k == Longs[n]
           z == op.slots
           r == k + 1 - l
           c == NrClusters * dir_per_block
           x == Rest
           y == [i \in 1 .. (c - r) |-> FreeSlot]
<1>1. /\ k \in Nat /\ l \in Nat /\ l < k + 1 /\ Len(z) = k + 1 /\ z \in Seq(SlotSet)
  <2>1. k \in Nat /\ l \in Nat /\ l <= k + 1 /\ (Fits <=> l = k + 1) /\ Len(z) = k + 1 /\ z \in Seq(SlotSet)
    BY AddFacts
  <2> HIDE DEF k, l, z
  <2> QED
    BY <2>1
<1>2. Rest = SubSeq(z, l + 1, k + 1)
  BY <1>1 DEF Rest
<1>3. x \in Seq(SlotSet) /\ Len(x) = r /\ r \in Nat \ {0} /\ \A i \in 1 .. r : x[i] = z[l + i]
  <2> HIDE DEF l, k, z
  <2>1. /\ \A i \in (l + 1) .. (k + 1) : z[i] \in SlotSet
        /\ \A i \in 1 .. r : l + i \in (l + 1) .. (k + 1) /\ (l + 1) + i - 1 = l + i
        /\ r \in Nat \ {0}
    BY <1>1
  <2>2. /\ SubSeq(z, l + 1, k + 1) \in Seq(SlotSet)
        /\ Len(SubSeq(z, l + 1, k + 1)) = r
        /\ \A i \in 1 .. r : SubSeq(z, l + 1, k + 1)[i] = z[(l + 1) + i - 1]
    <3>1. l + 1 <= k + 1 /\ (k + 1) - (l + 1) + 1 = r
      BY <1>1
    <3> QED
      BY <1>1, <3>1, SubSeqProperties
  <2> QED
    BY <1>2, <2>1, <2>2
<1>4. dir_per_block \in Nat \ {0}
  BY SizesFacts
<1>5. NrClusters = (r + dir_per_block - 1) \div dir_per_block
  BY <1>3 DEF NrClusters
<1> HIDE DEF x, r, l, k, z
<1>6. c \in Nat /\ r <= c
  <2> DEFINE u == r + dir_per_block - 1
             d == u \div dir_per_block
             f == u % dir_per_block
  <2>1. u \in Nat
    BY <1>3, <1>4
  <2>2. d \in Nat /\ f \in 0 .. dir_per_block - 1 /\ u = dir_per_block * d + f
    <3> HIDE DEF u
    <3> QED
      BY <1>4, <2>1, DivMod
  <2>3. c = d * dir_per_block
    BY <1>5
  <2> HIDE DEF d, f, c
  <2>4. d * dir_per_block \in Nat /\ dir_per_block * d = d * dir_per_block
    BY <1>4, <2>2, TimesNat
  <2> QED
    BY <1>3, <1>4, <2>2, <2>3, <2>4
<1>7. Grown = x \o y
  BY <1>3 DEF Grown, x, r
<1> HIDE DEF c
<1>8. y \in Seq(SlotSet) /\ Len(y) = c - r /\ \A i \in 1 .. c - r : y[i] = FreeSlot
  <2>1. c - r \in Nat
    BY <1>3, <1>6
  <2> QED
    BY <2>1, SlotFacts
<1> HIDE DEF y
<1>9. x \o y \in Seq(SlotSet) /\ Len(x \o y) = c
  <2>1. x \in Seq(SlotSet) /\ Len(x) = r /\ y \in Seq(SlotSet) /\ Len(y) = c - r
    BY <1>3, <1>8
  <2>2. x \o y \in Seq(SlotSet) /\ Len(x \o y) = Len(x) + Len(y)
    BY <2>1
  <2>3. r + (c - r) = c
    BY <1>3, <1>6
  <2> QED
    BY <2>1, <2>2, <2>3
<1>10. \A i \in 1 .. c : (x \o y)[i] = IF i <= r THEN z[l + i] ELSE FreeSlot
  <2> TAKE i \in 1 .. c
  <2>1. CASE i <= r
    <3>1. i \in 1 .. r
      BY <1>3, <2>1
    <3>2. (x \o y)[i] = x[i]
      BY <1>3, <1>8, <3>1
    <3> QED
      BY <1>3, <2>1, <3>1, <3>2
  <2>2. CASE ~(i <= r)
    <3>1. i - r \in 1 .. c - r
      BY <1>3, <1>6, <2>2
    <3>2. (x \o y)[i] = y[i - r]
      BY <1>3, <1>6, <1>8, <2>2
    <3> QED
      BY <1>8, <2>2, <3>1, <3>2
  <2> QED
    BY <2>1, <2>2
<1>11. /\ Grown \in Seq(SlotSet) /\ r \in 1 .. Len(Grown)
       /\ \A i \in 1 .. Len(Grown) : Grown[i] = IF i <= r THEN z[l + i] ELSE FreeSlot
  BY <1>3, <1>6, <1>7, <1>9, <1>10
<1> QED
  BY <1>11 DEF r, l, k, z

-----------------------------------------------------------------------------
(* Every step keeps the invariant for short names.                            *)

LEMMA RowFacts ==
  ASSUME mem \in Seq(SlotSet), NEW n \in Names, NEW a \in Alias, NEW s \in Nat \ {0}, Adding(n, a, s),
         NEW i \in 1 .. Len(op.at), mem[s + i - 1].kind = "short"
  PROVE  op.pc = "short sync" /\ Fits /\ i = Longs[n] + 1
<1> DEFINE k == Longs[n]
           l == Len(op.at)
<1>1. /\ k \in Nat /\ l \in Nat /\ l <= k + 1 /\ (Fits <=> l = k + 1)
      /\ \A j \in 1 .. k + 1 : op.slots[j].kind = "short" <=> j = k + 1
  BY AddFacts
<1>2. IF Placed(i) THEN mem[s + i - 1] = op.slots[i] ELSE mem[s + i - 1].kind = "free"
  BY DEF Adding
<1>3. Placed(i) /\ op.slots[i].kind = "short"
  BY <1>2
<1>4. i = k + 1 /\ l = k + 1 /\ Fits
  <2>1. i \in 1 .. l
    OBVIOUS
  <2> HIDE DEF k, l
  <2> QED
    BY <1>1, <1>3, <2>1
<1>5. BlockOf(op.at[i]) \notin LongBlocks
  <2>1. ShortBlocks = {BlockOf(op.at[i])}
    BY <1>4 DEF ShortBlocks
  <2> QED
    BY <2>1 DEF LongBlocks
<1> QED
  BY <1>3, <1>4, <1>5 DEF Placed

LEMMA PendingIn ==
  ASSUME AliasInv
  PROVE  Pending \subseteq 1 .. Len(mem)
<1>1. CASE op.pc = "short sync" /\ Fits
  <2>1. PICK n \in Names, a \in Alias, s \in Nat \ {0} : Adding(n, a, s)
    BY <1>1 DEF AliasInv, AddRight, Adds
  <2>2. mem \in Seq(SlotSet)
    BY DEF AliasInv, DirTypes
  <2> DEFINE l == Len(op.at)
             m == Len(mem)
  <2>3. /\ Longs[n] \in Nat /\ l = Longs[n] + 1
        /\ \A i \in 1 .. l : op.at[i] = s + i - 1 /\ s + i - 1 \in 1 .. m
    BY <1>1, <2>1, <2>2, AddFacts
  <2>4. Pending = {op.at[l]}
    BY <1>1 DEF Pending
  <2> HIDE DEF l, m
  <2>5. l \in 1 .. l
    BY <2>3
  <2>6. Pending \subseteq 1 .. m
    BY <2>3, <2>4, <2>5
  <2> QED
    BY <2>6 DEF m
<1>2. CASE op.pc = "gone"
  <2>1. op.at[1] \in 1 .. Len(mem)
    BY <1>2 DEF AliasInv, GoneRight
  <2>2. Pending = {op.at[1]}
    BY <1>2 DEF Pending
  <2> QED
    BY <2>1, <2>2
<1>3. CASE ~(op.pc = "short sync" /\ Fits) /\ op.pc # "gone"
  BY <1>3 DEF Pending
<1> QED
  BY <1>1, <1>2, <1>3

(* A step of the operation that changes no slot.                               *)
LEMMA OpStep ==
  ASSUME AliasInv, mem' = mem, disk' = disk, failing' = failing,
         OpTyped', AddRight', GoneRight', EraseRight', Pending' = {},
         "crash" \in failing => \A i \in Pending : disk[i] = mem[i]
  PROVE  AliasInv'
<1>1. DirTypes'
  BY DEF AliasInv, DirTypes
<1>2. Unique(mem)'
  BY DEF AliasInv, Unique
<1>3. DiskRight'
  <2> SUFFICES ASSUME "crash" \in failing
               PROVE  /\ "sync" \notin failing
                      /\ \A i \in 1 .. Len(mem) : Alike(mem[i], disk[i])
    BY DEF DiskRight, Alike
  <2>1. /\ "sync" \notin failing
        /\ \A i \in 1 .. Len(mem) : i \notin Pending => Alike(mem[i], disk[i])
    BY DEF AliasInv, DiskRight
  <2>2. \A i \in Pending : Alike(mem[i], disk[i])
    BY DEF Alike
  <2> QED
    BY <2>1, <2>2
<1> QED
  BY <1>1, <1>2, <1>3 DEF AliasInv

LEMMA NoOpFacts ==
  /\ NoOp = [pc |-> "none", slots |-> <<>>, at |-> <<>>, pos |-> 0, left |-> 0, before |-> {}]
  /\ NoOp.pc = "none" /\ NoOp.at = <<>> /\ NoOp.pos = 0 /\ NoOp.left = 0
BY DEF NoOp

LEMMA OpEnds ==
  ASSUME AliasInv, mem' = mem, disk' = disk, failing' = failing, op' = NoOp,
         "crash" \in failing => \A i \in Pending : disk[i] = mem[i]
  PROVE  AliasInv'
<1>1. OpTyped'
  BY NoOpFacts DEF OpTyped, Pcs
<1>2. AddRight' /\ GoneRight' /\ EraseRight' /\ Pending' = {}
  BY NoOpFacts DEF AddRight, GoneRight, EraseRight, Pending, Adds
<1> QED
  BY <1>1, <1>2, OpStep

LEMMA CreateIs ==
  ASSUME Bad = {}, AliasInv, NEW n \in Names, Create(n)
  PROVE  /\ op = NoOp /\ mem' = mem /\ disk' = disk /\ failing' = failing /\ filp' = filp
         /\ OpTyped' /\ op'.pc = "long" /\ op'.before = Listing(mem)
         /\ \E a \in Alias, s \in Nat \ {0} : Adding(n, a, s)'
<1>1. /\ mem \in Seq(SlotSet) /\ Len(mem) <= Most
      /\ op = NoOp /\ mem' = mem /\ disk' = disk /\ failing' = failing /\ filp' = filp
  BY DEF AliasInv, DirTypes, Create
<1>2. PICK t \in ShortTails(n) :
        op' = [NoOp EXCEPT !.pc = "long", !.slots = BuildSlots(n, <<Base[n], t>>), !.before = Listing(mem),
                           !.at = FreeRun(Len(BuildSlots(n, <<Base[n], t>>)))]
  BY DEF Create
<1> DEFINE a == <<Base[n], t>>
           k == Longs[n] + 1
           b == BuildSlots(n, a)
           at == FreeRun(Len(b))
<1>3. Fitting(n, a) /\ \A q \in 1 .. Len(mem) : mem[q].kind = "short" => mem[q].alias # a
  BY <1>1, TailFits
<1> HIDE DEF a
<1>4. Len(b) = k /\ k \in Nat \ {0}
  <2>1. Longs[n] \in Nat /\ Len(b) = Longs[n] + 1
    BY <1>3, BuildIs
  <2> QED
    BY <2>1
<1>5. PICK s \in Nat \ {0} : Row(at, s, k, Len(mem)) /\ \A i \in 1 .. Len(at) : mem[s + i - 1].kind = "free"
  <2> HIDE DEF k, b
  <2> QED
    BY <1>1, <1>4, FreeRunIs
<1>6. /\ op' = [pc |-> "long", slots |-> b, at |-> at, pos |-> 0, left |-> 0, before |-> Listing(mem)]
  BY <1>2, NoOpFacts DEF a
<1> HIDE DEF b, at
<1>7. op'.pc = "long" /\ op'.slots = b /\ op'.at = at /\ op'.pos = 0 /\ op'.left = 0 /\ op'.before = Listing(mem)
  BY <1>6
<1>8. OpTyped'
  <2>1. at \in Seq(Nat)
    BY <1>5 DEF Row
  <2> QED
    BY <1>6, <1>7, <2>1 DEF OpTyped, Pcs, Adds
<1>9. Adding(n, a, s)'
  <2>1. Row(op.at, s, Longs[n] + 1, Len(mem))'
    BY <1>1, <1>5, <1>7 DEF Row
  <2>2. \A i : ~Placed(i)'
    BY <1>7 DEF Placed
  <2>3. (\A i \in 1 .. Len(op.at) : IF Placed(i) THEN mem[s + i - 1] = op.slots[i] ELSE mem[s + i - 1].kind = "free")'
    BY <1>1, <1>5, <1>7, <2>2
  <2>4. op'.slots = BuildSlots(n, a)
    BY <1>7 DEF b
  <2>5. Fitting(n, a)'
    BY <1>3 DEF Fitting
  <2>6. (\A q \in 1 .. Len(mem) : mem[q].kind = "short" /\ mem[q].alias = a =>
           op.pc = "short sync" /\ Fits /\ q = s + Longs[n])'
    BY <1>1, <1>3
  <2> QED
    BY <2>1, <2>3, <2>4, <2>5, <2>6 DEF Adding, BuildSlots, Slot
<1>10. a \in Alias
  BY <1>3 DEF Fitting
<1> QED
  BY <1>1, <1>7, <1>8, <1>9, <1>10

LEMMA CreateAlias ==
  ASSUME Bad = {}, AliasInv, NEW n \in Names, Create(n)
  PROVE  AliasInv'
<1>1. /\ op = NoOp /\ mem' = mem /\ disk' = disk /\ failing' = failing
      /\ OpTyped' /\ op'.pc = "long"
      /\ \E a \in Alias, s \in Nat \ {0} : Adding(n, a, s)'
  BY CreateIs
<1>2. AddRight'
  BY <1>1 DEF AddRight
<1>3. GoneRight' /\ EraseRight' /\ Pending' = {}
  BY <1>1 DEF GoneRight, EraseRight, Pending
<1>4. Pending = {}
  BY <1>1, NoOpFacts DEF Pending
<1> QED
  BY <1>1, <1>2, <1>3, <1>4, OpStep

(* Where what has been filled is to be removed.                                *)
LEMMA RemoveIs ==
  ASSUME AliasInv, op.pc \in Adds, ErrorRemove
  PROVE  \/ op' = NoOp
         \/ \E n \in Names, a \in Alias, s \in Nat \ {0} :
              /\ Adding(n, a, s) /\ op'.pos = s /\ op'.left = Len(op.at)
              /\ op'.pc = "erase" /\ op'.at = op.at /\ op'.before = op.before /\ op'.slots = op.slots
              /\ op' = [pc |-> op'.pc, slots |-> op'.slots, at |-> op'.at, pos |-> op'.pos, left |-> op'.left, before |-> op'.before]
<1>1. PICK n \in Names, a \in Alias, s \in Nat \ {0} : Adding(n, a, s)
  BY DEF AliasInv, AddRight
<1> DEFINE l == Len(op.at)
<1>2. mem \in Seq(SlotSet) /\ op.at \in Seq(Nat)
  BY DEF AliasInv, DirTypes, OpTyped
<1>3. l \in Nat /\ \A i \in 1 .. l : op.at[i] = s + i - 1
  BY <1>1, <1>2, AddPlaces
<1>4. op = [pc |-> op.pc, slots |-> op.slots, at |-> op.at, pos |-> op.pos, left |-> op.left, before |-> op.before]
  BY DEF AliasInv, DirTypes, OpTyped
<1>5. CASE op.at = <<>>
  BY <1>5 DEF ErrorRemove
<1>6. CASE op.at # <<>>
  <2>1. l # 0
    BY <1>2, <1>6
  <2> HIDE DEF l
  <2>2. l \in 1 .. l
    BY <1>3, <2>1
  <2>3. op.at[l] - l + 1 = s
    <3>1. op.at[l] = s + l - 1
      BY <1>3, <2>2
    <3> QED
      BY <1>3, <3>1
  <2>4. op' = [op EXCEPT !.pc = "erase", !.left = l, !.pos = s]
    BY <1>6, <2>3 DEF ErrorRemove, l
  <2>5. op' = [pc |-> "erase", slots |-> op.slots, at |-> op.at, pos |-> s, left |-> l, before |-> op.before]
    BY <1>4, <2>4
  <2>6. /\ op'.pos = s /\ op'.left = l /\ op'.pc = "erase" /\ op'.at = op.at /\ op'.before = op.before /\ op'.slots = op.slots
        /\ op' = [pc |-> op'.pc, slots |-> op'.slots, at |-> op'.at, pos |-> op'.pos, left |-> op'.left, before |-> op'.before]
    BY <2>5
  <2> QED
    BY <1>1, <2>6 DEF l
<1> QED
  BY <1>5, <1>6

LEMMA RemoveTyped ==
  ASSUME AliasInv, op.pc \in Adds, ErrorRemove, op' # NoOp
  PROVE  OpTyped' /\ op'.pc = "erase" /\ AddRight' /\ GoneRight' /\ Pending' = {}
<1>1. PICK n \in Names, a \in Alias, s \in Nat \ {0} :
        /\ Adding(n, a, s) /\ op'.pos = s /\ op'.left = Len(op.at) /\ op'.pc = "erase" /\ op'.at = op.at
        /\ op' = [pc |-> op'.pc, slots |-> op'.slots, at |-> op'.at, pos |-> op'.pos, left |-> op'.left, before |-> op'.before]
  BY RemoveIs
<1>2. op.at \in Seq(Nat)
  BY DEF AliasInv, DirTypes, OpTyped
<1>3. Len(op.at) \in Nat
  BY <1>2
<1>4. OpTyped'
  BY <1>1, <1>2, <1>3 DEF OpTyped, Pcs
<1> QED
  BY <1>1, <1>4 DEF AddRight, GoneRight, Pending, Adds

LEMMA SyncFailsAlias ==
  ASSUME AliasInv, SyncFails
  PROVE  AliasInv'
<1>1. mem' = mem /\ disk' = disk /\ failing' = failing /\ op.pc \in Adds /\ ErrorRemove /\ "sync" \in failing
  BY DEF SyncFails, MayFail, Adds
<1>2. "crash" \notin failing
  BY <1>1 DEF AliasInv, DiskRight
<1>3. CASE op' = NoOp
  BY <1>1, <1>2, <1>3, OpEnds
<1>4. CASE op' # NoOp
  <2>1. OpTyped' /\ op'.pc = "erase" /\ AddRight' /\ GoneRight' /\ Pending' = {}
    BY <1>1, <1>4, RemoveTyped
  <2>2. EraseRight'
    BY <1>1, <2>1 DEF EraseRight
  <2> QED
    BY <1>1, <1>2, <2>1, <2>2, OpStep
<1> QED
  BY <1>3, <1>4

LEMMA AddFailsAlias ==
  ASSUME AliasInv, AddFails
  PROVE  AliasInv'
<1>1. mem' = mem /\ disk' = disk /\ failing' = failing /\ op.pc \in Adds /\ ErrorRemove /\ ~Fits /\ op.pc = "short sync"
  BY DEF AddFails, Adds
<1>2. Pending = {}
  BY <1>1 DEF Pending
<1>3. CASE op' = NoOp
  BY <1>1, <1>2, <1>3, OpEnds
<1>4. CASE op' # NoOp
  <2>1. OpTyped' /\ op'.pc = "erase" /\ AddRight' /\ GoneRight' /\ Pending' = {}
    BY <1>1, <1>4, RemoveTyped
  <2>2. PICK n \in Names, a \in Alias, s \in Nat \ {0} : Adding(n, a, s) /\ op'.pos = s /\ op'.left = Len(op.at)
    BY <1>1, <1>4, RemoveIs
  <2>3. mem \in Seq(SlotSet) /\ op.at \in Seq(Nat)
    BY DEF AliasInv, DirTypes, OpTyped
  <2> DEFINE l == Len(op.at)
  <2>4. l \in Nat
    BY <2>3
  <2>5. \A q \in s .. s + l - 1 : mem[q].kind # "short"
    <3> TAKE q \in s .. s + l - 1
    <3> DEFINE i == q - s + 1
    <3>1. i \in 1 .. l /\ q = s + i - 1
      <4> HIDE DEF l
      <4> QED
        BY <2>4
    <3> HIDE DEF i
    <3>2. mem[s + i - 1].kind # "short"
      BY <1>1, <2>2, <2>3, <3>1, RowFacts
    <3> QED
      BY <3>1, <3>2
  <2>6. EraseRight'
    BY <1>1, <2>1, <2>2, <2>5 DEF EraseRight
  <2> QED
    BY <1>1, <1>2, <2>1, <2>6, OpStep
<1> QED
  BY <1>3, <1>4

LEMMA FromIs ==
  ASSUME Bad = {}, Len(mem) \in Nat, Len(mem) <= Most, NEW p \in Nat \ {0}
  PROVE  /\ From(p) = p .. Len(mem)
         /\ From(p) # {} => MinOf(From(p)) = p /\ p <= Len(mem)
<1> DEFINE m == Len(mem)
<1>1. m \in Nat /\ m <= Most /\ Most \in Nat
  BY SizesFacts
<1>2. Path = [i \in 1 .. Most |-> i]
  BY PathIs
<1>3. Range(Path) = 1 .. Most
  BY <1>2 DEF Range
<1> HIDE DEF m
<1>4. {q \in 1 .. Most : p <= q /\ q <= m} = p .. m
  BY <1>1
<1>5. From(p) = p .. m
  BY <1>3, <1>4 DEF From, m
<1>6. ASSUME From(p) # {} PROVE MinOf(From(p)) = p /\ p <= m
  <2>1. p \in p .. m /\ p .. m \subseteq Nat
    BY <1>1, <1>5, <1>6
  <2>2. MinOf(p .. m) \in p .. m /\ MinOf(p .. m) <= p
    BY <2>1, LeastOf
  <2> QED
    BY <1>1, <1>5, <2>1, <2>2
<1> QED
  BY <1>5, <1>6 DEF m

LEMMA AddDoneAlias ==
  ASSUME AliasInv, AddDone
  PROVE  AliasInv'
<1>1. /\ mem' = mem /\ disk' = disk /\ failing' = failing /\ op' = NoOp
      /\ op.pc = "short sync" /\ Fits /\ Synced(ShortBlocks)
  BY DEF AddDone
<1>2. Pending = {op.at[Len(op.at)]} /\ ShortBlocks = {BlockOf(op.at[Len(op.at)])}
  BY <1>1 DEF Pending, ShortBlocks
<1>3. \A i \in Pending : disk[i] = mem[i]
  <2> TAKE i \in Pending
  <2>1. i \in 1 .. Len(mem) /\ Len(mem) \in Nat /\ BlockOf(i) \in ShortBlocks
    BY <1>2, PendingIn DEF AliasInv, DirTypes
  <2>2. i \in BlockSlots(BlockOf(i))
    BY <2>1, InItsBlock
  <2> QED
    BY <1>1, <2>1, <2>2 DEF Synced
<1> QED
  BY <1>1, <1>3, OpEnds

LEMMA UnlinkDoneAlias ==
  ASSUME AliasInv, UnlinkDone
  PROVE  AliasInv'
<1>1. mem' = mem /\ disk' = disk /\ failing' = failing /\ op.pc = "gone"
  BY DEF UnlinkDone
<1>2. CASE MayFail("sync") /\ op' = NoOp
  <2>1. "crash" \notin failing
    BY <1>2 DEF AliasInv, DiskRight, MayFail
  <2> QED
    BY <1>1, <1>2, <2>1, OpEnds
<1>3. CASE Synced(RunBlocks) /\ op' = [op EXCEPT !.pc = "erase"]
  <2>1. op = [pc |-> op.pc, slots |-> op.slots, at |-> op.at, pos |-> op.pos, left |-> op.left, before |-> op.before]
    BY DEF AliasInv, DirTypes, OpTyped
  <2>2. op' = [pc |-> "erase", slots |-> op.slots, at |-> op.at, pos |-> op.pos, left |-> op.left, before |-> op.before]
    BY <1>3, <2>1
  <2>3. op'.pc = "erase" /\ op'.at = op.at /\ op'.pos = op.pos /\ op'.left = op.left
    BY <2>2
  <2>4. OpTyped'
    BY <2>2, <2>3 DEF AliasInv, DirTypes, OpTyped, Pcs
  <2>5. AddRight' /\ GoneRight' /\ Pending' = {}
    BY <2>3 DEF AddRight, GoneRight, Pending, Adds
  <2>6. EraseRight'
    BY <1>1, <2>3 DEF AliasInv, EraseRight
  <2>7. \A i \in Pending : disk[i] = mem[i]
    <3> TAKE i \in Pending
    <3>1. i = op.at[1] /\ i \in 1 .. Len(mem) /\ Len(mem) \in Nat /\ Len(op.at) = 1
      BY <1>1 DEF Pending, AliasInv, DirTypes, GoneRight
    <3>2. BlockOf(i) \in RunBlocks /\ i \in BlockSlots(BlockOf(i))
      BY <3>1, InItsBlock DEF RunBlocks
    <3> QED
      BY <1>3, <3>2 DEF Synced
  <2> QED
    BY <1>1, <2>4, <2>5, <2>6, <2>7, OpStep
<1> QED
  BY <1>2, <1>3 DEF UnlinkDone

LEMMA EraseSyncAlias ==
  ASSUME AliasInv, EraseSync
  PROVE  AliasInv'
<1>1. mem' = mem /\ disk' = disk /\ failing' = failing /\ op.pc = "erase sync"
  BY DEF EraseSync
<1>2. Pending = {}
  BY <1>1 DEF Pending
<1>3. CASE op' = NoOp
  BY <1>1, <1>2, <1>3, OpEnds
<1>4. CASE op' = [op EXCEPT !.pc = "erase"]
  <2>1. op = [pc |-> op.pc, slots |-> op.slots, at |-> op.at, pos |-> op.pos, left |-> op.left, before |-> op.before]
    BY DEF AliasInv, DirTypes, OpTyped
  <2>2. op' = [pc |-> "erase", slots |-> op.slots, at |-> op.at, pos |-> op.pos, left |-> op.left, before |-> op.before]
    BY <1>4, <2>1
  <2>3. op'.pc = "erase" /\ op'.at = op.at /\ op'.pos = op.pos /\ op'.left = op.left
    BY <2>2
  <2>4. OpTyped'
    BY <2>2, <2>3 DEF AliasInv, DirTypes, OpTyped, Pcs
  <2>5. AddRight' /\ GoneRight' /\ Pending' = {}
    BY <2>3 DEF AddRight, GoneRight, Pending, Adds
  <2>6. EraseRight'
    BY <1>1, <2>3 DEF AliasInv, EraseRight
  <2> QED
    BY <1>1, <1>2, <2>4, <2>5, <2>6, OpStep
<1> QED
  BY <1>3, <1>4 DEF EraseSync, Proceed

LEMMA EraseDoneAlias ==
  ASSUME AliasInv, EraseDone
  PROVE  AliasInv'
<1>1. mem' = mem /\ disk' = disk /\ failing' = failing /\ op.pc = "erase" /\ op' = NoOp
  BY DEF EraseDone
<1>2. Pending = {}
  BY <1>1 DEF Pending
<1> QED
  BY <1>1, <1>2, OpEnds

LEMMA FillLongIs ==
  ASSUME AliasInv, FillLong, NEW n \in Names, NEW a \in Alias, NEW s \in Nat \ {0}, Adding(n, a, s)
  PROVE  /\ op.pc = "long" /\ disk' = disk /\ failing' = failing /\ filp' = filp
         /\ op'.pc = "long sync" /\ op'.slots = op.slots /\ op'.at = op.at /\ op'.before = op.before
         /\ DirTypes' /\ Adding(n, a, s)' /\ Len(mem') = Len(mem)
         /\ \A i \in 1 .. Len(op.at) : mem[s + i - 1].kind = "free"
         /\ \A q \in 1 .. Len(mem) : q \notin s .. s + Len(op.at) - 1 => mem'[q] = mem[q]
         /\ \A q \in 1 .. Len(mem) : (mem'[q].kind = "short" => mem'[q] = mem[q]) /\ Alike(mem'[q], mem[q])
<1>1. /\ op.pc = "long" /\ mem' = Filled(LongBlocks) /\ op' = [op EXCEPT !.pc = "long sync"]
      /\ disk' = disk /\ failing' = failing /\ filp' = filp
  BY DEF FillLong, Proceed
<1>2. Adding(n, a, s)
  OBVIOUS
<1>3. mem \in Seq(SlotSet) /\ Len(mem) \in Nat
  BY DEF AliasInv, DirTypes
<1> DEFINE l == Len(op.at)
           m == Len(mem)
           k == Longs[n]
<1>4. op = [pc |-> op.pc, slots |-> op.slots, at |-> op.at, pos |-> op.pos, left |-> op.left, before |-> op.before]
  BY DEF AliasInv, DirTypes, OpTyped
<1>5. op' = [pc |-> "long sync", slots |-> op.slots, at |-> op.at, pos |-> op.pos, left |-> op.left, before |-> op.before]
  BY <1>1, <1>4
<1>6. op'.pc = "long sync" /\ op'.slots = op.slots /\ op'.at = op.at /\ op'.pos = op.pos /\ op'.left = op.left
  BY <1>5
<1>7. /\ mem' \in Seq(SlotSet) /\ Len(mem') = m
      /\ \A i \in 1 .. l : mem'[s + i - 1] = IF BlockOf(op.at[i]) \in LongBlocks THEN op.slots[i] ELSE mem[s + i - 1]
      /\ \A p \in 1 .. m : p \notin s .. s + l - 1 => mem'[p] = mem[p]
  <2> DEFINE f == Filled(LongBlocks)
  <2>1. /\ f \in Seq(SlotSet) /\ Len(f) = Len(mem)
        /\ \A i \in 1 .. Len(op.at) : f[s + i - 1] = IF BlockOf(op.at[i]) \in LongBlocks THEN op.slots[i] ELSE mem[s + i - 1]
        /\ \A p \in 1 .. Len(mem) : p \notin s .. s + Len(op.at) - 1 => f[p] = mem[p]
    BY <1>2, <1>3, FilledIs
  <2>2. mem' = f
    BY <1>1
  <2> HIDE DEF f
  <2> QED
    BY <2>1, <2>2
<1>8. /\ k \in Nat /\ l \in Nat /\ (Fits <=> l = k + 1)
      /\ \A i \in 1 .. l : op.at[i] = s + i - 1 /\ s + i - 1 \in 1 .. m
      /\ \A i \in 1 .. k + 1 : op.slots[i].kind = "short" <=> i = k + 1
      /\ l <= k + 1
  BY <1>2, <1>3, AddFacts
<1>9. \A i \in 1 .. l : mem[s + i - 1].kind = "free"
  <2>1. \A i : ~Placed(i)
    BY <1>1 DEF Placed
  <2> QED
    BY <1>2, <2>1 DEF Adding
<1>10. \A i \in 1 .. l : mem'[s + i - 1].kind # "short" /\ mem[s + i - 1].kind # "short"
  <2> TAKE i \in 1 .. l
  <2>1. CASE BlockOf(op.at[i]) \in LongBlocks
    <3>1. i # k + 1
      <4> SUFFICES ASSUME i = k + 1 PROVE FALSE
        OBVIOUS
      <4>1. l = k + 1
        <5> HIDE DEF l, k
        <5> QED
          BY <1>8
      <4>2. ShortBlocks = {BlockOf(op.at[i])}
        BY <1>8, <4>1 DEF ShortBlocks
      <4> QED
        BY <2>1, <4>2 DEF LongBlocks
    <3>2. i \in 1 .. k + 1
      BY <1>8
    <3>3. mem'[s + i - 1] = op.slots[i]
      BY <1>7, <2>1
    <3> HIDE DEF l, k
    <3> QED
      BY <1>8, <1>9, <3>1, <3>2, <3>3
  <2>2. CASE BlockOf(op.at[i]) \notin LongBlocks
    <3>1. mem'[s + i - 1] = mem[s + i - 1] /\ mem[s + i - 1].kind = "free"
      BY <1>7, <1>9, <2>2
    <3> QED
      BY <3>1
  <2> QED
    BY <2>1, <2>2
<1>11. \A p \in 1 .. m : (mem'[p].kind = "short" => mem'[p] = mem[p]) /\ Alike(mem'[p], mem[p])
  <2> TAKE p \in 1 .. m
  <2>1. CASE p \in s .. s + l - 1
    <3>1. PICK i \in 1 .. l : p = s + i - 1
      <4>1. l \in Nat /\ s \in Nat
        BY <1>8
      <4> HIDE DEF l, m
      <4>2. p - s + 1 \in 1 .. l /\ p = s + (p - s + 1) - 1
        BY <2>1, <4>1
      <4> QED
        BY <4>2
    <3> QED
      BY <1>10, <3>1 DEF Alike
  <2>2. CASE p \notin s .. s + l - 1
    BY <1>7, <2>2 DEF Alike
  <2> QED
    BY <2>1, <2>2
<1> HIDE DEF l, m, k
<1>12. Adding(n, a, s)'
  <2>1. Fitting(n, a)' /\ op'.slots = BuildSlots(n, a)' /\ Row(op.at, s, Longs[n] + 1, Len(mem))'
    BY <1>2, <1>6, <1>7 DEF Adding, Fitting, BuildSlots, Slot, Row, m
  <2>2. \A i : Placed(i)' <=> BlockOf(op.at[i]) \in LongBlocks
    BY <1>6 DEF Placed, LongBlocks, ShortBlocks, RunBlocks, Fits
  <2>3. (\A i \in 1 .. Len(op.at) : IF Placed(i) THEN mem[s + i - 1] = op.slots[i] ELSE mem[s + i - 1].kind = "free")'
    BY <1>6, <1>7, <1>9, <2>2 DEF l
  <2>4. \A q \in 1 .. m : ~(mem'[q].kind = "short" /\ mem'[q].alias = a)
    BY <1>1, <1>2, <1>11 DEF Adding, m
  <2> QED
    BY <1>7, <2>1, <2>3, <2>4 DEF Adding, m
<1>13. DirTypes'
  BY <1>1, <1>5, <1>6, <1>7 DEF AliasInv, DirTypes, OpTyped, Pcs, Adds, m
<1> QED
  BY <1>1, <1>5, <1>6, <1>7, <1>9, <1>11, <1>12, <1>13 DEF l, m

LEMMA FillLongAlias ==
  ASSUME AliasInv, FillLong
  PROVE  AliasInv'
<1>1. PICK n \in Names, a \in Alias, s \in Nat \ {0} : Adding(n, a, s)
  BY DEF AliasInv, AddRight, Adds, FillLong
<1> DEFINE m == Len(mem)
<1>2. /\ op.pc = "long" /\ disk' = disk /\ failing' = failing /\ op'.pc = "long sync"
      /\ DirTypes' /\ Adding(n, a, s)' /\ Len(mem') = m
      /\ \A q \in 1 .. m : (mem'[q].kind = "short" => mem'[q] = mem[q]) /\ Alike(mem'[q], mem[q])
  BY <1>1, FillLongIs
<1> HIDE DEF m
<1>3. Unique(mem)'
  <2>1. Unique(mem)
    BY DEF AliasInv
  <2> QED
    BY <1>2, <2>1 DEF Unique, m
<1>4. AddRight' /\ GoneRight' /\ EraseRight' /\ Pending' = {} /\ Pending = {}
  BY <1>2 DEF AddRight, GoneRight, EraseRight, Pending
<1>5. DiskRight'
  <2> SUFFICES ASSUME "crash" \in failing
               PROVE  /\ "sync" \notin failing
                      /\ \A i \in 1 .. m : Alike(mem'[i], disk[i])
    BY <1>2, <1>4 DEF DiskRight
  <2>1. "sync" \notin failing /\ \A i \in 1 .. m : Alike(mem[i], disk[i])
    BY <1>4 DEF AliasInv, DiskRight, m
  <2> QED
    BY <1>2, <2>1 DEF Alike
<1> QED
  BY <1>2, <1>3, <1>4, <1>5 DEF AliasInv

LEMMA FillShortIs ==
  ASSUME AliasInv, FillShort, NEW n \in Names, NEW a \in Alias, NEW s \in Nat \ {0}, Adding(n, a, s)
  PROVE  /\ op.pc = "long sync" /\ Synced(LongBlocks) /\ disk' = disk /\ failing' = failing /\ filp' = filp
         /\ op'.pc = "short sync" /\ op'.slots = op.slots /\ op'.at = op.at /\ op'.before = op.before
         /\ Pending = {} /\ Pending' = (IF Fits THEN {s + Longs[n]} ELSE {})
         /\ DirTypes' /\ Adding(n, a, s)' /\ Len(mem') = Len(mem)
         /\ \A i \in 1 .. Len(op.at) : mem'[s + i - 1] = op.slots[i] /\ mem[s + i - 1].kind # "short"
         /\ \A q \in 1 .. Len(mem) : ~(mem[q].kind = "short" /\ mem[q].alias = a)
         /\ \A q \in 1 .. Len(mem) : q \notin s .. s + Len(op.at) - 1 => mem'[q] = mem[q]
         /\ \A q \in 1 .. Len(mem) :
              \/ mem'[q] = mem[q]
              \/ mem'[q].kind # "short" /\ mem[q].kind # "short"
              \/ mem'[q].kind = "short" /\ mem'[q].alias = a /\ q = s + Longs[n] /\ Fits /\ mem[q].kind # "short"
<1>1. /\ op.pc = "long sync" /\ mem' = Filled(ShortBlocks) /\ op' = [op EXCEPT !.pc = "short sync"]
      /\ disk' = disk /\ failing' = failing /\ filp' = filp /\ Synced(LongBlocks)
  BY DEF FillShort, Proceed
<1>2. Adding(n, a, s)
  OBVIOUS
<1>3. mem \in Seq(SlotSet) /\ Len(mem) \in Nat
  BY DEF AliasInv, DirTypes
<1> DEFINE l == Len(op.at)
           m == Len(mem)
           k == Longs[n]
           z == op.slots
<1>4. op = [pc |-> op.pc, slots |-> op.slots, at |-> op.at, pos |-> op.pos, left |-> op.left, before |-> op.before]
  BY DEF AliasInv, DirTypes, OpTyped
<1>5. op' = [pc |-> "short sync", slots |-> op.slots, at |-> op.at, pos |-> op.pos, left |-> op.left, before |-> op.before]
  BY <1>1, <1>4
<1>6. op'.pc = "short sync" /\ op'.slots = op.slots /\ op'.at = op.at /\ op'.pos = op.pos /\ op'.left = op.left
  BY <1>5
<1>7. /\ mem' \in Seq(SlotSet) /\ Len(mem') = m
      /\ \A i \in 1 .. l : mem'[s + i - 1] = IF BlockOf(op.at[i]) \in ShortBlocks THEN z[i] ELSE mem[s + i - 1]
      /\ \A p \in 1 .. m : p \notin s .. s + l - 1 => mem'[p] = mem[p]
  <2> DEFINE f == Filled(ShortBlocks)
  <2>1. /\ f \in Seq(SlotSet) /\ Len(f) = Len(mem)
        /\ \A i \in 1 .. Len(op.at) : f[s + i - 1] = IF BlockOf(op.at[i]) \in ShortBlocks THEN op.slots[i] ELSE mem[s + i - 1]
        /\ \A p \in 1 .. Len(mem) : p \notin s .. s + Len(op.at) - 1 => f[p] = mem[p]
    BY <1>2, <1>3, FilledIs
  <2>2. mem' = f
    BY <1>1
  <2> HIDE DEF f
  <2> QED
    BY <2>1, <2>2
<1>8. /\ k \in Nat /\ l \in Nat /\ (Fits <=> l = k + 1)
      /\ \A i \in 1 .. l : op.at[i] = s + i - 1 /\ s + i - 1 \in 1 .. m
      /\ \A i \in 1 .. k + 1 : z[i].kind = "short" <=> i = k + 1
      /\ l <= k + 1 /\ z[k + 1].alias = a
  BY <1>2, <1>3, AddFacts
<1>9. \A i \in 1 .. l : mem'[s + i - 1] = z[i]
  <2> TAKE i \in 1 .. l
  <2>1. CASE BlockOf(op.at[i]) \in ShortBlocks
    BY <1>7, <2>1
  <2>2. CASE BlockOf(op.at[i]) \notin ShortBlocks
    <3>1. BlockOf(op.at[i]) \in LongBlocks
      BY <2>2 DEF LongBlocks, RunBlocks
    <3>2. Placed(i)
      BY <1>1, <3>1 DEF Placed
    <3> QED
      BY <1>2, <1>7, <2>2, <3>2 DEF Adding
  <2> QED
    BY <2>1, <2>2
<1>10. \A i \in 1 .. l : mem[s + i - 1].kind # "short"
  BY <1>1, <1>2, <1>3, RowFacts
<1>11. \A p \in 1 .. m : \/ mem'[p] = mem[p]
                         \/ mem'[p].kind # "short" /\ mem[p].kind # "short"
                         \/ mem'[p].kind = "short" /\ mem'[p].alias = a /\ p = s + k /\ Fits /\ mem[p].kind # "short"
  <2> TAKE p \in 1 .. m
  <2>1. CASE p \in s .. s + l - 1
    <3>1. PICK i \in 1 .. l : p = s + i - 1
      <4>1. l \in Nat /\ s \in Nat
        BY <1>8
      <4> HIDE DEF l, m
      <4>2. p - s + 1 \in 1 .. l /\ p = s + (p - s + 1) - 1
        BY <2>1, <4>1
      <4> QED
        BY <4>2
    <3>2. mem'[p] = z[i] /\ mem[p].kind # "short"
      BY <1>9, <1>10, <3>1
    <3>3. CASE i # k + 1
      <4> HIDE DEF l, m, k, z
      <4>1. z[i].kind # "short"
        BY <1>8, <3>3
      <4> QED
        BY <3>2, <4>1
    <3>4. CASE i = k + 1
      <4> HIDE DEF l, m, k, z
      <4>1. z[i].kind = "short" /\ z[i].alias = a /\ p = s + k /\ Fits
        BY <1>8, <3>1, <3>4
      <4> QED
        BY <3>2, <4>1
    <3> QED
      BY <3>3, <3>4
  <2>2. CASE p \notin s .. s + l - 1
    BY <1>7, <2>2
  <2> QED
    BY <2>1, <2>2
<1>12. \A q \in 1 .. m : ~(mem[q].kind = "short" /\ mem[q].alias = a)
  BY <1>1, <1>2 DEF Adding
<1> HIDE DEF l, m, k, z
<1>13. Adding(n, a, s)'
  <2>1. Fitting(n, a)' /\ op'.slots = BuildSlots(n, a)' /\ Row(op.at, s, Longs[n] + 1, Len(mem))'
    BY <1>2, <1>6, <1>7 DEF Adding, Fitting, BuildSlots, Slot, Row, m
  <2>2. \A i : Placed(i)'
    BY <1>6 DEF Placed
  <2>3. (\A i \in 1 .. Len(op.at) : IF Placed(i) THEN mem[s + i - 1] = op.slots[i] ELSE mem[s + i - 1].kind = "free")'
    BY <1>6, <1>9, <2>2 DEF l, z
  <2>4. Fits' <=> Fits
    BY <1>6 DEF Fits
  <2>5. \A q \in 1 .. m : mem'[q].kind = "short" /\ mem'[q].alias = a => Fits' /\ q = s + Longs[n]
    BY <1>11, <1>12, <2>4 DEF k
  <2> QED
    BY <1>6, <1>7, <2>1, <2>3, <2>5 DEF Adding, m
<1>14. DirTypes'
  BY <1>1, <1>5, <1>6, <1>7 DEF AliasInv, DirTypes, OpTyped, Pcs, Adds, m
<1>15. Pending' = IF Fits THEN {s + k} ELSE {}
  <2>1. Pending' = IF Fits THEN {op.at[l]} ELSE {}
    BY <1>6 DEF Pending, Fits, l
  <2>2. Fits => op.at[l] = s + k
    BY <1>8
  <2> QED
    BY <2>1, <2>2
<1>16. Pending = {}
  BY <1>1 DEF Pending
<1> QED
  BY <1>1, <1>5, <1>6, <1>7, <1>9, <1>10, <1>11, <1>12, <1>13, <1>14, <1>15, <1>16 DEF l, m, k, z

LEMMA FillShortAlias ==
  ASSUME AliasInv, FillShort
  PROVE  AliasInv'
<1>1. PICK n \in Names, a \in Alias, s \in Nat \ {0} : Adding(n, a, s)
  BY DEF AliasInv, AddRight, Adds, FillShort
<1> DEFINE m == Len(mem)
           p == s + Longs[n]
<1>2. /\ op.pc = "long sync" /\ disk' = disk /\ failing' = failing /\ op'.pc = "short sync"
      /\ Pending = {} /\ Pending' = (IF Fits THEN {p} ELSE {})
      /\ DirTypes' /\ Adding(n, a, s)' /\ Len(mem') = m
      /\ \A q \in 1 .. m : ~(mem[q].kind = "short" /\ mem[q].alias = a)
      /\ \A q \in 1 .. m :
           \/ mem'[q] = mem[q]
           \/ mem'[q].kind # "short" /\ mem[q].kind # "short"
           \/ mem'[q].kind = "short" /\ mem'[q].alias = a /\ q = p /\ Fits /\ mem[q].kind # "short"
  BY <1>1, FillShortIs
<1>3. Fits => p \in 1 .. m /\ mem[p].kind # "short"
  <2> SUFFICES ASSUME Fits PROVE p \in 1 .. m /\ mem[p].kind # "short"
    OBVIOUS
  <2> DEFINE l == Len(op.at)
  <2>1. mem \in Seq(SlotSet)
    BY DEF AliasInv, DirTypes
  <2>2. Longs[n] \in Nat /\ l = Longs[n] + 1 /\ \A i \in 1 .. l : s + i - 1 \in 1 .. m
    BY <1>1, <2>1, AddFacts
  <2>3. \A i \in 1 .. l : mem[s + i - 1].kind # "short"
    BY <1>1, <1>2, <2>1, RowFacts
  <2> HIDE DEF l, m
  <2>4. l \in 1 .. l /\ s + l - 1 = p
    BY <2>2
  <2> HIDE DEF p
  <2> QED
    BY <2>2, <2>3, <2>4
<1> HIDE DEF m, p
<1>4. Unique(mem)'
  <2>1. \A x, y \in 1 .. m : mem[x].kind = "short" /\ mem[y].kind = "short" /\ mem[x].alias = mem[y].alias => x = y
    BY DEF AliasInv, Unique, m
  <2>2. \A q \in 1 .. m : mem'[q].kind = "short" => mem'[q] = mem[q] \/ (mem'[q].alias = a /\ q = p)
    BY <1>2
  <2>3. \A q \in 1 .. m : ~(mem[q].kind = "short" /\ mem[q].alias = a)
    BY <1>2
  <2>4. \A x, y \in 1 .. m : mem'[x].kind = "short" /\ mem'[y].kind = "short" /\ mem'[x].alias = mem'[y].alias => x = y
    BY <2>1, <2>2, <2>3
  <2>5. Len(mem') = m
    BY <1>2
  <2> QED
    BY <2>4, <2>5 DEF Unique
<1>5. AddRight' /\ GoneRight' /\ EraseRight'
  BY <1>2 DEF AddRight, GoneRight, EraseRight
<1>6. DiskRight'
  <2> SUFFICES ASSUME "crash" \in failing
               PROVE  /\ "sync" \notin failing
                      /\ \A i \in 1 .. m : i \notin Pending' => Alike(mem'[i], disk[i])
                      /\ \A i \in Pending' : disk[i].kind # "short"
    BY <1>2 DEF DiskRight
  <2>1. "sync" \notin failing /\ \A i \in 1 .. m : Alike(mem[i], disk[i])
    BY <1>2 DEF AliasInv, DiskRight, m
  <2>2. \A i \in 1 .. m : i \notin Pending' => Alike(mem'[i], disk[i])
    BY <1>2, <2>1 DEF Alike
  <2>3. \A i \in Pending' : disk[i].kind # "short"
    BY <1>2, <1>3, <2>1 DEF Alike
  <2> QED
    BY <2>1, <2>2, <2>3
<1> QED
  BY <1>2, <1>4, <1>5, <1>6 DEF AliasInv

LEMMA SearchFacts ==
  ASSUME Bad = {}, mem \in Seq(SlotSet), Len(mem) <= Most, NEW n \in Names, NEW i \in Search(mem, n)
  PROVE  /\ i \in 1 .. Len(mem) /\ mem[i].kind = "short" /\ Path[i] = i /\ Seen(mem) = mem
         /\ NrSlots(mem, i, 1) \in 0 .. i - 1
         /\ \A j \in 1 .. NrSlots(mem, i, 1) : mem[i - j].kind = "long"
<1>1. Seen(mem) = mem /\ DOMAIN mem = 1 .. Len(mem) /\ Len(mem) \in Nat /\ Most \in Nat
  BY SeenIs, SizesFacts
<1>2. i \in 1 .. Len(mem) /\ mem[i].kind = "short"
  BY <1>1 DEF Search, Shorts
<1>3. Path[i] = i
  BY <1>1, <1>2, PathIs
<1>4. Heads(mem, i, 1) \subseteq 1 .. i - 1 /\ \A k \in Heads(mem, i, 1) : \A j \in 1 .. k : mem[i - j].kind = "long"
  BY DEF Heads
<1>5. i - 1 \in Nat
  BY <1>1, <1>2
<1>6. NrSlots(mem, i, 1) = 0 \/ NrSlots(mem, i, 1) \in Heads(mem, i, 1)
  <2> DEFINE H == Heads(mem, i, 1)
  <2>1. H \subseteq 0 .. i - 1
    BY <1>4, <1>5
  <2> HIDE DEF H
  <2>2. H # {} => MaxOf(H) \in H
    BY <1>5, <2>1, MostOf
  <2> QED
    BY <2>2 DEF NrSlots, H
<1> DEFINE k == NrSlots(mem, i, 1)
<1>7. k \in 0 .. i - 1
  <2>1. k = 0 \/ k \in 1 .. i - 1
    BY <1>4, <1>6
  <2> HIDE DEF k
  <2> QED
    BY <1>5, <2>1
<1>8. \A j \in 1 .. k : mem[i - j].kind = "long"
  <2>1. k = 0 \/ \A j \in 1 .. k : mem[i - j].kind = "long"
    BY <1>4, <1>6
  <2> HIDE DEF k
  <2> QED
    BY <2>1
<1> QED
  BY <1>1, <1>2, <1>3, <1>7, <1>8

(* What fat_remove_entries takes in its first stage.                           *)
LEMMA UnlinkIs ==
  ASSUME Bad = {}, AliasInv, NEW n \in Names, Unlink(n)
  PROVE  \E p \in Search(mem, n), lo \in Nat \ {0}, nr \in Nat \ {0} :
           /\ nr = NrSlots(mem, p, 1) + 1 /\ nr <= p /\ p - nr + 1 <= lo /\ lo <= p /\ p \in 1 .. Len(mem)
           /\ mem[p].kind = "short" /\ \A q \in p - nr + 1 .. p - 1 : mem[q].kind = "long"
           /\ mem' = Erased(lo .. p) /\ \A q \in lo .. p : BlockOf(q) = BlockOf(p)
           /\ op' = [pc |-> "gone", slots |-> <<>>, at |-> <<p>>, pos |-> p - nr + 1, left |-> lo - (p - nr + 1),
                     before |-> Listing(mem)]
<1>1. mem \in Seq(SlotSet) /\ Len(mem) <= Most /\ op = NoOp
  BY DEF AliasInv, DirTypes, Unlink
<1>2. PICK i \in Search(mem, n) :
        LET p    == Path[i]
            nr   == NrSlots(Seen(mem), i, 1) + 1
            here == {q \in BlockSlots(BlockOf(p)) : q <= p /\ p - q < nr}
        IN  /\ mem' = Erased(here)
            /\ op' = [NoOp EXCEPT !.pc = "gone", !.at = <<p>>, !.before = Listing(mem),
                                  !.pos = p - nr + 1, !.left = nr - Cardinality(here)]
  BY DEF Unlink
<1> DEFINE k == NrSlots(mem, i, 1)
           nr == k + 1
           here == {q \in BlockSlots(BlockOf(i)) : q <= i /\ i - q < nr}
<1>3. /\ i \in 1 .. Len(mem) /\ mem[i].kind = "short" /\ Path[i] = i /\ Seen(mem) = mem
      /\ k \in 0 .. i - 1 /\ \A j \in 1 .. k : mem[i - j].kind = "long"
  BY <1>1, SearchFacts
<1>4. /\ mem' = Erased(here)
      /\ op' = [NoOp EXCEPT !.pc = "gone", !.at = <<i>>, !.before = Listing(mem),
                            !.pos = i - nr + 1, !.left = nr - Cardinality(here)]
  BY <1>2, <1>3
<1>5. Len(mem) \in Nat
  BY <1>1
<1> DEFINE m == Len(mem)
<1> HIDE DEF k, m
<1>6. nr \in Nat \ {0} /\ nr <= i /\ i \in Nat \ {0}
  BY <1>3, <1>5 DEF m
<1> HIDE DEF nr
<1>7. PICK lo \in 1 .. i : /\ here = lo .. i /\ Cardinality(lo .. i) = i - lo + 1 /\ i - nr + 1 <= lo
  BY <1>6, HereDown
<1> HIDE DEF here
<1>8. nr - Cardinality(here) = lo - (i - nr + 1)
  BY <1>6, <1>7
<1>9. op' = [pc |-> "gone", slots |-> <<>>, at |-> <<i>>, pos |-> i - nr + 1, left |-> lo - (i - nr + 1),
             before |-> Listing(mem)]
  BY <1>4, <1>8, NoOpFacts
<1>10. \A q \in i - nr + 1 .. i - 1 : mem[q].kind = "long"
  <2> TAKE q \in i - nr + 1 .. i - 1
  <2>1. i - q \in 1 .. k /\ i - (i - q) = q
    BY <1>3, <1>6 DEF nr
  <2> QED
    BY <1>3, <2>1
<1>11. lo \in Nat \ {0} /\ lo <= i
  BY <1>6, <1>7
<1>12. nr = NrSlots(mem, i, 1) + 1
  BY DEF nr, k
<1>13. /\ i \in Search(mem, n) /\ lo \in Nat \ {0} /\ nr \in Nat \ {0}
       /\ nr = NrSlots(mem, i, 1) + 1 /\ nr <= i /\ i - nr + 1 <= lo /\ lo <= i /\ i \in 1 .. Len(mem)
       /\ mem[i].kind = "short" /\ \A q \in i - nr + 1 .. i - 1 : mem[q].kind = "long"
       /\ mem' = Erased(lo .. i)
       /\ op' = [pc |-> "gone", slots |-> <<>>, at |-> <<i>>, pos |-> i - nr + 1, left |-> lo - (i - nr + 1),
                 before |-> Listing(mem)]
  <2>1. mem' = Erased(lo .. i)
    BY <1>4, <1>7
  <2>2. i \in 1 .. Len(mem) /\ mem[i].kind = "short"
    BY <1>3 DEF m
  <2> QED
    BY <1>6, <1>7, <1>9, <1>10, <1>11, <1>12, <2>1, <2>2
<1>14. \A q \in lo .. i : BlockOf(q) = BlockOf(i)
  <2> TAKE q \in lo .. i
  <2>1. q \in BlockSlots(BlockOf(i))
    BY <1>7 DEF here
  <2> QED
    BY <1>6, <2>1, InItsBlock, SlotsAre
<1> HIDE DEF nr
<1> QED
  BY <1>13, <1>14

LEMMA UnlinkAlias ==
  ASSUME Bad = {}, AliasInv, NEW n \in Names, Unlink(n)
  PROVE  AliasInv'
<1>1. mem \in Seq(SlotSet) /\ Len(mem) <= Most /\ Len(mem) \in Nat /\ op = NoOp /\ disk' = disk /\ failing' = failing
  BY DEF AliasInv, DirTypes, Unlink
<1>2. PICK p \in Search(mem, n), lo \in Nat \ {0}, nr \in Nat \ {0} :
           /\ nr <= p /\ p - nr + 1 <= lo /\ lo <= p /\ p \in 1 .. Len(mem)
           /\ mem[p].kind = "short" /\ \A q \in p - nr + 1 .. p - 1 : mem[q].kind = "long"
           /\ mem' = Erased(lo .. p)
           /\ op' = [pc |-> "gone", slots |-> <<>>, at |-> <<p>>, pos |-> p - nr + 1, left |-> lo - (p - nr + 1),
                     before |-> Listing(mem)]
  BY UnlinkIs
<1>3. /\ mem' \in Seq(SlotSet) /\ Len(mem') = Len(mem)
      /\ \A q \in 1 .. Len(mem) : mem'[q] = IF q \in lo .. p THEN FreeSlot ELSE mem[q]
  BY <1>1, <1>2, ErasedIs
<1> DEFINE m == Len(mem)
<1>4. /\ op'.pc = "gone" /\ op'.at = <<p>> /\ op'.pos = p - nr + 1 /\ op'.left = lo - (p - nr + 1)
      /\ op' = [pc |-> op'.pc, slots |-> op'.slots, at |-> op'.at, pos |-> op'.pos, left |-> op'.left, before |-> op'.before]
  BY <1>2
<1> HIDE DEF m
<1>5. OpTyped'
  <2>1. op'.pos \in Nat /\ op'.left \in Nat /\ p \in Nat
    BY <1>1, <1>2, <1>4 DEF m
  <2>2. op'.at \in Seq(Nat)
    BY <1>4, <2>1
  <2> QED
    BY <1>4, <2>1, <2>2 DEF OpTyped, Pcs
<1>6. DirTypes'
  BY <1>1, <1>3, <1>5 DEF AliasInv, DirTypes
<1>7. \A q \in 1 .. m : (mem'[q].kind = "short" => mem'[q] = mem[q]) /\ (q # p => Alike(mem'[q], mem[q]))
  <2> TAKE q \in 1 .. m
  <2>1. CASE q \in lo .. p
    <3>1. mem'[q] = FreeSlot /\ FreeSlot.kind = "free"
      BY <1>3, <2>1, SlotFacts DEF m
    <3>2. q # p => mem[q].kind = "long"
      <4>1. q # p => q \in p - nr + 1 .. p - 1
        BY <1>1, <1>2, <2>1 DEF m
      <4> QED
        BY <1>2, <4>1
    <3> QED
      BY <3>1, <3>2 DEF Alike
  <2>2. CASE q \notin lo .. p
    BY <1>3, <2>2 DEF m, Alike
  <2> QED
    BY <2>1, <2>2
<1>8. Unique(mem) /\ Unique(mem)'
  <2>1. Unique(mem)
    BY DEF AliasInv
  <2> QED
    BY <1>3, <1>7, <2>1 DEF Unique, m
<1>9. AddRight'
  BY <1>4 DEF AddRight, Adds
<1>10. p \in 1 .. m /\ mem'[p].kind # "short" /\ op'.at[1] = p /\ Len(op'.at) = 1
  <2>1. p \in lo .. p
    BY <1>1, <1>2
  <2>2. mem'[p] = FreeSlot
    BY <1>2, <1>3, <2>1
  <2> QED
    BY <1>2, <1>4, <2>2, SlotFacts DEF m
<1>11. GoneRight'
  BY <1>3, <1>10 DEF GoneRight, m
<1>12. EraseRight'
  <2>1. op'.pos # 0
    BY <1>1, <1>2, <1>4
  <2>2. \A q \in op'.pos .. op'.pos + op'.left - 1 : q \in 1 .. m => mem'[q].kind # "short"
    <3> TAKE q \in op'.pos .. op'.pos + op'.left - 1
    <3>1. q \in p - nr + 1 .. p - 1
      BY <1>1, <1>2, <1>4
    <3> QED
      BY <1>2, <1>7, <3>1
  <2> QED
    BY <1>3, <2>1, <2>2 DEF EraseRight, m
<1>13. Pending = {} /\ Pending' = {p}
  BY <1>1, <1>4, NoOpFacts DEF Pending
<1>14. DiskRight'
  <2> SUFFICES ASSUME "crash" \in failing
               PROVE  /\ "sync" \notin failing
                      /\ \A i \in 1 .. m : i # p => Alike(mem'[i], disk[i])
                      /\ disk[p].kind = "short" =>
                           \A q \in 1 .. m : q # p /\ mem'[q].kind = "short" => mem'[q].alias # disk[p].alias
    BY <1>1, <1>3, <1>13 DEF DiskRight, m
  <2>1. "sync" \notin failing /\ \A i \in 1 .. m : Alike(mem[i], disk[i])
    BY <1>13 DEF AliasInv, DiskRight, m
  <2>2. \A i \in 1 .. m : i # p => Alike(mem'[i], disk[i])
    BY <1>7, <2>1 DEF Alike
  <2>3. disk[p].kind = "short" => mem[p].kind = "short" /\ mem[p].alias = disk[p].alias
    BY <1>10, <2>1 DEF Alike
  <2>4. \A q \in 1 .. m : q # p /\ mem'[q].kind = "short" => mem[q].kind = "short" /\ mem'[q].alias = mem[q].alias
    BY <1>7
  <2> QED
    BY <1>8, <1>10, <2>1, <2>2, <2>3, <2>4 DEF Unique, m
<1> QED
  BY <1>6, <1>8, <1>9, <1>11, <1>12, <1>14 DEF AliasInv

(* A block further.                                                            *)
LEMMA EraseIs ==
  ASSUME Bad = {}, AliasInv, Erase
  PROVE  \E p \in Nat, e \in Nat :
           /\ (op.pos # 0 => p = op.pos) /\ p <= e /\ e <= p + op.left - 1 /\ p \in 1 .. Len(mem)
           /\ mem' = Erased(p .. e)
           /\ op' = [pc |-> "erase sync", slots |-> op.slots, at |-> <<p>>, pos |-> e + 1,
                     left |-> op.left - (e - p + 1), before |-> op.before]
<1>1. /\ mem \in Seq(SlotSet) /\ Len(mem) <= Most /\ Len(mem) \in Nat /\ op.pos \in Nat /\ op.left \in Nat \ {0}
      /\ From(op.pos) # {}
  BY DEF AliasInv, DirTypes, OpTyped, Erase
<1> DEFINE p == MinOf(From(op.pos))
           here == {q \in BlockSlots(BlockOf(p)) : q >= p /\ q - p < op.left}
           m == Len(mem)
<1>2. /\ mem' = Erased(here)
      /\ op' = [op EXCEPT !.pc = "erase sync", !.at = <<p>>, !.pos = p + Cardinality(here), !.left = @ - Cardinality(here)]
  BY DEF Erase
<1>3. p \in 1 .. m
  <2>1. Range(Path) = 1 .. Most
    BY PathIs DEF Range
  <2>2. From(op.pos) \subseteq 1 .. m
    BY <1>1, <2>1, SizesFacts DEF From
  <2>3. From(op.pos) \subseteq Nat
    BY <1>1, <2>2
  <2> QED
    BY <1>1, <2>2, <2>3, LeastOf
<1>4. op.pos # 0 => p = op.pos
  BY <1>1, FromIs
<1> HIDE DEF p, m
<1>5. p \in Nat \ {0}
  BY <1>1, <1>3 DEF m
<1> DEFINE left == op.left
<1>6. left \in Nat \ {0}
  BY <1>1
<1> HIDE DEF left
<1>7. PICK e \in Nat :
        /\ {q \in BlockSlots(BlockOf(p)) : q >= p /\ q - p < left} = p .. e
        /\ Cardinality(p .. e) = e - p + 1 /\ p <= e /\ e <= p + left - 1
  BY <1>5, <1>6, HereUp
<1>8. here = p .. e
  BY <1>7 DEF left
<1> HIDE DEF here
<1>9. p + Cardinality(here) = e + 1 /\ op.left - Cardinality(here) = op.left - (e - p + 1)
  BY <1>5, <1>7, <1>8
<1>10. op = [pc |-> op.pc, slots |-> op.slots, at |-> op.at, pos |-> op.pos, left |-> op.left, before |-> op.before]
  BY DEF AliasInv, DirTypes, OpTyped
<1>11. op' = [pc |-> "erase sync", slots |-> op.slots, at |-> <<p>>, pos |-> e + 1,
              left |-> op.left - (e - p + 1), before |-> op.before]
  BY <1>2, <1>9, <1>10
<1>12. p \in Nat /\ p <= e /\ e <= p + op.left - 1
  BY <1>5, <1>7 DEF left
<1> QED
  BY <1>2, <1>3, <1>4, <1>8, <1>11, <1>12 DEF m

LEMMA EraseAlias ==
  ASSUME Bad = {}, AliasInv, Erase
  PROVE  AliasInv'
<1>1. /\ mem \in Seq(SlotSet) /\ Len(mem) <= Most /\ Len(mem) \in Nat /\ op.pos \in Nat /\ op.left \in Nat
      /\ op.pc = "erase" /\ disk' = disk /\ failing' = failing
  BY DEF AliasInv, DirTypes, OpTyped, Erase
<1>2. PICK p \in Nat, e \in Nat :
           /\ (op.pos # 0 => p = op.pos) /\ p <= e /\ e <= p + op.left - 1 /\ p \in 1 .. Len(mem)
           /\ mem' = Erased(p .. e)
           /\ op' = [pc |-> "erase sync", slots |-> op.slots, at |-> <<p>>, pos |-> e + 1,
                     left |-> op.left - (e - p + 1), before |-> op.before]
  BY EraseIs
<1> DEFINE m == Len(mem)
<1>3. /\ mem' \in Seq(SlotSet) /\ Len(mem') = m
      /\ \A q \in 1 .. m : mem'[q] = IF q \in p .. e THEN FreeSlot ELSE mem[q]
  BY <1>1, <1>2, ErasedIs
<1>4. /\ op'.pc = "erase sync" /\ op'.at = <<p>> /\ op'.pos = e + 1 /\ op'.left = op.left - (e - p + 1)
      /\ op' = [pc |-> op'.pc, slots |-> op'.slots, at |-> op'.at, pos |-> op'.pos, left |-> op'.left, before |-> op'.before]
  BY <1>2
<1> HIDE DEF m
<1> DEFINE left == op.left
<1>13. p \in Nat \ {0} /\ e \in Nat /\ left \in Nat /\ p <= e /\ e <= p + left - 1 /\ op'.pos = e + 1 /\ op'.left = left - (e - p + 1)
  <2>1. p \in Nat \ {0} /\ e \in Nat /\ p <= e /\ e <= p + left - 1
    <3>1. p \in 1 .. Len(mem) /\ Len(mem) \in Nat
      BY <1>1, <1>2
    <3>2. p <= e /\ e <= p + left - 1
      BY <1>2 DEF left
    <3> QED
      BY <3>1, <3>2
  <2>2. op'.pos = e + 1 /\ op'.left = left - (e - p + 1)
    BY <1>4
  <2> QED
    BY <1>1, <2>1, <2>2
<1>14. op'.at = <<p>>
  BY <1>4
<1> HIDE DEF left
<1>5. OpTyped'
  <2>1. op'.pos \in Nat /\ op'.left \in Nat
    BY <1>13
  <2>2. op'.at \in Seq(Nat)
    BY <1>13, <1>14
  <2> QED
    BY <1>4, <2>1, <2>2 DEF OpTyped, Pcs
<1>6. DirTypes'
  BY <1>1, <1>3, <1>5 DEF AliasInv, DirTypes, m
<1>7. \A q \in 1 .. m : mem'[q].kind = "short" => mem'[q] = mem[q]
  BY <1>3, SlotFacts
<1>8. Unique(mem)'
  <2>1. Unique(mem)
    BY DEF AliasInv
  <2> QED
    BY <1>3, <1>7, <2>1 DEF Unique, m
<1>9. AddRight' /\ GoneRight' /\ Pending' = {} /\ Pending = {}
  BY <1>1, <1>4 DEF AddRight, GoneRight, Pending, Adds
<1>10. ASSUME "sync" \notin failing
       PROVE  /\ op.pos # 0 /\ p = op.pos
              /\ \A q \in p .. p + op.left - 1 : q \in 1 .. m => mem[q].kind # "short"
  BY <1>1, <1>2, <1>10 DEF AliasInv, EraseRight, m
<1>11. EraseRight'
  <2> SUFFICES ASSUME "sync" \notin failing
               PROVE  /\ op'.pos # 0
                      /\ \A q \in op'.pos .. op'.pos + op'.left - 1 : q \in 1 .. m => mem'[q].kind # "short"
    BY <1>1, <1>3, <1>4 DEF EraseRight, m
  <2>1. op'.pos # 0
    BY <1>13
  <2>2. \A q \in op'.pos .. op'.pos + op'.left - 1 : q \in 1 .. m => mem'[q].kind # "short"
    <3> TAKE q \in op'.pos .. op'.pos + op'.left - 1
    <3>1. q \in p .. p + left - 1
      BY <1>13
    <3> QED
      BY <1>7, <1>10, <3>1 DEF left
  <2> QED
    BY <2>1, <2>2
<1>12. DiskRight'
  <2> SUFFICES ASSUME "crash" \in failing
               PROVE  /\ "sync" \notin failing
                      /\ \A i \in 1 .. m : Alike(mem'[i], disk[i])
    BY <1>1, <1>3, <1>9 DEF DiskRight
  <2>1. "sync" \notin failing /\ \A i \in 1 .. m : Alike(mem[i], disk[i])
    BY <1>9 DEF AliasInv, DiskRight, m
  <2>2. \A i \in 1 .. m : Alike(mem'[i], disk[i])
    <3> TAKE i \in 1 .. m
    <3>1. CASE i \in p .. e
      <4>1. i \in p .. p + left - 1
        BY <1>1, <1>13, <3>1 DEF m
      <4>2. mem[i].kind # "short" /\ mem'[i] = FreeSlot
        BY <1>3, <1>10, <2>1, <3>1, <4>1 DEF left
      <4> QED
        BY <2>1, <4>2, SlotFacts DEF Alike
    <3>2. CASE i \notin p .. e
      BY <1>3, <2>1, <3>2
    <3> QED
      BY <3>1, <3>2
  <2> QED
    BY <2>1, <2>2
<1> QED
  BY <1>6, <1>8, <1>9, <1>11, <1>12 DEF AliasInv

LEMMA AddNewIs ==
  ASSUME DirTypes, AddNewEntries, NEW n \in Names, NEW a \in Alias, NEW s \in Nat \ {0}, Adding(n, a, s)
  PROVE  /\ op.pc = "short sync" /\ ~Fits /\ op' = NoOp /\ failing' = failing /\ filp' = filp
         /\ DirTypes' /\ Len(mem) <= Len(mem')
         /\ Longs[n] + 1 - Len(op.at) \in Nat \ {0} /\ Len(mem) + (Longs[n] + 1 - Len(op.at)) \in 1 .. Len(mem')
         /\ \A p \in 1 .. Len(mem) : mem'[p] = mem[p] /\ disk'[p] = disk[p]
         /\ \A p \in Len(mem) + 1 .. Len(mem') :
              /\ disk'[p] = mem'[p]
              /\ mem'[p].kind = "short" => p = Len(mem) + (Longs[n] + 1 - Len(op.at)) /\ mem'[p].alias = a
         /\ \A x \in 1 .. Longs[n] + 1 - Len(op.at) : /\ mem'[Len(mem) + x] = op.slots[Len(op.at) + x]
                                                    /\ disk'[Len(mem) + x] = op.slots[Len(op.at) + x]
<1>1. /\ op.pc = "short sync" /\ ~Fits /\ Room /\ mem' = mem \o Grown /\ disk' = disk \o Grown /\ op' = NoOp
      /\ failing' = failing /\ filp' = filp
  BY DEF AddNewEntries
<1>2. Adding(n, a, s)
  OBVIOUS
<1>3. /\ mem \in Seq(SlotSet) /\ Len(mem) \in Nat /\ disk \in Seq(SlotSet) /\ Len(disk) = Len(mem)
      /\ failing \in DirFailures
  BY DEF DirTypes
<1> DEFINE l == Len(op.at)
           m == Len(mem)
           k == Longs[n]
           z == op.slots
           g == Grown
           r == k + 1 - l
<1>4. /\ k \in Nat /\ l \in Nat /\ l <= k + 1
      /\ \A i \in 1 .. k + 1 : z[i].kind = "short" <=> i = k + 1
      /\ z[k + 1].alias = a
  BY <1>2, <1>3, AddFacts
<1>5. /\ g \in Seq(SlotSet) /\ r \in 1 .. Len(g)
      /\ \A i \in 1 .. Len(g) : g[i] = IF i <= r THEN z[l + i] ELSE FreeSlot
  BY <1>1, <1>2, <1>3, GrownIs
<1>6. m + Len(g) <= Most
  BY <1>1 DEF Room, Most
<1> HIDE DEF l, m, k, z, g
<1>7. Len(g) \in Nat /\ m \in Nat
  BY <1>3, <1>5 DEF m
<1>8. \A i \in 1 .. Len(g) : g[i].kind = "short" => i = r /\ g[i].alias = a
  <2> TAKE i \in 1 .. Len(g)
  <2>1. CASE i <= r
    <3>1. l + i \in 1 .. k + 1 /\ (l + i = k + 1 => i = r)
      BY <1>4, <1>7, <2>1
    <3>2. g[i] = z[l + i]
      BY <1>5, <2>1
    <3> QED
      BY <1>4, <3>1, <3>2
  <2>2. CASE ~(i <= r)
    BY <1>5, <2>2, SlotFacts
  <2> QED
    BY <2>1, <2>2
<1>9. /\ mem' \in Seq(SlotSet) /\ disk' \in Seq(SlotSet) /\ Len(mem') = m + Len(g) /\ Len(disk') = m + Len(g)
      /\ \A p \in 1 .. m : mem'[p] = mem[p] /\ disk'[p] = disk[p]
      /\ \A p \in m + 1 .. m + Len(g) : mem'[p] = g[p - m] /\ disk'[p] = g[p - m] /\ p - m \in 1 .. Len(g)
  <2>1. mem' = mem \o g /\ disk' = disk \o g /\ mem \in Seq(SlotSet) /\ disk \in Seq(SlotSet) /\ Len(mem) = m /\ Len(disk) = m
    BY <1>1, <1>3 DEF g, m
  <2>2. mem' \in Seq(SlotSet) /\ Len(mem') = m + Len(g)
    BY <1>5, <2>1
  <2>3. disk' \in Seq(SlotSet) /\ Len(disk') = m + Len(g)
    <3>0. \A x \in Seq(SlotSet) : x \o g \in Seq(SlotSet) /\ Len(x \o g) = Len(x) + Len(g)
      BY <1>5
    <3>1. disk \o g \in Seq(SlotSet) /\ Len(disk \o g) = Len(disk) + Len(g)
      BY <1>3, <3>0
    <3> QED
      BY <2>1, <3>1
  <2>4. \A p \in 1 .. m : mem'[p] = mem[p] /\ disk'[p] = disk[p]
    BY <1>5, <1>7, <2>1
  <2>5. \A p \in m + 1 .. m + Len(g) : p - m \in 1 .. Len(g) /\ mem'[p] = g[p - m] /\ disk'[p] = g[p - m]
    <3> TAKE p \in m + 1 .. m + Len(g)
    <3>1. p - m \in 1 .. Len(g) /\ p \in 1 .. m + Len(g) /\ p > m
      BY <1>7
    <3>2. \A x \in Seq(SlotSet) : Len(x) = m => (x \o g)[p] = g[p - m]
      <4> TAKE x \in Seq(SlotSet)
      <4> HAVE Len(x) = m
      <4>1. p \in 1 .. Len(x) + Len(g) /\ ~(p <= Len(x)) /\ x \in Seq(SlotSet) /\ g \in Seq(SlotSet)
        BY <1>5, <1>7, <3>1
      <4>2. (x \o g)[p] = g[p - Len(x)]
        BY <4>1
      <4> QED
        BY <4>2
    <3>3. (mem \o g)[p] = g[p - m] /\ (disk \o g)[p] = g[p - m]
      BY <2>1, <3>2
    <3> QED
      BY <2>1, <3>1, <3>3
  <2> QED
    BY <2>2, <2>3, <2>4, <2>5
<1>10. \A p \in 1 .. m + Len(g) : p \in 1 .. m \/ p \in m + 1 .. m + Len(g)
  BY <1>7
<1>11. \A p \in m + 1 .. m + Len(g) : mem'[p].kind = "short" => p = m + r /\ mem'[p].alias = a
  <2> TAKE p \in m + 1 .. m + Len(g)
  <2>1. mem'[p] = g[p - m] /\ p - m \in 1 .. Len(g)
    BY <1>9
  <2>2. mem'[p].kind = "short" => p - m = r /\ mem'[p].alias = a
    BY <1>8, <2>1
  <2>3. p - m = r => p = m + r
    BY <1>4, <1>7
  <2> QED
    BY <2>2, <2>3
<1>12. DirTypes'
  <2>1. OpTyped'
    <3>1. op' = NoOp
      BY <1>1
    <3> QED
      BY <3>1, NoOpFacts DEF OpTyped, Pcs
  <2> QED
    BY <1>1, <1>3, <1>6, <1>9, <2>1 DEF DirTypes
<1>13. r \in Nat \ {0} /\ m + r \in 1 .. m + Len(g)
  <2>1. r \in 1 .. Len(g)
    BY <1>5
  <2> HIDE DEF r
  <2> QED
    BY <1>7, <2>1
<1>14. \A c \in 1 .. r : mem'[m + c] = z[l + c] /\ disk'[m + c] = z[l + c]
  <2> TAKE c \in 1 .. r
  <2>1. c \in 1 .. Len(g) /\ c <= r /\ m + c \in m + 1 .. m + Len(g) /\ (m + c) - m = c
    BY <1>5, <1>7, <1>13
  <2>2. g[c] = z[l + c]
    BY <1>5, <2>1
  <2> HIDE DEF r
  <2> QED
    BY <1>9, <2>1, <2>2
<1>15. m <= m + Len(g)
  BY <1>7
<1>16. /\ op.pc = "short sync" /\ ~Fits /\ op' = NoOp /\ failing' = failing /\ filp' = filp
  BY <1>1
<1> HIDE DEF r
<1>17. /\ DirTypes' /\ m <= Len(mem') /\ r \in Nat \ {0} /\ m + r \in 1 .. Len(mem')
       /\ \A p \in 1 .. m : mem'[p] = mem[p] /\ disk'[p] = disk[p]
       /\ \A p \in m + 1 .. Len(mem') : /\ disk'[p] = mem'[p]
                                        /\ mem'[p].kind = "short" => p = m + r /\ mem'[p].alias = a
       /\ \A c \in 1 .. r : mem'[m + c] = z[l + c] /\ disk'[m + c] = z[l + c]
  BY <1>9, <1>11, <1>12, <1>13, <1>14, <1>15
<1> QED
  BY <1>16, <1>17 DEF l, m, k, z, r

LEMMA AddNewAlias ==
  ASSUME AliasInv, AddNewEntries
  PROVE  AliasInv'
<1>1. PICK n \in Names, a \in Alias, s \in Nat \ {0} : Adding(n, a, s)
  BY DEF AliasInv, AddRight, Adds, AddNewEntries
<1>2. DirTypes /\ Unique(mem) /\ Len(mem) \in Nat
  BY DEF AliasInv, DirTypes
<1> DEFINE m == Len(mem)
           e == m + (Longs[n] + 1 - Len(op.at))
<1>3. /\ op.pc = "short sync" /\ ~Fits /\ op' = NoOp /\ failing' = failing /\ DirTypes' /\ m <= Len(mem')
      /\ \A p \in 1 .. m : mem'[p] = mem[p] /\ disk'[p] = disk[p]
      /\ \A p \in m + 1 .. Len(mem') : disk'[p] = mem'[p] /\ (mem'[p].kind = "short" => p = e /\ mem'[p].alias = a)
  BY <1>1, <1>2, AddNewIs
<1>4. Len(mem') \in Nat
  <2>1. mem' \in Seq(SlotSet)
    BY <1>3 DEF DirTypes
  <2> QED
    BY <2>1
<1>5. \A q \in 1 .. m : ~(mem[q].kind = "short" /\ mem[q].alias = a)
  BY <1>1, <1>3 DEF Adding
<1> HIDE DEF m, e
<1>6. \A p \in 1 .. Len(mem') : p \in 1 .. m \/ p \in m + 1 .. Len(mem')
  BY <1>2, <1>4 DEF m
<1>7. Unique(mem)'
  <2> SUFFICES ASSUME NEW p \in 1 .. Len(mem'), NEW q \in 1 .. Len(mem'), mem'[p].kind = "short",
                      mem'[q].kind = "short", mem'[p].alias = mem'[q].alias
               PROVE  p = q
    BY DEF Unique
  <2>1. CASE p \in 1 .. m /\ q \in 1 .. m
    BY <1>2, <1>3, <2>1 DEF Unique, m
  <2>2. CASE p \in 1 .. m /\ q \in m + 1 .. Len(mem')
    BY <1>3, <1>5, <2>2
  <2>3. CASE p \in m + 1 .. Len(mem') /\ q \in 1 .. m
    BY <1>3, <1>5, <2>3
  <2>4. CASE p \in m + 1 .. Len(mem') /\ q \in m + 1 .. Len(mem')
    BY <1>3, <2>4
  <2> QED
    BY <1>6, <2>1, <2>2, <2>3, <2>4
<1>8. AddRight' /\ GoneRight' /\ EraseRight' /\ Pending' = {} /\ Pending = {}
  BY <1>3, NoOpFacts DEF AddRight, GoneRight, EraseRight, Pending, Adds
<1>9. DiskRight'
  <2> SUFFICES ASSUME "crash" \in failing
               PROVE  /\ "sync" \notin failing
                      /\ \A i \in 1 .. Len(mem') : Alike(mem'[i], disk'[i])
    BY <1>3, <1>8 DEF DiskRight
  <2>1. "sync" \notin failing /\ \A i \in 1 .. m : Alike(mem[i], disk[i])
    BY <1>8 DEF AliasInv, DiskRight, m
  <2> QED
    BY <1>3, <1>6, <2>1 DEF Alike
<1> QED
  BY <1>3, <1>7, <1>8, <1>9 DEF AliasInv

LEMMA WriteBackIs ==
  ASSUME DirTypes, NEW b, WriteBack(b)
  PROVE  /\ disk' \in Seq(SlotSet) /\ Len(disk') = Len(mem)
         /\ \A p \in 1 .. Len(mem) : disk'[p] = IF BlockOf(p) = b THEN mem[p] ELSE disk[p]
<1> DEFINE m == Len(mem)
<1>1. m \in Nat /\ mem \in Seq(SlotSet) /\ disk \in Seq(SlotSet) /\ Len(disk) = m
  BY DEF DirTypes
<1>2. disk' = [p \in 1 .. m |-> IF BlockOf(p) = b THEN mem[p] ELSE disk[p]]
  BY <1>1 DEF WriteBack
<1>3. \A p \in 1 .. m : mem[p] \in SlotSet /\ disk[p] \in SlotSet
  BY <1>1
<1> HIDE DEF m
<1>4. disk' \in Seq(SlotSet) /\ Len(disk') = m
  BY <1>1, <1>2, <1>3
<1>5. \A p \in 1 .. m : disk'[p] = IF BlockOf(p) = b THEN mem[p] ELSE disk[p]
  BY <1>2
<1> QED
  BY <1>4, <1>5 DEF m

LEMMA WriteBackAlias ==
  ASSUME AliasInv, NEW b, WriteBack(b)
  PROVE  AliasInv'
<1>1. mem' = mem /\ op' = op /\ failing' = failing /\ DirTypes /\ Unique(mem)
  BY DEF WriteBack, AliasInv
<1>2. /\ disk' \in Seq(SlotSet) /\ Len(disk') = Len(mem)
      /\ \A p \in 1 .. Len(mem) : disk'[p] = mem[p] \/ disk'[p] = disk[p]
  BY <1>1, WriteBackIs
<1>3. DirTypes' /\ Unique(mem)'
  BY <1>1, <1>2 DEF DirTypes, OpTyped, Unique
<1>4. AddRight'
  <2> SUFFICES ASSUME op.pc \in Adds PROVE \E n \in Names, a \in Alias, s \in Nat \ {0} : Adding(n, a, s)'
    BY <1>1 DEF AddRight
  <2>1. PICK n \in Names, a \in Alias, s \in Nat \ {0} : Adding(n, a, s)
    BY DEF AliasInv, AddRight
  <2>2. Adding(n, a, s)'
    BY <1>1, <2>1 DEF Adding, Fitting, Row, Placed, LongBlocks, RunBlocks, ShortBlocks, Fits, BuildSlots, Slot
  <2> QED
    BY <2>2
<1>5. GoneRight' /\ EraseRight' /\ Pending' = Pending
  BY <1>1 DEF AliasInv, GoneRight, EraseRight, Pending, Fits
<1>6. DiskRight'
  <2> SUFFICES ASSUME "crash" \in failing
               PROVE  /\ "sync" \notin failing
                      /\ \A i \in 1 .. Len(mem) : i \notin Pending => Alike(mem[i], disk'[i])
                      /\ \A i \in Pending : disk'[i].kind = "short" =>
                           \A q \in 1 .. Len(mem) : q # i /\ mem[q].kind = "short" => mem[q].alias # disk'[i].alias
    BY <1>1, <1>5 DEF DiskRight
  <2>1. /\ "sync" \notin failing
        /\ \A i \in 1 .. Len(mem) : i \notin Pending => Alike(mem[i], disk[i])
        /\ \A i \in Pending : disk[i].kind = "short" =>
             \A q \in 1 .. Len(mem) : q # i /\ mem[q].kind = "short" => mem[q].alias # disk[i].alias
    BY DEF AliasInv, DiskRight
  <2>2. \A i \in 1 .. Len(mem) : i \notin Pending => Alike(mem[i], disk'[i])
    BY <1>2, <2>1 DEF Alike
  <2>3. \A i \in Pending : disk'[i].kind = "short" =>
           \A q \in 1 .. Len(mem) : q # i /\ mem[q].kind = "short" => mem[q].alias # disk'[i].alias
    <3> TAKE i \in Pending
    <3>1. i \in 1 .. Len(mem)
      BY PendingIn
    <3>2. CASE disk'[i] = disk[i]
      BY <2>1, <3>2
    <3>3. CASE disk'[i] = mem[i]
      BY <1>1, <3>1, <3>3 DEF Unique
    <3> QED
      BY <1>2, <3>1, <3>2, <3>3
  <2> QED
    BY <2>1, <2>2, <2>3
<1> QED
  BY <1>3, <1>4, <1>5, <1>6 DEF AliasInv

LEMMA CrashAlias ==
  ASSUME AliasInv, Crash
  PROVE  AliasInv'
<1>1. mem' = disk /\ disk' = disk /\ op' = NoOp /\ failing' = failing /\ "crash" \in failing
  BY DEF Crash, MayFail
<1>2. /\ "sync" \notin failing
      /\ \A i \in 1 .. Len(mem) : i \notin Pending => Alike(mem[i], disk[i])
      /\ \A i \in Pending : disk[i].kind = "short" =>
           \A q \in 1 .. Len(mem) : q # i /\ mem[q].kind = "short" => mem[q].alias # disk[i].alias
  BY <1>1 DEF AliasInv, DiskRight
<1>3. DirTypes /\ Unique(mem) /\ Pending \subseteq 1 .. Len(mem)
  BY PendingIn DEF AliasInv
<1>4. DirTypes'
  <2>1. OpTyped'
    BY <1>1, NoOpFacts DEF OpTyped, Pcs
  <2> QED
    BY <1>1, <1>3, <2>1 DEF DirTypes
<1>5. \A i \in Pending, j \in Pending : i = j
  BY DEF Pending
<1>6. Unique(mem)'
  <2> SUFFICES ASSUME NEW p \in 1 .. Len(mem), NEW q \in 1 .. Len(mem),
                      disk[p].kind = "short", disk[q].kind = "short", disk[p].alias = disk[q].alias
               PROVE  p = q
    BY <1>1, <1>3 DEF Unique, DirTypes
  <2>1. \A i \in 1 .. Len(mem) : i \notin Pending /\ disk[i].kind = "short" =>
                                   mem[i].kind = "short" /\ mem[i].alias = disk[i].alias
    BY <1>2 DEF Alike
  <2>2. CASE p \in Pending
    BY <1>2, <1>5, <2>1, <2>2
  <2>3. CASE q \in Pending
    BY <1>2, <1>5, <2>1, <2>3
  <2>4. CASE p \notin Pending /\ q \notin Pending
    BY <1>3, <2>1, <2>4 DEF Unique
  <2> QED
    BY <2>2, <2>3, <2>4
<1>7. AddRight' /\ GoneRight' /\ EraseRight' /\ Pending' = {}
  BY <1>1, NoOpFacts DEF AddRight, GoneRight, EraseRight, Pending, Adds
<1>8. DiskRight'
  BY <1>1, <1>2, <1>7 DEF DiskRight, Alike
<1> QED
  BY <1>4, <1>6, <1>7, <1>8 DEF AliasInv

LEMMA FrameAlias ==
  ASSUME AliasInv, mem' = mem, disk' = disk, op' = op, failing' = failing
  PROVE  AliasInv'
<1>1. DirTypes' /\ Unique(mem)' /\ GoneRight' /\ EraseRight'
  BY DEF AliasInv, DirTypes, OpTyped, Unique, GoneRight, EraseRight
<1>2. AddRight'
  <2> SUFFICES ASSUME op.pc \in Adds PROVE \E n \in Names, a \in Alias, s \in Nat \ {0} : Adding(n, a, s)'
    BY DEF AddRight
  <2>1. PICK n \in Names, a \in Alias, s \in Nat \ {0} : Adding(n, a, s)
    BY DEF AliasInv, AddRight
  <2>2. Adding(n, a, s)'
    BY <2>1 DEF Adding, Fitting, Row, Placed, LongBlocks, RunBlocks, ShortBlocks, Fits, BuildSlots, Slot
  <2> QED
    BY <2>2
<1>3. DiskRight'
  <2>1. Pending' = Pending
    BY DEF Pending, Fits
  <2> QED
    BY <2>1 DEF AliasInv, DiskRight
<1> QED
  BY <1>1, <1>2, <1>3 DEF AliasInv

LEMMA InitAlias ==
  ASSUME DirInit, \A f \in DirFailures : ~({"sync", "crash"} \subseteq f)
  PROVE  AliasInv
<1> DEFINE k == Start * dir_per_block
<1>1. k \in Nat /\ k <= Most
  BY SizesFacts
<1>2. mem = [p \in 1 .. k |-> FreeSlot] /\ disk = mem /\ op = NoOp /\ failing \in DirFailures
  BY DEF DirInit
<1> HIDE DEF k
<1>3. mem \in Seq(SlotSet) /\ Len(mem) = k /\ \A p \in 1 .. k : mem[p].kind = "free"
  BY <1>1, <1>2, SlotFacts
<1>4. DirTypes
  <2>1. OpTyped
    BY <1>2, NoOpFacts DEF OpTyped, Pcs
  <2> QED
    BY <1>1, <1>2, <1>3, <2>1 DEF DirTypes
<1>5. Unique(mem)
  BY <1>3 DEF Unique
<1>6. AddRight /\ GoneRight /\ EraseRight /\ Pending = {}
  BY <1>2, NoOpFacts DEF AddRight, GoneRight, EraseRight, Pending, Adds
<1>7. DiskRight
  BY <1>2, <1>6 DEF DiskRight, Alike
<1> QED
  BY <1>4, <1>5, <1>6, <1>7 DEF AliasInv

LEMMA StepAlias ==
  ASSUME Bad = {}, AliasInv, [DirNext]_dirVars
  PROVE  AliasInv'
<1>1. CASE UNCHANGED dirVars
  BY <1>1, FrameAlias DEF dirVars
<1>2. CASE \E n \in Names : Create(n) \/ Unlink(n)
  BY <1>2, CreateAlias, UnlinkAlias
<1>3. CASE FillLong \/ FillShort \/ SyncFails \/ AddDone \/ AddNewEntries \/ AddFails
  BY <1>3, FillLongAlias, FillShortAlias, SyncFailsAlias, AddDoneAlias, AddNewAlias, AddFailsAlias
<1>4. CASE UnlinkDone \/ Erase \/ EraseSync \/ EraseDone
  BY <1>4, UnlinkDoneAlias, EraseAlias, EraseSyncAlias, EraseDoneAlias
<1>5. CASE (\E b \in 1 .. MaxBlocks : WriteBack(b)) \/ Crash
  BY <1>5, WriteBackAlias, CrashAlias
<1>6. CASE Rewind \/ Readdir \/ ReaddirFault \/ CloseDir
  BY <1>6, FrameAlias DEF Rewind, Readdir, ReaddirFault, CloseDir
<1> QED
  BY <1>1, <1>2, <1>3, <1>4, <1>5, <1>6 DEF DirNext

(* No two files have the same short name, also after a stop, where every block *)
(* can be read and a behaviour with stops has no failed writes.                *)
THEOREM Aliases ==
  ASSUME Bad = {}, \A f \in DirFailures : ~({"sync", "crash"} \subseteq f)
  PROVE  DirSpec => []AliasUnique
<1>1. DirInit => AliasInv
  BY InitAlias
<1>2. AliasInv /\ [DirNext]_dirVars => AliasInv'
  BY StepAlias
<1>3. AliasInv => AliasUnique
  BY DEF AliasInv, Unique, AliasUnique
<1> QED
  BY <1>1, <1>2, <1>3, PTL DEF DirSpec

-----------------------------------------------------------------------------
(* The invariant for names.                                                   *)

(* Name n has its entry in v with the short slot at i.                         *)
Ent(v, i, n) ==
  /\ i > Longs[n] /\ v[i].kind = "short" /\ Fitting(n, v[i].alias)
  /\ \A j \in 1 .. Longs[n] : v[i - j] = Slot("long", n, j, j = Longs[n], v[i].alias)

(* What is being removed and has not been erased yet.                          *)
Doomed == IF op.pc \in {"gone", "erase", "erase sync"} THEN op.pos .. op.pos + op.left - 1 ELSE {}

(* The short slot at i stands for name n, which is there.                      *)
Lives(i, n) == i \in 1 .. Len(mem) /\ i \notin Doomed \cup Pending /\ n \in Names /\ Ent(mem, i, n)
LiveNames   == {n \in Names : \E i \in 1 .. Len(mem) : Lives(i, n)}

(* A short slot is the end of a whole entry.                                   *)
EntRight ==
  \A i \in 1 .. Len(mem) : mem[i].kind = "short" /\ i \notin Doomed \cup Pending => \E n \in Names : Ent(mem, i, n)

(* What is to be erased reaches into no entry.                                 *)
Apart ==
  \A i \in 1 .. Len(mem), n \in Names : Lives(i, n) => \A j \in 0 .. Longs[n] : i - j \notin Doomed

(* A name has one entry.                                                       *)
OneEach ==
  \A i, k \in 1 .. Len(mem), n \in Names : Lives(i, n) /\ Lives(k, n) => i = k

(* The row of an entry that is being added, on the disk.                       *)
DiskRow(s, k) ==
  \A i \in 1 .. Len(op.at) : BlockOf(op.at[i]) \in LongBlocks \/ (Fits /\ disk[s + k].kind = "short") =>
                               disk[s + i - 1] = op.slots[i]

Named(n, a, s) ==
  /\ Adding(n, a, s) /\ op.before = LiveNames /\ n \notin LiveNames
  /\ "crash" \in failing /\ op.pc = "short sync" => DiskRow(s, Longs[n])

(* The entry of n, which has been removed, was at p.                           *)
Left(n, a, p) ==
  /\ op.before = LiveNames \cup {n} /\ n \notin LiveNames
  /\ \A j \in 1 .. Longs[n] : BlockOf(p - j) # BlockOf(p) => mem[p - j] = Slot("long", n, j, j = Longs[n], a)
  /\ "crash" \in failing /\ disk[p].kind = "short" => Ent(disk, p, n) /\ disk[p].alias = a

(* The operation adds a name that is not there, or has removed one.            *)
NameRight ==
  /\ op.pc \in Adds => \E n \in Names, a \in Alias, s \in 1 .. Len(mem) + 1 : Named(n, a, s)
  /\ op.pc = "gone" => \E n \in Names, a \in Alias : Left(n, a, op.at[1])
  /\ op.pc \in {"erase", "erase sync"} =>
       /\ op.pos # 0
       /\ LiveNames = op.before \/ \E n \in Names : LiveNames = op.before \ {n}

(* The entries are on the disk.                                                *)
DiskRuns ==
  "crash" \in failing => \A i \in 1 .. Len(mem), n \in Names : Lives(i, n) => Ent(disk, i, n)

(* Where a reading tells the entry of n from.                                  *)
StartOf(i, n) == IF filp.how = "short" THEN i ELSE i - Longs[n]

(* The names to be told are ahead of an open directory, those told behind it.  *)
DirRight ==
  /\ filp = [how |-> filp.how, pos |-> filp.pos, owed |-> filp.owed, told |-> filp.told, twice |-> FALSE]
  /\ filp.pos \in Nat
  /\ \A n \in filp.owed : \E i \in 1 .. Len(mem) : Lives(i, n) /\ filp.pos <= StartOf(i, n)
  /\ \A n \in filp.told : \E i \in 1 .. Len(mem) : Lives(i, n) /\ i < filp.pos

RunInv == EntRight /\ Apart /\ OneEach /\ NameRight /\ DiskRuns /\ DirRight

LEMMA HeadsFacts ==
  ASSUME NEW v, NEW i \in Nat \ {0}, NEW from \in Nat \ {0}, from <= i
  PROVE  /\ NrSlots(v, i, from) \in 0 .. i - from
         /\ \A k \in Heads(v, i, from) :
              /\ k \in 1 .. i - from /\ k <= NrSlots(v, i, from) /\ v[i - k].last
              /\ \A j \in 1 .. k : v[i - j].kind = "long" /\ v[i - j].id = j /\ v[i - j].alias = v[i].alias
<1> DEFINE H == Heads(v, i, from)
<1>1. \A k \in H : /\ k \in 1 .. i - from /\ v[i - k].last
                   /\ \A j \in 1 .. k : v[i - j].kind = "long" /\ v[i - j].id = j /\ v[i - j].alias = v[i].alias
  BY DEF Heads
<1>2. NrSlots(v, i, from) = IF H = {} THEN 0 ELSE MaxOf(H)
  BY DEF NrSlots
<1> HIDE DEF H
<1>3. i - from \in Nat
  OBVIOUS
<1>4. H # {} => MaxOf(H) \in H /\ \A y \in H : y <= MaxOf(H)
  <2>1. H \subseteq 0 .. i - from
    BY <1>1, <1>3
  <2> QED
    BY <1>3, <2>1, MostOf
<1>5. NrSlots(v, i, from) \in 0 .. i - from
  <2>1. CASE H = {}
    BY <1>2, <1>3, <2>1
  <2>2. CASE H # {}
    <3>1. MaxOf(H) \in 1 .. i - from
      BY <1>1, <1>4, <2>2
    <3> QED
      BY <1>2, <1>3, <2>2, <3>1
  <2> QED
    BY <2>1, <2>2
<1>6. \A k \in H : k <= NrSlots(v, i, from)
  BY <1>2, <1>4
<1> QED
  BY <1>1, <1>5, <1>6 DEF H

LEMMA ShortNameIs ==
  ASSUME NEW a \in Alias
  PROVE  /\ \A n \in Names : ShortName(a) = n <=> Longs[n] = 0 /\ a = <<Base[n], NoTail>>
         /\ ShortName(a) = a \/ ShortName(a) \in Names
<1> DEFINE P(n) == Longs[n] = 0 /\ a = <<Base[n], NoTail>>
<1>1. \A n, k \in Names : P(n) /\ P(k) => n = k
  BY ShortAssumption
<1>2. ShortName(a) = IF \E n \in Names : P(n) THEN CHOOSE n \in Names : P(n) ELSE a
  BY DEF ShortName
<1>3. a \notin Names
  BY AliasAssumption
<1> HIDE DEF P
<1>4. ASSUME NEW n \in Names, P(n) PROVE ShortName(a) = n
  BY <1>1, <1>2, <1>4
<1>5. ASSUME ~\E n \in Names : P(n) PROVE ShortName(a) = a
  BY <1>2, <1>5
<1>6. \A n \in Names : ShortName(a) = n <=> P(n)
  <2> TAKE n \in Names
  <2>1. CASE \E k \in Names : P(k)
    <3>1. PICK k \in Names : P(k)
      BY <2>1
    <3>2. ShortName(a) = k
      BY <1>4, <3>1
    <3> QED
      BY <1>1, <3>1, <3>2
  <2>2. CASE ~\E k \in Names : P(k)
    BY <1>3, <1>5, <2>2
  <2> QED
    BY <2>1, <2>2
<1>7. ShortName(a) = a \/ ShortName(a) \in Names
  BY <1>4, <1>5
<1> QED
  BY <1>6, <1>7 DEF P

(* How the entry of a name is read.                                            *)
LEMMA EntName ==
  ASSUME NEW v \in Seq(SlotSet), NEW i \in 1 .. Len(v), NEW n \in Names, Ent(v, i, n), NEW from \in Nat \ {0}, from <= i
  PROVE  /\ from <= i - Longs[n] => NameAt(v, i, from) = n /\ Longs[n] <= NrSlots(v, i, from)
         /\ ~(from <= i - Longs[n]) => NameAt(v, i, from) \notin Names
<1> DEFINE H == Heads(v, i, from)
           c == Longs[n]
           a == v[i].alias
<1>1. i \in Nat \ {0} /\ c \in Nat /\ a \in Alias
  BY NamesAssumption DEF Ent, Fitting
<1>2. /\ i > c /\ v[i].kind = "short" /\ Fitting(n, a)
      /\ \A j \in 1 .. c : v[i - j] = Slot("long", n, j, j = c, a)
  BY DEF Ent
<1>3. \A j \in 1 .. c : /\ v[i - j].kind = "long" /\ v[i - j].name = n /\ v[i - j].id = j
                        /\ v[i - j].last = (j = c) /\ v[i - j].alias = a
  <2> TAKE j \in 1 .. c
  <2>1. v[i - j] = Slot("long", n, j, j = c, a)
    BY <1>2
  <2> HIDE DEF c, a
  <2>2. v[i - j] = [kind |-> "long", name |-> n, id |-> j, last |-> (j = c), alias |-> a]
    BY <2>1 DEF Slot
  <2> QED
    BY <2>2
<1>4. \A k \in H : /\ k \in 1 .. i - from /\ k <= NrSlots(v, i, from) /\ v[i - k].last
                   /\ \A j \in 1 .. k : v[i - j].kind = "long" /\ v[i - j].id = j /\ v[i - j].alias = a
  <2>1. \A k \in Heads(v, i, from) :
              /\ k \in 1 .. i - from /\ k <= NrSlots(v, i, from) /\ v[i - k].last
              /\ \A j \in 1 .. k : v[i - j].kind = "long" /\ v[i - j].id = j /\ v[i - j].alias = v[i].alias
    <3>1. i \in Nat \ {0}
      BY <1>1
    <3> HIDE DEF H, a, c
    <3>2. \A k \in Heads(v, i, from) : k <= NrSlots(v, i, from)
      BY <3>1, HeadsFacts
    <3> QED
      BY <3>2 DEF Heads
  <2> QED
    BY <2>1
<1> HIDE DEF a
<1>5. c # 0 /\ from <= i - c => c \in H
  <2> SUFFICES ASSUME c # 0, from <= i - c PROVE c \in H
    OBVIOUS
  <2>1. c \in 1 .. i - from /\ c \in 1 .. c
    BY <1>1
  <2>2. v[i - c].last
    BY <1>3, <2>1
  <2> HIDE DEF c
  <2>3. \A j \in 1 .. c : v[i - j].kind = "long" /\ v[i - j].id = j /\ v[i - j].alias = v[i].alias
    BY <1>3 DEF a
  <2> QED
    BY <2>1, <2>2, <2>3 DEF Heads
<1> HIDE DEF H
<1>6. \A k \in H : c <= k
  <2> TAKE k \in H
  <2> SUFFICES ASSUME ~(c <= k) PROVE FALSE
    OBVIOUS
  <2>1. k \in 1 .. c /\ k # c
    <3>1. k \in Nat \ {0}
      BY <1>1, <1>4
    <3> QED
      BY <1>1, <3>1
  <2>2. v[i - k].last = (k = c)
    BY <1>3, <2>1
  <2> QED
    BY <1>4, <2>1, <2>2
<1>7. CASE c = 0
  <2>1. a = <<Base[n], NoTail>>
    <3>1. a \in Alias /\ a[1] = Base[n] /\ a[2] = NoTail
      BY <1>2, <1>7 DEF Fitting
    <3> QED
      BY <3>1 DEF Alias
  <2>2. H = {}
    <3> SUFFICES ASSUME NEW k \in H PROVE FALSE
      OBVIOUS
    <3>1. k \in 1 .. i - from /\ 1 \in 1 .. k /\ i - 1 \in 1 .. Len(v)
      BY <1>1, <1>4
    <3>2. v[i - 1].kind = "long" /\ v[i - 1].alias = a
      BY <1>4, <3>1
    <3>3. v[i - 1] \in SlotSet
      BY <3>1
    <3>4. a \in Tailed
      BY <3>2, <3>3 DEF SlotSet, SlotOK
    <3> QED
      BY <2>1, <3>4 DEF Tailed
  <2>3. NameAt(v, i, from) = ShortName(a)
    BY <2>2 DEF NameAt, H, a
  <2>4. ShortName(a) = n
    BY <1>1, <1>7, <2>1, ShortNameIs
  <2>5. from <= i - c
    BY <1>1, <1>7
  <2>6. c <= NrSlots(v, i, from)
    BY <1>1, <1>7, HeadsFacts
  <2> QED
    BY <2>3, <2>4, <2>5, <2>6
<1>8. CASE c # 0 /\ from <= i - c
  <2>1. c \in H /\ H # {}
    BY <1>5, <1>8
  <2>2. MinOf(H) = c
    <3>1. H \subseteq Nat
      BY <1>1, <1>4
    <3>2. MinOf(H) \in H /\ MinOf(H) <= c
      BY <2>1, <3>1, LeastOf
    <3>3. c <= MinOf(H) /\ MinOf(H) \in Nat
      BY <1>6, <3>1, <3>2
    <3> HIDE DEF c
    <3> QED
      BY <1>1, <3>2, <3>3
  <2>3. NameAt(v, i, from) = LongName(v, i, from)
    BY <2>1 DEF NameAt, H
  <2>4. LongName(v, i, from) = IF Longs[v[i - c].name] = c /\ \A j \in 1 .. c : v[i - j].name = v[i - c].name
                               THEN v[i - c].name ELSE None
    BY <2>2 DEF LongName, H
  <2>5. c \in 1 .. c
    BY <1>1, <1>8
  <2>6. v[i - c].name = n /\ Longs[n] = c
    BY <1>3, <2>5
  <2>7. LongName(v, i, from) = n
    <3> HIDE DEF c
    <3> QED
      BY <1>3, <2>4, <2>6
  <2> QED
    BY <1>4, <1>8, <2>1, <2>3, <2>7
<1>9. CASE c # 0 /\ ~(from <= i - c)
  <2>1. H = {}
    <3> SUFFICES ASSUME NEW k \in H PROVE FALSE
      OBVIOUS
    <3>1. k \in 1 .. i - from /\ c <= k
      BY <1>4, <1>6
    <3> QED
      BY <1>1, <1>9, <3>1
  <2>2. NameAt(v, i, from) = ShortName(a)
    BY <2>1 DEF NameAt, H, a
  <2>3. a[2] # NoTail
    BY <1>2, <1>9 DEF Fitting
  <2>4. ShortName(a) \notin Names
    <3> SUFFICES ASSUME NEW k \in Names, ShortName(a) = k PROVE FALSE
      OBVIOUS
    <3>1. a = <<Base[k], NoTail>>
      BY <1>1, ShortNameIs
    <3> QED
      BY <2>3, <3>1
  <2> QED
    BY <1>9, <2>2, <2>4
<1> QED
  BY <1>7, <1>8, <1>9

LEMMA EntOne ==
  ASSUME NEW v \in Seq(SlotSet), NEW i \in 1 .. Len(v), NEW n \in Names, NEW k \in Names, Ent(v, i, n), Ent(v, i, k)
  PROVE  n = k
<1>1. i \in Nat \ {0} /\ 1 \in Nat \ {0} /\ 1 <= i /\ Longs[n] \in Nat /\ Longs[k] \in Nat /\ i > Longs[n] /\ i > Longs[k]
  BY NamesAssumption DEF Ent
<1>2. 1 <= i - Longs[n] /\ 1 <= i - Longs[k]
  BY <1>1
<1>3. NameAt(v, i, 1) = n
  BY <1>1, <1>2, EntName
<1>4. NameAt(v, i, 1) = k
  BY <1>1, <1>2, EntName
<1> QED
  BY <1>3, <1>4

LEMMA EntSame ==
  ASSUME NEW v, NEW w, NEW i \in Nat, NEW n \in Names, Ent(v, i, n), \A j \in 0 .. Longs[n] : w[i - j] = v[i - j]
  PROVE  Ent(w, i, n)
<1>1. Longs[n] \in Nat
  BY NamesAssumption
<1>2. w[i] = v[i]
  <2>1. 0 \in 0 .. Longs[n] /\ i - 0 = i
    BY <1>1
  <2> QED
    BY <2>1
<1>3. \A j \in 1 .. Longs[n] : w[i - j] = v[i - j]
  BY <1>1
<1> QED
  BY <1>2, <1>3 DEF Ent

(* The slots of an entry are in the directory, not free, and have its alias.   *)
LEMMA EntSlots ==
  ASSUME NEW v, NEW i \in Nat, NEW n \in Names, Ent(v, i, n)
  PROVE  \A j \in 0 .. Longs[n] : i - j \in 1 .. i /\ v[i - j].kind # "free" /\ v[i - j].alias = v[i].alias
                                  /\ (j # 0 => v[i - j].kind = "long")
<1> TAKE j \in 0 .. Longs[n]
<1>1. Longs[n] \in Nat /\ i > Longs[n] /\ v[i].kind = "short"
  BY NamesAssumption DEF Ent
<1>2. CASE j = 0
  <2>1. i - j = i /\ i \in 1 .. i
    BY <1>1, <1>2
  <2> QED
    BY <1>1, <1>2, <2>1
<1>3. CASE j # 0
  <2>1. j \in 1 .. Longs[n] /\ i - j \in 1 .. i
    BY <1>1, <1>3
  <2> DEFINE a == v[i].alias
  <2>2. v[i - j] = Slot("long", n, j, j = Longs[n], a)
    BY <2>1 DEF Ent
  <2> HIDE DEF a
  <2>3. v[i - j].kind = "long" /\ v[i - j].alias = a
    BY <2>2 DEF Slot
  <2> QED
    BY <2>1, <2>3 DEF a
<1> QED
  BY <1>2, <1>3

(* What a listing tells of a directory of whole entries, and what a lookup     *)
(* finds in it.                                                                *)
LEMMA ListingIs ==
  ASSUME Bad = {}, NEW v \in Seq(SlotSet), Len(v) <= Most,
         \A i \in 1 .. Len(v) : v[i].kind = "short" => \E n \in Names : Ent(v, i, n)
  PROVE  Listing(v) = {n \in Names : \E i \in 1 .. Len(v) : Ent(v, i, n)}
<1>1. Seen(v) = v /\ DOMAIN v = 1 .. Len(v)
  BY SeenIs
<1>2. Listing(v) = {NameAt(v, i, 1) : i \in Shorts(v)}
  BY <1>1 DEF Listing
<1>3. Shorts(v) = {i \in 1 .. Len(v) : v[i].kind = "short"}
  BY <1>1 DEF Shorts
<1>4. \A i \in 1 .. Len(v), n \in Names : Ent(v, i, n) => NameAt(v, i, 1) = n /\ v[i].kind = "short"
  <2> TAKE i \in 1 .. Len(v), n \in Names
  <2> HAVE Ent(v, i, n)
  <2>1. i > Longs[n] /\ Longs[n] \in Nat /\ v[i].kind = "short" /\ 1 \in Nat \ {0} /\ 1 <= i
    BY NamesAssumption DEF Ent
  <2>2. 1 <= i - Longs[n]
    BY <2>1
  <2> QED
    BY <2>1, <2>2, EntName
<1> QED
  BY <1>2, <1>3, <1>4

LEMMA SearchIs ==
  ASSUME Bad = {}, NEW v \in Seq(SlotSet), Len(v) <= Most, NEW n \in Names,
         \A i \in 1 .. Len(v) : v[i].kind = "short" => \E k \in Names : Ent(v, i, k)
  PROVE  Search(v, n) = {i \in 1 .. Len(v) : Ent(v, i, n)}
<1>1. Seen(v) = v /\ DOMAIN v = 1 .. Len(v)
  BY SeenIs
<1>2. Search(v, n) = {i \in 1 .. Len(v) : v[i].kind = "short" /\ (NameAt(v, i, 1) = n \/ ShortName(v[i].alias) = n)}
  BY <1>1 DEF Search, Shorts
<1>3. \A i \in 1 .. Len(v) : v[i].kind = "short" => ((NameAt(v, i, 1) = n \/ ShortName(v[i].alias) = n) <=> Ent(v, i, n))
  <2> TAKE i \in 1 .. Len(v)
  <2> HAVE v[i].kind = "short"
  <2>1. PICK k \in Names : Ent(v, i, k)
    OBVIOUS
  <2>2. i > Longs[k] /\ Longs[k] \in Nat /\ 1 \in Nat \ {0} /\ 1 <= i /\ Fitting(k, v[i].alias)
    BY <2>1, NamesAssumption DEF Ent
  <2>3. 1 <= i - Longs[k]
    BY <2>2
  <2>4. NameAt(v, i, 1) = k
    BY <2>1, <2>2, <2>3, EntName
  <2>5. ShortName(v[i].alias) = n => n = k
    <3> SUFFICES ASSUME ShortName(v[i].alias) = n PROVE n = k
      OBVIOUS
    <3>1. Longs[n] = 0 /\ v[i].alias = <<Base[n], NoTail>>
      BY <2>2, ShortNameIs DEF Fitting
    <3>2. Longs[k] = 0 /\ Base[k] = Base[n]
      BY <2>2, <3>1 DEF Fitting
    <3> QED
      BY <3>1, <3>2, ShortAssumption
  <2>6. Ent(v, i, n) => n = k
    BY <2>1, EntOne
  <2> QED
    BY <2>1, <2>4, <2>5, <2>6
<1>4. \A i \in 1 .. Len(v) : Ent(v, i, n) => v[i].kind = "short"
  BY DEF Ent
<1> QED
  BY <1>2, <1>3, <1>4

-----------------------------------------------------------------------------
(* Entries and what disturbs them.                                            *)

LEMMA LivesFacts ==
  ASSUME DirTypes, NEW i, NEW n, Lives(i, n)
  PROVE  /\ i \in Nat \ {0} /\ i \in 1 .. Len(mem) /\ n \in Names /\ Longs[n] \in Nat /\ i > Longs[n]
         /\ mem[i].kind = "short" /\ i \notin Doomed /\ i \notin Pending /\ Ent(mem, i, n)
         /\ \A j \in 0 .. Longs[n] : /\ i - j \in 1 .. Len(mem) /\ mem[i - j].kind # "free" /\ mem[i - j].alias = mem[i].alias
                                     /\ (j # 0 => mem[i - j].kind = "long")
<1>1. Len(mem) \in Nat
  BY DEF DirTypes
<1>2. i \in 1 .. Len(mem) /\ n \in Names /\ i \notin Doomed /\ i \notin Pending /\ Ent(mem, i, n)
  BY DEF Lives
<1>3. i \in Nat \ {0} /\ Longs[n] \in Nat
  BY <1>1, <1>2, NamesAssumption
<1>4. i > Longs[n] /\ mem[i].kind = "short"
  BY <1>2 DEF Ent
<1>5. \A j \in 0 .. Longs[n] : i - j \in 1 .. i /\ mem[i - j].kind # "free" /\ mem[i - j].alias = mem[i].alias
                               /\ (j # 0 => mem[i - j].kind = "long")
  <2>1. i \in Nat /\ n \in Names /\ Ent(mem, i, n)
    BY <1>2, <1>3
  <2> QED
    BY <2>1, EntSlots
<1>6. \A j \in 0 .. Longs[n] : i - j \in 1 .. Len(mem)
  BY <1>1, <1>2, <1>5
<1> QED
  BY <1>2, <1>3, <1>4, <1>5, <1>6

LEMMA EntPrime ==
  ASSUME NEW i, NEW n
  PROVE  (Ent(mem, i, n)' <=> Ent(mem', i, n)) /\ (Ent(disk, i, n)' <=> Ent(disk', i, n))
BY DEF Ent, Fitting, Slot

LEMMA SameLives ==
  ASSUME OneEach, \A i, n : Lives(i, n)' <=> Lives(i, n)
  PROVE  OneEach' /\ LiveNames' = LiveNames
<1>1. \A i, n : Lives(i, n) => i \in 1 .. Len(mem) /\ n \in Names
  BY DEF Lives
<1>2. \A i, n : Lives(i, n)' => i \in 1 .. Len(mem')
  BY DEF Lives
<1>3. \A i, k, n : Lives(i, n) /\ Lives(k, n) => i = k
  BY <1>1 DEF OneEach
<1>4. OneEach'
  BY <1>3 DEF OneEach
<1>5. LiveNames' = LiveNames
  BY <1>1, <1>2 DEF LiveNames
<1> QED
  BY <1>4, <1>5

(* Entries stay what they are where their slots are not touched and no short   *)
(* slot comes or goes.                                                         *)
LEMMA ChangeKept ==
  ASSUME DirTypes', EntRight,
         \A i, n : Lives(i, n) => i \in 1 .. Len(mem') /\ i \notin Doomed' \cup Pending' /\ Ent(mem', i, n),
         \A i \in 1 .. Len(mem') : mem'[i].kind = "short" /\ i \notin Doomed' \cup Pending' =>
            i \in 1 .. Len(mem) /\ mem[i].kind = "short" /\ i \notin Doomed \cup Pending
  PROVE  EntRight' /\ \A i, n : Lives(i, n)' <=> Lives(i, n)
<1>1. mem' \in Seq(SlotSet)
  BY DEF DirTypes
<1>2. \A i, n : Lives(i, n) => n \in Names
  BY DEF Lives
<1>3. \A i, n : Lives(i, n) => Lives(i, n)'
  BY <1>2, EntPrime DEF Lives
<1>4. ASSUME NEW i \in 1 .. Len(mem'), mem'[i].kind = "short", i \notin Doomed' \cup Pending'
      PROVE  \E n \in Names : Lives(i, n) /\ Ent(mem', i, n)
  <2>1. i \in 1 .. Len(mem) /\ mem[i].kind = "short" /\ i \notin Doomed \cup Pending
    BY <1>4
  <2>2. PICK n \in Names : Ent(mem, i, n)
    BY <2>1 DEF EntRight
  <2> QED
    BY <2>1, <2>2 DEF Lives
<1>5. EntRight'
  BY <1>4, EntPrime DEF EntRight
<1>6. ASSUME NEW i, NEW n, Lives(i, n)' PROVE Lives(i, n)
  <2>1. i \in 1 .. Len(mem') /\ i \notin Doomed' \cup Pending' /\ n \in Names /\ Ent(mem', i, n)
    BY <1>6, EntPrime DEF Lives
  <2>2. mem'[i].kind = "short"
    BY <2>1 DEF Ent
  <2>3. PICK k \in Names : Lives(i, k) /\ Ent(mem', i, k)
    BY <1>4, <2>1, <2>2
  <2>4. n = k
    BY <1>1, <2>1, <2>3, EntOne
  <2> QED
    BY <2>3, <2>4
<1> QED
  BY <1>3, <1>5, <1>6

LEMMA DirKept ==
  ASSUME DirRight, filp' = [how |-> filp'.how, pos |-> filp'.pos, owed |-> filp'.owed, told |-> filp'.told, twice |-> FALSE],
         filp'.how = filp.how, filp'.pos = filp.pos, filp'.owed \subseteq filp.owed, filp'.told \subseteq filp.told,
         \A i : \A n \in filp'.owed \cup filp'.told : Lives(i, n) => Lives(i, n)'
  PROVE  DirRight'
<1>1. \A i, n : Lives(i, n)' => i \in 1 .. Len(mem')
  BY DEF Lives
<1>2. \A n \in filp'.owed : \E i \in 1 .. Len(mem') : Lives(i, n)' /\ filp'.pos <= StartOf(i, n)'
  <2> TAKE n \in filp'.owed
  <2>1. PICK i \in 1 .. Len(mem) : Lives(i, n) /\ filp.pos <= StartOf(i, n)
    BY DEF DirRight
  <2>2. Lives(i, n)'
    BY <2>1
  <2>3. StartOf(i, n)' = StartOf(i, n)
    BY DEF StartOf
  <2> QED
    BY <1>1, <2>1, <2>2, <2>3
<1>3. \A n \in filp'.told : \E i \in 1 .. Len(mem') : Lives(i, n)' /\ i < filp'.pos
  <2> TAKE n \in filp'.told
  <2>1. PICK i \in 1 .. Len(mem) : Lives(i, n) /\ i < filp.pos
    BY DEF DirRight
  <2>2. Lives(i, n)'
    BY <2>1
  <2> QED
    BY <1>1, <2>1, <2>2
<1>4. filp'.pos \in Nat
  BY DEF DirRight
<1> QED
  BY <1>2, <1>3, <1>4 DEF DirRight

LEMMA DirSame ==
  ASSUME DirRight, filp' = filp
  PROVE  /\ filp' = [how |-> filp'.how, pos |-> filp'.pos, owed |-> filp'.owed, told |-> filp'.told, twice |-> FALSE]
         /\ filp'.how = filp.how /\ filp'.pos = filp.pos /\ filp'.owed \subseteq filp.owed /\ filp'.told \subseteq filp.told
<1>1. filp = [how |-> filp.how, pos |-> filp.pos, owed |-> filp.owed, told |-> filp.told, twice |-> FALSE]
  BY DEF DirRight
<1> QED
  BY <1>1

(* A step that leaves the entries as they are.                                 *)
LEMMA RunFrom ==
  ASSUME RunInv, failing' = failing, filp' = filp, EntRight', \A i, n : Lives(i, n)' <=> Lives(i, n),
         Apart', NameRight', "crash" \in failing => \A i, n : Lives(i, n) => Ent(disk', i, n)
  PROVE  RunInv'
<1>1. OneEach'
  BY SameLives DEF RunInv
<1>2. DiskRuns'
  BY EntPrime DEF DiskRuns
<1>3. DirRight'
  BY DirKept, DirSame DEF RunInv
<1> QED
  BY <1>1, <1>2, <1>3 DEF RunInv

LEMMA SlotsAlias ==
  ASSUME mem \in Seq(SlotSet), NEW n \in Names, NEW a \in Alias, NEW s \in Nat \ {0}, Adding(n, a, s),
         NEW x \in 1 .. Longs[n] + 1
  PROVE  op.slots[x].alias = a
<1> DEFINE k == Longs[n]
           z == op.slots
<1>1. k \in Nat /\ z[k + 1].alias = a
  BY AddFacts
<1>2. \A i \in 1 .. k : z[i] = Slot("long", n, k - i + 1, i = 1, a)
  BY AddFacts
<1>3. CASE x = k + 1
  BY <1>1, <1>3
<1>4. CASE x # k + 1
  <2>1. x \in 1 .. k
    <3> HIDE DEF z
    <3> QED
      BY <1>1, <1>4
  <2>2. z[x] = Slot("long", n, k - x + 1, x = 1, a)
    BY <1>2, <2>1
  <2> HIDE DEF z, k
  <2>3. Slot("long", n, k - x + 1, x = 1, a).alias = a
    BY DEF Slot
  <2>4. z[x].alias = a
    BY <2>2, <2>3
  <2> QED
    BY <2>4 DEF z
<1> QED
  BY <1>3, <1>4

(* The slots to be added, where they are in a row, are an entry.               *)
LEMMA EntRow ==
  ASSUME mem \in Seq(SlotSet), NEW n \in Names, NEW a \in Alias, NEW s \in Nat \ {0}, Adding(n, a, s),
         NEW v, NEW e \in Nat, e > Longs[n],
         \A x \in 1 .. Longs[n] + 1 : v[e - Longs[n] + x - 1] = op.slots[x]
  PROVE  Ent(v, e, n) /\ v[e].alias = a
<1> DEFINE k == Longs[n]
           z == op.slots
<1>1. /\ k \in Nat /\ z[k + 1].alias = a
      /\ \A i \in 1 .. k : z[i] = Slot("long", n, k - i + 1, i = 1, a)
      /\ \A i \in 1 .. k + 1 : z[i].kind = "short" <=> i = k + 1
  BY AddFacts
<1>2. Fitting(n, a)
  BY DEF Adding
<1>3. \A x \in 1 .. k + 1 : v[e - k + x - 1] = z[x]
  OBVIOUS
<1>4. e > k
  OBVIOUS
<1> HIDE DEF k, z
<1>5. k + 1 \in 1 .. k + 1 /\ e - k + (k + 1) - 1 = e
  BY <1>1
<1>6. v[e].kind = "short" /\ v[e].alias = a
  BY <1>1, <1>3, <1>5
<1>7. \A j \in 1 .. k : v[e - j] = Slot("long", n, j, j = k, a)
  <2> TAKE j \in 1 .. k
  <2> DEFINE x == k + 1 - j
  <2>1. x \in 1 .. k /\ x \in 1 .. k + 1 /\ e - k + x - 1 = e - j /\ k - x + 1 = j /\ (x = 1) = (j = k)
    BY <1>1
  <2> HIDE DEF x
  <2>2. v[e - k + x - 1] = z[x]
    BY <1>3, <2>1
  <2>3. z[x] = Slot("long", n, k - x + 1, x = 1, a)
    BY <1>1, <2>1
  <2> QED
    BY <2>1, <2>2, <2>3
<1> QED
  BY <1>2, <1>4, <1>6, <1>7 DEF Ent, k

(* The entries do not reach into the row of one that is being added.           *)
LEMMA RowApart ==
  ASSUME DirTypes, op.pc \in Adds, NEW n \in Names, NEW a \in Alias, NEW s \in Nat \ {0}, Adding(n, a, s),
         NEW i, NEW k, Lives(i, k)
  PROVE  /\ mem[i].alias # a
         /\ \A j \in 0 .. Longs[k] : i - j \notin s .. s + Len(op.at) - 1
<1>1. /\ i \in Nat \ {0} /\ i \in 1 .. Len(mem) /\ k \in Names /\ Longs[k] \in Nat
      /\ mem[i].kind = "short" /\ i \notin Pending
      /\ \A j \in 0 .. Longs[k] : i - j \in 1 .. Len(mem) /\ mem[i - j].kind # "free" /\ mem[i - j].alias = mem[i].alias
  BY LivesFacts
<1> DEFINE l == Len(op.at)
           c == Longs[n]
<1>2. mem \in Seq(SlotSet)
  BY DEF DirTypes
<1>3. /\ c \in Nat /\ l \in Nat /\ l <= c + 1 /\ (Fits <=> l = c + 1) /\ \A x \in 1 .. l : op.at[x] = s + x - 1
  BY <1>2, AddPlaces
<1>4. mem[i].alias # a
  <2> SUFFICES ASSUME mem[i].alias = a PROVE FALSE
    OBVIOUS
  <2>1. op.pc = "short sync" /\ Fits /\ i = s + c
    BY <1>1 DEF Adding
  <2>2. Pending = {op.at[l]}
    BY <2>1 DEF Pending
  <2> HIDE DEF c, l
  <2>3. l \in 1 .. l /\ l = c + 1
    <3>1. l = c + 1 /\ c \in Nat
      BY <1>3, <2>1
    <3> QED
      BY <3>1
  <2>4. op.at[l] = s + l - 1
    BY <1>3, <2>3
  <2>5. op.at[l] = i
    <3>1. c \in Nat /\ s \in Nat /\ l = c + 1 /\ op.at[l] = s + l - 1 /\ i = s + c
      BY <1>3, <2>1, <2>3, <2>4
    <3> QED
      BY <3>1
  <2> QED
    BY <1>1, <2>2, <2>5
<1>5. ASSUME NEW j \in 0 .. Longs[k], i - j \in s .. s + l - 1 PROVE FALSE
  <2> DEFINE x == i - j - s + 1
  <2>1. x \in 1 .. l /\ i - j = s + x - 1 /\ x \in 1 .. c + 1
    <3> HIDE DEF c, l
    <3>1. i \in Nat /\ j \in Nat
      BY <1>1
    <3>2. c \in Nat /\ l \in Nat /\ l <= c + 1
      BY <1>3
    <3>3. i - j \in s .. s + l - 1
      BY <1>5
    <3> QED
      BY <3>1, <3>2, <3>3
  <2> HIDE DEF x
  <2>2. IF Placed(x) THEN mem[s + x - 1] = op.slots[x] ELSE mem[s + x - 1].kind = "free"
    BY <2>1 DEF Adding
  <2>3. op.slots[x].alias = a
    BY <1>2, <2>1, SlotsAlias
  <2>4. mem[i - j].kind # "free" /\ mem[i - j].alias # a
    BY <1>1, <1>4
  <2> QED
    BY <2>1, <2>2, <2>3, <2>4
<1> QED
  BY <1>4, <1>5

(* While nothing is done, every short slot is an entry.                        *)
LEMMA QuietFacts ==
  ASSUME Bad = {}, AliasInv, RunInv, op = NoOp
  PROVE  /\ Doomed = {} /\ Pending = {}
         /\ \A i \in 1 .. Len(mem) : mem[i].kind = "short" => \E n \in Names : Ent(mem, i, n)
         /\ Listing(mem) = LiveNames
         /\ \A n \in Names : Search(mem, n) = {i \in 1 .. Len(mem) : Lives(i, n)}
<1>1. Doomed = {} /\ Pending = {}
  BY NoOpFacts DEF Doomed, Pending
<1>2. \A i \in 1 .. Len(mem) : mem[i].kind = "short" => \E n \in Names : Ent(mem, i, n)
  BY <1>1 DEF RunInv, EntRight
<1>3. mem \in Seq(SlotSet) /\ Len(mem) <= Most
  BY DEF AliasInv, DirTypes
<1>4. \A i \in 1 .. Len(mem), n \in Names : Lives(i, n) <=> Ent(mem, i, n)
  BY <1>1 DEF Lives
<1>5. Listing(mem) = {n \in Names : \E i \in 1 .. Len(mem) : Ent(mem, i, n)}
  BY <1>2, <1>3, ListingIs
<1>6. Listing(mem) = LiveNames
  BY <1>4, <1>5 DEF LiveNames
<1>7. ASSUME NEW n \in Names PROVE Search(mem, n) = {i \in 1 .. Len(mem) : Lives(i, n)}
  <2>1. Search(mem, n) = {i \in 1 .. Len(mem) : Ent(mem, i, n)}
    BY <1>2, <1>3, SearchIs
  <2> QED
    BY <1>4, <2>1
<1> QED
  BY <1>1, <1>2, <1>6, <1>7

-----------------------------------------------------------------------------
(* Every step keeps the invariant for names.                                  *)

(* A step of the operation that changes no slot.                               *)
LEMMA OpKept ==
  ASSUME AliasInv, DirTypes', RunInv, mem' = mem, disk' = disk, failing' = failing, filp' = filp,
         \A i \in 1 .. Len(mem) : mem[i].kind = "short" => (i \in Doomed' \cup Pending' <=> i \in Doomed \cup Pending),
         \A i, n : Lives(i, n) => \A j \in 0 .. Longs[n] : i - j \notin Doomed'
  PROVE  /\ \A i, n : Lives(i, n)' <=> Lives(i, n)
         /\ LiveNames' = LiveNames
         /\ NameRight' => RunInv'
<1>1. DirTypes /\ EntRight /\ OneEach /\ DiskRuns
  BY DEF AliasInv, RunInv
<1>2. ASSUME NEW i, NEW n, Lives(i, n)
      PROVE  i \in 1 .. Len(mem') /\ i \notin Doomed' \cup Pending' /\ Ent(mem', i, n)
  <2>1. i \in 1 .. Len(mem) /\ mem[i].kind = "short" /\ i \notin Doomed /\ i \notin Pending /\ Ent(mem, i, n)
    BY <1>1, <1>2, LivesFacts
  <2> QED
    BY <2>1
<1>3. EntRight' /\ \A i, n : Lives(i, n)' <=> Lives(i, n)
  BY <1>1, <1>2, ChangeKept
<1>4. LiveNames' = LiveNames
  BY <1>1, <1>3, SameLives
<1>5. Apart'
  BY <1>3 DEF Apart
<1>6. "crash" \in failing => \A i, n : Lives(i, n) => Ent(disk', i, n)
  BY <1>1 DEF DiskRuns, Lives
<1>7. NameRight' => RunInv'
  BY <1>3, <1>5, <1>6, RunFrom
<1> QED
  BY <1>3, <1>4, <1>7

LEMMA CreateRun ==
  ASSUME Bad = {}, AliasInv, AliasInv', RunInv, NEW n \in Names, Create(n)
  PROVE  RunInv'
<1>1. /\ op = NoOp /\ mem' = mem /\ disk' = disk /\ failing' = failing /\ filp' = filp
      /\ op'.pc = "long" /\ op'.before = Listing(mem)
  BY CreateIs
<1>2. PICK a \in Alias, s \in Nat \ {0} : Adding(n, a, s)'
  BY CreateIs
<1>3. /\ Doomed = {} /\ Pending = {} /\ Listing(mem) = LiveNames
      /\ Search(mem, n) = {i \in 1 .. Len(mem) : Lives(i, n)}
  BY <1>1, QuietFacts
<1>4. Doomed' = {} /\ Pending' = {}
  BY <1>1 DEF Doomed, Pending
<1>5. DirTypes'
  BY DEF AliasInv
<1>6. LiveNames' = LiveNames /\ (NameRight' => RunInv')
  BY <1>1, <1>3, <1>4, <1>5, OpKept
<1>7. n \notin LiveNames
  BY <1>3 DEF Create, LiveNames
<1>8. s \in 1 .. Len(mem') + 1
  <2>1. Row(op'.at, s, Longs[n] + 1, Len(mem'))
    BY <1>2 DEF Adding, Row
  <2>2. s + Len(op'.at) <= Len(mem') + 1 /\ op'.at \in Seq(Nat) /\ Len(mem') \in Nat
    BY <1>5, <2>1 DEF Row, DirTypes
  <2>3. Len(op'.at) \in Nat
    BY <2>2
  <2> QED
    BY <2>2, <2>3
<1>9. Named(n, a, s)'
  BY <1>1, <1>2, <1>3, <1>6, <1>7 DEF Named
<1>10. NameRight'
  BY <1>1, <1>8, <1>9 DEF NameRight, Adds
<1> QED
  BY <1>6, <1>10

LEMMA RemoveRun ==
  ASSUME AliasInv, AliasInv', RunInv, op.pc \in Adds, ErrorRemove,
         mem' = mem, disk' = disk, failing' = failing, filp' = filp
  PROVE  RunInv' /\ LiveNames' = LiveNames
<1>1. DirTypes' /\ DirTypes
  BY DEF AliasInv
<1>2. PICK n \in Names, a \in Alias, s \in 1 .. Len(mem) + 1 : Named(n, a, s)
  BY DEF RunInv, NameRight
<1>3. Adding(n, a, s) /\ op.before = LiveNames
  BY <1>2 DEF Named
<1>4. mem \in Seq(SlotSet) /\ Len(mem) \in Nat
  BY <1>1 DEF DirTypes
<1>5. s \in Nat \ {0}
  BY <1>4
<1> DEFINE l == Len(op.at)
           k == Longs[n]
           m == Len(mem)
<1>6. /\ k \in Nat /\ l \in Nat /\ l <= k + 1 /\ (Fits <=> l = k + 1)
      /\ \A i \in 1 .. l : op.at[i] = s + i - 1 /\ s + i - 1 \in 1 .. m
  BY <1>3, <1>4, <1>5, AddFacts
<1>7. Doomed = {}
  BY DEF Doomed, Adds
<1>8. \A i \in 1 .. m : mem[i].kind = "short" => (i \in s .. s + l - 1 <=> i \in Pending)
  <2> TAKE i \in 1 .. m
  <2> HAVE mem[i].kind = "short"
  <2>1. ASSUME i \in s .. s + l - 1 PROVE i \in Pending
    <3> DEFINE x == i - s + 1
    <3>1. x \in 1 .. l /\ i = s + x - 1
      <4> HIDE DEF l, m
      <4> QED
        BY <1>4, <1>5, <1>6, <2>1
    <3> HIDE DEF x
    <3>2. op.pc = "short sync" /\ Fits /\ x = k + 1
      BY <1>3, <1>4, <1>5, <3>1, RowFacts
    <3>3. Pending = {op.at[l]}
      BY <3>2 DEF Pending
    <3> HIDE DEF l, k, m
    <3>4. x = l
      BY <1>6, <3>2
    <3> QED
      BY <1>6, <3>1, <3>3, <3>4
  <2>2. ASSUME i \in Pending PROVE i \in s .. s + l - 1
    <3>1. Fits /\ i = op.at[l]
      BY <2>2 DEF Pending, Adds
    <3> HIDE DEF l, k, m
    <3>2. l \in 1 .. l /\ op.at[l] = s + l - 1
      <4>1. l = k + 1
        BY <1>6, <3>1
      <4>2. l \in 1 .. l
        BY <1>6, <4>1
      <4> QED
        BY <1>6, <4>2
    <3> QED
      BY <1>5, <1>6, <3>1, <3>2
  <2> QED
    BY <2>1, <2>2
<1>9. \A i, c : Lives(i, c) => \A j \in 0 .. Longs[c] : i - j \notin s .. s + l - 1
  BY <1>1, <1>3, <1>5, RowApart
<1>10. CASE op' = NoOp
  <2>1. Doomed' = {} /\ Pending' = {} /\ op'.pc = "none"
    BY <1>10, NoOpFacts DEF Doomed, Pending
  <2>2. op.at = <<>> \/ op' # NoOp
    <3> SUFFICES ASSUME op.at # <<>> PROVE op' # NoOp
      OBVIOUS
    <3>1. op' = [op EXCEPT !.pc = "erase", !.left = Len(op.at), !.pos = op.at[Len(op.at)] - Len(op.at) + 1]
      BY DEF ErrorRemove
    <3>2. op = [pc |-> op.pc, slots |-> op.slots, at |-> op.at, pos |-> op.pos, left |-> op.left, before |-> op.before]
      BY <1>1 DEF DirTypes, OpTyped
    <3>3. op'.pc = "erase"
      BY <3>1, <3>2
    <3> QED
      BY <3>3, NoOpFacts
  <2>3. l = 0
    BY <1>10, <2>2
  <2>4. \A i \in 1 .. m : mem[i].kind = "short" => i \notin Pending
    <3> HIDE DEF l, m
    <3> QED
      BY <1>5, <1>8, <2>3
  <2>5. LiveNames' = LiveNames /\ (NameRight' => RunInv')
    BY <1>1, <1>7, <2>1, <2>4, OpKept
  <2>6. NameRight'
    BY <2>1 DEF NameRight, Adds
  <2> QED
    BY <2>5, <2>6
<1>11. CASE op' # NoOp
  <2>1. PICK n2 \in Names, a2 \in Alias, s2 \in Nat \ {0} :
          /\ Adding(n2, a2, s2) /\ op'.pos = s2 /\ op'.left = Len(op.at)
          /\ op'.pc = "erase" /\ op'.at = op.at /\ op'.before = op.before
    BY <1>11, RemoveIs
  <2>2. op.at # <<>>
    BY <1>11 DEF ErrorRemove
  <2>3. s2 = s
    <3>1. Row(op.at, s, k + 1, m) /\ Row(op.at, s2, Longs[n2] + 1, m)
      BY <1>3, <2>1 DEF Adding
    <3>2. op.at \in Seq(Nat)
      BY <3>1 DEF Row
    <3>3. 1 \in 1 .. Len(op.at)
      BY <2>2, <3>2
    <3>4. op.at[1] = s + 1 - 1 /\ op.at[1] = s2 + 1 - 1
      BY <3>1, <3>3 DEF Row
    <3> QED
      BY <1>5, <3>4
  <2>4. Doomed' = s .. s + l - 1 /\ Pending' = {} /\ op'.pc = "erase"
    BY <2>1, <2>3 DEF Doomed, Pending
  <2>5. LiveNames' = LiveNames /\ (NameRight' => RunInv')
    BY <1>1, <1>7, <1>8, <1>9, <2>4, OpKept
  <2>6. NameRight'
    BY <1>3, <1>5, <2>1, <2>3, <2>4, <2>5 DEF NameRight, Adds
  <2> QED
    BY <2>5, <2>6
<1> QED
  BY <1>10, <1>11

LEMMA UnlinkDoneRun ==
  ASSUME AliasInv, AliasInv', RunInv, UnlinkDone
  PROVE  RunInv' /\ LiveNames' = LiveNames
<1>1. mem' = mem /\ disk' = disk /\ failing' = failing /\ filp' = filp /\ op.pc = "gone" /\ DirTypes' /\ DirTypes
  BY DEF UnlinkDone, AliasInv
<1>2. Pending = {op.at[1]} /\ op.at[1] \in 1 .. Len(mem) /\ mem[op.at[1]].kind # "short"
  BY <1>1 DEF Pending, AliasInv, GoneRight
<1>3. Doomed = op.pos .. op.pos + op.left - 1 /\ op.pos # 0
  BY <1>1 DEF Doomed, AliasInv, EraseRight
<1>4. \A i \in 1 .. Len(mem) : mem[i].kind = "short" => i \notin Doomed \cup Pending
  BY <1>1, <1>2, <1>3 DEF AliasInv, EraseRight
<1>5. \A i, n : Lives(i, n) => \A j \in 0 .. Longs[n] : i - j \notin Doomed
  BY DEF RunInv, Apart, Lives
<1>6. PICK n \in Names, a \in Alias : Left(n, a, op.at[1])
  BY <1>1 DEF RunInv, NameRight
<1>7. CASE op' = NoOp
  <2>1. Doomed' = {} /\ Pending' = {} /\ op'.pc = "none"
    BY <1>7, NoOpFacts DEF Doomed, Pending
  <2>2. LiveNames' = LiveNames /\ (NameRight' => RunInv')
    BY <1>1, <1>4, <2>1, OpKept
  <2>3. NameRight'
    BY <2>1 DEF NameRight, Adds
  <2> QED
    BY <2>2, <2>3
<1>8. CASE op' = [op EXCEPT !.pc = "erase"]
  <2>1. op = [pc |-> op.pc, slots |-> op.slots, at |-> op.at, pos |-> op.pos, left |-> op.left, before |-> op.before]
    BY <1>1 DEF DirTypes, OpTyped
  <2>2. op'.pc = "erase" /\ op'.pos = op.pos /\ op'.left = op.left /\ op'.before = op.before
    BY <1>8, <2>1
  <2>3. Doomed' = Doomed /\ Pending' = {}
    BY <1>3, <2>2 DEF Doomed, Pending
  <2>4. LiveNames' = LiveNames /\ (NameRight' => RunInv')
    BY <1>1, <1>4, <1>5, <2>3, OpKept
  <2>5. LiveNames = op.before \ {n}
    BY <1>6 DEF Left
  <2>6. NameRight'
    BY <1>3, <2>2, <2>4, <2>5 DEF NameRight, Adds
  <2> QED
    BY <2>4, <2>6
<1> QED
  BY <1>7, <1>8 DEF UnlinkDone

LEMMA EraseSyncRun ==
  ASSUME AliasInv, AliasInv', RunInv, EraseSync, ~({"sync", "erase"} \subseteq failing)
  PROVE  RunInv' /\ LiveNames' = LiveNames
<1>1. mem' = mem /\ disk' = disk /\ failing' = failing /\ filp' = filp /\ op.pc = "erase sync" /\ DirTypes' /\ DirTypes
  BY DEF EraseSync, AliasInv
<1>2. Pending = {} /\ Doomed = op.pos .. op.pos + op.left - 1
  BY <1>1 DEF Pending, Doomed
<1>3. \A i, n : Lives(i, n) => \A j \in 0 .. Longs[n] : i - j \notin Doomed
  BY DEF RunInv, Apart, Lives
<1>4. /\ op.pos # 0
      /\ LiveNames = op.before \/ \E n \in Names : LiveNames = op.before \ {n}
  BY <1>1 DEF RunInv, NameRight
<1>5. CASE MayFail("erase") /\ op' = NoOp
  <2>1. "sync" \notin failing
    BY <1>5 DEF MayFail
  <2>2. \A i \in 1 .. Len(mem) : mem[i].kind = "short" => i \notin Doomed
    BY <1>1, <1>2, <2>1 DEF AliasInv, EraseRight
  <2>3. Doomed' = {} /\ Pending' = {} /\ op'.pc = "none"
    BY <1>5, NoOpFacts DEF Doomed, Pending
  <2>4. LiveNames' = LiveNames /\ (NameRight' => RunInv')
    BY <1>1, <1>2, <2>2, <2>3, OpKept
  <2>5. NameRight'
    BY <2>3 DEF NameRight, Adds
  <2> QED
    BY <2>4, <2>5
<1>6. CASE op' = [op EXCEPT !.pc = "erase"]
  <2>1. op = [pc |-> op.pc, slots |-> op.slots, at |-> op.at, pos |-> op.pos, left |-> op.left, before |-> op.before]
    BY <1>1 DEF DirTypes, OpTyped
  <2>2. op'.pc = "erase" /\ op'.pos = op.pos /\ op'.left = op.left /\ op'.before = op.before
    BY <1>6, <2>1
  <2>3. Doomed' = Doomed /\ Pending' = {}
    BY <1>2, <2>2 DEF Doomed, Pending
  <2>4. LiveNames' = LiveNames /\ (NameRight' => RunInv')
    BY <1>1, <1>2, <1>3, <2>3, OpKept
  <2>5. NameRight'
    BY <1>4, <2>2, <2>4 DEF NameRight, Adds
  <2> QED
    BY <2>4, <2>5
<1> QED
  BY <1>5, <1>6 DEF EraseSync, Proceed

LEMMA EraseDoneRun ==
  ASSUME Bad = {}, AliasInv, AliasInv', RunInv, EraseDone
  PROVE  RunInv' /\ LiveNames' = LiveNames
<1>1. /\ mem' = mem /\ disk' = disk /\ failing' = failing /\ filp' = filp /\ op.pc = "erase" /\ op' = NoOp
      /\ DirTypes' /\ DirTypes /\ (op.left = 0 \/ From(op.pos) = {})
  BY DEF EraseDone, AliasInv
<1>2. Pending = {} /\ Doomed = op.pos .. op.pos + op.left - 1
  BY <1>1 DEF Pending, Doomed
<1>3. op.pos # 0 /\ op.pos \in Nat /\ op.left \in Nat /\ Len(mem) \in Nat /\ Len(mem) <= Most
  BY <1>1 DEF RunInv, NameRight, DirTypes, OpTyped
<1>4. \A i \in 1 .. Len(mem) : i \notin Doomed
  <2>1. CASE op.left = 0
    BY <1>2, <1>3, <2>1
  <2>2. CASE From(op.pos) = {}
    <3>1. op.pos .. Len(mem) = {}
      BY <1>3, <2>2, FromIs
    <3> QED
      BY <1>2, <1>3, <3>1
  <2> QED
    BY <1>1, <2>1, <2>2
<1>5. Doomed' = {} /\ Pending' = {} /\ op'.pc = "none"
  BY <1>1, NoOpFacts DEF Doomed, Pending
<1>6. LiveNames' = LiveNames /\ (NameRight' => RunInv')
  BY <1>1, <1>2, <1>4, <1>5, OpKept
<1>7. NameRight'
  BY <1>5 DEF NameRight, Adds
<1> QED
  BY <1>6, <1>7

(* A step that may change the slots of a row where no entry is.                *)
LEMMA RowKept ==
  ASSUME DirTypes, DirTypes', RunInv, failing' = failing, filp' = filp, disk' = disk, Len(mem') = Len(mem), Doomed' = {},
         op.pc \in Adds, NEW n \in Names, NEW a \in Alias, NEW s \in Nat \ {0}, Adding(n, a, s), Pending = {},
         \A q \in 1 .. Len(mem) : q \notin s .. s + Len(op.at) - 1 => mem'[q] = mem[q],
         \A q \in 1 .. Len(mem) : mem'[q].kind = "short" /\ q \notin Pending' => mem[q].kind = "short",
         \A q \in Pending' : mem[q].kind # "short"
  PROVE  /\ \A i, k : Lives(i, k)' <=> Lives(i, k)
         /\ LiveNames' = LiveNames
         /\ NameRight' => RunInv'
<1>1. EntRight /\ OneEach /\ DiskRuns /\ Doomed = {}
  BY DEF RunInv, Doomed, Adds
<1>2. ASSUME NEW i, NEW k, Lives(i, k)
      PROVE  i \in 1 .. Len(mem') /\ i \notin Doomed' \cup Pending' /\ Ent(mem', i, k)
  <2>1. /\ i \in Nat /\ i \in 1 .. Len(mem) /\ k \in Names /\ mem[i].kind = "short" /\ Ent(mem, i, k)
        /\ \A j \in 0 .. Longs[k] : i - j \in 1 .. Len(mem)
    BY <1>2, LivesFacts
  <2>2. \A j \in 0 .. Longs[k] : i - j \notin s .. s + Len(op.at) - 1
    BY <1>2, RowApart
  <2>3. \A j \in 0 .. Longs[k] : mem'[i - j] = mem[i - j]
    BY <2>1, <2>2
  <2>4. Ent(mem', i, k)
    BY <2>1, <2>3, EntSame
  <2> QED
    BY <2>1, <2>4
<1>3. EntRight' /\ \A i, k : Lives(i, k)' <=> Lives(i, k)
  <2>1. \A i \in 1 .. Len(mem') : mem'[i].kind = "short" /\ i \notin Doomed' \cup Pending' =>
            i \in 1 .. Len(mem) /\ mem[i].kind = "short" /\ i \notin Doomed \cup Pending
    BY <1>1
  <2> QED
    BY <1>1, <1>2, <2>1, ChangeKept
<1>4. LiveNames' = LiveNames
  BY <1>1, <1>3, SameLives
<1>5. Apart'
  BY DEF Apart
<1>6. "crash" \in failing => \A i, k : Lives(i, k) => Ent(disk', i, k)
  BY <1>1 DEF DiskRuns, Lives
<1>7. NameRight' => RunInv'
  BY <1>3, <1>5, <1>6, RunFrom
<1> QED
  BY <1>3, <1>4, <1>7

LEMMA FillLongRun ==
  ASSUME AliasInv, AliasInv', RunInv, FillLong
  PROVE  RunInv' /\ LiveNames' = LiveNames
<1>1. PICK n \in Names, a \in Alias, s \in 1 .. Len(mem) + 1 : Named(n, a, s)
  BY DEF RunInv, NameRight, FillLong, Adds
<1>2. DirTypes /\ DirTypes' /\ s \in Nat \ {0} /\ Adding(n, a, s) /\ op.before = LiveNames /\ n \notin LiveNames
  <2>1. DirTypes /\ DirTypes'
    BY DEF AliasInv
  <2>2. Len(mem) \in Nat
    BY <2>1 DEF DirTypes
  <2>3. s \in Nat \ {0}
    BY <2>2
  <2> QED
    BY <1>1, <2>1, <2>3 DEF Named
<1>3. /\ op.pc = "long" /\ disk' = disk /\ failing' = failing /\ filp' = filp
      /\ op'.pc = "long sync" /\ op'.before = op.before
      /\ Adding(n, a, s)' /\ Len(mem') = Len(mem)
      /\ \A q \in 1 .. Len(mem) : q \notin s .. s + Len(op.at) - 1 => mem'[q] = mem[q]
      /\ \A q \in 1 .. Len(mem) : mem'[q].kind = "short" => mem'[q] = mem[q]
  BY <1>2, FillLongIs
<1>4. Pending = {} /\ Pending' = {} /\ Doomed' = {} /\ op.pc \in Adds
  BY <1>3 DEF Pending, Doomed, Adds
<1>5. \A q \in 1 .. Len(mem) : mem'[q].kind = "short" /\ q \notin Pending' => mem[q].kind = "short"
  BY <1>3
<1>6. LiveNames' = LiveNames /\ (NameRight' => RunInv')
  BY <1>2, <1>3, <1>4, <1>5, RowKept
<1>7. Named(n, a, s)'
  BY <1>2, <1>3, <1>6 DEF Named
<1>8. NameRight'
  BY <1>3, <1>7 DEF NameRight, Adds
<1> QED
  BY <1>6, <1>8

LEMMA FillShortRun ==
  ASSUME AliasInv, AliasInv', RunInv, FillShort
  PROVE  RunInv' /\ LiveNames' = LiveNames
<1>1. PICK n \in Names, a \in Alias, s \in 1 .. Len(mem) + 1 : Named(n, a, s)
  BY DEF RunInv, NameRight, FillShort, Adds
<1>2. DirTypes /\ DirTypes' /\ s \in Nat \ {0} /\ Adding(n, a, s) /\ op.before = LiveNames /\ n \notin LiveNames
  <2>1. DirTypes /\ DirTypes'
    BY DEF AliasInv
  <2>2. Len(mem) \in Nat
    BY <2>1 DEF DirTypes
  <2>3. s \in Nat \ {0}
    BY <2>2
  <2> QED
    BY <1>1, <2>1, <2>3 DEF Named
<1> DEFINE p == s + Longs[n]
<1>3. /\ op.pc = "long sync" /\ Synced(LongBlocks) /\ disk' = disk /\ failing' = failing /\ filp' = filp
      /\ op'.pc = "short sync" /\ op'.slots = op.slots /\ op'.at = op.at /\ op'.before = op.before
      /\ Pending = {} /\ Pending' = (IF Fits THEN {p} ELSE {})
      /\ Adding(n, a, s)' /\ Len(mem') = Len(mem)
      /\ \A q \in 1 .. Len(mem) : q \notin s .. s + Len(op.at) - 1 => mem'[q] = mem[q]
      /\ \A q \in 1 .. Len(mem) :
              \/ mem'[q] = mem[q]
              \/ mem'[q].kind # "short" /\ mem[q].kind # "short"
              \/ mem'[q].kind = "short" /\ mem'[q].alias = a /\ q = p /\ Fits /\ mem[q].kind # "short"
  <2>1. /\ op.pc = "long sync" /\ Synced(LongBlocks) /\ disk' = disk /\ failing' = failing /\ filp' = filp
        /\ op'.pc = "short sync" /\ op'.slots = op.slots /\ op'.at = op.at /\ op'.before = op.before
    BY <1>2, FillShortIs
  <2>2. /\ Pending = {} /\ Pending' = (IF Fits THEN {p} ELSE {})
        /\ Adding(n, a, s)' /\ Len(mem') = Len(mem)
    BY <1>2, FillShortIs
  <2>3. \A q \in 1 .. Len(mem) : q \notin s .. s + Len(op.at) - 1 => mem'[q] = mem[q]
    <3> DEFINE f == Filled(ShortBlocks)
    <3>1. mem' = f /\ mem \in Seq(SlotSet)
      BY <1>2 DEF FillShort, DirTypes
    <3>2. \A q \in 1 .. Len(mem) : q \notin s .. s + Len(op.at) - 1 => f[q] = mem[q]
      BY <1>2, <3>1, FilledIs
    <3> HIDE DEF f
    <3> QED
      BY <3>1, <3>2
  <2>4. \A q \in 1 .. Len(mem) :
              \/ mem'[q] = mem[q]
              \/ mem'[q].kind # "short" /\ mem[q].kind # "short"
              \/ mem'[q].kind = "short" /\ mem'[q].alias = a /\ q = p /\ Fits /\ mem[q].kind # "short"
    BY <1>2, FillShortIs
  <2> HIDE DEF p
  <2> QED
    BY <2>1, <2>2, <2>3, <2>4
<1>4. Doomed' = {} /\ op.pc \in Adds
  BY <1>3 DEF Doomed, Adds
<1> DEFINE l == Len(op.at)
           m == Len(mem)
<1>5. /\ mem \in Seq(SlotSet) /\ m \in Nat /\ Longs[n] \in Nat /\ l \in Nat /\ l <= Longs[n] + 1 /\ (Fits <=> l = Longs[n] + 1)
      /\ \A i \in 1 .. l : op.at[i] = s + i - 1 /\ s + i - 1 \in 1 .. m
  <2>1. mem \in Seq(SlotSet) /\ m \in Nat
    BY <1>2 DEF DirTypes
  <2>2. Longs[n] \in Nat /\ l \in Nat /\ l <= Longs[n] + 1 /\ (Fits <=> l = Longs[n] + 1)
    BY <1>2, <2>1, AddFacts
  <2>3. \A i \in 1 .. l : op.at[i] = s + i - 1 /\ s + i - 1 \in 1 .. m
    BY <1>2, <2>1, AddFacts
  <2> QED
    BY <2>1, <2>2, <2>3
<1>6. \A q \in Pending' : q \in 1 .. m /\ mem[q].kind # "short"
  <2> TAKE q \in Pending'
  <2>1. q = p /\ Fits
    BY <1>3
  <2>2. l = Longs[n] + 1
    BY <1>5, <2>1
  <2> HIDE DEF l, m
  <2>3. l \in 1 .. l /\ s + l - 1 = p
    BY <1>2, <1>5, <2>2
  <2>4. s + l - 1 \in 1 .. m
    BY <1>5, <2>3
  <2>5. mem[s + l - 1].kind # "short"
    BY <1>2, <1>3, <1>5, <2>3, RowFacts DEF l
  <2> QED
    BY <2>1, <2>3, <2>4, <2>5
<1> HIDE DEF p, l, m
<1>7. \A q \in 1 .. m : mem'[q].kind = "short" /\ q \notin Pending' => mem[q].kind = "short"
  <2> TAKE q \in 1 .. m
  <2> HAVE mem'[q].kind = "short" /\ q \notin Pending'
  <2>1. \/ mem'[q] = mem[q]
        \/ mem'[q].kind # "short" /\ mem[q].kind # "short"
        \/ mem'[q].kind = "short" /\ mem'[q].alias = a /\ q = p /\ Fits /\ mem[q].kind # "short"
    BY <1>3 DEF m
  <2>2. ~(q = p /\ Fits)
    BY <1>3
  <2> QED
    BY <2>1, <2>2
<1>8. LiveNames' = LiveNames /\ (NameRight' => RunInv')
  <2>1. \A q \in Pending' : mem[q].kind # "short"
    BY <1>6
  <2> QED
    BY <1>2, <1>3, <1>4, <1>7, <2>1, RowKept DEF m
<1>9. ASSUME "crash" \in failing PROVE DiskRow(s, Longs[n])'
  <2>1. LongBlocks' = LongBlocks /\ (Fits' <=> Fits)
    BY <1>3 DEF LongBlocks, ShortBlocks, RunBlocks, Fits
  <2>2. Fits => disk[p].kind # "short"
    <3> SUFFICES ASSUME Fits PROVE disk[p].kind # "short"
      OBVIOUS
    <3>1. p \in 1 .. m /\ mem[p].kind # "short"
      BY <1>3, <1>6
    <3>2. Alike(mem[p], disk[p])
      BY <1>3, <1>9, <3>1 DEF AliasInv, DiskRight, m
    <3> QED
      BY <3>1, <3>2 DEF Alike
  <2>3. ASSUME NEW i \in 1 .. l, BlockOf(op.at[i]) \in LongBlocks PROVE disk[s + i - 1] = op.slots[i]
    <3>1. op.at[i] = s + i - 1 /\ s + i - 1 \in 1 .. m
      BY <1>5
    <3>2. Placed(i)
      BY <1>3, <2>3 DEF Placed
    <3>3. mem[s + i - 1] = op.slots[i]
      BY <1>2, <3>2 DEF Adding, l
    <3>4. op.at[i] \in BlockSlots(BlockOf(op.at[i]))
      <4>1. op.at[i] \in Nat \ {0}
        BY <1>5, <3>1
      <4> QED
        BY <4>1, InItsBlock
    <3>5. disk[op.at[i]] = mem[op.at[i]]
      BY <1>3, <2>3, <3>4 DEF Synced
    <3> QED
      BY <3>1, <3>3, <3>5
  <2>4. \A i \in 1 .. l : BlockOf(op.at[i]) \in LongBlocks \/ (Fits /\ disk[p].kind = "short") => disk[s + i - 1] = op.slots[i]
    BY <2>2, <2>3
  <2> QED
    BY <1>3, <2>1, <2>4 DEF DiskRow, l, p
<1>10. Named(n, a, s)'
  BY <1>2, <1>3, <1>8, <1>9 DEF Named
<1>11. NameRight'
  <2>1. s \in 1 .. Len(mem') + 1
    BY <1>3
  <2> QED
    BY <1>3, <1>10, <2>1 DEF NameRight, Adds
<1> QED
  BY <1>8, <1>11

(* A step that ends with one entry more.                                       *)
LEMMA OneMoreName ==
  ASSUME DirTypes', RunInv, failing' = failing, op' = NoOp, NEW n \in Names, NEW p \in 1 .. Len(mem'),
         Ent(mem', p, n), "crash" \in failing => Ent(disk', p, n), n \notin LiveNames,
         \A i, k : Lives(i, k) => i \in 1 .. Len(mem') /\ Ent(mem', i, k) /\ ("crash" \in failing => Ent(disk', i, k)),
         \A i \in 1 .. Len(mem') : mem'[i].kind = "short" /\ i # p =>
            i \in 1 .. Len(mem) /\ mem[i].kind = "short" /\ i \notin Doomed \cup Pending
  PROVE  /\ EntRight' /\ Apart' /\ OneEach' /\ NameRight' /\ DiskRuns' /\ LiveNames' = LiveNames \cup {n}
         /\ \A i, k : Lives(i, k) => Lives(i, k)'
<1>1. Doomed' = {} /\ Pending' = {} /\ op'.pc = "none" /\ mem' \in Seq(SlotSet)
  BY NoOpFacts DEF Doomed, Pending, DirTypes
<1>2. EntRight /\ OneEach /\ DiskRuns
  BY DEF RunInv
<1>3. \A i, k : Lives(i, k) => k \in Names /\ i \in 1 .. Len(mem)
  BY DEF Lives
<1>4. \A i, k : Lives(i, k)' <=> i \in 1 .. Len(mem') /\ k \in Names /\ Ent(mem', i, k)
  BY <1>1, EntPrime DEF Lives
<1>5. ASSUME NEW i \in 1 .. Len(mem'), mem'[i].kind = "short", i # p
      PROVE  \E k \in Names : Lives(i, k) /\ Ent(mem', i, k)
  <2>1. i \in 1 .. Len(mem) /\ mem[i].kind = "short" /\ i \notin Doomed \cup Pending
    BY <1>5
  <2>2. PICK k \in Names : Ent(mem, i, k)
    BY <1>2, <2>1 DEF EntRight
  <2>3. Lives(i, k)
    BY <2>1, <2>2 DEF Lives
  <2> QED
    BY <2>3
<1>6. ASSUME NEW i, NEW k, Lives(i, k)' PROVE Lives(i, k) \/ (i = p /\ k = n)
  <2>1. i \in 1 .. Len(mem') /\ k \in Names /\ Ent(mem', i, k)
    BY <1>4, <1>6
  <2>2. mem'[i].kind = "short"
    BY <2>1 DEF Ent
  <2>3. CASE i = p
    <3>1. k = n
      BY <1>1, <2>1, <2>3, EntOne
    <3> QED
      BY <2>3, <3>1
  <2>4. CASE i # p
    <3>1. PICK c \in Names : Lives(i, c) /\ Ent(mem', i, c)
      BY <1>5, <2>1, <2>2, <2>4
    <3>2. k = c
      BY <1>1, <2>1, <3>1, EntOne
    <3> QED
      BY <3>1, <3>2
  <2> QED
    BY <2>3, <2>4
<1>7. \A i, k : Lives(i, k) => Lives(i, k)'
  BY <1>3, <1>4
<1>8. Lives(p, n)'
  BY <1>4
<1>9. EntRight'
  BY <1>5, EntPrime DEF EntRight
<1>10. \A i : ~Lives(i, n)
  BY <1>3 DEF LiveNames
<1>11. OneEach'
  <2> SUFFICES ASSUME NEW i, NEW k, NEW c, Lives(i, c)', Lives(k, c)' PROVE i = k
    BY DEF OneEach
  <2>1. (Lives(i, c) \/ (i = p /\ c = n)) /\ (Lives(k, c) \/ (k = p /\ c = n))
    BY <1>6
  <2>2. Lives(i, c) /\ Lives(k, c) => i = k
    BY <1>2, <1>3 DEF OneEach
  <2> QED
    BY <1>10, <2>1, <2>2
<1>12. LiveNames' = LiveNames \cup {n}
  <2>1. \A c \in Names : c \in LiveNames' <=> c \in LiveNames \/ c = n
    <3> TAKE c \in Names
    <3>1. c \in LiveNames' <=> \E i \in 1 .. Len(mem') : Lives(i, c)'
      BY DEF LiveNames
    <3>2. c \in LiveNames <=> \E i \in 1 .. Len(mem) : Lives(i, c)
      BY DEF LiveNames
    <3>3. \A i : Lives(i, c)' => i \in 1 .. Len(mem')
      BY <1>4
    <3> QED
      BY <1>3, <1>6, <1>7, <1>8, <3>1, <3>2, <3>3
  <2>2. LiveNames' \subseteq Names /\ LiveNames \subseteq Names
    BY DEF LiveNames
  <2> QED
    BY <2>1, <2>2
<1>13. Apart' /\ NameRight'
  BY <1>1 DEF Apart, NameRight, Adds
<1>14. DiskRuns'
  <2> SUFFICES ASSUME "crash" \in failing, NEW i, NEW k, Lives(i, k)' PROVE Ent(disk', i, k)
    BY EntPrime DEF DiskRuns
  <2> QED
    BY <1>6
<1> QED
  BY <1>7, <1>9, <1>11, <1>12, <1>13, <1>14

LEMMA OneMore ==
  ASSUME DirTypes', RunInv, failing' = failing, filp' = filp, op' = NoOp, NEW n \in Names, NEW p \in 1 .. Len(mem'),
         Ent(mem', p, n), "crash" \in failing => Ent(disk', p, n), n \notin LiveNames,
         \A i, k : Lives(i, k) => i \in 1 .. Len(mem') /\ Ent(mem', i, k) /\ ("crash" \in failing => Ent(disk', i, k)),
         \A i \in 1 .. Len(mem') : mem'[i].kind = "short" /\ i # p =>
            i \in 1 .. Len(mem) /\ mem[i].kind = "short" /\ i \notin Doomed \cup Pending
  PROVE  RunInv' /\ LiveNames' = LiveNames \cup {n}
<1>1. /\ EntRight' /\ Apart' /\ OneEach' /\ NameRight' /\ DiskRuns' /\ LiveNames' = LiveNames \cup {n}
      /\ \A i, k : Lives(i, k) => Lives(i, k)'
  BY OneMoreName
<1>2. DirRight'
  BY <1>1, DirKept, DirSame DEF RunInv
<1> QED
  BY <1>1, <1>2 DEF RunInv


(* An entry of which all slots are placed.                                     *)
AllPlaced == op.pc = "short sync" /\ Fits

LEMMA PlacedRow ==
  ASSUME DirTypes, AllPlaced, NEW n \in Names, NEW a \in Alias, NEW s \in Nat \ {0}, Adding(n, a, s)
  PROVE  /\ s + Longs[n] \in 1 .. Len(mem) /\ Pending = {s + Longs[n]} /\ Len(op.at) = Longs[n] + 1
         /\ Ent(mem, s + Longs[n], n)
         /\ \A i \in 1 .. Longs[n] + 1 : op.at[i] = s + i - 1 /\ s + i - 1 \in 1 .. Len(mem) /\ mem[s + i - 1] = op.slots[i]
         /\ ShortBlocks = {BlockOf(op.at[Longs[n] + 1])}
         /\ (\A i \in 1 .. Longs[n] + 1 : disk[s + i - 1] = op.slots[i]) =>
              Ent(disk, s + Longs[n], n) /\ disk[s + Longs[n]].alias = a
<1> DEFINE k == Longs[n]
           l == Len(op.at)
           m == Len(mem)
           e == s + k
<1>1. mem \in Seq(SlotSet) /\ m \in Nat
  <2>1. mem \in Seq(SlotSet)
    BY DEF DirTypes
  <2> QED
    BY <2>1
<1>2. k \in Nat /\ l = k + 1
  <2>1. Fits
    BY DEF AllPlaced
  <2> QED
    BY <1>1, <2>1, AddFacts
<1>3. \A i \in 1 .. l : op.at[i] = s + i - 1 /\ s + i - 1 \in 1 .. m
  BY <1>1, AddFacts
<1>4. \A i \in 1 .. l : mem[s + i - 1] = op.slots[i]
  BY DEF Adding, Placed, AllPlaced
<1>5. Pending = {op.at[l]} /\ ShortBlocks = {BlockOf(op.at[l])}
  BY DEF Pending, ShortBlocks, AllPlaced
<1>6. e - k = s /\ e \in Nat /\ e > k /\ k + 1 \in 1 .. k + 1 /\ s + (k + 1) - 1 = e
  <2>1. \A x \in Nat : (s + x) - x = s /\ s + x \in Nat /\ s + x > x /\ x + 1 \in 1 .. x + 1 /\ s + (x + 1) - 1 = s + x
    OBVIOUS
  <2> HIDE DEF k
  <2> QED
    BY <1>2, <2>1
<1>7. e \in 1 .. m /\ op.at[l] = e
  <2> HIDE DEF e, k, l, m
  <2> QED
    BY <1>2, <1>3, <1>6
<1>8. \A i \in 1 .. k + 1 : op.at[i] = s + i - 1 /\ s + i - 1 \in 1 .. m /\ mem[s + i - 1] = op.slots[i]
  <2> HIDE DEF k, l, m
  <2> QED
    BY <1>2, <1>3, <1>4
<1>9. Ent(mem, e, n)
  <2>1. \A i \in 1 .. k + 1 : mem[e - k + i - 1] = op.slots[i]
    BY <1>6, <1>8
  <2> HIDE DEF e
  <2> QED
    BY <1>1, <1>6, <2>1, EntRow
<1>10. ASSUME \A i \in 1 .. k + 1 : disk[s + i - 1] = op.slots[i] PROVE Ent(disk, e, n) /\ disk[e].alias = a
  <2>1. \A i \in 1 .. k + 1 : disk[e - k + i - 1] = op.slots[i]
    BY <1>6, <1>10
  <2> HIDE DEF e
  <2>2. e \in Nat /\ e > k
    BY <1>6
  <2>3. Ent(disk, e, n)
    BY <1>1, <2>1, <2>2, EntRow
  <2>4. disk[e].alias = a
    BY <1>1, <2>1, <2>2, EntRow
  <2> QED
    BY <2>3, <2>4
<1> HIDE DEF e, k, l, m
<1>11. op.at[k + 1] = e
  BY <1>2, <1>7
<1>12. /\ e \in 1 .. m /\ Pending = {e} /\ l = k + 1 /\ Ent(mem, e, n)
       /\ \A i \in 1 .. k + 1 : op.at[i] = s + i - 1 /\ s + i - 1 \in 1 .. m /\ mem[s + i - 1] = op.slots[i]
       /\ ShortBlocks = {BlockOf(op.at[k + 1])}
       /\ (\A i \in 1 .. k + 1 : disk[s + i - 1] = op.slots[i]) => Ent(disk, e, n) /\ disk[e].alias = a
  BY <1>2, <1>5, <1>7, <1>8, <1>9, <1>10
<1> QED
  BY <1>12 DEF e, k, l, m

LEMMA AddDoneRun ==
  ASSUME AliasInv, AliasInv', RunInv, AddDone
  PROVE  RunInv' /\ \E n \in Names : LiveNames' = op.before \cup {n}
<1>1. /\ op.pc = "short sync" /\ Fits /\ Synced(ShortBlocks) /\ op' = NoOp
      /\ mem' = mem /\ disk' = disk /\ filp' = filp /\ failing' = failing
  BY DEF AddDone
<1>2. PICK n \in Names, a \in Alias, s \in 1 .. Len(mem) + 1 : Named(n, a, s)
  BY <1>1 DEF RunInv, NameRight, Adds
<1>3. DirTypes /\ DirTypes' /\ Adding(n, a, s) /\ op.before = LiveNames /\ n \notin LiveNames
  BY <1>2 DEF Named, AliasInv
<1>4. s \in Nat \ {0}
  <2>1. Len(mem) \in Nat
    BY <1>3 DEF DirTypes
  <2> QED
    BY <2>1
<1> DEFINE k == Longs[n]
           p == s + k
<1>0. AllPlaced
  BY <1>1 DEF AllPlaced
<1>5. /\ p \in 1 .. Len(mem) /\ Pending = {p} /\ Len(op.at) = k + 1 /\ Ent(mem, p, n)
      /\ ShortBlocks = {BlockOf(op.at[k + 1])}
  BY <1>0, <1>3, <1>4, PlacedRow
<1>6. \A i \in 1 .. k + 1 : op.at[i] = s + i - 1 /\ s + i - 1 \in 1 .. Len(mem) /\ mem[s + i - 1] = op.slots[i]
  <2>1. \A i \in 1 .. Longs[n] + 1 : op.at[i] = s + i - 1
    BY <1>0, <1>3, <1>4, PlacedRow
  <2>2. \A i \in 1 .. Longs[n] + 1 : s + i - 1 \in 1 .. Len(mem)
    BY <1>0, <1>3, <1>4, PlacedRow
  <2>3. \A i \in 1 .. Longs[n] + 1 : mem[s + i - 1] = op.slots[i]
    BY <1>0, <1>3, <1>4, PlacedRow
  <2> QED
    BY <2>1, <2>2, <2>3
<1>7. (\A i \in 1 .. k + 1 : disk[s + i - 1] = op.slots[i]) => Ent(disk, p, n)
  BY <1>0, <1>3, <1>4, PlacedRow
<1>8. ASSUME "crash" \in failing PROVE Ent(disk, p, n)
  <2>1. DiskRow(s, k)
    BY <1>1, <1>2, <1>8 DEF Named
  <2> SUFFICES ASSUME NEW i \in 1 .. k + 1 PROVE disk[s + i - 1] = op.slots[i]
    BY <1>7
  <2>2. BlockOf(op.at[i]) \in RunBlocks
    BY <1>5 DEF RunBlocks
  <2>3. CASE BlockOf(op.at[i]) \in LongBlocks
    BY <1>5, <2>1, <2>3 DEF DiskRow
  <2>4. CASE BlockOf(op.at[i]) \in ShortBlocks
    <3>1. op.at[i] \in Nat \ {0}
      BY <1>4, <1>6
    <3>2. op.at[i] \in BlockSlots(BlockOf(op.at[i]))
      BY <3>1, InItsBlock
    <3>3. disk[op.at[i]] = mem[op.at[i]]
      BY <1>1, <2>4, <3>2 DEF Synced
    <3> QED
      BY <1>6, <3>3
  <2> QED
    BY <2>2, <2>3, <2>4 DEF LongBlocks
<1> HIDE DEF p, k
<1>9. \A i, c : Lives(i, c) => i \in 1 .. Len(mem) /\ Ent(mem, i, c) /\ ("crash" \in failing => Ent(disk, i, c))
  BY DEF RunInv, DiskRuns, Lives
<1>10. Doomed = {}
  BY <1>1 DEF Doomed
<1>11. RunInv' /\ LiveNames' = LiveNames \cup {n}
  <2>1. \A i \in 1 .. Len(mem') : mem'[i].kind = "short" /\ i # p =>
            i \in 1 .. Len(mem) /\ mem[i].kind = "short" /\ i \notin Doomed \cup Pending
    BY <1>1, <1>5, <1>10
  <2> QED
    BY <1>1, <1>3, <1>5, <1>8, <1>9, <2>1, OneMore
<1> QED
  BY <1>3, <1>11

LEMMA AddNewRun ==
  ASSUME AliasInv, AliasInv', RunInv, AddNewEntries
  PROVE  RunInv' /\ \E n \in Names : LiveNames' = op.before \cup {n}
<1>1. PICK n \in Names, a \in Alias, s \in 1 .. Len(mem) + 1 : Named(n, a, s)
  BY DEF RunInv, NameRight, Adds, AddNewEntries
<1>2. DirTypes /\ DirTypes' /\ Adding(n, a, s) /\ op.before = LiveNames /\ n \notin LiveNames
  BY <1>1 DEF Named, AliasInv
<1> DEFINE k == Longs[n]
           l == Len(op.at)
           m == Len(mem)
           r == k + 1 - l
           e == m + r
           z == op.slots
<1>3. mem \in Seq(SlotSet) /\ mem' \in Seq(SlotSet) /\ Len(disk) = m
  BY <1>2 DEF DirTypes
<1>4. m \in Nat /\ Len(mem') \in Nat
  BY <1>3
<1>5. s \in Nat \ {0}
  BY <1>4
<1>6. op.pc = "short sync" /\ ~Fits /\ op' = NoOp /\ failing' = failing /\ filp' = filp /\ m <= Len(mem')
  BY <1>2, <1>5, AddNewIs
<1>7. r \in Nat \ {0} /\ e \in 1 .. Len(mem')
  BY <1>2, <1>5, AddNewIs
<1>8. \A p \in 1 .. m : mem'[p] = mem[p] /\ disk'[p] = disk[p]
  BY <1>2, <1>5, AddNewIs
<1>9. \A p \in m + 1 .. Len(mem') : mem'[p].kind = "short" => p = e
  BY <1>2, <1>5, AddNewIs
<1>10. \A x \in 1 .. r : mem'[m + x] = z[l + x] /\ disk'[m + x] = z[l + x]
  BY <1>2, <1>5, AddNewIs
<1>11. k \in Nat /\ l \in Nat /\ l <= k + 1
  BY <1>2, <1>3, <1>5, AddFacts
<1>12. s + l = m + 1
  <2>1. ~Fits
    BY <1>6
  <2>2. Fits <=> l = k + 1
    BY <1>2, <1>3, <1>5, AddFacts
  <2>3. Row(op.at, s, k + 1, m)
    BY <1>2 DEF Adding
  <2>4. l < k + 1 => s + l = m + 1
    BY <2>3 DEF Row
  <2> HIDE DEF k, l, m
  <2>5. l < k + 1
    BY <1>11, <2>1, <2>2
  <2> QED
    BY <2>4, <2>5
<1>13. \A i \in 1 .. l : op.at[i] = s + i - 1 /\ s + i - 1 \in 1 .. m
  BY <1>2, <1>3, <1>5, AddFacts
<1>14. \A i \in 1 .. l : mem[s + i - 1] = z[i]
  BY <1>2, <1>6 DEF Adding, Placed
<1>15. ASSUME "crash" \in failing, NEW i \in 1 .. l PROVE disk[s + i - 1] = z[i]
  <2>1. DiskRow(s, k)
    BY <1>1, <1>6, <1>15 DEF Named
  <2>2. BlockOf(op.at[i]) \in LongBlocks
    BY <1>6 DEF LongBlocks, RunBlocks, ShortBlocks
  <2> QED
    BY <2>1, <2>2 DEF DiskRow
<1>16. Doomed = {} /\ Pending = {}
  BY <1>6 DEF Doomed, Pending
<1> HIDE DEF z, e, r, m, l, k
<1>17. e - k = s /\ e > k /\ e \in Nat
  BY <1>4, <1>5, <1>7, <1>11, <1>12 DEF e, r
<1>18. \A x \in 1 .. k + 1 : x \in 1 .. l \/ (x - l \in 1 .. r /\ s + x - 1 = m + (x - l) /\ l + (x - l) = x)
  BY <1>4, <1>5, <1>11, <1>12 DEF r
<1>19. ASSUME NEW v, \A i \in 1 .. l : v[s + i - 1] = z[i], \A x \in 1 .. r : v[m + x] = z[l + x]
       PROVE  Ent(v, e, n)
  <2>1. \A x \in 1 .. k + 1 : v[e - k + x - 1] = z[x]
    <3> TAKE x \in 1 .. k + 1
    <3>1. v[s + x - 1] = z[x]
      BY <1>18, <1>19
    <3> QED
      BY <1>17, <3>1
  <2> QED
    BY <1>2, <1>3, <1>5, <1>17, <2>1, EntRow DEF k, z
<1>20. Ent(mem', e, n)
  <2>1. \A i \in 1 .. l : mem'[s + i - 1] = z[i]
    BY <1>8, <1>13, <1>14
  <2> QED
    BY <1>10, <1>19, <2>1
<1>21. ASSUME "crash" \in failing PROVE Ent(disk', e, n)
  <2>1. \A i \in 1 .. l : disk'[s + i - 1] = z[i]
    BY <1>8, <1>13, <1>15, <1>21
  <2> QED
    BY <1>10, <1>19, <2>1
<1>22. \A i, c : Lives(i, c) => i \in 1 .. Len(mem') /\ Ent(mem', i, c) /\ ("crash" \in failing => Ent(disk', i, c))
  <2> SUFFICES ASSUME NEW i, NEW c, Lives(i, c)
               PROVE  i \in 1 .. Len(mem') /\ Ent(mem', i, c) /\ ("crash" \in failing => Ent(disk', i, c))
    OBVIOUS
  <2>1. i \in Nat /\ i \in 1 .. m /\ c \in Names /\ Ent(mem, i, c)
    BY <1>2, LivesFacts DEF m
  <2>2. \A j \in 0 .. Longs[c] : i - j \in 1 .. m
    BY <1>2, LivesFacts DEF m
  <2>3. "crash" \in failing => Ent(disk, i, c)
    BY <2>1 DEF RunInv, DiskRuns, m
  <2>4. Ent(mem', i, c)
    <3>1. \A j \in 0 .. Longs[c] : mem'[i - j] = mem[i - j]
      BY <1>8, <2>2
    <3> QED
      BY <2>1, <3>1, EntSame
  <2>5. "crash" \in failing => Ent(disk', i, c)
    <3>1. \A j \in 0 .. Longs[c] : disk'[i - j] = disk[i - j]
      BY <1>8, <2>2
    <3> QED
      BY <2>1, <2>3, <3>1, EntSame
  <2>6. i \in 1 .. Len(mem')
    <3>1. m <= Len(mem')
      BY <1>6
    <3> QED
      BY <1>4, <2>1, <3>1
  <2> QED
    BY <2>4, <2>5, <2>6
<1>23. \A i \in 1 .. Len(mem') : mem'[i].kind = "short" /\ i # e =>
            i \in 1 .. m /\ mem[i].kind = "short" /\ i \notin Doomed \cup Pending
  <2>1. \A i \in 1 .. Len(mem') : i \in 1 .. m \/ i \in m + 1 .. Len(mem')
    BY <1>4
  <2> QED
    BY <1>8, <1>9, <1>16, <2>1
<1>24. RunInv' /\ LiveNames' = LiveNames \cup {n}
  BY <1>2, <1>6, <1>7, <1>20, <1>21, <1>22, <1>23, OneMore DEF m
<1> QED
  BY <1>2, <1>24

(* A step that takes one entry away.                                           *)
LEMMA OneLess ==
  ASSUME DirTypes, DirTypes', RunInv, NEW n, NEW p, Lives(p, n),
         \A i, k : Lives(i, k) /\ i # p => i \in 1 .. Len(mem') /\ i \notin Doomed' \cup Pending' /\ Ent(mem', i, k),
         \A i \in 1 .. Len(mem') : mem'[i].kind = "short" /\ i \notin Doomed' \cup Pending' =>
            i \in 1 .. Len(mem) /\ mem[i].kind = "short" /\ i \notin Doomed \cup Pending /\ i # p
  PROVE  /\ EntRight' /\ OneEach' /\ LiveNames' = LiveNames \ {n} /\ n \in LiveNames
         /\ \A i, k : Lives(i, k)' <=> Lives(i, k) /\ i # p
         /\ \A k : Lives(p, k) => k = n
<1>1. mem' \in Seq(SlotSet) /\ mem \in Seq(SlotSet)
  BY DEF DirTypes
<1>2. \A i, k : Lives(i, k) => k \in Names /\ i \in 1 .. Len(mem) /\ Ent(mem, i, k)
  BY DEF Lives
<1>3. \A i, k : Lives(i, k) /\ i # p => Lives(i, k)'
  BY <1>2, EntPrime DEF Lives
<1>4. ASSUME NEW i \in 1 .. Len(mem'), mem'[i].kind = "short", i \notin Doomed' \cup Pending'
      PROVE  i # p /\ \E k \in Names : Lives(i, k) /\ Ent(mem', i, k)
  <2>1. i \in 1 .. Len(mem) /\ mem[i].kind = "short" /\ i \notin Doomed \cup Pending /\ i # p
    BY <1>4
  <2>2. PICK k \in Names : Ent(mem, i, k)
    BY <2>1 DEF RunInv, EntRight
  <2> QED
    BY <2>1, <2>2 DEF Lives
<1>5. EntRight'
  BY <1>4, EntPrime DEF EntRight
<1>6. ASSUME NEW i, NEW k, Lives(i, k)' PROVE Lives(i, k) /\ i # p
  <2>1. i \in 1 .. Len(mem') /\ i \notin Doomed' \cup Pending' /\ k \in Names /\ Ent(mem', i, k)
    BY <1>6, EntPrime DEF Lives
  <2>2. mem'[i].kind = "short"
    BY <2>1 DEF Ent
  <2>3. PICK c \in Names : Lives(i, c) /\ Ent(mem', i, c)
    BY <1>4, <2>1, <2>2
  <2>4. k = c
    BY <1>1, <2>1, <2>3, EntOne
  <2> QED
    BY <1>4, <2>1, <2>2, <2>3, <2>4
<1>7. \A i, k : Lives(i, k)' <=> Lives(i, k) /\ i # p
  BY <1>3, <1>6
<1>8. \A i, k, c : Lives(i, c) /\ Lives(k, c) => i = k
  BY <1>2 DEF RunInv, OneEach
<1>9. \A k : Lives(p, k) => k = n
  BY <1>1, <1>2, EntOne
<1>10. OneEach'
  BY <1>7, <1>8 DEF OneEach
<1>11. \A i, k : Lives(i, k)' => i \in 1 .. Len(mem')
  BY DEF Lives
<1>12. \A c \in Names : c \in LiveNames' <=> c \in LiveNames /\ c # n
  <2> TAKE c \in Names
  <2>1. c \in LiveNames' <=> \E i \in 1 .. Len(mem') : Lives(i, c)'
    BY DEF LiveNames
  <2>2. c \in LiveNames <=> \E i \in 1 .. Len(mem) : Lives(i, c)
    BY DEF LiveNames
  <2>3. c \in LiveNames' => c \in LiveNames /\ c # n
    <3> SUFFICES ASSUME NEW i, Lives(i, c)' PROVE c \in LiveNames /\ c # n
      BY <2>1
    <3>1. Lives(i, c) /\ i # p
      BY <1>7
    <3>2. c # n
      BY <1>8, <3>1
    <3> QED
      BY <1>2, <2>2, <3>1, <3>2
  <2>4. c \in LiveNames /\ c # n => c \in LiveNames'
    <3> SUFFICES ASSUME NEW i, Lives(i, c), c # n PROVE c \in LiveNames'
      BY <2>2
    <3>1. i # p
      BY <1>9
    <3>2. Lives(i, c)'
      BY <1>7, <3>1
    <3> QED
      BY <1>11, <2>1, <3>2
  <2> QED
    BY <2>3, <2>4
<1>13. LiveNames' \subseteq Names /\ LiveNames \subseteq Names /\ n \in LiveNames
  BY <1>2 DEF LiveNames
<1>14. LiveNames' = LiveNames \ {n}
  BY <1>12, <1>13
<1> QED
  BY <1>5, <1>7, <1>9, <1>10, <1>13, <1>14

(* The other entries do not reach into the slots of one.                       *)
LEMMA EntApart ==
  ASSUME DirTypes, NEW p \in 1 .. Len(mem), mem[p].kind = "short", NEW b \in Nat \ {0},
         \A q \in b .. p - 1 : mem[q].kind = "long", NEW i, NEW c, Lives(i, c), i # p
  PROVE  \A j \in 0 .. Longs[c] : i - j \notin b .. p
<1>1. /\ i \in Nat \ {0} /\ i \in 1 .. Len(mem) /\ Longs[c] \in Nat /\ mem[i].kind = "short"
      /\ \A j \in 0 .. Longs[c] : (j # 0 => mem[i - j].kind = "long")
  BY LivesFacts
<1>2. p \in Nat
  <2>1. mem \in Seq(SlotSet)
    BY DEF DirTypes
  <2> QED
    BY <2>1
<1>3. i \notin b .. p - 1
  BY <1>1
<1> SUFFICES ASSUME NEW j \in 0 .. Longs[c], i - j \in b .. p PROVE FALSE
  OBVIOUS
<1>4. i - p \in 1 .. j /\ i - (i - p) = p
  BY <1>1, <1>2, <1>3
<1>5. i - p \in 0 .. Longs[c] /\ i - p # 0
  BY <1>1, <1>2, <1>4
<1>6. mem[i - (i - p)].kind = "long"
  BY <1>1, <1>5
<1> QED
  BY <1>4, <1>6

LEMMA UnlinkRun ==
  ASSUME Bad = {}, AliasInv, AliasInv', RunInv, NEW n \in Names, Unlink(n)
  PROVE  RunInv'
<1>1. DirTypes /\ DirTypes'
  BY DEF AliasInv
<1>2. op = NoOp /\ disk' = disk /\ failing' = failing /\ filp' = [filp EXCEPT !.owed = @ \ {n}, !.told = @ \ {n}]
  BY DEF Unlink
<1>3. /\ Doomed = {} /\ Pending = {} /\ Listing(mem) = LiveNames
      /\ Search(mem, n) = {i \in 1 .. Len(mem) : Lives(i, n)}
  BY <1>2, QuietFacts
<1>4. PICK p \in Search(mem, n), lo \in Nat \ {0}, nr \in Nat \ {0} :
           /\ nr <= p /\ p - nr + 1 <= lo /\ lo <= p /\ p \in 1 .. Len(mem)
           /\ mem[p].kind = "short" /\ \A q \in p - nr + 1 .. p - 1 : mem[q].kind = "long"
           /\ mem' = Erased(lo .. p) /\ \A q \in lo .. p : BlockOf(q) = BlockOf(p)
           /\ op' = [pc |-> "gone", slots |-> <<>>, at |-> <<p>>, pos |-> p - nr + 1, left |-> lo - (p - nr + 1),
                     before |-> Listing(mem)]
  BY UnlinkIs
<1> DEFINE b == p - nr + 1
           m == Len(mem)
<1>5. mem \in Seq(SlotSet)
  BY <1>1 DEF DirTypes
<1>6. m \in Nat
  BY <1>5
<1>7. p \in Nat \ {0} /\ b \in Nat \ {0} /\ b <= lo /\ lo <= p /\ p \in 1 .. m
  BY <1>4, <1>6
<1>8. op'.pc = "gone" /\ op'.at[1] = p /\ op'.pos = b /\ op'.left = lo - b /\ op'.before = LiveNames
  BY <1>3, <1>4
<1>9. mem[p].kind = "short" /\ (\A q \in b .. p - 1 : mem[q].kind = "long") /\ \A q \in lo .. p : BlockOf(q) = BlockOf(p)
  BY <1>4
<1>10. Len(mem') = m /\ \A q \in 1 .. m : mem'[q] = IF q \in lo .. p THEN FreeSlot ELSE mem[q]
  <2> DEFINE f == Erased(lo .. p)
  <2>1. Len(f) = m /\ \A q \in 1 .. m : f[q] = IF q \in lo .. p THEN FreeSlot ELSE mem[q]
    BY <1>5, ErasedIs
  <2>2. mem' = f
    BY <1>4
  <2> HIDE DEF f
  <2> QED
    BY <2>1, <2>2
<1>11. Lives(p, n)
  BY <1>3, <1>4
<1> HIDE DEF b, m
<1>12. Doomed' \subseteq b .. p /\ Pending' = {p}
  <2>1. Doomed' = b .. b + (lo - b) - 1
    BY <1>8 DEF Doomed
  <2>2. b .. b + (lo - b) - 1 \subseteq b .. p
    BY <1>7
  <2>3. Pending' = {p}
    BY <1>8 DEF Pending
  <2> QED
    BY <2>1, <2>2, <2>3
<1>13. \A i, c : Lives(i, c) /\ i # p => \A j \in 0 .. Longs[c] : i - j \notin b .. p
  BY <1>1, <1>7, <1>9, EntApart DEF m
<1>14. \A i, c : Lives(i, c) /\ i # p => i \in 1 .. Len(mem') /\ i \notin Doomed' \cup Pending' /\ Ent(mem', i, c)
  <2> SUFFICES ASSUME NEW i, NEW c, Lives(i, c), i # p
               PROVE  i \in 1 .. Len(mem') /\ i \notin Doomed' \cup Pending' /\ Ent(mem', i, c)
    OBVIOUS
  <2>1. i \in Nat /\ i \in 1 .. m /\ c \in Names /\ Ent(mem, i, c) /\ Longs[c] \in Nat
    BY <1>1, LivesFacts DEF m
  <2>2. \A j \in 0 .. Longs[c] : i - j \in 1 .. m
    BY <1>1, LivesFacts DEF m
  <2>3. \A j \in 0 .. Longs[c] : i - j \notin b .. p
    BY <1>13
  <2>4. lo .. p \subseteq b .. p
    BY <1>7
  <2>5. \A j \in 0 .. Longs[c] : mem'[i - j] = mem[i - j]
    BY <1>10, <2>2, <2>3, <2>4
  <2>6. Ent(mem', i, c)
    BY <2>1, <2>5, EntSame
  <2>7. 0 \in 0 .. Longs[c] /\ i - 0 = i
    BY <2>1
  <2>8. i \notin b .. p
    BY <2>3, <2>7
  <2> QED
    BY <1>10, <1>12, <2>1, <2>6, <2>8
<1>15. \A i \in 1 .. Len(mem') : mem'[i].kind = "short" /\ i \notin Doomed' \cup Pending' =>
            i \in 1 .. m /\ mem[i].kind = "short" /\ i \notin Doomed \cup Pending /\ i # p
  <2> SUFFICES ASSUME NEW i \in 1 .. m, mem'[i].kind = "short", i \notin Pending'
               PROVE  mem[i].kind = "short" /\ i # p
    BY <1>3, <1>10
  <2>1. mem'[i] = IF i \in lo .. p THEN FreeSlot ELSE mem[i]
    BY <1>10
  <2>2. mem'[i] = mem[i]
    BY <2>1, SlotFacts
  <2> QED
    BY <1>12, <2>2
<1>16. /\ EntRight' /\ OneEach' /\ LiveNames' = LiveNames \ {n} /\ n \in LiveNames
       /\ \A i, k : Lives(i, k)' <=> Lives(i, k) /\ i # p
       /\ \A k : Lives(p, k) => k = n
  BY <1>1, <1>11, <1>14, <1>15, OneLess DEF m
<1>17. Apart'
  BY <1>12, <1>13, <1>16 DEF Apart
<1>18. DiskRuns'
  <2> SUFFICES ASSUME "crash" \in failing, NEW i, NEW k, Lives(i, k)' PROVE Ent(disk, i, k)
    BY <1>2, EntPrime DEF DiskRuns
  <2>1. Lives(i, k)
    BY <1>16
  <2> QED
    BY <2>1 DEF RunInv, DiskRuns, Lives
<1>19. DirRight'
  <2>1. filp = [how |-> filp.how, pos |-> filp.pos, owed |-> filp.owed, told |-> filp.told, twice |-> FALSE] /\ DirRight
    BY DEF RunInv, DirRight
  <2>2. filp' = [how |-> filp.how, pos |-> filp.pos, owed |-> filp.owed \ {n}, told |-> filp.told \ {n}, twice |-> FALSE]
    <3>1. PICK h, x, o, t : filp = [how |-> h, pos |-> x, owed |-> o, told |-> t, twice |-> FALSE]
      BY <2>1
    <3>2. filp' = [how |-> h, pos |-> x, owed |-> o \ {n}, told |-> t \ {n}, twice |-> FALSE]
      BY <1>2, <3>1
    <3>3. filp.how = h /\ filp.pos = x /\ filp.owed = o /\ filp.told = t
      BY <3>1
    <3> QED
      BY <3>2, <3>3
  <2>3. \A i : \A k \in filp'.owed \cup filp'.told : Lives(i, k) => Lives(i, k)'
    BY <1>16, <2>2
  <2> QED
    BY <2>1, <2>2, <2>3, DirKept
<1>0. PICK a \in Alias : a = mem[p].alias
  <2>1. Fitting(n, mem[p].alias)
    BY <1>11 DEF Lives, Ent
  <2> QED
    BY <2>1 DEF Fitting
<1>20. Left(n, a, p)'
  <2>1. op'.before = LiveNames' \cup {n} /\ n \notin LiveNames'
    BY <1>8, <1>16
  <2>2. ASSUME NEW j \in 1 .. Longs[n], BlockOf(p - j) # BlockOf(p)
        PROVE  mem'[p - j] = Slot("long", n, j, j = Longs[n], a)
    <3>1. mem[p - j] = Slot("long", n, j, j = Longs[n], a)
      BY <1>11, <1>0, <2>2 DEF Lives, Ent
    <3>2. p - j \in 1 .. m
      <4>1. Longs[n] \in Nat /\ p > Longs[n]
        BY <1>1, <1>11, LivesFacts
      <4> QED
        BY <1>6, <1>7, <2>2, <4>1 DEF m
    <3>3. p - j \notin lo .. p
      BY <1>9, <2>2
    <3>4. mem'[p - j] = mem[p - j]
      BY <1>10, <3>2, <3>3
    <3> QED
      BY <3>1, <3>4
  <2>3. ASSUME "crash" \in failing, disk[p].kind = "short" PROVE Ent(disk, p, n) /\ disk[p].alias = a
    <3>1. Ent(disk, p, n)
      BY <1>7, <1>11, <2>3 DEF RunInv, DiskRuns, m
    <3>2. Alike(mem[p], disk[p])
      BY <1>3, <1>7, <2>3 DEF AliasInv, DiskRight, m
    <3> QED
      BY <1>9, <1>0, <3>1, <3>2 DEF Alike
  <2> QED
    BY <1>2, <2>1, <2>2, <2>3, EntPrime DEF Left
<1>22. NameRight'
  <2>1. Left(n, a, op.at[1])'
    BY <1>8, <1>20 DEF Left
  <2> QED
    BY <1>8, <2>1 DEF NameRight, Adds
<1> QED
  BY <1>16, <1>17, <1>18, <1>19, <1>22 DEF RunInv

LEMMA EraseRun ==
  ASSUME Bad = {}, AliasInv, AliasInv', RunInv, Erase
  PROVE  RunInv' /\ LiveNames' = LiveNames
<1>1. DirTypes /\ DirTypes' /\ disk' = disk /\ failing' = failing /\ filp' = filp /\ op.pc = "erase"
  BY DEF AliasInv, Erase
<1>2. PICK p \in Nat, e \in Nat :
           /\ (op.pos # 0 => p = op.pos) /\ p <= e /\ e <= p + op.left - 1 /\ p \in 1 .. Len(mem)
           /\ mem' = Erased(p .. e)
           /\ op' = [pc |-> "erase sync", slots |-> op.slots, at |-> <<p>>, pos |-> e + 1,
                     left |-> op.left - (e - p + 1), before |-> op.before]
  BY EraseIs
<1>3. /\ op.pos # 0
      /\ LiveNames = op.before \/ \E n \in Names : LiveNames = op.before \ {n}
  BY <1>1 DEF RunInv, NameRight
<1> DEFINE m == Len(mem)
           g == op.left
<1>4. p = op.pos /\ p <= e /\ e <= p + g - 1 /\ p \in 1 .. m
  BY <1>2, <1>3
<1>5. mem \in Seq(SlotSet) /\ g \in Nat
  BY <1>1 DEF DirTypes, OpTyped
<1>6. op'.pc = "erase sync" /\ op'.pos = e + 1 /\ op'.left = g - (e - p + 1) /\ op'.before = op.before
  BY <1>2
<1>7. Len(mem') = m /\ \A q \in 1 .. m : mem'[q] = IF q \in p .. e THEN FreeSlot ELSE mem[q]
  <2> DEFINE f == Erased(p .. e)
  <2>1. Len(f) = m /\ \A q \in 1 .. m : f[q] = IF q \in p .. e THEN FreeSlot ELSE mem[q]
    BY <1>5, ErasedIs
  <2>2. mem' = f
    BY <1>2
  <2> HIDE DEF f
  <2> QED
    BY <2>1, <2>2
<1>8. m \in Nat
  BY <1>5
<1>9. Pending = {} /\ Pending' = {}
  BY <1>1, <1>6 DEF Pending
<1>10. Doomed = p .. p + g - 1
  BY <1>1, <1>4 DEF Doomed
<1>11. Doomed' = e + 1 .. e + 1 + (g - (e - p + 1)) - 1
  BY <1>6 DEF Doomed
<1> HIDE DEF m, g
<1>12. /\ Doomed' \subseteq Doomed /\ p .. e \subseteq Doomed
       /\ \A q \in Doomed : q \in p .. e \/ q \in Doomed'
  <2>1. e + 1 + (g - (e - p + 1)) - 1 = p + g - 1
    BY <1>5
  <2>2. p \in Nat /\ e \in Nat /\ p <= e /\ e <= p + g - 1
    BY <1>4, <1>5
  <2>3. Doomed' = e + 1 .. p + g - 1
    BY <1>11, <2>1
  <2>4. /\ e + 1 .. p + g - 1 \subseteq p .. p + g - 1 /\ p .. e \subseteq p .. p + g - 1
        /\ \A q \in p .. p + g - 1 : q \in p .. e \/ q \in e + 1 .. p + g - 1
    BY <1>5, <2>2
  <2> QED
    BY <1>10, <2>3, <2>4
<1>13. \A i, c : Lives(i, c) => \A j \in 0 .. Longs[c] : i - j \notin Doomed
  BY DEF RunInv, Apart, Lives
<1>14. \A i, c : Lives(i, c) => i \in 1 .. Len(mem') /\ i \notin Doomed' \cup Pending' /\ Ent(mem', i, c)
  <2> SUFFICES ASSUME NEW i, NEW c, Lives(i, c)
               PROVE  i \in 1 .. Len(mem') /\ i \notin Doomed' \cup Pending' /\ Ent(mem', i, c)
    OBVIOUS
  <2>1. i \in Nat /\ i \in 1 .. m /\ c \in Names /\ Ent(mem, i, c) /\ i \notin Doomed
    BY <1>1, LivesFacts DEF m
  <2>2. \A j \in 0 .. Longs[c] : i - j \in 1 .. m
    BY <1>1, LivesFacts DEF m
  <2>3. \A j \in 0 .. Longs[c] : mem'[i - j] = mem[i - j]
    BY <1>7, <1>12, <1>13, <2>2
  <2>4. Ent(mem', i, c)
    BY <2>1, <2>3, EntSame
  <2> QED
    BY <1>7, <1>9, <1>12, <2>1, <2>4
<1>15. EntRight' /\ \A i, c : Lives(i, c)' <=> Lives(i, c)
  <2>1. \A i \in 1 .. Len(mem') : mem'[i].kind = "short" /\ i \notin Doomed' \cup Pending' =>
            i \in 1 .. Len(mem) /\ mem[i].kind = "short" /\ i \notin Doomed \cup Pending
    <3> SUFFICES ASSUME NEW i \in 1 .. m, mem'[i].kind = "short", i \notin Doomed'
                 PROVE  mem[i].kind = "short" /\ i \notin Doomed
      BY <1>7, <1>9 DEF m
    <3>1. mem'[i] = IF i \in p .. e THEN FreeSlot ELSE mem[i]
      BY <1>7
    <3>2. i \notin p .. e
      BY <3>1, SlotFacts
    <3> QED
      BY <1>12, <3>1, <3>2
  <2>2. EntRight
    BY DEF RunInv
  <2> QED
    BY <1>1, <1>14, <2>1, <2>2, ChangeKept
<1>16. LiveNames' = LiveNames
  BY <1>15, SameLives DEF RunInv
<1>17. Apart'
  BY <1>12, <1>13, <1>15 DEF Apart
<1>18. NameRight'
  <2>1. op'.pos # 0
    <3>1. op'.pos = e + 1
      BY <1>6
    <3>2. e + 1 # 0
      OBVIOUS
    <3> QED
      BY <3>1, <3>2
  <2> QED
    BY <1>3, <1>6, <1>16, <2>1 DEF NameRight, Adds
<1>19. "crash" \in failing => \A i, c : Lives(i, c) => Ent(disk', i, c)
  BY <1>1 DEF RunInv, DiskRuns, Lives
<1>20. RunInv'
  BY <1>1, <1>15, <1>17, <1>18, <1>19, RunFrom
<1> QED
  BY <1>16, <1>20

(* An entry of which some slots are taken from one place, some from another.   *)
LEMMA EntMix ==
  ASSUME NEW v, NEW w, NEW u, NEW i \in Nat, NEW n \in Names, Ent(v, i, n), Ent(w, i, n), v[i].alias = w[i].alias,
         \A j \in 0 .. Longs[n] : u[i - j] = v[i - j] \/ u[i - j] = w[i - j]
  PROVE  Ent(u, i, n)
<1> DEFINE a == v[i].alias
<1>1. Longs[n] \in Nat
  BY NamesAssumption
<1>2. i > Longs[n] /\ v[i].kind = "short" /\ w[i].kind = "short" /\ Fitting(n, a) /\ w[i].alias = a
  BY DEF Ent
<1>3. u[i] = v[i] \/ u[i] = w[i]
  <2>1. 0 \in 0 .. Longs[n] /\ i - 0 = i
    BY <1>1
  <2> QED
    BY <2>1
<1>4. \A j \in 1 .. Longs[n] : v[i - j] = Slot("long", n, j, j = Longs[n], a) /\ w[i - j] = Slot("long", n, j, j = Longs[n], a)
  BY DEF Ent
<1>5. u[i].kind = "short" /\ u[i].alias = a
  BY <1>2, <1>3
<1>6. \A j \in 1 .. Longs[n] : j \in 0 .. Longs[n]
  BY <1>1
<1>7. \A j \in 1 .. Longs[n] : u[i - j] = Slot("long", n, j, j = Longs[n], a)
  BY <1>4, <1>6
<1> QED
  BY <1>2, <1>5, <1>7 DEF Ent

LEMMA WriteBackRun ==
  ASSUME AliasInv, AliasInv', RunInv, NEW b, WriteBack(b)
  PROVE  RunInv' /\ LiveNames' = LiveNames
<1>1. DirTypes /\ DirTypes' /\ mem' = mem /\ op' = op /\ failing' = failing /\ filp' = filp
  BY DEF AliasInv, WriteBack
<1>2. \A q \in 1 .. Len(mem) : disk'[q] = IF BlockOf(q) = b THEN mem[q] ELSE disk[q]
  BY <1>1, WriteBackIs
<1>3. Doomed' = Doomed /\ Pending' = Pending
  BY <1>1 DEF Doomed, Pending, Fits
<1>4. EntRight' /\ \A i, c : Lives(i, c)' <=> Lives(i, c)
  <2>1. \A i, c : Lives(i, c) => i \in 1 .. Len(mem') /\ i \notin Doomed' \cup Pending' /\ Ent(mem', i, c)
    BY <1>1, <1>3 DEF Lives
  <2>2. \A i \in 1 .. Len(mem') : mem'[i].kind = "short" /\ i \notin Doomed' \cup Pending' =>
            i \in 1 .. Len(mem) /\ mem[i].kind = "short" /\ i \notin Doomed \cup Pending
    BY <1>1, <1>3
  <2>3. EntRight
    BY DEF RunInv
  <2> QED
    BY <1>1, <2>1, <2>2, <2>3, ChangeKept
<1>5. LiveNames' = LiveNames
  BY <1>4, SameLives DEF RunInv
<1>6. Apart'
  BY <1>1, <1>3, <1>4 DEF RunInv, Apart
<1>7. "crash" \in failing => \A i, c : Lives(i, c) => Ent(disk', i, c)
  <2> SUFFICES ASSUME "crash" \in failing, NEW i, NEW c, Lives(i, c) PROVE Ent(disk', i, c)
    OBVIOUS
  <2>1. i \in Nat /\ i \in 1 .. Len(mem) /\ c \in Names /\ Ent(mem, i, c) /\ mem[i].kind = "short" /\ i \notin Pending
    BY <1>1, LivesFacts
  <2>2. \A j \in 0 .. Longs[c] : i - j \in 1 .. Len(mem)
    BY <1>1, LivesFacts
  <2>3. Ent(disk, i, c)
    BY <2>1 DEF RunInv, DiskRuns
  <2>4. Alike(mem[i], disk[i])
    BY <2>1 DEF AliasInv, DiskRight
  <2>5. mem[i].alias = disk[i].alias
    BY <2>1, <2>4 DEF Alike
  <2>6. \A j \in 0 .. Longs[c] : disk'[i - j] = mem[i - j] \/ disk'[i - j] = disk[i - j]
    BY <1>2, <2>2
  <2> QED
    BY <2>1, <2>3, <2>5, <2>6, EntMix
<1>8. Fits' = Fits /\ LongBlocks' = LongBlocks
  BY <1>1 DEF Fits, LongBlocks, RunBlocks, ShortBlocks
<1>9. ASSUME op.pc \in Adds PROVE \E n \in Names, a \in Alias, s \in 1 .. Len(mem') + 1 : Named(n, a, s)'
  <2>1. PICK n \in Names, a \in Alias, s \in 1 .. Len(mem) + 1 : Named(n, a, s)
    BY <1>9 DEF RunInv, NameRight
  <2>2. Adding(n, a, s) /\ op.before = LiveNames /\ n \notin LiveNames
    BY <2>1 DEF Named
  <2>3. s \in Nat \ {0} /\ mem \in Seq(SlotSet)
    <3>1. mem \in Seq(SlotSet)
      BY <1>1 DEF DirTypes
    <3>2. Len(mem) \in Nat
      BY <3>1
    <3> QED
      BY <3>1, <3>2
  <2>4. Adding(n, a, s)'
    BY <1>1, <2>2 DEF Adding, Fitting, Row, Placed, LongBlocks, RunBlocks, ShortBlocks, Fits, BuildSlots, Slot
  <2> DEFINE k == Longs[n]
             l == Len(op.at)
  <2>5. ASSUME "crash" \in failing, op.pc = "short sync" PROVE DiskRow(s, k)'
    <3>1. DiskRow(s, k)
      BY <2>1, <2>5 DEF Named
    <3>2. \A i \in 1 .. l : op.at[i] = s + i - 1 /\ s + i - 1 \in 1 .. Len(mem)
      BY <2>2, <2>3, AddFacts
    <3>3. \A i \in 1 .. l : mem[s + i - 1] = op.slots[i]
      BY <2>2, <2>5 DEF Adding, Placed
    <3>4. ASSUME NEW i \in 1 .. l, BlockOf(op.at[i]) \in LongBlocks \/ (Fits /\ disk'[s + k].kind = "short")
          PROVE  disk'[s + i - 1] = op.slots[i]
      <4>1. disk'[s + i - 1] = IF BlockOf(op.at[i]) = b THEN mem[s + i - 1] ELSE disk[s + i - 1]
        BY <1>2, <3>2
      <4>2. CASE BlockOf(op.at[i]) = b
        BY <3>3, <4>1, <4>2
      <4>3. CASE BlockOf(op.at[i]) # b /\ BlockOf(op.at[i]) \in LongBlocks
        BY <3>1, <4>1, <4>3 DEF DiskRow
      <4>4. CASE BlockOf(op.at[i]) # b /\ BlockOf(op.at[i]) \notin LongBlocks
        <5>1. Fits /\ disk'[s + k].kind = "short" /\ AllPlaced
          BY <2>5, <3>4, <4>4 DEF AllPlaced
        <5>2. s + k \in 1 .. Len(mem) /\ l = k + 1 /\ ShortBlocks = {BlockOf(op.at[k + 1])}
          BY <1>1, <2>2, <2>3, <5>1, PlacedRow
        <5>3. BlockOf(op.at[i]) \in RunBlocks
          BY DEF RunBlocks
        <5>4. BlockOf(op.at[k + 1]) # b
          BY <4>4, <5>2, <5>3 DEF LongBlocks
        <5>5. op.at[k + 1] = s + k
          <6>1. k \in Nat
            BY NamesAssumption
          <6> HIDE DEF k, l
          <6>2. k + 1 \in 1 .. l /\ s + (k + 1) - 1 = s + k
            BY <2>3, <5>2, <6>1
          <6> QED
            BY <3>2, <6>2
        <5>6. disk'[s + k] = disk[s + k]
          BY <1>2, <5>2, <5>4, <5>5
        <5>7. disk[s + i - 1] = op.slots[i]
          BY <3>1, <5>1, <5>6 DEF DiskRow
        <5> QED
          BY <4>1, <4>4, <5>7
      <4> QED
        BY <3>4, <4>2, <4>3, <4>4
    <3> QED
      BY <1>1, <1>8, <3>4 DEF DiskRow
  <2>6. Named(n, a, s)'
    BY <1>1, <1>5, <2>2, <2>4, <2>5 DEF Named
  <2> QED
    BY <1>1, <2>6
<1>10. ASSUME op.pc = "gone" PROVE \E n \in Names, a \in Alias : Left(n, a, op.at[1])'
  <2>1. PICK n \in Names, a \in Alias : Left(n, a, op.at[1])
    BY <1>10 DEF RunInv, NameRight
  <2>2. PICK p \in 1 .. Len(mem) : p = op.at[1] /\ mem[p].kind # "short"
    BY <1>10 DEF AliasInv, GoneRight
  <2>3. /\ op.before = LiveNames \cup {n} /\ n \notin LiveNames
        /\ \A j \in 1 .. Longs[n] : BlockOf(p - j) # BlockOf(p) => mem[p - j] = Slot("long", n, j, j = Longs[n], a)
        /\ "crash" \in failing /\ disk[p].kind = "short" => Ent(disk, p, n) /\ disk[p].alias = a
    BY <2>1, <2>2 DEF Left
  <2>4. p \in Nat \ {0} /\ Len(mem) \in Nat
    <3>1. mem \in Seq(SlotSet)
      BY <1>1 DEF DirTypes
    <3>2. Len(mem) \in Nat
      BY <3>1
    <3> QED
      BY <3>2
  <2>5. ASSUME "crash" \in failing, disk'[p].kind = "short" PROVE Ent(disk', p, n) /\ disk'[p].alias = a
    <3>1. BlockOf(p) # b /\ disk'[p] = disk[p]
      BY <1>2, <2>2, <2>5
    <3>2. Ent(disk, p, n) /\ disk[p].alias = a
      BY <2>3, <2>5, <3>1
    <3>3. p > Longs[n] /\ disk[p].kind = "short" /\ Fitting(n, a)
      BY <3>2 DEF Ent
    <3>4. \A j \in 1 .. Longs[n] : disk[p - j] = Slot("long", n, j, j = Longs[n], a)
      BY <3>2 DEF Ent
    <3>5. \A j \in 1 .. Longs[n] : p - j \in 1 .. Len(mem)
      <4>1. Longs[n] \in Nat
        BY NamesAssumption
      <4> QED
        BY <2>4, <3>3, <4>1
    <3>6. \A j \in 1 .. Longs[n] : disk'[p - j] = Slot("long", n, j, j = Longs[n], a)
      <4> TAKE j \in 1 .. Longs[n]
      <4>1. disk'[p - j] = IF BlockOf(p - j) = b THEN mem[p - j] ELSE disk[p - j]
        BY <1>2, <3>5
      <4>2. BlockOf(p - j) = b => mem[p - j] = Slot("long", n, j, j = Longs[n], a)
        BY <2>3, <3>1
      <4> QED
        BY <3>4, <4>1, <4>2
    <3> QED
      BY <3>1, <3>2, <3>3, <3>6 DEF Ent
  <2>6. /\ op'.before = LiveNames' \cup {n} /\ n \notin LiveNames'
        /\ \A j \in 1 .. Longs[n] : BlockOf(p - j) # BlockOf(p) => mem'[p - j] = Slot("long", n, j, j = Longs[n], a)
    BY <1>1, <1>5, <2>3
  <2>7. Left(n, a, p)'
    BY <1>1, <2>5, <2>6, EntPrime DEF Left
  <2> QED
    BY <1>1, <2>2, <2>7
<1>11. NameRight'
  <2>1. op.pc \in {"erase", "erase sync"} =>
         /\ op.pos # 0
         /\ LiveNames = op.before \/ \E n \in Names : LiveNames = op.before \ {n}
    BY DEF RunInv, NameRight
  <2> QED
    BY <1>1, <1>5, <1>9, <1>10, <2>1 DEF NameRight
<1> QED
  BY <1>1, <1>4, <1>5, <1>6, <1>7, <1>11, RunFrom

(* What the users are shown, by names.                                         *)
Shown == IF op = NoOp THEN LiveNames ELSE op.before

(* What may be on the disk of the entry that is being added or removed.        *)
LEMMA PendingEntry ==
  ASSUME DirTypes, AliasInv, RunInv, "crash" \in failing, NEW p \in Pending, disk[p].kind = "short"
  PROVE  \E n \in Names : Ent(disk, p, n) /\ n \notin LiveNames /\ (op.before = LiveNames \/ op.before = LiveNames \cup {n})
<1>1. CASE op.pc = "short sync" /\ Fits
  <2>1. PICK n \in Names, a \in Alias, s \in 1 .. Len(mem) + 1 : Named(n, a, s)
    BY <1>1 DEF RunInv, NameRight, Adds
  <2>2. Adding(n, a, s) /\ op.before = LiveNames /\ n \notin LiveNames /\ DiskRow(s, Longs[n])
    BY <1>1, <2>1 DEF Named
  <2>3. s \in Nat \ {0}
    <3>1. mem \in Seq(SlotSet)
      BY DEF DirTypes
    <3>2. Len(mem) \in Nat
      BY <3>1
    <3> QED
      BY <3>2
  <2>4. AllPlaced
    BY <1>1 DEF AllPlaced
  <2>5. p = s + Longs[n] /\ Len(op.at) = Longs[n] + 1
    BY <2>2, <2>3, <2>4, PlacedRow
  <2>6. \A i \in 1 .. Longs[n] + 1 : disk[s + i - 1] = op.slots[i]
    BY <1>1, <2>2, <2>5 DEF DiskRow
  <2>7. Ent(disk, s + Longs[n], n)
    BY <2>2, <2>3, <2>4, <2>6, PlacedRow
  <2> QED
    BY <2>2, <2>5, <2>7
<1>2. CASE op.pc = "gone"
  <2>1. PICK n \in Names, a \in Alias : Left(n, a, op.at[1])
    BY <1>2 DEF RunInv, NameRight
  <2>2. p = op.at[1]
    BY <1>2 DEF Pending
  <2> QED
    BY <2>1, <2>2 DEF Left
<1> QED
  BY <1>1, <1>2 DEF Pending

(* While something is being done, the names that are there are those shown, but *)
(* for the one that is being removed.                                          *)
LEMMA LiveShown ==
  ASSUME DirTypes, RunInv
  PROVE  LiveNames = Shown \/ \E n \in Names : LiveNames = Shown \ {n}
<1>1. op # NoOp => op.pc \in Adds \/ op.pc = "gone" \/ op.pc \in {"erase", "erase sync"}
  <2>1. op.pc \in Pcs /\ (op.pc = "none" => op = NoOp)
    BY DEF DirTypes, OpTyped
  <2> QED
    BY <2>1 DEF Pcs
<1>2. CASE op = NoOp
  BY <1>2 DEF Shown
<1>3. CASE op # NoOp /\ op.pc \in Adds
  BY <1>3 DEF Shown, RunInv, NameRight, Named
<1>4. CASE op # NoOp /\ op.pc = "gone"
  <2>1. PICK n \in Names, a \in Alias : Left(n, a, op.at[1])
    BY <1>4 DEF RunInv, NameRight
  <2>2. LiveNames = op.before \ {n}
    BY <2>1 DEF Left
  <2> QED
    BY <1>4, <2>2 DEF Shown
<1>5. CASE op # NoOp /\ op.pc \in {"erase", "erase sync"}
  BY <1>5 DEF Shown, RunInv, NameRight
<1> QED
  BY <1>1, <1>2, <1>3, <1>4, <1>5

LEMMA CrashRun ==
  ASSUME AliasInv, AliasInv', RunInv, Crash
  PROVE  /\ RunInv'
         /\ LiveNames' = Shown \/ \E n \in Names : LiveNames' = Shown \cup {n} \/ LiveNames' = Shown \ {n}
<1>1. DirTypes /\ DirTypes' /\ mem' = disk /\ disk' = disk /\ op' = NoOp /\ failing' = failing /\ filp' = Closed /\ "crash" \in failing
  BY DEF AliasInv, Crash, MayFail
<1>2. /\ "sync" \notin failing
      /\ \A i \in 1 .. Len(mem) : i \notin Pending => Alike(mem[i], disk[i])
  BY <1>1 DEF AliasInv, DiskRight
<1>3. Doomed' = {} /\ Pending' = {} /\ op'.pc = "none" /\ Len(disk) = Len(mem)
  BY <1>1, NoOpFacts DEF Doomed, Pending, DirTypes
<1>4. DirRight'
  <2>1. filp' = [how |-> "names", pos |-> 0, owed |-> {}, told |-> {}, twice |-> FALSE]
    BY <1>1 DEF Closed
  <2>2. /\ filp'.how = "names" /\ filp'.pos = 0 /\ filp'.owed = {} /\ filp'.told = {}
    BY <2>1
  <2> QED
    BY <2>1, <2>2 DEF DirRight
<1>5. \A i, c : Lives(i, c) => i \in 1 .. Len(mem) /\ i \notin Pending /\ Ent(disk, i, c)
  BY <1>1 DEF Lives, RunInv, DiskRuns
<1>6. \A i \in 1 .. Len(mem) : mem[i].kind = "short" => i \notin Doomed
  <2>1. CASE op.pc \in {"gone", "erase", "erase sync"}
    BY <1>2, <2>1 DEF AliasInv, EraseRight, Doomed
  <2>2. CASE op.pc \notin {"gone", "erase", "erase sync"}
    BY <2>2 DEF Doomed
  <2> QED
    BY <2>1, <2>2
<1>7. \A i \in 1 .. Len(mem) : disk[i].kind = "short" /\ i \notin Pending => mem[i].kind = "short" /\ i \notin Doomed \cup Pending
  BY <1>2, <1>6 DEF Alike
<1>8. op = NoOp => Pending = {}
  BY NoOpFacts DEF Pending
<1>9. LiveNames = Shown \/ \E n \in Names : LiveNames = Shown \ {n}
  BY <1>1, LiveShown
<1>10. CASE \A p \in Pending : disk[p].kind # "short"
  <2>1. EntRight' /\ \A i, c : Lives(i, c)' <=> Lives(i, c)
    <3>1. \A i, c : Lives(i, c) => i \in 1 .. Len(mem') /\ i \notin Doomed' \cup Pending' /\ Ent(mem', i, c)
      BY <1>1, <1>3, <1>5
    <3>2. \A i \in 1 .. Len(mem') : mem'[i].kind = "short" /\ i \notin Doomed' \cup Pending' =>
            i \in 1 .. Len(mem) /\ mem[i].kind = "short" /\ i \notin Doomed \cup Pending
      BY <1>1, <1>3, <1>7, <1>10
    <3>3. EntRight
      BY DEF RunInv
    <3> QED
      BY <1>1, <3>1, <3>2, <3>3, ChangeKept
  <2>2. OneEach' /\ LiveNames' = LiveNames
    BY <2>1, SameLives DEF RunInv
  <2>3. Apart' /\ NameRight'
    BY <1>3 DEF Apart, NameRight, Adds
  <2>4. DiskRuns'
    <3> SUFFICES ASSUME NEW i, NEW c, Lives(i, c)' PROVE Ent(disk', i, c)
      BY EntPrime DEF DiskRuns
    <3> QED
      BY <1>1, <1>5, <2>1
  <2> QED
    BY <1>4, <1>9, <2>1, <2>2, <2>3, <2>4 DEF RunInv
<1>11. CASE \E p \in Pending : disk[p].kind = "short"
  <2>1. PICK p \in Pending : disk[p].kind = "short"
    BY <1>11
  <2>2. PICK n \in Names : Ent(disk, p, n) /\ n \notin LiveNames /\ (op.before = LiveNames \/ op.before = LiveNames \cup {n})
    BY <1>1, <2>1, PendingEntry
  <2>3. p \in 1 .. Len(mem) /\ \A q \in Pending : q = p
    BY <2>1, PendingIn DEF Pending
  <2>4. p \in 1 .. Len(mem') /\ Ent(mem', p, n) /\ Ent(disk', p, n)
    BY <1>1, <1>3, <2>2, <2>3
  <2>5. \A i, k : Lives(i, k) => i \in 1 .. Len(mem') /\ Ent(mem', i, k) /\ ("crash" \in failing => Ent(disk', i, k))
    BY <1>1, <1>3, <1>5
  <2>6. \A i \in 1 .. Len(mem') : mem'[i].kind = "short" /\ i # p =>
            i \in 1 .. Len(mem) /\ mem[i].kind = "short" /\ i \notin Doomed \cup Pending
    BY <1>1, <1>3, <1>7, <2>3
  <2>7. /\ EntRight' /\ Apart' /\ OneEach' /\ NameRight' /\ DiskRuns' /\ LiveNames' = LiveNames \cup {n}
    BY <1>1, <2>2, <2>4, <2>5, <2>6, OneMoreName
  <2>8. op # NoOp
    BY <1>8, <2>1
  <2>9. LiveNames' = Shown \/ LiveNames' = Shown \cup {n}
    BY <2>2, <2>7, <2>8 DEF Shown
  <2> QED
    BY <1>4, <2>7, <2>9 DEF RunInv
<1> QED
  BY <1>10, <1>11

-----------------------------------------------------------------------------
(* Reading an open directory.                                                 *)

LEMMA ReadKept ==
  ASSUME AliasInv, AliasInv', RunInv, op = NoOp, mem' = mem, disk' = disk, op' = op, failing' = failing, DirRight'
  PROVE  RunInv' /\ LiveNames' = LiveNames
<1>1. Doomed = {} /\ Doomed' = {} /\ Pending = {} /\ Pending' = {} /\ op'.pc = "none"
  BY NoOpFacts DEF Doomed, Pending
<1>2. \A i, c : Lives(i, c)' <=> Lives(i, c)
  BY <1>1, EntPrime DEF Lives
<1>3. OneEach' /\ LiveNames' = LiveNames
  BY <1>2, SameLives DEF RunInv
<1>4. EntRight'
  BY <1>1, EntPrime DEF RunInv, EntRight
<1>5. Apart' /\ NameRight'
  BY <1>1 DEF Apart, NameRight, Adds
<1>6. DiskRuns'
  BY <1>2, EntPrime DEF RunInv, DiskRuns
<1> QED
  BY <1>3, <1>4, <1>5, <1>6 DEF RunInv

LEMMA LivesPrime ==
  ASSUME mem' = mem, op' = op, NEW i, NEW n
  PROVE  Lives(i, n)' <=> Lives(i, n)
<1>1. Doomed' = Doomed /\ Pending' = Pending
  BY DEF Doomed, Pending, Fits
<1> QED
  BY <1>1, EntPrime DEF Lives

(* A short slot before an entry is before all its slots.                       *)
LEMMA StartAfter ==
  ASSUME DirTypes, NEW i, NEW n, Lives(i, n), NEW q \in 1 .. Len(mem), mem[q].kind = "short", q < i
  PROVE  q < StartOf(i, n) /\ StartOf(i, n) \in 1 .. i
<1>1. /\ i \in Nat \ {0} /\ i \in 1 .. Len(mem) /\ Longs[n] \in Nat /\ i > Longs[n]
      /\ \A j \in 0 .. Longs[n] : (j # 0 => mem[i - j].kind = "long")
  BY LivesFacts
<1>2. q \in Nat
  <2>1. mem \in Seq(SlotSet)
    BY DEF DirTypes
  <2> QED
    BY <2>1
<1>3. ASSUME ~(q < i - Longs[n]) PROVE FALSE
  <2>1. i - q \in 0 .. Longs[n] /\ i - q # 0 /\ i - (i - q) = q
    BY <1>1, <1>2, <1>3
  <2>2. mem[i - (i - q)].kind = "long"
    BY <1>1, <2>1
  <2> QED
    BY <2>1, <2>2
<1>4. q < i - Longs[n] /\ i - Longs[n] \in 1 .. i /\ i \in 1 .. i
  BY <1>1, <1>3
<1> QED
  BY <1>4 DEF StartOf

LEMMA StartIn ==
  ASSUME DirTypes, NEW i, NEW n, Lives(i, n)
  PROVE  StartOf(i, n) \in 1 .. i /\ i \in 1 .. Len(mem) /\ i \in Nat
<1>1. i \in Nat \ {0} /\ i \in 1 .. Len(mem) /\ Longs[n] \in Nat /\ i > Longs[n]
  BY LivesFacts
<1>2. i - Longs[n] \in 1 .. i /\ i \in 1 .. i
  BY <1>1
<1> QED
  BY <1>1, <1>2 DEF StartOf

(* Where an entry is told from.                                                *)
LEMMA OriginIs ==
  ASSUME Bad = {}, DirTypes, NEW i \in 1 .. Len(mem), NEW from \in Nat \ {0}, from <= i
  PROVE  /\ Origin(mem, i, from) \in from .. i
         /\ \A n : Lives(i, n) /\ from <= StartOf(i, n) => Origin(mem, i, from) <= StartOf(i, n)
<1> DEFINE r == NrSlots(mem, i, from)
           g == Origin(mem, i, from)
<1>1. mem \in Seq(SlotSet) /\ Len(mem) <= Most
  BY DEF DirTypes
<1>2. Len(mem) \in Nat
  BY <1>1
<1>3. i \in Nat \ {0} /\ \A q \in 1 .. Len(mem) : Path[q] = q
  <2>1. Path = [q \in 1 .. Most |-> q] /\ Most \in Nat
    BY PathIs, SizesFacts
  <2>2. \A q \in 1 .. Len(mem) : q \in 1 .. Most
    BY <1>1, <1>2, <2>1
  <2> QED
    BY <1>2, <2>1, <2>2
<1>4. r \in 0 .. i - from
  BY <1>3, HeadsFacts
<1>5. i - r \in 1 .. Len(mem) /\ i - r \in from .. i /\ i \in from .. i
  <2> HIDE DEF r
  <2> QED
    BY <1>2, <1>3, <1>4
<1>6. g = IF filp.how = "short" THEN i ELSE i - r
  BY <1>3, <1>5 DEF Origin
<1> HIDE DEF r, g
<1>7. g \in from .. i
  BY <1>5, <1>6
<1>8. ASSUME NEW n, Lives(i, n), from <= StartOf(i, n) PROVE g <= StartOf(i, n)
  <2>1. CASE filp.how = "short"
    <3>1. g = i /\ StartOf(i, n) = i
      BY <1>6, <2>1 DEF StartOf
    <3> QED
      BY <1>3, <3>1
  <2>2. CASE filp.how # "short"
    <3>1. g = i - r /\ StartOf(i, n) = i - Longs[n]
      BY <1>6, <2>2 DEF StartOf
    <3>2. n \in Names /\ Ent(mem, i, n) /\ Longs[n] \in Nat
      BY <1>8, LivesFacts
    <3>3. from <= i - Longs[n]
      BY <1>8, <3>1
    <3>4. Longs[n] <= r
      BY <1>1, <3>2, <3>3, EntName DEF r
    <3>5. i - r <= i - Longs[n]
      BY <1>3, <1>4, <3>2, <3>4
    <3> QED
      BY <3>1, <3>5
  <2> QED
    BY <2>1, <2>2
<1> QED
  BY <1>7, <1>8 DEF g

(* The short slots ahead.                                                      *)
LEMMA AheadIs ==
  ASSUME Bad = {}, AliasInv, RunInv, op = NoOp, filp.pos > 0
  PROVE  /\ Following = {i \in 1 .. Len(mem) : mem[i].kind = "short" /\ i >= filp.pos}
         /\ Seen(mem) = mem /\ Shorts(mem) = {i \in 1 .. Len(mem) : mem[i].kind = "short"}
         /\ Following # {} =>
              /\ MinOf(Following) \in Following /\ \A j \in Following : MinOf(Following) <= j
              /\ Here = filp.pos
<1>1. mem \in Seq(SlotSet) /\ Len(mem) <= Most
  BY DEF AliasInv, DirTypes
<1>2. Len(mem) \in Nat /\ filp.pos \in Nat
  BY <1>1 DEF RunInv, DirRight
<1>3. Seen(mem) = mem /\ DOMAIN mem = 1 .. Len(mem)
  BY <1>1, SeenIs
<1>4. \A q \in 1 .. Len(mem) : Path[q] = q
  <2>1. Path = [q \in 1 .. Most |-> q] /\ Most \in Nat
    BY PathIs, SizesFacts
  <2>2. \A q \in 1 .. Len(mem) : q \in 1 .. Most
    BY <1>1, <1>2, <2>1
  <2> QED
    BY <1>2, <2>1, <2>2
<1>5. Shorts(mem) = {i \in 1 .. Len(mem) : mem[i].kind = "short"}
  BY <1>3 DEF Shorts
<1>6. Following = {i \in 1 .. Len(mem) : mem[i].kind = "short" /\ i >= filp.pos}
  BY <1>3, <1>4, <1>5 DEF Following
<1>7. ASSUME Following # {}
      PROVE  /\ MinOf(Following) \in Following /\ \A j \in Following : MinOf(Following) <= j
             /\ Here = filp.pos
  <2>1. Following \subseteq Nat
    BY <1>2, <1>6
  <2>2. MinOf(Following) \in Following /\ \A j \in Following : MinOf(Following) <= j
    BY <1>7, <2>1, LeastOf
  <2> DEFINE S == {i \in 1 .. Len(mem) : i >= filp.pos}
  <2>3. Here = MinOf(S)
    <3>1. {i \in DOMAIN Seen(mem) : Path[i] >= filp.pos} = S
      BY <1>3, <1>4
    <3> QED
      BY <3>1 DEF Here
  <2>4. filp.pos \in S /\ S \subseteq Nat /\ \A q \in S : filp.pos <= q
    BY <1>2, <1>6, <1>7
  <2> HIDE DEF S
  <2>5. MinOf(S) \in S /\ \A y \in S : MinOf(S) <= y
    BY <2>4, LeastOf
  <2>6. MinOf(S) = filp.pos
    <3>1. PICK x \in Nat : x = MinOf(S) /\ filp.pos <= x /\ x <= filp.pos
      BY <2>4, <2>5
    <3>2. x = filp.pos
      BY <1>2, <3>1
    <3> QED
      BY <3>1, <3>2
  <2> QED
    BY <2>2, <2>3, <2>6
<1> QED
  BY <1>3, <1>5, <1>6, <1>7

(* What is passed with an entry.                                               *)
LEMMA PassedIs ==
  ASSUME Bad = {}, AliasInv, RunInv, op = NoOp, filp.pos > 0, NEW i \in Following
  PROVE  /\ PassedTo(mem, i) \in Nat /\ i < PassedTo(mem, i)
         /\ \A x, n : Lives(x, n) /\ i < x => PassedTo(mem, i) <= StartOf(x, n)
<1>1. DirTypes
  BY DEF AliasInv
<1>2. i \in 1 .. Len(mem) /\ mem[i].kind = "short" /\ Shorts(mem) = {q \in 1 .. Len(mem) : mem[q].kind = "short"}
  BY AheadIs
<1>3. Len(mem) \in Nat
  <2>1. mem \in Seq(SlotSet)
    BY <1>1 DEF DirTypes
  <2> QED
    BY <2>1
<1>4. i \in Nat \ {0}
  BY <1>2, <1>3
<1> DEFINE later == {j \in Shorts(mem) : j > i}
           g == PassedTo(mem, i)
<1>5. \A x, n : Lives(x, n) /\ i < x => x \in later
  BY <1>1, <1>2, <1>4, LivesFacts
<1>6. CASE later = {}
  <2>1. g = Len(mem) + 1
    BY <1>6 DEF PassedTo
  <2> HIDE DEF g
  <2>2. g \in Nat /\ i < g
    BY <1>2, <1>3, <2>1
  <2> QED
    BY <1>5, <1>6, <2>2 DEF g
<1>7. CASE later # {}
  <2>1. later \subseteq Nat
    BY <1>2, <1>3
  <2>2. g = Origin(mem, MinOf(later), i + 1)
    BY <1>7 DEF PassedTo
  <2>3. MinOf(later) \in later /\ \A y \in later : MinOf(later) <= y
    <3> HIDE DEF later
    <3> QED
      BY <1>7, <2>1, LeastOf
  <2>4. PICK f \in later : f = MinOf(later) /\ \A y \in later : f <= y
    BY <2>3
  <2>5. f \in 1 .. Len(mem) /\ mem[f].kind = "short" /\ f > i
    BY <1>2, <2>4
  <2> HIDE DEF later, g
  <2>6. i + 1 \in Nat \ {0} /\ i + 1 <= f /\ f \in Nat
    BY <1>3, <1>4, <2>5
  <2>7. Origin(mem, f, i + 1) \in i + 1 .. f
    BY <1>1, <2>5, <2>6, OriginIs
  <2>8. \A n : Lives(f, n) /\ i + 1 <= StartOf(f, n) => Origin(mem, f, i + 1) <= StartOf(f, n)
    BY <1>1, <2>5, <2>6, OriginIs
  <2>9. g \in i + 1 .. f /\ g \in Nat /\ i < g
    BY <1>4, <2>2, <2>4, <2>6, <2>7
  <2>10. ASSUME NEW x, NEW n, Lives(x, n), i < x PROVE g <= StartOf(x, n)
    <3>1. x \in later /\ f <= x
      BY <1>5, <2>4, <2>10
    <3>2. i < StartOf(x, n) /\ StartOf(x, n) \in 1 .. x
      BY <1>1, <1>2, <2>10, StartAfter
    <3>3. x \in Nat
      BY <1>1, <2>10, StartIn
    <3>4. CASE x = f
      <4>1. i + 1 <= StartOf(x, n)
        BY <1>4, <3>2, <3>3
      <4> QED
        BY <2>2, <2>4, <2>8, <2>10, <3>4, <4>1
    <3>5. CASE x # f
      <4>1. f < x
        BY <2>6, <3>1, <3>3, <3>5
      <4>2. f < StartOf(x, n)
        BY <1>1, <2>5, <2>10, <4>1, StartAfter
      <4> QED
        BY <2>6, <2>9, <3>2, <3>3, <4>2
    <3> QED
      BY <3>4, <3>5
  <2> QED
    BY <2>9, <2>10 DEF g
<1> QED
  BY <1>6, <1>7

LEMMA RewindRun ==
  ASSUME Bad = {}, AliasInv, AliasInv', RunInv, Rewind
  PROVE  RunInv' /\ LiveNames' = LiveNames
<1>1. op = NoOp /\ mem' = mem /\ disk' = disk /\ op' = op /\ failing' = failing /\ DirTypes
  BY DEF Rewind, AliasInv
<1>2. PICK how \in Readings : filp' = [Closed EXCEPT !.how = how, !.pos = 1, !.owed = Listing(mem)]
  BY DEF Rewind
<1>3. Listing(mem) = LiveNames
  BY <1>1, QuietFacts
<1>4. filp' = [how |-> how, pos |-> 1, owed |-> LiveNames, told |-> {}, twice |-> FALSE]
  BY <1>2, <1>3 DEF Closed
<1>5. filp'.how = how /\ filp'.pos = 1 /\ filp'.owed = LiveNames /\ filp'.told = {}
  BY <1>4
<1>6. \A n \in filp'.owed : \E i \in 1 .. Len(mem') : Lives(i, n)' /\ filp'.pos <= StartOf(i, n)'
  <2> TAKE n \in filp'.owed
  <2>1. PICK i \in 1 .. Len(mem) : Lives(i, n)
    BY <1>5 DEF LiveNames
  <2>2. Lives(i, n)'
    BY <1>1, <2>1, LivesPrime
  <2>3. i \in Nat \ {0} /\ Longs[n] \in Nat /\ i > Longs[n]
    BY <1>1, <2>1, LivesFacts
  <2>4. 1 <= i /\ 1 <= i - Longs[n]
    BY <2>3
  <2>5. 1 <= StartOf(i, n)'
    BY <2>4 DEF StartOf
  <2> QED
    BY <1>1, <1>5, <2>2, <2>5
<1>7. DirRight'
  <2>1. filp' = [how |-> filp'.how, pos |-> filp'.pos, owed |-> filp'.owed, told |-> filp'.told, twice |-> FALSE]
    BY <1>4, <1>5
  <2>2. filp'.pos \in Nat /\ \A n \in filp'.told : FALSE
    BY <1>5
  <2> QED
    BY <1>6, <2>1, <2>2 DEF DirRight
<1> QED
  BY <1>1, <1>7, ReadKept

LEMMA CloseRun ==
  ASSUME Bad = {}, AliasInv, AliasInv', RunInv, CloseDir
  PROVE  RunInv' /\ LiveNames' = LiveNames
<1>1. op = NoOp /\ mem' = mem /\ disk' = disk /\ op' = op /\ failing' = failing /\ filp' = Closed
  BY DEF CloseDir
<1>2. filp' = [how |-> "names", pos |-> 0, owed |-> {}, told |-> {}, twice |-> FALSE]
  BY <1>1 DEF Closed
<1>3. filp'.how = "names" /\ filp'.pos = 0 /\ filp'.owed = {} /\ filp'.told = {}
  BY <1>2
<1>4. DirRight'
  BY <1>2, <1>3 DEF DirRight
<1> QED
  BY <1>1, <1>4, ReadKept

LEMMA FaultRun ==
  ASSUME Bad = {}, AliasInv, AliasInv', RunInv, ReaddirFault
  PROVE  RunInv' /\ LiveNames' = LiveNames
<1>1. /\ op = NoOp /\ mem' = mem /\ disk' = disk /\ op' = op /\ failing' = failing /\ DirTypes
      /\ filp.pos > 0 /\ Following # {}
      /\ filp' = [filp EXCEPT !.pos = Origin(Seen(mem), MinOf(Following), Here)]
  BY DEF ReaddirFault, AliasInv
<1>2. Seen(mem) = mem /\ MinOf(Following) \in Following /\ (\A j \in Following : MinOf(Following) <= j) /\ Here = filp.pos
  BY <1>1, AheadIs
<1>3. Following = {q \in 1 .. Len(mem) : mem[q].kind = "short" /\ q >= filp.pos}
  BY <1>1, AheadIs
<1>4. PICK i \in Following : i = MinOf(Following) /\ \A j \in Following : i <= j
  BY <1>2
<1> DEFINE g == Origin(mem, i, filp.pos)
<1>5. filp = [how |-> filp.how, pos |-> filp.pos, owed |-> filp.owed, told |-> filp.told, twice |-> FALSE] /\ filp.pos \in Nat
  BY DEF RunInv, DirRight
<1>6. filp' = [how |-> filp.how, pos |-> g, owed |-> filp.owed, told |-> filp.told, twice |-> FALSE]
  <2>1. filp' = [filp EXCEPT !.pos = g]
    BY <1>1, <1>2, <1>4
  <2> HIDE DEF g
  <2>2. PICK h, x, o, t : filp = [how |-> h, pos |-> x, owed |-> o, told |-> t, twice |-> FALSE]
    BY <1>5
  <2>3. filp' = [how |-> h, pos |-> g, owed |-> o, told |-> t, twice |-> FALSE]
    BY <2>1, <2>2
  <2>4. filp.how = h /\ filp.owed = o /\ filp.told = t
    BY <2>2
  <2> QED
    BY <2>3, <2>4
<1>7. i \in 1 .. Len(mem) /\ mem[i].kind = "short" /\ filp.pos <= i /\ filp.pos \in Nat \ {0}
  <2>1. i \in 1 .. Len(mem) /\ mem[i].kind = "short" /\ i >= filp.pos
    BY <1>3, <1>4
  <2>2. Len(mem) \in Nat
    <3>1. mem \in Seq(SlotSet)
      BY <1>1 DEF DirTypes
    <3> QED
      BY <3>1
  <2>3. filp.pos > 0
    BY <1>1
  <2> QED
    BY <1>5, <2>1, <2>2, <2>3
<1>8. g \in filp.pos .. i
  BY <1>1, <1>7, OriginIs
<1>9. \A n : Lives(i, n) /\ filp.pos <= StartOf(i, n) => g <= StartOf(i, n)
  BY <1>1, <1>7, OriginIs
<1>10. i \in Nat
  <2>1. mem \in Seq(SlotSet)
    BY <1>1 DEF DirTypes
  <2>2. Len(mem) \in Nat
    BY <2>1
  <2> QED
    BY <1>7, <2>2
<1> HIDE DEF g
<1>11. g \in Nat /\ filp.pos <= g /\ g <= i
  BY <1>7, <1>8, <1>10
<1>12. filp'.how = filp.how /\ filp'.pos = g /\ filp'.owed = filp.owed /\ filp'.told = filp.told
  BY <1>6
<1>13. \A x, n : Lives(x, n)' <=> Lives(x, n)
  BY <1>1, LivesPrime
<1>14. \A x, n : StartOf(x, n)' = StartOf(x, n)
  BY <1>12 DEF StartOf
<1>15. ASSUME NEW n \in filp'.owed PROVE \E x \in 1 .. Len(mem') : Lives(x, n)' /\ filp'.pos <= StartOf(x, n)'
  <2>1. PICK x \in 1 .. Len(mem) : Lives(x, n) /\ filp.pos <= StartOf(x, n)
    BY <1>12, <1>15 DEF RunInv, DirRight
  <2>2. StartOf(x, n) \in 1 .. x /\ x \in Nat /\ mem[x].kind = "short"
    BY <1>1, <2>1, StartIn, LivesFacts
  <2>3. x \in Following
    <3>1. x >= filp.pos
      BY <1>7, <2>1, <2>2
    <3> QED
      BY <1>3, <2>1, <2>2, <3>1
  <2>4. CASE x = i
    BY <1>1, <1>9, <1>12, <1>13, <1>14, <2>1, <2>4
  <2>5. CASE x # i
    <3>1. i < x
      BY <1>4, <1>10, <2>2, <2>3, <2>5
    <3>2. i < StartOf(x, n)
      BY <1>1, <1>7, <2>1, <3>1, StartAfter
    <3>3. g <= StartOf(x, n)
      BY <1>10, <1>11, <2>2, <3>2
    <3> QED
      BY <1>1, <1>12, <1>13, <1>14, <2>1, <3>3
  <2> QED
    BY <2>4, <2>5
<1>16. ASSUME NEW n \in filp'.told PROVE \E x \in 1 .. Len(mem') : Lives(x, n)' /\ x < filp'.pos
  <2>1. PICK x \in 1 .. Len(mem) : Lives(x, n) /\ x < filp.pos
    BY <1>12, <1>16 DEF RunInv, DirRight
  <2>2. x \in Nat
    BY <1>1, <2>1, StartIn
  <2>3. x < g
    BY <1>7, <1>11, <2>1, <2>2
  <2> QED
    BY <1>1, <1>12, <1>13, <2>1, <2>3
<1>17. DirRight'
  <2>1. filp' = [how |-> filp'.how, pos |-> filp'.pos, owed |-> filp'.owed, told |-> filp'.told, twice |-> FALSE]
    BY <1>6, <1>12
  <2>2. filp'.pos \in Nat
    BY <1>11, <1>12
  <2> QED
    BY <1>15, <1>16, <2>1, <2>2 DEF DirRight
<1> QED
  BY <1>1, <1>17, ReadKept

LEMMA ReaddirRun ==
  ASSUME Bad = {}, AliasInv, AliasInv', RunInv, Readdir
  PROVE  RunInv' /\ LiveNames' = LiveNames
<1>1. /\ op = NoOp /\ mem' = mem /\ disk' = disk /\ op' = op /\ failing' = failing /\ DirTypes
      /\ filp.pos > 0 /\ Following # {}
  BY DEF Readdir, AliasInv
<1>2. Seen(mem) = mem /\ MinOf(Following) \in Following /\ (\A j \in Following : MinOf(Following) <= j) /\ Here = filp.pos
  BY <1>1, AheadIs
<1>3. Following = {q \in 1 .. Len(mem) : mem[q].kind = "short" /\ q >= filp.pos}
  BY <1>1, AheadIs
<1>4. PICK i \in Following : i = MinOf(Following) /\ \A j \in Following : i <= j
  BY <1>2
<1> DEFINE from == IF filp.how = "short" THEN 1 ELSE filp.pos
           t == NameAt(mem, i, from)
           g == PassedTo(mem, i)
<1>5. filp = [how |-> filp.how, pos |-> filp.pos, owed |-> filp.owed, told |-> filp.told, twice |-> FALSE] /\ filp.pos \in Nat
  BY DEF RunInv, DirRight
<1>6. filp' = [filp EXCEPT !.pos = g, !.owed = @ \ {t}, !.told = @ \cup ({t} \cap filp.owed), !.twice = @ \/ t \in filp.told]
  <2>1. ToldName(mem, i) = t
    BY <1>2 DEF ToldName
  <2> QED
    BY <1>2, <1>4, <2>1 DEF Readdir
<1>7. i \in 1 .. Len(mem) /\ mem[i].kind = "short" /\ filp.pos <= i /\ filp.pos \in Nat \ {0} /\ i \in Nat \ {0}
  <2>1. i \in 1 .. Len(mem) /\ mem[i].kind = "short" /\ i >= filp.pos
    BY <1>3, <1>4
  <2>2. Len(mem) \in Nat
    <3>1. mem \in Seq(SlotSet)
      BY <1>1 DEF DirTypes
    <3> QED
      BY <3>1
  <2>3. filp.pos > 0
    BY <1>1
  <2> QED
    BY <1>5, <2>1, <2>2, <2>3
<1>8. g \in Nat /\ i < g /\ \A x, n : Lives(x, n) /\ i < x => g <= StartOf(x, n)
  BY <1>1, PassedIs
<1>9. PICK c \in Names : Lives(i, c)
  <2>1. i \notin Doomed \cup Pending /\ \E c \in Names : Ent(mem, i, c)
    BY <1>1, <1>7, QuietFacts
  <2> QED
    BY <1>7, <2>1 DEF Lives
(* The name that is told, where it is one of a file, is that of this entry.    *)
<1>10. /\ t \in Names => t = c
       /\ filp.pos <= StartOf(i, c) => t = c
  <2>1. mem \in Seq(SlotSet)
    BY <1>1 DEF DirTypes
  <2>2. Ent(mem, i, c) /\ Longs[c] \in Nat /\ i > Longs[c]
    BY <1>1, <1>9, LivesFacts
  <2>3. from \in Nat \ {0} /\ from <= i
    BY <1>7
  <2>4. filp.pos <= StartOf(i, c) => from <= i - Longs[c]
    BY <1>7, <2>2 DEF StartOf
  <2> HIDE DEF from
  <2>5. from <= i - Longs[c] => t = c
    BY <1>7, <2>1, <2>2, <2>3, EntName
  <2>6. ~(from <= i - Longs[c]) => t \notin Names
    BY <1>7, <2>1, <2>2, <2>3, EntName
  <2> HIDE DEF t
  <2> QED
    BY <2>4, <2>5, <2>6
<1> HIDE DEF g, t, from
<1>11. \A x, y, n : Lives(x, n) /\ Lives(y, n) => x = y
  BY DEF Lives, RunInv, OneEach
<1>12. \A n \in filp.told : n \in Names /\ \E x \in 1 .. Len(mem) : Lives(x, n) /\ x < filp.pos
  BY DEF RunInv, DirRight, Lives
<1>13. \A n \in filp.owed : n \in Names /\ \E x \in 1 .. Len(mem) : Lives(x, n) /\ filp.pos <= StartOf(x, n)
  BY DEF RunInv, DirRight, Lives
<1>14. t \notin filp.told
  <2> SUFFICES ASSUME t \in filp.told PROVE FALSE
    OBVIOUS
  <2>1. t = c
    BY <1>10, <1>12
  <2>2. PICK x \in 1 .. Len(mem) : Lives(x, c) /\ x < filp.pos
    BY <1>12, <2>1
  <2>3. x = i
    BY <1>9, <1>11, <2>2
  <2> QED
    BY <1>7, <2>2, <2>3
<1>15. filp' = [how |-> filp.how, pos |-> g, owed |-> filp.owed \ {t}, told |-> filp.told \cup ({t} \cap filp.owed), twice |-> FALSE]
  <2>1. PICK h, x, o, u : filp = [how |-> h, pos |-> x, owed |-> o, told |-> u, twice |-> FALSE]
    BY <1>5
  <2>2. filp.how = h /\ filp.owed = o /\ filp.told = u
    BY <2>1
  <2>3. (FALSE \/ t \in u) = FALSE
    BY <1>14, <2>2
  <2>4. filp' = [how |-> h, pos |-> g, owed |-> o \ {t}, told |-> u \cup ({t} \cap o), twice |-> FALSE \/ t \in u]
    BY <1>6, <2>1, <2>2
  <2> QED
    BY <2>2, <2>3, <2>4
<1>16. filp'.how = filp.how /\ filp'.pos = g /\ filp'.owed = filp.owed \ {t} /\ filp'.told = filp.told \cup ({t} \cap filp.owed)
  BY <1>15
<1>17. \A x, n : Lives(x, n)' <=> Lives(x, n)
  BY <1>1, LivesPrime
<1>18. \A x, n : StartOf(x, n)' = StartOf(x, n)
  BY <1>16 DEF StartOf
<1>19. ASSUME NEW n \in filp'.owed PROVE \E x \in 1 .. Len(mem') : Lives(x, n)' /\ filp'.pos <= StartOf(x, n)'
  <2>1. n \in filp.owed /\ n # t
    BY <1>16, <1>19
  <2>2. PICK x \in 1 .. Len(mem) : Lives(x, n) /\ filp.pos <= StartOf(x, n)
    BY <1>13, <2>1
  <2>3. StartOf(x, n) \in 1 .. x /\ x \in Nat /\ mem[x].kind = "short" /\ n \in Names /\ Ent(mem, x, n)
    BY <1>1, <2>2, StartIn, LivesFacts
  <2>4. x \in Following
    <3>1. x >= filp.pos
      BY <1>7, <2>2, <2>3
    <3> QED
      BY <1>3, <2>2, <2>3, <3>1
  <2>5. x # i
    <3> SUFFICES ASSUME x = i PROVE FALSE
      OBVIOUS
    <3>1. mem \in Seq(SlotSet) /\ Ent(mem, i, c)
      BY <1>1, <1>9 DEF DirTypes, Lives
    <3>2. n = c
      BY <1>7, <2>3, <3>1, EntOne
    <3> QED
      BY <1>10, <2>1, <2>2, <3>2
  <2>6. i < x
    BY <1>4, <1>7, <2>3, <2>4, <2>5
  <2>7. g <= StartOf(x, n)
    BY <1>8, <2>2, <2>6
  <2> QED
    BY <1>1, <1>16, <1>17, <1>18, <2>2, <2>7
<1>20. ASSUME NEW n \in filp'.told PROVE \E x \in 1 .. Len(mem') : Lives(x, n)' /\ x < filp'.pos
  <2>1. CASE n \in filp.told
    <3>1. PICK x \in 1 .. Len(mem) : Lives(x, n) /\ x < filp.pos
      BY <1>12, <2>1
    <3>2. x \in Nat
      BY <1>1, <3>1, StartIn
    <3>3. x < g
      BY <1>7, <1>8, <3>1, <3>2
    <3> QED
      BY <1>1, <1>16, <1>17, <3>1, <3>3
  <2>2. CASE n = t /\ t \in filp.owed
    <3>1. n = c
      BY <1>10, <1>13, <2>2
    <3> QED
      BY <1>1, <1>7, <1>8, <1>9, <1>16, <1>17, <3>1
  <2> QED
    BY <1>16, <1>20, <2>1, <2>2
<1>21. DirRight'
  <2>1. filp' = [how |-> filp'.how, pos |-> filp'.pos, owed |-> filp'.owed, told |-> filp'.told, twice |-> FALSE]
    BY <1>15, <1>16
  <2>2. filp'.pos \in Nat
    BY <1>8, <1>16
  <2> QED
    BY <1>19, <1>20, <2>1, <2>2 DEF DirRight
<1> QED
  BY <1>1, <1>21, ReadKept

LEMMA FrameRun ==
  ASSUME AliasInv, RunInv, UNCHANGED dirVars
  PROVE  RunInv' /\ LiveNames' = LiveNames
<1>1. mem' = mem /\ disk' = disk /\ op' = op /\ failing' = failing /\ filp' = filp
  BY DEF dirVars
<1>2. Doomed' = Doomed /\ Pending' = Pending /\ LongBlocks' = LongBlocks /\ (Fits' <=> Fits)
  BY <1>1 DEF Doomed, Pending, Fits, LongBlocks, RunBlocks, ShortBlocks
<1>3. \A i, c : Lives(i, c)' <=> Lives(i, c)
  BY <1>1, LivesPrime
<1>4. LiveNames' = LiveNames
  BY <1>3, SameLives DEF RunInv
<1>5. EntRight' /\ Apart'
  BY <1>1, <1>2, <1>3, EntPrime DEF RunInv, EntRight, Apart
<1>6. op.pc \in Adds => \E n \in Names, a \in Alias, s \in 1 .. Len(mem) + 1 : Named(n, a, s)'
  <2> SUFFICES ASSUME op.pc \in Adds PROVE \E n \in Names, a \in Alias, s \in 1 .. Len(mem) + 1 : Named(n, a, s)'
    OBVIOUS
  <2>1. PICK n \in Names, a \in Alias, s \in 1 .. Len(mem) + 1 : Named(n, a, s)
    BY DEF RunInv, NameRight
  <2>2. Adding(n, a, s)'
    BY <1>1, <2>1 DEF Named, Adding, Fitting, Row, Placed, LongBlocks, RunBlocks, ShortBlocks, Fits, BuildSlots, Slot
  <2>3. Named(n, a, s)'
    BY <1>1, <1>2, <1>4, <2>1, <2>2 DEF Named, DiskRow
  <2> QED
    BY <2>3
<1>7. op.pc = "gone" => \E n \in Names, a \in Alias : Left(n, a, op.at[1])'
  <2> SUFFICES ASSUME op.pc = "gone" PROVE \E n \in Names, a \in Alias : Left(n, a, op.at[1])'
    OBVIOUS
  <2>1. PICK n \in Names, a \in Alias : Left(n, a, op.at[1])
    BY DEF RunInv, NameRight
  <2>2. Left(n, a, op.at[1])'
    BY <1>1, <1>4, <2>1, EntPrime DEF Left
  <2> QED
    BY <2>2
<1>8. NameRight'
  <2>1. op.pc \in {"erase", "erase sync"} =>
         /\ op.pos # 0
         /\ LiveNames = op.before \/ \E n \in Names : LiveNames = op.before \ {n}
    BY DEF RunInv, NameRight
  <2> QED
    BY <1>1, <1>4, <1>6, <1>7, <2>1 DEF NameRight
<1>9. "crash" \in failing => \A i, c : Lives(i, c) => Ent(disk', i, c)
  BY <1>1 DEF RunInv, DiskRuns, Lives
<1> QED
  BY <1>1, <1>3, <1>4, <1>5, <1>8, <1>9, RunFrom

LEMMA InitRun ==
  ASSUME DirInit
  PROVE  RunInv /\ LiveNames = {}
<1> DEFINE k == Start * dir_per_block
<1>1. k \in Nat
  BY SizesFacts
<1>2. mem = [p \in 1 .. k |-> FreeSlot] /\ disk = mem /\ op = NoOp /\ filp = Closed
  BY DEF DirInit
<1> HIDE DEF k
<1>3. Len(mem) = k /\ \A p \in 1 .. k : mem[p].kind = "free"
  BY <1>1, <1>2, SlotFacts
<1>4. \A i, n : ~Lives(i, n)
  BY <1>3 DEF Lives, Ent
<1>5. op.pc = "none"
  BY <1>2, NoOpFacts
<1>6. filp = [how |-> "names", pos |-> 0, owed |-> {}, told |-> {}, twice |-> FALSE]
  BY <1>2 DEF Closed
<1>7. filp.how = "names" /\ filp.pos = 0 /\ filp.owed = {} /\ filp.told = {}
  BY <1>6
<1>8. DirRight
  BY <1>6, <1>7 DEF DirRight
<1>9. EntRight
  BY <1>3 DEF EntRight
<1>10. Apart /\ OneEach /\ DiskRuns
  BY <1>4 DEF Apart, OneEach, DiskRuns
<1>11. NameRight
  BY <1>5 DEF NameRight, Adds
<1>12. LiveNames = {}
  BY <1>4 DEF LiveNames
<1> QED
  BY <1>8, <1>9, <1>10, <1>11, <1>12 DEF RunInv

-----------------------------------------------------------------------------
(* What the users see changes by one name at a time.                          *)

OneChange == Shown' = Shown \/ \E n \in Names : Shown' = Shown \cup {n} \/ Shown' = Shown \ {n}

LEMMA ShownStep ==
  ASSUME DirTypes, RunInv, LiveNames' = LiveNames,
         \/ op' = NoOp
         \/ op' = op
         \/ op # NoOp /\ op' # NoOp /\ op'.before = op.before
  PROVE  OneChange
<1>1. LiveNames = Shown \/ \E n \in Names : LiveNames = Shown \ {n}
  BY LiveShown
<1>2. CASE op' = NoOp
  <2>1. Shown' = LiveNames
    BY <1>2 DEF Shown
  <2> QED
    BY <1>1, <2>1 DEF OneChange
<1>3. CASE op' = op
  <2>1. Shown' = Shown
    BY <1>3 DEF Shown
  <2> QED
    BY <2>1 DEF OneChange
<1>4. CASE op # NoOp /\ op' # NoOp /\ op'.before = op.before
  <2>1. Shown' = Shown
    BY <1>4 DEF Shown
  <2> QED
    BY <2>1 DEF OneChange
<1> QED
  BY <1>2, <1>3, <1>4

LEMMA ShownAdded ==
  ASSUME op # NoOp, op' = NoOp, \E n \in Names : LiveNames' = op.before \cup {n}
  PROVE  OneChange
<1>1. Shown = op.before /\ Shown' = LiveNames'
  BY DEF Shown
<1> QED
  BY <1>1 DEF OneChange

LEMMA StepRun ==
  ASSUME Bad = {}, AliasInv, AliasInv', RunInv, ~({"sync", "erase"} \subseteq failing), [DirNext]_dirVars
  PROVE  RunInv' /\ OneChange
<1>1. DirTypes
  BY DEF AliasInv
<1>2. op = [pc |-> op.pc, slots |-> op.slots, at |-> op.at, pos |-> op.pos, left |-> op.left, before |-> op.before]
  BY <1>1 DEF DirTypes, OpTyped
<1>3. NoOp.pc = "none"
  BY NoOpFacts
<1>4. CASE UNCHANGED dirVars
  <2>1. op' = op
    BY <1>4 DEF dirVars
  <2>2. RunInv' /\ LiveNames' = LiveNames
    BY <1>4, FrameRun
  <2> QED
    BY <1>1, <2>1, <2>2, ShownStep
<1>5. ASSUME NEW n \in Names, Create(n) PROVE RunInv' /\ OneChange
  <2>1. RunInv'
    BY <1>5, CreateRun
  <2>2. op = NoOp /\ op'.pc = "long" /\ op'.before = Listing(mem)
    BY <1>5, CreateIs
  <2>3. Listing(mem) = LiveNames
    BY <2>2, QuietFacts
  <2>4. Shown' = Shown
    BY <1>3, <2>2, <2>3 DEF Shown
  <2> QED
    BY <2>1, <2>4 DEF OneChange
<1>6. ASSUME NEW n \in Names, Unlink(n) PROVE RunInv' /\ OneChange
  <2>1. RunInv'
    BY <1>6, UnlinkRun
  <2>2. op = NoOp /\ op'.pc = "gone" /\ op'.before = Listing(mem)
    <3>1. \E p, x, y : op' = [pc |-> "gone", slots |-> <<>>, at |-> <<p>>, pos |-> x, left |-> y, before |-> Listing(mem)]
      BY <1>6, UnlinkIs
    <3>2. op = NoOp
      BY <1>6 DEF Unlink
    <3> QED
      BY <3>1, <3>2
  <2>3. Listing(mem) = LiveNames
    BY <2>2, QuietFacts
  <2>4. Shown' = Shown
    BY <1>3, <2>2, <2>3 DEF Shown
  <2> QED
    BY <2>1, <2>4 DEF OneChange
<1>7. CASE FillLong
  <2>1. RunInv' /\ LiveNames' = LiveNames
    BY <1>7, FillLongRun
  <2>2. op.pc = "long" /\ op' = [op EXCEPT !.pc = "long sync"]
    BY <1>7 DEF FillLong, Proceed
  <2>3. op'.pc = "long sync" /\ op'.before = op.before
    BY <1>2, <2>2
  <2> QED
    BY <1>1, <1>3, <2>1, <2>2, <2>3, ShownStep
<1>8. CASE FillShort
  <2>1. RunInv' /\ LiveNames' = LiveNames
    BY <1>8, FillShortRun
  <2>2. op.pc = "long sync" /\ op' = [op EXCEPT !.pc = "short sync"]
    BY <1>8 DEF FillShort, Proceed
  <2>3. op'.pc = "short sync" /\ op'.before = op.before
    BY <1>2, <2>2
  <2> QED
    BY <1>1, <1>3, <2>1, <2>2, <2>3, ShownStep
<1>9. CASE SyncFails \/ AddFails
  <2>1. op.pc \in Adds /\ ErrorRemove /\ mem' = mem /\ disk' = disk /\ failing' = failing /\ filp' = filp
    BY <1>9 DEF SyncFails, AddFails, Adds
  <2>2. RunInv' /\ LiveNames' = LiveNames
    BY <2>1, RemoveRun
  <2>3. op # NoOp
    BY <1>3, <2>1 DEF Adds
  <2>4. op' = NoOp \/ op'.before = op.before
    BY <2>1, RemoveIs
  <2> QED
    BY <1>1, <2>2, <2>3, <2>4, ShownStep
<1>10. CASE AddDone
  <2>1. RunInv' /\ \E n \in Names : LiveNames' = op.before \cup {n}
    BY <1>10, AddDoneRun
  <2>2. op # NoOp /\ op' = NoOp
    BY <1>3, <1>10 DEF AddDone
  <2> QED
    BY <2>1, <2>2, ShownAdded
<1>11. CASE AddNewEntries
  <2>1. RunInv' /\ \E n \in Names : LiveNames' = op.before \cup {n}
    BY <1>11, AddNewRun
  <2>2. op # NoOp /\ op' = NoOp
    BY <1>3, <1>11 DEF AddNewEntries
  <2> QED
    BY <2>1, <2>2, ShownAdded
<1>12. CASE UnlinkDone
  <2>1. RunInv' /\ LiveNames' = LiveNames
    BY <1>12, UnlinkDoneRun
  <2>2. op.pc = "gone" /\ (op' = NoOp \/ op' = [op EXCEPT !.pc = "erase"])
    BY <1>12 DEF UnlinkDone
  <2>3. op' = NoOp \/ op'.before = op.before
    BY <1>2, <2>2
  <2> QED
    BY <1>1, <1>3, <2>1, <2>2, <2>3, ShownStep
<1>13. CASE Erase
  <2>1. RunInv' /\ LiveNames' = LiveNames
    BY <1>13, EraseRun
  <2>2. op.pc = "erase" /\ op'.before = op.before
    <3>1. \E p, x, y : op' = [pc |-> "erase sync", slots |-> op.slots, at |-> <<p>>, pos |-> x, left |-> y, before |-> op.before]
      BY <1>13, EraseIs
    <3> QED
      BY <1>13, <3>1 DEF Erase
  <2> QED
    BY <1>1, <1>3, <2>1, <2>2, ShownStep
<1>14. CASE EraseSync
  <2>1. RunInv' /\ LiveNames' = LiveNames
    BY <1>14, EraseSyncRun
  <2>2. op.pc = "erase sync" /\ (op' = NoOp \/ op' = [op EXCEPT !.pc = "erase"])
    BY <1>14 DEF EraseSync, Proceed
  <2>3. op' = NoOp \/ op'.before = op.before
    BY <1>2, <2>2
  <2> QED
    BY <1>1, <1>3, <2>1, <2>2, <2>3, ShownStep
<1>15. CASE EraseDone
  <2>1. RunInv' /\ LiveNames' = LiveNames
    BY <1>15, EraseDoneRun
  <2>2. op' = NoOp
    BY <1>15 DEF EraseDone
  <2> QED
    BY <1>1, <2>1, <2>2, ShownStep
<1>16. ASSUME NEW b \in 1 .. MaxBlocks, WriteBack(b) PROVE RunInv' /\ OneChange
  <2>1. RunInv' /\ LiveNames' = LiveNames
    BY <1>16, WriteBackRun
  <2>2. op' = op
    BY <1>16 DEF WriteBack
  <2> QED
    BY <1>1, <2>1, <2>2, ShownStep
<1>17. CASE Crash
  <2>1. RunInv' /\ (LiveNames' = Shown \/ \E n \in Names : LiveNames' = Shown \cup {n} \/ LiveNames' = Shown \ {n})
    BY <1>17, CrashRun
  <2>2. Shown' = LiveNames'
    BY <1>17 DEF Crash, Shown
  <2> QED
    BY <2>1, <2>2 DEF OneChange
<1>18. CASE Rewind \/ Readdir \/ ReaddirFault \/ CloseDir
  <2>1. RunInv' /\ LiveNames' = LiveNames
    BY <1>18, RewindRun, ReaddirRun, FaultRun, CloseRun
  <2>2. op' = op
    BY <1>18 DEF Rewind, Readdir, ReaddirFault, CloseDir
  <2> QED
    BY <1>1, <2>1, <2>2, ShownStep
<1> QED
  BY <1>4, <1>5, <1>6, <1>7, <1>8, <1>9, <1>10, <1>11, <1>12, <1>13, <1>14, <1>15, <1>16, <1>17, <1>18 DEF DirNext

LEMMA VisibleIs ==
  ASSUME Bad = {}, AliasInv, RunInv
  PROVE  Visible = Shown
BY QuietFacts DEF Visible, Shown

LEMMA ListedNow ==
  ASSUME Bad = {}, AliasInv, RunInv
  PROVE  ListedOnce
<1>1. ~filp.twice
  <2>1. filp = [how |-> filp.how, pos |-> filp.pos, owed |-> filp.owed, told |-> filp.told, twice |-> FALSE]
    BY DEF RunInv, DirRight
  <2> QED
    BY <2>1
<1>2. ASSUME filp.pos > 0, op = NoOp, Following = {}, NEW n \in filp.owed PROVE FALSE
  <2>1. DirTypes /\ filp.pos \in Nat
    BY DEF AliasInv, RunInv, DirRight
  <2>2. PICK x \in 1 .. Len(mem) : Lives(x, n) /\ filp.pos <= StartOf(x, n)
    BY <1>2 DEF RunInv, DirRight
  <2>3. StartOf(x, n) \in 1 .. x /\ x \in Nat /\ mem[x].kind = "short"
    BY <2>1, <2>2, StartIn, LivesFacts
  <2>4. x >= filp.pos
    BY <2>1, <2>2, <2>3
  <2>5. Following = {i \in 1 .. Len(mem) : mem[i].kind = "short" /\ i >= filp.pos}
    BY <1>2, AheadIs
  <2> QED
    BY <1>2, <2>2, <2>3, <2>4, <2>5
<1> QED
  BY <1>1, <1>2 DEF ListedOnce

(* Where every block can be read, and failed writes come neither with stops    *)
(* nor with failures of what is done about them, a name that is there as long  *)
(* as a directory is read is told exactly once.                                *)
THEOREM Listings ==
  ASSUME Bad = {}, \A f \in DirFailures : ~({"sync", "crash"} \subseteq f) /\ ~({"sync", "erase"} \subseteq f)
  PROVE  DirSpec => []ListedOnce
<1> DEFINE Inv == AliasInv /\ RunInv
<1>1. DirInit => Inv
  BY InitAlias, InitRun
<1>2. Inv /\ [DirNext]_dirVars => Inv'
  <2> SUFFICES ASSUME AliasInv, RunInv, [DirNext]_dirVars PROVE AliasInv' /\ RunInv'
    OBVIOUS
  <2>1. AliasInv'
    BY StepAlias
  <2>2. ~({"sync", "erase"} \subseteq failing)
    BY DEF AliasInv, DirTypes
  <2> QED
    BY <2>1, <2>2, StepRun
<1>3. Inv => ListedOnce
  BY ListedNow
<1> HIDE DEF Inv
<1> QED
  BY <1>1, <1>2, <1>3, PTL DEF DirSpec

(* And an operation that fails, or is stopped, has been done as a whole or not *)
(* at all: the directory is the set of names that DirListing promises.         *)
THEOREM Directory ==
  ASSUME Bad = {}, \A f \in DirFailures : ~({"sync", "crash"} \subseteq f) /\ ~({"sync", "erase"} \subseteq f)
  PROVE  DirSpec => OneStep
<1> DEFINE Inv == AliasInv /\ RunInv
<1>1. DirInit => Inv /\ Dir!Init
  <2> SUFFICES ASSUME DirInit PROVE Inv /\ Dir!Init
    OBVIOUS
  <2>1. AliasInv /\ RunInv /\ LiveNames = {} /\ op = NoOp
    BY InitAlias, InitRun DEF DirInit
  <2>2. Visible = {}
    BY <2>1, VisibleIs DEF Shown
  <2> QED
    BY <2>1, <2>2 DEF Dir!Init
<1>2. AliasInv /\ RunInv => Visible = Shown
  BY VisibleIs
<1>3. (AliasInv /\ RunInv => Visible = Shown)'
  BY <1>2, PTL
<1>4. Inv /\ [DirNext]_dirVars => Inv' /\ [Dir!Next]_Visible
  <2> SUFFICES ASSUME AliasInv, RunInv, [DirNext]_dirVars PROVE AliasInv' /\ RunInv' /\ [Dir!Next]_Visible
    OBVIOUS
  <2>1. AliasInv'
    BY StepAlias
  <2>2. ~({"sync", "erase"} \subseteq failing)
    BY DEF AliasInv, DirTypes
  <2>3. RunInv' /\ OneChange
    BY <2>1, <2>2, StepRun
  <2>4. Visible = Shown
    BY <1>2
  <2>5. Visible' = Shown'
    BY <1>3, <2>1, <2>3
  <2>6. Visible' = Visible \/ \E n \in Names : Visible' = Visible \cup {n} \/ Visible' = Visible \ {n}
    BY <2>3, <2>4, <2>5 DEF OneChange
  <2> QED
    BY <2>1, <2>3, <2>6 DEF Dir!Next, Dir!Add, Dir!Remove
<1> HIDE DEF Inv
<1> QED
  BY <1>1, <1>4, PTL DEF DirSpec, OneStep, Dir!Spec
=============================================================================
