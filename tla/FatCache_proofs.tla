--------------------------- MODULE FatCache_proofs ---------------------------
(* Proofs about the extent cache: the count of its places, that every extent   *)
(* in it describes the file's chain, and that a read is answered from the      *)
(* chain.  CacheInv says for each place in the code what a process has taken   *)
(* from the list and the table and what of it is still so.                     *)
EXTENDS FatCache, FiniteSetTheorems, SequenceTheorems, WellFoundedInduction, TLAPS

-----------------------------------------------------------------------------
(* Types and counts.                                                          *)

(* What a process may have in its variables, whatever the cache says; m is who *)
(* holds the mutex and s the file's first cluster.                             *)
CopyTyped(c) ==
  IF c.f = -1 THEN c.d = -1 /\ c.n = 0
  ELSE c.f # 0 /\ c.d \in Cluster /\ c.d + c.n \in Cluster

CallTyped(p, me, m, s) ==
  /\ me.pc \in {"lookup", "walk"} => me.dc # 0
  /\ me.op \in {"append", "cut"} \/ me.pc = "free" => m = p
  /\ me.op = "append" => me.arg \in Cluster
  /\ me.op = "read" /\ m = p => s # 0
  /\ me.pc = "alloc" => me.cid.f # -1
  /\ CopyTyped(me.cid)

Counted == nrCaches = Len(lru) + Cardinality(Reserved) /\ nrCaches <= MaxCache

TypeInv ==
  /\ TypeOK /\ Counted
  /\ size > 0 => start # 0
  /\ \A p \in Procs : CallTyped(p, proc[p], mutex, start)

LEMMA Sizes ==
  /\ NClusters \in Nat /\ NClusters > 0 /\ Cluster = 1 .. NClusters /\ Free = 0 /\ Eof = NClusters + 1
  /\ Free \notin Cluster /\ Eof \notin Cluster /\ -1 \notin Cluster /\ 0 \notin Cluster
  /\ Cluster \subseteq Nat /\ Valid = 0 /\ MaxCache \in Nat
BY SizeAssumption DEF Cluster, Free, Eof, Valid

LEMMA NextIdRight ==
  ASSUME validId \in Ids \ {Valid}
  PROVE  NextId \in Ids \ {Valid} /\ NextId # Valid
<1> DEFINE n == (validId + 1) % IdSpace
<1>1. IdSpace \in Nat /\ IdSpace > 1 /\ validId + 1 \in Nat
  BY SizeAssumption DEF Ids
<1>2. n \in 0 .. IdSpace - 1
  BY <1>1
<1>3. NextId = IF n = Valid THEN Valid + 1 ELSE n
  BY DEF NextId
<1> HIDE DEF n
<1> QED
  BY <1>1, <1>2, <1>3 DEF Ids, Valid

LEMMA DummyTyped == Dummy \in Copy /\ CopyTyped(Dummy) /\ Dummy.f = -1 /\ Dummy.id = Valid
<1>1. Valid \in Ids
  BY SizeAssumption DEF Ids, Valid
<1> QED
  BY <1>1 DEF Dummy, Copy, CopyTyped

LEMMA IdleTyped == Idle \in Local /\ Idle.pc = "idle" /\ Idle.op = "none" /\ Idle.cid = Dummy
                   /\ Idle.target = 0 /\ Idle.arg = 0 /\ Idle.dc = 0
BY DummyTyped, Sizes DEF Idle, Local

(* One process moves.                                                          *)
LEMMA Moved ==
  ASSUME proc \in [Procs -> Local], NEW p \in Procs, NEW x \in Local, proc' = [proc EXCEPT ![p] = x]
  PROVE  /\ proc' \in [Procs -> Local] /\ proc'[p] = x
         /\ \A q \in Procs : q # p => proc'[q] = proc[q]
OBVIOUS

LEMMA GotoMoves ==
  ASSUME proc \in [Procs -> Local], NEW p \in Procs, NEW c, Goto(p, c),
         c \in {"idle", "lookup", "walk", "add", "alloc", "got", "free", "fail"}
  PROVE  LET x == [proc[p] EXCEPT !.pc = c]
         IN  /\ proc' = [proc EXCEPT ![p] = x] /\ x \in Local
             /\ x.pc = c /\ x.op = proc[p].op /\ x.target = proc[p].target /\ x.cid = proc[p].cid
             /\ x.fc = proc[p].fc /\ x.dc = proc[p].dc /\ x.arg = proc[p].arg
BY DEF Goto, Local

Held(me) == IF me.pc = "alloc" THEN 1 ELSE 0

LEMMA ReservedMove ==
  ASSUME proc \in [Procs -> Local], IsFiniteSet(Procs), NEW p \in Procs, NEW x \in Local,
         proc' = [proc EXCEPT ![p] = x]
  PROVE  /\ Cardinality(Reserved) \in Nat /\ Cardinality(Reserved') \in Nat
         /\ Cardinality(Reserved') + Held(proc[p]) = Cardinality(Reserved) + Held(x)
<1>1. Reserved' = {q \in Procs : proc'[q].pc = "alloc"}
  BY DEF Reserved
<1>2. Reserved \subseteq Procs /\ Reserved' \subseteq Procs /\ IsFiniteSet(Reserved) /\ IsFiniteSet(Reserved')
  BY <1>1, FS_Subset DEF Reserved
<1>3. Cardinality(Reserved) \in Nat /\ Cardinality(Reserved') \in Nat
  BY <1>2, FS_CardinalityType
<1>4. \A q \in Procs : q \in Reserved' <=> IF q = p THEN x.pc = "alloc" ELSE q \in Reserved
  BY <1>1, Moved DEF Reserved
<1>5. p \in Reserved <=> proc[p].pc = "alloc"
  BY DEF Reserved
<1>6. CASE x.pc = "alloc"
  <2>1. Reserved' = Reserved \cup {p}
    BY <1>2, <1>4, <1>6
  <2>2. Cardinality(Reserved') = IF p \in Reserved THEN Cardinality(Reserved) ELSE Cardinality(Reserved) + 1
    BY <1>2, <2>1, FS_AddElement
  <2> QED
    BY <1>3, <1>5, <1>6, <2>2 DEF Held
<1>7. CASE x.pc # "alloc"
  <2>1. Reserved' = Reserved \ {p}
    BY <1>2, <1>4, <1>7
  <2>2. Cardinality(Reserved') = IF p \in Reserved THEN Cardinality(Reserved) - 1 ELSE Cardinality(Reserved)
    BY <1>2, <2>1, FS_RemoveElement
  <2> QED
    BY <1>3, <1>5, <1>7, <2>2 DEF Held
<1> QED
  BY <1>6, <1>7

(* The count before and after: m and n places, a and b extents, c and d        *)
(* allocations, of which h and g are the mover's.                              *)
Balance(m, n, a, b, c, d, g, h) ==
  /\ {m, a, b, c, d, g, h} \subseteq Nat /\ n \in Int
  /\ m = a + c /\ n + a + h = m + b + g /\ d + h = c + g

LEMMA CountSum ==
  ASSUME NEW m, NEW n, NEW a, NEW b, NEW c, NEW d, NEW g, NEW h, Balance(m, n, a, b, c, d, g, h)
  PROVE  n = b + d /\ n \in Nat
BY DEF Balance

(* A step of p, by what it does to the count and to p's own variables.         *)
LEMMA TypeFrame ==
  ASSUME TypeInv, IsFiniteSet(Procs), NEW p \in Procs, NEW x \in Local, proc' = [proc EXCEPT ![p] = x],
         fat' \in [Cluster -> 0 .. Eof], start' \in 0 .. NClusters, iblocks' \in Nat, size' \in Nat,
         lru' \in Seq(Extent), nrCaches' \in Int, validId' \in Ids \ {Valid},
         mutex' = mutex \/ mutex' = p \/ (mutex = p /\ mutex' = NoProc), mutex' = p => mutex \in {p, NoProc},
         fault' \in {"none", "bug", "wild"},
         nrCaches' + Len(lru) + Held(proc[p]) = nrCaches + Len(lru') + Held(x), nrCaches' <= MaxCache,
         size' > 0 => start' # 0, start' = start \/ start' # 0 \/ mutex' = p,
         CallTyped(p, x, mutex', start')
  PROVE  TypeInv'
<1>1. /\ proc \in [Procs -> Local] /\ lru \in Seq(Extent) /\ nrCaches \in Nat /\ Counted
      /\ mutex \in Procs \cup {NoProc}
      /\ \A q \in Procs : CallTyped(q, proc[q], mutex, start)
  BY DEF TypeInv, TypeOK
<1>2. /\ proc' \in [Procs -> Local] /\ proc'[p] = x
      /\ \A q \in Procs : q # p => proc'[q] = proc[q]
  BY <1>1, Moved
<1>3. /\ Cardinality(Reserved) \in Nat /\ Cardinality(Reserved') \in Nat
      /\ Cardinality(Reserved') + Held(proc[p]) = Cardinality(Reserved) + Held(x)
  BY <1>1, ReservedMove
<1>4. Len(lru) \in Nat /\ Len(lru') \in Nat
  BY <1>1, LenProperties
<1>5. Held(x) \in Nat /\ Held(proc[p]) \in Nat
  BY DEF Held
<1>6. nrCaches' = Len(lru') + Cardinality(Reserved') /\ nrCaches' \in Nat
  <2>1. nrCaches = Len(lru) + Cardinality(Reserved)
    BY <1>1 DEF Counted
  <2>2. Balance(nrCaches, nrCaches', Len(lru), Len(lru'), Cardinality(Reserved), Cardinality(Reserved'),
                Held(x), Held(proc[p]))
    BY <1>1, <1>3, <1>4, <1>5, <2>1, Zenon DEF Balance
  <2> QED
    BY <2>2, CountSum, Zenon
<1>7. Counted'
  BY <1>6 DEF Counted
<1>8. TypeOK'
  BY <1>1, <1>2, <1>6 DEF TypeOK
<1>9. ASSUME NEW q \in Procs PROVE CallTyped(q, proc'[q], mutex', start')
  <2>1. CASE q = p
    BY <1>2, <2>1
  <2>2. CASE q # p
    <3>1. proc'[q] = proc[q] /\ CallTyped(q, proc[q], mutex, start)
      BY <1>1, <1>2, <2>2
    <3>2. mutex = q => mutex' = q
      BY <2>2, NoProcAssumption
    <3>3. mutex' = q => mutex = q
      BY <2>2, NoProcAssumption
    <3>4. mutex' = q => start' = start \/ start' # 0
      BY <2>2
    <3> QED
      BY <3>1, <3>2, <3>3, <3>4 DEF CallTyped
  <2> QED
    BY <2>1, <2>2
<1> QED
  BY <1>7, <1>8, <1>9 DEF TypeInv

-----------------------------------------------------------------------------
(* The list.                                                                  *)

LEMMA ToFrontRight ==
  ASSUME NEW E, lru \in Seq(E), NEW i \in DOMAIN lru
  PROVE  /\ ToFront(i) \in Seq(E) /\ Len(ToFront(i)) = Len(lru) /\ DOMAIN ToFront(i) = DOMAIN lru
         /\ \A j \in DOMAIN lru :
              ToFront(i)[j] = IF j = 1 THEN lru[i] ELSE IF j <= i THEN lru[j - 1] ELSE lru[j]
<1> DEFINE m == Len(lru)
           a == <<lru[i]>>
           b == SubSeq(lru, 1, i - 1)
           c == SubSeq(lru, i + 1, m)
<1>1. m \in Nat /\ DOMAIN lru = 1 .. m /\ i \in 1 .. m /\ \A j \in 1 .. m : lru[j] \in E
  BY LenProperties, ElementOfSeq
<1>2. a \in Seq(E) /\ Len(a) = 1 /\ a[1] = lru[i]
  BY <1>1
<1>3. \A j \in 1 .. i - 1 : lru[j] \in E
  BY <1>1
<1>4. \A j \in i + 1 .. m : lru[j] \in E
  BY <1>1
<1>5. 1 \in Int /\ i - 1 \in Int /\ i + 1 \in Int /\ m \in Int /\ i \in Int
  BY <1>1
<1> HIDE DEF m
<1>6. /\ b \in Seq(E) /\ Len(b) = IF 1 <= i - 1 THEN (i - 1) - 1 + 1 ELSE 0
      /\ \A j \in 1 .. (i - 1) - 1 + 1 : b[j] = lru[1 + j - 1]
  BY <1>3, <1>5, SubSeqProperties
<1>7. /\ c \in Seq(E) /\ Len(c) = IF i + 1 <= m THEN m - (i + 1) + 1 ELSE 0
      /\ \A j \in 1 .. m - (i + 1) + 1 : c[j] = lru[(i + 1) + j - 1]
  BY SMTT(30), <1>4, <1>5, SubSeqProperties
<1> HIDE DEF a, b, c
<1>8. Len(b) = i - 1 /\ \A j \in 1 .. i - 1 : b[j] = lru[j]
  BY <1>1, <1>6
<1>9. Len(c) = m - i /\ \A j \in 1 .. m - i : c[j] = lru[i + j]
  <2>1. \A j \in 1 .. m - i : (i + 1) + j - 1 = i + j /\ j \in 1 .. m - (i + 1) + 1
    BY <1>1
  <2>2. Len(c) = m - i
    BY <1>1, <1>7
  <2> QED
    BY <1>7, <2>1, <2>2
<1>10. /\ a \o b \in Seq(E) /\ Len(a \o b) = i
       /\ \A j \in 1 .. i : (a \o b)[j] = IF j = 1 THEN lru[i] ELSE lru[j - 1]
  <2>1. /\ a \o b \in Seq(E) /\ Len(a \o b) = Len(a) + Len(b)
        /\ \A j \in 1 .. Len(a) + Len(b) : (a \o b)[j] = IF j <= Len(a) THEN a[j] ELSE b[j - Len(a)]
    BY <1>2, <1>6, ConcatProperties
  <2>2. Len(a) + Len(b) = i
    BY <1>2, <1>5, <1>8
  <2> QED
    BY <1>1, <1>2, <1>8, <2>1, <2>2
<1> DEFINE ab == a \o b
<1> HIDE DEF ab
<1>11. /\ ab \o c \in Seq(E) /\ Len(ab \o c) = m
       /\ \A j \in 1 .. m : (ab \o c)[j] = IF j <= i THEN ab[j] ELSE c[j - i]
  <2>1. /\ ab \o c \in Seq(E) /\ Len(ab \o c) = Len(ab) + Len(c)
        /\ \A j \in 1 .. Len(ab) + Len(c) : (ab \o c)[j] = IF j <= Len(ab) THEN ab[j] ELSE c[j - Len(ab)]
    BY SMTT(30), <1>7, <1>10, ConcatProperties DEF ab
  <2>2. Len(ab) = i /\ Len(ab) + Len(c) = m
    BY <1>1, <1>9, <1>10 DEF ab
  <2> QED
    BY <2>1, <2>2
<1>12. ToFront(i) = ab \o c
  BY DEF ToFront, a, b, c, ab, m
<1>13. \A j \in 1 .. m : (ab \o c)[j] = IF j = 1 THEN lru[i] ELSE IF j <= i THEN lru[j - 1] ELSE lru[j]
  <2> SUFFICES ASSUME NEW j \in 1 .. m
               PROVE  (ab \o c)[j] = IF j = 1 THEN lru[i] ELSE IF j <= i THEN lru[j - 1] ELSE lru[j]
    OBVIOUS
  <2>1. CASE j <= i
    <3>1. ab[j] = IF j = 1 THEN lru[i] ELSE lru[j - 1]
      BY <1>1, <1>10, <2>1 DEF ab
    <3> QED
      BY <1>11, <2>1, <3>1
  <2>2. CASE j > i
    <3>1. j - i \in 1 .. m - i /\ i + (j - i) = j
      BY <1>1, <2>2
    <3>2. c[j - i] = lru[j]
      BY <1>9, <3>1
    <3> QED
      BY SMTT(30), <1>1, <1>11, <2>2, <3>2
  <2>3. j <= i \/ j > i
    BY <1>1
  <2> QED
    BY <2>1, <2>2, <2>3
<1>14. DOMAIN (ab \o c) = 1 .. m
  BY <1>11, LenProperties
<1>15. DOMAIN lru = 1 .. m /\ Len(lru) = m
  BY <1>1 DEF m
<1> HIDE DEF ab
<1> QED
  BY <1>11, <1>12, <1>13, <1>14, <1>15

(* A new first entry, before all of the list or all but its last.              *)
LEMMA FrontRight ==
  ASSUME NEW E, lru \in Seq(E), NEW e \in E, NEW k \in Nat, k <= Len(lru)
  PROVE  LET s == <<e>> \o SubSeq(lru, 1, k)
         IN  /\ s \in Seq(E) /\ Len(s) = k + 1 /\ DOMAIN s = 1 .. k + 1 /\ s[1] = e
             /\ \A j \in 2 .. k + 1 : s[j] = lru[j - 1] /\ j - 1 \in DOMAIN lru
<1> DEFINE m == Len(lru)
           a == <<e>>
           b == SubSeq(lru, 1, k)
<1>1. m \in Nat /\ DOMAIN lru = 1 .. m /\ k <= m /\ \A j \in 1 .. m : lru[j] \in E
  BY LenProperties, ElementOfSeq
<1> HIDE DEF m
<1>2. a \in Seq(E) /\ Len(a) = 1 /\ a[1] = e
  OBVIOUS
<1>3. \A j \in 1 .. k : lru[j] \in E
  BY <1>1
<1>4. /\ b \in Seq(E) /\ Len(b) = IF 1 <= k THEN k - 1 + 1 ELSE 0
      /\ \A j \in 1 .. k - 1 + 1 : b[j] = lru[1 + j - 1]
  BY <1>3, SubSeqProperties
<1> HIDE DEF a, b
<1>5. Len(b) = k /\ \A j \in 1 .. k : b[j] = lru[j]
  BY <1>4
<1>6. /\ a \o b \in Seq(E) /\ Len(a \o b) = Len(a) + Len(b)
      /\ \A j \in 1 .. Len(a) + Len(b) : (a \o b)[j] = IF j <= Len(a) THEN a[j] ELSE b[j - Len(a)]
  BY <1>2, <1>4, ConcatProperties
<1>7. DOMAIN (a \o b) = 1 .. k + 1
  BY <1>2, <1>5, <1>6, LenProperties
<1>8. \A j \in 2 .. k + 1 : j - 1 \in 1 .. k /\ ~(j <= 1) /\ j \in 1 .. 1 + k /\ j - 1 \in 1 .. m
  BY <1>1
<1>9. \A j \in 2 .. k + 1 : (a \o b)[j] = lru[j - 1] /\ j - 1 \in DOMAIN lru
  BY <1>1, <1>2, <1>5, <1>6, <1>8
<1>10. (a \o b)[1] = e
  BY <1>2, <1>5, <1>6
<1> QED
  BY <1>2, <1>5, <1>6, <1>7, <1>9, <1>10 DEF a, b

LEMMA WholeList ==
  ASSUME NEW E, lru \in Seq(E)
  PROVE  SubSeq(lru, 1, Len(lru)) = lru
BY SubSeqFull

(* An entry that is lengthened.                                               *)
LEMMA MergedRight ==
  ASSUME lru \in Seq(Extent), NEW new, new.n \in Nat, AsExtent(new) \in Extent,
         NEW i \in Same(new), lru[i].d = new.d
  PROVE  /\ Merged(new, i) \in Seq(Extent) /\ Len(Merged(new, i)) = Len(lru)
         /\ DOMAIN Merged(new, i) = DOMAIN lru
         /\ \A j \in DOMAIN lru \ {1} :
              Merged(new, i)[j] = IF j <= i THEN lru[j - 1] ELSE lru[j]
         /\ Merged(new, i)[1] \in {lru[i], AsExtent(new)}
<1>1. i \in DOMAIN lru /\ lru[i].f = new.f
  BY DEF Same
<1> DEFINE t == ToFront(i)
           y == [t[1] EXCEPT !.n = IF new.n > t[1].n THEN new.n ELSE t[1].n]
<1>2. /\ t \in Seq(Extent) /\ Len(t) = Len(lru) /\ DOMAIN t = DOMAIN lru
      /\ \A j \in DOMAIN lru : t[j] = IF j = 1 THEN lru[i] ELSE IF j <= i THEN lru[j - 1] ELSE lru[j]
  BY <1>1, ToFrontRight
<1>3. 1 \in DOMAIN lru
  BY <1>1, LenProperties
<1>4. t[1] = lru[i] /\ t[1] \in Extent
  BY <1>1, <1>2, <1>3, ElementOfSeq, LenProperties
<1>5. Merged(new, i) = [t EXCEPT ![1] = y]
  BY <1>3, <1>2 DEF Merged
<1>6. y = IF new.n > t[1].n THEN AsExtent(new) ELSE t[1]
  BY <1>1, <1>4 DEF AsExtent, Extent
<1>7. y \in Extent
  BY <1>4, <1>6
<1> HIDE DEF y, t
<1>8. /\ [t EXCEPT ![1] = y] \in Seq(Extent) /\ Len([t EXCEPT ![1] = y]) = Len(t)
      /\ DOMAIN [t EXCEPT ![1] = y] = DOMAIN t
      /\ \A j \in DOMAIN t : [t EXCEPT ![1] = y][j] = IF j = 1 THEN y ELSE t[j]
  BY <1>2, <1>3, <1>7, ExceptSeq, LenProperties
<1>9. \A j \in DOMAIN lru \ {1} : t[j] = IF j <= i THEN lru[j - 1] ELSE lru[j]
  BY <1>2
<1> QED
  BY <1>2, <1>3, <1>4, <1>5, <1>6, <1>8, <1>9

-----------------------------------------------------------------------------
(* The steps, as to types.                                                    *)

(* What is known of a process that moves.                                      *)
LEMMA Known ==
  ASSUME TypeInv, NEW p \in Procs
  PROVE  /\ proc \in [Procs -> Local] /\ proc[p] \in Local /\ CallTyped(p, proc[p], mutex, start)
         /\ proc[p].target \in Nat /\ proc[p].fc \in Nat /\ proc[p].dc \in 0 .. NClusters
         /\ proc[p].arg \in Nat /\ proc[p].cid \in Copy
         /\ fat \in [Cluster -> 0 .. Eof] /\ start \in 0 .. NClusters /\ iblocks \in Nat /\ size \in Nat
         /\ lru \in Seq(Extent) /\ nrCaches \in Nat /\ nrCaches <= MaxCache
         /\ validId \in Ids \ {Valid} /\ mutex \in Procs \cup {NoProc}
         /\ fault \in {"none", "bug", "wild"} /\ (size > 0 => start # 0)
<1>1. TypeOK /\ Counted
  BY DEF TypeInv
<1>2. proc[p] \in Local
  BY <1>1 DEF TypeOK
<1>3. /\ proc[p].target \in Nat /\ proc[p].fc \in Nat /\ proc[p].dc \in 0 .. NClusters
      /\ proc[p].arg \in Nat /\ proc[p].cid \in Copy
  BY <1>2 DEF Local
<1> QED
  BY <1>1, <1>2, <1>3 DEF TypeInv, TypeOK, Counted

LEMMA QuietFrame ==
  ASSUME TypeInv, IsFiniteSet(Procs), NEW p \in Procs, NEW x \in Local, proc' = [proc EXCEPT ![p] = x],
         x.pc = "alloc" <=> proc[p].pc = "alloc", UNCHANGED cache,
         fat' \in [Cluster -> 0 .. Eof], start' \in 0 .. NClusters, iblocks' \in Nat, size' \in Nat,
         mutex' = mutex \/ mutex' = p \/ (mutex = p /\ mutex' = NoProc), mutex' = p => mutex \in {p, NoProc},
         fault' \in {"none", "bug", "wild"},
         size' > 0 => start' # 0, start' = start \/ start' # 0 \/ mutex' = p,
         CallTyped(p, x, mutex', start')
  PROVE  TypeInv'
<1>1. lru' = lru /\ nrCaches' = nrCaches /\ validId' = validId
  BY DEF cache
<1>2. Held(x) = Held(proc[p])
  BY DEF Held
<1>3. nrCaches' + Len(lru) + Held(proc[p]) = nrCaches + Len(lru') + Held(x)
  BY <1>1, <1>2, Zenon
<1>4. /\ lru' \in Seq(Extent) /\ nrCaches' \in Int /\ nrCaches' <= MaxCache
      /\ validId' \in Ids \ {Valid}
  BY <1>1, Known
<1> QED
  BY <1>3, <1>4, TypeFrame

(* What fat_get_cluster begins with.                                           *)
Begun(x, me, t, s) ==
  /\ x \in Local /\ x.op = me.op /\ x.arg = me.arg /\ x.target = t /\ x.cid = Dummy
  /\ x.fc = 0 /\ x.dc = s /\ x.pc = IF t = 0 THEN "got" ELSE "lookup"

LEMMA GetClusterTyped ==
  ASSUME NEW me \in Local, NEW t \in Nat, start \in 0 .. NClusters
  PROVE  Begun(GetCluster(me, t), me, t, start)
BY DummyTyped DEF GetCluster, Local, Begun

LEMMA BestsRight ==
  ASSUME NEW t, NEW i, IsHit(i, t)
  PROVE  i \in DOMAIN lru /\ lru[i].f <= t
BY DEF IsHit, Bests

LEMMA Entry ==
  ASSUME lru \in Seq(Extent), NEW i \in DOMAIN lru
  PROVE  /\ lru[i] \in Extent /\ lru[i].f \in Nat \ {0} /\ lru[i].d \in Cluster /\ lru[i].n \in Nat
         /\ lru[i].d + lru[i].n \in Cluster
<1>1. lru[i] \in Extent
  BY ElementOfSeq, LenProperties
<1> QED
  BY <1>1 DEF Extent

(* What Lookup makes of a process.                                             *)
Found(me, e) ==
  LET off == IF Covers(e, me.target) THEN me.target - e.f ELSE e.n
  IN  [me EXCEPT !.cid = [f |-> e.f, d |-> e.d, n |-> e.n, id |-> validId],
                 !.fc = e.f + off, !.dc = e.d + off,
                 !.pc = IF Covers(e, me.target) THEN "add" ELSE "walk"]

LEMMA FoundTyped ==
  ASSUME NEW me \in Local, me.target \in Nat, NEW e \in Extent, e.f <= me.target, validId \in Ids
  PROVE  LET x == Found(me, e)
             covers == Covers(e, me.target)
         IN  /\ x \in Local /\ x.op = me.op /\ x.arg = me.arg /\ x.target = me.target
             /\ x.cid = [f |-> e.f, d |-> e.d, n |-> e.n, id |-> validId]
             /\ x.cid.f = e.f /\ x.cid.d = e.d /\ x.cid.n = e.n /\ x.cid.id = validId
             /\ x.pc = IF covers THEN "add" ELSE "walk"
             /\ covers => x.fc = me.target /\ x.dc = e.d + (me.target - e.f) /\ me.target - e.f \in 0 .. e.n
             /\ ~covers => x.fc = e.f + e.n /\ x.dc = e.d + e.n /\ e.f + e.n < me.target
             /\ CopyTyped(x.cid) /\ x.dc \in Cluster
<1>1. /\ e.f \in Nat /\ e.f > 0 /\ e.d \in Cluster /\ e.n \in Nat /\ e.d + e.n \in Cluster
  BY DEF Extent
<1> DEFINE off == IF Covers(e, me.target) THEN me.target - e.f ELSE e.n
           c == [f |-> e.f, d |-> e.d, n |-> e.n, id |-> validId]
<1>2. off \in 0 .. e.n /\ e.f + off \in Nat /\ e.d + off \in Cluster
  <2>1. CASE Covers(e, me.target)
    <3>1. off = me.target - e.f /\ off \in 0 .. e.n /\ e.f + off = me.target
      BY <1>1, <2>1 DEF Covers
    <3>2. off \in Int /\ off <= e.n /\ 0 <= off
      BY <1>1, <3>1
    <3>3. e.d \in Int /\ 1 <= e.d /\ e.n \in Int /\ e.d + e.n <= NClusters /\ NClusters \in Int
      BY <1>1, Sizes
    <3> HIDE DEF off
    <3>4. e.d + off \in Int /\ 1 <= e.d + off /\ e.d + off <= NClusters
      BY <3>2, <3>3
    <3>5. e.d + off \in Cluster
      BY <3>3, <3>4 DEF Cluster
    <3> QED
      BY <3>1, <3>5
  <2>2. CASE ~Covers(e, me.target)
    <3>1. off = e.n
      BY <2>2
    <3> QED
      BY <1>1, <3>1
  <2> QED
    BY <2>1, <2>2
<1>3. c \in Copy /\ CopyTyped(c)
  BY <1>1, Sizes DEF Copy, CopyTyped
<1>4. Covers(e, me.target) => e.f + off = me.target
  BY <1>1
<1>5. ~Covers(e, me.target) => e.f + e.n < me.target
  BY <1>1 DEF Covers
<1>6. e.d + off \in 0 .. NClusters
  BY <1>2, Sizes
<1> DEFINE x == Found(me, e)
<1>7. x = [me EXCEPT !.cid = c, !.fc = e.f + off, !.dc = e.d + off,
                     !.pc = IF Covers(e, me.target) THEN "add" ELSE "walk"]
  BY DEF Found
<1> HIDE DEF off, c, x
<1>8. /\ x \in Local /\ x.op = me.op /\ x.arg = me.arg /\ x.target = me.target /\ x.cid = c
      /\ x.fc = e.f + off /\ x.dc = e.d + off
      /\ x.pc = IF Covers(e, me.target) THEN "add" ELSE "walk"
  BY <1>2, <1>3, <1>6, <1>7 DEF Local
<1>9. c.f = e.f /\ c.d = e.d /\ c.n = e.n /\ c.id = validId /\ c = [f |-> e.f, d |-> e.d, n |-> e.n, id |-> validId]
  BY DEF c
<1>10. off = IF Covers(e, me.target) THEN me.target - e.f ELSE e.n
  BY DEF off
<1> QED
  BY <1>2, <1>3, <1>4, <1>5, <1>8, <1>9, <1>10 DEF x

LEMMA LookupHit ==
  ASSUME proc \in [Procs -> Local], NEW p \in Procs, Lookup(p), Bests(proc[p].target) # {}
  PROVE  \E i \in DOMAIN lru :
           /\ IsHit(i, proc[p].target) /\ lru' = ToFront(i)
           /\ proc' = [proc EXCEPT ![p] = Found(proc[p], lru[i])]
<1>1. PICK i \in DOMAIN lru :
        LET e   == lru[i]
            off == IF Covers(e, proc[p].target) THEN proc[p].target - e.f ELSE e.n
        IN  /\ IsHit(i, proc[p].target)
            /\ lru' = ToFront(i)
            /\ proc' = [proc EXCEPT
                 ![p].cid = [f |-> e.f, d |-> e.d, n |-> e.n, id |-> validId],
                 ![p].fc = e.f + off, ![p].dc = e.d + off,
                 ![p].pc = IF Covers(e, proc[p].target) THEN "add" ELSE "walk"]
  BY Zenon DEF Lookup
<1>2. proc' = [proc EXCEPT ![p] = Found(proc[p], lru[i])]
  BY <1>1 DEF Found
<1> QED
  BY <1>1, <1>2

LEMMA LookupTyped ==
  ASSUME TypeInv, IsFiniteSet(Procs), NEW p \in Procs, Lookup(p)
  PROVE  TypeInv'
<1> DEFINE me == proc[p]
<1>1. me \in Local /\ proc \in [Procs -> Local] /\ CallTyped(p, me, mutex, start) /\ me.target \in Nat
  BY Known
<1>2. me.pc = "lookup" /\ UNCHANGED <<file, nrCaches, validId, mutex, fault>>
  BY Zenon DEF Lookup
<1>3. fat' = fat /\ start' = start /\ iblocks' = iblocks /\ size' = size /\ nrCaches' = nrCaches
      /\ validId' = validId /\ mutex' = mutex /\ fault' = fault
  BY <1>2 DEF file
<1>4. CASE Bests(me.target) = {} /\ Goto(p, "walk") /\ UNCHANGED lru
  <2> DEFINE x == [me EXCEPT !.pc = "walk"]
  <2>1. /\ proc' = [proc EXCEPT ![p] = x] /\ x \in Local
        /\ x.pc = "walk" /\ x.op = me.op /\ x.cid = me.cid /\ x.dc = me.dc /\ x.arg = me.arg
    BY <1>1, <1>4, GotoMoves
  <2> HIDE DEF x
  <2>2. CallTyped(p, x, mutex, start)
    BY <1>1, <1>2, <2>1 DEF CallTyped
  <2> QED
    BY <1>2, <1>3, <1>4, <2>1, <2>2, Known, QuietFrame DEF cache
<1>5. CASE Bests(me.target) # {}
  <2>1. PICK i \in DOMAIN lru :
           /\ IsHit(i, me.target) /\ lru' = ToFront(i)
           /\ proc' = [proc EXCEPT ![p] = Found(me, lru[i])]
    BY <1>1, <1>5, LookupHit
  <2>2. lru[i] \in Extent /\ lru[i].f <= me.target /\ validId \in Ids
    BY <2>1, Known, Entry, BestsRight
  <2> DEFINE x == Found(me, lru[i])
  <2>3. /\ x \in Local /\ x.op = me.op /\ x.arg = me.arg
        /\ x.pc \in {"add", "walk"} /\ CopyTyped(x.cid) /\ x.dc \in Cluster
    BY <1>1, <2>2, FoundTyped
  <2> HIDE DEF x
  <2>4. CallTyped(p, x, mutex, start)
    BY <1>1, <2>3, Sizes DEF CallTyped
  <2>5. lru' \in Seq(Extent) /\ Len(lru') = Len(lru)
    BY <2>1, Known, ToFrontRight
  <2>6. Held(x) = Held(me)
    BY <1>2, <2>3 DEF Held
  <2>7. nrCaches' + Len(lru) + Held(me) = nrCaches + Len(lru') + Held(x)
    BY <1>3, <2>5, <2>6, Zenon
  <2>8. proc' = [proc EXCEPT ![p] = x]
    BY <2>1 DEF x
  <2>9. /\ fat' \in [Cluster -> 0 .. Eof] /\ start' \in 0 .. NClusters /\ iblocks' \in Nat /\ size' \in Nat
        /\ nrCaches' \in Int /\ nrCaches' <= MaxCache /\ validId' \in Ids \ {Valid}
        /\ fault' \in {"none", "bug", "wild"} /\ (size' > 0 => start' # 0)
    BY <1>3, Known
  <2>10. CallTyped(p, x, mutex', start') /\ start' = start /\ mutex' = mutex /\ (mutex' = p => mutex \in {p, NoProc})
    BY <1>3, <2>4
  <2> QED
    BY <2>3, <2>5, <2>7, <2>8, <2>9, <2>10, TypeFrame
<1>6. Bests(me.target) = {} => Goto(p, "walk") /\ UNCHANGED lru
  <2>1. \A i \in DOMAIN lru : IsHit(i, me.target) => Bests(me.target) # {}
    BY DEF IsHit
  <2> QED
    BY <2>1, Zenon DEF Lookup
<1> QED
  BY <1>4, <1>5, <1>6

(* What one turn of Walk makes of a process, when the chain goes on to next.   *)
Collected(me, next) ==
  IF me.cid.d + me.cid.n + 1 = next THEN [me.cid EXCEPT !.n = @ + 1]
  ELSE [f |-> me.fc + 1, d |-> next, n |-> 0, id |-> Valid]

Walked(me, next) ==
  [me EXCEPT !.cid = Collected(me, next), !.fc = @ + 1, !.dc = next,
             !.pc = IF me.fc + 1 = me.target THEN "add" ELSE "walk"]

LEMMA WalkedTyped ==
  ASSUME NEW me \in Local, me.fc \in Nat, me.cid \in Copy, NEW next \in Cluster, CopyTyped(me.cid)
  PROVE  LET x == Walked(me, next)
             c == Collected(me, next)
         IN  /\ x \in Local /\ x.op = me.op /\ x.arg = me.arg /\ x.target = me.target /\ x.cid = c
             /\ x.fc = me.fc + 1 /\ x.dc = next
             /\ x.pc = IF me.fc + 1 = me.target THEN "add" ELSE "walk"
             /\ c \in Copy /\ CopyTyped(c) /\ c.f # -1
             /\ \/ /\ me.cid.f # -1 /\ me.cid.d + me.cid.n + 1 = next
                   /\ c.f = me.cid.f /\ c.d = me.cid.d /\ c.n = me.cid.n + 1 /\ c.id = me.cid.id
                \/ c.f = me.fc + 1 /\ c.d = next /\ c.n = 0 /\ c.id = Valid
<1> DEFINE c == Collected(me, next)
           x == Walked(me, next)
<1>1. /\ me.cid.f \in Nat \cup {-1} /\ me.cid.d \in Cluster \cup {-1} /\ me.cid.n \in Nat /\ me.cid.id \in Ids
  BY DEF Copy
<1>2. /\ c \in Copy /\ CopyTyped(c) /\ c.f # -1
      /\ \/ /\ me.cid.f # -1 /\ me.cid.d + me.cid.n + 1 = next
            /\ c.f = me.cid.f /\ c.d = me.cid.d /\ c.n = me.cid.n + 1 /\ c.id = me.cid.id
         \/ c.f = me.fc + 1 /\ c.d = next /\ c.n = 0 /\ c.id = Valid
  <2>1. CASE me.cid.d + me.cid.n + 1 = next
    <3>1. me.cid.f # -1
      <4>1. me.cid.f = -1 => me.cid.d + me.cid.n + 1 = 0
        BY DEF CopyTyped
      <4> QED
        BY <2>1, <4>1, Sizes
    <3>2. me.cid.f # 0 /\ me.cid.d \in Cluster
      BY <3>1 DEF CopyTyped
    <3>3. c = [me.cid EXCEPT !.n = @ + 1]
      BY <2>1 DEF Collected
    <3>4. c \in Copy /\ c.f = me.cid.f /\ c.d = me.cid.d /\ c.n = me.cid.n + 1 /\ c.id = me.cid.id
      BY <1>1, <3>3 DEF Copy
    <3>5. c.d + c.n = next
      <4>1. me.cid.d \in Int
        BY <3>2, Sizes
      <4> QED
        BY <1>1, <2>1, <3>4, <4>1
    <3> HIDE DEF c
    <3> QED
      BY <2>1, <3>1, <3>2, <3>4, <3>5 DEF CopyTyped
  <2>2. CASE me.cid.d + me.cid.n + 1 # next
    <3>1. c = [f |-> me.fc + 1, d |-> next, n |-> 0, id |-> Valid]
      BY <2>2 DEF Collected
    <3>2. Valid \in Ids
      BY SizeAssumption DEF Ids, Valid
    <3>3. c \in Copy /\ c.f = me.fc + 1 /\ c.d = next /\ c.n = 0 /\ c.id = Valid
      BY <3>1, <3>2 DEF Copy
    <3>4. c.d + c.n = next /\ c.f # 0 /\ c.f # -1
      BY <3>3, Sizes
    <3> HIDE DEF c
    <3> QED
      BY <3>3, <3>4 DEF CopyTyped
  <2> QED
    BY <2>1, <2>2
<1>3. next \in 0 .. NClusters
  BY Sizes
<1>4. x = [me EXCEPT !.cid = c, !.fc = @ + 1, !.dc = next,
                     !.pc = IF me.fc + 1 = me.target THEN "add" ELSE "walk"]
  BY DEF Walked
<1> DEFINE pc == IF me.fc + 1 = me.target THEN "add" ELSE "walk"
<1>6. x = [me EXCEPT !.cid = c, !.fc = me.fc + 1, !.dc = next, !.pc = pc] /\ pc \in {"add", "walk"}
  BY <1>4
<1>7. me.fc + 1 \in Nat
  OBVIOUS
<1> HIDE DEF c, x, pc
<1>5. /\ x \in Local /\ x.op = me.op /\ x.arg = me.arg /\ x.target = me.target /\ x.cid = c
      /\ x.fc = me.fc + 1 /\ x.dc = next /\ x.pc = pc
  BY <1>2, <1>3, <1>6, <1>7 DEF Local
<1> QED
  BY <1>2, <1>5 DEF c, x, pc

LEMMA WalkOn ==
  ASSUME proc \in [Procs -> Local], NEW p \in Procs, Walk(p), fat[proc[p].dc] # Eof
  PROVE  fat[proc[p].dc] # Free /\ proc' = [proc EXCEPT ![p] = Walked(proc[p], fat[proc[p].dc])]
<1> DEFINE next == fat[proc[p].dc]
<1>1. /\ next # Free
      /\ proc' = [proc EXCEPT ![p].cid = Collected(proc[p], next), ![p].fc = @ + 1, ![p].dc = next,
                    ![p].pc = IF proc[p].fc + 1 = proc[p].target THEN "add" ELSE "walk"]
  BY Zenon DEF Walk, Collected
<1> HIDE DEF next
<1>2. proc' = [proc EXCEPT ![p] = Walked(proc[p], next)]
  BY <1>1 DEF Walked
<1> QED
  BY <1>1, <1>2 DEF next

LEMMA WalkTyped ==
  ASSUME TypeInv, IsFiniteSet(Procs), NEW p \in Procs, Walk(p)
  PROVE  TypeInv'
<1> DEFINE me == proc[p]
           next == fat[me.dc]
<1>1. /\ me \in Local /\ proc \in [Procs -> Local] /\ CallTyped(p, me, mutex, start)
      /\ me.fc \in Nat /\ me.cid \in Copy /\ fat \in [Cluster -> 0 .. Eof]
  BY Known
<1>2. me.pc = "walk" /\ UNCHANGED <<file, cache, mutex, fault>>
  BY Zenon DEF Walk
<1>3. fat' = fat /\ start' = start /\ iblocks' = iblocks /\ size' = size
      /\ UNCHANGED cache /\ mutex' = mutex /\ fault' = fault
  BY <1>2 DEF file
<1>4. me.dc \in Cluster /\ CopyTyped(me.cid)
  <2>1. me.dc # 0 /\ me.dc \in 0 .. NClusters
    BY <1>1, <1>2, Known DEF CallTyped
  <2> QED
    BY <1>1, <2>1, Sizes DEF CallTyped
<1>5. CASE next = Eof
  <2> DEFINE x == [me EXCEPT !.pc = "add"]
  <2>1. Goto(p, "add")
    BY <1>5, Zenon DEF Walk
  <2>2. /\ proc' = [proc EXCEPT ![p] = x] /\ x \in Local
        /\ x.pc = "add" /\ x.op = me.op /\ x.cid = me.cid /\ x.dc = me.dc /\ x.arg = me.arg
    BY <1>1, <2>1, GotoMoves
  <2> HIDE DEF x
  <2>3. CallTyped(p, x, mutex, start)
    BY <1>1, <1>2, <2>2 DEF CallTyped
  <2> QED
    BY <1>2, <1>3, <2>2, <2>3, Known, QuietFrame
<1>6. CASE next # Eof
  <2> DEFINE x == Walked(me, next)
  <2>1. next # Free /\ proc' = [proc EXCEPT ![p] = x]
    BY <1>1, <1>6, WalkOn
  <2>2. next \in Cluster
    <3>1. next \in 0 .. Eof
      BY <1>1, <1>4
    <3> QED
      BY <1>6, <2>1, <3>1, Sizes
  <2>3. /\ x \in Local /\ x.op = me.op /\ x.arg = me.arg /\ x.dc = next /\ x.pc \in {"add", "walk"}
        /\ CopyTyped(x.cid)
    BY <1>1, <1>4, <2>2, WalkedTyped
  <2> HIDE DEF x
  <2>4. CallTyped(p, x, mutex, start)
    BY <1>1, <2>2, <2>3, Sizes DEF CallTyped
  <2> QED
    BY <1>2, <1>3, <2>1, <2>3, <2>4, Known, QuietFrame
<1> QED
  BY <1>5, <1>6

(* The steps that only move the program counter.                               *)
LEMMA GotoTyped ==
  ASSUME TypeInv, IsFiniteSet(Procs), NEW p \in Procs, NEW c \in {"got", "fail"}, Goto(p, c),
         proc[p].pc # "alloc", UNCHANGED <<file, cache, mutex, fault>>
  PROVE  TypeInv'
<1> DEFINE me == proc[p]
           x == [me EXCEPT !.pc = c]
<1>1. me \in Local /\ proc \in [Procs -> Local] /\ CallTyped(p, me, mutex, start)
  BY Known
<1>2. fat' = fat /\ start' = start /\ iblocks' = iblocks /\ size' = size
      /\ UNCHANGED cache /\ mutex' = mutex /\ fault' = fault
  BY DEF file
<1>3. /\ proc' = [proc EXCEPT ![p] = x] /\ x \in Local
      /\ x.pc = c /\ x.op = me.op /\ x.cid = me.cid /\ x.dc = me.dc /\ x.arg = me.arg
  BY <1>1, GotoMoves
<1> HIDE DEF x
<1>4. CallTyped(p, x, mutex, start)
  BY <1>1, <1>3 DEF CallTyped
<1>5. x.pc # "alloc"
  BY <1>3
<1> QED
  BY <1>2, <1>3, <1>4, <1>5, Known, QuietFrame

LEMMA ReadBeginTyped ==
  ASSUME TypeInv, IsFiniteSet(Procs), NEW p \in Procs, ReadBegin(p)
  PROVE  TypeInv'
<1> DEFINE me == [Idle EXCEPT !.op = "read"]
<1>1. proc[p].pc = "idle" /\ UNCHANGED <<file, cache, mutex, fault>>
  BY DEF ReadBegin
<1>2. PICK t \in 0 .. size - 1 : proc' = [proc EXCEPT ![p] = GetCluster(me, t)]
  BY DEF ReadBegin
<1>3. fat' = fat /\ start' = start /\ iblocks' = iblocks /\ size' = size
      /\ UNCHANGED cache /\ mutex' = mutex /\ fault' = fault
  BY <1>1 DEF file
<1>4. size > 0 /\ start # 0 /\ t \in Nat
  BY Known
<1>5. me \in Local /\ me.op = "read"
  BY IdleTyped DEF Local
<1> DEFINE x == GetCluster(me, t)
<1> HIDE DEF me
<1>6. /\ x \in Local /\ x.op = "read" /\ x.cid = Dummy /\ x.dc = start /\ x.pc \in {"got", "lookup"}
  <2>1. start \in 0 .. NClusters
    BY Known
  <2>2. Begun(x, me, t, start)
    BY Zenon, <1>4, <1>5, <2>1, GetClusterTyped
  <2> QED
    BY <1>4, <1>5, <2>1, <2>2 DEF Begun
<1> HIDE DEF x
<1>7. CallTyped(p, x, mutex, start)
  BY <1>4, <1>6, DummyTyped DEF CallTyped
<1>8. proc' = [proc EXCEPT ![p] = x]
  BY <1>2 DEF x, me
<1> QED
  BY <1>1, <1>3, <1>6, <1>7, <1>8, Known, QuietFrame

LEMMA IdleCall ==
  ASSUME NEW p, NEW m, NEW s
  PROVE  CallTyped(p, Idle, m, s)
BY IdleTyped, DummyTyped DEF CallTyped

LEMMA ReturnTyped ==
  ASSUME TypeInv, IsFiniteSet(Procs), NEW p \in Procs, Return(p)
  PROVE  TypeInv'
<1>1. /\ proc[p].pc = "got" /\ proc[p].op = "read" /\ proc' = [proc EXCEPT ![p] = Idle]
      /\ fat' = fat /\ start' = start /\ iblocks' = iblocks /\ UNCHANGED cache /\ fault' = fault
      /\ IF mutex = p THEN size' = size + 1 /\ mutex' = NoProc ELSE UNCHANGED <<size, mutex>>
  BY DEF Return
<1>2. Idle \in Local /\ Idle.pc # "alloc" /\ proc[p].pc # "alloc"
  BY <1>1, IdleTyped
<1>3. size' \in Nat /\ (size' > 0 => start # 0)
  BY <1>1, Known DEF CallTyped
<1>4. mutex' = p => mutex \in {p, NoProc}
  BY <1>1
<1>5. CallTyped(p, Idle, mutex', start')
  BY IdleCall
<1>6. mutex' = mutex \/ (mutex = p /\ mutex' = NoProc)
  BY <1>1
<1> QED
  BY <1>1, <1>2, <1>3, <1>4, <1>5, <1>6, Known, QuietFrame

LEMMA FatSet ==
  ASSUME fat \in [Cluster -> 0 .. Eof], NEW c, NEW v \in 0 .. Eof
  PROVE  [fat EXCEPT ![c] = v] \in [Cluster -> 0 .. Eof]
OBVIOUS

LEMMA EofValue == Eof \in 0 .. Eof /\ Eof \in Nat /\ Free \in 0 .. Eof /\ Cluster \subseteq 0 .. Eof
BY Sizes

LEMMA AppendBeginTyped ==
  ASSUME TypeInv, IsFiniteSet(Procs), NEW p \in Procs, AppendBegin(p)
  PROVE  TypeInv'
<1>1. /\ proc[p].pc = "idle" /\ mutex = NoProc /\ mutex' = p
      /\ start' = start /\ iblocks' = iblocks /\ size' = size /\ UNCHANGED cache /\ fault' = fault
  BY DEF AppendBegin
<1>2. PICK c \in Cluster :
        LET me == [Idle EXCEPT !.op = "append", !.arg = c] IN
        /\ fat' = [fat EXCEPT ![c] = Eof]
        /\ proc' = [proc EXCEPT ![p] = IF start = 0 THEN [me EXCEPT !.pc = "got"] ELSE GetCluster(me, Eof)]
  BY Zenon DEF AppendBegin
<1> DEFINE me == [Idle EXCEPT !.op = "append", !.arg = c]
           y == [me EXCEPT !.pc = "got"]
           z == GetCluster(me, Eof)
           x == IF start = 0 THEN y ELSE z
<1>3. me \in Local /\ me.op = "append" /\ me.arg = c /\ me.cid = Dummy
  BY IdleTyped, Sizes DEF Local
<1>6. proc' = [proc EXCEPT ![p] = x]
  BY <1>2
<1> HIDE DEF me
<1>4. y \in Local /\ y.op = "append" /\ y.arg = c /\ y.cid = Dummy /\ y.pc = "got"
  BY <1>3 DEF Local
<1>5. /\ z \in Local /\ z.op = "append" /\ z.arg = c /\ z.cid = Dummy /\ z.dc = start
      /\ z.pc \in {"got", "lookup"}
  <2>1. start \in 0 .. NClusters /\ Eof \in Nat
    BY Known, EofValue
  <2>2. Begun(z, me, Eof, start)
    BY Zenon, <1>3, <2>1, GetClusterTyped
  <2> QED
    BY <1>3, <2>1, <2>2 DEF Begun
<1>7. x = y \/ (x = z /\ start # 0)
  OBVIOUS
<1> HIDE DEF y, z, x
<1>8. x \in Local /\ x.pc # "alloc" /\ proc[p].pc # "alloc"
  BY <1>1, <1>4, <1>5, <1>7
<1>9. CallTyped(p, x, p, start)
  BY <1>4, <1>5, <1>7, DummyTyped DEF CallTyped
<1>10. fat' \in [Cluster -> 0 .. Eof]
  BY <1>2, Known, EofValue, FatSet
<1> QED
  BY <1>1, <1>6, <1>8, <1>9, <1>10, Known, QuietFrame

(* An invalidation leaves only the places of the allocations.                  *)
LEMMA InvalidateCounts ==
  ASSUME TypeInv, Invalidate
  PROVE  /\ lru' = <<>> /\ lru' \in Seq(Extent) /\ Len(lru') = 0
         /\ nrCaches' \in Int /\ nrCaches' <= MaxCache /\ validId' \in Ids \ {Valid}
         /\ \A h : nrCaches' + Len(lru) + h = nrCaches + Len(lru') + h
<1>1. /\ lru \in Seq(Extent) /\ nrCaches \in Nat /\ nrCaches <= MaxCache /\ validId \in Ids \ {Valid}
  BY DEF TypeInv, TypeOK, Counted
<1>2. lru' = <<>> /\ nrCaches' = nrCaches - Len(lru) /\ validId' = NextId
  BY DEF Invalidate
<1>3. Len(lru) \in Nat
  BY <1>1, LenProperties
<1> QED
  BY <1>1, <1>2, <1>3, NextIdRight, Sizes

LEMMA LinkTyped ==
  ASSUME TypeInv, IsFiniteSet(Procs), NEW p \in Procs, Link(p)
  PROVE  TypeInv'
<1> DEFINE me == proc[p]
           r == [Idle EXCEPT !.op = "read"]
           g == GetCluster(r, size)
           x == [g EXCEPT !.dc = start']
           newFclus == IF start = 0 THEN 0 ELSE me.fc + 1
<1>1. /\ me.pc = "got" /\ me.op = "append"
      /\ IF start = 0 THEN start' = me.arg /\ UNCHANGED fat
         ELSE fat' = [fat EXCEPT ![me.dc] = me.arg] /\ UNCHANGED start
      /\ (Invalidate /\ IdNotReused) \/ UNCHANGED cache
      /\ iblocks' = iblocks + 1 /\ proc' = [proc EXCEPT ![p] = x] /\ size' = size /\ mutex' = mutex /\ fault' = fault
  BY DEF Link
<1>2. mutex = p /\ me.arg \in Cluster
  BY <1>1, Known DEF CallTyped
<1>3. start' \in Cluster /\ start' \in 0 .. NClusters /\ start' # 0
  <2>1. start \in 0 .. NClusters
    BY Known
  <2> QED
    BY <1>1, <1>2, <2>1, Sizes
<1>4. fat' \in [Cluster -> 0 .. Eof]
  <2>1. me.arg \in 0 .. Eof
    BY <1>2, EofValue
  <2> QED
    BY <1>1, <2>1, Known, FatSet
<1>5. r \in Local /\ r.op = "read" /\ r.arg = 0
  BY IdleTyped DEF Local
<1> HIDE DEF r
<1>6. g \in Local /\ g.op = "read" /\ g.cid = Dummy /\ g.pc \in {"got", "lookup"}
  <2>1. start \in 0 .. NClusters /\ size \in Nat
    BY Known
  <2>2. Begun(g, r, size, start)
    BY Zenon, <1>5, <2>1, GetClusterTyped
  <2> QED
    BY <1>5, <2>1, <2>2 DEF Begun
<1> HIDE DEF g
<1>7. x \in Local /\ x.op = "read" /\ x.cid = Dummy /\ x.pc \in {"got", "lookup"} /\ x.dc = start'
  BY <1>3, <1>6 DEF Local
<1> HIDE DEF x
<1>8. CallTyped(p, x, mutex', start')
  BY <1>3, <1>7, DummyTyped DEF CallTyped
<1>9. Held(x) = Held(me)
  BY <1>1, <1>7 DEF Held
<1>10. /\ lru' \in Seq(Extent) /\ nrCaches' \in Int /\ nrCaches' <= MaxCache /\ validId' \in Ids \ {Valid}
       /\ nrCaches' + Len(lru) + Held(me) = nrCaches + Len(lru') + Held(x)
  <2>1. CASE Invalidate
    BY <1>9, <2>1, InvalidateCounts, Zenon
  <2>2. CASE UNCHANGED cache
    <3>1. lru' = lru /\ nrCaches' = nrCaches /\ validId' = validId
      BY <2>2 DEF cache
    <3>2. lru \in Seq(Extent) /\ nrCaches \in Int /\ nrCaches <= MaxCache /\ validId \in Ids \ {Valid}
      BY Known
    <3> QED
      BY <1>9, <3>1, <3>2, Zenon
  <2> QED
    BY <1>1, <2>1, <2>2
<1>11. /\ iblocks' \in Nat /\ size' \in Nat /\ fault' \in {"none", "bug", "wild"}
  BY <1>1, Known
<1> QED
  BY <1>1, <1>2, <1>3, <1>4, <1>7, <1>8, <1>10, <1>11, TypeFrame

LEMMA CutBeginTyped ==
  ASSUME TypeInv, IsFiniteSet(Procs), NEW p \in Procs, CutBegin(p)
  PROVE  TypeInv'
<1>1. PICK k \in 0 .. size - 1 :
        LET me == [Idle EXCEPT !.op = "cut", !.arg = k] IN
        /\ size' = k
        /\ IF k = 0 THEN /\ start' = 0
                         /\ proc' = [proc EXCEPT ![p] = [me EXCEPT !.pc = "free", !.dc = start]]
           ELSE /\ proc' = [proc EXCEPT ![p] = GetCluster(me, k - 1)]
                /\ UNCHANGED start
  BY Zenon DEF CutBegin
<1>2. /\ proc[p].pc = "idle" /\ mutex = NoProc /\ mutex' = p /\ Invalidate
      /\ fat' = fat /\ iblocks' = iblocks /\ fault' = fault
  BY Zenon DEF CutBegin
<1>3. k \in Nat /\ size > 0 /\ start # 0 /\ start \in 0 .. NClusters
  BY Known
<1> DEFINE me == [Idle EXCEPT !.op = "cut", !.arg = k]
           y == [me EXCEPT !.pc = "free", !.dc = start]
           z == GetCluster(me, k - 1)
           x == IF k = 0 THEN y ELSE z
<1>4. /\ proc' = [proc EXCEPT ![p] = x] /\ size' = k
      /\ (k = 0 /\ start' = 0) \/ (k # 0 /\ start' = start)
  BY <1>1
<1>5. me \in Local /\ me.op = "cut" /\ me.cid = Dummy
  BY <1>3, IdleTyped DEF Local
<1> HIDE DEF me
<1>6. y \in Local /\ y.op = "cut" /\ y.cid = Dummy /\ y.pc = "free"
  BY <1>3, <1>5 DEF Local
<1>7. k # 0 => z \in Local /\ z.op = "cut" /\ z.cid = Dummy /\ z.dc = start /\ z.pc \in {"got", "lookup"}
  <2>1. ASSUME k # 0 PROVE k - 1 \in Nat
    BY <1>3, <2>1
  <2>2. k # 0 => Begun(z, me, k - 1, start)
    BY Zenon, <1>3, <1>5, <2>1, GetClusterTyped
  <2> QED
    BY <1>3, <1>5, <2>1, <2>2 DEF Begun
<1>8. (x = y /\ k = 0) \/ (x = z /\ k # 0)
  OBVIOUS
<1> HIDE DEF y, z, x
<1>9. x \in Local /\ CallTyped(p, x, p, start') /\ Held(x) = 0
  BY <1>3, <1>6, <1>7, <1>8, DummyTyped DEF CallTyped, Held
<1>10. /\ lru' \in Seq(Extent) /\ nrCaches' \in Int /\ nrCaches' <= MaxCache /\ validId' \in Ids \ {Valid}
       /\ nrCaches' + Len(lru) + Held(proc[p]) = nrCaches + Len(lru') + Held(x)
  <2>1. Held(proc[p]) = Held(x)
    BY <1>2, <1>9 DEF Held
  <2> QED
    BY <1>2, <2>1, InvalidateCounts, Zenon
<1>11. /\ fat' \in [Cluster -> 0 .. Eof] /\ start' \in 0 .. NClusters /\ iblocks' \in Nat /\ size' \in Nat
       /\ fault' \in {"none", "bug", "wild"} /\ (size' > 0 => start' # 0)
  <2>1. fat' \in [Cluster -> 0 .. Eof] /\ iblocks' \in Nat /\ fault' \in {"none", "bug", "wild"}
    BY <1>2, Known
  <2>2. start' \in 0 .. NClusters /\ size' \in Nat /\ (size' > 0 => start' # 0)
    BY <1>3, <1>4, Sizes
  <2> QED
    BY <2>1, <2>2
<1> QED
  BY <1>2, <1>4, <1>9, <1>10, <1>11, TypeFrame

LEMMA CutNotWrittenTyped ==
  ASSUME TypeInv, IsFiniteSet(Procs), NEW p \in Procs, CutNotWritten(p)
  PROVE  TypeInv'
<1>1. /\ Invalidate /\ size' \in 0 .. size - 1
      /\ fat' = fat /\ start' = start /\ iblocks' = iblocks /\ mutex' = mutex /\ proc' = proc /\ fault' = fault
  BY Zenon DEF CutNotWritten
<1>2. proc \in [Procs -> Local] /\ proc[p] \in Local
  BY Known
<1>3. proc' = [proc EXCEPT ![p] = proc[p]]
  BY <1>1, <1>2
<1>4. /\ lru' \in Seq(Extent) /\ nrCaches' \in Int /\ nrCaches' <= MaxCache /\ validId' \in Ids \ {Valid}
      /\ nrCaches' + Len(lru) + Held(proc[p]) = nrCaches + Len(lru') + Held(proc[p])
  BY <1>1, InvalidateCounts, Zenon
<1>5. size > 0 /\ size' \in Nat
  BY <1>1, Known
<1>6. /\ fat' \in [Cluster -> 0 .. Eof] /\ start' \in 0 .. NClusters /\ iblocks' \in Nat
      /\ fault' \in {"none", "bug", "wild"} /\ (size' > 0 => start' # 0)
      /\ CallTyped(p, proc[p], mutex', start')
  BY <1>1, <1>5, Known
<1>7. mutex' = p => mutex \in {p, NoProc}
  BY <1>1
<1> QED
  BY <1>1, <1>2, <1>3, <1>4, <1>5, <1>6, <1>7, TypeFrame

LEMMA CutChainTyped ==
  ASSUME TypeInv, IsFiniteSet(Procs), NEW p \in Procs, CutChain(p)
  PROVE  TypeInv'
<1> DEFINE me == proc[p]
<1>1. /\ me.pc = "got" /\ me.op = "cut"
      /\ start' = start /\ iblocks' = iblocks /\ size' = size /\ UNCHANGED cache /\ fault' = fault
  BY DEF CutChain
<1>2. mutex = p
  BY <1>1, Known DEF CallTyped
<1>3. CASE fat[me.dc] \in Cluster
  <2> DEFINE x == [me EXCEPT !.pc = "free", !.dc = fat[me.dc]]
  <2>1. fat' = [fat EXCEPT ![me.dc] = Eof] /\ mutex' = mutex
    BY <1>3, Zenon DEF CutChain
  <2>2. proc' = [proc EXCEPT ![p] = x]
    <3>1. proc' = [proc EXCEPT ![p].pc = "free", ![p].dc = fat[me.dc]]
      BY <1>3, Zenon DEF CutChain
    <3> QED
      BY <3>1
  <2>3. fat[me.dc] \in 0 .. NClusters /\ me \in Local /\ CopyTyped(me.cid)
    BY <1>3, Sizes, Known DEF CallTyped
  <2>4. x \in Local /\ x.pc = "free" /\ x.op = "cut" /\ x.cid = me.cid
    BY <1>1, <2>3 DEF Local
  <2> HIDE DEF x
  <2>5. CallTyped(p, x, mutex, start)
    BY <1>2, <2>3, <2>4 DEF CallTyped
  <2>6. fat' \in [Cluster -> 0 .. Eof]
    BY <2>1, Known, EofValue, FatSet
  <2>7. x.pc # "alloc" /\ me.pc # "alloc"
    BY <1>1, <2>4
  <2> QED
    BY <1>1, <1>2, <2>1, <2>2, <2>4, <2>5, <2>6, <2>7, Known, QuietFrame
<1>4. CASE fat[me.dc] \notin Cluster
  <2>1. proc' = [proc EXCEPT ![p] = Idle] /\ mutex' = NoProc /\ fat' = fat
    BY <1>4, Zenon DEF CutChain
  <2>2. Idle \in Local /\ Idle.pc # "alloc" /\ me.pc # "alloc" /\ CallTyped(p, Idle, mutex', start')
    BY <1>1, IdleTyped, IdleCall
  <2>3. mutex' # p
    BY <2>1, NoProcAssumption
  <2> QED
    BY <1>1, <1>2, <2>1, <2>2, <2>3, Known, QuietFrame
<1> QED
  BY <1>3, <1>4

LEMMA FreeTailTyped ==
  ASSUME TypeInv, IsFiniteSet(Procs), NEW p \in Procs, FreeTail(p)
  PROVE  TypeInv'
<1> DEFINE tail == ChainFrom(proc[p].dc)
<1>1. /\ proc[p].pc = "free" /\ fat' = [c \in Cluster |-> IF c \in tail THEN Free ELSE fat[c]]
      /\ iblocks' = proc[p].arg /\ proc' = [proc EXCEPT ![p] = Idle] /\ mutex' = NoProc
      /\ start' = start /\ size' = size /\ UNCHANGED cache /\ fault' = fault
  BY DEF FreeTail
<1> HIDE DEF tail
<1>2. mutex = p
  BY <1>1, Known DEF CallTyped
<1>3. fat' \in [Cluster -> 0 .. Eof]
  BY <1>1, Known, EofValue
<1>4. Idle \in Local /\ Idle.pc # "alloc" /\ proc[p].pc # "alloc" /\ CallTyped(p, Idle, mutex', start')
  BY <1>1, IdleTyped, IdleCall
<1>5. mutex' # p
  BY <1>1, NoProcAssumption
<1> QED
  BY <1>1, <1>2, <1>3, <1>4, <1>5, Known, QuietFrame

LEMMA FailTyped ==
  ASSUME TypeInv, IsFiniteSet(Procs), NEW p \in Procs, Fail(p)
  PROVE  TypeInv'
<1>1. /\ proc[p].pc = "fail" /\ (fat' = [fat EXCEPT ![proc[p].arg] = Free] \/ fat' = fat)
      /\ proc' = [proc EXCEPT ![p] = Idle]
      /\ start' = start /\ iblocks' = iblocks /\ size' = size /\ UNCHANGED cache /\ fault' = fault
      /\ mutex' = IF mutex = p THEN NoProc ELSE mutex
  BY DEF Fail
<1>2. fat' \in [Cluster -> 0 .. Eof]
  BY <1>1, Known, EofValue, FatSet
<1>3. Idle \in Local /\ Idle.pc # "alloc" /\ proc[p].pc # "alloc" /\ CallTyped(p, Idle, mutex', start')
  BY <1>1, IdleTyped, IdleCall
<1>4. (mutex' = mutex \/ (mutex = p /\ mutex' = NoProc)) /\ mutex' # p
  BY <1>1, NoProcAssumption
<1> QED
  BY <1>1, <1>2, <1>3, <1>4, Known, QuietFrame

-----------------------------------------------------------------------------
(* The steps of fat_cache_add.                                                 *)

LEMMA CopyExtent ==
  ASSUME NEW c \in Copy, CopyTyped(c), c.f # -1
  PROVE  /\ AsExtent(c) \in Extent /\ AsExtent(c).f = c.f /\ AsExtent(c).d = c.d /\ AsExtent(c).n = c.n
         /\ c.n \in Nat /\ c.f \in Nat \ {0} /\ c.d \in Cluster /\ c.d + c.n \in Cluster
<1>1. c.n \in Nat /\ c.f \in Nat \ {0} /\ c.d \in Cluster /\ c.d + c.n \in Cluster
  BY DEF Copy, CopyTyped
<1> QED
  BY <1>1 DEF AsExtent, Extent

(* fat_cache_add got as far as it can: the list has changed, the place is kept *)
(* or given back.                                                              *)
LEMMA Added ==
  ASSUME TypeInv, IsFiniteSet(Procs), NEW p \in Procs, Goto(p, "got"), UNCHANGED <<file, validId, mutex>>,
         fault' \in {"none", "bug", "wild"}, lru' \in Seq(Extent), nrCaches' \in Int, nrCaches' <= MaxCache,
         nrCaches' + Len(lru) + Held(proc[p]) = nrCaches + Len(lru') + 0
  PROVE  TypeInv'
<1> DEFINE me == proc[p]
           x == [me EXCEPT !.pc = "got"]
<1>1. me \in Local /\ proc \in [Procs -> Local] /\ CallTyped(p, me, mutex, start)
  BY Known
<1>2. fat' = fat /\ start' = start /\ iblocks' = iblocks /\ size' = size /\ validId' = validId /\ mutex' = mutex
  BY DEF file
<1>3. /\ proc' = [proc EXCEPT ![p] = x] /\ x \in Local
      /\ x.pc = "got" /\ x.op = me.op /\ x.cid = me.cid /\ x.dc = me.dc /\ x.arg = me.arg
  BY <1>1, GotoMoves
<1> HIDE DEF x
<1>4. CallTyped(p, x, mutex, start)
  BY <1>1, <1>3 DEF CallTyped
<1>5. Held(x) = 0
  BY <1>3 DEF Held
<1>6. nrCaches' + Len(lru) + Held(me) = nrCaches + Len(lru') + Held(x)
  BY <1>5, Zenon
<1>7. /\ fat' \in [Cluster -> 0 .. Eof] /\ start' \in 0 .. NClusters /\ iblocks' \in Nat /\ size' \in Nat
      /\ validId' \in Ids \ {Valid} /\ (size' > 0 => start' # 0)
  BY <1>2, Known
<1>8. mutex' = p => mutex \in {p, NoProc}
  BY <1>2
<1> QED
  BY <1>2, <1>3, <1>4, <1>6, <1>7, <1>8, TypeFrame

LEMMA BugTyped ==
  ASSUME TypeInv, IsFiniteSet(Procs), NEW p \in Procs, BugOn(p), UNCHANGED <<file, mutex>>
  PROVE  TypeInv'
<1>1. /\ fat' = fat /\ start' = start /\ iblocks' = iblocks /\ size' = size /\ mutex' = mutex
      /\ UNCHANGED cache /\ proc' = proc /\ fault' = "bug"
  BY DEF file, BugOn
<1>2. proc \in [Procs -> Local] /\ proc[p] \in Local /\ CallTyped(p, proc[p], mutex, start)
  BY Known
<1>3. proc' = [proc EXCEPT ![p] = proc[p]]
  BY <1>1, <1>2
<1> QED
  BY <1>1, <1>2, <1>3, Known, QuietFrame

LEMMA Merges ==
  ASSUME TypeInv, NEW p \in Procs, proc[p].cid.f # -1, ~Disagree(proc[p].cid), NEW i \in Same(proc[p].cid),
         lru' = Merged(proc[p].cid, i)
  PROVE  lru' \in Seq(Extent) /\ Len(lru') = Len(lru) /\ Len(lru) \in Nat /\ Len(lru) > 0
<1> DEFINE c == proc[p].cid
<1>1. c \in Copy /\ CopyTyped(c) /\ lru \in Seq(Extent)
  BY Known DEF CallTyped
<1>2. AsExtent(c) \in Extent /\ c.n \in Nat
  BY <1>1, CopyExtent
<1>3. lru[i].d = c.d
  BY DEF Disagree
<1>4. i \in DOMAIN lru
  BY DEF Same
<1> HIDE DEF c
<1>5. lru' \in Seq(Extent) /\ Len(lru') = Len(lru)
  BY <1>1, <1>2, <1>3, MergedRight DEF c
<1>6. Len(lru) \in Nat /\ Len(lru) > 0
  BY <1>1, <1>4, LenProperties
<1> QED
  BY <1>5, <1>6

LEMMA AddTyped ==
  ASSUME TypeInv, IsFiniteSet(Procs), NEW p \in Procs, Add(p)
  PROVE  TypeInv'
<1> DEFINE me == proc[p]
           new == me.cid
<1>1. me.pc = "add" /\ UNCHANGED <<file, mutex>>
  BY Zenon DEF Add
<1>2. /\ me \in Local /\ proc \in [Procs -> Local] /\ CallTyped(p, me, mutex, start)
      /\ new \in Copy /\ CopyTyped(new) /\ lru \in Seq(Extent) /\ nrCaches \in Nat /\ nrCaches <= MaxCache
      /\ fault \in {"none", "bug", "wild"}
  BY Known DEF CallTyped
<1>3. Held(me) = 0
  BY <1>1 DEF Held
<1>4. Len(lru) \in Nat
  BY <1>2, LenProperties
<1>5. CASE Goto(p, "got") /\ UNCHANGED <<cache, fault>>
  BY <1>1, <1>5, GotoTyped
<1>6. CASE BugOn(p)
  BY <1>1, <1>6, BugTyped
<1>7. CASE /\ new.f # -1 /\ ~Disagree(new)
           /\ \E i \in Same(new) : lru' = Merged(new, i)
           /\ Goto(p, "got")
           /\ UNCHANGED <<nrCaches, fault, validId>>
  <2>1. lru' \in Seq(Extent) /\ Len(lru') = Len(lru)
    BY <1>7, Merges
  <2>2. nrCaches' + Len(lru) + Held(me) = nrCaches + Len(lru') + 0
    BY <1>3, <1>7, <2>1, Zenon
  <2>3. nrCaches' \in Int /\ nrCaches' <= MaxCache /\ fault' \in {"none", "bug", "wild"} /\ validId' = validId
    BY <1>2, <1>7
  <2> QED
    BY <1>1, <1>7, <2>1, <2>2, <2>3, Added
<1>8. CASE new.f # -1 /\ Room /\ nrCaches' = nrCaches + 1 /\ Goto(p, "alloc") /\ UNCHANGED <<lru, fault, validId>>
  <2> DEFINE x == [me EXCEPT !.pc = "alloc"]
  <2>1. /\ proc' = [proc EXCEPT ![p] = x] /\ x \in Local
        /\ x.pc = "alloc" /\ x.op = me.op /\ x.cid = new /\ x.dc = me.dc /\ x.arg = me.arg
    BY <1>2, <1>8, GotoMoves
  <2> HIDE DEF x
  <2>2. fat' = fat /\ start' = start /\ iblocks' = iblocks /\ size' = size /\ mutex' = mutex
        /\ validId' = validId /\ fault' = fault /\ lru' = lru
    BY <1>1, <1>8 DEF file
  <2>3. CallTyped(p, x, mutex, start)
    BY <1>1, <1>2, <1>8, <2>1 DEF CallTyped
  <2>4. nrCaches' \in Int /\ nrCaches' <= MaxCache
    BY <1>2, <1>8, Sizes DEF Room
  <2>5. nrCaches' + Len(lru) + Held(me) = nrCaches + Len(lru') + Held(x)
    <3>1. Held(x) = 1
      BY <2>1 DEF Held
    <3>2. nrCaches + 1 + Len(lru) + 0 = nrCaches + Len(lru) + 1
      BY <1>2, <1>4
    <3> QED
      BY <1>3, <1>8, <2>2, <3>1, <3>2, Zenon
  <2>6. /\ fat' \in [Cluster -> 0 .. Eof] /\ start' \in 0 .. NClusters /\ iblocks' \in Nat /\ size' \in Nat
        /\ validId' \in Ids \ {Valid} /\ fault' \in {"none", "bug", "wild"} /\ (size' > 0 => start' # 0)
        /\ lru' \in Seq(Extent) /\ (mutex' = p => mutex \in {p, NoProc})
    BY <2>2, Known
  <2> QED
    BY <2>1, <2>2, <2>3, <2>4, <2>5, <2>6, TypeFrame
<1>9. CASE /\ new.f # -1
           /\ IF lru = <<>> THEN fault' = "wild" /\ UNCHANGED lru
              ELSE lru' = <<AsExtent(new)>> \o SubSeq(lru, 1, Len(lru) - 1) /\ UNCHANGED fault
           /\ Goto(p, "got")
           /\ UNCHANGED <<nrCaches, validId>>
  <2>1. lru' \in Seq(Extent) /\ Len(lru') = Len(lru) /\ fault' \in {"none", "bug", "wild"}
    <3>1. CASE lru = <<>>
      BY <1>2, <1>9, <3>1
    <3>2. CASE lru # <<>>
      <4>1. Len(lru) - 1 \in Nat /\ Len(lru) - 1 <= Len(lru) /\ Len(lru) - 1 + 1 = Len(lru)
        BY <1>2, <1>4, <3>2, EmptySeq
      <4>2. AsExtent(new) \in Extent
        BY <1>2, <1>9, CopyExtent
      <4> DEFINE s == <<AsExtent(new)>> \o SubSeq(lru, 1, Len(lru) - 1)
      <4>3. s \in Seq(Extent) /\ Len(s) = Len(lru) - 1 + 1
        BY <1>2, <4>1, <4>2, FrontRight
      <4>4. lru' = s /\ fault' = fault
        BY <1>9, <3>2
      <4> HIDE DEF s
      <4> QED
        BY <1>2, <4>1, <4>3, <4>4
    <3> QED
      BY <3>1, <3>2
  <2>2. nrCaches' + Len(lru) + Held(me) = nrCaches + Len(lru') + 0
    BY <1>3, <1>9, <2>1, Zenon
  <2>3. nrCaches' \in Int /\ nrCaches' <= MaxCache /\ validId' = validId
    BY <1>2, <1>9
  <2> QED
    BY <1>1, <1>9, <2>1, <2>2, <2>3, Added
<1> QED
  BY <1>5, <1>6, <1>7, <1>8, <1>9, Zenon DEF Add

LEMMA AddAllocatedTyped ==
  ASSUME TypeInv, IsFiniteSet(Procs), NEW p \in Procs, AddAllocated(p)
  PROVE  TypeInv'
<1> DEFINE me == proc[p]
           new == me.cid
<1>1. me.pc = "alloc" /\ UNCHANGED <<file, validId, mutex>> /\ UNCHANGED <<file, mutex>>
  BY Zenon DEF AddAllocated
<1>2. /\ me \in Local /\ proc \in [Procs -> Local] /\ CallTyped(p, me, mutex, start)
      /\ new \in Copy /\ CopyTyped(new) /\ lru \in Seq(Extent) /\ nrCaches \in Nat /\ nrCaches <= MaxCache
      /\ fault \in {"none", "bug", "wild"}
  BY Known DEF CallTyped
<1>3. Held(me) = 1 /\ new.f # -1
  BY <1>1, <1>2 DEF Held, CallTyped
<1>4. Len(lru) \in Nat
  BY <1>2, LenProperties
<1>5. CASE BugOn(p)
  BY <1>1, <1>5, BugTyped
<1>6. CASE /\ ~Disagree(new)
           /\ \E i \in Same(new) : lru' = Merged(new, i)
           /\ NotNeeded
           /\ Goto(p, "got")
           /\ UNCHANGED fault
  <2>1. lru' \in Seq(Extent) /\ Len(lru') = Len(lru)
    BY <1>3, <1>6, Merges
  <2>2. nrCaches' = nrCaches - 1
    BY <1>6 DEF NotNeeded
  <2>3. nrCaches - 1 + Len(lru) + 1 = nrCaches + Len(lru) + 0
    BY <1>2, <1>4
  <2>4. nrCaches' + Len(lru) + Held(me) = nrCaches + Len(lru') + 0
    BY <1>3, <2>1, <2>2, <2>3, Zenon
  <2>5. nrCaches' \in Int /\ nrCaches' <= MaxCache /\ fault' \in {"none", "bug", "wild"}
    BY <1>2, <1>6, <2>2, Sizes
  <2> QED
    BY <1>1, <1>6, <2>1, <2>4, <2>5, Added
<1>7. CASE lru' = <<AsExtent(new)>> \o lru /\ Goto(p, "got") /\ UNCHANGED <<nrCaches, fault>>
  <2>1. SubSeq(lru, 1, Len(lru)) = lru
    BY <1>2, WholeList
  <2>2. AsExtent(new) \in Extent
    BY <1>2, <1>3, CopyExtent
  <2> DEFINE s == <<AsExtent(new)>> \o SubSeq(lru, 1, Len(lru))
  <2>3. s \in Seq(Extent) /\ Len(s) = Len(lru) + 1
    BY <1>2, <1>4, <2>2, FrontRight
  <2>4. lru' = s
    BY <1>7, <2>1, Zenon
  <2> HIDE DEF s
  <2>5. nrCaches + Len(lru) + 1 = nrCaches + (Len(lru) + 1) + 0
    BY <1>2, <1>4
  <2>6. nrCaches' = nrCaches /\ fault' = fault
    BY <1>7
  <2>7. nrCaches' + Len(lru) + Held(me) = nrCaches + Len(lru') + 0
    BY <1>3, <2>3, <2>4, <2>5, <2>6, Zenon
  <2>8. lru' \in Seq(Extent)
    BY <2>3, <2>4
  <2>9. nrCaches' \in Int /\ nrCaches' <= MaxCache /\ fault' \in {"none", "bug", "wild"}
    BY <1>2, <2>6
  <2> QED
    BY <1>1, <1>7, <2>7, <2>8, <2>9, Added
<1> QED
  BY <1>5, <1>6, <1>7, Zenon DEF AddAllocated

LEMMA EntryNotReadTyped ==
  ASSUME TypeInv, IsFiniteSet(Procs), NEW p \in Procs, EntryNotRead(p)
  PROVE  TypeInv'
BY GotoTyped DEF EntryNotRead

LEMMA WalkFailsTyped ==
  ASSUME TypeInv, IsFiniteSet(Procs), NEW p \in Procs, WalkFails(p)
  PROVE  TypeInv'
BY GotoTyped DEF WalkFails

LEMMA StepTyped ==
  ASSUME TypeInv, IsFiniteSet(Procs), NEW p \in Procs, Step(p)
  PROVE  TypeInv'
BY LookupTyped, WalkTyped, WalkFailsTyped, AddTyped, AddAllocatedTyped, ReadBeginTyped, ReturnTyped,
   AppendBeginTyped, LinkTyped, CutBeginTyped, CutNotWrittenTyped, CutChainTyped, FreeTailTyped,
   FailTyped, EntryNotReadTyped, Zenon DEF Step

LEMMA TypeStep ==
  ASSUME TypeInv, IsFiniteSet(Procs), [Next]_vars
  PROVE  TypeInv'
<1>1. CASE Next
  BY <1>1, StepTyped, Zenon DEF Next
<1>2. CASE UNCHANGED vars
  <2>1. TypeOK'
    BY <1>2 DEF TypeInv, TypeOK, vars
  <2>2. Counted'
    BY <1>2 DEF TypeInv, Counted, Reserved, vars
  <2>3. fat' = fat /\ start' = start /\ size' = size /\ proc' = proc /\ mutex' = mutex
    BY <1>2 DEF vars
  <2> QED
    BY <2>1, <2>2, <2>3 DEF TypeInv
<1> QED
  BY <1>1, <1>2

(* The file as it is when its inode is filled.                                 *)
FirstFat(f) ==
  [c \in Cluster |->
     IF \E i \in DOMAIN f : f[i] = c
     THEN LET i == CHOOSE j \in DOMAIN f : f[j] = c
          IN  IF i = Len(f) THEN Eof ELSE f[i + 1]
     ELSE Free]

LEMMA FirstFatTyped ==
  ASSUME NEW f \in Files
  PROVE  /\ FirstFat(f) \in [Cluster -> 0 .. Eof]
         /\ Len(f) \in Nat /\ Len(f) <= NClusters /\ DOMAIN f = 1 .. Len(f)
         /\ \A i \in 1 .. Len(f) : f[i] \in Cluster
         /\ \A c \in Cluster : (\A i \in 1 .. Len(f) : f[i] # c) => FirstFat(f)[c] = Free
         /\ \A i \in 1 .. Len(f) : FirstFat(f)[f[i]] = IF i = Len(f) THEN Eof ELSE f[i + 1]
<1>1. /\ f \in Seq(Cluster) /\ Len(f) <= NClusters
      /\ \A i, j \in DOMAIN f : f[i] = f[j] => i = j
  BY SizeAssumption DEF Cluster
<1>2. Len(f) \in Nat /\ DOMAIN f = 1 .. Len(f) /\ \A i \in 1 .. Len(f) : f[i] \in Cluster
  BY <1>1, LenProperties, ElementOfSeq
<1>3. ASSUME NEW i \in 1 .. Len(f) PROVE (CHOOSE j \in DOMAIN f : f[j] = f[i]) = i
  <2>1. i \in DOMAIN f
    BY <1>2
  <2> QED
    BY <1>1, <2>1
<1>4. ASSUME NEW i \in 1 .. Len(f)
      PROVE  FirstFat(f)[f[i]] = IF i = Len(f) THEN Eof ELSE f[i + 1]
  <2>1. \E j \in DOMAIN f : f[j] = f[i]
    BY <1>2
  <2>2. f[i] \in Cluster
    BY <1>2
  <2> QED
    BY <1>3, <2>1, <2>2 DEF FirstFat
<1>5. ASSUME NEW c \in Cluster, \A i \in 1 .. Len(f) : f[i] # c PROVE FirstFat(f)[c] = Free
  <2>1. ~ \E j \in DOMAIN f : f[j] = c
    BY <1>2, <1>5
  <2> QED
    BY <2>1 DEF FirstFat
<1>6. ASSUME NEW c \in Cluster PROVE FirstFat(f)[c] \in 0 .. Eof
  <2>1. CASE \E i \in 1 .. Len(f) : f[i] = c
    <3>1. PICK i \in 1 .. Len(f) : f[i] = c
      BY <2>1
    <3> DEFINE m == Len(f)
    <3>2. m \in Nat /\ i \in 1 .. m /\ FirstFat(f)[c] = IF i = m THEN Eof ELSE f[i + 1]
      <4>1. FirstFat(f)[f[i]] = IF i = m THEN Eof ELSE f[i + 1]
        BY <1>4
      <4> QED
        BY <1>2, <3>1, <4>1, Zenon
    <3> HIDE DEF m
    <3>3. i # m => i + 1 \in 1 .. m
      BY <3>2
    <3>4. i # m => f[i + 1] \in Cluster
      <4>1. \A j \in 1 .. m : f[j] \in Cluster
        BY <1>2, Zenon DEF m
      <4> QED
        BY <3>3, <4>1, Zenon
    <3> QED
      BY <3>2, <3>4, EofValue
  <2>2. CASE \A i \in 1 .. Len(f) : f[i] # c
    BY <1>5, <2>2, EofValue
  <2> QED
    BY <2>1, <2>2
<1>7. FirstFat(f) = [c \in Cluster |-> FirstFat(f)[c]]
  BY DEF FirstFat
<1> QED
  BY <1>1, <1>2, <1>4, <1>5, <1>6, <1>7

LEMMA TypeInit ==
  ASSUME Init
  PROVE  TypeInv
<1>1. PICK f \in Files : fat = FirstFat(f) /\ start = (IF f = <<>> THEN 0 ELSE f[1]) /\ iblocks = Len(f) /\ size = Len(f)
  BY Zenon DEF Init, FirstFat
<1>2. /\ lru = <<>> /\ nrCaches = 0 /\ validId \in Ids \ {Valid} /\ mutex = NoProc
      /\ proc = [p \in Procs |-> Idle] /\ fault = "none"
  BY DEF Init
<1>3. /\ fat \in [Cluster -> 0 .. Eof] /\ Len(f) \in Nat /\ Len(f) <= NClusters
      /\ DOMAIN f = 1 .. Len(f) /\ \A i \in 1 .. Len(f) : f[i] \in Cluster
  BY <1>1, FirstFatTyped
<1>4. start \in 0 .. NClusters /\ (size > 0 => start # 0)
  <2>1. f # <<>> => 1 \in 1 .. Len(f)
    <3>1. f \in Seq(Cluster)
      BY SizeAssumption DEF Cluster
    <3> QED
      BY <1>3, <3>1, EmptySeq
  <2>2. f # <<>> => f[1] \in Cluster
    BY <1>3, <2>1
  <2>3. f = <<>> => Len(f) = 0
    OBVIOUS
  <2> QED
    BY <1>1, <2>2, <2>3, Sizes
<1>5. proc \in [Procs -> Local] /\ \A p \in Procs : proc[p] = Idle
  BY <1>2, IdleTyped
<1>6. lru \in Seq(Extent) /\ Len(lru) = 0
  BY <1>2
<1>7. TypeOK
  BY <1>1, <1>2, <1>3, <1>4, <1>5, <1>6 DEF TypeOK
<1>8. Reserved = {} /\ Cardinality(Reserved) = 0
  BY <1>5, IdleTyped, FS_EmptySet DEF Reserved
<1>9. Counted
  BY <1>2, <1>6, <1>8, Sizes DEF Counted
<1> QED
  BY <1>4, <1>5, <1>7, <1>9, IdleCall DEF TypeInv

(* A process that finds no room does not allocate, so with no more processes   *)
(* than places somebody's extent is in the list.                               *)
LEMMA NotEmpty ==
  ASSUME TypeInv, IsFiniteSet(Procs), Cardinality(Procs) <= MaxCache, NEW p \in Procs,
         proc[p].pc = "add", ~Room
  PROVE  lru # <<>>
<1>1. nrCaches = Len(lru) + Cardinality(Reserved) /\ nrCaches \in Nat
  BY DEF TypeInv, TypeOK, Counted
<1>2. Reserved \subseteq Procs \ {p} /\ IsFiniteSet(Procs \ {p})
  BY FS_RemoveElement DEF Reserved
<1>3. /\ Cardinality(Procs \ {p}) = Cardinality(Procs) - 1 /\ Cardinality(Procs) \in Nat
      /\ Cardinality(Reserved) <= Cardinality(Procs \ {p}) /\ Cardinality(Reserved) \in Nat
  BY <1>2, FS_RemoveElement, FS_Subset, FS_CardinalityType
<1>4. nrCaches >= MaxCache
  BY <1>1, Sizes DEF Room
<1>5. lru = <<>> => Len(lru) = 0
  OBVIOUS
<1> QED
  BY <1>1, <1>3, <1>4, <1>5, Sizes

LEMMA WildStep ==
  ASSUME TypeInv, NeverWild, IsFiniteSet(Procs), Cardinality(Procs) <= MaxCache, [Next]_vars
  PROVE  NeverWild'
<1>1. ASSUME NEW p \in Procs, Step(p) PROVE fault' # "wild"
  <2>1. fault # "wild"
    BY DEF NeverWild
  <2>2. CASE Add(p)
    <3>1. proc[p].pc = "add"
      BY <2>2, Zenon DEF Add
    <3>2. ~Room => lru # <<>>
      BY <3>1, NotEmpty
    <3>3. fault' = fault \/ fault' = "bug"
      BY <2>2, <3>2, Zenon DEF Add, BugOn
    <3> QED
      BY <2>1, <3>3
  <2>3. CASE AddAllocated(p)
    <3>1. fault' = fault \/ fault' = "bug"
      BY <2>3, Zenon DEF AddAllocated, BugOn
    <3> QED
      BY <2>1, <3>1
  <2>4. CASE ~Add(p) /\ ~AddAllocated(p)
    <3>1. fault' = fault
      BY <1>1, <2>4, Zenon DEF Step, Lookup, Walk, WalkFails, ReadBegin, Return, AppendBegin, Link, CutBegin,
         CutNotWritten, CutChain, FreeTail, Fail, EntryNotRead
    <3> QED
      BY <2>1, <3>1
  <2> QED
    BY <2>2, <2>3, <2>4
<1>2. CASE UNCHANGED vars
  BY <1>2 DEF vars, NeverWild
<1>3. CASE Next
  BY <1>1, <1>3, Zenon DEF Next, NeverWild
<1> QED
  BY <1>2, <1>3

(* The types, and the count of the cache's places, which includes the one that *)
(* is taken before the lock is dropped to allocate.                            *)
THEOREM CountsHold ==
  ASSUME IsFiniteSet(Procs)
  PROVE  Spec => [](TypeOK /\ CountExact)
<1>1. Init => TypeInv
  BY TypeInit
<1>2. TypeInv /\ [Next]_vars => TypeInv'
  BY TypeStep
<1>3. TypeInv => TypeOK /\ CountExact
  BY DEF TypeInv, Counted, CountExact
<1> QED
  BY <1>1, <1>2, <1>3, PTL DEF Spec

(* The cache's places, for every number of processes up to the number of       *)
(* places: each is an extent in the list or an allocation under way, and the   *)
(* head of the list is never written as if it were an entry.                   *)
THEOREM PlacesHold ==
  ASSUME IsFiniteSet(Procs), Cardinality(Procs) <= MaxCache
  PROVE  Spec => []Places
<1> DEFINE I == TypeInv /\ NeverWild
<1>1. Init => I
  <2>1. Init => fault = "none"
    BY DEF Init
  <2> QED
    BY <2>1, TypeInit DEF NeverWild
<1>2. I /\ [Next]_vars => I'
  <2>1. TypeInv /\ NeverWild /\ [Next]_vars => TypeInv' /\ NeverWild'
    BY TypeStep, WildStep
  <2> QED
    BY <2>1
<1>3. I => Places
  BY DEF TypeInv, Counted, Places, CountExact
<1> QED
  BY <1>1, <1>2, <1>3, PTL DEF Spec

-----------------------------------------------------------------------------
(* Chains.  A set of numbers that is not empty has a least one, and so a set   *)
(* with 0 and, below m, the successor of each, has all up to m.                *)

LEMMA LeastNumber ==
  ASSUME NEW T, T \subseteq Nat, T # {}
  PROVE  \E x \in T : \A y \in T : x <= y
<1> DEFINE R == OpToRel(<, Nat)
<1>1. IsWellFoundedOn(R, Nat)
  BY NatLessThanWellFounded
<1>2. \A x, y \in Nat : <<y, x>> \in R <=> y < x
  BY DEF OpToRel
<1> HIDE DEF R
<1>3. PICK x \in T : \A y \in T : ~(<<y, x>> \in R)
  BY <1>1, WFMin
<1>4. \A y \in T : ~(y < x)
  BY <1>2, <1>3
<1>5. \A y \in T : x <= y
  BY <1>4
<1> QED
  BY <1>5

LEMMA Induct ==
  ASSUME NEW m \in Nat, NEW S, 0 \in S, \A n \in Nat : n \in S /\ n < m => n + 1 \in S
  PROVE  \A n \in 0 .. m : n \in S
<1> DEFINE T == {n \in 0 .. m : n \notin S}
<1> SUFFICES ASSUME T # {} PROVE FALSE
  OBVIOUS
<1>0. T \subseteq Nat
  OBVIOUS
<1>1. PICK x \in T : \A y \in T : x <= y
  <2> HIDE DEF T
  <2> QED
    BY <1>0, LeastNumber
<1>2. x # 0 /\ x - 1 \in 0 .. m /\ x - 1 \notin T
  BY <1>1
<1>3. x - 1 \in S /\ x - 1 < m /\ (x - 1) + 1 = x
  BY <1>2
<1> QED
  BY <1>1, <1>3

(* The chain from c in a table f.                                              *)
Path(f, c) ==
  LET at[i \in 0 .. NClusters] ==
        IF i = 0 THEN c ELSE IF at[i - 1] \in Cluster THEN f[at[i - 1]] ELSE Eof
  IN  at

LEMMA PlacePath ==
  ASSUME NEW c
  PROVE  Place(c) = Path(fat, c)
BY DEF Place, Path

(* What follows d in it.                                                       *)
After(f, d) == IF d \in Cluster THEN f[d] ELSE Eof

LEMMA PathDef ==
  ASSUME NEW f, NEW c
  PROVE  /\ Path(f, c)[0] = c
         /\ \A n \in 1 .. NClusters : Path(f, c)[n] = After(f, Path(f, c)[n - 1])
<1> DEFINE D(h, n) == IF n = 0 THEN c ELSE IF h[n - 1] \in Cluster THEN f[h[n - 1]] ELSE Eof
           S == {k \in Nat : \E h : h = [n \in 0 .. k |-> D(h, n)]}
<1>0. NClusters \in Nat
  BY Sizes
<1>1. 0 \in S
  <2> DEFINE g == [n \in 0 .. 0 |-> c]
  <2>1. g = [n \in 0 .. 0 |-> D(g, n)]
    OBVIOUS
  <2> QED
    BY <2>1
<1>2. ASSUME NEW k \in Nat, k \in S PROVE k + 1 \in S
  <2>1. PICK h : h = [n \in 0 .. k |-> D(h, n)]
    BY <1>2
  <2> DEFINE g == [n \in 0 .. (k + 1) |-> D(h, n)]
  <2>2. \A n \in 0 .. k : g[n] = h[n]
    BY <2>1
  <2>3. \A n \in 0 .. (k + 1) : n # 0 => n - 1 \in 0 .. k
    OBVIOUS
  <2>4. ASSUME NEW n \in 0 .. (k + 1) PROVE D(g, n) = D(h, n)
    <3>1. n # 0 => g[n - 1] = h[n - 1]
      BY <2>2, <2>3
    <3> HIDE DEF g
    <3> QED
      BY <3>1
  <2>5. g = [n \in 0 .. (k + 1) |-> D(g, n)]
    BY <2>4
  <2>6. \E e : e = [n \in 0 .. (k + 1) |-> D(e, n)]
    <3> HIDE DEF g, D
    <3> QED
      BY <2>5
  <2> QED
    BY <2>6
<1>3. NClusters \in S
  <2> HIDE DEF S
  <2>1. \A n \in 0 .. NClusters : n \in S
    BY <1>0, <1>1, <1>2, Induct
  <2> QED
    BY <1>0, <2>1
<1>4. PICK h : h = [n \in 0 .. NClusters |-> D(h, n)]
  BY <1>3
<1> DEFINE a == CHOOSE at : at = [n \in 0 .. NClusters |-> D(at, n)]
<1>5. a = [n \in 0 .. NClusters |-> D(a, n)]
  BY <1>4
<1>6. a = Path(f, c)
  BY DEF Path
<1>7. \A n \in 0 .. NClusters : a[n] = D(a, n)
  BY <1>5
<1> HIDE DEF a
<1>8. Path(f, c)[0] = c
  BY <1>0, <1>6, <1>7
<1>9. ASSUME NEW n \in 1 .. NClusters PROVE Path(f, c)[n] = After(f, Path(f, c)[n - 1])
  BY <1>0, <1>6, <1>7 DEF After
<1> QED
  BY <1>8, <1>9

(* Two tables that agree on what a chain goes through have the same chain.     *)
LEMMA PathSame ==
  ASSUME NEW f, NEW g, NEW c, NEW k \in 0 .. NClusters,
         \A i \in 0 .. k - 1 : Path(f, c)[i] \in Cluster => g[Path(f, c)[i]] = f[Path(f, c)[i]]
  PROVE  \A i \in 0 .. k : Path(g, c)[i] = Path(f, c)[i]
<1> DEFINE S == {i \in Nat : i <= k => Path(g, c)[i] = Path(f, c)[i]}
<1>0. k \in Nat /\ k <= NClusters /\ NClusters \in Nat
  BY Sizes
<1>1. 0 \in S
  BY PathDef
<1>2. ASSUME NEW n \in Nat, n \in S, n < k PROVE n + 1 \in S
  <2>1. Path(g, c)[n] = Path(f, c)[n]
    BY <1>2
  <2>2. n + 1 \in 1 .. NClusters /\ (n + 1) - 1 = n /\ n \in 0 .. k - 1
    BY <1>0, <1>2
  <2>3. Path(g, c)[n + 1] = After(g, Path(g, c)[n]) /\ Path(f, c)[n + 1] = After(f, Path(f, c)[n])
    BY <2>2, PathDef
  <2>4. After(g, Path(f, c)[n]) = After(f, Path(f, c)[n])
    BY <2>2 DEF After
  <2> QED
    BY <2>1, <2>3, <2>4
<1> HIDE DEF S
<1>3. \A i \in 0 .. k : i \in S
  BY <1>0, <1>1, <1>2, Induct
<1> QED
  BY <1>0, <1>3 DEF S

(* A chain goes on from where another one is.                                  *)
LEMMA PathShift ==
  ASSUME NEW f, NEW c, NEW i \in 0 .. NClusters, NEW d, Path(f, c)[i] = d
  PROVE  \A k \in 0 .. NClusters - i : Path(f, c)[i + k] = Path(f, d)[k]
<1> DEFINE S == {k \in Nat : i + k <= NClusters => Path(f, c)[i + k] = Path(f, d)[k]}
<1>0. i \in Nat /\ NClusters \in Nat /\ i <= NClusters /\ NClusters - i \in Nat
  BY Sizes
<1>1. 0 \in S
  BY <1>0, PathDef
<1>2. ASSUME NEW n \in Nat, n \in S, n < NClusters - i PROVE n + 1 \in S
  <2>1. Path(f, c)[i + n] = Path(f, d)[n]
    BY <1>0, <1>2
  <2>2. /\ i + (n + 1) \in 1 .. NClusters /\ (i + (n + 1)) - 1 = i + n
        /\ n + 1 \in 1 .. NClusters /\ (n + 1) - 1 = n
    BY <1>0, <1>2
  <2>3. Path(f, c)[i + (n + 1)] = After(f, Path(f, c)[i + n]) /\ Path(f, d)[n + 1] = After(f, Path(f, d)[n])
    BY <2>2, PathDef
  <2> QED
    BY <2>1, <2>3
<1> HIDE DEF S
<1>3. \A k \in 0 .. NClusters - i : k \in S
  BY <1>0, <1>1, <1>2, Induct
<1> QED
  BY <1>0, <1>3 DEF S

(* A chain that has left the clusters does not come back.                      *)
LEMMA PathEnd ==
  ASSUME NEW f, NEW c, NEW i \in 0 .. NClusters, Path(f, c)[i] \notin Cluster
  PROVE  \A j \in 0 .. NClusters : j > i => Path(f, c)[j] = Eof
<1> DEFINE d == Path(f, c)[i]
           S == {k \in Nat : k > 0 /\ k <= NClusters => Path(f, d)[k] = Eof}
<1>0. i \in Nat /\ NClusters \in Nat /\ Eof \notin Cluster
  BY Sizes
<1>1. 0 \in S
  OBVIOUS
<1>2. ASSUME NEW n \in Nat, n \in S, n < NClusters PROVE n + 1 \in S
  <2>1. n + 1 \in 1 .. NClusters /\ (n + 1) - 1 = n
    BY <1>0, <1>2
  <2>2. Path(f, d)[n] \notin Cluster
    <3>1. CASE n = 0
      BY <3>1, PathDef
    <3>2. CASE n # 0
      BY <1>0, <1>2, <3>2
    <3> QED
      BY <3>1, <3>2
  <2>3. Path(f, d)[n + 1] = After(f, Path(f, d)[n])
    <3> HIDE DEF d
    <3> QED
      BY <2>1, PathDef
  <2>4. Path(f, d)[n + 1] = Eof
    BY <2>2, <2>3 DEF After
  <2> QED
    BY <2>4
<1> HIDE DEF S
<1>3. \A k \in 0 .. NClusters : k \in S
  BY <1>0, <1>1, <1>2, Induct
<1> SUFFICES ASSUME NEW j \in 0 .. NClusters, j > i PROVE Path(f, c)[j] = Eof
  OBVIOUS
<1>4. j - i \in 0 .. NClusters - i /\ i + (j - i) = j /\ j - i \in Nat /\ j - i > 0 /\ j - i <= NClusters
      /\ j - i \in 0 .. NClusters
  BY <1>0
<1>5. Path(f, c)[i + (j - i)] = Path(f, d)[j - i]
  <2> HIDE DEF d
  <2>1. Path(f, c)[i] = d
    BY DEF d
  <2> QED
    BY <1>4, <2>1, PathShift
<1>6. j - i \in S
  BY <1>3, <1>4
<1> QED
  BY <1>4, <1>5, <1>6 DEF S

LEMMA PathBefore ==
  ASSUME NEW f, NEW c, NEW i \in 0 .. NClusters, NEW j \in 0 .. NClusters, i <= j, Path(f, c)[j] \in Cluster
  PROVE  Path(f, c)[i] \in Cluster
<1>1. Eof \notin Cluster /\ i \in Int /\ j \in Int
  BY Sizes
<1>2. CASE i = j
  BY <1>2
<1>3. CASE i # j /\ Path(f, c)[i] \notin Cluster
  <2>1. j > i
    BY <1>1, <1>3
  <2> QED
    BY <1>1, <1>3, <2>1, PathEnd
<1> QED
  BY <1>2, <1>3

NoRepeat(f, c) ==
  \A i, j \in 0 .. NClusters : Path(f, c)[i] \in Cluster /\ Path(f, c)[i] = Path(f, c)[j] => i = j

(* There are not clusters enough for a chain that never ends.                  *)
LEMMA PathShort ==
  ASSUME NEW f, NEW c, NoRepeat(f, c)
  PROVE  Path(f, c)[NClusters] \notin Cluster
<1> SUFFICES ASSUME Path(f, c)[NClusters] \in Cluster PROVE FALSE
  OBVIOUS
<1>0. NClusters \in Nat /\ Cluster = 1 .. NClusters
  BY Sizes
<1> DEFINE h == [i \in 0 .. NClusters |-> Path(f, c)[i]]
<1>1. h \in [0 .. NClusters -> Cluster]
  <2>1. \A i \in 0 .. NClusters : i <= NClusters
    BY <1>0
  <2>2. NClusters \in 0 .. NClusters
    BY <1>0
  <2> QED
    BY <2>1, <2>2, PathBefore
<1>2. \A i, j \in 0 .. NClusters : h[i] = h[j] => i = j
  BY <1>1 DEF NoRepeat
<1>3. IsFiniteSet(0 .. NClusters) /\ Cardinality(0 .. NClusters) = NClusters + 1
  <2>1. 0 \in Int /\ NClusters \in Int /\ ~(0 > NClusters) /\ NClusters - 0 + 1 = NClusters + 1
    BY <1>0
  <2> QED
    BY <2>1, FS_Interval
<1>4. IsFiniteSet(Cluster) /\ Cardinality(Cluster) = NClusters
  <2>1. 1 \in Int /\ NClusters \in Int /\ ~(1 > NClusters) /\ NClusters - 1 + 1 = NClusters
    BY Sizes
  <2> QED
    BY <1>0, <2>1, FS_Interval
<1> HIDE DEF h
<1>5. Cardinality(Cluster) < Cardinality(0 .. NClusters)
  BY <1>0, <1>3, <1>4
<1>6. \E i, j \in 0 .. NClusters : i # j /\ h[i] = h[j]
  <2> DEFINE S == 0 .. NClusters
             T == Cluster
  <2>1. h \in [S -> T] /\ IsFiniteSet(S) /\ IsFiniteSet(T) /\ Cardinality(T) < Cardinality(S)
    BY <1>1, <1>3, <1>4, <1>5, Zenon
  <2> HIDE DEF S, T
  <2>2. \E i, j \in S : i # j /\ h[i] = h[j]
    BY <2>1, FS_PigeonHole, Zenon
  <2> QED
    BY <2>2 DEF S
<1> QED
  BY <1>2, <1>6

Used(f, c) == {Path(f, c)[i] : i \in 0 .. NClusters} \cap Cluster

LEMMA UsedPlace ==
  ASSUME NEW f, NEW c
  PROVE  /\ \A i \in 0 .. NClusters : Path(f, c)[i] \in Cluster => Path(f, c)[i] \in Used(f, c)
         /\ \A x \in Used(f, c) : x \in Cluster /\ \E i \in 0 .. NClusters : x = Path(f, c)[i]
BY DEF Used

(* A change outside a chain.                                                   *)
LEMMA Untouched ==
  ASSUME NEW f, NEW g, NEW c, \A x \in Used(f, c) : g[x] = f[x]
  PROVE  /\ \A i \in 0 .. NClusters : Path(g, c)[i] = Path(f, c)[i]
         /\ Used(g, c) = Used(f, c)
<1>0. NClusters \in 0 .. NClusters /\ NClusters \in Nat
  BY Sizes
<1>1. \A i \in 0 .. NClusters : Path(g, c)[i] = Path(f, c)[i]
  <2>1. \A i \in 0 .. NClusters - 1 : Path(f, c)[i] \in Cluster => g[Path(f, c)[i]] = f[Path(f, c)[i]]
    <3>1. \A i \in 0 .. NClusters - 1 : i \in 0 .. NClusters
      BY <1>0
    <3> QED
      BY <3>1, UsedPlace
  <2> QED
    BY <1>0, <2>1, PathSame
<1> QED
  BY <1>1 DEF Used

(* A cluster is appended.                                                      *)
LEMMA Lengthened ==
  ASSUME NEW f, NEW c, NoRepeat(f, c), NEW i \in 0 .. NClusters,
         NEW d \in Cluster, Path(f, c)[i] = d, f[d] = Eof,
         NEW a \in Cluster, a \notin Used(f, c), f[a] = Eof,
         NEW g, g[d] = a, \A x \in Cluster \ {d} : g[x] = f[x]
  PROVE  /\ i + 1 \in 0 .. NClusters /\ i + 1 > i
         /\ \A j \in 0 .. NClusters : j <= i => Path(g, c)[j] = Path(f, c)[j]
         /\ Path(g, c)[i + 1] = a
         /\ \A j \in 0 .. NClusters : j > i + 1 => Path(g, c)[j] = Eof
         /\ \A j \in 0 .. NClusters : j > i => Path(f, c)[j] = Eof
<1>0. NClusters \in Nat /\ i \in Nat /\ i <= NClusters /\ Eof \notin Cluster
  BY Sizes
<1>1. i # NClusters
  BY PathShort
<1>2. i + 1 \in 1 .. NClusters /\ i + 1 \in 0 .. NClusters /\ (i + 1) - 1 = i /\ i + 1 > i
  BY <1>0, <1>1
<1>3. \A j \in 0 .. i - 1 : Path(f, c)[j] \in Cluster => g[Path(f, c)[j]] = f[Path(f, c)[j]]
  <2> SUFFICES ASSUME NEW j \in 0 .. i - 1, Path(f, c)[j] \in Cluster PROVE g[Path(f, c)[j]] = f[Path(f, c)[j]]
    OBVIOUS
  <2>1. j # i /\ j \in 0 .. NClusters
    BY <1>0
  <2>2. Path(f, c)[j] # d
    BY <2>1 DEF NoRepeat
  <2> QED
    BY <2>2
<1>4. \A j \in 0 .. i : Path(g, c)[j] = Path(f, c)[j]
  BY <1>3, PathSame
<1>5. Path(g, c)[i] = d
  <2>1. i \in 0 .. i
    BY <1>0
  <2> QED
    BY <1>4, <2>1
<1>6. Path(g, c)[i + 1] = a
  <2>1. Path(g, c)[i + 1] = After(g, d)
    BY <1>2, <1>5, PathDef
  <2> QED
    BY <2>1 DEF After
<1>7. d # a
  BY UsedPlace
<1>8. ASSUME NEW j \in 0 .. NClusters, j > i + 1 PROVE Path(g, c)[j] = Eof
  <2>1. (i + 1) + 1 \in 1 .. NClusters /\ ((i + 1) + 1) - 1 = i + 1 /\ (i + 1) + 1 \in 0 .. NClusters
    BY <1>0, <1>8
  <2>2. Path(g, c)[(i + 1) + 1] = After(g, a)
    BY <1>6, <2>1, PathDef
  <2>3. After(g, a) = Eof
    BY <1>7 DEF After
  <2>4. CASE j = (i + 1) + 1
    BY <2>2, <2>3, <2>4
  <2>5. CASE j > (i + 1) + 1
    BY <1>0, <2>1, <2>2, <2>3, <2>5, PathEnd
  <2> QED
    BY <1>0, <1>8, <2>4, <2>5
<1>9. ASSUME NEW j \in 0 .. NClusters, j > i PROVE Path(f, c)[j] = Eof
  <2>1. Path(f, c)[i + 1] = Eof
    <3>1. Path(f, c)[i + 1] = After(f, d)
      BY <1>2, PathDef
    <3> QED
      BY <3>1 DEF After
  <2>2. CASE j = i + 1
    BY <2>1, <2>2
  <2>3. CASE j > i + 1
    BY <1>0, <1>2, <2>1, <2>3, PathEnd
  <2> QED
    BY <1>0, <1>9, <2>2, <2>3
<1>10. \A j \in 0 .. NClusters : j <= i => j \in 0 .. i
  BY <1>0
<1> QED
  BY <1>2, <1>4, <1>6, <1>8, <1>9, <1>10

(* The end mark is written into a chain.                                       *)
LEMMA Shortened ==
  ASSUME NEW f, NEW c, NoRepeat(f, c), NEW i \in 0 .. NClusters,
         NEW d \in Cluster, Path(f, c)[i] = d, NEW e \in Cluster, f[d] = e,
         NEW g, g[d] = Eof, \A x \in Cluster \ {d} : g[x] = f[x]
  PROVE  /\ \A j \in 0 .. NClusters : j <= i => Path(g, c)[j] = Path(f, c)[j]
         /\ \A j \in 0 .. NClusters : j > i => Path(g, c)[j] = Eof
         /\ Used(g, e) \cap Used(g, c) = {}
<1>0. NClusters \in Nat /\ i \in Nat /\ i <= NClusters /\ Eof \notin Cluster
  BY Sizes
<1>1. i # NClusters
  BY PathShort
<1>2. i + 1 \in 1 .. NClusters /\ i + 1 \in 0 .. NClusters /\ (i + 1) - 1 = i /\ i + 1 > i
  BY <1>0, <1>1
<1>3. \A j \in 0 .. i - 1 : Path(f, c)[j] \in Cluster => g[Path(f, c)[j]] = f[Path(f, c)[j]]
  <2> SUFFICES ASSUME NEW j \in 0 .. i - 1, Path(f, c)[j] \in Cluster PROVE g[Path(f, c)[j]] = f[Path(f, c)[j]]
    OBVIOUS
  <2>1. j # i /\ j \in 0 .. NClusters
    BY <1>0
  <2>2. Path(f, c)[j] # d
    BY <2>1 DEF NoRepeat
  <2> QED
    BY <2>2
<1>4. \A j \in 0 .. NClusters : j <= i => Path(g, c)[j] = Path(f, c)[j]
  <2>1. \A j \in 0 .. i : Path(g, c)[j] = Path(f, c)[j]
    BY <1>3, PathSame
  <2>2. \A j \in 0 .. NClusters : j <= i => j \in 0 .. i
    BY <1>0
  <2> QED
    BY <2>1, <2>2
<1>5. Path(g, c)[i + 1] = Eof
  <2>1. Path(g, c)[i] = d
    <3>1. i <= i
      BY <1>0
    <3> QED
      BY <1>4, <3>1, Zenon
  <2>2. Path(g, c)[i + 1] = After(g, d)
    BY <1>2, <2>1, PathDef
  <2> QED
    BY <2>2 DEF After
<1>6. ASSUME NEW j \in 0 .. NClusters, j > i PROVE Path(g, c)[j] = Eof
  <2>1. CASE j = i + 1
    BY <1>5, <2>1
  <2>2. CASE j > i + 1
    BY <1>0, <1>2, <1>5, <2>2, PathEnd
  <2> QED
    BY <1>0, <1>6, <2>1, <2>2
<1>7. Path(f, c)[i + 1] = e
  <2>1. Path(f, c)[i + 1] = After(f, d)
    BY <1>2, PathDef
  <2> QED
    BY <2>1 DEF After
<1>8. \A k \in 0 .. NClusters - (i + 1) : Path(f, c)[(i + 1) + k] = Path(f, e)[k]
  BY <1>2, <1>7, PathShift
<1>9. ASSUME NEW k \in 0 .. NClusters, Path(f, e)[k] \in Cluster
      PROVE  /\ k \in 0 .. NClusters - (i + 1) /\ (i + 1) + k \in 0 .. NClusters /\ (i + 1) + k > i
             /\ Path(f, e)[k] = Path(f, c)[(i + 1) + k]
  <2> DEFINE l == NClusters - (i + 1)
  <2>1. l \in Nat /\ (i + 1) + l = NClusters /\ l \in 0 .. l /\ l \in 0 .. NClusters
    BY <1>0, <1>1
  <2>2. Path(f, e)[l] \notin Cluster
    <3>1. Path(f, c)[(i + 1) + l] = Path(f, e)[l]
      BY <1>8, <2>1
    <3> HIDE DEF l
    <3> QED
      BY <2>1, <3>1, PathShort
  <2>3. k <= l
    <3> HIDE DEF l
    <3> SUFFICES ASSUME k > l PROVE FALSE
      BY <2>1
    <3>1. l <= k
      BY <2>1
    <3> QED
      BY <1>9, <2>1, <2>2, <3>1, PathBefore
  <2>4. k \in 0 .. l
    BY <2>1, <2>3
  <2>5. (i + 1) + k \in 0 .. NClusters /\ (i + 1) + k > i
    BY <1>0, <2>4
  <2> QED
    BY <1>8, <2>4, <2>5
<1>10. \A x \in Used(f, e) : g[x] = f[x]
  <2> SUFFICES ASSUME NEW x \in Used(f, e) PROVE g[x] = f[x]
    OBVIOUS
  <2>1. PICK k \in 0 .. NClusters : x \in Cluster /\ x = Path(f, e)[k]
    BY UsedPlace
  <2>2. (i + 1) + k \in 0 .. NClusters /\ (i + 1) + k > i /\ x = Path(f, c)[(i + 1) + k]
    BY <1>9, <2>1
  <2>3. (i + 1) + k # i
    BY <1>0, <2>2
  <2>4. x # d
    BY <2>1, <2>2, <2>3 DEF NoRepeat
  <2> QED
    BY <2>1, <2>4
<1>11. Used(g, e) = Used(f, e)
  BY <1>10, Untouched
<1>12. ASSUME NEW x \in Used(g, e), x \in Used(g, c) PROVE FALSE
  <2>1. PICK k \in 0 .. NClusters : x \in Cluster /\ x = Path(f, e)[k]
    BY <1>11, UsedPlace
  <2>2. (i + 1) + k \in 0 .. NClusters /\ (i + 1) + k > i /\ x = Path(f, c)[(i + 1) + k]
    BY <1>9, <2>1
  <2>3. PICK j \in 0 .. NClusters : x = Path(g, c)[j]
    BY <1>12, UsedPlace
  <2>4. j <= i
    <3>1. ~(j > i)
      BY <1>0, <1>6, <2>1, <2>3, Zenon
    <3> QED
      BY <1>0, <3>1
  <2>5. x = Path(f, c)[j]
    BY <1>4, <2>3, <2>4
  <2>6. j = (i + 1) + k
    BY <2>1, <2>2, <2>5 DEF NoRepeat
  <2> QED
    BY <1>0, <2>2, <2>4, <2>6
<1> QED
  BY <1>4, <1>6, <1>12

-----------------------------------------------------------------------------
(* What the copies and the calls know of the file.  f is the table, c its      *)
(* first cluster, s its size, m who holds the mutex, a the processes.          *)

Fits(f, c, e) == \A k \in 0 .. e.n : e.f + k <= NClusters /\ Path(f, c)[e.f + k] = e.d + k

(* The file: its clusters are not free and none comes twice, and there is one  *)
(* for each index below the size.                                              *)
FileRight(f, c, s) ==
  /\ \A i \in 0 .. NClusters : Path(f, c)[i] \in Cluster => f[Path(f, c)[i]] # Free
  /\ NoRepeat(f, c)
  /\ \A t \in 0 .. s - 1 : t <= NClusters /\ Path(f, c)[t] \in Cluster

(* Where a call has come to.                                                   *)
OnChain(f, c, me) == me.fc <= NClusters /\ me.dc = Path(f, c)[me.fc] /\ me.dc \in Cluster

CallRight(f, c, me) ==
  /\ me.pc = "idle" <=> me.op = "none"
  /\ me.pc = "idle" => me = Idle
  /\ me.pc = "free" => me.op = "cut"
  /\ me.pc = "lookup" => me.target > 0 /\ me.fc = 0 /\ me.dc = c /\ me.cid = Dummy
  /\ me.pc = "walk" => me.fc < me.target
  /\ me.pc \in {"walk", "add", "alloc"} => OnChain(f, c, me)
  /\ me.op \in {"read", "cut"} /\ me.pc \in {"add", "alloc", "got"} => me.fc = me.target /\ OnChain(f, c, me)
  /\ me.op \in {"read", "cut"} /\ me.pc # "free" => me.target <= NClusters /\ Path(f, c)[me.target] \in Cluster

(* An append has a cluster of its own, and ends at the last of the file.       *)
AppendRight(f, c, me) ==
  me.op = "append" =>
    /\ f[me.arg] = Eof /\ me.arg \notin Used(f, c)
    /\ c = 0 => me.pc = "got"
    /\ c # 0 => me.target = Eof
    /\ c # 0 /\ me.pc \in {"add", "alloc", "got"} => OnChain(f, c, me) /\ f[me.dc] = Eof

(* A cut has set the size; what it frees is no longer the file's.              *)
CutRight(f, c, s, me) ==
  me.op = "cut" =>
    /\ s = me.arg
    /\ me.pc # "free" => me.target = me.arg - 1
    /\ me.pc = "free" => Used(f, me.dc) \cap Used(f, c) = {}

(* Below where the chain is going to end.                                      *)
Below(a, k) == \A p \in Procs : a[p].op = "cut" => k < a[p].arg

CallsRight(f, c, s, m, a) ==
  /\ m = NoProc \/ a[m].op # "none"
  /\ \A p \in Procs :
       /\ CallRight(f, c, a[p]) /\ AppendRight(f, c, a[p]) /\ CutRight(f, c, s, a[p])
       /\ a[p].op = "read" => Below(a, a[p].target)
       /\ a[p].op = "read" /\ m = p => a[p].target = s

(* The copies.  One that goes no further than where its call is going stays    *)
(* so whatever is cut; one that goes further was taken from the list, and is   *)
(* so while its id v is the valid one.  Its first cluster stays so in any case. *)
Reaches(me) == me.cid.f + me.cid.n > me.target

CopyBegins(f, c, me) ==
  me.cid.f <= me.target /\ me.cid.f <= NClusters /\ Path(f, c)[me.cid.f] = me.cid.d

(* No more than two processes.                                                 *)
Few == IsFiniteSet(Procs) /\ Cardinality(Procs) <= 2

CopyFits(f, c, v, a, me) ==
  me.pc \in {"walk", "add", "alloc"} /\ me.cid.f # -1 =>
    /\ me.pc = "walk" => me.cid.f + me.cid.n = me.fc
    /\ me.cid.id = Valid => ~Reaches(me)
    /\ me.pc = "alloc" => (Few => ~Reaches(me))
    /\ ~Reaches(me) \/ me.cid.id = v => Fits(f, c, me.cid)
    /\ me.cid.id = v => Below(a, me.cid.f + me.cid.n)
    /\ CopyBegins(f, c, me)

(* Such a one is, with two processes, still in the list l when it comes to be  *)
(* added, or no place is free and nobody has one reserved; n counts the places. *)
CopyIn(l, n, v, a, me) ==
  Few /\ me.pc = "add" /\ me.cid.f # -1 /\ me.cid.id = v /\ Reaches(me) =>
    \/ \E i \in DOMAIN l : l[i].f = me.cid.f
    \/ n >= MaxCache /\ \A q \in Procs : a[q].pc # "alloc"

ListRight(f, c, l, a) ==
  /\ \A i \in DOMAIN l : Fits(f, c, l[i]) /\ Below(a, l[i].f + l[i].n)
  /\ \A i, j \in DOMAIN l : l[i].f = l[j].f => i = j

CacheInv ==
  /\ TypeInv /\ FileRight(fat, start, size) /\ CallsRight(fat, start, size, mutex, proc)
  /\ \A p \in Procs : CopyFits(fat, start, validId, proc, proc[p])
  /\ \A p \in Procs : CopyIn(lru, nrCaches, validId, proc, proc[p])
  /\ ListRight(fat, start, lru, proc)
  /\ fault # "bug"

-----------------------------------------------------------------------------
(* What the others keep of their knowledge.                                    *)

LEMMA Holds ==
  ASSUME CacheInv
  PROVE  /\ TypeInv /\ FileRight(fat, start, size) /\ CallsRight(fat, start, size, mutex, proc)
         /\ ListRight(fat, start, lru, proc) /\ fault # "bug"
BY DEF CacheInv

LEMMA Mine ==
  ASSUME CacheInv, NEW q \in Procs
  PROVE  /\ proc[q] \in Local /\ CallTyped(q, proc[q], mutex, start)
         /\ CallRight(fat, start, proc[q]) /\ AppendRight(fat, start, proc[q])
         /\ CutRight(fat, start, size, proc[q])
         /\ proc[q].op = "read" => Below(proc, proc[q].target)
         /\ proc[q].op = "read" /\ mutex = q => proc[q].target = size
         /\ CopyFits(fat, start, validId, proc, proc[q]) /\ CopyIn(lru, nrCaches, validId, proc, proc[q])
<1>1. TypeInv /\ CallsRight(fat, start, size, mutex, proc)
  BY Holds
<1>2. proc[q] \in Local /\ CallTyped(q, proc[q], mutex, start)
  BY <1>1, Known
<1>3. CopyFits(fat, start, validId, proc, proc[q]) /\ CopyIn(lru, nrCaches, validId, proc, proc[q])
  BY DEF CacheInv
<1> QED
  BY <1>1, <1>2, <1>3 DEF CallsRight

(* Who does not hold the mutex does nothing or reads.                          *)
LEMMA Reader ==
  ASSUME CacheInv, NEW q \in Procs, mutex # q
  PROVE  /\ proc[q].op \in {"none", "read"} /\ (proc[q].pc = "idle" <=> proc[q].op = "none")
         /\ proc[q].pc # "idle" => proc[q].op = "read"
<1>1. proc[q] \in Local /\ CallTyped(q, proc[q], mutex, start) /\ CallRight(fat, start, proc[q])
  BY Mine
<1>2. proc[q].op \in {"none", "read", "append", "cut"}
  BY <1>1 DEF Local
<1>3. proc[q].op \notin {"append", "cut"}
  BY <1>1 DEF CallTyped
<1> QED
  BY <1>1, <1>2, <1>3 DEF CallRight

(* A process's copy, as numbers.                                               *)
LEMMA CopyNumbers ==
  ASSUME CacheInv, NEW q \in Procs
  PROVE  /\ proc[q].fc \in Nat /\ proc[q].target \in Nat /\ proc[q].arg \in Nat /\ proc[q].dc \in 0 .. NClusters
         /\ proc[q].cid \in Copy /\ CopyTyped(proc[q].cid)
         /\ proc[q].cid.f # -1 => /\ proc[q].cid.f \in Nat \ {0} /\ proc[q].cid.n \in Nat
                                  /\ proc[q].cid.d \in Cluster /\ proc[q].cid.d + proc[q].cid.n \in Cluster
<1>1. /\ proc[q].fc \in Nat /\ proc[q].target \in Nat /\ proc[q].arg \in Nat /\ proc[q].dc \in 0 .. NClusters
      /\ proc[q].cid \in Copy
  BY Holds, Known
<1>2. CopyTyped(proc[q].cid)
  BY Mine DEF CallTyped
<1> QED
  BY <1>1, <1>2, CopyExtent

(* Up to the index K the chain of g from d is as that of f from c.             *)
Agree(f, c, g, d, K) ==
  \A i \in 0 .. NClusters : i < K /\ Path(f, c)[i] \in Cluster => Path(g, d)[i] = Path(f, c)[i]

(* e is an extent, wherever it is kept.                                        *)
Extended(e) == e.f \in Nat /\ e.d \in Cluster /\ e.n \in Nat /\ e.d + e.n \in Cluster

LEMMA Within ==
  ASSUME NEW e, Extended(e), NEW k \in 0 .. e.n
  PROVE  e.d + k \in Cluster /\ e.f + k \in Nat /\ e.f + k <= e.f + e.n
<1> DEFINE d == e.d  n == e.n  b == e.f
<1>1. d \in Int /\ 1 <= d /\ n \in Int /\ d + n \in Int /\ d + n <= NClusters /\ NClusters \in Int /\ b \in Nat
  BY Sizes DEF Extended
<1> HIDE DEF d, n, b
<1>2. k \in 0 .. n
  BY DEF n
<1>3. d + k \in Int /\ 1 <= d + k /\ d + k <= NClusters /\ b + k \in Nat /\ b + k <= b + n
  BY <1>1, <1>2
<1>4. d + k \in Cluster
  BY <1>1, <1>3 DEF Cluster
<1> QED
  BY <1>3, <1>4 DEF d, n, b

LEMMA FitsKept ==
  ASSUME NEW f, NEW c, NEW g, NEW d, NEW K \in Int, Agree(f, c, g, d, K),
         NEW e, Extended(e), e.f + e.n < K, Fits(f, c, e)
  PROVE  Fits(g, d, e)
<1> SUFFICES ASSUME NEW k \in 0 .. e.n PROVE e.f + k <= NClusters /\ Path(g, d)[e.f + k] = e.d + k
  BY DEF Fits
<1>1. e.f + k <= NClusters /\ Path(f, c)[e.f + k] = e.d + k
  BY DEF Fits
<1>2. e.d + k \in Cluster /\ e.f + k \in Nat /\ e.f + k <= e.f + e.n
  BY Within
<1>3. e.f + k < K /\ e.f + k \in 0 .. NClusters
  <2>1. e.f + e.n \in Nat /\ NClusters \in Nat
    BY Sizes DEF Extended
  <2> QED
    BY <1>1, <1>2, <2>1
<1> QED
  BY <1>1, <1>2, <1>3 DEF Agree

LEMMA FitsBegins ==
  ASSUME NEW f, NEW c, NEW e, e.f \in Nat, e.d \in Int, e.n \in Nat, Fits(f, c, e)
  PROVE  e.f <= NClusters /\ Path(f, c)[e.f] = e.d
<1>1. 0 \in 0 .. e.n /\ e.f + 0 = e.f /\ e.d + 0 = e.d
  OBVIOUS
<1>2. e.f + 0 <= NClusters /\ Path(f, c)[e.f + 0] = e.d + 0
  BY <1>1 DEF Fits
<1> QED
  BY <1>1, <1>2

LEMMA CallKept ==
  ASSUME NEW f, NEW c, NEW g, NEW d, NEW K \in Int, Agree(f, c, g, d, K),
         NEW me \in Local, me.op \in {"none", "read"}, me.op = "read" => me.target < K,
         me.pc = "lookup" => me.dc # 0, CallRight(f, c, me)
  PROVE  CallRight(g, d, me) /\ AppendRight(g, d, me) /\ \A s : CutRight(g, d, s, me)
<1>1. AppendRight(g, d, me) /\ \A s : CutRight(g, d, s, me)
  BY DEF AppendRight, CutRight
<1>2. CASE me.op = "none"
  <2>1. me.pc = "idle" /\ me = Idle
    BY <1>2 DEF CallRight
  <2>2. CallRight(g, d, me)
    BY <1>2, <2>1 DEF CallRight
  <2> QED
    BY <1>1, <2>2
<1>3. CASE me.op = "read"
  <2>1. /\ me.pc # "idle" /\ me.pc # "free" /\ me.fc \in Nat /\ me.target \in Nat /\ me.dc \in 0 .. NClusters
        /\ me.target <= NClusters /\ Path(f, c)[me.target] \in Cluster /\ me.target < K
    BY <1>3 DEF CallRight, Local
  <2>2. Path(g, d)[me.target] \in Cluster
    BY <2>1, Sizes DEF Agree
  <2>4. OnChain(f, c, me) /\ me.fc <= me.target => OnChain(g, d, me)
    <3> SUFFICES ASSUME OnChain(f, c, me), me.fc <= me.target PROVE OnChain(g, d, me)
      OBVIOUS
    <3>1. me.fc \in 0 .. NClusters /\ me.fc < K /\ me.dc = Path(f, c)[me.fc] /\ me.dc \in Cluster
      BY <2>1, Sizes DEF OnChain
    <3>2. Path(g, d)[me.fc] = Path(f, c)[me.fc]
      BY <3>1, Zenon DEF Agree
    <3> QED
      BY <3>1, <3>2 DEF OnChain
  <2>5. me.pc = "lookup" => me.dc = d
    <3> SUFFICES ASSUME me.pc = "lookup" PROVE me.dc = d
      OBVIOUS
    <3>1. me.dc = c /\ c \in Cluster
      BY <2>1, Sizes DEF CallRight
    <3>2. 0 \in 0 .. NClusters /\ 0 < K /\ Path(f, c)[0] = c /\ Path(g, d)[0] = d
      BY <2>1, Sizes, PathDef
    <3> QED
      BY <3>1, <3>2 DEF Agree
  <2>6. me.pc = "walk" => me.fc < me.target
    BY DEF CallRight
  <2>7. me.pc \in {"walk", "add", "alloc"} => OnChain(g, d, me)
    <3>1. me.pc \in {"walk", "add", "alloc"} => OnChain(f, c, me) /\ me.fc <= me.target
      BY <1>3, <2>1 DEF CallRight
    <3> QED
      BY <2>4, <3>1
  <2>8. me.pc \in {"add", "alloc", "got"} => me.fc = me.target /\ OnChain(g, d, me)
    <3>1. me.pc \in {"add", "alloc", "got"} => me.fc = me.target /\ OnChain(f, c, me) /\ me.fc <= me.target
      BY <1>3, <2>1 DEF CallRight
    <3> QED
      BY <2>4, <3>1
  <2>9. me.pc = "lookup" => me.target > 0 /\ me.fc = 0 /\ me.dc = d /\ me.cid = Dummy
    BY <2>5 DEF CallRight
  <2>10. CallRight(g, d, me)
    BY <1>3, <2>1, <2>2, <2>6, <2>7, <2>8, <2>9 DEF CallRight
  <2> QED
    BY <1>1, <2>10
<1> QED
  BY <1>2, <1>3

(* A step of p to x that does not change what a cut is going to leave.         *)
CutStays(me, x) == x.op = "cut" => me.op = "cut" /\ x.arg = me.arg

LEMMA BelowKept ==
  ASSUME proc \in [Procs -> Local], NEW p \in Procs, NEW x \in Local, proc' = [proc EXCEPT ![p] = x],
         CutStays(proc[p], x), NEW k, Below(proc, k)
  PROVE  Below(proc', k)
<1>1. proc'[p] = x /\ \A q \in Procs : q # p => proc'[q] = proc[q]
  BY Moved
<1> SUFFICES ASSUME NEW q \in Procs, proc'[q].op = "cut" PROVE k < proc'[q].arg
  BY DEF Below
<1>2. CASE q = p
  BY <1>1, <1>2 DEF CutStays, Below
<1>3. CASE q # p
  BY <1>1, <1>3 DEF Below
<1> QED
  BY <1>2, <1>3

(* Who holds the mutex before and after a step of p to x.                      *)
MutexStep(p, x, m, n) ==
  \/ n = NoProc /\ m \in {p, NoProc}
  \/ n = m /\ m # p
  \/ n = p /\ m \in {p, NoProc} /\ x.op # "none"

(* The step as the calls see it.                                               *)
LEMMA CallsFrame ==
  ASSUME CacheInv, NEW p \in Procs, NEW x \in Local, proc' = [proc EXCEPT ![p] = x],
         MutexStep(p, x, mutex, mutex'),
         CallRight(fat', start', x), AppendRight(fat', start', x), CutRight(fat', start', size', x),
         x.op = "read" => Below(proc, x.target), x.op = "read" /\ mutex' = p => x.target = size',
         \A q \in Procs \ {p} :
           /\ CallRight(fat', start', proc[q]) /\ AppendRight(fat', start', proc[q])
           /\ CutRight(fat', start', size', proc[q])
           /\ proc[q].op = "read" => Below(proc', proc[q].target)
           /\ mutex = q => size' = size
  PROVE  CallsRight(fat', start', size', mutex', proc')
<1>1. proc \in [Procs -> Local] /\ mutex \in Procs \cup {NoProc} /\ CallsRight(fat, start, size, mutex, proc)
  BY Holds DEF TypeInv, TypeOK
<1>2. proc'[p] = x /\ \A q \in Procs : q # p => proc'[q] = proc[q]
  BY <1>1, Moved
<1>3. mutex' = NoProc \/ proc'[mutex'].op # "none"
  <2>1. CASE mutex' = p /\ x.op # "none"
    BY <1>2, <2>1
  <2>2. CASE mutex' = mutex /\ mutex # p /\ mutex # NoProc
    <3>1. mutex \in Procs /\ proc[mutex].op # "none"
      BY <1>1, <2>2 DEF CallsRight
    <3>2. proc'[mutex] = proc[mutex]
      BY <1>2, <2>2, <3>1
    <3> QED
      BY <2>2, <3>1, <3>2
  <2> QED
    BY <2>1, <2>2 DEF MutexStep
<1>4. ASSUME NEW q \in Procs
      PROVE  /\ CallRight(fat', start', proc'[q]) /\ AppendRight(fat', start', proc'[q])
             /\ CutRight(fat', start', size', proc'[q])
             /\ proc'[q].op = "read" => Below(proc', proc'[q].target)
             /\ proc'[q].op = "read" /\ mutex' = q => proc'[q].target = size'
  <2>1. CASE q = p
    <3>1. x.op = "read" => CutStays(proc[p], x)
      BY DEF CutStays
    <3>2. x.op = "read" => Below(proc', x.target)
      BY <1>1, <3>1, BelowKept
    <3> QED
      BY <1>2, <2>1, <3>2
  <2>2. CASE q # p
    <3>1. proc'[q] = proc[q] /\ q \in Procs \ {p}
      BY <1>2, <2>2
    <3>2. mutex' = q => mutex = q
      BY <2>2, NoProcAssumption DEF MutexStep
    <3>3. proc[q].op = "read" /\ mutex = q => proc[q].target = size
      BY Mine
    <3> QED
      BY <3>1, <3>2, <3>3
  <2> QED
    BY <2>1, <2>2
<1> QED
  BY <1>3, <1>4 DEF CallsRight

LEMMA CopyFitsKept ==
  ASSUME NEW f, NEW c, NEW g, NEW d, NEW K \in Int, Agree(f, c, g, d, K), NEW a, NEW b, NEW v, NEW w,
         NEW me, me.target \in Nat, me.cid.f # -1 => Extended(me.cid), CopyFits(f, c, v, a, me),
         me.target < K,
         me.pc \in {"walk", "add", "alloc"} /\ me.cid.f # -1 /\ me.cid.id = w =>
           v = w /\ (Below(a, me.cid.f + me.cid.n) => Below(b, me.cid.f + me.cid.n) /\ me.cid.f + me.cid.n < K)
  PROVE  CopyFits(g, d, w, b, me)
<1> SUFFICES ASSUME me.pc \in {"walk", "add", "alloc"}, me.cid.f # -1
             PROVE  /\ me.pc = "walk" => me.cid.f + me.cid.n = me.fc
                    /\ me.cid.id = Valid => ~Reaches(me)
                    /\ me.pc = "alloc" => (Few => ~Reaches(me))
                    /\ ~Reaches(me) \/ me.cid.id = w => Fits(g, d, me.cid)
                    /\ me.cid.id = w => Below(b, me.cid.f + me.cid.n)
                    /\ CopyBegins(g, d, me)
  BY DEF CopyFits
<1>1. Extended(me.cid) /\ me.cid.f + me.cid.n \in Nat
  BY DEF Extended
<1>2. /\ me.pc = "walk" => me.cid.f + me.cid.n = me.fc
      /\ me.cid.id = Valid => ~Reaches(me)
      /\ me.pc = "alloc" => (Few => ~Reaches(me))
      /\ ~Reaches(me) \/ me.cid.id = v => Fits(f, c, me.cid)
      /\ me.cid.id = v => Below(a, me.cid.f + me.cid.n)
      /\ CopyBegins(f, c, me)
  BY DEF CopyFits
<1>3. me.cid.id = w => Below(b, me.cid.f + me.cid.n) /\ me.cid.f + me.cid.n < K /\ me.cid.id = v
  BY <1>2
<1>4. ~Reaches(me) => me.cid.f + me.cid.n < K
  BY <1>1 DEF Reaches
<1>5. ~Reaches(me) \/ me.cid.id = w => Fits(g, d, me.cid)
  BY <1>1, <1>2, <1>3, <1>4, FitsKept
<1>6. CopyBegins(g, d, me)
  <2>1. /\ me.cid.f \in Nat /\ me.cid.d \in Cluster /\ NClusters \in Nat
        /\ me.cid.f <= me.target /\ me.cid.f <= NClusters /\ Path(f, c)[me.cid.f] = me.cid.d
    BY <1>1, <1>2, Sizes DEF Extended, CopyBegins
  <2>2. me.cid.f \in 0 .. NClusters /\ me.cid.f < K
    BY <2>1
  <2>3. Path(g, d)[me.cid.f] = me.cid.d
    BY <2>1, <2>2 DEF Agree
  <2> QED
    BY <2>1, <2>3 DEF CopyBegins
<1> QED
  BY <1>2, <1>3, <1>5, <1>6

LEMMA AgreeSelf ==
  ASSUME NEW f, NEW c, NEW K
  PROVE  Agree(f, c, f, c, K)
BY DEF Agree

(* A step of p to x that leaves the file, and perhaps changes the list.        *)
LEMMA Listed ==
  ASSUME CacheInv, TypeInv', NEW p \in Procs, NEW x \in Local, proc' = [proc EXCEPT ![p] = x],
         fat' = fat, start' = start, size' = size, validId' = validId, fault' # "bug",
         MutexStep(p, x, mutex, mutex'), CutStays(proc[p], x),
         CallRight(fat, start, x), AppendRight(fat, start, x), CutRight(fat, start, size, x),
         x.op = "read" => Below(proc, x.target), x.op = "read" /\ mutex' = p => x.target = size,
         CopyFits(fat, start, validId, proc, x), CopyIn(lru', nrCaches', validId, proc', x),
         \A q \in Procs \ {p} : CopyIn(lru', nrCaches', validId, proc', proc[q]),
         ListRight(fat, start, lru', proc)
  PROVE  CacheInv'
<1>1. proc \in [Procs -> Local] /\ lru' \in Seq(Extent)
  BY Holds DEF TypeInv, TypeOK
<1>2. proc'[p] = x /\ \A q \in Procs : q # p => proc'[q] = proc[q]
  BY <1>1, Moved
<1>3. \A k : Below(proc, k) => Below(proc', k)
  BY <1>1, BelowKept
<1>4. ASSUME NEW q \in Procs \ {p}
      PROVE  /\ CallRight(fat', start', proc[q]) /\ AppendRight(fat', start', proc[q])
             /\ CutRight(fat', start', size', proc[q])
             /\ proc[q].op = "read" => Below(proc', proc[q].target)
             /\ mutex = q => size' = size
  BY <1>3, Mine
<1>5. CallsRight(fat', start', size', mutex', proc')
  BY <1>4, CallsFrame
<1>6. ASSUME NEW me, CopyFits(fat, start, validId, proc, me) PROVE CopyFits(fat, start, validId, proc', me)
  BY <1>3, <1>6, Zenon DEF CopyFits
<1>7. ASSUME NEW q \in Procs PROVE CopyFits(fat', start', validId', proc', proc'[q])
  <2>1. CopyFits(fat, start, validId, proc, proc'[q])
    BY <1>2, Mine
  <2> QED
    BY <1>6, <2>1
<1>8. ASSUME NEW q \in Procs PROVE CopyIn(lru', nrCaches', validId', proc', proc'[q])
  BY <1>2
<1>9. ListRight(fat', start', lru', proc')
  BY <1>3, Zenon DEF ListRight
<1>10. FileRight(fat', start', size')
  BY Holds
<1> QED
  BY <1>5, <1>7, <1>8, <1>9, <1>10 DEF CacheInv

(* The same when the cache stays too.                                          *)
LEMMA Stays ==
  ASSUME CacheInv, TypeInv', NEW p \in Procs, NEW x \in Local, proc' = [proc EXCEPT ![p] = x],
         fat' = fat, start' = start, size' = size, UNCHANGED cache, fault' = fault,
         MutexStep(p, x, mutex, mutex'), CutStays(proc[p], x), x.pc # "alloc",
         CallRight(fat, start, x), AppendRight(fat, start, x), CutRight(fat, start, size, x),
         x.op = "read" => Below(proc, x.target), x.op = "read" /\ mutex' = p => x.target = size,
         CopyFits(fat, start, validId, proc, x), CopyIn(lru, nrCaches, validId, proc, x)
  PROVE  CacheInv'
<1>1. proc \in [Procs -> Local] /\ fault # "bug" /\ ListRight(fat, start, lru, proc)
  BY Holds DEF TypeInv, TypeOK
<1>2. proc'[p] = x /\ \A q \in Procs : q # p => proc'[q] = proc[q]
  BY <1>1, Moved
<1>3. lru' = lru /\ nrCaches' = nrCaches /\ validId' = validId
  BY DEF cache
<1>4. (\A q \in Procs : proc[q].pc # "alloc") => \A q \in Procs : proc'[q].pc # "alloc"
  BY <1>2
<1>5. ASSUME NEW me, CopyIn(lru, nrCaches, validId, proc, me) PROVE CopyIn(lru', nrCaches', validId, proc', me)
  BY <1>3, <1>4, <1>5, Zenon DEF CopyIn
<1>6. \A q \in Procs \ {p} : CopyIn(lru', nrCaches', validId, proc', proc[q])
  BY <1>5, Mine
<1>7. CopyIn(lru', nrCaches', validId, proc', x) /\ ListRight(fat, start, lru', proc)
  BY <1>1, <1>3, <1>5
<1> QED
  BY <1>1, <1>3, <1>6, <1>7, Listed

(* A step of p to x that changes the file above K, under the mutex; the cache  *)
(* stays, or all of it is invalidated.                                         *)
LEMMA Changed ==
  ASSUME CacheInv, TypeInv', NEW p \in Procs, NEW x \in Local, proc' = [proc EXCEPT ![p] = x],
         mutex \in {p, NoProc}, MutexStep(p, x, mutex, mutex'), fault' = fault,
         x.pc \notin {"walk", "add", "alloc"},
         FileRight(fat', start', size'),
         NEW K \in Int, Agree(fat, start, fat', start', K),
         \A q \in Procs \ {p} : proc[q].op = "read" => proc[q].target < K /\ Below(proc', proc[q].target),
         CallRight(fat', start', x), AppendRight(fat', start', x), CutRight(fat', start', size', x),
         x.op = "read" => Below(proc, x.target), x.op = "read" /\ mutex' = p => x.target = size',
         \/ UNCHANGED cache /\ \A k \in Nat : k <= NClusters /\ Below(proc, k) => k < K /\ Below(proc', k)
         \/ lru' = <<>> /\ \A q \in Procs \ {p} : proc[q].pc = "idle" \/ proc[q].cid.id # validId'
  PROVE  CacheInv'
<1>1. /\ proc \in [Procs -> Local] /\ fault # "bug" /\ ListRight(fat, start, lru, proc)
      /\ mutex \in Procs \cup {NoProc} /\ lru \in Seq(Extent)
  BY Holds DEF TypeInv, TypeOK
<1>2. proc'[p] = x /\ \A q \in Procs : q # p => proc'[q] = proc[q]
  BY <1>1, Moved
<1>3. UNCHANGED cache => lru' = lru /\ nrCaches' = nrCaches /\ validId' = validId
  BY DEF cache
<1>4. ASSUME NEW q \in Procs \ {p}
      PROVE  /\ CallRight(fat', start', proc[q]) /\ AppendRight(fat', start', proc[q])
             /\ CutRight(fat', start', size', proc[q])
             /\ proc[q].op = "read" => Below(proc', proc[q].target)
             /\ mutex = q => size' = size
  <2>1. mutex # q
    BY <1>1, NoProcAssumption
  <2>2. proc[q].op \in {"none", "read"} /\ proc[q] \in Local /\ CallRight(fat, start, proc[q])
        /\ (proc[q].pc = "lookup" => proc[q].dc # 0)
    BY <2>1, Reader, Mine DEF CallTyped
  <2>3. CallRight(fat', start', proc[q]) /\ AppendRight(fat', start', proc[q])
        /\ \A s : CutRight(fat', start', s, proc[q])
    BY <2>2, CallKept
  <2> QED
    BY <2>1, <2>3
<1>5. CallsRight(fat', start', size', mutex', proc')
  BY <1>4, CallsFrame
<1>6. ASSUME NEW q \in Procs PROVE CopyFits(fat', start', validId', proc', proc'[q])
  <2>1. CASE q = p
    BY <1>2, <2>1 DEF CopyFits
  <2>2. CASE q # p /\ proc[q].pc \notin {"walk", "add", "alloc"}
    BY <1>2, <2>2 DEF CopyFits
  <2>3. CASE q # p /\ proc[q].pc \in {"walk", "add", "alloc"}
    <3> DEFINE me == proc[q]
               b == me.cid.f + me.cid.n
    <3>1. mutex # q
      BY <1>1, <2>3, NoProcAssumption
    <3>2. me.op = "read" /\ me.pc # "idle" /\ proc'[q] = me
      BY <1>2, <2>3, <3>1, Reader
    <3>3. /\ me.target \in Nat /\ CopyFits(fat, start, validId, proc, me) /\ me.target < K
          /\ (me.cid.f # -1 => Extended(me.cid))
      BY <2>3, <3>2, Mine, CopyNumbers DEF Extended
    <3>4. me.cid.f # -1 /\ me.cid.id = validId' => validId = validId' /\ (Below(proc, b) => Below(proc', b) /\ b < K)
      <4> SUFFICES ASSUME me.cid.f # -1, me.cid.id = validId'
                   PROVE  validId = validId' /\ (Below(proc, b) => Below(proc', b) /\ b < K)
        OBVIOUS
      <4>1. UNCHANGED cache /\ \A k \in Nat : k <= NClusters /\ Below(proc, k) => k < K /\ Below(proc', k)
        BY <2>3, <3>2
      <4>2. validId' = validId
        BY <1>3, <4>1
      <4>3. b \in Nat /\ b <= NClusters
        <5>1. Fits(fat, start, me.cid)
          BY <2>3, <3>3, <4>2, Zenon DEF CopyFits
        <5>2. me.cid.n \in Nat /\ me.cid.f \in Nat
          BY <3>3 DEF Extended
        <5>3. me.cid.n \in 0 .. me.cid.n
          BY <5>2
        <5>4. me.cid.f + me.cid.n <= NClusters
          BY <5>1, <5>3 DEF Fits
        <5> QED
          BY <5>2, <5>4
      <4> QED
        BY <4>1, <4>2, <4>3
    <3> HIDE DEF me, b
    <3>5. me.pc \in {"walk", "add", "alloc"} /\ me.cid.f # -1 /\ me.cid.id = validId' =>
            validId = validId' /\ (Below(proc, me.cid.f + me.cid.n) =>
                                     Below(proc', me.cid.f + me.cid.n) /\ me.cid.f + me.cid.n < K)
      BY <3>4, Zenon DEF b
    <3>6. CopyFits(fat', start', validId', proc', me)
      BY <3>3, <3>5, CopyFitsKept
    <3> QED
      BY <3>2, <3>6
  <2> QED
    BY <2>1, <2>2, <2>3
<1>7. ASSUME NEW q \in Procs PROVE CopyIn(lru', nrCaches', validId', proc', proc'[q])
  <2>1. CASE q = p
    BY <1>2, <2>1 DEF CopyIn
  <2>2. CASE q # p
    <3>1. proc'[q] = proc[q] /\ CopyIn(lru, nrCaches, validId, proc, proc[q]) /\ q \in Procs \ {p}
      BY <1>2, <2>2, Mine
    <3>2. CASE UNCHANGED cache
      <4>1. lru' = lru /\ nrCaches' = nrCaches /\ validId' = validId
        BY <1>3, <3>2
      <4>2. (\A r \in Procs : proc[r].pc # "alloc") => \A r \in Procs : proc'[r].pc # "alloc"
        BY <1>2
      <4> QED
        BY <3>1, <4>1, <4>2, Zenon DEF CopyIn
    <3>3. CASE proc[q].pc = "idle" \/ proc[q].cid.id # validId'
      BY <3>1, <3>3 DEF CopyIn
    <3> QED
      BY <3>1, <3>2, <3>3
  <2> QED
    BY <2>1, <2>2
<1>8. ListRight(fat', start', lru', proc')
  <2>1. CASE lru' = <<>>
    BY <2>1 DEF ListRight
  <2>2. CASE UNCHANGED cache /\ \A k \in Nat : k <= NClusters /\ Below(proc, k) => k < K /\ Below(proc', k)
    <3>1. lru' = lru
      BY <1>3, <2>2
    <3>2. ASSUME NEW i \in DOMAIN lru
          PROVE  Fits(fat', start', lru[i]) /\ Below(proc', lru[i].f + lru[i].n)
      <4> DEFINE e == lru[i]
      <4>1. /\ e.f \in Nat \ {0} /\ e.d \in Cluster /\ e.n \in Nat /\ e.d + e.n \in Cluster
        BY <1>1, Entry
      <4>2. Extended(e) /\ e.n \in 0 .. e.n
        BY <4>1 DEF Extended
      <4>3. Fits(fat, start, e) /\ Below(proc, e.f + e.n)
        BY <1>1 DEF ListRight
      <4> HIDE DEF e
      <4>4. e.f + e.n \in Nat /\ e.f + e.n <= NClusters
        BY <4>1, <4>2, <4>3 DEF Fits
      <4>5. e.f + e.n < K /\ Below(proc', e.f + e.n)
        BY <2>2, <4>3, <4>4
      <4>6. Fits(fat', start', e)
        BY <4>2, <4>3, <4>5, FitsKept
      <4> QED
        BY <4>5, <4>6 DEF e
    <3> QED
      BY <1>1, <3>1, <3>2 DEF ListRight
  <2> QED
    BY <2>1, <2>2
<1> QED
  BY <1>1, <1>5, <1>6, <1>7, <1>8 DEF CacheInv

-----------------------------------------------------------------------------
(* fat_get_cluster, as to what is known.                                       *)

LEMMA BelowLess ==
  ASSUME proc \in [Procs -> Local], NEW k \in Int, NEW j \in Int, j <= k, Below(proc, k)
  PROVE  Below(proc, j)
<1> SUFFICES ASSUME NEW q \in Procs, proc[q].op = "cut" PROVE j < proc[q].arg
  BY DEF Below
<1>1. proc[q].arg \in Nat /\ k < proc[q].arg
  BY DEF Below, Local
<1> QED
  BY <1>1

(* Who is on the way to an index is below any cut.                             *)
LEMMA TargetBelow ==
  ASSUME CacheInv, NEW p \in Procs, proc[p].pc \notin {"idle", "free"}, NEW k \in Int, k <= proc[p].target
  PROVE  Below(proc, k)
<1> DEFINE me == proc[p]
<1>1. /\ proc \in [Procs -> Local] /\ me \in Local /\ me.target \in Nat /\ me.arg \in Nat
      /\ CallTyped(p, me, mutex, start) /\ CallRight(fat, start, me) /\ CutRight(fat, start, size, me)
  BY Holds, Known, Mine
<1>2. me.op \in {"read", "append", "cut"}
  BY <1>1 DEF CallRight, Local
<1>3. CASE me.op = "read"
  <2>1. Below(proc, me.target)
    BY <1>3, Mine
  <2> QED
    BY <1>1, <2>1, BelowLess
<1>4. CASE me.op \in {"append", "cut"}
  <2> SUFFICES ASSUME NEW q \in Procs, proc[q].op = "cut" PROVE k < proc[q].arg
    BY DEF Below
  <2>1. mutex = p /\ mutex = q
    <3>1. CallTyped(q, proc[q], mutex, start)
      BY Mine
    <3> QED
      BY <1>1, <1>4, <3>1 DEF CallTyped
  <2>2. q = p /\ me.op = "cut"
    BY <2>1
  <2>3. me.target = me.arg - 1
    BY <1>1, <2>2 DEF CutRight
  <2> QED
    BY <1>1, <2>2, <2>3
<1> QED
  BY <1>2, <1>3, <1>4

(* A call that goes on with the same errand.                                   *)
LEMMA OnCall ==
  ASSUME CacheInv, NEW p \in Procs, proc[p].pc \notin {"idle", "free"}, NEW x \in Local,
         x.pc \notin {"idle", "free"}, x.op = proc[p].op, x.target = proc[p].target, x.arg = proc[p].arg
  PROVE  /\ CutStays(proc[p], x) /\ CutRight(fat, start, size, x) /\ MutexStep(p, x, mutex, mutex)
         /\ x.op # "none" /\ x.target \in Nat
         /\ x.op = "read" => Below(proc, x.target)
         /\ x.op = "read" /\ mutex = p => x.target = size
         /\ x.op \in {"read", "cut"} => x.target <= NClusters /\ Path(fat, start)[x.target] \in Cluster
         /\ x.op = "append" => /\ fat[x.arg] = Eof /\ x.arg \notin Used(fat, start)
                               /\ start # 0 => x.target = Eof
                               /\ start = 0 => proc[p].pc = "got"
         /\ x.op \in {"read", "cut", "append"}
<1>1. /\ proc[p] \in Local /\ CallRight(fat, start, proc[p]) /\ AppendRight(fat, start, proc[p])
      /\ CutRight(fat, start, size, proc[p])
      /\ proc[p].op = "read" => Below(proc, proc[p].target)
      /\ proc[p].op = "read" /\ mutex = p => proc[p].target = size
  BY Mine
<1>2. CutStays(proc[p], x)
  BY DEF CutStays
<1>3. CutRight(fat, start, size, x)
  BY <1>1 DEF CutRight
<1>4. x.op # "none" /\ x.target \in Nat /\ x.op \in {"read", "cut", "append"}
  BY <1>1 DEF CallRight, Local
<1>5. MutexStep(p, x, mutex, mutex)
  BY <1>4, NoProcAssumption DEF MutexStep
<1>6. x.op \in {"read", "cut"} => x.target <= NClusters /\ Path(fat, start)[x.target] \in Cluster
  BY <1>1 DEF CallRight
<1>7. x.op = "append" => /\ fat[x.arg] = Eof /\ x.arg \notin Used(fat, start)
                         /\ start # 0 => x.target = Eof
                         /\ start = 0 => proc[p].pc = "got"
  BY <1>1 DEF AppendRight
<1> QED
  BY <1>1, <1>2, <1>3, <1>4, <1>5, <1>6, <1>7

(* Where such a call may be.                                                   *)
LEMMA OnWay ==
  ASSUME CacheInv, NEW p \in Procs, proc[p].pc \notin {"idle", "free"}, NEW x \in Local,
         x.op = proc[p].op, x.target = proc[p].target, x.arg = proc[p].arg,
         \/ x.pc = "fail" /\ start # 0
         \/ x.pc = "walk" /\ x.fc < x.target /\ OnChain(fat, start, x) /\ start # 0
         \/ /\ x.pc \in {"add", "alloc", "got"} /\ OnChain(fat, start, x) /\ start # 0
            /\ IF x.op = "append" THEN fat[x.dc] = Eof ELSE x.fc = x.target
  PROVE  CallRight(fat, start, x) /\ AppendRight(fat, start, x)
<1>1. x.pc \notin {"idle", "free", "lookup"} /\ start # 0
  OBVIOUS
<1>2. /\ x.op # "none"
      /\ x.op \in {"read", "cut"} => x.target <= NClusters /\ Path(fat, start)[x.target] \in Cluster
      /\ x.op = "append" => fat[x.arg] = Eof /\ x.arg \notin Used(fat, start) /\ x.target = Eof
  BY <1>1, OnCall
<1> QED
  BY <1>1, <1>2 DEF CallRight, AppendRight

(* A call that is in the table has something to be in.                         *)
LEMMA Started ==
  ASSUME CacheInv, NEW p \in Procs, proc[p].pc \in {"lookup", "walk", "add", "alloc"}
  PROVE  start # 0 /\ start \in Cluster
<1>1. proc[p] \in Local /\ CallRight(fat, start, proc[p]) /\ start \in 0 .. NClusters
  BY Mine, Holds, Known
<1>2. proc[p].op = "append" => start # 0
  BY Mine DEF AppendRight
<1>3. proc[p].op \in {"read", "cut"} => start # 0
  <2> SUFFICES ASSUME proc[p].op \in {"read", "cut"} PROVE start # 0
    OBVIOUS
  <2> DEFINE t == proc[p].target
  <2>1. t \in Nat /\ t <= NClusters /\ Path(fat, start)[t] \in Cluster
    BY <1>1 DEF CallRight, Local
  <2> HIDE DEF t
  <2>2. 0 \in 0 .. NClusters /\ t \in 0 .. NClusters /\ 0 <= t
    BY <2>1, Sizes
  <2>3. Path(fat, start)[0] \in Cluster
    BY <2>1, <2>2, PathBefore
  <2> QED
    BY <2>3, PathDef, Sizes
<1>4. proc[p].op \in {"read", "cut", "append"}
  BY <1>1 DEF CallRight, Local
<1> QED
  BY <1>1, <1>2, <1>3, <1>4, Sizes

LEMMA GotoRight ==
  ASSUME CacheInv, TypeInv', NEW p \in Procs, NEW c, Goto(p, c), UNCHANGED <<file, cache, mutex, fault>>,
         start # 0,
         \/ c = "fail" /\ proc[p].pc \in {"walk", "got"}
         \/ c = "got" /\ proc[p].pc \in {"add", "alloc"}
  PROVE  CacheInv'
<1> DEFINE me == proc[p]
           x == [me EXCEPT !.pc = c]
<1>1. proc \in [Procs -> Local] /\ CallRight(fat, start, me) /\ AppendRight(fat, start, me) /\ me \in Local
  BY Holds, Known, Mine
<1>2. /\ proc' = [proc EXCEPT ![p] = x] /\ x \in Local
      /\ x.pc = c /\ x.op = me.op /\ x.target = me.target /\ x.cid = me.cid
      /\ x.fc = me.fc /\ x.dc = me.dc /\ x.arg = me.arg
  BY <1>1, GotoMoves
<1>3. fat' = fat /\ start' = start /\ size' = size /\ UNCHANGED cache /\ mutex' = mutex /\ fault' = fault
  BY DEF file
<1> HIDE DEF x
<1>4. x.pc = "got" => /\ OnChain(fat, start, x)
                      /\ IF x.op = "append" THEN fat[x.dc] = Eof ELSE x.fc = x.target
  <2> SUFFICES ASSUME c = "got" PROVE /\ OnChain(fat, start, x)
                                      /\ IF x.op = "append" THEN fat[x.dc] = Eof ELSE x.fc = x.target
    BY <1>2
  <2>1. me.pc \in {"add", "alloc"} /\ me.op \in {"read", "append", "cut"}
    BY <1>1 DEF CallRight, Local
  <2>2. OnChain(fat, start, me)
    BY <1>1, <2>1 DEF CallRight
  <2>3. me.op # "append" => me.fc = me.target
    BY <1>1, <2>1 DEF CallRight
  <2>4. me.op = "append" => fat[me.dc] = Eof
    BY <1>1, <2>1 DEF AppendRight
  <2> QED
    BY <1>2, <2>2, <2>3, <2>4 DEF OnChain
<1>5. me.pc \notin {"idle", "free"}
  OBVIOUS
<1>6. CallRight(fat, start, x) /\ AppendRight(fat, start, x)
  BY <1>2, <1>4, <1>5, OnWay
<1>7. CopyFits(fat, start, validId, proc, x) /\ CopyIn(lru, nrCaches, validId, proc, x)
  BY <1>2 DEF CopyFits, CopyIn
<1>8. x.pc # "alloc" /\ x.pc \notin {"idle", "free"}
  BY <1>2
<1>9. /\ CutStays(me, x) /\ CutRight(fat, start, size, x) /\ MutexStep(p, x, mutex, mutex')
      /\ x.op = "read" => Below(proc, x.target)
      /\ x.op = "read" /\ mutex' = p => x.target = size
  BY <1>2, <1>3, <1>5, <1>8, OnCall
<1> QED
  BY <1>2, <1>3, <1>6, <1>7, <1>8, <1>9, Stays

LEMMA WalkFailsRight ==
  ASSUME CacheInv, TypeInv', NEW p \in Procs, WalkFails(p)
  PROVE  CacheInv'
<1>1. proc[p].pc = "walk" /\ Goto(p, "fail") /\ UNCHANGED <<file, cache, mutex, fault>>
  BY DEF WalkFails
<1>2. start # 0
  BY <1>1, Started
<1> QED
  BY <1>1, <1>2, GotoRight

LEMMA EntryNotReadRight ==
  ASSUME CacheInv, TypeInv', NEW p \in Procs, EntryNotRead(p)
  PROVE  CacheInv'
BY GotoRight DEF EntryNotRead

(* The chain goes on from where a call is.                                     *)
LEMMA NextOnChain ==
  ASSUME CacheInv, NEW me, me.fc \in Nat, OnChain(fat, start, me)
  PROVE  /\ me.fc + 1 \in 0 .. NClusters /\ Path(fat, start)[me.fc + 1] = fat[me.dc]
<1>1. /\ me.fc <= NClusters /\ me.dc = Path(fat, start)[me.fc] /\ me.dc \in Cluster
      /\ NClusters \in Nat /\ NoRepeat(fat, start)
  BY Holds, Sizes DEF OnChain, FileRight
<1>2. me.fc # NClusters
  BY <1>1, PathShort
<1>3. me.fc + 1 \in 1 .. NClusters /\ (me.fc + 1) - 1 = me.fc /\ me.fc + 1 \in 0 .. NClusters
  BY <1>1, <1>2
<1>4. Path(fat, start)[me.fc + 1] = After(fat, Path(fat, start)[me.fc])
  BY <1>3, PathDef
<1> QED
  BY <1>1, <1>3, <1>4 DEF After

LEMMA WalkRight ==
  ASSUME CacheInv, TypeInv', NEW p \in Procs, Walk(p)
  PROVE  CacheInv'
<1> DEFINE me == proc[p]
           next == fat[me.dc]
<1>1. /\ me \in Local /\ proc \in [Procs -> Local] /\ CallRight(fat, start, me)
      /\ me.fc \in Nat /\ me.target \in Nat /\ me.cid \in Copy /\ fat \in [Cluster -> 0 .. Eof]
      /\ CopyTyped(me.cid) /\ CopyFits(fat, start, validId, proc, me)
  BY Holds, Known, Mine DEF CallTyped
<1>2. me.pc = "walk" /\ UNCHANGED <<file, cache, mutex, fault>>
  BY Zenon DEF Walk
<1>3. fat' = fat /\ start' = start /\ size' = size /\ UNCHANGED cache /\ mutex' = mutex /\ fault' = fault
  BY <1>2 DEF file
<1>4. me.fc < me.target /\ OnChain(fat, start, me) /\ start # 0 /\ me.op \in {"read", "append", "cut"}
  BY <1>1, <1>2, Started DEF CallRight, Local
<1>5. me.fc + 1 \in 0 .. NClusters /\ Path(fat, start)[me.fc + 1] = next /\ me.dc \in Cluster
  BY <1>1, <1>4, NextOnChain DEF OnChain
<1>6. me.cid.f # -1 => me.cid.f + me.cid.n = me.fc /\ Fits(fat, start, me.cid) /\ ~Reaches(me)
  <2> SUFFICES ASSUME me.cid.f # -1
               PROVE  me.cid.f + me.cid.n = me.fc /\ Fits(fat, start, me.cid) /\ ~Reaches(me)
    OBVIOUS
  <2>1. me.cid.f + me.cid.n = me.fc
    BY <1>1, <1>2 DEF CopyFits
  <2>2. ~Reaches(me)
    BY <1>1, <1>4, <2>1 DEF Reaches
  <2>3. Fits(fat, start, me.cid)
    BY <1>1, <1>2, <2>2 DEF CopyFits
  <2> QED
    BY <2>1, <2>2, <2>3
<1>7. CASE next = Eof
  <2> DEFINE x == [me EXCEPT !.pc = "add"]
  <2>1. Goto(p, "add")
    BY <1>7, Zenon DEF Walk
  <2>2. /\ proc' = [proc EXCEPT ![p] = x] /\ x \in Local
        /\ x.pc = "add" /\ x.op = me.op /\ x.target = me.target /\ x.cid = me.cid
        /\ x.fc = me.fc /\ x.dc = me.dc /\ x.arg = me.arg
    BY <1>1, <2>1, GotoMoves
  <2> HIDE DEF x
  <2>3. me.op = "append"
    <3> SUFFICES ASSUME me.op \in {"read", "cut"} PROVE FALSE
      BY <1>4
    <3>1. me.target <= NClusters /\ Path(fat, start)[me.target] \in Cluster
      BY <1>1, <1>2 DEF CallRight
    <3>2. me.target \in 0 .. NClusters /\ me.fc + 1 <= me.target
      BY <1>1, <1>4, <3>1, Sizes
    <3>3. Path(fat, start)[me.fc + 1] \in Cluster
      BY <1>5, <3>1, <3>2, PathBefore
    <3> QED
      BY <1>5, <1>7, <3>3, Sizes
  <2>4. OnChain(fat, start, x) /\ fat[x.dc] = Eof
    BY <1>4, <1>7, <2>2 DEF OnChain
  <2>5. CallRight(fat, start, x) /\ AppendRight(fat, start, x)
    BY <1>2, <1>4, <2>2, <2>3, <2>4, OnWay
  <2>6. Reaches(x) <=> Reaches(me)
    BY <2>2 DEF Reaches
  <2>7. CopyFits(fat, start, validId, proc, x) /\ CopyIn(lru, nrCaches, validId, proc, x)
    <3>1. me.cid.f # -1 => CopyBegins(fat, start, x)
      BY <1>1, <1>2, <2>2 DEF CopyFits, CopyBegins
    <3> QED
      BY <1>1, <1>2, <1>6, <2>2, <2>6, <3>1 DEF CopyFits, CopyIn
  <2>8. /\ CutStays(me, x) /\ CutRight(fat, start, size, x) /\ MutexStep(p, x, mutex, mutex')
        /\ x.op = "read" => Below(proc, x.target)
        /\ x.op = "read" /\ mutex' = p => x.target = size
    BY <1>2, <1>3, <2>2, OnCall
  <2>9. x.pc # "alloc"
    BY <2>2
  <2> QED
    BY <1>3, <2>2, <2>5, <2>7, <2>8, <2>9, Stays
<1>8. CASE next # Eof
  <2> DEFINE x == Walked(me, next)
             c == Collected(me, next)
  <2>1. next # Free /\ proc' = [proc EXCEPT ![p] = x]
    BY <1>1, <1>8, WalkOn
  <2>2. next \in Cluster
    <3>1. next \in 0 .. Eof
      BY <1>1, <1>5
    <3> QED
      BY <1>8, <2>1, <3>1, Sizes
  <2>3. /\ x \in Local /\ x.op = me.op /\ x.arg = me.arg /\ x.target = me.target /\ x.cid = c
        /\ x.fc = me.fc + 1 /\ x.dc = next
        /\ x.pc = IF me.fc + 1 = me.target THEN "add" ELSE "walk"
        /\ c \in Copy /\ CopyTyped(c) /\ c.f # -1
        /\ \/ /\ me.cid.f # -1 /\ me.cid.d + me.cid.n + 1 = next
              /\ c.f = me.cid.f /\ c.d = me.cid.d /\ c.n = me.cid.n + 1 /\ c.id = me.cid.id
           \/ c.f = me.fc + 1 /\ c.d = next /\ c.n = 0 /\ c.id = Valid
    BY <1>1, <2>2, WalkedTyped
  <2> HIDE DEF x, c, next
  <2>4. OnChain(fat, start, x)
    BY <1>5, <2>2, <2>3, Sizes DEF OnChain
  <2>5. x.pc = "walk" => x.fc < x.target
    BY <1>1, <1>4, <2>3
  <2>6. x.pc = "add" => x.op # "append" /\ x.fc = x.target
    <3> SUFFICES ASSUME x.pc = "add" PROVE x.op # "append" /\ x.fc = x.target
      OBVIOUS
    <3>1. me.fc + 1 = me.target
      BY <2>3
    <3>2. me.op = "append" => me.target = Eof
      BY <1>4, Mine DEF AppendRight
    <3> QED
      BY <1>5, <2>3, <3>1, <3>2, Sizes
  <2>7. x.pc \in {"walk", "add"}
    BY <2>3
  <2>8. CallRight(fat, start, x) /\ AppendRight(fat, start, x)
    BY <1>2, <1>4, <2>3, <2>4, <2>5, <2>6, <2>7, OnWay
  <2>9. c.f + c.n = me.fc + 1 /\ c.n \in Nat /\ c.f \in Nat
    <3>1. me.cid.f # -1 => me.cid.f \in Nat /\ me.cid.n \in Nat
      BY CopyNumbers
    <3> QED
      BY <1>1, <1>6, <2>3, <3>1
  <2>10. Fits(fat, start, c)
    <3> SUFFICES ASSUME NEW k \in 0 .. c.n PROVE c.f + k <= NClusters /\ Path(fat, start)[c.f + k] = c.d + k
      BY DEF Fits
    <3>1. c.f + k <= NClusters
      <4>1. me.fc + 1 <= NClusters /\ me.fc + 1 \in Nat /\ NClusters \in Nat
        BY <1>5, Sizes
      <4>2. c.f + k <= c.f + c.n
        BY <2>9
      <4> QED
        BY <2>9, <4>1, <4>2
    <3>2. CASE c.f = me.fc + 1 /\ c.d = next /\ c.n = 0 /\ c.id = Valid
      <4>1. k = 0 /\ c.f + k = me.fc + 1 /\ c.d + k = next
        <5>1. next \in Int
          BY <2>2, Sizes
        <5>2. k = 0
          BY <3>2
        <5> QED
          BY <1>1, <3>2, <5>1, <5>2
      <4> QED
        BY <1>5, <3>1, <4>1 DEF next
    <3>3. CASE /\ me.cid.f # -1 /\ me.cid.d + me.cid.n + 1 = next
               /\ c.f = me.cid.f /\ c.d = me.cid.d /\ c.n = me.cid.n + 1 /\ c.id = me.cid.id
      <4>1. /\ me.cid.f \in Nat /\ me.cid.n \in Nat /\ me.cid.d \in Cluster /\ me.cid.d \in Int
            /\ me.cid.f + me.cid.n = me.fc /\ Fits(fat, start, me.cid)
        BY <1>6, <3>3, CopyNumbers, Sizes
      <4>2. CASE k = c.n
        <5>1. c.f + k = me.fc + 1 /\ c.d + k = next
          BY <1>1, <3>3, <4>1, <4>2
        <5> QED
          BY <1>5, <3>1, <5>1 DEF next
      <4>3. CASE k # c.n
        <5>1. k \in 0 .. me.cid.n
          BY <3>3, <4>1, <4>3
        <5> QED
          BY <3>1, <3>3, <4>1, <5>1 DEF Fits
      <4> QED
        BY <4>2, <4>3
    <3> QED
      BY <2>3, <3>2, <3>3
  <2>11. ~Reaches(x)
    BY <1>1, <1>4, <2>3, <2>9 DEF Reaches
  <2>12. Below(proc, c.f + c.n)
    <3>1. me.fc + 1 \in Int /\ me.fc + 1 <= me.target
      BY <1>1, <1>4
    <3>2. Below(proc, me.fc + 1)
      BY <1>2, <3>1, TargetBelow
    <3> QED
      BY <2>9, <3>2
  <2>13. CopyFits(fat, start, validId, proc, x) /\ CopyIn(lru, nrCaches, validId, proc, x)
    <3>1. c.d \in Int
      BY <2>3, Sizes DEF CopyTyped
    <3>2. c.f <= NClusters /\ Path(fat, start)[c.f] = c.d
      BY <2>9, <2>10, <3>1, FitsBegins
    <3>3. c.f <= me.target
      BY <1>1, <1>4, <2>9
    <3>4. CopyBegins(fat, start, x)
      BY <2>3, <3>2, <3>3 DEF CopyBegins
    <3> QED
      BY <2>3, <2>7, <2>9, <2>10, <2>11, <2>12, <3>4 DEF CopyFits, CopyIn
  <2>14. /\ CutStays(me, x) /\ CutRight(fat, start, size, x) /\ MutexStep(p, x, mutex, mutex')
         /\ x.op = "read" => Below(proc, x.target)
         /\ x.op = "read" /\ mutex' = p => x.target = size
    BY <1>2, <1>3, <2>3, <2>7, OnCall
  <2>15. x.pc # "alloc"
    BY <2>7
  <2> QED
    BY <1>3, <2>1, <2>3, <2>8, <2>13, <2>14, <2>15, Stays
<1> QED
  BY <1>7, <1>8

-----------------------------------------------------------------------------
(* The list, as to what is known.                                              *)

(* One entry comes first.                                                      *)
LEMMA FrontKeeps ==
  ASSUME lru \in Seq(Extent), NEW i \in DOMAIN lru, NEW s, DOMAIN s = DOMAIN lru,
         s[1].f = lru[i].f,
         \A j \in DOMAIN lru \ {1} : s[j] = IF j <= i THEN lru[j - 1] ELSE lru[j],
         \A j, k \in DOMAIN lru : lru[j].f = lru[k].f => j = k
  PROVE  /\ \A j \in DOMAIN s \ {1} : \E k \in DOMAIN lru : s[j] = lru[k]
         /\ \A k \in DOMAIN lru : \E j \in DOMAIN s : s[j].f = lru[k].f
         /\ \A j, k \in DOMAIN s : s[j].f = s[k].f => j = k
<1> DEFINE m == Len(lru)
           at(j) == IF j = 1 THEN i ELSE IF j <= i THEN j - 1 ELSE j
           to(k) == IF k = i THEN 1 ELSE IF k < i THEN k + 1 ELSE k
<1>1. m \in Nat /\ DOMAIN lru = 1 .. m /\ i \in 1 .. m /\ DOMAIN s = 1 .. m
  BY LenProperties
<1> HIDE DEF m
<1>2. \A j \in 1 .. m : at(j) \in 1 .. m
  BY <1>1
<1>3. \A j \in 1 .. m : j # 1 => s[j] = lru[at(j)]
  <2> SUFFICES ASSUME NEW j \in 1 .. m, j # 1 PROVE s[j] = lru[at(j)]
    OBVIOUS
  <2>1. s[j] = IF j <= i THEN lru[j - 1] ELSE lru[j]
    BY <1>1
  <2> QED
    BY <2>1
<1>4. \A j \in 1 .. m : s[j].f = lru[at(j)].f
  <2> SUFFICES ASSUME NEW j \in 1 .. m PROVE s[j].f = lru[at(j)].f
    OBVIOUS
  <2>1. CASE j = 1
    BY <2>1
  <2>2. CASE j # 1
    BY <1>3, <2>2
  <2> QED
    BY <2>1, <2>2
<1>5. \A j, k \in 1 .. m : at(j) = at(k) => j = k
  BY <1>1
<1>6. \A k \in 1 .. m : to(k) \in 1 .. m /\ at(to(k)) = k
  BY <1>1
<1> HIDE DEF at, to
<1>7. \A j \in DOMAIN s \ {1} : \E k \in DOMAIN lru : s[j] = lru[k]
  BY <1>1, <1>2, <1>3
<1>8. \A k \in DOMAIN lru : \E j \in DOMAIN s : s[j].f = lru[k].f
  <2> SUFFICES ASSUME NEW k \in 1 .. m PROVE \E j \in 1 .. m : s[j].f = lru[k].f
    BY <1>1
  <2>1. to(k) \in 1 .. m /\ s[to(k)].f = lru[at(to(k))].f /\ at(to(k)) = k
    BY <1>4, <1>6
  <2>2. s[to(k)].f = lru[k].f
    BY <2>1
  <2> QED
    BY <2>1, <2>2
<1>9. \A j, k \in DOMAIN s : s[j].f = s[k].f => j = k
  <2> SUFFICES ASSUME NEW j \in 1 .. m, NEW k \in 1 .. m, s[j].f = s[k].f PROVE j = k
    BY <1>1
  <2>1. lru[at(j)].f = lru[at(k)].f /\ at(j) \in DOMAIN lru /\ at(k) \in DOMAIN lru
    BY <1>1, <1>2, <1>4
  <2> QED
    BY <1>5, <2>1
<1> QED
  BY <1>7, <1>8, <1>9

(* What is said of every entry stays so when the first is such a one.          *)
LEMMA ListKept ==
  ASSUME ListRight(fat, start, lru, proc), NEW s, 1 \in DOMAIN s,
         Fits(fat, start, s[1]), Below(proc, s[1].f + s[1].n),
         \A j \in DOMAIN s \ {1} : \E k \in DOMAIN lru : s[j] = lru[k],
         \A j, k \in DOMAIN s : s[j].f = s[k].f => j = k
  PROVE  ListRight(fat, start, s, proc)
<1>1. ASSUME NEW j \in DOMAIN s PROVE Fits(fat, start, s[j]) /\ Below(proc, s[j].f + s[j].n)
  <2>1. CASE j = 1
    BY <2>1
  <2>2. CASE j # 1
    <3>1. PICK k \in DOMAIN lru : s[j] = lru[k]
      BY <2>2
    <3> QED
      BY <3>1 DEF ListRight
  <2> QED
    BY <2>1, <2>2
<1> QED
  BY <1>1 DEF ListRight

(* Whatever has become of the rest of a copy, merging it stops nothing.        *)
LEMMA CopyAgrees ==
  ASSUME CacheInv, NEW p \in Procs, proc[p].cid.f # -1, proc[p].pc \in {"add", "alloc"}
  PROVE  ~Disagree(proc[p].cid)
<1> DEFINE c == proc[p].cid
<1> SUFFICES ASSUME NEW i \in Same(c) PROVE lru[i].d = c.d
  BY DEF Disagree
<1>1. i \in DOMAIN lru /\ lru[i].f = c.f /\ lru \in Seq(Extent)
  BY Holds, Known DEF Same
<1>2. Fits(fat, start, lru[i])
  BY <1>1, Holds DEF ListRight
<1> DEFINE e == lru[i]
<1>3. e.f \in Nat /\ e.n \in Nat /\ e.d \in Int
  BY <1>1, Entry, Sizes
<1>4. Path(fat, start)[e.f] = e.d
  BY <1>2, <1>3, FitsBegins
<1>5. CopyFits(fat, start, validId, proc, proc[p])
  BY Mine
<1>6. Path(fat, start)[c.f] = c.d
  BY <1>5 DEF CopyFits, CopyBegins
<1> QED
  BY <1>1, <1>4, <1>6

(* A copy that may be added is so in the file, and agrees with the entry.      *)
LEMMA NewFits ==
  ASSUME CacheInv, NEW p \in Procs, proc[p].cid.f # -1, proc[p].pc \in {"add", "alloc"},
         \/ Current(proc[p].cid)
         \/ ~Reaches(proc[p])
  PROVE  LET c == proc[p].cid
         IN  /\ Fits(fat, start, c) /\ Below(proc, c.f + c.n)
             /\ Fits(fat, start, AsExtent(c)) /\ AsExtent(c).f = c.f /\ AsExtent(c).n = c.n
             /\ ~Disagree(c)
<1> DEFINE c == proc[p].cid
<1>1. CopyFits(fat, start, validId, proc, proc[p])
  BY Mine
<1>2. c.f \in Nat /\ c.n \in Nat /\ proc[p].target \in Nat
  BY CopyNumbers
<1>3. Fits(fat, start, c) /\ (~Reaches(proc[p]) \/ c.id = validId)
  BY <1>1 DEF CopyFits, Current
<1>4. Below(proc, c.f + c.n)
  <2>1. CASE c.id = validId
    BY <1>1, <2>1 DEF CopyFits
  <2>2. CASE ~Reaches(proc[p])
    <3>1. c.f + c.n \in Int /\ c.f + c.n <= proc[p].target
      BY <1>2, <2>2 DEF Reaches
    <3>2. proc[p].pc \notin {"idle", "free"}
      OBVIOUS
    <3> HIDE DEF c
    <3> QED
      BY <3>1, <3>2, TargetBelow
  <2> QED
    BY <1>3, <2>1, <2>2
<1>5. AsExtent(c).f = c.f /\ AsExtent(c).n = c.n /\ AsExtent(c).d = c.d
  BY DEF AsExtent
<1>6. Fits(fat, start, AsExtent(c))
  BY <1>3, <1>5 DEF Fits
<1>7. ~Disagree(c)
  BY CopyAgrees
<1> QED
  BY <1>3, <1>4, <1>5, <1>6, <1>7

(* The list goes on holding what it held.                                      *)
LEMMA CopyInKept ==
  ASSUME CacheInv, NEW q \in Procs, NEW s, NEW k, NEW b,
         \A i \in DOMAIN lru : \E j \in DOMAIN s : s[j].f = lru[i].f,
         nrCaches >= MaxCache /\ (\A r \in Procs : proc[r].pc # "alloc") =>
           k >= MaxCache /\ \A r \in Procs : b[r].pc # "alloc"
  PROVE  CopyIn(s, k, validId, b, proc[q])
<1> DEFINE me == proc[q]
<1> SUFFICES ASSUME Few, me.pc = "add", me.cid.f # -1, me.cid.id = validId, Reaches(me)
             PROVE  \/ \E i \in DOMAIN s : s[i].f = me.cid.f
                    \/ k >= MaxCache /\ \A r \in Procs : b[r].pc # "alloc"
  BY Zenon DEF CopyIn
<1>1. CopyIn(lru, nrCaches, validId, proc, me)
  BY Mine
<1>2. \/ \E i \in DOMAIN lru : lru[i].f = me.cid.f
      \/ nrCaches >= MaxCache /\ \A r \in Procs : proc[r].pc # "alloc"
  BY <1>1, Zenon DEF CopyIn
<1>3. CASE \E i \in DOMAIN lru : lru[i].f = me.cid.f
  <2>1. PICK i \in DOMAIN lru : lru[i].f = me.cid.f
    BY <1>3
  <2>2. PICK j \in DOMAIN s : s[j].f = lru[i].f
    BY <2>1
  <2>3. s[j].f = me.cid.f
    BY <2>1, <2>2, Zenon
  <2> QED
    BY <2>3
<1> QED
  BY <1>2, <1>3

LEMMA LookupRight ==
  ASSUME CacheInv, TypeInv', NEW p \in Procs, Lookup(p)
  PROVE  CacheInv'
<1> DEFINE me == proc[p]
<1>1. /\ me \in Local /\ proc \in [Procs -> Local] /\ CallRight(fat, start, me) /\ me.target \in Nat
      /\ lru \in Seq(Extent) /\ validId \in Ids \ {Valid} /\ ListRight(fat, start, lru, proc)
      /\ fault # "bug"
  BY Holds, Known, Mine
<1>2. me.pc = "lookup" /\ UNCHANGED <<file, nrCaches, validId, mutex, fault>>
  BY Zenon DEF Lookup
<1>3. fat' = fat /\ start' = start /\ size' = size /\ nrCaches' = nrCaches
      /\ validId' = validId /\ mutex' = mutex /\ fault' = fault
  BY <1>2 DEF file
<1>4. /\ me.target > 0 /\ me.fc = 0 /\ me.dc = start /\ me.cid = Dummy /\ start \in Cluster /\ start # 0
      /\ me.op \in {"read", "append", "cut"} /\ (me.op = "append" => me.target = Eof)
  BY <1>1, <1>2, Started, Mine DEF CallRight, AppendRight, Local
<1>5. CASE Bests(me.target) = {} /\ Goto(p, "walk") /\ UNCHANGED lru
  <2> DEFINE x == [me EXCEPT !.pc = "walk"]
  <2>1. /\ proc' = [proc EXCEPT ![p] = x] /\ x \in Local
        /\ x.pc = "walk" /\ x.op = me.op /\ x.target = me.target /\ x.cid = me.cid
        /\ x.fc = me.fc /\ x.dc = me.dc /\ x.arg = me.arg
    BY <1>1, <1>5, GotoMoves
  <2> HIDE DEF x
  <2>2. OnChain(fat, start, x)
    BY <1>4, <2>1, PathDef, Sizes DEF OnChain
  <2>3. CallRight(fat, start, x) /\ AppendRight(fat, start, x)
    BY <1>2, <1>4, <2>1, <2>2, OnWay
  <2>4. CopyFits(fat, start, validId, proc, x) /\ CopyIn(lru, nrCaches, validId, proc, x)
    BY <1>4, <2>1, DummyTyped DEF CopyFits, CopyIn
  <2>5. /\ CutStays(me, x) /\ CutRight(fat, start, size, x) /\ MutexStep(p, x, mutex, mutex')
        /\ x.op = "read" => Below(proc, x.target)
        /\ x.op = "read" /\ mutex' = p => x.target = size
    BY <1>2, <1>3, <2>1, OnCall
  <2>6. UNCHANGED cache /\ x.pc # "alloc"
    BY <1>3, <1>5, <2>1 DEF cache
  <2> QED
    BY <1>3, <2>1, <2>3, <2>4, <2>5, <2>6, Stays
<1>6. CASE Bests(me.target) # {}
  <2>1. PICK i \in DOMAIN lru :
           /\ IsHit(i, me.target) /\ lru' = ToFront(i)
           /\ proc' = [proc EXCEPT ![p] = Found(me, lru[i])]
    BY <1>1, <1>6, LookupHit
  <2> DEFINE e == lru[i]
             x == Found(me, e)
             covers == Covers(e, me.target)
  <2>2. /\ e \in Extent /\ e.f <= me.target /\ e.f \in Nat \ {0} /\ e.d \in Cluster /\ e.n \in Nat
        /\ e.d + e.n \in Cluster
    BY <1>1, <2>1, Entry, BestsRight
  <2>3. Fits(fat, start, e) /\ Below(proc, e.f + e.n)
    BY <1>1 DEF ListRight
  <2> HIDE DEF e
  <2>4. /\ x \in Local /\ x.op = me.op /\ x.arg = me.arg /\ x.target = me.target
        /\ x.cid.f = e.f /\ x.cid.d = e.d /\ x.cid.n = e.n /\ x.cid.id = validId
        /\ x.pc = IF covers THEN "add" ELSE "walk"
        /\ covers => x.fc = me.target /\ x.dc = e.d + (me.target - e.f) /\ me.target - e.f \in 0 .. e.n
        /\ ~covers => x.fc = e.f + e.n /\ x.dc = e.d + e.n /\ e.f + e.n < me.target
        /\ x.dc \in Cluster
    BY <1>1, <2>2, FoundTyped
  <2>5. proc' = [proc EXCEPT ![p] = x]
    BY <2>1 DEF e
  <2> HIDE DEF x, covers
  <2>6. e.f + e.n <= NClusters /\ Path(fat, start)[e.f + e.n] = e.d + e.n
    <3>1. e.n \in 0 .. e.n
      BY <2>2
    <3> QED
      BY <2>3, <3>1 DEF Fits
  <2>7. ASSUME covers PROVE CallRight(fat, start, x) /\ AppendRight(fat, start, x)
    <3> DEFINE k == me.target - e.f
    <3>1. k \in 0 .. e.n /\ e.f + k = me.target /\ x.dc = e.d + k /\ x.fc = me.target
      BY <1>1, <2>2, <2>4, <2>7
    <3> HIDE DEF k
    <3>2. e.f + k <= NClusters /\ Path(fat, start)[e.f + k] = e.d + k
      BY <2>3, <3>1 DEF Fits
    <3>3. OnChain(fat, start, x)
      BY <2>4, <3>1, <3>2 DEF OnChain
    <3>4. x.pc = "add" /\ x.op # "append"
      BY <1>4, <2>4, <2>7, <3>1, <3>2, Sizes
    <3> QED
      BY <1>2, <1>4, <2>4, <3>1, <3>3, <3>4, OnWay
  <2>8. ASSUME ~covers PROVE CallRight(fat, start, x) /\ AppendRight(fat, start, x)
    <3>1. x.pc = "walk" /\ x.fc < x.target
      BY <2>4, <2>8
    <3>2. OnChain(fat, start, x)
      BY <2>4, <2>6, <2>8 DEF OnChain
    <3> QED
      BY <1>2, <1>4, <2>4, <3>1, <3>2, OnWay
  <2>9. CallRight(fat, start, x) /\ AppendRight(fat, start, x)
    BY <2>7, <2>8
  <2>10. x.pc \in {"add", "walk"}
    BY <2>4
  <2>11. Fits(fat, start, x.cid) /\ Below(proc, x.cid.f + x.cid.n)
    BY <2>3, <2>4 DEF Fits
  <2>12. CopyFits(fat, start, validId, proc, x)
    <3>1. x.cid.id # Valid
      BY <1>1, <2>4
    <3>2. x.pc = "walk" => x.cid.f + x.cid.n = x.fc
      BY <2>4
    <3>3. e.d \in Int
      BY <2>2, Sizes
    <3>4. e.f <= NClusters /\ Path(fat, start)[e.f] = e.d
      BY <2>2, <2>3, <3>3, FitsBegins
    <3>5. CopyBegins(fat, start, x)
      BY <2>2, <2>4, <3>4 DEF CopyBegins
    <3> QED
      BY <2>10, <2>11, <3>1, <3>2, <3>5 DEF CopyFits
  <2>13. /\ lru' \in Seq(Extent) /\ Len(lru') = Len(lru) /\ DOMAIN lru' = DOMAIN lru
         /\ \A j \in DOMAIN lru : lru'[j] = IF j = 1 THEN lru[i] ELSE IF j <= i THEN lru[j - 1] ELSE lru[j]
    BY <1>1, <2>1, ToFrontRight
  <2>14. 1 \in DOMAIN lru
    BY <1>1, LenProperties
  <2>15. lru'[1] = e
    BY <2>13, <2>14 DEF e
  <2> DEFINE s == lru'
  <2>16. /\ DOMAIN s = DOMAIN lru /\ s[1] = lru[i]
         /\ \A j \in DOMAIN lru \ {1} : s[j] = IF j <= i THEN lru[j - 1] ELSE lru[j]
         /\ \A j, k \in DOMAIN lru : lru[j].f = lru[k].f => j = k
    BY <1>1, <2>13, <2>14 DEF ListRight
  <2> HIDE DEF s
  <2>17. /\ \A j \in DOMAIN s \ {1} : \E k \in DOMAIN lru : s[j] = lru[k]
         /\ \A k \in DOMAIN lru : \E j \in DOMAIN s : s[j].f = lru[k].f
         /\ \A j, k \in DOMAIN s : s[j].f = s[k].f => j = k
    BY <1>1, <2>16, FrontKeeps
  <2>18. ListRight(fat, start, s, proc)
    BY <1>1, <2>3, <2>14, <2>16, <2>17, ListKept DEF e
  <2>19. proc'[p] = x /\ \A q \in Procs : q # p => proc'[q] = proc[q]
    BY <1>1, <2>4, <2>5, Moved
  <2>20. (\A q \in Procs : proc[q].pc # "alloc") => \A q \in Procs : proc'[q].pc # "alloc"
    BY <2>10, <2>19
  <2>21. \A q \in Procs : CopyIn(s, nrCaches', validId', proc', proc[q])
    <3> SUFFICES ASSUME NEW q \in Procs PROVE CopyIn(s, nrCaches', validId', proc', proc[q])
      OBVIOUS
    <3>2. nrCaches >= MaxCache /\ (\A r \in Procs : proc[r].pc # "alloc") =>
            nrCaches' >= MaxCache /\ \A r \in Procs : proc'[r].pc # "alloc"
      BY <1>3, <2>20
    <3>3. CopyIn(s, nrCaches', validId, proc', proc[q])
      BY <2>17, <3>2, CopyInKept, Zenon
    <3> QED
      BY <1>3, <3>3
  <2>22. CopyIn(s, nrCaches', validId', proc', x)
    <3>1. 1 \in DOMAIN s /\ s[1].f = x.cid.f
      BY <2>4, <2>14, <2>16 DEF e
    <3> QED
      BY <3>1 DEF CopyIn
  <2>23. /\ CutStays(me, x) /\ CutRight(fat, start, size, x) /\ MutexStep(p, x, mutex, mutex')
         /\ x.op = "read" => Below(proc, x.target)
         /\ x.op = "read" /\ mutex' = p => x.target = size
    BY <1>2, <1>3, <2>4, <2>10, OnCall
  <2> QED
    BY <1>1, <1>3, <2>4, <2>5, <2>9, <2>12, <2>18, <2>21, <2>22, <2>23, Listed DEF s
<1>7. Bests(me.target) = {} => Goto(p, "walk") /\ UNCHANGED lru
  <2>1. \A i \in DOMAIN lru : IsHit(i, me.target) => Bests(me.target) # {}
    BY DEF IsHit
  <2> QED
    BY <2>1, Zenon DEF Lookup
<1> QED
  BY <1>5, <1>6, <1>7

LEMMA AddedRight ==
  ASSUME CacheInv, TypeInv', NEW p \in Procs, Goto(p, "got"), proc[p].pc \in {"add", "alloc"},
         UNCHANGED <<file, validId, mutex>>, fault' # "bug", ListRight(fat, start, lru', proc),
         \A q \in Procs \ {p} : CopyIn(lru', nrCaches', validId, proc', proc[q])
  PROVE  CacheInv'
<1> DEFINE me == proc[p]
           x == [me EXCEPT !.pc = "got"]
<1>1. proc \in [Procs -> Local] /\ CallRight(fat, start, me) /\ AppendRight(fat, start, me) /\ me \in Local
  BY Holds, Known, Mine
<1>2. /\ proc' = [proc EXCEPT ![p] = x] /\ x \in Local
      /\ x.pc = "got" /\ x.op = me.op /\ x.target = me.target /\ x.cid = me.cid
      /\ x.fc = me.fc /\ x.dc = me.dc /\ x.arg = me.arg
  BY <1>1, GotoMoves
<1>3. fat' = fat /\ start' = start /\ size' = size /\ validId' = validId /\ mutex' = mutex
  BY DEF file
<1> HIDE DEF x
<1>4. /\ OnChain(fat, start, x)
      /\ IF x.op = "append" THEN fat[x.dc] = Eof ELSE x.fc = x.target
  <2>1. me.op \in {"read", "append", "cut"} /\ start # 0
    BY <1>1, Started DEF CallRight, Local
  <2>2. OnChain(fat, start, me)
    BY <1>1, <2>1 DEF CallRight
  <2>3. me.op # "append" => me.fc = me.target
    BY <1>1, <2>1 DEF CallRight
  <2>4. me.op = "append" => fat[me.dc] = Eof
    BY <1>1, <2>1 DEF AppendRight
  <2> QED
    BY <1>2, <2>2, <2>3, <2>4 DEF OnChain
<1>5. me.pc \notin {"idle", "free"} /\ x.pc \notin {"idle", "free"} /\ start # 0
  BY <1>2, Started
<1>6. CallRight(fat, start, x) /\ AppendRight(fat, start, x)
  BY <1>2, <1>4, <1>5, OnWay
<1>7. CopyFits(fat, start, validId, proc, x) /\ CopyIn(lru', nrCaches', validId, proc', x)
  BY <1>2 DEF CopyFits, CopyIn
<1>8. /\ CutStays(me, x) /\ CutRight(fat, start, size, x) /\ MutexStep(p, x, mutex, mutex')
      /\ x.op = "read" => Below(proc, x.target)
      /\ x.op = "read" /\ mutex' = p => x.target = size
  BY <1>2, <1>3, <1>5, OnCall
<1>9. \A q \in Procs \ {p} : CopyIn(lru', nrCaches', validId', proc', proc[q])
  BY <1>3
<1>10. CopyIn(lru', nrCaches', validId', proc', x)
  BY <1>3, <1>7
<1> QED
  BY <1>2, <1>3, <1>6, <1>7, <1>8, <1>9, <1>10, Listed

(* A merge keeps what the list holds.                                          *)
LEMMA MergeMade ==
  ASSUME CacheInv, NEW p \in Procs, proc[p].cid.f # -1, ~Disagree(proc[p].cid),
         NEW i \in Same(proc[p].cid), lru' = Merged(proc[p].cid, i)
  PROVE  /\ i \in DOMAIN lru /\ lru[i].f = proc[p].cid.f /\ DOMAIN lru' = DOMAIN lru
         /\ \A j \in DOMAIN lru \ {1} : lru'[j] = IF j <= i THEN lru[j - 1] ELSE lru[j]
         /\ lru'[1] \in {lru[i], AsExtent(proc[p].cid)}
<1> DEFINE c == proc[p].cid
<1>1. lru \in Seq(Extent) /\ c \in Copy /\ CopyTyped(c)
  BY Holds, Known, CopyNumbers
<1>2. AsExtent(c) \in Extent /\ c.n \in Nat
  BY <1>1, CopyExtent
<1>3. lru[i].d = c.d /\ lru[i].f = c.f /\ i \in DOMAIN lru
  BY DEF Disagree, Same
<1> HIDE DEF c
<1>4. /\ DOMAIN Merged(c, i) = DOMAIN lru
      /\ \A j \in DOMAIN lru \ {1} : Merged(c, i)[j] = IF j <= i THEN lru[j - 1] ELSE lru[j]
      /\ Merged(c, i)[1] \in {lru[i], AsExtent(c)}
  <2>1. i \in Same(c)
    BY DEF c
  <2> QED
    BY <1>1, <1>2, <1>3, <2>1, MergedRight
<1>5. lru' = Merged(c, i)
  BY DEF c
<1> QED
  BY <1>3, <1>4, <1>5, Zenon DEF c

LEMMA MergeKeeps ==
  ASSUME CacheInv, NEW e, Fits(fat, start, e), Below(proc, e.f + e.n), NEW s,
         NEW i \in DOMAIN lru, lru[i].f = e.f, DOMAIN s = DOMAIN lru,
         \A j \in DOMAIN lru \ {1} : s[j] = IF j <= i THEN lru[j - 1] ELSE lru[j],
         s[1] \in {lru[i], e}
  PROVE  /\ ListRight(fat, start, s, proc)
         /\ \A k \in DOMAIN lru : \E j \in DOMAIN s : s[j].f = lru[k].f
<1>1. /\ lru \in Seq(Extent) /\ ListRight(fat, start, lru, proc)
  BY Holds DEF TypeInv, TypeOK
<1>5. 1 \in DOMAIN s
  BY <1>1, LenProperties
<1>6. s[1].f = lru[i].f
  OBVIOUS
<1>7. Fits(fat, start, s[1]) /\ Below(proc, s[1].f + s[1].n)
  <2>1. CASE s[1] = lru[i]
    BY <1>1, <2>1 DEF ListRight
  <2>2. CASE s[1] = e
    BY <2>2
  <2> QED
    BY <2>1, <2>2
<1>8. \A j, k \in DOMAIN lru : lru[j].f = lru[k].f => j = k
  BY <1>1 DEF ListRight
<1>9. /\ \A j \in DOMAIN s \ {1} : \E k \in DOMAIN lru : s[j] = lru[k]
      /\ \A k \in DOMAIN lru : \E j \in DOMAIN s : s[j].f = lru[k].f
      /\ \A j, k \in DOMAIN s : s[j].f = s[k].f => j = k
  BY <1>1, <1>6, <1>8, FrontKeeps
<1> QED
  BY <1>1, <1>5, <1>7, <1>9, ListKept

LEMMA MergeRight ==
  ASSUME CacheInv, NEW p \in Procs, proc[p].cid.f # -1, ~Disagree(proc[p].cid),
         Fits(fat, start, AsExtent(proc[p].cid)), Below(proc, AsExtent(proc[p].cid).f + AsExtent(proc[p].cid).n),
         AsExtent(proc[p].cid).f = proc[p].cid.f,
         \E i \in Same(proc[p].cid) : lru' = Merged(proc[p].cid, i)
  PROVE  /\ ListRight(fat, start, lru', proc)
         /\ \A k \in DOMAIN lru : \E j \in DOMAIN lru' : lru'[j].f = lru[k].f
<1>1. PICK i \in Same(proc[p].cid) : lru' = Merged(proc[p].cid, i)
  OBVIOUS
<1>2. /\ i \in DOMAIN lru /\ lru[i].f = proc[p].cid.f /\ DOMAIN lru' = DOMAIN lru
      /\ \A j \in DOMAIN lru \ {1} : lru'[j] = IF j <= i THEN lru[j - 1] ELSE lru[j]
      /\ lru'[1] \in {lru[i], AsExtent(proc[p].cid)}
  BY <1>1, MergeMade
<1> DEFINE s == lru'
           e == AsExtent(proc[p].cid)
<1>3. /\ i \in DOMAIN lru /\ lru[i].f = e.f /\ DOMAIN s = DOMAIN lru
      /\ \A j \in DOMAIN lru \ {1} : s[j] = IF j <= i THEN lru[j - 1] ELSE lru[j]
      /\ s[1] \in {lru[i], e}
      /\ Fits(fat, start, e) /\ Below(proc, e.f + e.n)
  BY <1>2
<1> HIDE DEF s, e
<1>4. /\ ListRight(fat, start, s, proc)
      /\ \A k \in DOMAIN lru : \E j \in DOMAIN s : s[j].f = lru[k].f
  BY <1>3, MergeKeeps
<1> QED
  BY <1>4 DEF s

(* A new entry in front of the first k.                                        *)
LEMMA FrontAdds ==
  ASSUME lru \in Seq(Extent), ListRight(fat, start, lru, proc), NEW e \in Extent,
         Fits(fat, start, e), Below(proc, e.f + e.n), \A i \in DOMAIN lru : lru[i].f # e.f,
         NEW k \in Nat, k <= Len(lru), NEW s, DOMAIN s = 1 .. k + 1, s[1] = e,
         \A j \in 2 .. k + 1 : s[j] = lru[j - 1] /\ j - 1 \in DOMAIN lru
  PROVE  ListRight(fat, start, s, proc)
<1>2. 1 \in DOMAIN s /\ \A j \in DOMAIN s \ {1} : j \in 2 .. k + 1
  OBVIOUS
<1>3. \A j \in DOMAIN s \ {1} : \E i \in DOMAIN lru : s[j] = lru[i]
  BY <1>2
<1>4. \A i, j \in DOMAIN s : s[i].f = s[j].f => i = j
  <2> SUFFICES ASSUME NEW i \in DOMAIN s, NEW j \in DOMAIN s, s[i].f = s[j].f PROVE i = j
    OBVIOUS
  <2>1. CASE i = 1 /\ j # 1
    BY <1>2, <1>3, <2>1
  <2>2. CASE j = 1 /\ i # 1
    BY <1>2, <1>3, <2>2
  <2>3. CASE i # 1 /\ j # 1
    <3>1. i \in 2 .. k + 1 /\ j \in 2 .. k + 1
      BY <1>2, <2>3
    <3>2. lru[i - 1].f = lru[j - 1].f /\ i - 1 \in DOMAIN lru /\ j - 1 \in DOMAIN lru
      BY <3>1
    <3>3. i - 1 = j - 1
      BY <3>2 DEF ListRight
    <3> QED
      BY <3>1, <3>3
  <2> QED
    BY <2>1, <2>2, <2>3
<1> QED
  BY <1>2, <1>3, <1>4, ListKept

(* There are no more than two.                                                 *)
LEMMA NoThird ==
  ASSUME IsFiniteSet(Procs), Cardinality(Procs) <= 2, NEW p \in Procs, NEW q \in Procs, p # q, NEW r \in Procs
  PROVE  r = p \/ r = q
<1> SUFFICES ASSUME r # p, r # q PROVE FALSE
  OBVIOUS
<1>1. IsFiniteSet({p}) /\ Cardinality({p}) = 1
  BY FS_Singleton
<1>2. IsFiniteSet({p} \cup {q}) /\ Cardinality({p} \cup {q}) = 2
  <2>1. q \notin {p}
    OBVIOUS
  <2> QED
    BY SMTT(30), <1>1, <2>1, FS_AddElement
<1> DEFINE S == {p} \cup {q}
<1>3. r \notin S
  OBVIOUS
<1> HIDE DEF S
<1>4. IsFiniteSet(S \cup {r}) /\ Cardinality(S \cup {r}) = 3
  <2>1. IsFiniteSet(S) /\ Cardinality(S) = 2
    BY <1>2 DEF S
  <2> QED
    BY <1>3, <2>1, FS_AddElement
<1>5. S \cup {r} \subseteq Procs
  BY DEF S
<1>6. Cardinality(S \cup {r}) <= Cardinality(Procs) /\ Cardinality(Procs) \in Nat
  BY <1>5, FS_Subset, FS_CardinalityType
<1> QED
  BY <1>4, <1>6

(* One process has got its answer.                                             *)
LEMMA GotoGot ==
  ASSUME proc \in [Procs -> Local], NEW p \in Procs, Goto(p, "got")
  PROVE  proc'[p].pc = "got" /\ \A q \in Procs : q # p => proc'[q] = proc[q]
<1> DEFINE x == [proc[p] EXCEPT !.pc = "got"]
<1>1. proc' = [proc EXCEPT ![p] = x] /\ x \in Local /\ x.pc = "got"
  BY GotoMoves
<1> HIDE DEF x
<1> QED
  BY <1>1, Moved

LEMMA AddRight ==
  ASSUME CacheInv, TypeInv', NEW p \in Procs, Add(p)
  PROVE  CacheInv'
<1> DEFINE me == proc[p]
           new == me.cid
<1>1. me.pc = "add" /\ UNCHANGED <<file, mutex>>
  BY Zenon DEF Add
<1>2. /\ me \in Local /\ proc \in [Procs -> Local] /\ new \in Copy /\ CopyTyped(new) /\ lru \in Seq(Extent)
      /\ ListRight(fat, start, lru, proc) /\ fault # "bug" /\ nrCaches \in Nat
      /\ CallRight(fat, start, me) /\ AppendRight(fat, start, me)
  BY Holds, Known, Mine, CopyNumbers
<1>3. fat' = fat /\ start' = start /\ size' = size /\ mutex' = mutex
  BY <1>1 DEF file
<1>4. start # 0 /\ me.op \in {"read", "append", "cut"} /\ OnChain(fat, start, me)
      /\ IF me.op = "append" THEN fat[me.dc] = Eof ELSE me.fc = me.target
  BY <1>1, <1>2, Started DEF CallRight, AppendRight, Local
<1>5. new.f # -1 /\ Current(new) =>
        /\ Fits(fat, start, new) /\ Below(proc, new.f + new.n)
        /\ Fits(fat, start, AsExtent(new)) /\ AsExtent(new).f = new.f /\ AsExtent(new).n = new.n
        /\ ~Disagree(new)
  BY <1>1, NewFits
<1>6. CASE Goto(p, "got") /\ UNCHANGED <<cache, fault>>
  BY <1>1, <1>4, <1>6, GotoRight
<1>7. CASE /\ new.f # -1 /\ Current(new)
           /\ \E i \in Same(new) : lru' = Merged(new, i)
           /\ Goto(p, "got")
           /\ UNCHANGED <<nrCaches, fault, validId>>
  <2>2. /\ ListRight(fat, start, lru', proc)
        /\ \A k \in DOMAIN lru : \E j \in DOMAIN lru' : lru'[j].f = lru[k].f
    BY <1>5, <1>7, MergeRight
  <2>3. /\ proc'[p].pc = "got" /\ \A q \in Procs : q # p => proc'[q] = proc[q]
    BY <1>2, <1>7, GotoGot
  <2>4. nrCaches >= MaxCache /\ (\A r \in Procs : proc[r].pc # "alloc") =>
          nrCaches' >= MaxCache /\ \A r \in Procs : proc'[r].pc # "alloc"
    BY <1>7, <2>3
  <2>5. \A q \in Procs : CopyIn(lru', nrCaches', validId, proc', proc[q])
    BY <2>2, <2>4, CopyInKept
  <2>6. UNCHANGED <<file, validId, mutex>> /\ fault' # "bug"
    BY <1>1, <1>2, <1>7
  <2> QED
    BY <1>1, <1>7, <2>2, <2>5, <2>6, AddedRight
<1>8. CASE /\ new.f # -1 /\ Current(new) /\ Same(new) = {} /\ Room
           /\ nrCaches' = nrCaches + 1
           /\ Goto(p, "alloc")
           /\ UNCHANGED <<lru, fault, validId>>
  <2> DEFINE x == [me EXCEPT !.pc = "alloc"]
  <2>1. /\ proc' = [proc EXCEPT ![p] = x] /\ x \in Local
        /\ x.pc = "alloc" /\ x.op = me.op /\ x.target = me.target /\ x.cid = new
        /\ x.fc = me.fc /\ x.dc = me.dc /\ x.arg = me.arg
    BY <1>2, <1>8, GotoMoves
  <2> HIDE DEF x
  <2>2. OnChain(fat, start, x) /\ IF x.op = "append" THEN fat[x.dc] = Eof ELSE x.fc = x.target
    BY <1>4, <2>1 DEF OnChain
  <2>3. CallRight(fat, start, x) /\ AppendRight(fat, start, x)
    BY <1>1, <1>4, <2>1, <2>2, OnWay
  <2>4. nrCaches < MaxCache /\ MaxCache \in Nat
    BY <1>8, Sizes DEF Room
  <2>5. Few => ~Reaches(me)
    <3> SUFFICES ASSUME Few, Reaches(me) PROVE FALSE
      OBVIOUS
    <3>1. CopyFits(fat, start, validId, proc, me) /\ CopyIn(lru, nrCaches, validId, proc, me)
      BY Mine
    <3>2. new.id = validId
      BY <1>1, <1>8, <3>1 DEF CopyFits, Current
    <3>3. \E i \in DOMAIN lru : lru[i].f = new.f
      BY <1>1, <1>2, <1>8, <2>4, <3>1, <3>2 DEF CopyIn
    <3> QED
      BY <1>8, <3>3 DEF Same
  <2>6. Reaches(x) <=> Reaches(me)
    BY <2>1 DEF Reaches
  <2>7. CopyFits(fat, start, validId, proc, x) /\ CopyIn(lru', nrCaches', validId', proc', x)
    <3>1. CopyFits(fat, start, validId, proc, me)
      BY Mine
    <3>2. CopyBegins(fat, start, x)
      BY <1>1, <1>8, <2>1, <3>1 DEF CopyFits, CopyBegins
    <3> QED
      BY <1>1, <1>5, <1>8, <2>1, <2>5, <2>6, <3>1, <3>2 DEF CopyFits, CopyIn
  <2>8. lru' = lru /\ validId' = validId /\ fault' = fault
    BY <1>8
  <2>9. \A q \in Procs : CopyIn(lru', nrCaches', validId', proc', proc[q])
    <3>1. nrCaches >= MaxCache /\ (\A r \in Procs : proc[r].pc # "alloc") =>
            nrCaches' >= MaxCache /\ \A r \in Procs : proc'[r].pc # "alloc"
      BY <1>2, <2>4
    <3> QED
      BY <2>8, <3>1, CopyInKept
  <2>10. /\ CutStays(me, x) /\ CutRight(fat, start, size, x) /\ MutexStep(p, x, mutex, mutex')
         /\ x.op = "read" => Below(proc, x.target)
         /\ x.op = "read" /\ mutex' = p => x.target = size
    BY <1>1, <1>3, <2>1, OnCall
  <2>11. ListRight(fat, start, lru', proc)
    BY <1>2, <2>8
  <2> QED
    BY <1>2, <1>3, <2>1, <2>3, <2>7, <2>8, <2>9, <2>10, <2>11, Listed
<1>9. CASE /\ new.f # -1 /\ Current(new) /\ Same(new) = {} /\ ~Room
           /\ IF lru = <<>> THEN fault' = "wild" /\ UNCHANGED lru
              ELSE lru' = <<AsExtent(new)>> \o SubSeq(lru, 1, Len(lru) - 1) /\ UNCHANGED fault
           /\ Goto(p, "got")
           /\ UNCHANGED <<nrCaches, validId>>
  <2>1. ListRight(fat, start, lru', proc) /\ fault' # "bug"
    <3>1. CASE lru = <<>>
      BY <1>2, <1>9, <3>1
    <3>2. CASE lru # <<>>
      <4>1. Len(lru) - 1 \in Nat /\ Len(lru) - 1 <= Len(lru)
        BY <1>2, <3>2, EmptySeq, LenProperties
      <4>2. AsExtent(new) \in Extent
        BY <1>2, <1>9, CopyExtent
      <4>3. \A i \in DOMAIN lru : lru[i].f # AsExtent(new).f
        BY <1>5, <1>9 DEF Same
      <4>4. Fits(fat, start, AsExtent(new)) /\ Below(proc, AsExtent(new).f + AsExtent(new).n)
        BY <1>5, <1>9
      <4> DEFINE e == AsExtent(new)
                 s == <<e>> \o SubSeq(lru, 1, Len(lru) - 1)
      <4>5. lru' = s /\ fault' = fault
        BY <1>9, <3>2
      <4> HIDE DEF e
      <4>6. e \in Extent /\ Fits(fat, start, e) /\ Below(proc, e.f + e.n) /\ \A i \in DOMAIN lru : lru[i].f # e.f
        BY <4>2, <4>3, <4>4 DEF e
      <4> DEFINE k == Len(lru) - 1
      <4> HIDE DEF k
      <4>8. /\ DOMAIN s = 1 .. k + 1 /\ s[1] = e
            /\ \A j \in 2 .. k + 1 : s[j] = lru[j - 1] /\ j - 1 \in DOMAIN lru
        <5>1. k \in Nat /\ k <= Len(lru) /\ s = <<e>> \o SubSeq(lru, 1, k)
          BY <4>1 DEF k
        <5> HIDE DEF s
        <5> QED
          BY <1>2, <4>6, <5>1, FrontRight
      <4> HIDE DEF s
      <4>9. k \in Nat /\ k <= Len(lru)
        BY <4>1 DEF k
      <4>7. ListRight(fat, start, s, proc)
        BY <1>2, <4>6, <4>8, <4>9, FrontAdds
      <4> QED
        BY <1>2, <4>5, <4>7
    <3> QED
      BY <3>1, <3>2
  <2>2. /\ proc'[p].pc = "got" /\ \A q \in Procs : q # p => proc'[q] = proc[q]
    BY <1>2, <1>9, GotoGot
  <2>3. nrCaches' >= MaxCache
    BY <1>2, <1>9, Sizes DEF Room
  <2>4. ASSUME NEW q \in Procs \ {p} PROVE CopyIn(lru', nrCaches', validId, proc', proc[q])
    <3> SUFFICES ASSUME Few, proc[q].pc = "add" PROVE \A r \in Procs : proc'[r].pc # "alloc"
      BY <2>3 DEF CopyIn
    <3>1. \A r \in Procs : r = p \/ r = q
      BY NoThird DEF Few
    <3> QED
      BY <2>2, <3>1
  <2>5. UNCHANGED <<file, validId, mutex>>
    BY <1>1, <1>9
  <2> QED
    BY <1>1, <1>9, <2>1, <2>4, <2>5, AddedRight
<1>10. ~BugOn(p) \/ ~(new.f # -1 /\ Current(new))
  BY <1>5 DEF BugOn
<1> QED
  BY <1>6, <1>7, <1>8, <1>9, <1>10, Zenon DEF Add

(* The one step that can put into the list what is not so in the file: the id  *)
(* is not looked at again after the allocation, and the copy has an old one and *)
(* says more than its call has walked.                                         *)
AddsStale(p) ==
  /\ AddAllocated(p) /\ lru' # lru
  /\ ~Current(proc[p].cid) /\ Reaches(proc[p])

LEMMA AddAllocatedRight ==
  ASSUME CacheInv, TypeInv', NEW p \in Procs, AddAllocated(p), ~AddsStale(p)
  PROVE  CacheInv'
<1> DEFINE me == proc[p]
           new == me.cid
<1>1. me.pc = "alloc" /\ UNCHANGED <<file, validId, mutex>>
  BY Zenon DEF AddAllocated
<1>2. /\ me \in Local /\ proc \in [Procs -> Local] /\ new \in Copy /\ CopyTyped(new) /\ lru \in Seq(Extent)
      /\ ListRight(fat, start, lru, proc) /\ fault # "bug"
  BY Holds, Known, Mine, CopyNumbers
<1>3. new.f # -1
  BY <1>1, Mine DEF CallTyped
<1>4. lru' # lru =>
        /\ Fits(fat, start, new) /\ Below(proc, new.f + new.n)
        /\ Fits(fat, start, AsExtent(new)) /\ AsExtent(new).f = new.f /\ AsExtent(new).n = new.n
  <2> SUFFICES ASSUME Current(new) \/ ~Reaches(me)
               PROVE  /\ Fits(fat, start, new) /\ Below(proc, new.f + new.n)
                      /\ Fits(fat, start, AsExtent(new)) /\ AsExtent(new).f = new.f /\ AsExtent(new).n = new.n
    BY Zenon DEF AddsStale
  <2>1. me.pc \in {"add", "alloc"}
    BY <1>1
  <2> QED
    BY <1>3, <2>1, NewFits
<1>5. \A k, b : nrCaches >= MaxCache /\ (\A r \in Procs : proc[r].pc # "alloc") =>
                  k >= MaxCache /\ \A r \in Procs : b[r].pc # "alloc"
  BY <1>1
<1>9. ~Disagree(new)
  BY <1>1, <1>3, CopyAgrees
<1>10. CASE lru' = lru /\ Goto(p, "got") /\ UNCHANGED fault
  <2>1. \A i \in DOMAIN lru : \E j \in DOMAIN lru' : lru'[j].f = lru[i].f
    BY <1>10
  <2>2. \A q \in Procs : CopyIn(lru', nrCaches', validId, proc', proc[q])
    BY <1>5, <2>1, CopyInKept
  <2>3. ListRight(fat, start, lru', proc) /\ fault' # "bug"
    BY <1>2, <1>10
  <2> QED
    BY <1>1, <1>10, <2>2, <2>3, AddedRight
<1>6. CASE /\ lru' # lru
           /\ \E i \in Same(new) : lru' = Merged(new, i)
           /\ Goto(p, "got")
           /\ UNCHANGED fault
  <2>2. /\ ListRight(fat, start, lru', proc)
        /\ \A k \in DOMAIN lru : \E j \in DOMAIN lru' : lru'[j].f = lru[k].f
    BY <1>3, <1>4, <1>6, <1>9, MergeRight
  <2>3. \A q \in Procs : CopyIn(lru', nrCaches', validId, proc', proc[q])
    BY <1>5, <2>2, CopyInKept
  <2>4. fault' # "bug"
    BY <1>2, <1>6
  <2> QED
    BY <1>1, <1>6, <2>2, <2>3, <2>4, AddedRight
<1>7. CASE /\ lru' # lru
           /\ Same(new) = {} /\ lru' = <<AsExtent(new)>> \o lru /\ Goto(p, "got") /\ UNCHANGED <<nrCaches, fault>>
  <2>1. SubSeq(lru, 1, Len(lru)) = lru /\ Len(lru) \in Nat /\ Len(lru) <= Len(lru)
    BY <1>2, WholeList, LenProperties
  <2> DEFINE e == AsExtent(new)
             s == <<e>> \o SubSeq(lru, 1, Len(lru))
  <2>2. lru' = s
    BY <1>7, <2>1, Zenon
  <2>3. e \in Extent
    BY <1>2, <1>3, CopyExtent
  <2>4. \A i \in DOMAIN lru : lru[i].f # e.f
    <3>1. e.f = new.f
      BY <1>4, <1>7
    <3> QED
      BY <1>7, <3>1 DEF Same
  <2>5. Fits(fat, start, e) /\ Below(proc, e.f + e.n)
    BY <1>4, <1>7
  <2> HIDE DEF e
  <2> DEFINE k == Len(lru)
  <2>10. /\ DOMAIN s = 1 .. k + 1 /\ s[1] = e
         /\ \A j \in 2 .. k + 1 : s[j] = lru[j - 1] /\ j - 1 \in DOMAIN lru
    BY <1>2, <2>1, <2>3, FrontRight
  <2> HIDE DEF s
  <2>6. /\ ListRight(fat, start, s, proc)
        /\ \A i \in DOMAIN lru : \E j \in DOMAIN s : s[j].f = lru[i].f
    <3>1. k \in Nat /\ k <= Len(lru)
      BY <2>1
    <3>2. \A i \in DOMAIN lru : i <= k
      BY <1>2, LenProperties
    <3> HIDE DEF k
    <3>3. ListRight(fat, start, s, proc)
      BY <1>2, <2>3, <2>4, <2>5, <2>10, <3>1, FrontAdds
    <3>4. ASSUME NEW i \in DOMAIN lru PROVE \E j \in DOMAIN s : s[j].f = lru[i].f
      <4>1. i + 1 \in 2 .. k + 1 /\ (i + 1) - 1 = i /\ i + 1 \in 1 .. k + 1
        BY <1>2, <3>1, <3>2, LenProperties
      <4>2. s[i + 1] = lru[(i + 1) - 1] /\ i + 1 \in DOMAIN s
        BY <2>10, <4>1, Zenon
      <4>3. s[i + 1] = lru[i]
        BY <4>1, <4>2, Zenon
      <4> QED
        BY <4>2, <4>3
    <3> QED
      BY <3>3, <3>4
  <2>7. \A q \in Procs : CopyIn(s, nrCaches', validId, proc', proc[q])
    BY <1>5, <2>6, CopyInKept
  <2>8. fault' # "bug"
    BY <1>2, <1>7
  <2>9. ListRight(fat, start, lru', proc) /\ \A q \in Procs : CopyIn(lru', nrCaches', validId, proc', proc[q])
    BY <2>2, <2>6, <2>7
  <2> QED
    BY <1>1, <1>7, <2>8, <2>9, AddedRight
<1>8. ~BugOn(p)
  BY <1>9 DEF BugOn
<1> QED
  BY <1>6, <1>7, <1>8, <1>10, Zenon DEF AddAllocated

-----------------------------------------------------------------------------
(* Reads, and the steps that leave the chain of the file as it is.             *)

LEMMA IdleRight ==
  ASSUME NEW f, NEW c, NEW s
  PROVE  CallRight(f, c, Idle) /\ AppendRight(f, c, Idle) /\ CutRight(f, c, s, Idle)
BY IdleTyped DEF CallRight, AppendRight, CutRight

(* The head of fat_get_cluster, for a cluster that the file has.               *)
LEMMA GetRight ==
  ASSUME NEW f, NEW c \in Cluster, NEW x, x.op \in {"read", "cut"}, x.target \in Nat, x.target <= NClusters,
         Path(f, c)[x.target] \in Cluster, x.cid = Dummy, x.fc = 0, x.dc = c,
         x.pc = IF x.target = 0 THEN "got" ELSE "lookup"
  PROVE  CallRight(f, c, x) /\ AppendRight(f, c, x)
<1>1. OnChain(f, c, x)
  BY PathDef, Sizes DEF OnChain
<1> QED
  BY <1>1 DEF CallRight, AppendRight

LEMMA NotMine ==
  ASSUME CacheInv, NEW p \in Procs, proc[p].pc = "idle"
  PROVE  mutex # p
<1>1. proc[p].op = "none"
  BY Mine DEF CallRight
<1> QED
  BY <1>1, Holds, NoProcAssumption DEF CallsRight

(* Who cuts or appends holds the mutex.                                        *)
LEMMA Holder ==
  ASSUME CacheInv, NEW q \in Procs, proc[q].op \in {"append", "cut"}
  PROVE  mutex = q
BY Mine DEF CallTyped

LEMMA ReadBeginRight ==
  ASSUME CacheInv, TypeInv', NEW p \in Procs, ReadBegin(p)
  PROVE  CacheInv'
<1> DEFINE me == [Idle EXCEPT !.op = "read"]
<1>1. proc[p].pc = "idle" /\ UNCHANGED <<file, cache, mutex, fault>>
  BY DEF ReadBegin
<1>2. PICK t \in 0 .. size - 1 : proc' = [proc EXCEPT ![p] = GetCluster(me, t)]
  BY DEF ReadBegin
<1>3. fat' = fat /\ start' = start /\ size' = size /\ UNCHANGED cache /\ mutex' = mutex /\ fault' = fault
  BY <1>1 DEF file
<1>4. size \in Nat /\ t \in Nat /\ size > 0 /\ start \in 0 .. NClusters /\ start # 0 /\ start \in Cluster
  <2>1. size \in Nat /\ start \in 0 .. NClusters /\ (size > 0 => start # 0)
    BY Holds, Known
  <2> QED
    BY <2>1, Sizes
<1>5. t <= NClusters /\ Path(fat, start)[t] \in Cluster
  BY Holds DEF FileRight
<1>6. me \in Local /\ me.op = "read"
  BY IdleTyped DEF Local
<1> DEFINE x == GetCluster(me, t)
<1> HIDE DEF me
<1>7. /\ x \in Local /\ x.op = "read" /\ x.target = t /\ x.cid = Dummy /\ x.fc = 0 /\ x.dc = start
      /\ x.pc = IF t = 0 THEN "got" ELSE "lookup"
  <2>1. Begun(x, me, t, start)
    BY Zenon, <1>4, <1>6, GetClusterTyped
  <2> QED
    BY <1>4, <1>6, <2>1 DEF Begun
<1>8. proc' = [proc EXCEPT ![p] = x]
  BY <1>2 DEF me
<1> HIDE DEF x
<1>9. CallRight(fat, start, x) /\ AppendRight(fat, start, x)
  BY <1>4, <1>5, <1>7, GetRight
<1>10. CutRight(fat, start, size, x) /\ CutStays(proc[p], x)
  BY <1>7 DEF CutRight, CutStays
<1>11. mutex # p
  BY <1>1, NotMine
<1>12. MutexStep(p, x, mutex, mutex')
  BY <1>3, <1>11 DEF MutexStep
<1>13. Below(proc, x.target)
  <2> SUFFICES ASSUME NEW q \in Procs, proc[q].op = "cut" PROVE t < proc[q].arg
    BY <1>7 DEF Below
  <2>1. size = proc[q].arg
    BY Mine DEF CutRight
  <2> QED
    BY <1>4, <2>1
<1>14. x.pc \in {"got", "lookup"}
  BY <1>7
<1>15. CopyFits(fat, start, validId, proc, x) /\ CopyIn(lru, nrCaches, validId, proc, x)
  BY <1>14 DEF CopyFits, CopyIn
<1> QED
  BY <1>3, <1>7, <1>8, <1>9, <1>10, <1>11, <1>12, <1>13, <1>14, <1>15, Stays

(* A step of p to x, under the mutex, that leaves the chain; the size stays    *)
(* within it, and the cache stays or is invalidated.                           *)
LEMMA Outside ==
  ASSUME CacheInv, TypeInv', NEW p \in Procs, NEW x \in Local, proc' = [proc EXCEPT ![p] = x],
         mutex \in {p, NoProc}, MutexStep(p, x, mutex, mutex'), fault' = fault, start' = start,
         x.pc \notin {"walk", "add", "alloc"}, x.op # "read", CutStays(proc[p], x),
         \A c \in Used(fat, start) : fat'[c] = fat[c], FileRight(fat, start, size'),
         CallRight(fat', start, x), AppendRight(fat', start, x), CutRight(fat', start, size', x),
         \/ UNCHANGED cache
         \/ lru' = <<>> /\ \A q \in Procs \ {p} : proc[q].pc = "idle" \/ proc[q].cid.id # validId'
  PROVE  CacheInv'
<1> DEFINE K == NClusters + 1
<1>1. proc \in [Procs -> Local] /\ NClusters \in Nat /\ K \in Int
  BY Holds, Sizes DEF TypeInv, TypeOK
<1>8. \A k \in Nat : k <= NClusters => k < K
  BY Sizes
<1>2. \A i \in 0 .. NClusters : Path(fat', start)[i] = Path(fat, start)[i]
  BY Untouched
<1>3. Agree(fat, start, fat', start', K)
  BY <1>2 DEF Agree
<1>4. FileRight(fat', start', size')
  <2>1. \A i \in 0 .. NClusters : Path(fat, start)[i] \in Cluster => Path(fat, start)[i] \in Used(fat, start)
    BY UsedPlace
  <2>2. \A i \in 0 .. NClusters : Path(fat', start)[i] \in Cluster => fat'[Path(fat', start)[i]] # Free
    <3> SUFFICES ASSUME NEW i \in 0 .. NClusters, Path(fat', start)[i] \in Cluster
                 PROVE  fat'[Path(fat', start)[i]] # Free
      OBVIOUS
    <3>1. Path(fat', start)[i] = Path(fat, start)[i]
      BY <1>2
    <3>2. fat[Path(fat, start)[i]] # Free /\ fat'[Path(fat, start)[i]] = fat[Path(fat, start)[i]]
      BY <2>1, <3>1 DEF FileRight
    <3> QED
      BY <3>1, <3>2, Zenon
  <2>3. NoRepeat(fat', start)
    BY <1>2 DEF FileRight, NoRepeat
  <2>4. \A t \in 0 .. size' - 1 : t <= NClusters /\ Path(fat', start)[t] \in Cluster
    <3> SUFFICES ASSUME NEW t \in 0 .. size' - 1 PROVE t <= NClusters /\ Path(fat', start)[t] \in Cluster
      OBVIOUS
    <3>1. t <= NClusters /\ Path(fat, start)[t] \in Cluster
      BY DEF FileRight
    <3>2. t \in 0 .. NClusters
      BY <1>1, <3>1
    <3> QED
      BY <1>2, <3>1, <3>2
  <2> QED
    BY <2>2, <2>3, <2>4 DEF FileRight
<1>5. \A k : Below(proc, k) => Below(proc', k)
  BY <1>1, BelowKept
<1>6. ASSUME NEW q \in Procs \ {p}, proc[q].op = "read"
      PROVE  proc[q].target < K /\ Below(proc', proc[q].target)
  <2>1. CallRight(fat, start, proc[q]) /\ Below(proc, proc[q].target) /\ proc[q].target \in Nat
    BY <1>6, Mine, CopyNumbers
  <2>2. proc[q].target <= NClusters
    BY <1>6, <2>1 DEF CallRight
  <2>3. proc[q].target < K
    BY <1>8, <2>1, <2>2
  <2> QED
    BY <1>5, <2>1, <2>3, Zenon
<1>7. \A k \in Nat : k <= NClusters /\ Below(proc, k) => k < K /\ Below(proc', k)
  BY <1>5, <1>8, Zenon
<1> HIDE DEF K
<1> QED
  BY <1>1, <1>3, <1>4, <1>6, <1>7, Changed

LEMMA IdleStep ==
  ASSUME NEW p, NEW m, NEW me
  PROVE  /\ MutexStep(p, Idle, m, IF m = p THEN NoProc ELSE m) /\ CutStays(me, Idle) /\ Idle \in Local
         /\ Idle.op # "read" /\ Idle.pc \notin {"walk", "add", "alloc"}
         /\ \A f, c, v, a : CopyFits(f, c, v, a, Idle) /\ CopyIn(f, c, v, a, Idle)
<1>1. Idle \in Local /\ Idle.op = "none" /\ Idle.pc = "idle"
  BY IdleTyped
<1> QED
  BY <1>1 DEF MutexStep, CutStays, CopyFits, CopyIn

LEMMA ReturnRight ==
  ASSUME CacheInv, TypeInv', NEW p \in Procs, Return(p)
  PROVE  CacheInv'
<1>1. /\ proc[p].pc = "got" /\ proc[p].op = "read" /\ proc' = [proc EXCEPT ![p] = Idle]
      /\ fat' = fat /\ start' = start /\ UNCHANGED cache /\ fault' = fault
      /\ IF mutex = p THEN size' = size + 1 /\ mutex' = NoProc ELSE UNCHANGED <<size, mutex>>
  BY DEF Return
<1>2. mutex' = IF mutex = p THEN NoProc ELSE mutex
  BY <1>1
<1>3. /\ MutexStep(p, Idle, mutex, mutex') /\ CutStays(proc[p], Idle) /\ Idle \in Local
      /\ Idle.op # "read" /\ Idle.pc \notin {"walk", "add", "alloc"}
      /\ CopyFits(fat, start, validId, proc, Idle) /\ CopyIn(lru, nrCaches, validId, proc, Idle)
  BY <1>2, IdleStep, Zenon
<1>4. CASE mutex = p
  <2>1. proc[p].target = size /\ CallRight(fat, start, proc[p]) /\ FileRight(fat, start, size) /\ size \in Nat
    BY <1>1, <1>4, Mine, Holds, Known
  <2>2. size <= NClusters /\ Path(fat, start)[size] \in Cluster
    BY <1>1, <2>1 DEF CallRight
  <2>3. FileRight(fat, start, size')
    <3>1. \A t \in 0 .. size' - 1 : t \in 0 .. size - 1 \/ t = size
      BY <1>1, <1>4, <2>1
    <3> QED
      BY <2>1, <2>2, <3>1 DEF FileRight
  <2>4. CallRight(fat', start, Idle) /\ AppendRight(fat', start, Idle) /\ CutRight(fat', start, size', Idle)
    BY IdleRight
  <2>5. \A c \in Used(fat, start) : fat'[c] = fat[c]
    BY <1>1
  <2> QED
    BY <1>1, <1>3, <1>4, <2>3, <2>4, <2>5, Outside
<1>5. CASE mutex # p
  <2>1. size' = size /\ mutex' = mutex
    BY <1>1, <1>5
  <2>2. CallRight(fat, start, Idle) /\ AppendRight(fat, start, Idle) /\ CutRight(fat, start, size, Idle)
    BY IdleRight
  <2> QED
    BY <1>1, <1>3, <2>1, <2>2, Stays
<1> QED
  BY <1>4, <1>5

LEMMA FailRight ==
  ASSUME CacheInv, TypeInv', NEW p \in Procs, Fail(p)
  PROVE  CacheInv'
<1> DEFINE me == proc[p]
<1>1. /\ me.pc = "fail" /\ proc' = [proc EXCEPT ![p] = Idle]
      /\ fat' = IF me.op = "append" THEN [fat EXCEPT ![me.arg] = Free] ELSE fat
      /\ start' = start /\ size' = size /\ UNCHANGED cache /\ fault' = fault
      /\ mutex' = IF mutex = p THEN NoProc ELSE mutex
  BY DEF Fail
<1>2. /\ MutexStep(p, Idle, mutex, mutex') /\ CutStays(me, Idle) /\ Idle \in Local
      /\ Idle.op # "read" /\ Idle.pc \notin {"walk", "add", "alloc"}
      /\ CopyFits(fat, start, validId, proc, Idle) /\ CopyIn(lru, nrCaches, validId, proc, Idle)
  BY <1>1, IdleStep, Zenon
<1>3. CASE me.op = "append"
  <2>1. mutex = p /\ me.arg \notin Used(fat, start) /\ FileRight(fat, start, size')
    BY <1>1, <1>3, Holder, Mine, Holds DEF AppendRight
  <2>2. \A c \in Used(fat, start) : fat'[c] = fat[c]
    <3>1. fat \in [Cluster -> 0 .. Eof]
      BY Holds, Known
    <3>2. fat' = [fat EXCEPT ![me.arg] = Free]
      BY <1>1, <1>3
    <3> QED
      BY <2>1, <3>1, <3>2, UsedPlace
  <2>3. CallRight(fat', start, Idle) /\ AppendRight(fat', start, Idle) /\ CutRight(fat', start, size', Idle)
    BY IdleRight
  <2> QED
    BY <1>1, <1>2, <2>1, <2>2, <2>3, Outside
<1>4. CASE me.op # "append"
  <2>1. fat' = fat
    BY <1>1, <1>4
  <2>2. CallRight(fat, start, Idle) /\ AppendRight(fat, start, Idle) /\ CutRight(fat, start, size, Idle)
    BY IdleRight
  <2> QED
    BY <1>1, <1>2, <2>1, <2>2, Stays
<1> QED
  BY <1>3, <1>4

LEMMA FreeTailRight ==
  ASSUME CacheInv, TypeInv', NEW p \in Procs, FreeTail(p)
  PROVE  CacheInv'
<1> DEFINE me == proc[p]
           tail == ChainFrom(me.dc)
<1>1. /\ me.pc = "free" /\ fat' = [c \in Cluster |-> IF c \in tail THEN Free ELSE fat[c]]
      /\ proc' = [proc EXCEPT ![p] = Idle] /\ mutex' = NoProc
      /\ start' = start /\ size' = size /\ UNCHANGED cache /\ fault' = fault
  BY DEF FreeTail
<1>2. me.op = "cut" /\ mutex = p
  BY <1>1, Mine, Holder DEF CallRight
<1>3. tail = Used(fat, me.dc)
  BY PlacePath DEF ChainFrom, Used
<1>4. Used(fat, me.dc) \cap Used(fat, start) = {} /\ FileRight(fat, start, size')
  BY <1>1, <1>2, Mine, Holds DEF CutRight
<1> HIDE DEF tail
<1>5. \A c \in Used(fat, start) : fat'[c] = fat[c]
  BY <1>1, <1>3, <1>4, UsedPlace
<1>6. mutex' = IF mutex = p THEN NoProc ELSE mutex
  BY <1>1, <1>2
<1>7. /\ MutexStep(p, Idle, mutex, mutex') /\ CutStays(me, Idle) /\ Idle \in Local
      /\ Idle.op # "read" /\ Idle.pc \notin {"walk", "add", "alloc"}
  BY <1>6, IdleStep, Zenon
<1>8. CallRight(fat', start, Idle) /\ AppendRight(fat', start, Idle) /\ CutRight(fat', start, size', Idle)
  BY IdleRight
<1> QED
  BY <1>1, <1>2, <1>4, <1>5, <1>7, <1>8, Outside

LEMMA Fewer ==
  ASSUME NEW m \in Nat, NEW n \in 0 .. m - 1
  PROVE  \A t \in 0 .. n - 1 : t \in 0 .. m - 1
OBVIOUS

LEMMA CutNotWrittenRight ==
  ASSUME CacheInv, TypeInv', NEW p \in Procs, CutNotWritten(p)
  PROVE  CacheInv'
<1>1. /\ proc[p].pc = "idle" /\ mutex = NoProc /\ IdNotReused /\ Invalidate /\ size' \in 0 .. size - 1
      /\ fat' = fat /\ start' = start /\ mutex' = mutex /\ proc' = proc /\ fault' = fault
  BY Zenon DEF CutNotWritten
<1>2. proc \in [Procs -> Local] /\ proc[p] = Idle /\ size \in Nat
  BY <1>1, Holds, Known, Mine DEF CallRight
<1>3. proc' = [proc EXCEPT ![p] = Idle]
  BY <1>1, <1>2
<1>4. FileRight(fat, start, size')
  <2>1. \A t \in 0 .. size' - 1 : t \in 0 .. size - 1
    <3>1. size' \in 0 .. size - 1
      BY <1>1
    <3>2. size \in Nat
      BY <1>2
    <3> QED
      BY <3>1, <3>2, Fewer, Zenon
  <2> QED
    BY <2>1, Holds, Zenon DEF FileRight
<1>5. /\ MutexStep(p, Idle, mutex, mutex') /\ CutStays(proc[p], Idle) /\ Idle \in Local
      /\ Idle.op # "read" /\ Idle.pc \notin {"walk", "add", "alloc"}
  <2>1. mutex' = IF mutex = p THEN NoProc ELSE mutex
    BY <1>1
  <2> QED
    BY <2>1, IdleStep, Zenon
<1>6. CallRight(fat', start, Idle) /\ AppendRight(fat', start, Idle) /\ CutRight(fat', start, size', Idle)
  BY IdleRight
<1>7. lru' = <<>> /\ \A q \in Procs \ {p} : proc[q].pc = "idle" \/ proc[q].cid.id # validId'
  BY <1>1 DEF Invalidate, IdNotReused
<1>8. \A c \in Used(fat, start) : fat'[c] = fat[c]
  BY <1>1
<1> QED
  BY <1>1, <1>3, <1>4, <1>5, <1>6, <1>7, <1>8, Outside

LEMMA AppendBeginRight ==
  ASSUME CacheInv, TypeInv', NEW p \in Procs, AppendBegin(p)
  PROVE  CacheInv'
<1>1. /\ proc[p].pc = "idle" /\ mutex = NoProc /\ mutex' = p
      /\ start' = start /\ size' = size /\ UNCHANGED cache /\ fault' = fault
  BY DEF AppendBegin
<1>2. PICK c \in Cluster :
        LET me == [Idle EXCEPT !.op = "append", !.arg = c] IN
        /\ fat[c] = Free /\ fat' = [fat EXCEPT ![c] = Eof]
        /\ proc' = [proc EXCEPT ![p] = IF start = 0 THEN [me EXCEPT !.pc = "got"] ELSE GetCluster(me, Eof)]
  BY Zenon DEF AppendBegin
<1> DEFINE me == [Idle EXCEPT !.op = "append", !.arg = c]
           y == [me EXCEPT !.pc = "got"]
           z == GetCluster(me, Eof)
           x == IF start = 0 THEN y ELSE z
<1>3. me \in Local /\ me.op = "append" /\ me.arg = c /\ me.cid = Dummy
  BY IdleTyped, Sizes DEF Local
<1>4. proc' = [proc EXCEPT ![p] = x]
  BY <1>2
<1> HIDE DEF me
<1>5. y \in Local /\ y.op = "append" /\ y.arg = c /\ y.cid = Dummy /\ y.pc = "got"
  BY <1>3 DEF Local
<1>6. /\ z \in Local /\ z.op = "append" /\ z.arg = c /\ z.cid = Dummy /\ z.dc = start /\ z.fc = 0
      /\ z.target = Eof /\ z.pc = "lookup"
  <2>1. start \in 0 .. NClusters /\ Eof \in Nat /\ Eof # 0
    BY Holds, Known, Sizes
  <2>2. Begun(z, me, Eof, start)
    BY Zenon, <1>3, <2>1, GetClusterTyped
  <2> QED
    BY <1>3, <2>1, <2>2 DEF Begun
<1>7. (x = y /\ start = 0) \/ (x = z /\ start # 0)
  OBVIOUS
<1> HIDE DEF y, z, x
<1>8. /\ x \in Local /\ x.op = "append" /\ x.arg = c /\ x.pc \in {"got", "lookup"}
      /\ x.pc \notin {"walk", "add", "alloc"} /\ x.op # "read"
  BY <1>5, <1>6, <1>7
<1>9. fat \in [Cluster -> 0 .. Eof] /\ FileRight(fat, start, size)
  BY Holds, Known
<1>10. c \notin Used(fat, start)
  <2> SUFFICES ASSUME c \in Used(fat, start) PROVE FALSE
    OBVIOUS
  <2>1. PICK i \in 0 .. NClusters : c = Path(fat, start)[i]
    BY UsedPlace
  <2> QED
    BY <1>2, <1>9, <2>1 DEF FileRight
<1>11. fat'[c] = Eof /\ \A d \in Used(fat, start) : fat'[d] = fat[d]
  BY <1>2, <1>9, <1>10, UsedPlace
<1>12. c \notin Used(fat', start)
  BY <1>10, <1>11, Untouched
<1>13. CallRight(fat', start, x) /\ AppendRight(fat', start, x) /\ CutRight(fat', start, size', x)
  <2>1. CASE x = y /\ start = 0
    BY <1>5, <1>11, <1>12, <2>1 DEF CallRight, AppendRight, CutRight
  <2>2. CASE x = z /\ start # 0
    BY <1>6, <1>11, <1>12, <2>2, Sizes DEF CallRight, AppendRight, CutRight
  <2> QED
    BY <1>7, <2>1, <2>2
<1>14. MutexStep(p, x, mutex, mutex') /\ CutStays(proc[p], x)
  BY <1>1, <1>8 DEF MutexStep, CutStays
<1>15. FileRight(fat, start, size')
  BY <1>1, <1>9
<1> QED
  BY <1>1, <1>4, <1>8, <1>11, <1>13, <1>14, <1>15, Outside

-----------------------------------------------------------------------------
(* The steps that change the chain.                                            *)

(* A file without clusters.                                                    *)
LEMMA NoChain ==
  ASSUME NEW f
  PROVE  /\ \A i \in 0 .. NClusters : Path(f, 0)[i] \notin Cluster
         /\ FileRight(f, 0, 0) /\ Used(f, 0) = {}
<1>1. \A i \in 0 .. NClusters : Path(f, 0)[i] \notin Cluster
  <2> SUFFICES ASSUME NEW i \in 0 .. NClusters PROVE Path(f, 0)[i] \notin Cluster
    OBVIOUS
  <2>1. Path(f, 0)[0] = 0 /\ 0 \in 0 .. NClusters
    BY PathDef, Sizes
  <2>2. CASE i = 0
    BY <2>1, <2>2, Sizes
  <2>3. CASE i # 0
    <3>1. i > 0
      BY <2>3
    <3> QED
      BY <2>1, <3>1, PathEnd, Sizes
  <2> QED
    BY <2>2, <2>3
<1> QED
  BY <1>1 DEF FileRight, NoRepeat, Used

(* The file after a cluster has been linked to its last one.                   *)
LEMMA LinkedFile ==
  ASSUME NEW f, NEW c, NEW s \in Nat, FileRight(f, c, s), NEW i \in 0 .. NClusters,
         NEW d \in Cluster, Path(f, c)[i] = d, f[d] = Eof,
         NEW a \in Cluster, a \notin Used(f, c), f[a] = Eof,
         NEW g, g[d] = a, \A x \in Cluster \ {d} : g[x] = f[x]
  PROVE  /\ FileRight(g, c, s) /\ s <= NClusters /\ Path(g, c)[s] \in Cluster
         /\ Agree(f, c, g, c, NClusters + 1)
<1>1. /\ NoRepeat(f, c) /\ \A t \in 0 .. s - 1 : t <= NClusters /\ Path(f, c)[t] \in Cluster
  BY DEF FileRight
<1>2. /\ i + 1 \in 0 .. NClusters /\ i + 1 > i
      /\ \A j \in 0 .. NClusters : j <= i => Path(g, c)[j] = Path(f, c)[j]
      /\ Path(g, c)[i + 1] = a
      /\ \A j \in 0 .. NClusters : j > i + 1 => Path(g, c)[j] = Eof
      /\ \A j \in 0 .. NClusters : j > i => Path(f, c)[j] = Eof
  BY <1>1, Lengthened
<1>3. i \in Nat /\ NClusters \in Nat /\ i + 1 <= NClusters /\ Eof \notin Cluster /\ Free \notin Cluster
  BY <1>2, Sizes
<1>4. ASSUME NEW j \in 0 .. NClusters, Path(g, c)[j] \in Cluster
      PROVE  \/ j <= i /\ Path(g, c)[j] = Path(f, c)[j]
             \/ j = i + 1 /\ Path(g, c)[j] = a
  <2>1. CASE j <= i
    BY <1>2, <2>1
  <2>2. CASE j = i + 1
    BY <1>2, <2>2
  <2>3. CASE j > i + 1
    BY <1>2, <1>3, <1>4, <2>3
  <2> QED
    BY <1>3, <2>1, <2>2, <2>3
<1>5. \A j \in 0 .. NClusters : j <= i /\ Path(f, c)[j] \in Cluster => Path(f, c)[j] # a
  BY UsedPlace
<1>6. d # a
  BY <1>3, <1>5
<1>7. \A j \in 0 .. NClusters : Path(g, c)[j] \in Cluster => g[Path(g, c)[j]] # Free
  <2> SUFFICES ASSUME NEW j \in 0 .. NClusters, Path(g, c)[j] \in Cluster PROVE g[Path(g, c)[j]] # Free
    OBVIOUS
  <2>1. CASE Path(g, c)[j] = Path(f, c)[j]
    <3> DEFINE y == Path(f, c)[j]
    <3>1. f[y] # Free /\ y \in Cluster
      BY <2>1 DEF FileRight
    <3> HIDE DEF y
    <3>2. g[y] # Free
      BY <1>3, <3>1
    <3> QED
      BY <2>1, <3>2 DEF y
  <2>2. CASE Path(g, c)[j] = a
    BY <1>3, <1>6, <2>2, Sizes
  <2> QED
    BY <1>4, <2>1, <2>2
<1>8. NoRepeat(g, c)
  <2> SUFFICES ASSUME NEW j \in 0 .. NClusters, NEW k \in 0 .. NClusters,
                      Path(g, c)[j] \in Cluster, Path(g, c)[j] = Path(g, c)[k]
               PROVE  j = k
    BY DEF NoRepeat
  <2>1. \/ j <= i /\ Path(g, c)[j] = Path(f, c)[j]
        \/ j = i + 1 /\ Path(g, c)[j] = a
    BY <1>4
  <2>2. \/ k <= i /\ Path(g, c)[k] = Path(f, c)[k]
        \/ k = i + 1 /\ Path(g, c)[k] = a
    BY <1>4
  <2>3. CASE Path(g, c)[j] = a
    BY <1>5, <2>1, <2>2, <2>3
  <2>4. CASE Path(g, c)[j] # a
    BY <1>1, <2>1, <2>2, <2>4 DEF NoRepeat
  <2> QED
    BY <2>3, <2>4
<1>9. \A t \in 0 .. s - 1 : t <= i
  <2> SUFFICES ASSUME NEW t \in 0 .. s - 1, ~(t <= i) PROVE FALSE
    OBVIOUS
  <2>1. t <= NClusters /\ Path(f, c)[t] \in Cluster
    BY <1>1
  <2>2. t \in 0 .. NClusters /\ t > i
    BY <1>3, <2>1
  <2> QED
    BY <1>2, <1>3, <2>1, <2>2
<1>10. s <= i + 1
  <2>1. s = 0 \/ s - 1 \in 0 .. s - 1
    OBVIOUS
  <2>2. s = 0 \/ s - 1 <= i
    BY <1>9, <2>1
  <2> QED
    BY <1>3, <2>2
<1>11. \A t \in 0 .. s - 1 : t <= NClusters /\ Path(g, c)[t] \in Cluster
  <2> SUFFICES ASSUME NEW t \in 0 .. s - 1 PROVE t <= NClusters /\ Path(g, c)[t] \in Cluster
    OBVIOUS
  <2>1. t <= NClusters /\ Path(f, c)[t] \in Cluster /\ t <= i /\ t \in 0 .. NClusters
    BY <1>1, <1>3, <1>9
  <2> QED
    BY <1>2, <2>1
<1>12. s <= NClusters /\ s \in 0 .. NClusters
  BY <1>3, <1>10
<1>13. Path(g, c)[s] \in Cluster
  <2>1. Path(g, c)[i + 1] \in Cluster
    BY <1>2
  <2> QED
    BY <1>2, <1>10, <1>12, <2>1, PathBefore
<1>14. Agree(f, c, g, c, NClusters + 1)
  <2> SUFFICES ASSUME NEW j \in 0 .. NClusters, Path(f, c)[j] \in Cluster PROVE Path(g, c)[j] = Path(f, c)[j]
    BY DEF Agree
  <2>1. ~(j > i)
    BY <1>2, <1>3
  <2>2. j <= i
    BY <1>3, <2>1
  <2> QED
    BY <1>2, <2>2
<1> QED
  BY <1>7, <1>8, <1>11, <1>12, <1>13, <1>14 DEF FileRight

(* The first cluster of a file.                                                *)
LEMMA FirstLinked ==
  ASSUME NEW f, NEW a \in Cluster, f[a] = Eof
  PROVE  FileRight(f, a, 0) /\ Path(f, a)[0] \in Cluster /\ Agree(f, 0, f, a, NClusters + 1)
<1>1. Path(f, a)[0] = a /\ 0 \in 0 .. NClusters /\ 1 \in 1 .. NClusters /\ 1 \in 0 .. NClusters
      /\ 1 - 1 = 0 /\ NClusters \in Nat /\ Eof \notin Cluster /\ Eof # Free
  BY PathDef, Sizes
<1>2. Path(f, a)[1] = Eof
  <2>1. Path(f, a)[1] = After(f, Path(f, a)[0])
    BY <1>1, PathDef
  <2> QED
    BY <1>1, <2>1 DEF After
<1>3. \A j \in 0 .. NClusters : Path(f, a)[j] \in Cluster => j = 0
  <2> SUFFICES ASSUME NEW j \in 0 .. NClusters, Path(f, a)[j] \in Cluster, j # 0 PROVE FALSE
    OBVIOUS
  <2>1. CASE j = 1
    BY <1>1, <1>2, <2>1
  <2>2. CASE j > 1
    BY <1>1, <1>2, <2>2, PathEnd
  <2> QED
    BY <2>1, <2>2
<1>4. FileRight(f, a, 0)
  BY <1>1, <1>3 DEF FileRight, NoRepeat
<1>5. Agree(f, 0, f, a, NClusters + 1)
  BY NoChain DEF Agree
<1> QED
  BY <1>1, <1>4, <1>5

LEMMA LinkRight ==
  ASSUME CacheInv, TypeInv', NEW p \in Procs, Link(p)
  PROVE  CacheInv'
<1> DEFINE me == proc[p]
           r == [Idle EXCEPT !.op = "read"]
           g == GetCluster(r, size)
           x == [g EXCEPT !.dc = start']
<1>1. /\ me.pc = "got" /\ me.op = "append"
      /\ IF start = 0 THEN start' = me.arg /\ UNCHANGED fat
         ELSE fat' = [fat EXCEPT ![me.dc] = me.arg] /\ UNCHANGED start
      /\ (Invalidate /\ IdNotReused) \/ UNCHANGED cache
      /\ proc' = [proc EXCEPT ![p] = x] /\ size' = size /\ mutex' = mutex /\ fault' = fault
  BY DEF Link
<1>2. /\ mutex = p /\ me.arg \in Cluster /\ fat[me.arg] = Eof /\ me.arg \notin Used(fat, start)
      /\ start \in 0 .. NClusters /\ size \in Nat /\ (size > 0 => start # 0)
      /\ fat \in [Cluster -> 0 .. Eof] /\ FileRight(fat, start, size) /\ proc \in [Procs -> Local]
      /\ me.fc \in Nat
      /\ start # 0 => OnChain(fat, start, me) /\ fat[me.dc] = Eof
  BY <1>1, Holds, Known, Mine, Holder DEF AppendRight, CallTyped
<1>3. /\ FileRight(fat', start', size) /\ size <= NClusters /\ Path(fat', start')[size] \in Cluster
      /\ Agree(fat, start, fat', start', NClusters + 1) /\ start' \in Cluster
  <2>1. CASE start = 0
    <3>1. size = 0
      BY <1>2, <2>1
    <3>2. start' = me.arg /\ fat' = fat
      BY <1>1, <2>1
    <3>3. /\ FileRight(fat, me.arg, 0) /\ Path(fat, me.arg)[0] \in Cluster
          /\ Agree(fat, 0, fat, me.arg, NClusters + 1)
      BY <1>2, FirstLinked
    <3>4. 0 <= NClusters
      BY Sizes
    <3> QED
      BY <1>2, <2>1, <3>1, <3>2, <3>3, <3>4, Zenon
  <2>2. CASE start # 0
    <3>1. /\ OnChain(fat, start, me) /\ fat[me.dc] = Eof /\ start' = start /\ start \in Cluster
          /\ fat' = [fat EXCEPT ![me.dc] = me.arg]
      BY <1>1, <1>2, <2>2, Sizes
    <3>2. me.dc \in Cluster /\ me.fc \in 0 .. NClusters /\ Path(fat, start)[me.fc] = me.dc
      BY <1>2, <3>1, Sizes DEF OnChain
    <3>3. fat'[me.dc] = me.arg /\ \A y \in Cluster \ {me.dc} : fat'[y] = fat[y]
      BY <1>2, <3>1, <3>2
    <3>4. /\ FileRight(fat', start, size) /\ size <= NClusters /\ Path(fat', start)[size] \in Cluster
          /\ Agree(fat, start, fat', start, NClusters + 1)
      <4> DEFINE i == me.fc
                 d == me.dc
                 a == me.arg
                 h == fat'
      <4>1. /\ i \in 0 .. NClusters /\ d \in Cluster /\ Path(fat, start)[i] = d /\ fat[d] = Eof
            /\ a \in Cluster /\ a \notin Used(fat, start) /\ fat[a] = Eof
            /\ h[d] = a /\ \A y \in Cluster \ {d} : h[y] = fat[y]
            /\ FileRight(fat, start, size) /\ size \in Nat
        BY <1>2, <3>1, <3>2, <3>3
      <4> HIDE DEF i, d, a, h
      <4>2. /\ FileRight(h, start, size) /\ size <= NClusters /\ Path(h, start)[size] \in Cluster
            /\ Agree(fat, start, h, start, NClusters + 1)
        BY <4>1, LinkedFile
      <4> QED
        BY <4>2 DEF h
    <3> QED
      BY <3>1, <3>4
  <2> QED
    BY <2>1, <2>2
<1>4. r \in Local /\ r.op = "read" /\ r.arg = 0
  BY IdleTyped DEF Local
<1> HIDE DEF r
<1>5. /\ g \in Local /\ g.op = "read" /\ g.target = size /\ g.cid = Dummy /\ g.fc = 0
      /\ g.pc = IF size = 0 THEN "got" ELSE "lookup"
  <2>1. Begun(g, r, size, start)
    BY Zenon, <1>2, <1>4, GetClusterTyped
  <2> QED
    BY <1>2, <1>4, <2>1 DEF Begun
<1> HIDE DEF g
<1>6. start' \in 0 .. NClusters
  BY <1>3, Sizes
<1>7. /\ x \in Local /\ x.op = "read" /\ x.target = size /\ x.cid = Dummy /\ x.fc = 0 /\ x.dc = start'
      /\ x.pc = IF size = 0 THEN "got" ELSE "lookup"
  BY <1>5, <1>6 DEF Local
<1> HIDE DEF x
<1>8. CallRight(fat', start', x) /\ AppendRight(fat', start', x)
  BY <1>2, <1>3, <1>7, GetRight
<1>9. CutRight(fat', start', size', x) /\ CutStays(me, x) /\ MutexStep(p, x, mutex, mutex')
      /\ x.pc \notin {"walk", "add", "alloc"}
  BY <1>1, <1>2, <1>7 DEF CutRight, CutStays, MutexStep
<1>10. \A k : Below(proc, k)
  <2> SUFFICES ASSUME NEW q \in Procs, proc[q].op = "cut" PROVE FALSE
    BY DEF Below
  <2>1. mutex = q
    BY Holder
  <2> QED
    BY <1>1, <1>2, <2>1
<1>11. \A k : Below(proc', k)
  BY <1>1, <1>2, <1>7, <1>9, <1>10, BelowKept
<1> DEFINE K == NClusters + 1
<1>12. K \in Int /\ \A k \in Nat : k <= NClusters => k < K
  BY Sizes
<1>13. \A q \in Procs \ {p} : proc[q].op = "read" => proc[q].target < K /\ Below(proc', proc[q].target)
  <2> SUFFICES ASSUME NEW q \in Procs \ {p}, proc[q].op = "read" PROVE proc[q].target < K
    BY <1>11
  <2>1. CallRight(fat, start, proc[q]) /\ proc[q].target \in Nat
    BY Mine, CopyNumbers
  <2>2. proc[q].target <= NClusters
    BY <2>1 DEF CallRight
  <2> QED
    BY <1>12, <2>1, <2>2
<1>14. \/ UNCHANGED cache /\ \A k \in Nat : k <= NClusters /\ Below(proc, k) => k < K /\ Below(proc', k)
       \/ lru' = <<>> /\ \A q \in Procs \ {p} : proc[q].pc = "idle" \/ proc[q].cid.id # validId'
  <2>1. CASE UNCHANGED cache
    BY <1>11, <1>12, <2>1, Zenon
  <2>2. CASE Invalidate /\ IdNotReused
    BY <2>2 DEF Invalidate, IdNotReused
  <2> QED
    BY <1>1, <2>1, <2>2
<1>15. FileRight(fat', start', size') /\ Agree(fat, start, fat', start', K)
  BY <1>1, <1>3
<1>16. mutex \in {p, NoProc} /\ Below(proc, x.target) /\ x.target = size' /\ fault' = fault
       /\ proc' = [proc EXCEPT ![p] = x]
  BY <1>1, <1>2, <1>7, <1>10
<1> HIDE DEF K
<1> QED
  BY <1>7, <1>8, <1>9, <1>12, <1>13, <1>14, <1>15, <1>16, Changed

LEMMA CutBeginRight ==
  ASSUME CacheInv, TypeInv', NEW p \in Procs, CutBegin(p)
  PROVE  CacheInv'
<1>1. PICK k \in 0 .. size - 1 :
        LET me == [Idle EXCEPT !.op = "cut", !.arg = k] IN
        /\ \A q \in Procs : proc[q].pc # "idle" => proc[q].target < k
        /\ size' = k
        /\ IF k = 0 THEN /\ start' = 0
                         /\ proc' = [proc EXCEPT ![p] = [me EXCEPT !.pc = "free", !.dc = start]]
           ELSE /\ proc' = [proc EXCEPT ![p] = GetCluster(me, k - 1)]
                /\ UNCHANGED start
  BY Zenon DEF CutBegin
<1>2. /\ proc[p].pc = "idle" /\ mutex = NoProc /\ mutex' = p /\ Invalidate /\ IdNotReused
      /\ fat' = fat /\ fault' = fault
  BY Zenon DEF CutBegin
<1>3. /\ size \in Nat /\ k \in Nat /\ k < size /\ start # 0 /\ start \in 0 .. NClusters /\ start \in Cluster
      /\ proc \in [Procs -> Local] /\ FileRight(fat, start, size)
  <2>1. size \in Nat /\ start \in 0 .. NClusters /\ (size > 0 => start # 0)
        /\ proc \in [Procs -> Local] /\ FileRight(fat, start, size)
    BY Holds, Known
  <2> QED
    BY <2>1, Sizes
<1> DEFINE me == [Idle EXCEPT !.op = "cut", !.arg = k]
           y == [me EXCEPT !.pc = "free", !.dc = start]
           z == GetCluster(me, k - 1)
           x == IF k = 0 THEN y ELSE z
<1>4. /\ proc' = [proc EXCEPT ![p] = x] /\ size' = k
      /\ (k = 0 /\ start' = 0) \/ (k # 0 /\ start' = start)
  BY <1>1
<1>5. me \in Local /\ me.op = "cut" /\ me.cid = Dummy /\ me.arg = k
  BY <1>3, IdleTyped DEF Local
<1> HIDE DEF me
<1>6. y \in Local /\ y.op = "cut" /\ y.cid = Dummy /\ y.pc = "free" /\ y.arg = k /\ y.dc = start
  BY <1>3, <1>5 DEF Local
<1>7. k # 0 => /\ k - 1 \in Nat
               /\ z \in Local /\ z.op = "cut" /\ z.cid = Dummy /\ z.dc = start /\ z.arg = k
               /\ z.target = k - 1 /\ z.fc = 0 /\ z.pc = IF k - 1 = 0 THEN "got" ELSE "lookup"
  <2>1. ASSUME k # 0 PROVE k - 1 \in Nat
    BY <1>3, <2>1
  <2>2. k # 0 => Begun(z, me, k - 1, start)
    BY Zenon, <1>3, <1>5, <2>1, GetClusterTyped
  <2> QED
    BY <1>3, <1>5, <2>1, <2>2 DEF Begun
<1>8. (x = y /\ k = 0) \/ (x = z /\ k # 0)
  OBVIOUS
<1> HIDE DEF y, z, x
<1>9. x \in Local /\ x.op = "cut" /\ x.arg = k /\ x.pc \notin {"walk", "add", "alloc"}
  BY <1>6, <1>7, <1>8
<1>10. MutexStep(p, x, mutex, mutex')
  BY <1>2, <1>9 DEF MutexStep
<1>11. \A q \in Procs : proc[q].pc # "idle" => proc[q].target < k
  BY <1>1
<1>12. lru' = <<>> /\ \A q \in Procs \ {p} : proc[q].pc = "idle" \/ proc[q].cid.id # validId'
  BY <1>2 DEF Invalidate, IdNotReused
<1>13. \A q \in Procs : proc[q].op # "cut"
  BY <1>2, Holder, NoProcAssumption
<1>14. ASSUME NEW q \in Procs \ {p}, proc[q].op = "read"
       PROVE  proc[q].target < k /\ Below(proc', proc[q].target)
  <2>1. proc[q].pc # "idle"
    BY <1>14, Mine DEF CallRight
  <2>2. proc[q].target < k
    BY <1>11, <2>1
  <2>3. proc'[p] = x /\ \A r \in Procs : r # p => proc'[r] = proc[r]
    BY <1>3, <1>4, <1>9, Moved
  <2>4. \A r \in Procs : proc'[r].op = "cut" => proc'[r].arg = k
    BY <1>9, <1>13, <2>3
  <2> QED
    BY <2>2, <2>4 DEF Below
<1>15. CASE k = 0
  <2>1. x = y /\ start' = 0 /\ size' = 0
    BY <1>4, <1>8, <1>15
  <2>2. FileRight(fat', start', size') /\ Used(fat', start') = {}
    BY <2>1, NoChain
  <2>3. CallRight(fat', start', x) /\ AppendRight(fat', start', x) /\ CutRight(fat', start', size', x)
    BY <1>6, <1>15, <2>1, <2>2 DEF CallRight, AppendRight, CutRight
  <2>4. Agree(fat, start, fat', start', k) /\ k \in Int
    BY <1>15 DEF Agree
  <2>5. \A q \in Procs \ {p} : proc[q].op = "read" => proc[q].target < k /\ Below(proc', proc[q].target)
    BY <1>14
  <2> QED
    BY <1>2, <1>4, <1>9, <1>10, <1>12, <2>2, <2>3, <2>4, <2>5, Changed
<1>16. CASE k # 0
  <2>1. x = z /\ start' = start /\ size' = k /\ k - 1 \in Nat
    BY <1>4, <1>7, <1>8, <1>16
  <2>2. \A t \in 0 .. k - 1 : t \in 0 .. size - 1
    BY <1>3
  <2>3. FileRight(fat', start', size')
    BY <1>2, <1>3, <2>1, <2>2, Zenon DEF FileRight
  <2>4. k - 1 <= NClusters /\ Path(fat, start)[k - 1] \in Cluster
    <3>1. k - 1 \in 0 .. k - 1
      BY <2>1
    <3> QED
      BY <1>3, <2>2, <3>1 DEF FileRight
  <2>5. CallRight(fat', start', x) /\ AppendRight(fat', start', x)
    <3>1. CallRight(fat, start, x) /\ AppendRight(fat, start, x)
      <4> DEFINE t == k - 1
      <4>1. /\ x.op \in {"read", "cut"} /\ x.target = t /\ t \in Nat /\ t <= NClusters
            /\ Path(fat, start)[t] \in Cluster /\ x.cid = Dummy /\ x.fc = 0 /\ x.dc = start
            /\ x.pc = IF t = 0 THEN "got" ELSE "lookup"
        BY <1>7, <1>16, <2>1, <2>4
      <4> HIDE DEF t
      <4> QED
        BY <1>3, <4>1, GetRight
    <3> QED
      BY <1>2, <2>1, <3>1
  <2>6. CutRight(fat', start', size', x)
    BY <1>7, <1>16, <2>1 DEF CutRight
  <2>7. Agree(fat, start, fat', start', k)
    BY <1>2, <2>1, AgreeSelf
  <2>8. \A q \in Procs \ {p} : proc[q].op = "read" => proc[q].target < k /\ Below(proc', proc[q].target)
    BY <1>14
  <2>9. k \in Int
    BY <1>3
  <2> QED
    BY <1>2, <1>4, <1>9, <1>10, <1>12, <2>3, <2>5, <2>6, <2>7, <2>8, <2>9, Changed
<1> QED
  BY <1>15, <1>16

(* The file after the end mark has been written.                               *)
LEMMA CutFile ==
  ASSUME NEW f, NEW c, NEW i \in 0 .. NClusters, FileRight(f, c, i + 1),
         NEW d \in Cluster, Path(f, c)[i] = d, NEW e \in Cluster, f[d] = e,
         NEW g, g[d] = Eof, \A x \in Cluster \ {d} : g[x] = f[x]
  PROVE  FileRight(g, c, i + 1) /\ Used(g, e) \cap Used(g, c) = {} /\ Agree(f, c, g, c, i + 1)
<1>1. /\ NoRepeat(f, c) /\ \A t \in 0 .. (i + 1) - 1 : t <= NClusters /\ Path(f, c)[t] \in Cluster
  BY DEF FileRight
<1>2. /\ \A j \in 0 .. NClusters : j <= i => Path(g, c)[j] = Path(f, c)[j]
      /\ \A j \in 0 .. NClusters : j > i => Path(g, c)[j] = Eof
      /\ Used(g, e) \cap Used(g, c) = {}
  BY <1>1, Shortened
<1>3. i \in Nat /\ NClusters \in Nat /\ Eof \notin Cluster /\ Eof # Free
  BY Sizes
<1>4. \A j \in 0 .. NClusters : Path(g, c)[j] \in Cluster => j <= i /\ Path(g, c)[j] = Path(f, c)[j]
  <2> SUFFICES ASSUME NEW j \in 0 .. NClusters, Path(g, c)[j] \in Cluster PROVE j <= i
    BY <1>2
  <2>1. ~(j > i)
    BY <1>2, <1>3
  <2> QED
    BY <1>3, <2>1
<1>5. \A j \in 0 .. NClusters : Path(g, c)[j] \in Cluster => g[Path(g, c)[j]] # Free
  <2> SUFFICES ASSUME NEW j \in 0 .. NClusters, Path(g, c)[j] \in Cluster PROVE g[Path(g, c)[j]] # Free
    OBVIOUS
  <2> DEFINE y == Path(f, c)[j]
  <2>1. Path(g, c)[j] = y
    BY <1>4
  <2>2. f[y] # Free /\ y \in Cluster
    BY <2>1 DEF FileRight
  <2> HIDE DEF y
  <2>3. g[y] # Free
    BY <1>3, <2>2
  <2> QED
    BY <2>1, <2>3
<1>6. NoRepeat(g, c)
  BY <1>1, <1>4 DEF NoRepeat
<1>7. \A t \in 0 .. (i + 1) - 1 : t <= NClusters /\ Path(g, c)[t] \in Cluster
  <2> SUFFICES ASSUME NEW t \in 0 .. (i + 1) - 1 PROVE t <= NClusters /\ Path(g, c)[t] \in Cluster
    OBVIOUS
  <2>1. t <= NClusters /\ Path(f, c)[t] \in Cluster
    BY <1>1
  <2>2. t <= i /\ t \in 0 .. NClusters
    BY <1>3, <2>1
  <2> QED
    BY <1>2, <2>1, <2>2
<1>8. Agree(f, c, g, c, i + 1)
  BY <1>2, <1>3 DEF Agree
<1> QED
  BY <1>2, <1>5, <1>6, <1>7, <1>8 DEF FileRight

LEMMA CutChainRight ==
  ASSUME CacheInv, TypeInv', NEW p \in Procs, CutChain(p)
  PROVE  CacheInv'
<1> DEFINE me == proc[p]
<1>1. /\ me.pc = "got" /\ me.op = "cut"
      /\ start' = start /\ size' = size /\ UNCHANGED cache /\ fault' = fault
  BY DEF CutChain
<1>2. /\ mutex = p /\ me \in Local /\ proc \in [Procs -> Local] /\ fat \in [Cluster -> 0 .. Eof]
      /\ OnChain(fat, start, me) /\ me.fc = me.target /\ size = me.arg /\ me.target = me.arg - 1
      /\ FileRight(fat, start, size) /\ me.fc \in Nat /\ me.arg \in Nat /\ NClusters \in Nat
  BY <1>1, Holds, Known, Mine, Holder, Sizes DEF CallRight, CutRight
<1>3. me.dc \in Cluster /\ me.fc \in 0 .. NClusters /\ Path(fat, start)[me.fc] = me.dc /\ size = me.fc + 1
  BY <1>2 DEF OnChain
<1>4. CASE fat[me.dc] \in Cluster
  <2> DEFINE e == fat[me.dc]
             x == [me EXCEPT !.pc = "free", !.dc = e]
  <2>1. fat' = [fat EXCEPT ![me.dc] = Eof] /\ mutex' = mutex
    BY <1>4, Zenon DEF CutChain
  <2>2. proc' = [proc EXCEPT ![p] = x]
    <3>1. proc' = [proc EXCEPT ![p].pc = "free", ![p].dc = fat[me.dc]]
      BY <1>4, Zenon DEF CutChain
    <3> QED
      BY <3>1
  <2>3. e \in Cluster /\ e \in 0 .. NClusters /\ fat[me.dc] = e
    BY <1>4, Sizes
  <2> HIDE DEF e
  <2>4. x \in Local /\ x.pc = "free" /\ x.op = "cut" /\ x.dc = e /\ x.arg = me.arg
    BY <1>1, <1>2, <2>3 DEF Local
  <2> HIDE DEF x
  <2>5. fat'[me.dc] = Eof /\ \A y \in Cluster \ {me.dc} : fat'[y] = fat[y]
    BY <1>2, <1>3, <2>1
  <2> DEFINE i == me.fc
             d == me.dc
  <2>6. FileRight(fat', start, i + 1) /\ Used(fat', e) \cap Used(fat', start) = {}
        /\ Agree(fat, start, fat', start, i + 1)
    <3>1. /\ i \in 0 .. NClusters /\ FileRight(fat, start, i + 1) /\ d \in Cluster /\ Path(fat, start)[i] = d
          /\ e \in Cluster /\ fat[d] = e /\ fat'[d] = Eof /\ \A y \in Cluster \ {d} : fat'[y] = fat[y]
      BY <1>2, <1>3, <2>3, <2>5
    <3> HIDE DEF i, d
    <3> QED
      BY <3>1, CutFile
  <2>7. CallRight(fat', start', x) /\ AppendRight(fat', start', x) /\ CutRight(fat', start', size', x)
    BY <1>1, <1>2, <2>4, <2>6 DEF CallRight, AppendRight, CutRight
  <2>8. CutStays(me, x) /\ MutexStep(p, x, mutex, mutex') /\ x.pc \notin {"walk", "add", "alloc"}
    BY <1>1, <1>2, <2>1, <2>4 DEF CutStays, MutexStep
  <2>9. \A k : Below(proc, k) => Below(proc', k)
    BY <1>2, <2>2, <2>4, <2>8, BelowKept
  <2>10. \A k : Below(proc, k) => k < size
    BY <1>1, <1>2 DEF Below
  <2>11. \A q \in Procs \ {p} : proc[q].op = "read" => proc[q].target < size /\ Below(proc', proc[q].target)
    BY <2>9, <2>10, Mine
  <2>12. UNCHANGED cache /\ \A k \in Nat : k <= NClusters /\ Below(proc, k) => k < size /\ Below(proc', k)
    BY <1>1, <2>9, <2>10, Zenon
  <2>13. FileRight(fat', start', size') /\ Agree(fat, start, fat', start', size) /\ size \in Int
    BY <1>1, <1>2, <1>3, <2>6
  <2> QED
    BY <1>1, <1>2, <2>2, <2>4, <2>7, <2>8, <2>11, <2>12, <2>13, Changed
<1>5. CASE fat[me.dc] \notin Cluster
  <2>1. proc' = [proc EXCEPT ![p] = Idle] /\ mutex' = NoProc /\ fat' = fat
    BY <1>5, Zenon DEF CutChain
  <2>2. mutex' = IF mutex = p THEN NoProc ELSE mutex
    BY <1>2, <2>1
  <2>3. /\ MutexStep(p, Idle, mutex, mutex') /\ CutStays(me, Idle) /\ Idle \in Local
        /\ Idle.op # "read" /\ Idle.pc \notin {"walk", "add", "alloc"}
        /\ CopyFits(fat, start, validId, proc, Idle) /\ CopyIn(lru, nrCaches, validId, proc, Idle)
    BY <2>2, IdleStep, Zenon
  <2>4. CallRight(fat, start, Idle) /\ AppendRight(fat, start, Idle) /\ CutRight(fat, start, size, Idle)
    BY IdleRight
  <2> QED
    BY <1>1, <2>1, <2>3, <2>4, Stays
<1> QED
  BY <1>4, <1>5

-----------------------------------------------------------------------------
(* From the first state on.                                                    *)

LEMMA FirstPath ==
  ASSUME NEW f \in Files, NEW g, g = FirstFat(f), NEW s, s = IF f = <<>> THEN 0 ELSE f[1]
  PROVE  /\ \A i \in 0 .. NClusters : i < Len(f) => Path(g, s)[i] = f[i + 1] /\ f[i + 1] \in Cluster
         /\ \A i \in 0 .. NClusters : i >= Len(f) => Path(g, s)[i] \notin Cluster
<1> DEFINE m == Len(f)
<1>1. /\ m \in Nat /\ m <= NClusters /\ NClusters \in Nat
      /\ \A i \in 1 .. m : f[i] \in Cluster
      /\ \A i \in 1 .. m : g[f[i]] = IF i = m THEN Eof ELSE f[i + 1]
      /\ Eof \notin Cluster /\ 0 \notin Cluster
  BY FirstFatTyped, Sizes
<1>2. IF m = 0 THEN s = 0 ELSE s = f[1]
  <2>1. f \in Seq(Cluster)
    BY SizeAssumption DEF Cluster
  <2>2. f = <<>> <=> m = 0
    BY <2>1, EmptySeq
  <2> QED
    BY <2>2
<1> HIDE DEF m
<1>3. Path(g, s)[0] = s
  BY PathDef
<1> DEFINE S == {i \in Nat : i < m => Path(g, s)[i] = f[i + 1]}
<1>4. 0 \in S
  BY <1>1, <1>2, <1>3
<1>5. ASSUME NEW i \in Nat, i \in S, i < NClusters PROVE i + 1 \in S
  <2> SUFFICES ASSUME i + 1 < m PROVE Path(g, s)[i + 1] = f[(i + 1) + 1]
    OBVIOUS
  <2>1. i + 1 \in 1 .. NClusters /\ (i + 1) - 1 = i /\ i + 1 \in 1 .. m /\ i + 1 # m /\ i < m
    BY <1>1, <1>5
  <2>2. Path(g, s)[i] = f[i + 1]
    BY <1>5, <2>1
  <2>3. Path(g, s)[i + 1] = After(g, f[i + 1])
    BY <2>1, <2>2, PathDef
  <2> QED
    BY <1>1, <2>1, <2>3 DEF After
<1> HIDE DEF S
<1>6. \A i \in 0 .. NClusters : i \in S
  BY <1>1, <1>4, <1>5, Induct
<1>7. ASSUME NEW i \in 0 .. NClusters, i < m PROVE Path(g, s)[i] = f[i + 1] /\ f[i + 1] \in Cluster
  <2>1. i + 1 \in 1 .. m
    BY <1>1, <1>7
  <2> QED
    BY <1>1, <1>6, <1>7, <2>1 DEF S
<1>8. Path(g, s)[m] \notin Cluster
  <2>1. CASE m = 0
    BY <1>1, <1>2, <1>3, <2>1
  <2>2. CASE m # 0
    <3>1. m - 1 \in 0 .. NClusters /\ m - 1 < m /\ (m - 1) + 1 = m /\ m \in 1 .. NClusters /\ m \in 1 .. m
      BY <1>1, <2>2
    <3>2. Path(g, s)[m - 1] = f[m]
      BY <1>7, <3>1
    <3>3. Path(g, s)[m] = After(g, f[m])
      BY <3>1, <3>2, PathDef
    <3> QED
      BY <1>1, <3>1, <3>3 DEF After
  <2> QED
    BY <2>1, <2>2
<1>9. ASSUME NEW i \in 0 .. NClusters, i >= m PROVE Path(g, s)[i] \notin Cluster
  <2>1. CASE i = m
    BY <1>8, <2>1
  <2>2. CASE i # m
    <3>1. m \in 0 .. NClusters /\ i > m
      BY <1>1, <1>9, <2>2
    <3> QED
      BY <1>1, <1>8, <3>1, PathEnd
  <2> QED
    BY <2>1, <2>2
<1> QED
  BY <1>7, <1>9 DEF m

LEMMA CacheInit ==
  ASSUME Init
  PROVE  CacheInv
<1>1. PICK f \in Files : fat = FirstFat(f) /\ start = (IF f = <<>> THEN 0 ELSE f[1]) /\ size = Len(f)
  BY Zenon DEF Init, FirstFat
<1>2. /\ lru = <<>> /\ mutex = NoProc /\ proc = [p \in Procs |-> Idle] /\ fault = "none"
  BY DEF Init
<1> DEFINE m == Len(f)
<1>3. /\ m \in Nat /\ m <= NClusters /\ NClusters \in Nat
      /\ \A i \in 1 .. m : f[i] \in Cluster
      /\ \A i \in 1 .. m : FirstFat(f)[f[i]] = IF i = m THEN Eof ELSE f[i + 1]
      /\ DOMAIN f = 1 .. m
  BY FirstFatTyped, Sizes
<1>4. \A i, j \in 1 .. m : f[i] = f[j] => i = j
  BY <1>3, SizeAssumption
<1>5. /\ \A i \in 0 .. NClusters : i < m => Path(fat, start)[i] = f[i + 1] /\ f[i + 1] \in Cluster
      /\ \A i \in 0 .. NClusters : i >= m => Path(fat, start)[i] \notin Cluster
  <2> DEFINE g == FirstFat(f)
             s == IF f = <<>> THEN 0 ELSE f[1]
  <2>1. /\ \A i \in 0 .. NClusters : i < Len(f) => Path(g, s)[i] = f[i + 1] /\ f[i + 1] \in Cluster
        /\ \A i \in 0 .. NClusters : i >= Len(f) => Path(g, s)[i] \notin Cluster
    BY FirstPath
  <2> QED
    BY <1>1, <2>1
<1> HIDE DEF m
<1>6. ASSUME NEW i \in 0 .. NClusters, Path(fat, start)[i] \in Cluster
      PROVE  i < m /\ i + 1 \in 1 .. m /\ Path(fat, start)[i] = f[i + 1]
  <2>1. ~(i >= m)
    BY <1>5, <1>6
  <2> QED
    BY <1>3, <1>5, <2>1
<1>7. \A i \in 0 .. NClusters : Path(fat, start)[i] \in Cluster => fat[Path(fat, start)[i]] # Free
  <2> SUFFICES ASSUME NEW i \in 0 .. NClusters, Path(fat, start)[i] \in Cluster
               PROVE  fat[Path(fat, start)[i]] # Free
    OBVIOUS
  <2>1. i + 1 \in 1 .. m /\ Path(fat, start)[i] = f[i + 1] /\ (i + 1 # m => (i + 1) + 1 \in 1 .. m)
    BY <1>3, <1>6
  <2>2. fat[f[i + 1]] = IF i + 1 = m THEN Eof ELSE f[(i + 1) + 1]
    BY <1>1, <1>3, <2>1
  <2>3. fat[f[i + 1]] = Eof \/ fat[f[i + 1]] \in Cluster
    BY <1>3, <2>1, <2>2
  <2> QED
    BY <2>1, <2>3, Sizes
<1>8. NoRepeat(fat, start)
  <2> SUFFICES ASSUME NEW i \in 0 .. NClusters, NEW j \in 0 .. NClusters,
                      Path(fat, start)[i] \in Cluster, Path(fat, start)[i] = Path(fat, start)[j]
               PROVE  i = j
    BY DEF NoRepeat
  <2>1. i + 1 \in 1 .. m /\ j + 1 \in 1 .. m /\ f[i + 1] = f[j + 1]
    BY <1>6
  <2>2. i + 1 = j + 1
    BY <1>4, <2>1
  <2> QED
    BY <2>2
<1>9. \A t \in 0 .. size - 1 : t <= NClusters /\ Path(fat, start)[t] \in Cluster
  <2> SUFFICES ASSUME NEW t \in 0 .. m - 1 PROVE t <= NClusters /\ Path(fat, start)[t] \in Cluster
    BY <1>1 DEF m
  <2>1. t \in 0 .. NClusters /\ t < m /\ t <= NClusters
    BY <1>3
  <2> QED
    BY <1>5, <2>1
<1>10. FileRight(fat, start, size)
  BY <1>7, <1>8, <1>9 DEF FileRight
<1>11. \A p \in Procs : proc[p] = Idle
  BY <1>2
<1>12. CallsRight(fat, start, size, mutex, proc)
  BY <1>2, <1>11, IdleRight, IdleTyped DEF CallsRight
<1>13. \A p \in Procs : /\ CopyFits(fat, start, validId, proc, proc[p])
                        /\ CopyIn(lru, nrCaches, validId, proc, proc[p])
  BY <1>11, IdleTyped DEF CopyFits, CopyIn
<1>14. ListRight(fat, start, lru, proc)
  BY <1>2 DEF ListRight
<1>15. fault # "bug"
  BY <1>2
<1> QED
  BY <1>10, <1>12, <1>13, <1>14, <1>15, TypeInit DEF CacheInv

(* Nobody does that.                                                           *)
NothingStale == \A p \in Procs : ~AddsStale(p)

LEMMA CacheStep ==
  ASSUME CacheInv, IsFiniteSet(Procs), [Next]_vars, [NothingStale]_vars
  PROVE  CacheInv'
<1>1. TypeInv'
  <2>1. TypeInv
    BY Holds
  <2> QED
    BY <2>1, TypeStep
<1>2. ASSUME NEW p \in Procs, Step(p), NothingStale PROVE CacheInv'
  <2>1. CASE Lookup(p) \/ Walk(p) \/ WalkFails(p) \/ Add(p)
    BY <1>1, <2>1, LookupRight, WalkRight, WalkFailsRight, AddRight
  <2>2. CASE AddAllocated(p)
    <3>1. ~AddsStale(p)
      BY <1>2, Zenon DEF NothingStale
    <3> QED
      BY <1>1, <2>2, <3>1, AddAllocatedRight
  <2>3. CASE ReadBegin(p) \/ Return(p) \/ AppendBegin(p) \/ Link(p)
    BY <1>1, <2>3, ReadBeginRight, ReturnRight, AppendBeginRight, LinkRight
  <2>4. CASE CutBegin(p) \/ CutNotWritten(p) \/ CutChain(p) \/ FreeTail(p)
    BY <1>1, <2>4, CutBeginRight, CutNotWrittenRight, CutChainRight, FreeTailRight
  <2>5. CASE Fail(p) \/ EntryNotRead(p)
    BY <1>1, <2>5, FailRight, EntryNotReadRight
  <2> QED
    BY <1>2, <2>1, <2>2, <2>3, <2>4, <2>5, Zenon DEF Step
<1>3. CASE UNCHANGED vars
  <2>1. /\ fat' = fat /\ start' = start /\ size' = size /\ mutex' = mutex /\ proc' = proc /\ lru' = lru
        /\ nrCaches' = nrCaches /\ validId' = validId /\ fault' = fault
    BY <1>3 DEF vars
  <2> QED
    BY <1>1, <2>1, Zenon DEF CacheInv
<1> QED
  BY <1>2, <1>3, Zenon DEF Next

(* Two processes cannot do it.                                                 *)
LEMMA TwoAreNotStale ==
  ASSUME CacheInv, Few
  PROVE  NothingStale
<1> SUFFICES ASSUME NEW p \in Procs, AddsStale(p) PROVE FALSE
  BY Zenon DEF NothingStale
<1>1. proc[p].pc = "alloc" /\ Reaches(proc[p])
  BY Zenon DEF AddsStale, AddAllocated
<1>2. proc[p].cid.f # -1
  BY <1>1, Mine DEF CallTyped
<1>3. CopyFits(fat, start, validId, proc, proc[p])
  BY Mine
<1> QED
  BY <1>1, <1>2, <1>3 DEF CopyFits

LEMMA CacheInvSound ==
  ASSUME CacheInv
  PROVE  CacheSound
<1>1. ListRight(fat, start, lru, proc) /\ fault # "bug"
  BY Holds
<1>2. \A e : Fits(fat, start, e) => Describes(e)
  BY PlacePath DEF Fits, Describes, At
<1> QED
  BY <1>1, <1>2, Zenon DEF CacheSound, ListRight

LEMMA CacheInvMapped ==
  ASSUME CacheInv
  PROVE  RightCluster
<1> SUFFICES ASSUME NEW p \in Procs, proc[p].pc = "got", proc[p].op = "read"
             PROVE  proc[p].fc = proc[p].target /\ proc[p].dc = At[proc[p].target]
  BY DEF RightCluster
<1>1. proc[p].fc = proc[p].target /\ OnChain(fat, start, proc[p])
  BY Mine DEF CallRight
<1>2. At = Path(fat, start)
  BY PlacePath DEF At
<1> QED
  BY <1>1, <1>2 DEF OnChain

(* Where the steps preserve the invariant, it holds; and two processes never   *)
(* take the step that does not.                                                *)
LEMMA CacheInvHolds ==
  ASSUME IsFiniteSet(Procs)
  PROVE  Spec /\ [][NothingStale]_vars => []CacheInv
<1>1. Init => CacheInv
  BY CacheInit
<1>2. CacheInv /\ [Next]_vars /\ [NothingStale]_vars => CacheInv'
  BY CacheStep
<1> QED
  BY <1>1, <1>2, PTL DEF Spec

LEMMA CacheInvOfTwo ==
  ASSUME Few
  PROVE  Spec => []CacheInv
<1>1. Init => CacheInv
  BY CacheInit
<1>2. CacheInv /\ [Next]_vars => CacheInv'
  <2> SUFFICES ASSUME CacheInv, [Next]_vars PROVE CacheInv'
    OBVIOUS
  <2>1. [NothingStale]_vars
    BY TwoAreNotStale, Zenon
  <2> QED
    BY <2>1, CacheStep DEF Few
<1> QED
  BY <1>1, <1>2, PTL DEF Spec

(* What the cache says of the file is so: every extent in the list describes   *)
(* the chain as it is now, no two of them start at the same place, and BUG_ON  *)
(* does not stop the kernel.  This is without a condition for two processes.   *)
(* However many there are, the one step after which it can be lost is the one  *)
(* that fat_cache_add leaves open by dropping cache_lru_lock to allocate,      *)
(* AddsStale: every behaviour keeps it up to its first such step.              *)
THEOREM CacheHolds ==
  ASSUME IsFiniteSet(Procs)
  PROVE  /\ Spec /\ [][NothingStale]_vars => []CacheSound
         /\ Cardinality(Procs) <= 2 => (Spec => []CacheSound)
<1>1. CacheInv => CacheSound
  BY CacheInvSound
<1>2. Spec /\ [][NothingStale]_vars => []CacheSound
  BY <1>1, CacheInvHolds, PTL
<1>3. ASSUME Cardinality(Procs) <= 2 PROVE Spec => []CacheSound
  <2>1. Few
    BY <1>3 DEF Few
  <2>2. Spec => []CacheInv
    BY <2>1, CacheInvOfTwo
  <2> QED
    BY <1>1, <2>2, PTL
<1> QED
  BY <1>2, <1>3

(* A read is answered with the cluster that the chain has at that index,       *)
(* whatever of it came from the cache and whatever was appended or cut away    *)
(* meanwhile: always with two processes, and with any number of them up to the *)
(* first such step.                                                            *)
THEOREM ReadsMapped ==
  ASSUME IsFiniteSet(Procs)
  PROVE  /\ Spec /\ [][NothingStale]_vars => []RightCluster
         /\ Cardinality(Procs) <= 2 => (Spec => []RightCluster)
<1>1. CacheInv => RightCluster
  BY CacheInvMapped
<1>2. Spec /\ [][NothingStale]_vars => []RightCluster
  BY <1>1, CacheInvHolds, PTL
<1>3. ASSUME Cardinality(Procs) <= 2 PROVE Spec => []RightCluster
  <2>1. Few
    BY <1>3 DEF Few
  <2>2. Spec => []CacheInv
    BY <2>1, CacheInvOfTwo
  <2> QED
    BY <1>1, <2>2, PTL
<1> QED
  BY <1>2, <1>3
=============================================================================
