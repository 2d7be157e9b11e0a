-------------------------- MODULE LocalCache_proofs --------------------------
(***************************************************************************)
(* Theorems about module LocalCache, for every set of keys, every set of   *)
(* sizes and every budget.                                                 *)
(***************************************************************************)
EXTENDS LocalCache, Counting_proofs, SequenceTheorems

Entry == [node : Nodes, key : Keys]

\* The list, the map and the finder of cache c are about the same keys.
Good(c) ==
  /\ DOMAIN c.map \subseteq Keys
  /\ c.map \in [DOMAIN c.map -> Sizes]
  /\ c.keyfinder \in [DOMAIN c.map -> Nodes]
  /\ c.free_mem = MAX_CACHE_SIZE - SumFunction(c.map)
  /\ c.lru_queue \in Seq(Entry)
  /\ \A i, j \in 1 .. Len(c.lru_queue) :
       /\ c.lru_queue[i].key = c.lru_queue[j].key => i = j
       /\ c.lru_queue[i].node = c.lru_queue[j].node => i = j
  /\ \A i \in 1 .. Len(c.lru_queue) :
       /\ c.lru_queue[i].key \in DOMAIN c.map
       /\ c.keyfinder[c.lru_queue[i].key] = c.lru_queue[i].node
  /\ \A k \in DOMAIN c.map : \E i \in 1 .. Len(c.lru_queue) : c.lru_queue[i].key = k

\* The history starts with the keys of the list.
Remembered(queue, history) ==
  /\ history \in Seq(Keys)
  /\ \A i, j \in 1 .. Len(history) : history[i] = history[j] => i = j
  /\ Len(queue) <= Len(history)
  /\ \A i \in 1 .. Len(queue) : queue[i].key = history[i]

\* The inductive invariant.  Consistent itself is not inductive: it does not say
\* that two entries have different nodes, without which the finder could lead a
\* lookup to the entry of another key.
IInv == Good(Cache) /\ Remembered(lru_queue, recent) /\ EntriesBounded
----------------------------------------------------------------------------
(* Data                                                                    *)

LEMMA GoodByFields ==
  ASSUME NEW c, NEW d, Good(c), d.map = c.map, d.free_mem = c.free_mem,
         d.lru_queue = c.lru_queue, d.keyfinder = c.keyfinder
  PROVE  Good(d)
<1>. DEFINE L == Len(c.lru_queue)
<1>1. Len(d.lru_queue) = L /\ DOMAIN d.map = DOMAIN c.map /\ SumFunction(d.map) = SumFunction(c.map)
  OBVIOUS
<1>2. /\ DOMAIN d.map \subseteq Keys
      /\ d.map \in [DOMAIN d.map -> Sizes]
      /\ d.keyfinder \in [DOMAIN d.map -> Nodes]
      /\ d.free_mem = MAX_CACHE_SIZE - SumFunction(d.map)
      /\ d.lru_queue \in Seq(Entry)
  BY <1>1 DEF Good
<1>3. \A i, j \in 1 .. L :
        /\ d.lru_queue[i].key = d.lru_queue[j].key => i = j
        /\ d.lru_queue[i].node = d.lru_queue[j].node => i = j
  BY DEF Good
<1>4. \A i \in 1 .. L :
        /\ d.lru_queue[i].key \in DOMAIN d.map
        /\ d.keyfinder[d.lru_queue[i].key] = d.lru_queue[i].node
  BY DEF Good
<1>5. \A k \in DOMAIN d.map : \E i \in 1 .. L : d.lru_queue[i].key = k
  BY DEF Good
<1>. HIDE DEF L
<1>. QED
  BY <1>1, <1>2, <1>3, <1>4, <1>5 DEF Good

LEMMA Sized ==
  /\ Min(Sizes) \in Sizes /\ \A x \in Sizes : Min(Sizes) <= x
  /\ Max(Sizes) \in Sizes /\ \A x \in Sizes : x <= Max(Sizes)
<1>0. Sizes \in SUBSET Nat /\ IsFiniteSet(Sizes) /\ Sizes # {}
  BY CacheAssumption
<1>1. PICK x \in Sizes : \A y \in Sizes : x <= y
  BY <1>0, LeastNat
<1>2. PICK z \in Sizes : \A y \in Sizes : y <= z
  BY <1>0, GreatestNat
<1>3. Min(Sizes) \in Sizes /\ \A y \in Sizes : Min(Sizes) <= y
  BY <1>1 DEF Min
<1>4. Max(Sizes) \in Sizes /\ \A y \in Sizes : Max(Sizes) >= y
  <2>1. \E w \in Sizes : \A y \in Sizes : w >= y
    BY <1>0, <1>2
  <2>. QED
    BY <2>1 DEF Max
<1>. QED
  BY <1>0, <1>3, <1>4

\* Which element of s comes to place n when element i goes to the front.
From(i, n) == IF n = 1 THEN i ELSE IF n <= i THEN n - 1 ELSE n

LEMMA FromIsPermutation ==
  ASSUME NEW L \in Nat, NEW i \in 1 .. L
  PROVE  /\ \A n \in 1 .. L : From(i, n) \in 1 .. L
         /\ \A n, m \in 1 .. L : From(i, n) = From(i, m) => n = m
         /\ \A m \in 1 .. L : \E n \in 1 .. L : From(i, n) = m
<1>1. \A n \in 1 .. L : From(i, n) \in 1 .. L
  BY DEF From
<1>2. \A n, m \in 1 .. L : From(i, n) = From(i, m) => n = m
  BY DEF From
<1>3. ASSUME NEW m \in 1 .. L
      PROVE  \E n \in 1 .. L : From(i, n) = m
  <2>1. CASE m = i
    BY <2>1 DEF From
  <2>2. CASE m < i
    <3>1. m + 1 \in 1 .. L /\ From(i, m + 1) = m
      BY <2>2 DEF From
    <3>. QED
      BY <3>1
  <2>3. CASE m > i
    BY <2>3 DEF From
  <2>. QED
    BY <2>1, <2>2, <2>3
<1>. QED
  BY <1>1, <1>2, <1>3

LEMMA ToFrontIs ==
  ASSUME NEW S, NEW s \in Seq(S), NEW i \in 1 .. Len(s)
  PROVE  /\ ToFront(s, i) \in Seq(S)
         /\ Len(ToFront(s, i)) = Len(s)
         /\ \A n \in 1 .. Len(s) : ToFront(s, i)[n] = s[From(i, n)]
<1>. DEFINE a == SubSeq(s, 1, i - 1)
            b == SubSeq(s, i + 1, Len(s))
            L == Len(s)
<1>1. L \in Nat /\ i \in 1 .. L /\ \A n \in 1 .. L : s[n] \in S
  BY LenProperties
<1>2. a \in Seq(S) /\ Len(a) = i - 1 /\ \A n \in 1 .. i - 1 : a[n] = s[n]
  <2>1. \A n \in 1 .. i - 1 : s[n] \in S
    BY <1>1
  <2>2. /\ a \in Seq(S) /\ Len(a) = IF 1 <= i - 1 THEN (i - 1) - 1 + 1 ELSE 0
        /\ \A n \in 1 .. (i - 1) - 1 + 1 : a[n] = s[1 + n - 1]
    BY <1>1, <2>1, SubSeqProperties
  <2>. HIDE DEF a
  <2>. QED
    BY <1>1, <2>2
<1>3. b \in Seq(S) /\ Len(b) = L - i /\ \A n \in 1 .. L - i : b[n] = s[i + n]
  <2>1. \A n \in i + 1 .. L : s[n] \in S
    BY <1>1
  <2>2. /\ b \in Seq(S) /\ Len(b) = IF i + 1 <= L THEN L - (i + 1) + 1 ELSE 0
        /\ \A n \in 1 .. L - (i + 1) + 1 : b[n] = s[(i + 1) + n - 1]
    BY <1>1, <2>1, SubSeqProperties
  <2>. HIDE DEF b
  <2>. QED
    BY <1>1, <2>2
<1>. DEFINE c == a \o b
            h == <<s[i]>>
<1>. HIDE DEF a, b, L
<1>4. /\ c \in Seq(S) /\ Len(c) = L - 1
      /\ \A n \in 1 .. L - 1 : c[n] = IF n <= i - 1 THEN s[n] ELSE s[n + 1]
  <2>1. /\ c \in Seq(S) /\ Len(c) = Len(a) + Len(b)
        /\ \A n \in 1 .. Len(a) + Len(b) : c[n] = IF n <= Len(a) THEN a[n] ELSE b[n - Len(a)]
    BY <1>2, <1>3, ConcatProperties
  <2>. HIDE DEF c
  <2>. QED
    BY <1>1, <1>2, <1>3, <2>1
<1>5. h \in Seq(S) /\ Len(h) = 1 /\ h[1] = s[i]
  BY <1>1
<1>. HIDE DEF c, h
<1>6. /\ h \o c \in Seq(S) /\ Len(h \o c) = Len(h) + Len(c)
      /\ \A n \in 1 .. Len(h) + Len(c) :
           (h \o c)[n] = IF n <= Len(h) THEN h[n] ELSE c[n - Len(h)]
  BY <1>4, <1>5, ConcatProperties
<1>7. ToFront(s, i) = h \o c
  BY DEF ToFront, RemoveAt, h, c, a, b, L
<1>8. ASSUME NEW n \in 1 .. L
      PROVE  (h \o c)[n] = s[From(i, n)]
  <2>1. CASE n = 1
    <3>1. (h \o c)[1] = h[1]
      BY <1>1, <1>4, <1>5, <1>6, <2>1
    <3>2. From(i, n) = i
      BY <2>1 DEF From
    <3>. QED
      BY <1>5, <2>1, <3>1, <3>2
  <2>2. CASE n > 1
    <3>1. (h \o c)[n] = c[n - 1] /\ n - 1 \in 1 .. L - 1
      BY <1>1, <1>4, <1>5, <1>6, <2>2
    <3>2. c[n - 1] = IF n - 1 <= i - 1 THEN s[n - 1] ELSE s[n]
      BY <1>1, <1>4, <3>1
    <3>. QED
      BY <1>1, <2>2, <3>1, <3>2 DEF From
  <2>3. n = 1 \/ n > 1
    BY <1>1
  <2>. QED
    BY <2>1, <2>2, <2>3
<1>. QED
  BY <1>1, <1>4, <1>5, <1>6, <1>7, <1>8 DEF L

\* An element in front of a sequence.
LEMMA InFront ==
  ASSUME NEW S, NEW s \in Seq(S), NEW e \in S
  PROVE  /\ <<e>> \o s \in Seq(S)
         /\ Len(<<e>> \o s) = Len(s) + 1
         /\ (<<e>> \o s)[1] = e
         /\ \A n \in 2 .. Len(s) + 1 : (<<e>> \o s)[n] = s[n - 1]
<1>1. <<e>> \in Seq(S) /\ Len(<<e>>) = 1 /\ <<e>>[1] = e /\ Len(s) \in Nat
  OBVIOUS
<1>. DEFINE h == <<e>>
<1>. HIDE DEF h
<1>2. /\ h \o s \in Seq(S) /\ Len(h \o s) = Len(h) + Len(s)
      /\ \A n \in 1 .. Len(h) + Len(s) :
           (h \o s)[n] = IF n <= Len(h) THEN h[n] ELSE s[n - Len(h)]
  BY <1>1, ConcatProperties DEF h
<1>3. Len(h) = 1 /\ h[1] = e
  BY <1>1 DEF h
<1>4. /\ h \o s \in Seq(S) /\ Len(h \o s) = Len(s) + 1 /\ (h \o s)[1] = e
      /\ \A n \in 2 .. Len(s) + 1 : (h \o s)[n] = s[n - 1]
  BY <1>1, <1>2, <1>3
<1>. QED
  BY <1>4 DEF h
----------------------------------------------------------------------------
(* Entries come and go                                                     *)

LEMMA GoodFinite ==
  ASSUME NEW c, Good(c)
  PROVE  IsFiniteSet(DOMAIN c.map) /\ c.map \in [DOMAIN c.map -> Nat]
<1>1. IsFiniteSet(DOMAIN c.map)
  BY CacheAssumption, FS_Subset DEF Good
<1>2. c.map \in [DOMAIN c.map -> Nat]
  BY CacheAssumption DEF Good
<1>. QED
  BY <1>1, <1>2

\* If the budget is exceeded there is an entry, and without it all fits together
\* again.
LEMMA EvictGood ==
  ASSUME NEW c, Good(c), c.free_mem < 0
  PROVE  LET L == Len(c.lru_queue)
         IN  /\ L \in Nat \ {0}
             /\ Good(Evict(c))
             /\ Len(Evict(c).lru_queue) = L - 1
             /\ \A n \in 1 .. L - 1 : Evict(c).lru_queue[n] = c.lru_queue[n]
             /\ c.lru_queue[L].key \in DOMAIN c.map
             /\ DOMAIN Evict(c).map = DOMAIN c.map \ {c.lru_queue[L].key}
<1>. DEFINE q == c.lru_queue
            L == Len(q)
            D == DOMAIN c.map
            k == q[L].key
            e == Evict(c)
<1>1. IsFiniteSet(D) /\ c.map \in [D -> Nat] /\ q \in Seq(Entry) /\ L \in Nat
  BY GoodFinite, LenProperties DEF Good
<1>2. L # 0
  <2>. SUFFICES ASSUME L = 0 PROVE FALSE
    OBVIOUS
  <2>1. D = {}
    BY DEF Good
  <2>2. SumFunction(c.map) = 0
    BY <1>1, <2>1, SumOfZeros
  <2>. QED
    BY <2>2, CacheAssumption DEF Good
<1>3. k \in D /\ Last(q) = q[L]
  BY <1>1, <1>2, SMTT(30) DEF Good, Last
<1>4. /\ e.map = [x \in D \ {k} |-> c.map[x]]
      /\ e.free_mem = c.free_mem + c.map[k]
      /\ e.lru_queue = Front(q)
      /\ e.keyfinder = [x \in DOMAIN c.keyfinder \ {k} |-> c.keyfinder[x]]
  BY <1>3 DEF Evict, Without, GiveBack, FinderErased
<1>5. /\ Front(q) \in Seq(Entry) /\ Len(Front(q)) = L - 1
      /\ \A n \in 1 .. L - 1 : Front(q)[n] = q[n]
  <2>1. \A n \in 1 .. L - 1 : q[n] \in Entry
    BY <1>1
  <2>2. /\ SubSeq(q, 1, L - 1) \in Seq(Entry)
        /\ Len(SubSeq(q, 1, L - 1)) = IF 1 <= L - 1 THEN (L - 1) - 1 + 1 ELSE 0
        /\ \A n \in 1 .. (L - 1) - 1 + 1 : SubSeq(q, 1, L - 1)[n] = q[1 + n - 1]
    BY <1>1, <2>1, SubSeqProperties
  <2>3. Front(q) = SubSeq(q, 1, L - 1)
    BY DEF Front
  <2>. HIDE DEF L, q
  <2>. QED
    BY <1>1, <1>2, <2>2, <2>3
<1>6. SumFunction(c.map) = c.map[k] + SumFunction(e.map) /\ SumFunction(e.map) \in Nat
  <2>1. e.map \in [D \ {k} -> Nat] /\ \A x \in D \ {k} : e.map[x] = c.map[x]
    BY <1>1, <1>4
  <2>2. IsFiniteSet(D \ {k})
    BY <1>1, FS_RemoveElement
  <2>. DEFINE f == c.map
              g == e.map
  <2>3. /\ IsFiniteSet(D) /\ k \in D /\ f \in [D -> Nat] /\ g \in [D \ {k} -> Nat]
        /\ \A x \in D \ {k} : g[x] = f[x]
    BY <1>1, <1>3, <2>1
  <2>. HIDE DEF D, L, q, k, e, f, g
  <2>5. SumFunction(f) = f[k] + SumFunction(g)
    BY <2>3, SumWithout
  <2>4. SumFunction(e.map) \in Nat
    BY <2>1, <2>2, SumIsNat, SumDef
  <2>. QED
    BY <2>4, <2>5 DEF f, g
<1>7. e.free_mem = MAX_CACHE_SIZE - SumFunction(e.map)
  <2>1. c.free_mem = MAX_CACHE_SIZE - SumFunction(c.map) /\ c.map[k] \in Nat
    BY <1>1, <1>3 DEF Good
  <2>. HIDE DEF k, e
  <2>. QED
    BY <1>4, <1>6, <2>1, CacheAssumption
<1>8. \A i, j \in 1 .. L : /\ q[i].key = q[j].key => i = j
                           /\ q[i].node = q[j].node => i = j
  BY DEF Good
<1>9. \A i \in 1 .. L : q[i].key \in D /\ c.keyfinder[q[i].key] = q[i].node
  BY DEF Good
<1>10. \A i \in 1 .. L - 1 : i \in 1 .. L /\ q[i].key # k
  BY <1>1, <1>2, <1>8
<1>11. DOMAIN e.map = D \ {k} /\ DOMAIN c.keyfinder = D
  BY <1>4 DEF Good
<1>12. \A x \in DOMAIN e.map : \E i \in 1 .. L - 1 : q[i].key = x
  <2>1. ASSUME NEW x \in D \ {k} PROVE \E i \in 1 .. L - 1 : q[i].key = x
    <3>1. PICK i \in 1 .. L : q[i].key = x
      BY DEF Good
    <3>2. i # L
      BY <3>1
    <3>. QED
      BY <1>1, <3>1, <3>2
  <2>. QED
    BY <1>11, <2>1
<1>13. /\ DOMAIN e.map \subseteq Keys
       /\ e.map \in [DOMAIN e.map -> Sizes]
       /\ e.keyfinder \in [DOMAIN e.map -> Nodes]
  BY <1>4, <1>11 DEF Good
<1>14. Len(e.lru_queue) = L - 1 /\ \A n \in 1 .. L - 1 : e.lru_queue[n] = q[n]
  BY <1>4, <1>5
<1>15. \A i \in 1 .. L - 1 : q[i].key \in DOMAIN e.map /\ e.keyfinder[q[i].key] = q[i].node
  BY <1>4, <1>9, <1>10, <1>11
<1>16. e.lru_queue \in Seq(Entry)
  BY <1>4, <1>5
<1>17. Good(e)
  <2>. HIDE DEF e, q, k, D, L
  <2>1. \A i, j \in 1 .. L - 1 : /\ q[i].key = q[j].key => i = j
                                 /\ q[i].node = q[j].node => i = j
    BY <1>8, <1>10
  <2>2. \A i, j \in 1 .. L - 1 : /\ e.lru_queue[i].key = e.lru_queue[j].key => i = j
                                 /\ e.lru_queue[i].node = e.lru_queue[j].node => i = j
    BY <1>14, <2>1
  <2>3. \A i \in 1 .. L - 1 : /\ e.lru_queue[i].key \in DOMAIN e.map
                              /\ e.keyfinder[e.lru_queue[i].key] = e.lru_queue[i].node
    BY <1>14, <1>15
  <2>4. \A x \in DOMAIN e.map : \E i \in 1 .. L - 1 : e.lru_queue[i].key = x
    BY <1>12, <1>14
  <2>. QED
    BY <1>7, <1>13, <1>14, <1>16, <2>2, <2>3, <2>4 DEF Good
<1>. QED
  BY <1>1, <1>2, <1>3, <1>11, <1>14, <1>17

\* There is a node that no entry has.
LEMMA FreeNode ==
  ASSUME NEW c, Good(c)
  PROVE  \E n \in Nodes : \A e \in Range(c.lru_queue) : e.node # n
<1>. DEFINE D == DOMAIN c.map
            U == {c.keyfinder[k] : k \in D}
<1>1. IsFiniteSet(D) /\ Cardinality(D) <= Cardinality(Keys) /\ Cardinality(Keys) \in Nat
  BY CacheAssumption, FS_Subset, FS_CardinalityType DEF Good
<1>2. c.keyfinder \in Surjection(D, U)
  BY DEF Good, Surjection
<1>3. IsFiniteSet(U) /\ Cardinality(U) <= Cardinality(D)
  BY <1>1, <1>2, FS_Surjection
<1>4. IsFiniteSet(Nodes) /\ Cardinality(Nodes) = Cardinality(Keys) + 1
  BY <1>1, FS_Interval DEF Nodes
<1>. HIDE DEF U
<1>5. PICK n \in Nodes : n \notin U
  <2>. SUFFICES ASSUME Nodes \subseteq U PROVE FALSE
    OBVIOUS
  <2>1. Cardinality(Nodes) <= Cardinality(U)
    BY <1>3, FS_Subset
  <2>2. Cardinality(U) \in Nat /\ Cardinality(D) \in Nat
    BY <1>1, <1>3, FS_CardinalityType
  <2>. HIDE DEF D
  <2>. QED
    BY <1>1, <1>3, <1>4, <2>1, <2>2
<1>6. ASSUME NEW e \in Range(c.lru_queue)
      PROVE  e.node \in U
  <2>1. PICK i \in 1 .. Len(c.lru_queue) : e = c.lru_queue[i]
    BY LenProperties DEF Range, Good
  <2>2. c.lru_queue[i].key \in D /\ c.keyfinder[c.lru_queue[i].key] = c.lru_queue[i].node
    BY DEF Good
  <2>. QED
    BY <2>1, <2>2 DEF U
<1>. QED
  BY <1>5, <1>6

\* A new entry gets a node of its own.
LEMMA InsertGood ==
  ASSUME NEW c, Good(c), NEW k \in Keys \ DOMAIN c.map, NEW size \in Sizes
  PROVE  LET L == Len(c.lru_queue)
         IN  /\ Good(Insert(c, k, size))
             /\ Len(Insert(c, k, size).lru_queue) = L + 1
             /\ Insert(c, k, size).lru_queue[1].key = k
             /\ \A n \in 2 .. L + 1 : Insert(c, k, size).lru_queue[n] = c.lru_queue[n - 1]
             /\ DOMAIN Insert(c, k, size).map = DOMAIN c.map \cup {k}
<1>. DEFINE q == c.lru_queue
            L == Len(q)
            D == DOMAIN c.map
            e == Insert(c, k, size)
            node == CHOOSE n \in Nodes : \A x \in Range(q) : x.node # n
            entry == [node |-> node, key |-> k]
<1>1. IsFiniteSet(D) /\ c.map \in [D -> Nat] /\ q \in Seq(Entry) /\ L \in Nat
  BY GoodFinite, LenProperties DEF Good
<1>2. node \in Nodes /\ \A x \in Range(q) : x.node # node
  BY FreeNode
<1>3. \A i \in 1 .. L : q[i].node # node
  BY <1>1, <1>2, LenProperties DEF Range
<1>4. /\ e.map = [x \in D \cup {k} |-> IF x = k THEN size ELSE c.map[x]]
      /\ e.free_mem = c.free_mem - size
      /\ e.lru_queue = <<entry>> \o q
      /\ e.keyfinder = [x \in DOMAIN c.keyfinder \cup {k} |->
                          IF x = k THEN node ELSE c.keyfinder[x]]
  BY DEF Insert, With
<1>. HIDE DEF e, node
<1>5. entry \in Entry /\ entry.key = k /\ entry.node = node
  BY <1>2 DEF Entry
<1>. HIDE DEF entry
<1>6. /\ e.lru_queue \in Seq(Entry) /\ Len(e.lru_queue) = L + 1 /\ e.lru_queue[1] = entry
      /\ \A n \in 2 .. L + 1 : e.lru_queue[n] = q[n - 1]
  BY <1>1, <1>4, <1>5, InFront
<1>7. DOMAIN e.map = D \cup {k} /\ DOMAIN c.keyfinder = D
  BY <1>4 DEF Good
<1>8. SumFunction(e.map) = size + SumFunction(c.map) /\ SumFunction(c.map) \in Nat
  <2>1. IsFiniteSet(D \cup {k}) /\ (D \cup {k}) \ {k} = D
    BY <1>1, FS_AddElement
  <2>2. e.map \in [D \cup {k} -> Nat] /\ e.map[k] = size /\ \A x \in D : c.map[x] = e.map[x]
    BY <1>1, <1>4, CacheAssumption
  <2>3. SumFunction(c.map) \in Nat
    BY <1>1, SumIsNat, SumDef
  <2>. DEFINE E == D \cup {k}
  <2>4. k \in E /\ E \ {k} = D /\ e.map \in [E -> Nat] /\ IsFiniteSet(E)
    BY <2>1, <2>2
  <2>. HIDE DEF D, E
  <2>5. c.map \in [E \ {k} -> Nat] /\ \A x \in E \ {k} : c.map[x] = e.map[x]
    BY <1>1, <2>2, <2>4
  <2>. QED
    BY <2>2, <2>3, <2>4, <2>5, SumWithout
<1>9. e.free_mem = MAX_CACHE_SIZE - SumFunction(e.map)
  <2>1. c.free_mem = MAX_CACHE_SIZE - SumFunction(c.map) /\ size \in Nat
    BY CacheAssumption DEF Good
  <2>. QED
    BY <1>4, <1>8, <2>1, CacheAssumption
<1>10. /\ DOMAIN e.map \subseteq Keys
       /\ e.map \in [DOMAIN e.map -> Sizes]
       /\ e.keyfinder \in [DOMAIN e.map -> Nodes]
  BY <1>2, <1>4, <1>7 DEF Good
<1>11. \A i \in 1 .. L : q[i].key \in D /\ c.keyfinder[q[i].key] = q[i].node /\ q[i].key # k
  BY DEF Good
<1>12. ASSUME NEW i \in 1 .. L + 1
       PROVE  /\ e.lru_queue[i].key \in DOMAIN e.map
              /\ e.keyfinder[e.lru_queue[i].key] = e.lru_queue[i].node
  <2>1. CASE i = 1
    BY <1>4, <1>5, <1>6, <1>7, <2>1
  <2>2. CASE i # 1
    <3>1. i - 1 \in 1 .. L /\ e.lru_queue[i] = q[i - 1]
      BY <1>1, <1>6, <2>2
    <3>2. q[i - 1].key \in D /\ q[i - 1].key # k /\ c.keyfinder[q[i - 1].key] = q[i - 1].node
      BY <1>11, <3>1
    <3>. DEFINE x == q[i - 1].key
    <3>3. x \in D /\ x # k /\ c.keyfinder[x] = q[i - 1].node
      BY <3>2
    <3>. HIDE DEF D, L, q, x
    <3>4. x \in DOMAIN e.map /\ e.keyfinder[x] = q[i - 1].node
      BY <1>4, <1>7, <3>3
    <3>. QED
      BY <3>1, <3>4 DEF x
  <2>. QED
    BY <2>1, <2>2
<1>13. ASSUME NEW i \in 1 .. L + 1, NEW j \in 1 .. L + 1
       PROVE  /\ e.lru_queue[i].key = e.lru_queue[j].key => i = j
              /\ e.lru_queue[i].node = e.lru_queue[j].node => i = j
  <2>1. \A n \in 1 .. L + 1 : n = 1 \/ (n - 1 \in 1 .. L /\ e.lru_queue[n] = q[n - 1])
    BY <1>1, <1>6, SMTT(30)
  <2>2. \A n, m \in 1 .. L : /\ q[n].key = q[m].key => n = m
                             /\ q[n].node = q[m].node => n = m
    BY DEF Good
  <2>. HIDE DEF D, L, q
  <2>3. CASE i = 1 /\ j = 1
    BY <2>3
  <2>4. CASE i = 1 /\ j # 1
    BY <1>3, <1>5, <1>6, <1>11, <2>1, <2>4
  <2>5. CASE i # 1 /\ j = 1
    BY <1>3, <1>5, <1>6, <1>11, <2>1, <2>5
  <2>6. CASE i # 1 /\ j # 1
    <3>1. /\ i - 1 \in 1 .. L /\ e.lru_queue[i] = q[i - 1]
          /\ j - 1 \in 1 .. L /\ e.lru_queue[j] = q[j - 1]
      BY <2>1, <2>6
    <3>2. /\ q[i - 1].key = q[j - 1].key => i - 1 = j - 1
          /\ q[i - 1].node = q[j - 1].node => i - 1 = j - 1
      BY <2>2, <3>1
    <3>3. i - 1 = j - 1 => i = j
      BY <1>1
    <3>. QED
      BY <3>1, <3>2, <3>3
  <2>. QED
    BY <2>3, <2>4, <2>5, <2>6
<1>14. ASSUME NEW x \in DOMAIN e.map
       PROVE  \E i \in 1 .. L + 1 : e.lru_queue[i].key = x
  <2>1. CASE x = k
    <3>1. 1 \in 1 .. L + 1
      BY <1>1
    <3>. QED
      BY <1>5, <1>6, <2>1, <3>1
  <2>2. CASE x # k
    <3>1. x \in D
      BY <1>7, <2>2
    <3>2. PICK i \in 1 .. L : q[i].key = x
      BY <3>1 DEF Good
    <3>3. i + 1 \in 2 .. L + 1 /\ (i + 1) - 1 = i /\ i + 1 \in 1 .. L + 1
      BY <1>1
    <3>4. e.lru_queue[i + 1] = q[i]
      BY <1>6, <3>3
    <3>. QED
      BY <3>2, <3>3, <3>4
  <2>. QED
    BY <2>1, <2>2
<1>15. Good(e)
  BY <1>6, <1>9, <1>10, <1>12, <1>13, <1>14 DEF Good
<1>. QED
  BY <1>5, <1>6, <1>7, <1>15 DEF e
----------------------------------------------------------------------------
(* The steps                                                               *)

\* So many times the smallest size fit into the budget.
LEMMA Fits ==
  /\ MAX_CACHE_SIZE \div Min(Sizes) \in Nat
  /\ \A n \in Nat : n * Min(Sizes) <= MAX_CACHE_SIZE => n <= MAX_CACHE_SIZE \div Min(Sizes)
<1>. DEFINE m == Min(Sizes)
            b == MAX_CACHE_SIZE
            d == b \div m
<1>1. m \in Nat \ {0} /\ b \in Nat
  BY Sized, CacheAssumption
<1>. HIDE DEF m, b
<1>2. d \in Nat /\ b < (d + 1) * m
  <2>1. d \in Int /\ d * m <= b /\ b < d * m + m
    BY <1>1
  <2>2. d * m + m = (d + 1) * m
    BY <1>1
  <2>. QED
    BY <1>1, <2>1, <2>2
<1>. HIDE DEF d
<1>3. ASSUME NEW n \in Nat, n * m <= b, ~(n <= d)
      PROVE  FALSE
  <2>1. n = (d + 1) + (n - (d + 1)) /\ n - (d + 1) \in Nat
    BY <1>2, <1>3
  <2>2. PICK j \in Nat : n = (d + 1) + j
    BY <2>1
  <2>3. n * m = (d + 1) * m + j * m /\ j * m \in Nat /\ (d + 1) * m \in Nat
    BY <1>1, <1>2, <2>2
  <2>. DEFINE x == (d + 1) * m
              y == j * m
              z == n * m
  <2>4. z = x + y /\ x \in Nat /\ y \in Nat /\ z <= b /\ b < x
    BY <1>2, <1>3, <2>3
  <2>. HIDE DEF x, y, z
  <2>. QED
    BY <1>1, <2>4
<1>. QED
  BY <1>2, <1>3 DEF m, b, d

LEMMA InitInv == Init => IInv
<1>. SUFFICES ASSUME Init PROVE IInv
  OBVIOUS
<1>1. /\ Cache.map = [k \in {} |-> 0] /\ Cache.free_mem = MAX_CACHE_SIZE
      /\ Cache.lru_queue = <<>> /\ Cache.keyfinder = [k \in {} |-> 0]
      /\ DOMAIN map = {} /\ recent = <<>> /\ lru_queue = <<>>
  BY DEF Init, Cache
<1>2. IsFiniteSet({}) /\ Cardinality({}) = 0
  BY FS_EmptySet
<1>3. SumFunction(Cache.map) = 0
  BY <1>1, <1>2, SumOfZeros
<1>4. <<>> \in Seq(Entry) /\ <<>> \in Seq(Keys) /\ Len(<<>>) = 0
  OBVIOUS
<1>5. Good(Cache)
  BY <1>1, <1>3, <1>4, CacheAssumption DEF Good
<1>6. Remembered(lru_queue, recent)
  BY <1>1, <1>4 DEF Remembered
<1>7. EntriesBounded
  BY <1>1, <1>2, Fits DEF EntriesBounded
<1>. QED
  BY <1>5, <1>6, <1>7 DEF IInv

\* A lookup moves the entry of its key, and of no other key, to the front.
LEMMA HitInv == ASSUME IInv, NEW k \in Keys, Hit(k) PROVE IInv'
<1>. DEFINE q == lru_queue
            L == Len(q)
            t == lru_queue'
<1>1. /\ k \in DOMAIN map /\ t = Splice(k) /\ Used(k)
      /\ UNCHANGED <<map, free_mem, keyfinder>>
  BY DEF Hit
<1>2. /\ DOMAIN map \subseteq Keys
      /\ map \in [DOMAIN map -> Sizes]
      /\ keyfinder \in [DOMAIN map -> Nodes]
      /\ free_mem = MAX_CACHE_SIZE - SumFunction(map)
      /\ q \in Seq(Entry)
      /\ \A i, j \in 1 .. L : /\ q[i].key = q[j].key => i = j
                              /\ q[i].node = q[j].node => i = j
      /\ \A i \in 1 .. L : q[i].key \in DOMAIN map /\ keyfinder[q[i].key] = q[i].node
      /\ \A x \in DOMAIN map : \E i \in 1 .. L : q[i].key = x
  BY DEF IInv, Good, Cache
<1>3. L \in Nat /\ DOMAIN q = 1 .. L
  BY <1>2, LenProperties
<1>4. PICK i \in 1 .. L : q[i].key = k
  BY <1>1, <1>2
<1>5. i = CHOOSE j \in DOMAIN q : q[j].node = keyfinder[k]
  <2>1. q[i].node = keyfinder[k] /\ \A j \in DOMAIN q : q[j].node = keyfinder[k] => j = i
    BY <1>2, <1>3, <1>4
  <2>. QED
    BY <1>3, <2>1
<1>6. t = ToFront(q, i)
  BY <1>1, <1>5 DEF Splice
<1>. HIDE DEF q, t
<1>7. /\ t \in Seq(Entry) /\ Len(t) = L
      /\ \A n \in 1 .. L : t[n] = q[From(i, n)]
  <2>1. q \in Seq(Entry) /\ i \in 1 .. Len(q)
    BY <1>2
  <2>2. /\ ToFront(q, i) \in Seq(Entry) /\ Len(ToFront(q, i)) = Len(q)
        /\ \A n \in 1 .. Len(q) : ToFront(q, i)[n] = q[From(i, n)]
    BY <2>1, ToFrontIs
  <2>. QED
    BY <1>6, <2>2
<1>8. /\ \A n \in 1 .. L : From(i, n) \in 1 .. L
      /\ \A n, m \in 1 .. L : From(i, n) = From(i, m) => n = m
      /\ \A m \in 1 .. L : \E n \in 1 .. L : From(i, n) = m
  BY <1>3, FromIsPermutation
<1>. HIDE DEF q, L, t
<1>9. Good(Cache)'
  <2>1. \A n, m \in 1 .. L : /\ t[n].key = t[m].key => n = m
                             /\ t[n].node = t[m].node => n = m
    <3>1. TAKE n, m \in 1 .. L
    <3>2. /\ From(i, n) \in 1 .. L /\ t[n] = q[From(i, n)]
          /\ From(i, m) \in 1 .. L /\ t[m] = q[From(i, m)]
          /\ From(i, n) = From(i, m) => n = m
      BY <1>7, <1>8
    <3>3. /\ q[From(i, n)].key = q[From(i, m)].key => From(i, n) = From(i, m)
          /\ q[From(i, n)].node = q[From(i, m)].node => From(i, n) = From(i, m)
      BY <1>2, <3>2
    <3>. QED
      BY <3>2, <3>3
  <2>2. \A n \in 1 .. L : t[n].key \in DOMAIN map /\ keyfinder[t[n].key] = t[n].node
    <3>1. TAKE n \in 1 .. L
    <3>2. From(i, n) \in 1 .. L /\ t[n] = q[From(i, n)]
      BY <1>7, <1>8
    <3>3. /\ q[From(i, n)].key \in DOMAIN map
          /\ keyfinder[q[From(i, n)].key] = q[From(i, n)].node
      BY <1>2, <3>2
    <3>. QED
      BY <3>2, <3>3
  <2>3. ASSUME NEW x \in DOMAIN map PROVE \E n \in 1 .. L : t[n].key = x
    <3>1. PICK m \in 1 .. L : q[m].key = x
      BY <1>2
    <3>2. PICK n \in 1 .. L : From(i, n) = m
      BY <1>8
    <3>. QED
      BY <1>7, <3>1, <3>2
  <2>. DEFINE e == Cache'
  <2>4. e.map = map /\ e.free_mem = free_mem /\ e.keyfinder = keyfinder /\ e.lru_queue = t
    BY <1>1 DEF Cache, t
  <2>. HIDE DEF e
  <2>5. Good(e)
    <3>1. /\ DOMAIN e.map \subseteq Keys
          /\ e.map \in [DOMAIN e.map -> Sizes]
          /\ e.keyfinder \in [DOMAIN e.map -> Nodes]
          /\ e.free_mem = MAX_CACHE_SIZE - SumFunction(e.map)
          /\ e.lru_queue \in Seq(Entry) /\ Len(e.lru_queue) = L
      BY <1>2, <1>7, <2>4
    <3>2. /\ \A n, m \in 1 .. L :
               /\ e.lru_queue[n].key = e.lru_queue[m].key => n = m
               /\ e.lru_queue[n].node = e.lru_queue[m].node => n = m
          /\ \A n \in 1 .. L : /\ e.lru_queue[n].key \in DOMAIN e.map
                              /\ e.keyfinder[e.lru_queue[n].key] = e.lru_queue[n].node
          /\ \A x \in DOMAIN e.map : \E n \in 1 .. L : e.lru_queue[n].key = x
      BY <2>1, <2>2, <2>3, <2>4
    <3>. QED
      BY <3>1, <3>2 DEF Good
  <2>. QED
    BY <2>5 DEF e, Good, Cache
<1>10. Remembered(lru_queue, recent)'
  <2>. DEFINE r == recent
              R == Len(r)
              u == recent'
  <2>1. /\ r \in Seq(Keys) /\ R \in Nat /\ DOMAIN r = 1 .. R /\ L <= R
        /\ \A n, m \in 1 .. R : r[n] = r[m] => n = m
        /\ \A n \in 1 .. L : q[n].key = r[n]
    BY LenProperties DEF IInv, Remembered, q, L
  <2>2. i \in 1 .. R /\ r[i] = k
    BY <1>3, <1>4, <2>1
  <2>3. k \in Range(r) /\ i = CHOOSE j \in DOMAIN r : r[j] = k
    <3>1. \A j \in DOMAIN r : r[j] = k => j = i
      BY <2>1, <2>2
    <3>2. i \in DOMAIN r
      BY <2>1, <2>2
    <3>3. i = CHOOSE j \in DOMAIN r : r[j] = k
      BY <2>2, <3>1, <3>2
    <3>. QED
      BY <2>2, <3>2, <3>3 DEF Range
  <2>4. u = ToFront(r, i)
    BY <1>1, <2>3 DEF Used
  <2>5. /\ u \in Seq(Keys) /\ Len(u) = R
        /\ \A n \in 1 .. R : u[n] = r[From(i, n)]
    BY <2>1, <2>2, <2>4, ToFrontIs
  <2>6. /\ \A n \in 1 .. R : From(i, n) \in 1 .. R
        /\ \A n, m \in 1 .. R : From(i, n) = From(i, m) => n = m
    BY <2>1, <2>2, FromIsPermutation
  <2>. HIDE DEF r, R, u
  <2>7. \A n, m \in 1 .. R : u[n] = u[m] => n = m
    BY <2>1, <2>5, <2>6
  <2>8. ASSUME NEW n \in 1 .. L PROVE t[n].key = u[n]
    <3>1. n \in 1 .. R /\ From(i, n) \in 1 .. L
      BY <1>3, <1>8, <2>1
    <3>. QED
      BY <1>7, <2>1, <2>5, <3>1
  <2>9. Remembered(t, u)
    BY <1>7, <2>1, <2>5, <2>7, <2>8 DEF Remembered
  <2>. QED
    BY <2>9 DEF t, u
<1>11. EntriesBounded'
  BY <1>1 DEF IInv, EntriesBounded
<1>. QED
  BY <1>9, <1>10, <1>11 DEF IInv

\* The cache with the new entry, after an entry has made way if it was full.
LEMMA GatheredInv ==
  ASSUME IInv, NEW k \in Keys, NEW size \in Sizes, Gathered(k, size)
  PROVE  IInv'
<1>. DEFINE c == IF Full THEN Evict(Cache) ELSE Cache
            e == Insert(c, k, size)
            q == lru_queue
<1>1. /\ k \in Keys \ DOMAIN map
      /\ map' = e.map /\ free_mem' = e.free_mem
      /\ lru_queue' = e.lru_queue /\ keyfinder' = e.keyfinder
      /\ Used(k)
  BY DEF Gathered
<1>2. Good(Cache) /\ Cache.map = map /\ Cache.free_mem = free_mem /\ Cache.lru_queue = q
  BY DEF IInv, Cache
<1>3. IsFiniteSet(DOMAIN map) /\ Cardinality(DOMAIN map) \in Nat
      /\ map \in [DOMAIN map -> Nat] /\ q \in Seq(Entry)
  BY <1>2, GoodFinite, FS_CardinalityType DEF Good
<1>4. /\ Good(c) /\ DOMAIN c.map \subseteq DOMAIN map
      /\ Len(c.lru_queue) \in Nat /\ Len(c.lru_queue) <= Len(q)
      /\ \A n \in 1 .. Len(c.lru_queue) : c.lru_queue[n] = q[n]
  <2>1. CASE Full
    <3>1. c = Evict(Cache) /\ Cache.free_mem < 0
      BY <1>2, <2>1 DEF Full
    <3>. DEFINE L == Len(q)
    <3>2. /\ L \in Nat \ {0} /\ Good(Evict(Cache)) /\ Len(Evict(Cache).lru_queue) = L - 1
          /\ \A n \in 1 .. L - 1 : Evict(Cache).lru_queue[n] = q[n]
          /\ DOMAIN Evict(Cache).map \subseteq DOMAIN map
      BY <1>2, <3>1, EvictGood
    <3>. HIDE DEF c, L
    <3>3. /\ Good(c) /\ Len(c.lru_queue) = L - 1 /\ DOMAIN c.map \subseteq DOMAIN map
          /\ \A n \in 1 .. L - 1 : c.lru_queue[n] = q[n]
      BY <3>1, <3>2
    <3>. HIDE DEF q
    <3>. QED
      BY <3>2, <3>3 DEF L
  <2>2. CASE ~Full
    BY <1>2, <1>3, <2>2, LenProperties
  <2>. QED
    BY <2>1, <2>2
<1>5. k \in Keys \ DOMAIN c.map
  BY <1>1, <1>4
<1>. DEFINE M == Len(c.lru_queue)
<1>6. /\ Good(e) /\ Len(e.lru_queue) = M + 1 /\ e.lru_queue[1].key = k
      /\ \A n \in 2 .. M + 1 : e.lru_queue[n] = c.lru_queue[n - 1]
      /\ DOMAIN e.map = DOMAIN c.map \cup {k}
  <2>. HIDE DEF c
  <2>. QED
    BY <1>4, <1>5, InsertGood
<1>7. Good(Cache)'
  <2>. DEFINE f == Cache'
  <2>. HIDE DEF e
  <2>1. /\ f.map = e.map /\ f.free_mem = e.free_mem /\ f.lru_queue = e.lru_queue
        /\ f.keyfinder = e.keyfinder
    BY <1>1 DEF Cache
  <2>. HIDE DEF f
  <2>2. Good(f)
    BY <1>6, <2>1, GoodByFields
  <2>. QED
    BY <2>2 DEF f, Good, Cache
<1>8. EntriesBounded'
  <2>. DEFINE n == Cardinality(DOMAIN map)
              b == MAX_CACHE_SIZE \div Min(Sizes)
  <2>1. n <= b + 1 /\ n \in Nat /\ b \in Nat
    BY <1>3, Fits DEF IInv, EntriesBounded
  <2>2. CASE Full
    <3>. DEFINE x == q[Len(q)].key
    <3>1. x \in DOMAIN map /\ DOMAIN c.map = DOMAIN map \ {x}
      BY <1>2, <2>2, EvictGood DEF Full
    <3>2. IsFiniteSet(DOMAIN c.map) /\ Cardinality(DOMAIN c.map) = n - 1
      <4>. HIDE DEF x, c, q
      <4>. QED
        BY <1>3, <3>1, FS_RemoveElement
    <3>3. Cardinality(DOMAIN map') = n
      <4>. HIDE DEF c, e, q, x
      <4>1. DOMAIN map' = DOMAIN c.map \cup {k} /\ k \notin DOMAIN c.map
        BY <1>1, <1>5, <1>6
      <4>2. Cardinality(DOMAIN map') = (n - 1) + 1
        BY <3>2, <4>1, FS_AddElement
      <4>. HIDE DEF n
      <4>. QED
        BY <2>1, <4>2
    <3>. QED
      BY <2>1, <3>3 DEF EntriesBounded
  <2>3. CASE ~Full
    <3>1. /\ n * Min(Sizes) <= SumFunction(map) /\ SumFunction(map) \in Nat
      <4>1. /\ Min(Sizes) \in Nat /\ Max(Sizes) \in Nat
            /\ \A y \in DOMAIN map : Min(Sizes) <= map[y] /\ map[y] <= Max(Sizes)
        BY <1>2, Sized, CacheAssumption DEF Good
      <4>. QED
        BY <1>3, <4>1, SumBounds
    <3>2. SumFunction(map) <= MAX_CACHE_SIZE
      <4>1. free_mem = MAX_CACHE_SIZE - SumFunction(map)
        BY <1>2 DEF Good
      <4>2. free_mem \in Int /\ ~(free_mem < 0)
        BY <2>3, <3>1, <4>1, CacheAssumption DEF Full
      <4>. QED
        BY <3>1, <4>1, <4>2, CacheAssumption
    <3>3. n <= b
      <4>1. n * Min(Sizes) <= MAX_CACHE_SIZE
        <5>. DEFINE z == n * Min(Sizes)
        <5>1. Min(Sizes) \in Nat
          BY Sized, CacheAssumption
        <5>2. z \in Int
          <6>. HIDE DEF n
          <6>. QED
            BY <2>1, <5>1
        <5>3. z <= SumFunction(map)
          BY <3>1
        <5>. HIDE DEF z, n
        <5>4. z <= MAX_CACHE_SIZE
          BY <3>1, <3>2, <5>2, <5>3, CacheAssumption
        <5>. QED
          BY <5>4 DEF z
      <4>. HIDE DEF n
      <4>. QED
        BY <2>1, <4>1, Fits
    <3>4. Cardinality(DOMAIN map') = n + 1
      <4>1. DOMAIN map' = DOMAIN map \cup {k} /\ k \notin DOMAIN map
        BY <1>1, <1>2, <1>6, <2>3
      <4>. QED
        BY <1>3, <4>1, FS_AddElement
    <3>. HIDE DEF n, b
    <3>5. Cardinality(DOMAIN map') <= b + 1
      BY <2>1, <3>3, <3>4
    <3>. QED
      BY <3>5 DEF EntriesBounded, b
  <2>. QED
    BY <2>2, <2>3
<1>9. Remembered(lru_queue, recent)'
  <2>. DEFINE r == recent
              R == Len(r)
              u == recent'
              t == lru_queue'
              d == c.lru_queue
  <2>1. /\ r \in Seq(Keys) /\ R \in Nat /\ DOMAIN r = 1 .. R /\ Len(q) <= R
        /\ \A n, m \in 1 .. R : r[n] = r[m] => n = m
        /\ \A n \in 1 .. Len(q) : q[n].key = r[n]
    BY LenProperties DEF IInv, Remembered
  <2>2. /\ Len(t) = M + 1 /\ t[1].key = k
        /\ \A n \in 2 .. M + 1 : t[n] = d[n - 1]
    <3>. HIDE DEF e, c
    <3>. QED
      BY <1>1, <1>6
  <2>3. Len(q) \in Nat /\ M \in Nat /\ M <= R
    BY <1>3, <1>4, <2>1, LenProperties
  <2>. HIDE DEF r, R, q
  <2>4. \A n \in 1 .. M : n \in 1 .. R /\ d[n].key = r[n]
    <3>1. \A n \in 1 .. M : n \in 1 .. Len(q) /\ n \in 1 .. R /\ d[n] = q[n]
      <4>1. M <= Len(q) /\ \A n \in 1 .. M : d[n] = q[n]
        BY <1>4
      <4>. HIDE DEF M, d, c
      <4>. QED
        BY <2>1, <2>3, <4>1
    <3>. HIDE DEF M, d, c
    <3>. QED
      BY <2>1, <3>1
  <2>5. \A n \in 1 .. M : d[n].key # k
    <3>1. Good(c) /\ k \notin DOMAIN c.map
      BY <1>4, <1>5
    <3>. HIDE DEF c
    <3>. QED
      BY <3>1 DEF Good
  <2>. HIDE DEF M, c, d, e, t, u
  <2>6. CASE k \in Range(r)
    <3>. DEFINE j == CHOOSE i \in DOMAIN r : r[i] = k
    <3>1. j \in 1 .. R /\ r[j] = k
      BY <2>1, <2>6 DEF Range
    <3>2. u = ToFront(r, j)
      BY <1>1, <2>6 DEF Used, u, r
    <3>. HIDE DEF j
    <3>3. j > M
      BY <2>1, <2>3, <2>4, <2>5, <3>1
    <3>4. /\ u \in Seq(Keys) /\ Len(u) = R
          /\ \A n \in 1 .. R : u[n] = r[From(j, n)]
      BY <2>1, <3>1, <3>2, ToFrontIs DEF R
    <3>5. /\ \A n \in 1 .. R : From(j, n) \in 1 .. R
          /\ \A n, m \in 1 .. R : From(j, n) = From(j, m) => n = m
      BY <2>1, <3>1, FromIsPermutation
    <3>6. \A n, m \in 1 .. R : u[n] = u[m] => n = m
      BY <2>1, <3>4, <3>5
    <3>7. M + 1 <= R
      BY <2>1, <2>3, <3>1, <3>3
    <3>8. ASSUME NEW n \in 1 .. M + 1 PROVE t[n].key = u[n]
      <4>1. CASE n = 1
        <5>1. From(j, 1) = j
          BY DEF From
        <5>2. 1 \in 1 .. R
          BY <2>1, <2>3, <3>7
        <5>. QED
          BY <2>2, <3>1, <3>4, <4>1, <5>1, <5>2
      <4>2. CASE n # 1
        <5>1. n \in 2 .. M + 1 /\ n - 1 \in 1 .. M /\ n \in 1 .. R /\ n <= j
          BY <2>1, <2>3, <3>1, <3>3, <3>7, <4>2
        <5>2. From(j, n) = n - 1
          BY <4>2, <5>1 DEF From
        <5>3. t[n].key = r[n - 1]
          BY <2>2, <2>4, <5>1
        <5>. QED
          BY <3>4, <5>1, <5>2, <5>3
      <4>. QED
        BY <4>1, <4>2
    <3>9. Remembered(t, u)
      BY <2>2, <3>4, <3>6, <3>7, <3>8 DEF Remembered
    <3>. QED
      BY <3>9 DEF t, u
  <2>7. CASE k \notin Range(r)
    <3>1. u = <<k>> \o r
      BY <1>1, <2>7 DEF Used, u, r
    <3>2. /\ u \in Seq(Keys) /\ Len(u) = R + 1 /\ u[1] = k
          /\ \A n \in 2 .. R + 1 : u[n] = r[n - 1]
      BY <1>1, <2>1, <3>1, InFront DEF R
    <3>3. \A n \in 1 .. R : r[n] # k
      BY <2>1, <2>7 DEF Range
    <3>4. ASSUME NEW n \in 1 .. R + 1, NEW m \in 1 .. R + 1, u[n] = u[m]
          PROVE  n = m
      <4>1. \A x \in 1 .. R + 1 : x = 1 \/ (x - 1 \in 1 .. R /\ x \in 2 .. R + 1)
        BY <2>1
      <4>2. \A x \in 1 .. R + 1 : x # 1 => u[x] = r[x - 1] /\ r[x - 1] # k
        BY <3>2, <3>3, <4>1
      <4>3. CASE n = 1 \/ m = 1
        BY <3>2, <3>4, <4>2, <4>3
      <4>4. CASE n # 1 /\ m # 1
        <5>1. n - 1 \in 1 .. R /\ m - 1 \in 1 .. R /\ r[n - 1] = r[m - 1]
          BY <3>4, <4>1, <4>2, <4>4
        <5>2. n - 1 = m - 1
          BY <2>1, <5>1
        <5>. QED
          BY <2>1, <5>2
      <4>. QED
        BY <4>3, <4>4
    <3>5. M + 1 <= R + 1
      BY <2>1, <2>3
    <3>6. ASSUME NEW n \in 1 .. M + 1 PROVE t[n].key = u[n]
      <4>1. CASE n = 1
        BY <2>2, <3>2, <4>1
      <4>2. CASE n # 1
        <5>1. n \in 2 .. M + 1 /\ n - 1 \in 1 .. M /\ n \in 2 .. R + 1
          BY <2>1, <2>3, <4>2
        <5>. QED
          BY <2>2, <2>4, <3>2, <5>1
      <4>. QED
        BY <4>1, <4>2
    <3>7. Remembered(t, u)
      BY <2>2, <3>2, <3>4, <3>5, <3>6 DEF Remembered
    <3>. QED
      BY <3>7 DEF t, u
  <2>. QED
    BY <2>6, <2>7
<1>. QED
  BY <1>7, <1>8, <1>9 DEF IInv
----------------------------------------------------------------------------
(* The theorems                                                            *)

LEMMA NextInv == IInv /\ [Next]_vars => IInv'
<1>. SUFFICES ASSUME IInv, [Next]_vars PROVE IInv'
  OBVIOUS
<1>1. CASE Next
  BY <1>1, HitInv, GatheredInv DEF Next
<1>2. CASE UNCHANGED vars
  BY <1>2 DEF vars, IInv, Good, Cache, Remembered, EntriesBounded
<1>. QED
  BY <1>1, <1>2

\* The invariant holds in every state.
THEOREM Invariant == Spec => []IInv
BY InitInv, NextInv, PTL DEF Spec

LEMMA ConsistentFromInv == IInv => Consistent
<1>. SUFFICES ASSUME IInv PROVE Consistent
  OBVIOUS
<1>1. Good(Cache) /\ Cache.map = map /\ Cache.free_mem = free_mem
      /\ Cache.lru_queue = lru_queue /\ Cache.keyfinder = keyfinder
  BY DEF IInv, Cache
<1>2. DOMAIN keyfinder = DOMAIN map /\ free_mem = MAX_CACHE_SIZE - Occupied
  BY <1>1 DEF Good, Occupied
<1>3. DOMAIN lru_queue = 1 .. Len(lru_queue)
  BY <1>1, LenProperties DEF Good
<1>4. /\ \A i \in DOMAIN lru_queue : /\ lru_queue[i].key \in DOMAIN map
                                     /\ keyfinder[lru_queue[i].key] = lru_queue[i].node
      /\ \A k \in DOMAIN map : \E i \in DOMAIN lru_queue : lru_queue[i].key = k
      /\ \A i, j \in DOMAIN lru_queue : lru_queue[i].key = lru_queue[j].key => i = j
  BY <1>1, <1>3 DEF Good
<1>5. {n.key : n \in Range(lru_queue)} = DOMAIN map
  BY <1>4 DEF Range
<1>6. \A n \in Range(lru_queue) : keyfinder[n.key] = n.node
  BY <1>4 DEF Range
<1>7. IsInjective([n \in DOMAIN lru_queue |-> lru_queue[n].key])
  BY <1>4 DEF IsInjective
<1>. QED
  BY <1>2, <1>5, <1>6, <1>7 DEF Consistent

\* Consistent: after any series of lookups, insertions and evictions the list,
\* the map and the finder are about the same keys, and the budget is exact.
THEOREM AlwaysConsistent == Spec => []Consistent
BY Invariant, ConsistentFromInv, PTL

LEMMA RecentFromInv == IInv => RecentKept
<1>. SUFFICES ASSUME IInv PROVE RecentKept
  OBVIOUS
<1>1. DOMAIN lru_queue = 1 .. Len(lru_queue)
  BY LenProperties DEF IInv, Good, Cache
<1>. QED
  BY <1>1 DEF IInv, Remembered, RecentKept

\* RecentKept: what is cached are the keys that were used last, in the order of
\* their use.
THEOREM LastUsedKept == Spec => []RecentKept
BY Invariant, RecentFromInv, PTL

\* EntriesBounded: however large the results are, there are no more entries than
\* the budget holds of the smallest, and one.
THEOREM BoundedEntries == Spec => []EntriesBounded
<1>1. IInv => EntriesBounded
  BY DEF IInv
<1>. QED
  BY <1>1, Invariant, PTL

LEMMA TypeFromInv == IInv => TypeOK
<1>. SUFFICES ASSUME IInv PROVE TypeOK
  OBVIOUS
<1>1. Good(Cache) /\ Cache.map = map /\ Cache.free_mem = free_mem
      /\ Cache.lru_queue = lru_queue /\ Cache.keyfinder = keyfinder
  BY DEF IInv, Cache
<1>2. /\ DOMAIN map \subseteq Keys /\ Range(map) \subseteq Sizes
      /\ DOMAIN keyfinder \subseteq Keys /\ Range(keyfinder) \subseteq Nodes
  BY <1>1 DEF Good, Range
<1>3. \A n \in DOMAIN lru_queue : lru_queue[n] \in [node : Nodes, key : Keys]
  <2>1. lru_queue \in Seq(Entry)
    BY <1>1 DEF Good
  <2>2. lru_queue \in [DOMAIN lru_queue -> Entry]
    BY <2>1, LenProperties
  <2>. QED
    BY <2>2 DEF Entry
<1>4. free_mem \in MAX_CACHE_SIZE - Cardinality(Keys) * Max(Sizes) .. MAX_CACHE_SIZE
  <2>. DEFINE D == DOMAIN map
              n == Cardinality(D)
              N == Cardinality(Keys)
              m == Max(Sizes)
              s == SumFunction(map)
  <2>1. IsFiniteSet(D) /\ map \in [D -> Nat]
    BY <1>1, GoodFinite
  <2>2. /\ Min(Sizes) \in Nat /\ m \in Nat
        /\ \A y \in D : Min(Sizes) <= map[y] /\ map[y] <= m
    BY <1>1, Sized, CacheAssumption DEF Good
  <2>3. s \in Nat /\ s <= n * m
    BY <2>1, <2>2, SumBounds
  <2>4. n \in Nat /\ N \in Nat /\ n <= N
    BY <1>2, <2>1, CacheAssumption, FS_Subset, FS_CardinalityType
  <2>5. free_mem = MAX_CACHE_SIZE - s
    BY <1>1 DEF Good
  <2>. HIDE DEF D, n, N, m, s
  <2>6. n * m <= N * m /\ n * m \in Nat /\ N * m \in Nat
    <3>1. PICK j \in Nat : N = n + j
      <4>1. N = n + (N - n) /\ N - n \in Nat
        BY <2>4
      <4>. QED
        BY <4>1
    <3>2. N * m = n * m + j * m /\ j * m \in Nat /\ n * m \in Nat
      BY <2>2, <2>4, <3>1
    <3>. DEFINE x == n * m
                y == j * m
                z == N * m
    <3>3. z = x + y /\ x \in Nat /\ y \in Nat
      BY <3>2
    <3>. HIDE DEF x, y, z
    <3>4. x <= z /\ x \in Nat /\ z \in Nat
      BY <3>3
    <3>. QED
      BY <3>4 DEF x, z
  <2>. DEFINE x == n * m
              z == N * m
  <2>7. x \in Nat /\ z \in Nat /\ x <= z /\ s <= x
    BY <2>3, <2>6
  <2>. HIDE DEF x, z
  <2>8. free_mem \in MAX_CACHE_SIZE - z .. MAX_CACHE_SIZE
    BY <2>3, <2>5, <2>7, CacheAssumption
  <2>. QED
    BY <2>8 DEF z, N, m
<1>. QED
  BY <1>2, <1>3, <1>4 DEF TypeOK

\* TypeOK: the budget is overdrawn by no more than the entries can hold, and a
\* node is never needed twice.
THEOREM TypesKept == Spec => []TypeOK
BY Invariant, TypeFromInv, PTL
=============================================================================
