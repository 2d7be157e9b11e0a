--------------------------- MODULE Counting_proofs ---------------------------
(***************************************************************************)
(* What several proofs count with.  First sets and sums: the sum of the    *)
(* community modules is a fold, a function that is defined by itself; that *)
(* it exists, and that the order in which the fold takes the elements does *)
(* not matter, is shown here, and so is what a fold over a sequence        *)
(* computes, one element after the other.  Then the cuts of module         *)
(* Packages, for every number of cells and of packages: the packages       *)
(* follow one another in the shuffled field and fill it, and shuffling     *)
(* loses no cell.                                                          *)
(***************************************************************************)
EXTENDS Packages, Functions, FiniteSetsExt, FiniteSetTheorems,
        WellFoundedInduction, TLAPS

\* A set of natural numbers has a least element.
LEMMA LeastNat ==
  ASSUME NEW S, S \in SUBSET Nat, S # {}
  PROVE  \E x \in S : \A y \in S : x <= y
<1>. DEFINE R == {r \in Nat \X Nat : r[1] < r[2]}
<1>1. R = OpToRel(<, Nat)
  BY DEF OpToRel
<1>2. IsWellFoundedOn(R, Nat)
  BY <1>1, NatLessThanWellFounded, Zenon
<1>. HIDE DEF R
<1>3. PICK x \in S : \A y \in S : ~(<<y, x>> \in R)
  BY <1>2, WFMin
<1>4. \A y, z \in Nat : <<y, z>> \in R <=> y < z
  BY DEF R
<1>5. \A y \in S : ~(y < x)
  BY <1>3, <1>4
<1>. QED
  BY <1>5

\* A set of finite sets has a member from which no element can be taken.
LEMMA LeastSet ==
  ASSUME NEW D, IsFiniteSet(D), NEW B, B \in SUBSET (SUBSET D), B # {}
  PROVE  \E s \in B : \A x \in s : s \ {x} \notin B
<1>. DEFINE S == {Cardinality(s) : s \in B}
<1>1. \A s \in B : IsFiniteSet(s) /\ Cardinality(s) \in Nat
  BY FS_Subset, FS_CardinalityType
<1>2. PICK n \in S : \A m \in S : n <= m
  <2>1. S \in SUBSET Nat /\ S # {}
    BY <1>1
  <2>. HIDE DEF S
  <2>. QED
    BY <2>1, LeastNat
<1>3. PICK s \in B : n = Cardinality(s)
  BY <1>2
<1>4. ASSUME NEW x \in s, s \ {x} \in B PROVE FALSE
  <2>1. Cardinality(s \ {x}) = Cardinality(s) - 1
    BY <1>1, FS_RemoveElement
  <2>2. Cardinality(s \ {x}) \in S
    BY <1>4
  <2>. HIDE DEF S
  <2>. QED
    BY <1>1, <1>2, <1>3, <2>1, <2>2
<1>. QED
  BY <1>4

\* The sum over a subset of the domain of f, from the sums over smaller ones.
SumStep(f, g) ==
  [s \in SUBSET DOMAIN f |->
     IF s = {} THEN 0 ELSE LET x == CHOOSE y \in s : TRUE IN f[x] + g[s \ {x}]]

Sum(f) == CHOOSE g : g = SumStep(f, g)

LEMMA SumExists ==
  ASSUME NEW f, IsFiniteSet(DOMAIN f)
  PROVE  \E g : g = SumStep(f, g)
<1>. DEFINE D == DOMAIN f
            Upto(n) == \E g : \A s \in SUBSET D : Cardinality(s) <= n => g[s] = SumStep(f, g)[s]
            S == {n \in Nat : ~Upto(n)}
<1>1. \A s \in SUBSET D : IsFiniteSet(s) /\ Cardinality(s) \in Nat /\ Cardinality(s) <= Cardinality(D)
  BY FS_Subset, FS_CardinalityType
<1>2. S = {}
  <2>. SUFFICES ASSUME S # {} PROVE FALSE
    OBVIOUS
  <2>. HIDE DEF Upto
  <2>1. PICK n \in S : \A m \in S : n <= m
    BY LeastNat
  <2>2. n \in Nat /\ ~Upto(n)
    OBVIOUS
  <2>3. n # 0
    <3>1. Upto(0)
      <4>. DEFINE g == [s \in SUBSET D |-> 0]
      <4>1. ASSUME NEW s \in SUBSET D, Cardinality(s) <= 0
            PROVE  g[s] = SumStep(f, g)[s]
        <5>1. s = {}
          BY <1>1, <4>1, FS_EmptySet
        <5>. QED
          BY <5>1 DEF SumStep
      <4>. QED
        BY <4>1 DEF Upto
    <3>. QED
      BY <2>2, <3>1
  <2>4. Upto(n - 1)
    <3>1. n - 1 \in Nat /\ ~(n <= n - 1)
      BY <2>2, <2>3
    <3>. QED
      BY <2>1, <3>1
  <2>5. PICK g : \A s \in SUBSET D : Cardinality(s) <= n - 1 => g[s] = SumStep(f, g)[s]
    BY <2>4 DEF Upto
  <2>. DEFINE h == SumStep(f, g)
  <2>6. ASSUME NEW s \in SUBSET D, Cardinality(s) <= n
        PROVE  h[s] = SumStep(f, h)[s]
    <3>1. CASE s = {}
      BY <3>1 DEF SumStep
    <3>2. CASE s # {}
      <4>. DEFINE x == CHOOSE y \in s : TRUE
                  r == s \ {x}
      <4>1. x \in s /\ r \in SUBSET D
        BY <3>2
      <4>2. Cardinality(r) <= n - 1
        <5>1. Cardinality(r) = Cardinality(s) - 1
          BY <1>1, <4>1, FS_RemoveElement
        <5>. QED
          BY <5>1, <1>1, <2>2, <2>6
      <4>3. g[r] = h[r]
        BY <2>5, <4>1, <4>2
      <4>. HIDE DEF h
      <4>4. SumStep(f, h)[s] = f[x] + h[r]
        BY <3>2 DEF SumStep
      <4>5. SumStep(f, g)[s] = f[x] + g[r]
        BY <3>2 DEF SumStep
      <4>. QED
        BY <4>3, <4>4, <4>5 DEF h
    <3>. QED
      BY <3>1, <3>2
  <2>7. Upto(n)
    BY <2>6 DEF Upto
  <2>. QED
    BY <2>2, <2>7
<1>. HIDE DEF Upto
<1>3. Upto(Cardinality(D))
  BY <1>1, <1>2
<1>4. PICK g : \A s \in SUBSET D : g[s] = SumStep(f, g)[s]
  BY <1>1, <1>3 DEF Upto
<1>. DEFINE h == SumStep(f, g)
<1>5. h = SumStep(f, h)
  <2>1. ASSUME NEW s \in SUBSET D
        PROVE  h[s] = SumStep(f, h)[s]
    <3>1. CASE s = {}
      BY <3>1 DEF SumStep
    <3>2. CASE s # {}
      <4>. DEFINE x == CHOOSE y \in s : TRUE
                  r == s \ {x}
      <4>1. g[r] = h[r]
        BY <1>4, <3>2
      <4>. HIDE DEF h
      <4>2. SumStep(f, h)[s] = f[x] + h[r]
        BY <3>2 DEF SumStep
      <4>3. SumStep(f, g)[s] = f[x] + g[r]
        BY <3>2 DEF SumStep
      <4>. QED
        BY <4>1, <4>2, <4>3 DEF h
    <3>. QED
      BY <3>1, <3>2
  <2>2. h = [s \in SUBSET D |-> h[s]] /\ SumStep(f, h) = [s \in SUBSET D |-> SumStep(f, h)[s]]
    BY DEF SumStep
  <2>. HIDE DEF h
  <2>. QED
    BY <2>1, <2>2, Zenon
<1>. QED
  BY <1>5

LEMMA SumDef ==
  ASSUME NEW f, IsFiniteSet(DOMAIN f)
  PROVE  /\ SumFunction(f) = Sum(f)[DOMAIN f]
         /\ Sum(f)[{}] = 0
         /\ \A s \in SUBSET DOMAIN f : s # {} =>
              \E x \in s : x = (CHOOSE y \in s : TRUE) /\ Sum(f)[s] = f[x] + Sum(f)[s \ {x}]
<1>1. SumFunction(f) = Sum(f)[DOMAIN f]
  BY DEF Sum, SumFunction, SumFunctionOnSet, FoldFunctionOnSet, MapThenFoldSet, SumStep
<1>2. Sum(f) = SumStep(f, Sum(f))
  BY SumExists DEF Sum
<1>3. Sum(f)[{}] = 0
  <2>. DEFINE g == Sum(f)
  <2>. HIDE DEF g
  <2>1. SumStep(f, g)[{}] = 0
    BY DEF SumStep
  <2>. QED
    BY <1>2, <2>1 DEF g
<1>4. ASSUME NEW s \in SUBSET DOMAIN f, s # {}
      PROVE  \E x \in s : x = (CHOOSE y \in s : TRUE) /\ Sum(f)[s] = f[x] + Sum(f)[s \ {x}]
  <2>. DEFINE x == CHOOSE y \in s : TRUE
              g == Sum(f)
  <2>. HIDE DEF g
  <2>1. x \in s
    BY <1>4
  <2>2. SumStep(f, g)[s] = f[x] + g[s \ {x}]
    BY <1>4 DEF SumStep
  <2>. QED
    BY <1>2, <2>1, <2>2 DEF g
<1>. QED
  BY <1>1, <1>3, <1>4

\* A sum of zeros.
LEMMA SumOfZeros ==
  ASSUME NEW f, IsFiniteSet(DOMAIN f), \A x \in DOMAIN f : f[x] = 0
  PROVE  SumFunction(f) = 0
<1>. DEFINE D == DOMAIN f
            B == {s \in SUBSET D : Sum(f)[s] # 0}
<1>1. B = {}
  <2>. SUFFICES ASSUME B # {} PROVE FALSE
    OBVIOUS
  <2>1. PICK s \in B : \A x \in s : s \ {x} \notin B
    <3>1. B \in SUBSET (SUBSET D)
      OBVIOUS
    <3>. HIDE DEF B
    <3>. QED
      BY <3>1, LeastSet
  <2>2. s # {}
    BY SumDef
  <2>3. PICK x \in s : Sum(f)[s] = f[x] + Sum(f)[s \ {x}]
    BY <2>2, SumDef
  <2>4. Sum(f)[s \ {x}] = 0 /\ f[x] = 0
    BY <2>1
  <2>. QED
    BY <2>3, <2>4
<1>. QED
  BY <1>1, SumDef

\* One summand more.
LEMMA SumOfOneMore ==
  ASSUME NEW D, IsFiniteSet(D), NEW f \in [D -> Nat], NEW h \in [D -> Nat], NEW a \in D,
         h[a] = f[a] + 1, \A x \in D \ {a} : h[x] = f[x]
  PROVE  SumFunction(h) = SumFunction(f) + 1
<1>. DEFINE more(s) == IF a \in s THEN 1 ELSE 0
            B == {s \in SUBSET D : ~(Sum(f)[s] \in Nat /\ Sum(h)[s] = Sum(f)[s] + more(s))}
<1>1. B = {}
  <2>. SUFFICES ASSUME B # {} PROVE FALSE
    OBVIOUS
  <2>1. PICK s \in B : \A x \in s : s \ {x} \notin B
    <3>1. B \in SUBSET (SUBSET D)
      OBVIOUS
    <3>. HIDE DEF B
    <3>. QED
      BY <3>1, LeastSet
  <2>2. s # {}
    <3>1. Sum(f)[{}] = 0 /\ Sum(h)[{}] = 0
      BY SumDef
    <3>2. more({}) = 0
      OBVIOUS
    <3>3. ~(Sum(f)[s] \in Nat /\ Sum(h)[s] = Sum(f)[s] + more(s))
      OBVIOUS
    <3>. HIDE DEF more, B
    <3>. SUFFICES ASSUME s = {} PROVE FALSE
      OBVIOUS
    <3>4. Sum(f)[s] = 0 /\ Sum(h)[s] = 0 /\ more(s) = 0
      BY <3>1, <3>2
    <3>. QED
      BY <3>3, <3>4
  <2>3. PICK x \in s : Sum(f)[s] = f[x] + Sum(f)[s \ {x}] /\ Sum(h)[s] = h[x] + Sum(h)[s \ {x}]
    <3>1. s \in SUBSET DOMAIN f /\ s \in SUBSET DOMAIN h
      OBVIOUS
    <3>2. PICK x \in s : x = (CHOOSE y \in s : TRUE) /\ Sum(f)[s] = f[x] + Sum(f)[s \ {x}]
      BY <2>2, <3>1, SumDef
    <3>3. PICK z \in s : z = (CHOOSE y \in s : TRUE) /\ Sum(h)[s] = h[z] + Sum(h)[s \ {z}]
      BY <2>2, <3>1, SumDef
    <3>. QED
      BY <3>2, <3>3
  <2>4. Sum(f)[s \ {x}] \in Nat /\ Sum(h)[s \ {x}] = Sum(f)[s \ {x}] + more(s \ {x})
    BY <2>1
  <2>5. f[x] \in Nat /\ h[x] = f[x] + (IF x = a THEN 1 ELSE 0)
    OBVIOUS
  <2>6. more(s) = more(s \ {x}) + (IF x = a THEN 1 ELSE 0)
    BY <2>3
  <2>7. Sum(f)[s] \in Nat /\ Sum(h)[s] = Sum(f)[s] + more(s)
    BY <2>3, <2>4, <2>5, <2>6
  <2>. QED
    BY <2>7
<1>. QED
  BY <1>1, SumDef

\* A finite set of natural numbers has a greatest element.
LEMMA GreatestNat ==
  ASSUME NEW S, S \in SUBSET Nat, IsFiniteSet(S), S # {}
  PROVE  \E x \in S : \A y \in S : y <= x
<1>. DEFINE Bounded(s) == \E x \in s : \A y \in s : y <= x
            B == {s \in SUBSET S : s # {} /\ ~Bounded(s)}
<1>1. B = {}
  <2>. SUFFICES ASSUME B # {} PROVE FALSE
    OBVIOUS
  <2>1. PICK s \in B : \A x \in s : s \ {x} \notin B
    <3>1. B \in SUBSET (SUBSET S)
      OBVIOUS
    <3>. HIDE DEF B
    <3>. QED
      BY <3>1, LeastSet
  <2>2. PICK x \in s : x \in Nat
    OBVIOUS
  <2>3. CASE s \ {x} = {}
    <3>1. \A y \in s : y <= x
      BY <2>2, <2>3
    <3>. QED
      BY <2>2, <3>1
  <2>4. CASE s \ {x} # {}
    <3>1. PICK y \in s \ {x} : \A z \in s \ {x} : z <= y
      BY <2>1, <2>4
    <3>2. y \in Nat /\ \A z \in s : z \in Nat
      OBVIOUS
    <3>3. CASE x <= y
      <4>1. \A z \in s : z <= y
        BY <3>1, <3>3
      <4>. QED
        BY <3>1, <4>1
    <3>4. CASE ~(x <= y)
      <4>1. \A z \in s : z <= x
        BY <2>2, <3>1, <3>2, <3>4
      <4>. QED
        BY <2>2, <4>1
    <3>. QED
      BY <3>3, <3>4
  <2>. QED
    BY <2>3, <2>4
<1>2. S \notin B
  BY <1>1
<1>. QED
  BY <1>2

\* Sums of natural numbers are natural numbers.
LEMMA SumIsNat ==
  ASSUME NEW D, IsFiniteSet(D), NEW f \in [D -> Nat]
  PROVE  \A s \in SUBSET D : Sum(f)[s] \in Nat
<1>. DEFINE B == {s \in SUBSET D : Sum(f)[s] \notin Nat}
<1>1. B = {}
  <2>. SUFFICES ASSUME B # {} PROVE FALSE
    OBVIOUS
  <2>1. PICK s \in B : \A x \in s : s \ {x} \notin B
    <3>1. B \in SUBSET (SUBSET D)
      OBVIOUS
    <3>. HIDE DEF B
    <3>. QED
      BY <3>1, LeastSet
  <2>2. s # {}
    <3>1. Sum(f)[{}] \in Nat
      BY SumDef
    <3>. QED
      BY <3>1
  <2>3. PICK x \in s : Sum(f)[s] = f[x] + Sum(f)[s \ {x}]
    <3>1. s \in SUBSET DOMAIN f
      OBVIOUS
    <3>. HIDE DEF B
    <3>. QED
      BY <2>2, <3>1, SumDef
  <2>4. Sum(f)[s \ {x}] \in Nat /\ f[x] \in Nat
    BY <2>1
  <2>. QED
    BY <2>3, <2>4
<1>. QED
  BY <1>1

\* Any element may be taken out, not only the one that the fold chooses.
LEMMA SumTakeOut ==
  ASSUME NEW D, IsFiniteSet(D), NEW f \in [D -> Nat]
  PROVE  \A s \in SUBSET D : \A a \in s : Sum(f)[s] = f[a] + Sum(f)[s \ {a}]
<1>. DEFINE B == {s \in SUBSET D : \E a \in s : Sum(f)[s] # f[a] + Sum(f)[s \ {a}]}
<1>1. B = {}
  <2>. SUFFICES ASSUME B # {} PROVE FALSE
    OBVIOUS
  <2>1. PICK s \in B : \A x \in s : s \ {x} \notin B
    <3>1. B \in SUBSET (SUBSET D)
      OBVIOUS
    <3>. HIDE DEF B
    <3>. QED
      BY <3>1, LeastSet
  <2>2. PICK a \in s : Sum(f)[s] # f[a] + Sum(f)[s \ {a}]
    OBVIOUS
  <2>3. PICK x \in s : Sum(f)[s] = f[x] + Sum(f)[s \ {x}]
    <3>1. s \in SUBSET DOMAIN f /\ s # {}
      OBVIOUS
    <3>. HIDE DEF B
    <3>. QED
      BY <3>1, SumDef
  <2>4. x # a
    BY <2>2, <2>3
  <2>. DEFINE r == (s \ {x}) \ {a}
  <2>5. r = (s \ {a}) \ {x}
    OBVIOUS
  <2>6. Sum(f)[s \ {x}] = f[a] + Sum(f)[r]
    BY <2>1, <2>4
  <2>7. Sum(f)[s \ {a}] = f[x] + Sum(f)[r]
    <3>1. x \in s \ {a} /\ s \ {a} \in SUBSET D /\ s \ {a} \notin B
      BY <2>1, <2>4
    <3>2. Sum(f)[s \ {a}] = f[x] + Sum(f)[(s \ {a}) \ {x}]
      BY <3>1
    <3>. QED
      BY <2>5, <3>2
  <2>8. Sum(f)[r] \in Nat /\ f[x] \in Nat /\ f[a] \in Nat
    BY SumIsNat
  <2>. HIDE DEF r
  <2>. QED
    BY <2>2, <2>3, <2>6, <2>7, <2>8
<1>. QED
  BY <1>1

\* A sum over a set depends on the values on this set only.
LEMMA SumsAgree ==
  ASSUME NEW f, NEW g, IsFiniteSet(DOMAIN f), IsFiniteSet(DOMAIN g),
         NEW E, E \subseteq DOMAIN f, E \subseteq DOMAIN g, \A x \in E : f[x] = g[x]
  PROVE  Sum(f)[E] = Sum(g)[E]
<1>. DEFINE B == {s \in SUBSET E : Sum(f)[s] # Sum(g)[s]}
<1>1. B = {}
  <2>. SUFFICES ASSUME B # {} PROVE FALSE
    OBVIOUS
  <2>1. PICK s \in B : \A x \in s : s \ {x} \notin B
    <3>1. B \in SUBSET (SUBSET DOMAIN f)
      OBVIOUS
    <3>. HIDE DEF B
    <3>. QED
      BY <3>1, LeastSet
  <2>2. s # {}
    BY SumDef
  <2>3. s \in SUBSET DOMAIN f /\ s \in SUBSET DOMAIN g
    OBVIOUS
  <2>4. PICK x \in s : x = (CHOOSE y \in s : TRUE) /\ Sum(f)[s] = f[x] + Sum(f)[s \ {x}]
    BY <2>2, <2>3, SumDef
  <2>5. PICK z \in s : z = (CHOOSE y \in s : TRUE) /\ Sum(g)[s] = g[z] + Sum(g)[s \ {z}]
    BY <2>2, <2>3, SumDef
  <2>6. f[x] = g[x] /\ Sum(f)[s \ {x}] = Sum(g)[s \ {x}]
    BY <2>1
  <2>. QED
    BY <2>4, <2>5, <2>6
<1>. QED
  BY <1>1

\* One argument less.
LEMMA SumWithout ==
  ASSUME NEW D, IsFiniteSet(D), NEW a \in D, NEW f \in [D -> Nat],
         NEW g \in [D \ {a} -> Nat], \A x \in D \ {a} : g[x] = f[x]
  PROVE  SumFunction(f) = f[a] + SumFunction(g)
<1>1. IsFiniteSet(D \ {a})
  BY FS_RemoveElement
<1>2. SumFunction(f) = Sum(f)[D] /\ SumFunction(g) = Sum(g)[D \ {a}]
  BY <1>1, SumDef
<1>3. Sum(f)[D] = f[a] + Sum(f)[D \ {a}]
  BY SumTakeOut
<1>4. Sum(f)[D \ {a}] = Sum(g)[D \ {a}]
  BY <1>1, SumsAgree
<1>. QED
  BY <1>2, <1>3, <1>4

\* A sum lies between so many times the smallest and the largest summand.
LEMMA SumBounds ==
  ASSUME NEW D, IsFiniteSet(D), NEW f \in [D -> Nat], NEW lo \in Nat, NEW hi \in Nat,
         \A x \in D : lo <= f[x] /\ f[x] <= hi
  PROVE  /\ SumFunction(f) \in Nat
         /\ Cardinality(D) * lo <= SumFunction(f)
         /\ SumFunction(f) <= Cardinality(D) * hi
<1>. DEFINE Within(s) == /\ Cardinality(s) * lo <= Sum(f)[s]
                         /\ Sum(f)[s] <= Cardinality(s) * hi
            B == {s \in SUBSET D : ~Within(s)}
<1>1. B = {}
  <2>. SUFFICES ASSUME B # {} PROVE FALSE
    OBVIOUS
  <2>1. PICK s \in B : \A x \in s : s \ {x} \notin B
    <3>1. B \in SUBSET (SUBSET D)
      OBVIOUS
    <3>. HIDE DEF B
    <3>. QED
      BY <3>1, LeastSet
  <2>2. s # {}
    <3>1. Sum(f)[{}] = 0 /\ Cardinality({}) = 0 /\ 0 * lo = 0 /\ 0 * hi = 0
      BY SumDef, FS_EmptySet
    <3>. QED
      BY <3>1
  <2>3. PICK x \in s : Sum(f)[s] = f[x] + Sum(f)[s \ {x}]
    BY <2>2, SumDef
  <2>4. IsFiniteSet(s) /\ Cardinality(s) \in Nat /\ Cardinality(s \ {x}) = Cardinality(s) - 1
    BY FS_Subset, FS_CardinalityType, FS_RemoveElement
  <2>5. Within(s \ {x}) /\ Sum(f)[s \ {x}] \in Nat /\ f[x] \in Nat /\ lo <= f[x] /\ f[x] <= hi
    BY <2>1, SumIsNat
  <2>. DEFINE n == Cardinality(s)
              g == Sum(f)[s \ {x}]
  <2>6. /\ (n - 1) * lo <= g /\ g <= (n - 1) * hi
        /\ ~(n * lo <= f[x] + g /\ f[x] + g <= n * hi)
    BY <2>3, <2>4, <2>5
  <2>7. n \in Nat /\ g \in Nat
    BY <2>4, <2>5
  <2>. HIDE DEF n, g, B, Within
  <2>8. n * lo = (n - 1) * lo + lo /\ n * hi = (n - 1) * hi + hi
        /\ (n - 1) * lo \in Int /\ (n - 1) * hi \in Int
    BY <2>7
  <2>. DEFINE l == (n - 1) * lo
              h == (n - 1) * hi
  <2>9. /\ l <= g /\ g <= h /\ ~(l + lo <= f[x] + g /\ f[x] + g <= h + hi)
        /\ l \in Int /\ h \in Int
    BY <2>6, <2>8
  <2>. HIDE DEF l, h
  <2>. QED
    BY <2>5, <2>7, <2>9
<1>2. Within(D) /\ Sum(f)[D] \in Nat
  BY <1>1, SumIsNat
<1>. QED
  BY <1>2, SumDef
----------------------------------------------------------------------------
(* Folds over sequences. *)

\* Counting up to a number.
LEMMA CountUp ==
  ASSUME NEW L \in Nat, NEW S, 0 \in S, \A m \in 0 .. L - 1 : m \in S => m + 1 \in S
  PROVE  L \in S
<1>. DEFINE T == {m \in 0 .. L : m \notin S}
<1>1. T = {}
  <2>. SUFFICES ASSUME T # {} PROVE FALSE
    OBVIOUS
  <2>1. PICK m \in T : \A l \in T : m <= l
    <3>1. T \in SUBSET Nat
      OBVIOUS
    <3>. HIDE DEF T
    <3>. QED
      BY <3>1, LeastNat
  <2>2. m \in 1 .. L /\ m - 1 \in 0 .. L - 1 /\ m \notin S
    OBVIOUS
  <2>3. m - 1 \in S
    <3>1. m - 1 \in 0 .. L /\ ~(m <= m - 1)
      BY <2>2
    <3>. QED
      BY <2>1, <3>1
  <2>4. (m - 1) + 1 = m
    BY <2>2
  <2>. QED
    BY <2>2, <2>3, <2>4
<1>2. L \in 0 .. L
  OBVIOUS
<1>. QED
  BY <1>1, <1>2

\* The greatest element of a finite set of natural numbers.
LEMMA MaxOf ==
  ASSUME NEW S, S \in SUBSET Nat, IsFiniteSet(S), S # {}
  PROVE  Max(S) \in S /\ \A y \in S : y <= Max(S)
<1>1. PICK x \in S : \A y \in S : y <= x
  BY GreatestNat
<1>2. \E z \in S : \A y \in S : z >= y
  <2>1. \A y \in S : x >= y
    BY <1>1
  <2>. QED
    BY <2>1
<1>3. Max(S) \in S /\ \A y \in S : Max(S) >= y
  BY <1>2 DEF Max
<1>. QED
  BY <1>3

\* A fold over a sequence from left to right can be computed: what it makes of
\* the elements in a set comes from what it makes of those before the last one.
FoldOf(F, base, s, D, g) ==
  \A t \in SUBSET D :
    g[t] = IF t = {} THEN base ELSE F[<<g[t \ {Max(t)}], s[Max(t)]>>]

LEMMA FoldExists ==
  ASSUME NEW A, NEW E, NEW F \in [A \X E -> A], NEW base \in A,
         NEW D, D \in SUBSET Nat, IsFiniteSet(D), NEW s \in [D -> E]
  PROVE  \E g \in [SUBSET D -> A] : FoldOf(F, base, s, D, g)
<1>. DEFINE Folds(d, g) == FoldOf(F, base, s, d, g)
            B == {d \in SUBSET D : ~\E g \in [SUBSET d -> A] : Folds(d, g)}
<1>1. B = {}
  <2>. SUFFICES ASSUME B # {} PROVE FALSE
    OBVIOUS
  <2>1. PICK d \in B : \A x \in d : d \ {x} \notin B
    <3>1. B \in SUBSET (SUBSET D)
      OBVIOUS
    <3>. HIDE DEF B
    <3>. QED
      BY <3>1, LeastSet
  <2>2. d \in SUBSET D /\ ~\E g \in [SUBSET d -> A] : Folds(d, g)
    BY <2>1
  <2>3. CASE d = {}
    <3>. DEFINE g == [t \in SUBSET d |-> base]
    <3>1. g \in [SUBSET d -> A]
      OBVIOUS
    <3>2. \A t \in SUBSET d : t = {} /\ g[t] = base
      BY <2>3
    <3>. HIDE DEF g
    <3>3. Folds(d, g)
      BY <3>2 DEF FoldOf
    <3>. HIDE DEF Folds
    <3>. QED
      BY <2>2, <3>1, <3>3
  <2>4. CASE d # {}
    <3>. DEFINE m == Max(d)
                c == d \ {m}
    <3>1. \A t \in SUBSET d : t # {} => Max(t) \in t /\ \A y \in t : y <= Max(t)
      <4>1. TAKE t \in SUBSET d
      <4>2. t \in SUBSET Nat /\ IsFiniteSet(t)
        BY <2>2, FS_Subset
      <4>. QED
        BY <4>2, MaxOf
    <3>2. m \in d /\ m \in D /\ \A y \in d : y <= m
      BY <2>2, <2>4, <3>1
    <3>. HIDE DEF m
    <3>3. c \in SUBSET D /\ c \notin B
      BY <2>1, <2>2, <3>2
    <3>4. PICK g \in [SUBSET c -> A] : Folds(c, g)
      <4>. HIDE DEF Folds, c
      <4>. QED
        BY <3>3
    <3>. DEFINE h == [t \in SUBSET d |-> IF m \in t THEN F[<<g[t \ {m}], s[m]>>] ELSE g[t]]
    <3>5. ASSUME NEW t \in SUBSET d
          PROVE  h[t] \in A
      <4>1. CASE m \in t
        <5>1. t \ {m} \in SUBSET c /\ s[m] \in E
          BY <3>2
        <5>2. g[t \ {m}] \in A
          BY <5>1
        <5>. QED
          BY <4>1, <5>1, <5>2
      <4>2. CASE m \notin t
        <5>1. t \in SUBSET c
          BY <4>2
        <5>. QED
          BY <4>2, <5>1
      <4>. QED
        BY <4>1, <4>2
    <3>6. ASSUME NEW t \in SUBSET d
          PROVE  h[t] = IF t = {} THEN base ELSE F[<<h[t \ {Max(t)}], s[Max(t)]>>]
      <4>1. CASE m \in t
        <5>1. Max(t) = m
          <6>1. Max(t) \in t /\ m <= Max(t)
            BY <3>1, <4>1
          <6>2. Max(t) <= m /\ Max(t) \in Nat /\ m \in Nat
            BY <2>2, <3>2, <6>1
          <6>. QED
            BY <6>1, <6>2
        <5>2. h[t \ {m}] = g[t \ {m}]
          OBVIOUS
        <5>3. h[t] = F[<<g[t \ {m}], s[m]>>]
          BY <4>1
        <5>. HIDE DEF h
        <5>. QED
          BY <4>1, <5>1, <5>2, <5>3
      <4>2. CASE m \notin t
        <5>1. t \in SUBSET c /\ h[t] = g[t]
          BY <4>2
        <5>2. h[t \ {Max(t)}] = g[t \ {Max(t)}]
          BY <4>2
        <5>3. g[t] = IF t = {} THEN base ELSE F[<<g[t \ {Max(t)}], s[Max(t)]>>]
          BY <3>4, <5>1 DEF FoldOf
        <5>. HIDE DEF h
        <5>. QED
          BY <5>1, <5>2, <5>3
      <4>. QED
        BY <4>1, <4>2
    <3>7. h \in [SUBSET d -> A]
      BY <3>5
    <3>. HIDE DEF h
    <3>8. Folds(d, h)
      BY <3>6 DEF FoldOf
    <3>. HIDE DEF Folds
    <3>. QED
      BY <2>2, <3>7, <3>8
  <2>. QED
    BY <2>3, <2>4
<1>2. D \notin B
  BY <1>1
<1>. HIDE DEF B
<1>. QED
  BY <1>2 DEF B
----------------------------------------------------------------------------
(* Cuts of the grid                                                        *)

\* The cells of a grid and a package number for each.
LEMMA ModType ==
  ASSUME NEW c \in Nat, NEW n \in Nat \ {0}
  PROVE  c % n \in 0 .. n - 1
OBVIOUS

\* Quotient and remainder, as facts the SMT backend can multiply with.
LEMMA Division ==
  ASSUME NEW a \in Int, NEW m \in Nat \ {0}
  PROVE  /\ a \div m \in Int /\ a % m \in 0 .. m - 1
         /\ a = m * (a \div m) + (a % m)
OBVIOUS

\* They are the only pair with which the division comes out.
LEMMA DivisionUnique ==
  ASSUME NEW m \in Nat \ {0}, NEW q \in Int, NEW r \in 0 .. m - 1
  PROVE  (m * q + r) \div m = q /\ (m * q + r) % m = r
<1>. DEFINE a == m * q + r
<1>1. a \in Int
  OBVIOUS
<1>2. /\ a \div m \in Int /\ a % m \in 0 .. m - 1
      /\ a = m * (a \div m) + (a % m)
  BY <1>1, Division
<1>3. m * (q - a \div m) = (a % m) - r
  BY <1>2
<1>4. q - a \div m = 0
  <2>1. \A x \in Int : m * x \in -(m-1) .. (m-1) => x = 0
    OBVIOUS
  <2>. QED
    BY <1>2, <1>3, <2>1
<1>. QED
  BY <1>2, <1>3, <1>4

\* An index into a vector of b rows of length m is a row and a place in it.
LEMMA IndexOf ==
  ASSUME NEW m \in Nat \ {0}, NEW b \in Nat, NEW a \in 0 .. b - 1, NEW r \in 0 .. m - 1
  PROVE  /\ a * m + r \in 0 .. b * m - 1
         /\ (a * m + r) \div m = a
         /\ (a * m + r) % m = r
<1>1. a * m = m * a /\ (a + 1) * m = a * m + m
  OBVIOUS
<1>2. (a + 1) * m <= b * m
  OBVIOUS
<1>3. a \in Int /\ a * m \in Nat /\ b * m \in Nat
  OBVIOUS
<1>. QED
  BY <1>1, <1>2, <1>3, DivisionUnique

LEMMA IndexParts ==
  ASSUME NEW m \in Nat \ {0}, NEW b \in Nat, NEW q \in 0 .. b * m - 1
  PROVE  /\ q \in Nat
         /\ q \div m \in 0 .. b - 1 /\ q % m \in 0 .. m - 1
         /\ q = (q \div m) * m + (q % m)
<1>1. b * m \in Nat /\ b * m = m * b /\ q \in Nat
  OBVIOUS
<1>. DEFINE a == q \div m
            r == q % m
<1>2. a \in Int /\ r \in 0 .. m - 1 /\ q = m * a + r
  BY <1>1, Division
<1>. HIDE DEF a, r
<1>3. m * a < m * b /\ m * (a + 1) > 0
  BY <1>1, <1>2
<1>4. \A u, v \in Int : m * u < m * v => u < v
  OBVIOUS
<1>5. a < b /\ a + 1 > 0
  <2>1. m * 0 = 0
    OBVIOUS
  <2>. QED
    BY <1>2, <1>3, <1>4, <2>1
<1>6. m * a = a * m
  BY <1>2
<1>. QED
  BY <1>1, <1>2, <1>5, <1>6 DEF a, r

\* Sets of cells are finite.
LEMMA CellsFinite ==
  ASSUME NEW n_cells \in Nat, NEW S \in SUBSET (0 .. n_cells - 1)
  PROVE  IsFiniteSet(S) /\ Cardinality(S) \in 0 .. n_cells
<1>1. IsFiniteSet(0 .. n_cells - 1) /\ Cardinality(0 .. n_cells - 1) = n_cells
  BY FS_Interval
<1>2. IsFiniteSet(S) /\ Cardinality(S) <= n_cells
  BY <1>1, FS_Subset
<1>. QED
  BY <1>2, FS_CardinalityType

\* There is a package if there is a cell.
LEMMA NPackagesType ==
  ASSUME NEW n_cells \in Nat \ {0}, NEW wp_size \in Nat \ {0}
  PROVE  NPackages(n_cells, wp_size) \in Nat \ {0}
<1>1. /\ n_cells \div wp_size \in Nat /\ n_cells % wp_size \in Nat
      /\ n_cells = wp_size * (n_cells \div wp_size) + (n_cells % wp_size)
  OBVIOUS
<1>2. CASE n_cells \div wp_size = 0
  <2>1. n_cells % wp_size # 0
    BY <1>1, <1>2
  <2>. QED
    BY <1>2, <2>1 DEF NPackages
<1>3. CASE n_cells \div wp_size # 0
  BY <1>1, <1>3 DEF NPackages
<1>. QED
  BY <1>2, <1>3

\* There are at most as many packages as cells, and they hold all cells.
LEMMA NPackagesBound ==
  ASSUME NEW n_cells \in Nat \ {0}, NEW wp_size \in Nat \ {0}
  PROVE  /\ NPackages(n_cells, wp_size) <= n_cells
         /\ n_cells <= NPackages(n_cells, wp_size) * wp_size
<1>. DEFINE a == n_cells \div wp_size
            b == n_cells % wp_size
<1>1. a \in Int /\ b \in 0 .. wp_size - 1 /\ n_cells = wp_size * a + b
  BY Division
<1>2. a \in Nat
  BY <1>1
<1>3. a <= wp_size * a
  BY <1>2
<1>4. wp_size * (a + 1) = wp_size * a + wp_size /\ a * wp_size = wp_size * a
      /\ (a+1) * wp_size = wp_size * a + wp_size
  BY <1>2
<1>5. CASE b = 0
  <2>1. NPackages(n_cells, wp_size) = a
    BY <1>2, <1>5 DEF NPackages
  <2>. QED
    BY <2>1, <1>1, <1>2, <1>3, <1>4, <1>5
<1>6. CASE b # 0
  <2>1. NPackages(n_cells, wp_size) = a + 1
    BY <1>2, <1>6 DEF NPackages
  <2>. QED
    BY <2>1, <1>1, <1>2, <1>3, <1>4, <1>6
<1>. QED
  BY <1>5, <1>6

\* A package begins where the one before it ends.
LEMMA SizesBeforeNext ==
  ASSUME NEW n_cells \in Nat, NEW n \in Nat \ {0}, NEW i \in Nat
  PROVE  /\ SizesBefore(n_cells, n, i) \in 0 .. n_cells
         /\ PackageSize(n_cells, n, i) \in 0 .. n_cells
         /\ SizesBefore(n_cells, n, i + 1) =
              SizesBefore(n_cells, n, i) + PackageSize(n_cells, n, i)
         /\ SizesBefore(n_cells, n, i + 1) \in 0 .. n_cells
<1>. DEFINE Below(k) == {c \in 0 .. n_cells - 1 : c % n < k}
            At == {c \in 0 .. n_cells - 1 : c % n = i}
<1>1. \A c \in 0 .. n_cells - 1 : c \in Nat /\ c % n \in Int
  BY ModType
<1>2. Below(i + 1) = Below(i) \cup At /\ Below(i) \cap At = {}
  BY <1>1
<1>3. /\ IsFiniteSet(Below(i)) /\ Cardinality(Below(i)) \in 0 .. n_cells
      /\ IsFiniteSet(At) /\ Cardinality(At) \in 0 .. n_cells
      /\ Cardinality(Below(i + 1)) \in 0 .. n_cells
  BY CellsFinite
<1>4. Cardinality(Below(i) \cup At) =
        Cardinality(Below(i)) + Cardinality(At) - Cardinality(Below(i) \cap At)
  BY <1>3, FS_Union
<1>5. Cardinality(Below(i) \cap At) = 0
  BY <1>2, FS_EmptySet
<1>6. Cardinality(Below(i + 1)) = Cardinality(Below(i)) + Cardinality(At)
  <2>. HIDE DEF Below, At
  <2>1. Cardinality(Below(i)) \in Int /\ Cardinality(At) \in Int
    BY <1>3
  <2>2. Cardinality(Below(i + 1)) = Cardinality(Below(i) \cup At)
    BY <1>2
  <2>. QED
    BY <1>4, <1>5, <2>1, <2>2
<1>. QED
  BY <1>3, <1>6 DEF SizesBefore, PackageSize

\* The first package begins at the first cell, the last ends at the last.
LEMMA SizesBeforeEnds ==
  ASSUME NEW n_cells \in Nat, NEW n \in Nat \ {0}
  PROVE  /\ SizesBefore(n_cells, n, 0) = 0
         /\ SizesBefore(n_cells, n, n) = n_cells
<1>1. \A c \in 0 .. n_cells - 1 : c \in Nat /\ c % n \in 0 .. n - 1
  BY ModType
<1>2. {c \in 0 .. n_cells - 1 : c % n < 0} = {}
  BY <1>1
<1>3. {c \in 0 .. n_cells - 1 : c % n < n} = 0 .. n_cells - 1
  BY <1>1
<1>4. Cardinality(0 .. n_cells - 1) = n_cells
  BY FS_Interval
<1>. QED
  BY <1>2, <1>3, <1>4, FS_EmptySet DEF SizesBefore
\* Every cell of an earlier package is in the field before this one.
LEMMA SizesBeforeGrows ==
  ASSUME NEW n_cells \in Nat, NEW n \in Nat \ {0}, NEW i \in Nat, NEW k \in Nat, i <= k
  PROVE  SizesBefore(n_cells, n, i) <= SizesBefore(n_cells, n, k)
<1>. DEFINE Below(x) == {c \in 0 .. n_cells - 1 : c % n < x}
<1>1. \A c \in 0 .. n_cells - 1 : c % n \in Int
  BY ModType
<1>2. Below(i) \in SUBSET Below(k)
  BY <1>1
<1>3. IsFiniteSet(Below(k))
  BY CellsFinite
<1>. QED
  BY <1>2, <1>3, FS_Subset DEF SizesBefore
----------------------------------------------------------------------------
\* Of two cells one comes first in the shuffled field, and with it every cell
\* that comes before it.
LEMMA BeforeOrder ==
  ASSUME NEW n \in Nat \ {0}, NEW c \in Nat, NEW d \in Nat
  PROVE  /\ ~Before(n, c, c)
         /\ c # d => Before(n, c, d) \/ Before(n, d, c)
         /\ \A e \in Nat : Before(n, e, c) /\ Before(n, c, d) => Before(n, e, d)
<1>1. \A e \in Nat : e % n \in Int
  BY ModType
<1>. QED
  BY <1>1 DEF Before

\* A cell that comes before another one gets a smaller position.
LEMMA PositionGrows ==
  ASSUME NEW n_cells \in Nat, NEW n \in Nat \ {0},
         NEW c \in 0 .. n_cells - 1, NEW d \in 0 .. n_cells - 1, Before(n, c, d)
  PROVE  Position(n_cells, n, c) < Position(n_cells, n, d)
<1>. DEFINE Cells == 0 .. n_cells - 1
            Earlier(x) == {e \in Cells : Before(n, e, x)}
<1>1. Cells \subseteq Nat /\ c \in Nat /\ d \in Nat
  OBVIOUS
<1>2. Earlier(c) \cup {c} \subseteq Earlier(d) /\ c \notin Earlier(c)
  BY <1>1, BeforeOrder
<1>3. /\ IsFiniteSet(Earlier(c)) /\ Cardinality(Earlier(c)) \in Nat
      /\ IsFiniteSet(Earlier(d)) /\ Cardinality(Earlier(d)) \in Nat
  <2>1. \A x : Earlier(x) \in SUBSET (0 .. n_cells - 1)
    OBVIOUS
  <2>2. \A x : IsFiniteSet(Earlier(x)) /\ Cardinality(Earlier(x)) \in 0 .. n_cells
    <3>. HIDE DEF Earlier
    <3>. QED
      BY <2>1, CellsFinite
  <2>. QED
    BY <2>2
<1>4. Cardinality(Earlier(c) \cup {c}) = Cardinality(Earlier(c)) + 1
  BY <1>2, <1>3, FS_AddElement
<1>5. Cardinality(Earlier(c) \cup {c}) <= Cardinality(Earlier(d))
  BY <1>2, <1>3, FS_Subset
<1>6. Cardinality(Earlier(c)) < Cardinality(Earlier(d))
  BY <1>3, <1>4, <1>5
<1>. QED
  BY <1>6 DEF Position

\* The shuffled field has a place for every cell.
LEMMA PositionType ==
  ASSUME NEW n_cells \in Nat, NEW n \in Nat \ {0}, NEW c \in 0 .. n_cells - 1
  PROVE  Position(n_cells, n, c) \in 0 .. n_cells - 1
<1>. DEFINE Cells == 0 .. n_cells - 1
            Earlier == {e \in Cells : Before(n, e, c)}
<1>1. Earlier \subseteq Cells \ {c}
  BY BeforeOrder
<1>2. IsFiniteSet(Cells) /\ Cardinality(Cells) = n_cells
  BY FS_Interval
<1>3. IsFiniteSet(Cells \ {c}) /\ Cardinality(Cells \ {c}) = n_cells - 1
  <2>1. c \in Cells
    OBVIOUS
  <2>. HIDE DEF Cells
  <2>. QED
    BY <1>2, <2>1, FS_RemoveElement
<1>4. Cardinality(Earlier) <= n_cells - 1
  BY <1>1, <1>3, FS_Subset
<1>5. Cardinality(Earlier) \in Nat
  BY CellsFinite
<1>. QED
  BY <1>4, <1>5 DEF Position

\* Shuffling is a permutation: no two cells get one place, and no place is left
\* out.
THEOREM ShuffleIsPermutation ==
  ASSUME NEW n_cells \in Nat, NEW n \in Nat \ {0}
  PROVE  /\ \A c, d \in 0 .. n_cells - 1 :
              Position(n_cells, n, c) = Position(n_cells, n, d) => c = d
         /\ \A q \in 0 .. n_cells - 1 :
              \E c \in 0 .. n_cells - 1 : Position(n_cells, n, c) = q
<1>. DEFINE Cells == 0 .. n_cells - 1
            place == [c \in Cells |-> Position(n_cells, n, c)]
<1>1. \A c, d \in Cells :
        Position(n_cells, n, c) = Position(n_cells, n, d) => c = d
  <2>. SUFFICES ASSUME NEW c \in Cells, NEW d \in Cells, c # d
                PROVE  Position(n_cells, n, c) # Position(n_cells, n, d)
    OBVIOUS
  <2>1. Before(n, c, d) \/ Before(n, d, c)
    BY BeforeOrder
  <2>2. Position(n_cells, n, c) \in Int /\ Position(n_cells, n, d) \in Int
    BY PositionType
  <2>. QED
    BY <2>1, <2>2, PositionGrows
<1>2. place \in [Cells -> Cells]
  BY PositionType
<1>3. place \in Injection(Cells, Cells)
  BY <1>1, <1>2 DEF Injection, IsInjective
<1>4. IsFiniteSet(Cells)
  BY FS_Interval
<1>5. place \in Surjection(Cells, Cells)
  BY <1>3, <1>4, FS_Injection
<1>6. \A q \in Cells : \E c \in Cells : place[c] = q
  BY <1>5 DEF Surjection
<1>. QED
  BY <1>1, <1>6

\* A cell stands between the beginnings of its package and of the next one.
LEMMA PositionInPackage ==
  ASSUME NEW n_cells \in Nat, NEW n \in Nat \ {0}, NEW c \in 0 .. n_cells - 1
  PROVE  /\ SizesBefore(n_cells, n, c % n) <= Position(n_cells, n, c)
         /\ Position(n_cells, n, c) < SizesBefore(n_cells, n, (c % n) + 1)
<1>. DEFINE Below(x) == {d \in 0 .. n_cells - 1 : d % n < x}
            Earlier == {d \in 0 .. n_cells - 1 : Before(n, d, c)}
            k == c % n
<1>1. \A d \in 0 .. n_cells - 1 : d \in Nat /\ d % n \in 0 .. n - 1
  BY ModType
<1>2. k \in 0 .. n - 1
  BY <1>1
<1>3. /\ IsFiniteSet(Below(k + 1)) /\ Cardinality(Below(k + 1)) \in Nat
      /\ IsFiniteSet(Earlier) /\ Cardinality(Earlier) \in Nat
  <2>1. Below(k + 1) \in SUBSET (0 .. n_cells - 1) /\ Earlier \in SUBSET (0 .. n_cells - 1)
    OBVIOUS
  <2>. HIDE DEF Below, Earlier
  <2>. QED
    BY <2>1, CellsFinite
<1>4. Below(k) \in SUBSET Earlier
  BY DEF Before
<1>5. Earlier \in SUBSET (Below(k + 1) \ {c})
  BY <1>1, <1>2 DEF Before
<1>6. c \in Below(k + 1)
  BY <1>1, <1>2
<1>7. Cardinality(Below(k)) <= Cardinality(Earlier)
  BY <1>3, <1>4, FS_Subset
<1>8. Cardinality(Earlier) <= Cardinality(Below(k + 1)) - 1
  <2>. HIDE DEF Below, Earlier
  <2>. QED
    BY <1>3, <1>5, <1>6, FS_Subset, FS_RemoveElement
<1>9. Cardinality(Earlier) < Cardinality(Below(k + 1))
  <2>. HIDE DEF Below, Earlier
  <2>. QED
    BY <1>3, <1>8
<1>. QED
  BY <1>7, <1>9 DEF SizesBefore, Position

\* The rows from the beginning of package p on, as many as it has cells, are its
\* cells.
LEMMA PackageAt ==
  ASSUME NEW n_cells \in Nat, NEW n \in Nat \ {0}, NEW c \in 0 .. n_cells - 1,
         NEW p \in 0 .. n - 1
  PROVE  c % n = p <=>
           Position(n_cells, n, c) \in SizesBefore(n_cells, n, p) ..
             SizesBefore(n_cells, n, p) + PackageSize(n_cells, n, p) - 1
<1>. DEFINE k == c % n
            pos == Position(n_cells, n, c)
            Start(x) == SizesBefore(n_cells, n, x)
<1>1. k \in 0 .. n - 1 /\ pos \in Int
  BY ModType, PositionType
<1>2. Start(k) <= pos /\ pos < Start(k + 1)
  BY PositionInPackage
<1>3. Start(p) \in Int /\ Start(p + 1) \in Int
      /\ Start(p + 1) = Start(p) + PackageSize(n_cells, n, p)
      /\ PackageSize(n_cells, n, p) \in Int
      /\ Start(k) \in Int /\ Start(k + 1) \in Int
  <2>1. p \in Nat /\ k \in Nat
    BY <1>1
  <2>. HIDE DEF k
  <2>2. \A x \in Nat :
          /\ Start(x) \in Int /\ Start(x + 1) \in Int
          /\ PackageSize(n_cells, n, x) \in Int
          /\ Start(x + 1) = Start(x) + PackageSize(n_cells, n, x)
    BY SizesBeforeNext
  <2>. QED
    BY <2>1, <2>2
<1>4. k < p => Start(k + 1) <= Start(p)
  BY <1>1, SizesBeforeGrows
<1>5. p < k => Start(p + 1) <= Start(k)
  BY <1>1, SizesBeforeGrows
<1>. HIDE DEF k, pos, Start
<1>6. k = p <=> pos \in Start(p) .. Start(p) + PackageSize(n_cells, n, p) - 1
  BY <1>1, <1>2, <1>3, <1>4, <1>5
<1>. QED
  BY <1>6 DEF k, pos, Start
----------------------------------------------------------------------------
\* One more cell makes package c % n one larger.
LEMMA PackageSizeNext ==
  ASSUME NEW c \in Nat, NEW n \in Nat \ {0}, NEW p \in Nat
  PROVE  PackageSize(c + 1, n, p)
           = PackageSize(c, n, p) + (IF c % n = p THEN 1 ELSE 0)
<1>. DEFINE At(x) == {d \in 0 .. x - 1 : d % n = p}
<1>1. IsFiniteSet(At(c)) /\ Cardinality(At(c)) \in Nat /\ c \notin At(c)
  <2>1. At(c) \in SUBSET (0 .. c - 1)
    OBVIOUS
  <2>2. c \notin At(c)
    OBVIOUS
  <2>. HIDE DEF At
  <2>. QED
    BY <2>1, <2>2, CellsFinite
<1>2. CASE c % n = p
  <2>1. At(c + 1) = At(c) \cup {c}
    BY <1>2
  <2>2. Cardinality(At(c + 1)) = Cardinality(At(c)) + 1
    <3>. HIDE DEF At
    <3>. QED
      BY <1>1, <2>1, FS_AddElement
  <2>. QED
    BY <1>2, <2>2 DEF PackageSize
<1>3. CASE c % n # p
  <2>1. At(c + 1) = At(c)
    BY <1>3
  <2>2. PackageSize(c + 1, n, p) = PackageSize(c, n, p)
    BY <2>1 DEF PackageSize
  <2>3. PackageSize(c, n, p) \in Int
    BY <1>1 DEF PackageSize
  <2>. QED
    BY <1>3, <2>2, <2>3
<1>. QED
  BY <1>2, <1>3

\* The same of the quotient that PackageSize is.
LEMMA QuotientNext ==
  ASSUME NEW c \in Nat, NEW n \in Nat \ {0}, NEW p \in 0 .. n - 1
  PROVE  (c + 1 + n - 1 - p) \div n
           = (c + n - 1 - p) \div n + (IF c % n = p THEN 1 ELSE 0)
<1>. DEFINE a == c \div n
            b == c % n
<1>1. a \in Int /\ b \in 0 .. n - 1 /\ c = n * a + b
  BY Division
<1>2. n * (a + 1) = n * a + n
  BY <1>1
<1>. HIDE DEF a, b
<1>3. CASE b = p
  <2>1. c + 1 + n - 1 - p = n * (a + 1) + 0 /\ c + n - 1 - p = n * a + (n - 1)
    BY <1>1, <1>2, <1>3
  <2>2. (n * (a + 1) + 0) \div n = a + 1 /\ (n * a + (n - 1)) \div n = a
    <3>1. a + 1 \in Int /\ 0 \in 0 .. n - 1 /\ n - 1 \in 0 .. n - 1
      BY <1>1
    <3>. QED
      BY <1>1, <3>1, DivisionUnique
  <2>. QED
    BY <1>1, <1>3, <2>1, <2>2 DEF b
<1>4. CASE b > p
  <2>1. /\ c + 1 + n - 1 - p = n * (a + 1) + (b - p)
        /\ c + n - 1 - p = n * (a + 1) + (b - p - 1)
    BY <1>1, <1>2, <1>4
  <2>2. /\ (n * (a + 1) + (b - p)) \div n = a + 1
        /\ (n * (a + 1) + (b - p - 1)) \div n = a + 1
    <3>1. a + 1 \in Int /\ b - p \in 0 .. n - 1 /\ b - p - 1 \in 0 .. n - 1
      BY <1>1, <1>4
    <3>. QED
      BY <3>1, DivisionUnique
  <2>. QED
    BY <1>1, <1>4, <2>1, <2>2 DEF b
<1>5. CASE b < p
  <2>1. /\ c + 1 + n - 1 - p = n * a + (n + b - p)
        /\ c + n - 1 - p = n * a + (n + b - p - 1)
    BY <1>1, <1>2, <1>5
  <2>2. /\ (n * a + (n + b - p)) \div n = a
        /\ (n * a + (n + b - p - 1)) \div n = a
    <3>1. n + b - p \in 0 .. n - 1 /\ n + b - p - 1 \in 0 .. n - 1
      BY <1>1, <1>5
    <3>. QED
      BY <1>1, <3>1, DivisionUnique
  <2>. QED
    BY <1>1, <1>5, <2>1, <2>2 DEF b
<1>. QED
  BY <1>1, <1>3, <1>4, <1>5

\* What the quotient says of the sizes of the packages.
LEMMA QuotientBalanced ==
  ASSUME NEW n_cells \in Nat \ {0}, NEW wp_size \in Nat \ {0},
         NEW n, n = NPackages(n_cells, wp_size),
         NEW p \in 0 .. n - 1, NEW q \in 0 .. n - 1
  PROVE  /\ (n_cells + n - 1 - p) \div n \in 1 .. wp_size
         /\ (n_cells + n - 1 - p) \div n <= (n_cells + n - 1 - q) \div n + 1
<1>1. n \in Nat \ {0} /\ n <= n_cells /\ n_cells <= n * wp_size
  BY NPackagesType, NPackagesBound
<1>. DEFINE x == (n_cells + n - 1 - p) \div n
            y == (n_cells + n - 1 - q) \div n
            r == (n_cells + n - 1 - p) % n
            s == (n_cells + n - 1 - q) % n
<1>2. x \in Int /\ r \in 0 .. n - 1 /\ n_cells + n - 1 - p = n * x + r
  <2>1. n_cells + n - 1 - p \in Int
    BY <1>1
  <2>. QED
    BY <1>1, <2>1, Division
<1>3. y \in Int /\ s \in 0 .. n - 1 /\ n_cells + n - 1 - q = n * y + s
  <2>1. n_cells + n - 1 - q \in Int
    BY <1>1
  <2>. QED
    BY <1>1, <2>1, Division
<1>. HIDE DEF x, y, r, s
<1>4. n * x > 0 /\ n * x < n * wp_size + n
  BY <1>1, <1>2
<1>5. n * x < n * y + (n + n)
  BY <1>1, <1>2, <1>3
<1>6. /\ n * wp_size + n = n * (wp_size + 1)
      /\ n * y + (n + n) = n * (y + 2)
  BY <1>1, <1>3
<1>7. \A u, v \in Int : n * u < n * v => u < v
  BY <1>1
<1>8. x > 0 /\ x < wp_size + 1 /\ x < y + 2
  <2>1. n * 0 = 0
    BY <1>1
  <2>. QED
    BY <1>2, <1>3, <1>4, <1>5, <1>6, <1>7, <2>1
<1>9. x \in 1 .. wp_size /\ x <= y + 1
  BY <1>2, <1>3, <1>8
<1>. QED
  BY <1>9 DEF x, y

\* The cells of package p are p, p + n, p + 2 * n and so on.
LEMMA PackageSizeIs ==
  ASSUME NEW n_cells \in Nat, NEW n \in Nat \ {0}, NEW p \in 0 .. n - 1
  PROVE  PackageSize(n_cells, n, p) = (n_cells + n - 1 - p) \div n
<1>. DEFINE k == (n_cells + n - 1 - p) \div n
            r == (n_cells + n - 1 - p) % n
            S == {c \in 0 .. n_cells - 1 : c % n = p}
            f == [j \in 0 .. k - 1 |-> n * j + p]
<1>1. k \in Int /\ r \in 0 .. n - 1 /\ n_cells + n - 1 - p = n * k + r
  <2>1. n_cells + n - 1 - p \in Int
    OBVIOUS
  <2>. QED
    BY <2>1, Division
<1>. HIDE DEF k, r
<1>2. k \in Nat
  <2>1. k < 0 => n * k <= -n
    <3>. SUFFICES ASSUME k < 0 PROVE n * k <= -n
      OBVIOUS
    <3>1. -k - 1 \in Nat /\ n * (-k - 1) >= 0
      BY <1>1
    <3>2. n * (-k - 1) = -(n * k) - n
      BY <1>1
    <3>3. n * k \in Int
      BY <1>1
    <3>. QED
      BY <3>1, <3>2, <3>3
  <2>2. n * k \in Int
    BY <1>1
  <2>3. n * k > -n
    BY <1>1, <2>2
  <2>. QED
    BY <1>1, <2>1, <2>2, <2>3
<1>3. ASSUME NEW j \in Nat
      PROVE  n * j + p \in Nat /\ (n * j + p) % n = p /\ (n * j + p) \div n = j
  BY DivisionUnique
<1>4. ASSUME NEW j \in Nat
      PROVE  n * j + p < n_cells <=> j < k
  <2>1. j < k => n * j + n <= n * k
    <3>. SUFFICES ASSUME j < k PROVE n * j + n <= n * k
      OBVIOUS
    <3>1. k - j - 1 \in Nat /\ n * (k - j - 1) >= 0
      BY <1>2
    <3>2. n * (k - j - 1) = n * k - n * j - n
      BY <1>2
    <3>3. n * k \in Int /\ n * j \in Int
      BY <1>2
    <3>. QED
      BY <3>1, <3>2, <3>3
  <2>2. ~(j < k) => n * k <= n * j
    <3>. SUFFICES ASSUME ~(j < k) PROVE n * k <= n * j
      OBVIOUS
    <3>1. j - k \in Nat /\ n * (j - k) >= 0
      BY <1>2
    <3>2. n * (j - k) = n * j - n * k
      BY <1>2
    <3>3. n * k \in Int /\ n * j \in Int
      BY <1>2
    <3>. QED
      BY <3>1, <3>2, <3>3
  <2>3. n * k \in Int /\ n * j \in Int
    BY <1>2
  <2>. QED
    BY <1>1, <1>2, <2>1, <2>2, <2>3
<1>5. f \in Bijection(0 .. k - 1, S)
  <2>1. \A j \in 0 .. k - 1 : f[j] \in S
    <3>. SUFFICES ASSUME NEW j \in 0 .. k - 1 PROVE n * j + p \in S
      OBVIOUS
    <3>1. j \in Nat /\ j < k
      BY <1>2
    <3>. QED
      BY <1>3, <1>4, <3>1
  <2>2. \A i, j \in 0 .. k - 1 : f[i] = f[j] => i = j
    <3>. SUFFICES ASSUME NEW i \in 0 .. k - 1, NEW j \in 0 .. k - 1, n * i + p = n * j + p
                  PROVE  i = j
      OBVIOUS
    <3>1. i \in Nat /\ j \in Nat
      BY <1>2
    <3>. QED
      BY <1>3, <3>1
  <2>3. \A c \in S : \E j \in 0 .. k - 1 : f[j] = c
    <3>. SUFFICES ASSUME NEW c \in S PROVE \E j \in 0 .. k - 1 : n * j + p = c
      OBVIOUS
    <3>. DEFINE j == c \div n
    <3>1. c \in Nat /\ c < n_cells /\ j \in Int /\ c = n * j + p
      BY Division
    <3>2. j \in Nat
      BY <3>1
    <3>. HIDE DEF j
    <3>3. j < k
      BY <1>4, <3>1, <3>2
    <3>. QED
      BY <1>2, <3>1, <3>2, <3>3
  <2>. HIDE DEF f, S
  <2>4. f \in [0 .. k - 1 -> S]
    BY <2>1 DEF f
  <2>. QED
    BY <2>2, <2>3, <2>4 DEF Bijection, Injection, Surjection, IsInjective
<1>6. Cardinality(S) = Cardinality(0 .. k - 1) /\ Cardinality(0 .. k - 1) = k
  <2>1. IsFiniteSet(0 .. k - 1) /\ Cardinality(0 .. k - 1) = k
    BY <1>2, FS_Interval
  <2>. HIDE DEF S, f
  <2>. QED
    BY <1>5, <2>1, FS_Bijection DEF ExistsBijection
<1>. QED
  BY <1>6 DEF PackageSize, k

\* A package has a cell at least, and no more than asked for.
LEMMA PackageSizeBounds ==
  ASSUME NEW n_cells \in Nat \ {0}, NEW wp_size \in Nat \ {0},
         NEW n, n = NPackages(n_cells, wp_size), NEW p \in 0 .. n - 1
  PROVE  PackageSize(n_cells, n, p) \in 1 .. wp_size
<1>1. n \in Nat \ {0}
  BY NPackagesType
<1>2. PackageSize(n_cells, n, p) = (n_cells + n - 1 - p) \div n
  BY <1>1, PackageSizeIs
<1>. QED
  BY <1>2, QuotientBalanced
=============================================================================
