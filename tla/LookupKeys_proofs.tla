-------------------------- MODULE LookupKeys_proofs --------------------------
(***************************************************************************)
(* What cells with the same keys have in common, for every choice of key   *)
(* species, digits, values, time steps and IDs.  The first half is about   *)
(* decimal numbers: what is left of one when it is cut to its leading      *)
(* digits.  The second half is the loop that makes the keys.               *)
(***************************************************************************)
EXTENDS LookupKeys, Counting_proofs, SequenceTheorems

----------------------------------------------------------------------------
(* Powers of ten                                                           *)

\* The provers know powers of numerals only: here are all that occur.
Power(k) == 10^k

LEMMA Powers ==
  ASSUME NEW k \in 0 .. 9
  PROVE  <<k, Power(k)>> \in
           {<<0, 1>>, <<1, 10>>, <<2, 100>>, <<3, 1000>>, <<4, 10000>>,
            <<5, 100000>>, <<6, 1000000>>, <<7, 10000000>>, <<8, 100000000>>,
            <<9, 1000000000>>}
<1>1. CASE k = 0
  BY <1>1 DEF Power
<1>2. CASE k = 1
  BY <1>2 DEF Power
<1>3. CASE k = 2
  BY <1>3 DEF Power
<1>4. CASE k = 3
  BY <1>4 DEF Power
<1>5. CASE k = 4
  BY <1>5 DEF Power
<1>6. CASE k = 5
  BY <1>6 DEF Power
<1>7. CASE k = 6
  BY <1>7 DEF Power
<1>8. CASE k = 7
  BY <1>8 DEF Power
<1>9. CASE k = 8
  BY <1>9 DEF Power
<1>10. CASE k = 9
  BY <1>10 DEF Power
<1>. QED
  BY <1>1, <1>2, <1>3, <1>4, <1>5, <1>6, <1>7, <1>8, <1>9, <1>10

LEMMA PowerPositive ==
  ASSUME NEW k \in 0 .. 9
  PROVE  Power(k) \in Nat /\ Power(k) >= 1
BY Powers

LEMMA PowerGrows ==
  ASSUME NEW k \in 0 .. 9, NEW l \in 0 .. 9, k < l
  PROVE  10 * Power(k) <= Power(l)
BY Powers

LEMMA PowerSum ==
  ASSUME NEW k \in 0 .. 9, NEW l \in 0 .. 9, k + l <= 9
  PROVE  Power(k) * Power(l) = Power(k + l)
<1>. k + l \in 0 .. 9
  OBVIOUS
<1>. QED
  BY Powers

----------------------------------------------------------------------------
(* Digits                                                                  *)

Narrow == {m \in Int : m # 0 /\ Abs(m) < Power(9)}

LEMMA AbsSign ==
  ASSUME NEW m \in Int
  PROVE  /\ Abs(m) \in Nat /\ Sign(m) \in {-1, 1}
         /\ m = Sign(m) * Abs(m) /\ Abs(m) = Sign(m) * m
         /\ m # 0 => Abs(m) > 0
BY DEF Abs, Sign

\* The number of digits is what it is meant to be ...
LEMMA DigitsAre ==
  ASSUME NEW m \in Narrow
  PROVE  /\ Digits(m) \in 1 .. 9
         /\ Power(Digits(m) - 1) <= Abs(m) /\ Abs(m) < Power(Digits(m))
<1>1. \E d \in 1 .. 9 : Power(d - 1) <= Abs(m) /\ Abs(m) < Power(d)
  <2>1. /\ Power(0) = 1 /\ Power(1) = 10 /\ Power(2) = 100 /\ Power(3) = 1000
        /\ Power(4) = 10000 /\ Power(5) = 100000 /\ Power(6) = 1000000
        /\ Power(7) = 10000000 /\ Power(8) = 100000000 /\ Power(9) = 1000000000
    BY Powers
  <2>2. Abs(m) \in Nat /\ Abs(m) > 0 /\ Abs(m) < Power(9)
    BY AbsSign DEF Narrow
  <2>. QED
    BY <2>1, <2>2
<1>. DEFINE P(d) == Power(d - 1) <= Abs(m) /\ Abs(m) < Power(d)
<1>2. Digits(m) = CHOOSE d \in 1 .. 9 : P(d)
  BY DEF Digits, Power
<1>. HIDE DEF P
<1>3. \E d \in 1 .. 9 : P(d)
  BY <1>1 DEF P
<1>4. Digits(m) \in 1 .. 9 /\ P(Digits(m))
  BY <1>2, <1>3, Zenon
<1>. QED
  BY <1>4 DEF P

\* ... and there is only one such number.
LEMMA DigitsOnly ==
  ASSUME NEW m \in Narrow, NEW d \in 1 .. 9,
         Power(d - 1) <= Abs(m), Abs(m) < Power(d)
  PROVE  Digits(m) = d
<1>1. /\ Digits(m) \in 1 .. 9
      /\ Power(Digits(m) - 1) <= Abs(m) /\ Abs(m) < Power(Digits(m))
  BY DigitsAre
<1>2. Abs(m) \in Nat /\ \A k \in 0 .. 9 : Power(k) \in Nat
  BY AbsSign, PowerPositive DEF Narrow
<1>3. ~(Digits(m) < d)
  <2>. SUFFICES ASSUME Digits(m) < d PROVE FALSE
    OBVIOUS
  <2>1. Digits(m) = d - 1 \/ Power(Digits(m)) <= Power(d - 1)
    BY <1>1, <1>2, PowerGrows
  <2>. QED
    BY <1>1, <1>2, <2>1
<1>4. ~(d < Digits(m))
  <2>. SUFFICES ASSUME d < Digits(m) PROVE FALSE
    OBVIOUS
  <2>1. d = Digits(m) - 1 \/ Power(d) <= Power(Digits(m) - 1)
    BY <1>1, <1>2, PowerGrows
  <2>. QED
    BY <1>1, <1>2, <2>1
<1>. QED
  BY <1>1, <1>3, <1>4

----------------------------------------------------------------------------
(* Products and quotients                                                  *)

LEMMA TimesGrows ==
  ASSUME NEW x \in Int, NEW y \in Int, NEW z \in Nat \ {0}
  PROVE  /\ x < y <=> x * z < y * z
         /\ x * z = y * z => x = y
OBVIOUS

LEMMA QuotientIs ==
  ASSUME NEW x \in Nat, NEW y \in Nat \ {0}, NEW q \in Nat
  PROVE  x \div y = q <=> q * y <= x /\ x < q * y + y
<1>1. /\ x \div y \in Int /\ x % y \in 0 .. y - 1
      /\ x = y * (x \div y) + (x % y)
  BY Division
<1>2. ASSUME q * y <= x, x < q * y + y PROVE x \div y = q
  <2>1. x - q * y \in 0 .. y - 1
    BY <1>2
  <2>2. x = y * q + (x - q * y)
    OBVIOUS
  <2>. QED
    BY <2>1, <2>2, DivisionUnique
<1>. QED
  BY <1>1, <1>2

LEMMA QuotientType ==
  ASSUME NEW x \in Nat, NEW y \in Nat \ {0}
  PROVE  x \div y \in Nat
OBVIOUS

\* A common factor makes no difference.
LEMMA QuotientCancel ==
  ASSUME NEW x \in Nat, NEW y \in Nat \ {0}, NEW z \in Nat \ {0}
  PROVE  (x * z) \div (y * z) = x \div y
<1>. DEFINE q == x \div y
<1>1. q \in Nat /\ q * y <= x /\ x < q * y + y
  BY QuotientType, QuotientIs
<1>2. x * z \in Nat /\ y * z \in Nat \ {0}
  OBVIOUS
<1>3. q * y \in Nat /\ (q * y) * z = q * (y * z) /\ (q * y + y) * z = q * (y * z) + y * z
  BY <1>1
<1>. HIDE DEF q
<1>4. q * (y * z) <= x * z /\ x * z < q * (y * z) + y * z
  <2>1. x * z < (q * y + y) * z
    BY <1>1, <1>3, TimesGrows
  <2>2. ~(x * z < (q * y) * z)
    BY <1>1, <1>3, TimesGrows
  <2>. QED
    BY <1>2, <1>3, <2>1, <2>2
<1>5. (x * z) \div (y * z) = q
  BY <1>1, <1>2, <1>4, QuotientIs
<1>. QED
  BY <1>5 DEF q

\* Dividing twice is dividing by the product.
LEMMA QuotientTwice ==
  ASSUME NEW x \in Nat, NEW y \in Nat \ {0}, NEW z \in Nat \ {0}
  PROVE  (x \div y) \div z = x \div (y * z)
<1>. DEFINE a == x \div y
            q == a \div z
<1>1. a \in Nat /\ a * y <= x /\ x < a * y + y
  BY QuotientType, QuotientIs
<1>. HIDE DEF a
<1>2. q \in Nat /\ q * z <= a /\ a < q * z + z
  BY <1>1, QuotientType, QuotientIs
<1>. HIDE DEF q
<1>3. q * (y * z) <= x
  <2>1. q * z \in Nat /\ (q * z) * y = q * (y * z)
    BY <1>2
  <2>2. ~(a * y < (q * z) * y)
    BY <1>1, <1>2, <2>1, TimesGrows
  <2>. QED
    BY <1>1, <1>2, <2>1, <2>2
<1>4. x < q * (y * z) + y * z
  <2>1. a + 1 <= q * z + z /\ q * z + z \in Nat
    BY <1>1, <1>2
  <2>2. ~((q * z + z) * y < (a + 1) * y)
    BY <1>1, <1>2, <2>1, TimesGrows
  <2>3. (a + 1) * y = a * y + y /\ (q * z + z) * y = q * (y * z) + y * z
    BY <1>1, <1>2
  <2>. QED
    BY <1>1, <1>2, <2>2, <2>3
<1>5. y * z \in Nat \ {0}
  OBVIOUS
<1>6. x \div (y * z) = q
  BY <1>2, <1>3, <1>4, <1>5, QuotientIs
<1>. QED
  BY <1>6 DEF q, a

LEMMA QuotientExact ==
  ASSUME NEW x \in Nat, NEW y \in Nat \ {0}
  PROVE  (x * y) \div y = x
<1>1. x * y \in Nat
  OBVIOUS
<1>. QED
  BY <1>1, QuotientIs

----------------------------------------------------------------------------
(* Numbers in smaller units, and cut to their leading digits               *)

LEMMA PowerIs ==
  ASSUME NEW k \in 0 .. 9
  PROVE  Power(k) \in Nat \ {0}
BY PowerPositive

LEMMA SignedIs ==
  ASSUME NEW s \in {-1, 1}, NEW a \in Nat \ {0}
  PROVE  s * a # 0 /\ Abs(s * a) = a /\ Sign(s * a) = s
BY DEF Abs, Sign

\* A number has as many digits as its absolute value says.
LEMMA SignedDigits ==
  ASSUME NEW s \in {-1, 1}, NEW a \in Nat, NEW d \in 1 .. 9,
         Power(d - 1) <= a, a < Power(d)
  PROVE  /\ s * a \in Narrow /\ Digits(s * a) = d
         /\ Sign(s * a) = s /\ Abs(s * a) = a
<1>1. a \in Nat \ {0}
  BY PowerIs
<1>2. s * a # 0 /\ Abs(s * a) = a /\ Sign(s * a) = s
  BY <1>1, SignedIs
<1>3. a < Power(9)
  BY PowerIs, PowerGrows
<1>4. s * a \in Narrow
  BY <1>2, <1>3 DEF Narrow
<1>. QED
  BY <1>2, <1>4, DigitsOnly

\* A zero at the end is one digit more.
LEMMA DigitsShifted ==
  ASSUME NEW m \in Narrow, NEW k \in 0 .. 8, Digits(m) + k <= 9
  PROVE  /\ m * Power(k) = Sign(m) * (Abs(m) * Power(k))
         /\ m * Power(k) \in Narrow
         /\ Digits(m * Power(k)) = Digits(m) + k
         /\ Sign(m * Power(k)) = Sign(m)
         /\ Abs(m * Power(k)) = Abs(m) * Power(k)
<1>. DEFINE d == Digits(m)
            a == Abs(m)
            z == Power(k)
<1>1. d \in 1 .. 9 /\ Power(d - 1) <= a /\ a < Power(d)
  BY DigitsAre
<1>2. a \in Nat /\ Sign(m) \in {-1, 1} /\ m = Sign(m) * a /\ m \in Int
  BY AbsSign DEF Narrow
<1>3. z \in Nat \ {0}
  BY PowerIs
<1>4. Power(d - 1) * z = Power(d + k - 1) /\ Power(d) * z = Power(d + k)
  <2>1. d - 1 \in 0 .. 9 /\ d \in 0 .. 9 /\ k \in 0 .. 9 /\ (d - 1) + k = d + k - 1
    BY <1>1
  <2>2. d - 1 + k <= 9 /\ d + k <= 9
    BY <1>1
  <2>. QED
    BY <2>1, <2>2, PowerSum
<1>5. Power(d - 1) \in Nat /\ Power(d) \in Nat
  BY <1>1, PowerIs
<1>. HIDE DEF d, a, z
<1>6. Power(d + k - 1) <= a * z /\ a * z < Power(d + k)
  <2>1. ~(a * z < Power(d - 1) * z)
    BY <1>1, <1>2, <1>3, <1>5, TimesGrows
  <2>2. a * z < Power(d) * z
    BY <1>1, <1>2, <1>3, <1>5, TimesGrows
  <2>3. a * z \in Nat /\ Power(d - 1) * z \in Nat
    BY <1>2, <1>3, <1>5
  <2>. QED
    BY <1>4, <2>1, <2>2, <2>3
<1>7. a * z \in Nat /\ d + k \in 1 .. 9
  BY <1>1, <1>2, <1>3 DEF d
<1>8. m * z = Sign(m) * (a * z)
  BY <1>2, <1>3
<1>9. /\ Sign(m) * (a * z) \in Narrow /\ Digits(Sign(m) * (a * z)) = d + k
      /\ Sign(Sign(m) * (a * z)) = Sign(m) /\ Abs(Sign(m) * (a * z)) = a * z
  <2>. DEFINE x == a * z
              w == d + k
  <2>1. x \in Nat /\ w \in 1 .. 9 /\ Power(w - 1) <= x /\ x < Power(w)
    BY <1>1, <1>2, <1>3, <1>6, <1>7
  <2>. HIDE DEF x, w
  <2>2. /\ Sign(m) * x \in Narrow /\ Digits(Sign(m) * x) = w
        /\ Sign(Sign(m) * x) = Sign(m) /\ Abs(Sign(m) * x) = x
    BY <1>2, <2>1, SignedDigits
  <2>. QED
    BY <2>2 DEF x, w
<1>. QED
  BY <1>8, <1>9 DEF d, a, z

\* Numbers that are not zero; the digits of the number v in front of the point,
\* and those that are left when it is multiplied by 10^p.
Nonzero == {v \in [m : Int, e : Int] : v.m \in Narrow}

DigitsLeft(v, p) == Digits(v.m) + v.e + p

LEMMA DigitsLeftIs ==
  ASSUME NEW v \in Nonzero, NEW p \in Int
  PROVE  /\ v.m \in Narrow /\ v.m \in Int /\ v.e \in Int
         /\ Digits(v.m) \in 1 .. 9 /\ DigitsLeft(v, p) \in Int
         /\ DigitsLeft(v, p) = Exponent(v) + 1 + p
         /\ Exponent(v) \in Int
<1>1. v.m \in Narrow /\ v.m \in Int /\ v.e \in Int
  BY DEF Nonzero, Narrow
<1>. QED
  BY <1>1, DigitsAre DEF DigitsLeft, Exponent

\* The two cases of the cut, without the one of numbers too small.
LEMMA Cut ==
  ASSUME NEW v \in Nonzero, NEW p \in Int, DigitsLeft(v, p) \in 1 .. 9
  PROVE  /\ v.e + p \in -8 .. 8
         /\ v.e + p >= 0 => Truncate(v, p) = v.m * Power(v.e + p)
         /\ v.e + p < 0 =>
              Truncate(v, p) = Sign(v.m) * (Abs(v.m) \div Power(-(v.e + p)))
<1>1. /\ Digits(v.m) \in 1 .. 9 /\ v.e \in Int
      /\ Digits(v.m) + v.e + p \in 1 .. 9
  BY DigitsLeftIs DEF DigitsLeft
<1>2. v.e + p \in -8 .. 8
  BY <1>1
<1>. QED
  BY <1>2 DEF Truncate, Power

\* What a cut leaves: a number of the same sign with the digits left.
LEMMA CutDigits ==
  ASSUME NEW v \in Nonzero, NEW p \in Int, DigitsLeft(v, p) \in 1 .. 9
  PROVE  /\ Truncate(v, p) \in Narrow
         /\ Digits(Truncate(v, p)) = DigitsLeft(v, p)
         /\ Sign(Truncate(v, p)) = Sign(v.m)
<1>. DEFINE d == Digits(v.m)
            f == v.e + p
            a == Abs(v.m)
<1>1. d \in 1 .. 9 /\ f \in -8 .. 8 /\ v.m \in Narrow /\ DigitsLeft(v, p) = d + f
  BY DigitsLeftIs, Cut DEF DigitsLeft
<1>2. CASE f >= 0
  BY <1>1, <1>2, Cut, DigitsShifted
<1>3. CASE f < 0
  <2>1. /\ Power(d - 1) <= a /\ a < Power(d)
        /\ a \in Nat /\ Sign(v.m) \in {-1, 1}
    BY <1>1, DigitsAre, AbsSign DEF Narrow
  <2>. DEFINE z == Power(-f)
              q == a \div z
              w == d + f
  <2>2. z \in Nat \ {0} /\ w \in 1 .. 9
    BY <1>1, <1>3, PowerIs
  <2>3. Power(w - 1) * z = Power(d - 1) /\ Power(w) * z = Power(d)
    <3>1. w - 1 \in 0 .. 9 /\ w \in 0 .. 9 /\ -f \in 0 .. 9
          /\ (w - 1) + (-f) = d - 1 /\ w + (-f) = d
          /\ (w - 1) + (-f) <= 9 /\ w + (-f) <= 9
      BY <1>1, <1>3
    <3>. QED
      BY <3>1, PowerSum
  <2>4. Power(w - 1) \in Nat /\ Power(w) \in Nat
    BY <2>2, PowerIs
  <2>. HIDE DEF z, w, a
  <2>5. q \in Nat /\ q * z <= a /\ a < q * z + z
    BY <2>1, <2>2, QuotientType, QuotientIs
  <2>. HIDE DEF q
  <2>6. q < Power(w)
    <3>1. q * z < Power(w) * z
      BY <2>1, <2>2, <2>3, <2>4, <2>5 DEF a
    <3>. QED
      BY <2>2, <2>4, <2>5, <3>1, TimesGrows
  <2>7. Power(w - 1) <= q
    <3>1. Power(w - 1) * z < (q + 1) * z
      BY <2>1, <2>2, <2>3, <2>4, <2>5 DEF a
    <3>. QED
      BY <2>2, <2>4, <2>5, <3>1, TimesGrows
  <2>8. /\ Sign(v.m) * q \in Narrow /\ Digits(Sign(v.m) * q) = w
        /\ Sign(Sign(v.m) * q) = Sign(v.m)
    BY <2>1, <2>2, <2>5, <2>6, <2>7, SignedDigits
  <2>9. Truncate(v, p) = Sign(v.m) * q
    BY <1>3, Cut DEF q, a, z
  <2>. QED
    BY <1>1, <2>8, <2>9 DEF w
<1>. QED
  BY <1>1, <1>2, <1>3

\* A number can be told in smaller units before it is cut.
LEMMA CutUnits ==
  ASSUME NEW v \in Nonzero, NEW p \in Int, DigitsLeft(v, p) \in 1 .. 9,
         NEW k \in 0 .. 8, Digits(v.m) + k <= 9,
         NEW u, u = [m |-> v.m * Power(k), e |-> v.e - k]
  PROVE  /\ u \in Nonzero
         /\ Digits(u.m) = Digits(v.m) + k
         /\ Sign(u.m) = Sign(v.m)
         /\ DigitsLeft(u, p) = DigitsLeft(v, p)
         /\ Truncate(u, p) = Truncate(v, p)
<1>. DEFINE d == Digits(v.m)
            f == v.e + p
            a == Abs(v.m)
            s == Sign(v.m)
            z == Power(k)
<1>1. d \in 1 .. 9 /\ v.m \in Narrow /\ v.e \in Int /\ f \in -8 .. 8
      /\ DigitsLeft(v, p) = d + f
  BY DigitsLeftIs, Cut DEF DigitsLeft
<1>2. a \in Nat /\ s \in {-1, 1} /\ v.m = s * a /\ z \in Nat \ {0}
  BY <1>1, AbsSign, PowerIs DEF Narrow
<1>3. /\ u.m = s * (a * z) /\ u.m = v.m * z /\ u.e = v.e - k
      /\ u.m \in Narrow /\ u.m \in Int /\ u.e \in Int /\ Digits(u.m) = d + k
      /\ Sign(u.m) = s /\ Abs(u.m) = a * z
  BY <1>1, DigitsShifted DEF Narrow
<1>4. u \in Nonzero /\ DigitsLeft(u, p) = d + f /\ u.e + p = f - k
  BY <1>1, <1>3 DEF Nonzero, DigitsLeft
<1>5. DigitsLeft(u, p) \in 1 .. 9
  BY <1>1, <1>4
<1>6. f - k \in -8 .. 8
  BY <1>1, <1>4, <1>5, Cut
<1>7. f >= 0 => Truncate(v, p) = v.m * Power(f)
  BY Cut
<1>8. f < 0 => Truncate(v, p) = s * (a \div Power(-f))
  BY Cut
<1>9. f - k >= 0 => Truncate(u, p) = u.m * Power(f - k)
  BY <1>4, <1>5, Cut
<1>10. f - k < 0 => Truncate(u, p) = s * ((a * z) \div Power(k - f))
  <2>1. f - k < 0 => Truncate(u, p) = Sign(u.m) * (Abs(u.m) \div Power(-(f - k)))
    BY <1>4, <1>5, Cut
  <2>2. -(f - k) = k - f
    BY <1>1
  <2>. QED
    BY <1>3, <2>1, <2>2
<1>. HIDE DEF f, a, s, z, d
<1>11. CASE f - k >= 0
  <2>1. f - k \in 0 .. 9 /\ k \in 0 .. 9 /\ k + (f - k) = f /\ k + (f - k) <= 9
    BY <1>1, <1>11
  <2>2. Power(k) * Power(f - k) = Power(f)
    BY <2>1, PowerSum
  <2>3. Power(f - k) \in Nat
    BY <2>1, PowerIs
  <2>4. (v.m * z) * Power(f - k) = v.m * (z * Power(f - k))
    BY <1>2, <2>3
  <2>5. f >= 0
    BY <1>1, <1>11
  <2>6. Truncate(u, p) = v.m * Power(f)
    BY <1>3, <1>9, <1>11, <2>2, <2>4 DEF z
  <2>. QED
    BY <1>3, <1>4, <1>1, <1>7, <2>5, <2>6 DEF d, s
<1>12. CASE f >= 0 /\ f - k < 0
  <2>. DEFINE x == Power(f)
              y == Power(k - f)
  <2>1. f \in 0 .. 9 /\ k - f \in 0 .. 9 /\ f + (k - f) = k /\ f + (k - f) <= 9
    BY <1>1, <1>6, <1>12
  <2>2. z = x * y /\ x \in Nat /\ y \in Nat \ {0}
    BY <2>1, PowerSum, PowerIs DEF z
  <2>. HIDE DEF x, y
  <2>3. a * x \in Nat /\ a * z = (a * x) * y
    BY <1>2, <2>2
  <2>4. (a * z) \div y = a * x
    BY <2>2, <2>3, QuotientExact
  <2>5. s * (a * x) = (s * a) * x
    BY <1>2, <2>2
  <2>6. Truncate(u, p) = v.m * Power(f)
    BY <1>2, <1>10, <1>12, <2>4, <2>5 DEF x, y
  <2>. QED
    BY <1>3, <1>4, <1>1, <1>7, <1>12, <2>6 DEF d, s
<1>13. CASE f < 0
  <2>. DEFINE x == Power(-f)
  <2>1. k \in 0 .. 9 /\ -f \in 0 .. 9 /\ -f + k = k - f /\ -f + k <= 9
    BY <1>1, <1>6, <1>13
  <2>2. x * z = Power(k - f) /\ x \in Nat \ {0}
    BY <2>1, PowerSum, PowerIs DEF z
  <2>. HIDE DEF x
  <2>3. (a * z) \div (x * z) = a \div x
    BY <1>2, <2>2, QuotientCancel
  <2>4. f - k < 0
    BY <1>1, <1>13
  <2>5. Truncate(u, p) = s * (a \div x)
    BY <1>10, <2>2, <2>3, <2>4
  <2>. QED
    BY <1>3, <1>4, <1>1, <1>8, <1>13, <2>5 DEF d, s, x
<1>. QED
  BY <1>1, <1>11, <1>12, <1>13

\* Cutting what a cut has left is cutting at once.
LEMMA CutTwice ==
  ASSUME NEW v \in Nonzero, NEW p \in Int, NEW j \in 0 .. 8,
         DigitsLeft(v, p) - j \in 1 .. 9, DigitsLeft(v, p) \in 1 .. 9,
         NEW u, u = [m |-> Truncate(v, p), e |-> 0]
  PROVE  Truncate(u, -j) = Truncate(v, p - j)
<1>. DEFINE d == Digits(v.m)
            f == v.e + p
            a == Abs(v.m)
            s == Sign(v.m)
<1>1. d \in 1 .. 9 /\ v.m \in Narrow /\ v.e \in Int /\ f \in -8 .. 8
      /\ DigitsLeft(v, p) = d + f /\ DigitsLeft(v, p - j) = d + f - j
      /\ p - j \in Int /\ -j \in Int
  BY DigitsLeftIs, Cut DEF DigitsLeft
<1>2. a \in Nat /\ s \in {-1, 1} /\ v.m = s * a
  BY <1>1, AbsSign DEF Narrow
<1>3. /\ u.m \in Narrow /\ u.m \in Int /\ u.e = 0 /\ u \in Nonzero
      /\ Digits(u.m) = d + f /\ Sign(u.m) = s
  BY <1>1, CutDigits DEF Nonzero, Narrow
<1>4. DigitsLeft(u, -j) \in 1 .. 9 /\ DigitsLeft(v, p - j) \in 1 .. 9
  BY <1>1, <1>3 DEF DigitsLeft
<1>5. u.e + (-j) = -j /\ v.e + (p - j) = f - j /\ f - j \in -8 .. 8
  BY <1>1, <1>3, <1>4, Cut
<1>6. /\ f >= 0 => u.m = v.m * Power(f)
      /\ f < 0 => u.m = s * (a \div Power(-f))
  BY Cut
<1>7. /\ f - j >= 0 => Truncate(v, p - j) = v.m * Power(f - j)
      /\ f - j < 0 => Truncate(v, p - j) = s * (a \div Power(j - f))
  <2>1. /\ f - j >= 0 => Truncate(v, p - j) = v.m * Power(f - j)
        /\ f - j < 0 => Truncate(v, p - j) = s * (a \div Power(-(f - j)))
    BY <1>1, <1>4, <1>5, Cut
  <2>2. -(f - j) = j - f
    BY <1>1
  <2>. QED
    BY <2>1, <2>2
<1>8. j = 0 => Truncate(u, -j) = u.m
  <2>1. j = 0 => Truncate(u, -j) = u.m * Power(0)
    BY <1>1, <1>3, <1>4, <1>5, Cut
  <2>2. Power(0) = 1
    BY Powers
  <2>. QED
    BY <1>3, <2>1, <2>2
<1>9. j > 0 => Truncate(u, -j) = s * (Abs(u.m) \div Power(j))
  <2>1. j > 0 => Truncate(u, -j) = s * (Abs(u.m) \div Power(-(-j)))
    BY <1>1, <1>3, <1>4, <1>5, Cut
  <2>2. -(-j) = j
    OBVIOUS
  <2>. QED
    BY <2>1, <2>2
<1>. DEFINE y == Power(j)
<1>10. y \in Nat \ {0} /\ j \in Nat
  BY PowerIs
<1>. HIDE DEF f, a, s, d
<1>11. CASE j = 0
  <2>1. p - j = p
    BY <1>11
  <2>. QED
    BY <1>8, <1>11, <2>1
<1>12. CASE j > 0 /\ f >= 0
  <2>. DEFINE x == Power(f)
  <2>1. x \in Nat \ {0}
    BY <1>1, <1>12, PowerIs
  <2>2. Abs(u.m) = a * x
    <3>1. v.m * x = s * (a * x) /\ a * x \in Nat
      BY <1>2, <2>1
    <3>2. u.m = s * (a * x)
      BY <1>6, <1>12, <3>1
    <3>3. u.m # 0
      BY <1>3 DEF Narrow
    <3>4. a * x # 0
      BY <1>2, <3>2, <3>3
    <3>. QED
      BY <1>2, <3>1, <3>2, <3>4, SignedIs
  <2>3. CASE f - j >= 0
    <3>. DEFINE w == Power(f - j)
    <3>1. f - j \in 0 .. 9 /\ j \in 0 .. 9 /\ (f - j) + j = f /\ (f - j) + j <= 9
      BY <1>1, <1>5, <2>3
    <3>2. x = w * y /\ w \in Nat
      BY <3>1, PowerSum, PowerIs
    <3>. HIDE DEF x, y, w
    <3>3. a * w \in Nat /\ a * x = (a * w) * y
      BY <1>2, <1>10, <3>2
    <3>4. (a * x) \div y = a * w
      BY <1>10, <3>3, QuotientExact
    <3>5. s * (a * w) = v.m * w
      BY <1>2, <3>2
    <3>. QED
      BY <1>7, <1>9, <1>12, <2>2, <2>3, <3>4, <3>5 DEF w, y
  <2>4. CASE f - j < 0
    <3>. DEFINE w == Power(j - f)
    <3>1. j - f \in 0 .. 9 /\ f \in 0 .. 9 /\ (j - f) + f = j /\ (j - f) + f <= 9
      BY <1>1, <1>5, <1>12, <2>4
    <3>2. y = w * x /\ w \in Nat \ {0}
      BY <3>1, PowerSum, PowerIs
    <3>. HIDE DEF x, y, w
    <3>3. (a * x) \div y = a \div w
      BY <1>2, <2>1, <3>2, QuotientCancel
    <3>. QED
      BY <1>7, <1>9, <1>12, <2>2, <2>4, <3>3 DEF w, y
  <2>5. f - j \in Int
    BY <1>5
  <2>. QED
    BY <2>3, <2>4, <2>5
<1>13. CASE j > 0 /\ f < 0
  <2>. DEFINE x == Power(-f)
              w == Power(j - f)
              q == a \div x
  <2>1. -f \in 0 .. 9 /\ j \in 0 .. 9 /\ -f + j = j - f /\ -f + j <= 9
    BY <1>1, <1>5, <1>13
  <2>2. w = x * y /\ x \in Nat \ {0}
    BY <2>1, PowerSum, PowerIs
  <2>3. q \in Nat
    BY <1>2, <2>2, QuotientType
  <2>4. q \div y = a \div w
    BY <1>2, <1>10, <2>2, QuotientTwice
  <2>5. u.m = s * q
    BY <1>6, <1>13
  <2>. HIDE DEF x, y, w, q
  <2>6. Abs(u.m) = q
    <3>1. u.m # 0
      BY <1>3 DEF Narrow
    <3>2. q # 0
      BY <1>2, <2>5, <3>1
    <3>. QED
      BY <1>2, <2>3, <2>5, <3>2, SignedIs
  <2>7. f - j < 0
    BY <1>1, <1>13
  <2>. QED
    BY <1>7, <1>9, <1>13, <2>4, <2>6, <2>7 DEF w, y
<1>. QED
  BY <1>1, <1>10, <1>11, <1>12, <1>13

\* Numbers in the same units with as many digits, of which the leading ones are
\* the same, differ only in the others.
LEMMA CutSame ==
  ASSUME NEW u \in Nonzero, NEW w \in Nonzero, NEW p \in Int, u.e = w.e,
         Digits(u.m) = Digits(w.m), DigitsLeft(u, p) \in 1 .. 9,
         Truncate(u, p) = Truncate(w, p)
  PROVE  \/ u.m = w.m
         \/ /\ u.m - w.m \in Narrow
            /\ Digits(u.m - w.m) <= Digits(u.m) - DigitsLeft(u, p)
<1>. DEFINE d == Digits(u.m)
            f == u.e + p
            a == Abs(u.m)
            b == Abs(w.m)
            s == Sign(u.m)
<1>1. d \in 1 .. 9 /\ u.m \in Narrow /\ w.m \in Narrow /\ f \in -8 .. 8
      /\ DigitsLeft(u, p) = d + f /\ DigitsLeft(w, p) = d + f /\ u.e \in Int
  BY DigitsLeftIs, Cut DEF DigitsLeft
<1>2. Sign(w.m) = s
  BY <1>1, CutDigits
<1>3. /\ a \in Nat /\ s \in {-1, 1} /\ u.m = s * a /\ a < Power(9)
      /\ b \in Nat /\ w.m = s * b /\ b < Power(9)
  BY <1>1, <1>2, AbsSign DEF Narrow
<1>4. CASE f >= 0
  <2>1. u.m * Power(f) = w.m * Power(f) /\ Power(f) \in Nat \ {0}
    BY <1>1, <1>4, Cut, PowerIs
  <2>2. u.m \in Int /\ w.m \in Int
    BY <1>1 DEF Narrow
  <2>. QED
    BY <2>1, <2>2, TimesGrows
<1>5. CASE f < 0
  <2>. DEFINE z == Power(-f)
              q == a \div z
  <2>1. z \in Nat \ {0} /\ -f \in 1 .. 8
    BY <1>1, <1>5, PowerIs
  <2>2. s * q = s * (b \div z)
    <3>1. Truncate(u, p) = s * (a \div Power(-f))
      BY <1>5, Cut
    <3>2. Truncate(w, p) = s * (b \div Power(-f))
      BY <1>1, <1>2, <1>5, Cut
    <3>. QED
      BY <3>1, <3>2
  <2>. HIDE DEF a, b, z, s
  <2>3. q \in Nat /\ b \div z \in Nat
    BY <1>3, <2>1, QuotientType
  <2>4. b \div z = q
    BY <1>3, <2>2, <2>3
  <2>5. q * z <= a /\ a < q * z + z /\ q * z <= b /\ b < q * z + z
    BY <1>3, <2>1, <2>3, <2>4, QuotientIs
  <2>. HIDE DEF q
  <2>6. a - b < z /\ b - a < z
    <3>1. q * z \in Nat
      BY <2>1, <2>3
    <3>. QED
      BY <1>3, <2>1, <2>5, <3>1
  <2>. DEFINE m == u.m - w.m
  <2>7. SUFFICES ASSUME u.m # w.m PROVE m \in Narrow /\ Digits(m) <= -f
    BY <1>1
  <2>8. m \in Int /\ m # 0 /\ Abs(m) < z /\ Abs(m) < Power(9)
    <3>1. m = s * (a - b)
      BY <1>3
    <3>2. Power(9) \in Nat
      BY PowerIs
    <3>. QED
      BY <1>3, <2>1, <2>6, <2>7, <3>1, <3>2 DEF Abs
  <2>9. m \in Narrow
    BY <2>8 DEF Narrow
  <2>10. Digits(m) \in 1 .. 9 /\ Power(Digits(m) - 1) <= Abs(m)
    BY <2>9, DigitsAre
  <2>. HIDE DEF m
  <2>11. ASSUME ~(Digits(m) <= -f) PROVE FALSE
    <3>. DEFINE k == Digits(m) - 1
    <3>1. k \in 0 .. 9 /\ -f <= k /\ -f \in 0 .. 9
      BY <1>1, <2>1, <2>10, <2>11
    <3>2. Power(-f) \in Nat /\ Power(k) \in Nat
      BY <3>1, PowerIs
    <3>3. Power(-f) <= Power(k)
      BY <3>1, <3>2, PowerGrows
    <3>4. Abs(m) \in Nat
      BY <2>8, AbsSign
    <3>. QED
      BY <2>8, <2>10, <3>2, <3>3, <3>4 DEF z
  <2>. QED
    BY <2>9, <2>11 DEF m
<1>. QED
  BY <1>1, <1>4, <1>5

\* Numbers of the same order of magnitude with the same leading digits are near.
LEMMA CutNear ==
  ASSUME NEW a \in Nonzero, NEW b \in Nonzero, NEW p \in Int,
         Exponent(a) = Exponent(b), DigitsLeft(a, p) \in 1 .. 9,
         Truncate(a, p) = Truncate(b, p),
         NEW d \in Int, d <= DigitsLeft(a, p)
  PROVE  Near(a, b, d)
<1>. DEFINE e == Least(a.e, b.e)
            k == a.e - e
            l == b.e - e
            u == [m |-> a.m * Power(k), e |-> a.e - k]
            w == [m |-> b.m * Power(l), e |-> b.e - l]
<1>1. /\ a.e \in Int /\ b.e \in Int /\ Digits(a.m) \in 1 .. 9 /\ Digits(b.m) \in 1 .. 9
      /\ DigitsLeft(a, p) = Exponent(a) + 1 + p /\ DigitsLeft(b, p) = Exponent(b) + 1 + p
  BY DigitsLeftIs
<1>2. Digits(a.m) + a.e = Digits(b.m) + b.e
  BY <1>1 DEF Exponent
<1>3. /\ k \in 0 .. 8 /\ Digits(a.m) + k <= 9
      /\ l \in 0 .. 8 /\ Digits(b.m) + l <= 9
      /\ e \in Int /\ a.e - k = e /\ b.e - l = e
      /\ Digits(a.m) + k = Digits(b.m) + l
  BY <1>1, <1>2 DEF Least
<1>. HIDE DEF k, l, e
<1>4. /\ u \in Nonzero /\ Digits(u.m) = Digits(a.m) + k /\ Sign(u.m) = Sign(a.m)
      /\ DigitsLeft(u, p) = DigitsLeft(a, p) /\ Truncate(u, p) = Truncate(a, p)
  BY <1>3, CutUnits
<1>5. DigitsLeft(b, p) \in 1 .. 9
  BY <1>1
<1>6. /\ w \in Nonzero /\ Digits(w.m) = Digits(b.m) + l /\ Sign(w.m) = Sign(b.m)
      /\ Truncate(w, p) = Truncate(b, p)
  BY <1>3, <1>5, CutUnits
<1>7. u.e = e /\ w.e = e
  BY <1>3
<1>8. Minus(a, b) = [m |-> u.m - w.m, e |-> e]
  BY DEF Minus, Power, k, l, e
<1>. HIDE DEF u, w
<1>9. \/ u.m = w.m
      \/ /\ u.m - w.m \in Narrow
         /\ Digits(u.m - w.m) <= Digits(u.m) - DigitsLeft(u, p)
  BY <1>3, <1>4, <1>6, <1>7, CutSame
<1>10. Sign(a.m) = Sign(b.m)
  BY <1>4, <1>5, <1>6, CutDigits
<1>11. CASE u.m = w.m
  <2>1. u.m \in Int
    BY <1>4 DEF Nonzero, Narrow
  <2>2. Minus(a, b).m = 0
    BY <1>8, <1>11, <2>1
  <2>. QED
    BY <1>10, <2>2 DEF Near
<1>12. CASE /\ u.m - w.m \in Narrow
            /\ Digits(u.m - w.m) <= Digits(u.m) - DigitsLeft(u, p)
  <2>1. Digits(u.m - w.m) \in 1 .. 9
    BY <1>12, DigitsAre
  <2>2. Exponent(Minus(a, b)) = Digits(u.m - w.m) - 1 + e
    BY <1>8 DEF Exponent
  <2>3. Exponent(a) = Digits(a.m) - 1 + a.e
    BY DEF Exponent
  <2>4. k \in Int /\ DigitsLeft(a, p) \in Int
    BY <1>3
  <2>5. Exponent(Minus(a, b)) <= Exponent(a) - d
    BY <1>1, <1>3, <1>4, <1>12, <2>1, <2>2, <2>3, <2>4
  <2>. QED
    BY <1>10, <2>5 DEF Near
<1>. QED
  BY <1>9, <1>11, <1>12

----------------------------------------------------------------------------
(* The two roundings                                                       *)

\* Numbers that make an element of zeros.
Vanishes(v, is_ho) == v.m = 0 \/ (~is_ho /\ Exponent(v) < AQUEOUS_EXP)

\* The power of ten that the first rounding multiplies with.
Shift(v, signif, is_ho) == Significant(v, signif, is_ho) - Exponent(v) - 1

LEMMA NonzeroIs ==
  ASSUME NEW v \in Numbers, v.m # 0
  PROVE  v \in Nonzero
BY DEF Numbers, Nonzero, Narrow, Power

\* An element of a fine key: the leading digits of the number, or no digits and
\* an exponent that is not zero, where they do not fit in front of the point.
LEMMA RoundIs ==
  ASSUME NEW v \in Numbers, NEW signif \in 1 .. 9, NEW is_ho \in BOOLEAN,
         ~Vanishes(v, is_ho), NEW p, p = Shift(v, signif, is_ho),
         NEW r, r = Round(v, signif, is_ho)
  PROVE  /\ v \in Nonzero /\ p \in Int
         /\ r = [sig |-> r.sig, exp |-> Exponent(v)]
         /\ Significant(v, signif, is_ho) \in 1 .. signif
         /\ DigitsLeft(v, p) = Significant(v, signif, is_ho)
         /\ Fits(v, signif) =>
              /\ r.sig = Truncate(v, p) /\ r.sig \in Narrow
              /\ Digits(r.sig) = Significant(v, signif, is_ho)
         /\ ~Fits(v, signif) => r.sig = 0 /\ r.exp > 0
         /\ r # None
<1>. DEFINE E == Exponent(v)
            S == Significant(v, signif, is_ho)
<1>1. v.m # 0 /\ (~is_ho => ~(E < -13)) /\ v \in Nonzero
  BY NonzeroIs DEF Vanishes, AQUEOUS_EXP
<1>2. E \in Int
  BY <1>1, DigitsLeftIs
<1>3. S = signif \/ (S = E + 14 /\ S < signif /\ S >= 1)
  BY <1>1, <1>2 DEF Significant, AQUEOUS_EXP
<1>4. S \in 1 .. signif /\ S \in 1 .. 9 /\ p = S - E - 1 /\ p \in Int
  BY <1>2, <1>3 DEF Shift
<1>5. DigitsLeft(v, p) = E + 1 + p
  BY <1>1, <1>4, DigitsLeftIs
<1>6. DigitsLeft(v, p) = S
  BY <1>2, <1>4, <1>5
<1>7. r = [sig |-> IF p < 0 THEN 0 ELSE Truncate(v, p), exp |-> E]
  BY <1>1, <1>4 DEF Round, AQUEOUS_EXP
<1>8. Fits(v, signif) <=> E < signif
  BY <1>1 DEF Fits
<1>9. E < signif <=> ~(p < 0)
  BY <1>2, <1>3, <1>4
<1>10. Truncate(v, p) \in Narrow /\ Digits(Truncate(v, p)) = S
  BY <1>1, <1>4, <1>6, CutDigits
<1>11. r # None
  <2>1. CASE p < 0
    <3>1. E > 0
      BY <1>2, <1>9, <2>1
    <3>. QED
      BY <1>7, <3>1 DEF None
  <2>2. CASE ~(p < 0)
    BY <1>7, <1>10, <2>2 DEF None, Narrow
  <2>. QED
    BY <2>1, <2>2
<1>12. ~Fits(v, signif) => r.sig = 0 /\ r.exp > 0
  BY <1>2, <1>7, <1>8, <1>9
<1>13. Fits(v, signif) => r.sig = Truncate(v, p) /\ r.sig \in Narrow /\ Digits(r.sig) = S
  BY <1>7, <1>8, <1>9, <1>10
<1>. QED
  BY <1>1, <1>4, <1>6, <1>7, <1>11, <1>12, <1>13

\* Numbers that make the same element of a fine key are near, if they fit.
LEMMA RoundNear ==
  ASSUME NEW a \in Numbers, NEW b \in Numbers,
         NEW signif \in 1 .. 9, NEW is_ho \in BOOLEAN,
         ~Vanishes(a, is_ho), ~Vanishes(b, is_ho), Fits(a, signif),
         Round(a, signif, is_ho) = Round(b, signif, is_ho)
  PROVE  Near(a, b, Significant(a, signif, is_ho))
<1>. DEFINE p == Shift(a, signif, is_ho)
            S == Significant(a, signif, is_ho)
<1>1. /\ a \in Nonzero /\ p \in Int /\ S \in 1 .. signif /\ DigitsLeft(a, p) = S
      /\ Round(a, signif, is_ho).exp = Exponent(a)
      /\ Round(a, signif, is_ho).sig = Truncate(a, p)
  BY RoundIs
<1>2. b \in Nonzero /\ Round(b, signif, is_ho).exp = Exponent(b)
  BY RoundIs
<1>3. Exponent(a) = Exponent(b)
  BY <1>1, <1>2
<1>4. Fits(b, signif) /\ Shift(b, signif, is_ho) = p
  <2>1. a.m # 0
    BY DEF Vanishes
  <2>. QED
    BY <1>3, <2>1 DEF Fits, Shift, Significant
<1>5. Round(b, signif, is_ho).sig = Truncate(b, p)
  BY <1>4, RoundIs
<1>6. Truncate(a, p) = Truncate(b, p) /\ DigitsLeft(a, p) \in 1 .. 9
  BY <1>1, <1>5
<1>7. S \in Int /\ S <= DigitsLeft(a, p)
  BY <1>1
<1>. QED
  BY <1>1, <1>2, <1>3, <1>6, <1>7, CutNear

\* The logarithm of an integer, rounded up, and where it is one less than the
\* number of digits.
LEMMA CeilLog10Is ==
  ASSUME NEW m \in Narrow
  PROVE  /\ CeilLog10(m) \in 0 .. 9
         /\ \/ CeilLog10(m) = Digits(m) /\ Power(Digits(m) - 1) < Abs(m)
            \/ CeilLog10(m) = Digits(m) - 1 /\ Power(Digits(m) - 1) = Abs(m)
<1>1. Digits(m) \in 1 .. 9 /\ Power(Digits(m) - 1) <= Abs(m)
  BY DigitsAre
<1>2. Abs(m) \in Nat /\ Power(Digits(m) - 1) \in Nat
  BY <1>1, AbsSign, PowerIs DEF Narrow
<1>3. CeilLog10(m) = IF Abs(m) = Power(Digits(m) - 1) THEN Digits(m) - 1 ELSE Digits(m)
  BY DEF CeilLog10, Power
<1>. QED
  BY <1>1, <1>2, <1>3

\* Something is left of an integer if it is greater than the smallest with as many
\* digits as are asked for.
LEMMA DiffIs ==
  ASSUME NEW m \in Narrow, NEW d \in 1 .. 9
  PROVE  /\ Diff(m, d) \in Int
         /\ Diff(m, d) >= 0 <=> ~(Abs(m) <= Power(d - 1))
<1>. DEFINE D == Digits(m)
            c == CeilLog10(m)
            a == Abs(m)
<1>1. /\ D \in 1 .. 9 /\ c \in 0 .. 9 /\ a < Power(D)
      /\ (c = D /\ Power(D - 1) < a) \/ (c = D - 1 /\ Power(D - 1) = a)
  BY DigitsAre, CeilLog10Is
<1>2. a \in Nat /\ \A k \in 0 .. 9 : Power(k) \in Nat
  BY AbsSign, PowerIs DEF Narrow
<1>3. \A k, l \in 0 .. 9 : k <= l => Power(k) <= Power(l)
  <2>. SUFFICES ASSUME NEW k \in 0 .. 9, NEW l \in 0 .. 9, k <= l
                PROVE  Power(k) <= Power(l)
    OBVIOUS
  <2>. QED
    BY <1>2, PowerGrows
<1>4. Diff(m, d) = c - d
  BY DEF Diff
<1>. HIDE DEF D, c, a
<1>5. CASE c >= d
  <2>1. c = D => Power(d - 1) <= Power(D - 1)
    BY <1>1, <1>3, <1>5
  <2>2. c = D - 1 => 10 * Power(d - 1) <= Power(D - 1)
    BY <1>1, <1>5, PowerGrows
  <2>3. Power(d - 1) \in Nat /\ Power(d - 1) >= 1 /\ Power(D - 1) \in Nat
    BY <1>1, PowerPositive
  <2>4. ~(a <= Power(d - 1))
    BY <1>1, <1>2, <2>1, <2>2, <2>3
  <2>. QED
    BY <1>1, <1>4, <1>5, <2>4 DEF a
<1>6. CASE c < d
  <2>1. c = D => Power(D) <= Power(d - 1)
    BY <1>1, <1>3, <1>6
  <2>2. c = D - 1 => Power(D - 1) <= Power(d - 1)
    BY <1>1, <1>3, <1>6
  <2>3. Power(d - 1) \in Nat /\ Power(D) \in Nat
    BY <1>1, <1>2
  <2>4. a <= Power(d - 1)
    BY <1>1, <1>2, <2>1, <2>2, <2>3
  <2>. QED
    BY <1>1, <1>4, <1>6, <2>4 DEF a
<1>. QED
  BY <1>1, <1>5, <1>6

\* The element is v cut behind its p-th digit after the point, which leaves at
\* least d digits, and more only of a power of ten.
CutOf(elem, v, d, p) ==
  /\ DigitsLeft(v, p) \in d .. 9
  /\ elem = [sig |-> Truncate(v, p), exp |-> Exponent(v)]
  /\ Truncate(v, p) \in Narrow
  /\ Digits(Truncate(v, p)) = DigitsLeft(v, p)
  /\ Abs(Truncate(v, p)) <= Power(d)

\* An element of a coarse key: nothing, or the number with fewer digits.
LEMMA CoarsenIs ==
  ASSUME NEW v \in Numbers, NEW signif \in 1 .. 9, NEW is_ho \in BOOLEAN,
         ~Vanishes(v, is_ho), NEW d \in 1 .. 9
  PROVE  \/ /\ Abs(Round(v, signif, is_ho).sig) <= Power(d - 1)
            /\ Coarsen(Round(v, signif, is_ho), d) = None
         \/ /\ ~(Abs(Round(v, signif, is_ho).sig) <= Power(d - 1))
            /\ \E p \in Int : CutOf(Coarsen(Round(v, signif, is_ho), d), v, d, p)
<1>r. PICK r : r = Round(v, signif, is_ho)
  OBVIOUS
<1>p. PICK p : p = Shift(v, signif, is_ho)
  OBVIOUS
<1>j. PICK j : j = Diff(r.sig, d)
  OBVIOUS
<1>. SUFFICES \/ Abs(r.sig) <= Power(d - 1) /\ Coarsen(r, d) = None
              \/ /\ ~(Abs(r.sig) <= Power(d - 1))
                 /\ p - j \in Int /\ CutOf(Coarsen(r, d), v, d, p - j)
  BY <1>r
<1>. DEFINE S == Significant(v, signif, is_ho)
<1>1. /\ v \in Nonzero /\ p \in Int /\ r = [sig |-> r.sig, exp |-> Exponent(v)]
      /\ S \in 1 .. signif /\ DigitsLeft(v, p) = S
      /\ Fits(v, signif) => r.sig = Truncate(v, p) /\ r.sig \in Narrow /\ Digits(r.sig) = S
      /\ ~Fits(v, signif) => r.sig = 0
  BY <1>r, <1>p, RoundIs
<1>2. Power(d - 1) \in Nat /\ Power(d) \in Nat
  BY PowerIs
<1>3. CASE ~Fits(v, signif)
  <2>1. r.sig = 0 /\ Abs(r.sig) <= Power(d - 1)
    BY <1>1, <1>2, <1>3 DEF Abs
  <2>. QED
    BY <2>1 DEF Coarsen
<1>4. CASE Fits(v, signif)
  <2>1. r.sig = Truncate(v, p) /\ r.sig \in Narrow /\ Digits(r.sig) = S /\ r.sig # 0
    BY <1>1, <1>4 DEF Narrow
  <2>2. j \in Int /\ (j >= 0 <=> ~(Abs(r.sig) <= Power(d - 1)))
    BY <1>j, <2>1, DiffIs
  <2>3. CASE Abs(r.sig) <= Power(d - 1)
    BY <1>j, <2>1, <2>2, <2>3 DEF Coarsen
  <2>4. CASE ~(Abs(r.sig) <= Power(d - 1))
    <3>1. j >= 0
      BY <2>2, <2>4
    <3>2. /\ CeilLog10(r.sig) \in 0 .. 9 /\ j = CeilLog10(r.sig) - d
          /\ \/ CeilLog10(r.sig) = S
             \/ CeilLog10(r.sig) = S - 1 /\ Abs(r.sig) = Power(S - 1)
      BY <1>j, <2>1, CeilLog10Is DEF Diff
    <3>3. j \in 0 .. 8 /\ S - j \in d .. 9 /\ S - j \in 1 .. 9 /\ p - j \in Int
          /\ S \in 1 .. 9
      BY <1>1, <3>1, <3>2
    <3>4. DigitsLeft(v, p - j) = S - j
      <4>1. DigitsLeft(v, p - j) = Exponent(v) + 1 + (p - j)
            /\ DigitsLeft(v, p) = Exponent(v) + 1 + p /\ Exponent(v) \in Int
        BY <1>1, <3>3, DigitsLeftIs
      <4>. QED
        BY <1>1, <3>3, <4>1
    <3>. DEFINE u == [m |-> r.sig, e |-> 0]
    <3>5. Truncate(u, -j) = Truncate(v, p - j)
      BY <1>1, <2>1, <3>3, CutTwice
    <3>6. Truncate(v, p - j) \in Narrow /\ Digits(Truncate(v, p - j)) = S - j
      BY <1>1, <3>3, <3>4, CutDigits
    <3>7. Coarsen(r, d) = [sig |-> Truncate(v, p - j), exp |-> Exponent(v)]
      <4>1. Truncate(v, p - j) # 0
        BY <3>6 DEF Narrow
      <4>2. r.exp = Exponent(v)
        BY <1>1
      <4>3. d # 0 /\ ~(Diff(r.sig, d) < 0)
        BY <1>j, <2>2, <3>1
      <4>. QED
        BY <1>j, <2>1, <3>5, <4>1, <4>2, <4>3 DEF Coarsen
    <3>8. Abs(Truncate(v, p - j)) <= Power(d)
      <4>. DEFINE T == Truncate(v, p - j)
      <4>1. CASE CeilLog10(r.sig) = S
        <5>1. Digits(T) = d
          BY <3>2, <3>3, <3>6, <4>1
        <5>2. Abs(T) < Power(d) /\ Abs(T) \in Nat
          BY <3>6, <5>1, DigitsAre, AbsSign DEF Narrow
        <5>. QED
          BY <1>2, <5>2
      <4>2. CASE CeilLog10(r.sig) = S - 1 /\ Abs(r.sig) = Power(S - 1)
        <5>1. S - 1 = d + j
          BY <3>2, <3>3, <4>2
        <5>2. Power(d) * Power(j) = Power(S - 1)
          BY <3>3, <5>1, PowerSum
        <5>3. u \in Nonzero /\ u.m = r.sig /\ u.e = 0
          BY <2>1 DEF Nonzero, Narrow
        <5>4. DigitsLeft(u, -j) = S - j /\ -j \in Int /\ u.e + (-j) = -j
          BY <2>1, <3>3, <5>3 DEF DigitsLeft
        <5>5. CASE j = 0
          <6>1. Truncate(u, -j) = u.m * Power(0)
            BY <3>3, <5>3, <5>4, <5>5, Cut
          <6>2. Truncate(u, -j) = r.sig
            BY <2>1, <5>3, <6>1, Powers DEF Narrow
          <6>. QED
            BY <1>2, <3>5, <4>2, <5>1, <5>5, <6>2
        <5>6. CASE j > 0
          <6>1. -(-j) = j
            BY <3>3
          <6>2. Truncate(u, -j) = Sign(r.sig) * (Power(S - 1) \div Power(j))
            BY <3>3, <4>2, <5>3, <5>4, <5>6, <6>1, Cut
          <6>3. Power(j) \in Nat \ {0} /\ Power(d) \in Nat \ {0}
            BY <3>3, PowerIs
          <6>4. Power(S - 1) \div Power(j) = Power(d)
            BY <5>2, <6>3, QuotientExact
          <6>5. Sign(r.sig) \in {-1, 1}
            BY <2>1, AbsSign DEF Narrow
          <6>6. Abs(T) = Power(d)
            BY <3>5, <6>2, <6>3, <6>4, <6>5, SignedIs
          <6>. QED
            BY <1>2, <6>6
        <5>. QED
          BY <3>3, <5>5, <5>6
      <4>. QED
        BY <3>2, <4>1, <4>2
    <3>. QED
      BY <2>4, <3>3, <3>4, <3>6, <3>7, <3>8 DEF CutOf
  <2>. QED
    BY <2>3, <2>4
<1>. QED
  BY <1>3, <1>4

----------------------------------------------------------------------------
(* The loop that makes the keys                                            *)

\* The element of a key that species n makes.
ElementOf(c, n) ==
  IF Skipped(setup.species[n], c.vals[n]) THEN None
  ELSE Round(Reduced(c, n), setup.signif[n], IsTotal(setup.species[n]))

\* The complete key of a cell.
KeyOf(c) ==
  [n \in 1 .. KeyLength(setup) |->
     IF n <= key_count THEN ElementOf(c, n)
     ELSE IF n = key_count + 1 THEN c.dt ELSE c.id]

\* The loop has made the elements of the species before i, and taken as many base
\* totals as there are totals among them.
LoopInv ==
  /\ setup \in Setups
  /\ cell \in Cells(setup)
  /\ i \in 1 .. key_count + 2
  /\ totals_i = 1 + Cardinality(TotalsOf(setup, Least(i - 1, key_count)))
  /\ vecFuzz = [n \in 1 .. KeyLength(setup) |->
                  IF n <= key_count /\ n < i THEN ElementOf(cell, n) ELSE None]

\* The keys of the cells looked up.
KeysInv ==
  /\ \A x \in keys :
       /\ x.cell \in Cells(setup)
       /\ x.fine = StoredKey(KeyOf(x.cell))
       /\ x.coarse = CoarseKey(KeyOf(x.cell))
  /\ IsFiniteSet(keys)
  /\ Cardinality(keys) <= MaxCells
  /\ i < key_count + 2 => Cardinality(keys) < MaxCells

IInv == LoopInv /\ KeysInv

\* What the set-up says of its species.
LEMMA SetupIs ==
  ASSUME setup \in Setups
  PROVE  /\ key_count \in Nat /\ DOMAIN setup.species = 1 .. key_count
         /\ \A n \in 1 .. key_count : setup.signif[n] \in 1 .. 9
         /\ \A k \in DOMAIN setup.key_indices :
              setup.key_indices[k] \in 1 .. key_count /\ setup.coarse[k] \in 0 .. 9
         /\ DOMAIN setup.key_indices = 1 .. Len(setup.key_indices)
         /\ Len(setup.key_indices) \in Nat
         /\ DOMAIN setup.base_totals = {1, 2}
         /\ \A k \in {1, 2} : setup.base_totals[k] \in Numbers
         /\ Cardinality(TotalsOf(setup, key_count)) <= 2
         /\ setup.dht_fuzz \in BOOLEAN /\ setup.has_het_ids \in BOOLEAN
         /\ KeyLength(setup) \in {key_count + 1, key_count + 2}
<1>1. /\ setup.species \in Seq(STRING) /\ setup.signif \in Seq(1 .. 9)
      /\ setup.coarse \in Seq(0 .. 9) /\ setup.key_indices \in Seq(Nat)
      /\ setup.base_totals \in Seq(Numbers)
      /\ setup.dht_fuzz \in BOOLEAN /\ setup.has_het_ids \in BOOLEAN
  BY KeysAssumption
<1>2. /\ Len(setup.signif) = Len(setup.species)
      /\ Len(setup.coarse) = Len(setup.key_indices)
      /\ \A k \in DOMAIN setup.key_indices : setup.key_indices[k] \in DOMAIN setup.species
      /\ Len(setup.base_totals) = 2
      /\ Cardinality(TotalsOf(setup, Len(setup.species))) <= 2
  BY KeysAssumption
<1>3. key_count \in Nat /\ DOMAIN setup.species = 1 .. key_count
  BY <1>1 DEF key_count
<1>4. \A n \in 1 .. key_count : setup.signif[n] \in 1 .. 9
  BY <1>1, <1>2 DEF key_count
<1>5. /\ DOMAIN setup.key_indices = 1 .. Len(setup.key_indices)
      /\ Len(setup.key_indices) \in Nat
      /\ \A k \in DOMAIN setup.key_indices : setup.coarse[k] \in 0 .. 9
  BY <1>1, <1>2
<1>6. DOMAIN setup.base_totals = {1, 2} /\ \A k \in {1, 2} : setup.base_totals[k] \in Numbers
  BY <1>1, <1>2
<1>7. KeyLength(setup) \in {key_count + 1, key_count + 2}
  <2>1. KeyLength(setup) = key_count + 1 + (IF setup.has_het_ids THEN 1 ELSE 0)
    BY DEF KeyLength, key_count
  <2>2. setup.has_het_ids => KeyLength(setup) = key_count + 1 + 1
    BY <2>1
  <2>3. ~setup.has_het_ids => KeyLength(setup) = key_count + 1 + 0
    BY <2>1
  <2>. QED
    BY <1>3, <2>2, <2>3
<1>. QED
  BY <1>1, <1>2, <1>3, <1>4, <1>5, <1>6, <1>7 DEF key_count

\* Counting the totals, one species after the other.
LEMMA TotalsStep ==
  ASSUME setup \in Setups, NEW n \in 1 .. key_count
  PROVE  /\ IsFiniteSet(TotalsOf(setup, n)) /\ IsFiniteSet(TotalsOf(setup, n - 1))
         /\ Cardinality(TotalsOf(setup, n - 1)) \in 0 .. 2
         /\ Cardinality(TotalsOf(setup, n)) \in 0 .. 2
         /\ IsTotal(setup.species[n]) =>
              Cardinality(TotalsOf(setup, n)) = Cardinality(TotalsOf(setup, n - 1)) + 1
         /\ ~IsTotal(setup.species[n]) =>
              Cardinality(TotalsOf(setup, n)) = Cardinality(TotalsOf(setup, n - 1))
<1>1. key_count \in Nat /\ Cardinality(TotalsOf(setup, key_count)) <= 2
  BY SetupIs
<1>2. \A k \in Nat : IsFiniteSet(TotalsOf(setup, k))
  <2>. SUFFICES ASSUME NEW k \in Nat PROVE IsFiniteSet(TotalsOf(setup, k))
    OBVIOUS
  <2>1. IsFiniteSet(1 .. k)
    BY FS_Interval
  <2>2. TotalsOf(setup, k) \subseteq 1 .. k
    BY DEF TotalsOf
  <2>. QED
    BY <2>1, <2>2, FS_Subset
<1>3. n \in Nat /\ n - 1 \in Nat /\ n <= key_count
  BY <1>1
<1>4. /\ TotalsOf(setup, n - 1) \subseteq TotalsOf(setup, key_count)
      /\ TotalsOf(setup, n) \subseteq TotalsOf(setup, key_count)
  BY <1>1, <1>3 DEF TotalsOf
<1>5. /\ Cardinality(TotalsOf(setup, n - 1)) \in Nat
      /\ Cardinality(TotalsOf(setup, n)) \in Nat
      /\ Cardinality(TotalsOf(setup, key_count)) \in Nat
      /\ Cardinality(TotalsOf(setup, n - 1)) <= Cardinality(TotalsOf(setup, key_count))
      /\ Cardinality(TotalsOf(setup, n)) <= Cardinality(TotalsOf(setup, key_count))
  BY <1>1, <1>2, <1>3, <1>4, FS_Subset, FS_CardinalityType
<1>6. TotalsOf(setup, n) = TotalsOf(setup, n - 1) \cup
                             (IF IsTotal(setup.species[n]) THEN {n} ELSE {})
  BY <1>3 DEF TotalsOf
<1>7. n \notin TotalsOf(setup, n - 1)
  BY <1>3 DEF TotalsOf
<1>8. IsTotal(setup.species[n]) =>
        Cardinality(TotalsOf(setup, n)) = Cardinality(TotalsOf(setup, n - 1)) + 1
  BY <1>2, <1>3, <1>6, <1>7, FS_AddElement
<1>9. ~IsTotal(setup.species[n]) => TotalsOf(setup, n) = TotalsOf(setup, n - 1)
  BY <1>6
<1>. QED
  BY <1>1, <1>2, <1>3, <1>5, <1>8, <1>9

\* What is rounded for an element is a number of the model.
LEMMA ReducedIs ==
  ASSUME setup \in Setups, NEW c \in Cells(setup), NEW n \in 1 .. key_count
  PROVE  /\ c.vals[n] \in Numbers /\ Reduced(c, n) \in Numbers
         /\ IsTotal(setup.species[n]) => c.vals[n].m # 0
<1>1. n \in DOMAIN setup.species
  BY SetupIs
<1>2. c.vals[n] \in ValuesOf(setup.species[n])
  BY <1>1 DEF Cells
<1>3. /\ c.vals[n] \in Numbers
      /\ IsTotal(setup.species[n]) =>
           /\ c.vals[n].m # 0
           /\ \A k \in DOMAIN setup.base_totals :
                Minus(c.vals[n], setup.base_totals[k]) \in Numbers
  BY <1>1, <1>2, ValuesAssumption
<1>4. IsTotal(setup.species[n]) =>
        Cardinality(TotalsOf(setup, n)) \in DOMAIN setup.base_totals
  <2>1. IsTotal(setup.species[n]) => Cardinality(TotalsOf(setup, n)) \in {1, 2}
    BY TotalsStep
  <2>. QED
    BY <2>1, SetupIs
<1>. QED
  BY <1>3, <1>4 DEF Reduced

\* A negligible value makes an element of zeros, and any other is rounded.
LEMMA ElementIs ==
  ASSUME setup \in Setups, NEW c \in Cells(setup), NEW n \in 1 .. key_count,
         ~(setup.species[n] = "custom" /\ ~setup.dht_fuzz)
  PROVE  /\ Negligible(Reduced(c, n), n) => ElementOf(c, n) = None
         /\ ~Negligible(Reduced(c, n), n) =>
              /\ ~Vanishes(Reduced(c, n), IsTotal(setup.species[n]))
              /\ ElementOf(c, n) =
                   Round(Reduced(c, n), setup.signif[n], IsTotal(setup.species[n]))
<1>. DEFINE v == Reduced(c, n)
            name == setup.species[n]
<1>1. CASE IsTotal(name)
  <2>1. c.vals[n].m # 0
    BY <1>1, ReducedIs
  <2>2. ~Skipped(name, c.vals[n])
    BY <1>1, <2>1 DEF Skipped, IsTotal, IsDefault
  <2>3. Negligible(v, n) <=> v.m = 0
    BY <1>1 DEF Negligible, IsTotal, IsDefault
  <2>4. ElementOf(c, n) = Round(v, setup.signif[n], IsTotal(name))
    BY <2>2 DEF ElementOf
  <2>. QED
    BY <1>1, <2>3, <2>4 DEF Vanishes, Round
<1>2. CASE ~IsTotal(name)
  <2>1. v = c.vals[n] /\ v \in Numbers /\ v.m \in Int
    BY <1>2, ReducedIs DEF Reduced, Numbers
  <2>2. CASE Skipped(name, v)
    <3>1. Negligible(v, n)
      BY <1>2, <2>1, <2>2 DEF Skipped, Negligible, Below
    <3>. QED
      BY <2>1, <2>2, <3>1 DEF ElementOf
  <2>3. CASE ~Skipped(name, v)
    <3>1. ElementOf(c, n) = Round(v, setup.signif[n], IsTotal(name))
      BY <2>1, <2>3 DEF ElementOf
    <3>2. Negligible(v, n) <=> Vanishes(v, IsTotal(name))
      BY <1>2, <2>1, <2>3 DEF Negligible, Vanishes, Skipped, Below
    <3>3. Vanishes(v, IsTotal(name)) => Round(v, setup.signif[n], IsTotal(name)) = None
      BY DEF Vanishes, Round
    <3>. QED
      BY <3>1, <3>2, <3>3
  <2>. QED
    BY <2>2, <2>3
<1>. QED
  BY <1>1, <1>2

\* An element has no more digits than the species asks for.
LEMMA ElementDigits ==
  ASSUME setup \in Setups, NEW c \in Cells(setup), NEW n \in 1 .. key_count
  PROVE  /\ ElementOf(c, n) \in [sig : Int, exp : Int]
         /\ Abs(ElementOf(c, n).sig) < Power(setup.signif[n])
<1>. DEFINE v == Reduced(c, n)
            signif == setup.signif[n]
            is_ho == IsTotal(setup.species[n])
<1>1. signif \in 1 .. 9 /\ is_ho \in BOOLEAN /\ v \in Numbers
  BY SetupIs, ReducedIs DEF IsTotal
<1>2. Power(signif) \in Nat \ {0}
  BY <1>1, PowerIs
<1>3. CASE ElementOf(c, n) = None
  BY <1>2, <1>3 DEF None, Abs
<1>4. CASE ElementOf(c, n) # None
  <2>1. ElementOf(c, n) = Round(v, signif, is_ho)
    BY <1>4 DEF ElementOf
  <2>2. ~Vanishes(v, is_ho)
    BY <1>4, <2>1 DEF Vanishes, Round
  <2>. DEFINE r == Round(v, signif, is_ho)
              S == Significant(v, signif, is_ho)
  <2>3. /\ v \in Nonzero /\ r = [sig |-> r.sig, exp |-> Exponent(v)]
        /\ S \in 1 .. signif
        /\ Fits(v, signif) => r.sig \in Narrow /\ Digits(r.sig) = S
        /\ ~Fits(v, signif) => r.sig = 0
    BY <1>1, <2>2, RoundIs
  <2>4. Exponent(v) \in Int
    BY <2>3, DigitsLeftIs
  <2>5. CASE Fits(v, signif)
    <3>1. r.sig \in Int /\ Abs(r.sig) < Power(S) /\ Abs(r.sig) \in Nat
      BY <2>3, <2>5, DigitsAre, AbsSign DEF Narrow
    <3>2. Power(S) \in Nat /\ Power(S) <= Power(signif)
      <4>1. S \in 0 .. 9 /\ signif \in 0 .. 9 /\ (S = signif \/ S < signif)
        BY <1>1, <2>3
      <4>2. Power(S) \in Nat
        BY <4>1, PowerIs
      <4>. QED
        BY <1>2, <4>1, <4>2, PowerGrows
    <3>. QED
      BY <1>2, <2>1, <2>3, <2>4, <3>1, <3>2
  <2>6. CASE ~Fits(v, signif)
    BY <1>2, <2>1, <2>3, <2>4, <2>6 DEF Abs
  <2>. QED
    BY <2>5, <2>6
<1>. QED
  BY <1>3, <1>4

\* What the tables get of a key.
LEMMA KeyIs ==
  ASSUME setup \in Setups, NEW c \in Cells(setup)
  PROVE  /\ \A n \in 1 .. key_count : StoredKey(KeyOf(c))[n] = ElementOf(c, n)
         /\ StoredKey(KeyOf(c))[key_count + 1] = c.dt
         /\ \A k \in DOMAIN setup.key_indices :
              CoarseKey(KeyOf(c))[k] =
                Coarsen(ElementOf(c, setup.key_indices[k]), setup.coarse[k])
<1>. DEFINE K == KeyOf(c)
            Elems == [sig : Int, exp : Int] \cup Steps \cup IDs
<1>1. /\ key_count \in Nat /\ KeyLength(setup) \in Nat
      /\ KeyLength(setup) >= key_count + 1
      /\ KeyLength(setup) <= key_count + 2
  BY SetupIs
<1>2. c.dt \in Steps /\ c.id \in IDs
  BY DEF Cells
<1>3. /\ DOMAIN K = 1 .. KeyLength(setup)
      /\ \A n \in 1 .. key_count : K[n] = ElementOf(c, n)
      /\ K[key_count + 1] = c.dt
  BY <1>1 DEF KeyOf
<1>4. K \in Seq(Elems) /\ Len(K) = KeyLength(setup)
  <2>1. \A n \in 1 .. KeyLength(setup) : K[n] \in Elems
    <3>. SUFFICES ASSUME NEW n \in 1 .. KeyLength(setup) PROVE K[n] \in Elems
      OBVIOUS
    <3>1. CASE n <= key_count
      <4>1. n \in 1 .. key_count
        BY <1>1, <3>1
      <4>. QED
        BY <1>3, <4>1, ElementDigits
    <3>2. CASE ~(n <= key_count)
      BY <1>2, <3>2 DEF KeyOf
    <3>. QED
      BY <3>1, <3>2
  <2>2. K = [n \in 1 .. KeyLength(setup) |-> K[n]]
    BY DEF KeyOf
  <2>. QED
    BY <1>1, <2>1, <2>2
<1>. HIDE DEF K, Elems
<1>5. /\ SubSeq(K, 1, key_count + 1) \in Seq(Elems)
      /\ \A n \in 1 .. key_count + 1 : SubSeq(K, 1, key_count + 1)[n] = K[n]
  <2>1. /\ 1 \in 1 .. Len(K) + 1 /\ key_count + 1 \in 1 - 1 .. Len(K)
    BY <1>1, <1>4
  <2>. QED
    BY <1>1, <1>4, <2>1, SubSeqProperties
<1>6. /\ \A n \in 1 .. key_count : StoredKey(K)[n] = ElementOf(c, n)
      /\ StoredKey(K)[key_count + 1] = c.dt
  BY <1>1, <1>3, <1>5 DEF StoredKey
<1>7. ASSUME NEW k \in DOMAIN setup.key_indices
      PROVE  CoarseKey(K)[k] = Coarsen(ElementOf(c, setup.key_indices[k]), setup.coarse[k])
  <2>. DEFINE f == [n \in DOMAIN setup.key_indices |->
                      Coarsen(K[setup.key_indices[n]], setup.coarse[n])]
              T == {f[n] : n \in DOMAIN setup.key_indices} \cup {Last(K)}
  <2>1. /\ DOMAIN setup.key_indices = 1 .. Len(setup.key_indices)
        /\ Len(setup.key_indices) \in Nat
        /\ setup.key_indices[k] \in 1 .. key_count
    BY SetupIs
  <2>2. f \in [1 .. Len(setup.key_indices) -> T]
    BY <2>1
  <2>3. f \in Seq(T) /\ Len(f) = Len(setup.key_indices) /\ Last(K) \in T
    BY <2>1, <2>2
  <2>4. f[k] = Coarsen(K[setup.key_indices[k]], setup.coarse[k])
    OBVIOUS
  <2>5. CoarseKey(K) = Append(f, Last(K))
    BY DEF CoarseKey
  <2>. HIDE DEF f, T
  <2>6. Append(f, Last(K))[k] = f[k]
    BY <2>1, <2>3, AppendProperties
  <2>. QED
    BY <1>3, <2>1, <2>4, <2>5, <2>6
<1>. QED
  BY <1>6, <1>7 DEF K

----------------------------------------------------------------------------
(* The invariant                                                           *)

LEMMA InitInv == Init => IInv
<1>. SUFFICES ASSUME Init PROVE IInv
  OBVIOUS
<1>1. /\ setup \in Setups /\ cell \in Cells(setup) /\ i = 1 /\ totals_i = 1
      /\ vecFuzz = NoKey /\ keys = {}
  BY DEF Init
<1>2. key_count \in Nat /\ KeyLength(setup) \in {key_count + 1, key_count + 2}
  BY <1>1, SetupIs
<1>3. TotalsOf(setup, Least(0, key_count)) = {}
  <2>1. Least(0, key_count) = 0
    BY <1>2 DEF Least
  <2>. QED
    BY <2>1 DEF TotalsOf
<1>4. totals_i = 1 + Cardinality(TotalsOf(setup, Least(i - 1, key_count)))
  BY <1>1, <1>3, FS_EmptySet
<1>5. vecFuzz = [n \in 1 .. KeyLength(setup) |->
                   IF n <= key_count /\ n < i THEN ElementOf(cell, n) ELSE None]
  BY <1>1, <1>2 DEF NoKey
<1>6. LoopInv
  BY <1>1, <1>2, <1>4, <1>5 DEF LoopInv
<1>7. KeysInv
  BY <1>1, KeysAssumption, FS_EmptySet DEF KeysInv
<1>. QED
  BY <1>6, <1>7 DEF IInv

\* Keys are read in the next state as they are in this one.
LEMMA SameKeys ==
  ASSUME setup' = setup
  PROVE  /\ key_count' = key_count
         /\ \A c : KeyOf(c)' = KeyOf(c)
         /\ \A k : StoredKey(k)' = StoredKey(k) /\ CoarseKey(k)' = CoarseKey(k)
         /\ \A c : StoredKey(KeyOf(c))' = StoredKey(KeyOf(c))
         /\ \A c : CoarseKey(KeyOf(c))' = CoarseKey(KeyOf(c))
<1>1. key_count' = key_count
  BY DEF key_count
<1>2. \A c, n : ElementOf(c, n)' = ElementOf(c, n)
  BY DEF ElementOf, Skipped, Reduced
<1>3. \A c : KeyOf(c)' = KeyOf(c)
  BY <1>1, <1>2 DEF KeyOf
<1>. QED
  BY <1>1, <1>3 DEF StoredKey, CoarseKey

LEMMA SameLoop ==
  ASSUME setup' = setup, setup \in Setups, cell' \in Cells(setup),
         i' \in 1 .. key_count + 2,
         totals_i' = 1 + Cardinality(TotalsOf(setup, Least(i' - 1, key_count))),
         vecFuzz' = [n \in 1 .. KeyLength(setup) |->
                       IF n <= key_count /\ n < i' THEN ElementOf(cell', n) ELSE None]
  PROVE  LoopInv'
<1>1. key_count' = key_count
  BY DEF key_count
<1>2. \A n : ElementOf(cell, n)' = ElementOf(cell', n)
  BY DEF ElementOf, Skipped, Reduced
<1>3. vecFuzz' = [n \in 1 .. KeyLength(setup') |->
                    IF n <= key_count' /\ n < i' THEN ElementOf(cell, n)' ELSE None]
  BY <1>1, <1>2
<1>4. totals_i' = 1 + Cardinality(TotalsOf(setup', Least(i' - 1, key_count')))
  BY <1>1
<1>5. setup' \in Setups /\ cell' \in Cells(setup)' /\ i' \in 1 .. key_count' + 2
  BY <1>1 DEF Cells
<1>. QED
  BY <1>3, <1>4, <1>5 DEF LoopInv

\* One turn of the loop makes the element of its species.
LEMMA ElementInv == IInv /\ Element => IInv'
<1>. SUFFICES ASSUME IInv, Element PROVE IInv'
  OBVIOUS
<1>1. /\ setup \in Setups /\ cell \in Cells(setup) /\ i \in 1 .. key_count
      /\ i' = i + 1 /\ setup' = setup /\ cell' = cell /\ keys' = keys
      /\ totals_i = 1 + Cardinality(TotalsOf(setup, Least(i - 1, key_count)))
      /\ vecFuzz = [n \in 1 .. KeyLength(setup) |->
                      IF n <= key_count /\ n < i THEN ElementOf(cell, n) ELSE None]
  <2>1. setup \in Setups /\ i \in 1 .. key_count + 2
    BY DEF IInv, LoopInv
  <2>2. key_count \in Nat
    BY <2>1, SetupIs
  <2>. QED
    BY <2>1, <2>2 DEF IInv, LoopInv, Element
<1>2. key_count \in Nat /\ KeyLength(setup) \in {key_count + 1, key_count + 2}
  BY <1>1, SetupIs
<1>3. key_count' = key_count
  BY <1>1 DEF key_count
<1>. DEFINE name == setup.species[i]
            v == cell.vals[i]
            base == IF IsTotal(name) THEN setup.base_totals[totals_i]
                                     ELSE [m |-> 0, e |-> v.e]
<1>4. /\ Least(i - 1, key_count) = i - 1 /\ Least(i' - 1, key_count) = i
      /\ v \in Numbers
      /\ IsTotal(name) => v.m # 0
      /\ Cardinality(TotalsOf(setup, i - 1)) \in 0 .. 2
      /\ IsTotal(name) =>
           Cardinality(TotalsOf(setup, i)) = Cardinality(TotalsOf(setup, i - 1)) + 1
      /\ ~IsTotal(name) =>
           Cardinality(TotalsOf(setup, i)) = Cardinality(TotalsOf(setup, i - 1))
  <2>1. Least(i - 1, key_count) = i - 1 /\ Least(i' - 1, key_count) = i
    BY <1>1, <1>2 DEF Least
  <2>2. v \in Numbers /\ (IsTotal(name) => v.m # 0)
    BY <1>1, ReducedIs
  <2>. QED
    BY <1>1, <2>1, <2>2, TotalsStep
<1>5. totals_i = 1 + Cardinality(TotalsOf(setup, i - 1))
  BY <1>1, <1>4
<1>6. IsTotal(name) => totals_i = Cardinality(TotalsOf(setup, i))
  BY <1>4, <1>5
<1>7. Minus(v, base) = Reduced(cell, i)
  <2>1. CASE IsTotal(name)
    BY <1>6, <2>1 DEF Reduced
  <2>2. CASE ~IsTotal(name)
    <3>1. /\ base = [m |-> 0, e |-> v.e] /\ v.m \in Int /\ v.e \in Int
          /\ v = [m |-> v.m, e |-> v.e]
      BY <1>4, <2>2 DEF Numbers
    <3>2. /\ Least(v.e, base.e) = v.e /\ base.m = 0
          /\ v.e - v.e = 0 /\ base.e - v.e = 0
      BY <3>1 DEF Least
    <3>. HIDE DEF base, v
    <3>3. Minus(v, base) = [m |-> v.m * 10^0 - 0 * 10^0, e |-> v.e]
      BY <3>2, Zenon DEF Minus
    <3>4. 10^0 = 1
      BY Powers DEF Power
    <3>5. Minus(v, base) = v
      BY <3>1, <3>3, <3>4
    <3>. QED
      BY <2>2, <3>5 DEF Reduced, v
  <2>. QED
    BY <2>1, <2>2
<1>. HIDE DEF base
<1>8. /\ totals_i' = 1 + Cardinality(TotalsOf(setup, i))
      /\ vecFuzz' = [vecFuzz EXCEPT ![i] = ElementOf(cell, i)]
  <2>1. CASE Skipped(name, v)
    <3>1. vecFuzz' = vecFuzz /\ totals_i' = totals_i
      BY <2>1 DEF Element
    <3>2. ~IsTotal(name)
      BY <1>4, <2>1 DEF Skipped, IsTotal, IsDefault
    <3>3. ElementOf(cell, i) = None
      BY <2>1 DEF ElementOf
    <3>4. vecFuzz[i] = None
      BY <1>1, <1>2
    <3>5. vecFuzz' = [vecFuzz EXCEPT ![i] = ElementOf(cell, i)]
      BY <1>1, <3>1, <3>3, <3>4
    <3>. QED
      BY <1>4, <1>5, <3>1, <3>2, <3>5
  <2>2. CASE ~Skipped(name, v)
    <3>1. /\ vecFuzz' = [vecFuzz EXCEPT ![i] =
                           Round(Minus(v, base), setup.signif[i], IsTotal(name))]
          /\ totals_i' = IF IsTotal(name) THEN totals_i + 1 ELSE totals_i
      BY <2>2 DEF Element, base
    <3>2. ElementOf(cell, i) = Round(Minus(v, base), setup.signif[i], IsTotal(name))
      BY <1>7, <2>2 DEF ElementOf
    <3>3. totals_i' = 1 + Cardinality(TotalsOf(setup, i))
      BY <1>4, <1>5, <3>1
    <3>. QED
      BY <3>1, <3>2, <3>3
  <2>. QED
    BY <2>1, <2>2
<1>9. vecFuzz' = [n \in 1 .. KeyLength(setup) |->
                    IF n <= key_count /\ n < i' THEN ElementOf(cell, n) ELSE None]
  <2>1. \A n \in 1 .. KeyLength(setup) :
          n # i => (n <= key_count /\ n < i <=> n <= key_count /\ n < i')
    BY <1>1, <1>2
  <2>2. i <= key_count /\ i < i'
    BY <1>1, <1>2
  <2>. QED
    BY <1>1, <1>8, <2>1, <2>2
<1>10. totals_i' = 1 + Cardinality(TotalsOf(setup, Least(i' - 1, key_count)))
  BY <1>4, <1>8
<1>11. i' \in 1 .. key_count + 2
  BY <1>1, <1>2
<1>12. LoopInv'
  BY <1>1, <1>9, <1>10, <1>11, SameLoop
<1>13. KeysInv'
  BY <1>1, <1>2, <1>3, SameKeys DEF IInv, KeysInv
<1>. QED
  BY <1>12, <1>13 DEF IInv

LEMMA FinishInv == IInv /\ Finish => IInv'
<1>. SUFFICES ASSUME IInv, Finish PROVE IInv'
  OBVIOUS
<1>1. /\ setup \in Setups /\ cell \in Cells(setup) /\ i = key_count + 1
      /\ i' = i + 1 /\ setup' = setup /\ cell' = cell
      /\ totals_i' = totals_i /\ vecFuzz' = vecFuzz
      /\ totals_i = 1 + Cardinality(TotalsOf(setup, Least(i - 1, key_count)))
      /\ vecFuzz = [n \in 1 .. KeyLength(setup) |->
                      IF n <= key_count /\ n < i THEN ElementOf(cell, n) ELSE None]
      /\ keys' = keys \cup {[cell |-> cell, fine |-> StoredKey(Complete),
                             coarse |-> CoarseKey(Complete)]}
  BY DEF IInv, LoopInv, Finish
<1>2. key_count \in Nat /\ KeyLength(setup) \in {key_count + 1, key_count + 2}
  BY <1>1, SetupIs
<1>3. Least(i - 1, key_count) = key_count /\ Least(i' - 1, key_count) = key_count
  BY <1>1, <1>2 DEF Least
<1>4. vecFuzz = [n \in 1 .. KeyLength(setup) |->
                   IF n <= key_count /\ n < i' THEN ElementOf(cell, n) ELSE None]
  <2>1. \A n \in 1 .. KeyLength(setup) :
          n <= key_count /\ n < i <=> n <= key_count /\ n < i'
    BY <1>1, <1>2
  <2>. QED
    BY <1>1, <2>1
<1>5. LoopInv'
  BY <1>1, <1>2, <1>3, <1>4, SameLoop
<1>6. Complete = KeyOf(cell)
  <2>. DEFINE L == KeyLength(setup)
              timed == [vecFuzz EXCEPT ![key_count + 1] = cell.dt]
              full == [timed EXCEPT ![key_count + 2] = cell.id]
  <2>1. /\ L = key_count + 1 + (IF setup.has_het_ids THEN 1 ELSE 0)
        /\ setup.has_het_ids \in BOOLEAN
    BY <1>1, SetupIs DEF KeyLength, key_count
  <2>2. \A n \in 1 .. L : n <= key_count \/ n = key_count + 1 \/ n = key_count + 2
    BY <1>2
  <2>3. DOMAIN vecFuzz = 1 .. L /\ vecFuzz = [n \in 1 .. L |-> vecFuzz[n]]
    BY <1>1
  <2>4. ASSUME NEW n \in 1 .. L, n <= key_count PROVE vecFuzz[n] = ElementOf(cell, n)
    BY <1>1, <1>2, <2>4
  <2>5. key_count + 1 \in 1 .. L
    BY <1>2
  <2>. HIDE DEF L
  <2>6. timed = [n \in 1 .. L |-> IF n = key_count + 1 THEN cell.dt ELSE vecFuzz[n]]
    BY <2>3, <2>5
  <2>7. full = [n \in 1 .. L |-> IF n = key_count + 2 THEN cell.id ELSE timed[n]]
    BY <2>6
  <2>. HIDE DEF timed, full
  <2>8. ASSUME NEW n \in 1 .. L
        PROVE  timed[n] = IF n <= key_count THEN ElementOf(cell, n)
                          ELSE IF n = key_count + 1 THEN cell.dt ELSE vecFuzz[n]
    BY <1>2, <2>4, <2>6
  <2>9. CASE setup.has_het_ids
    <3>1. \A n \in 1 .. L :
            full[n] = IF n <= key_count THEN ElementOf(cell, n)
                      ELSE IF n = key_count + 1 THEN cell.dt ELSE cell.id
      BY <1>2, <2>2, <2>7, <2>8
    <3>2. full = [n \in 1 .. L |-> full[n]]
      BY <2>7
    <3>3. full = KeyOf(cell)
      BY <3>1, <3>2 DEF KeyOf, L
    <3>. QED
      BY <2>9, <3>3 DEF Complete, full, timed
  <2>10. CASE ~setup.has_het_ids
    <3>1. L = key_count + 1
      BY <1>2, <2>1, <2>10
    <3>2. \A n \in 1 .. L :
            timed[n] = IF n <= key_count THEN ElementOf(cell, n)
                       ELSE IF n = key_count + 1 THEN cell.dt ELSE cell.id
      BY <1>2, <2>8, <3>1
    <3>3. timed = [n \in 1 .. L |-> timed[n]]
      BY <2>6
    <3>4. timed = KeyOf(cell)
      BY <3>2, <3>3 DEF KeyOf, L
    <3>. QED
      BY <2>10, <3>4 DEF Complete, timed
  <2>. QED
    BY <2>1, <2>9, <2>10
<1>7. KeysInv'
  <2>. DEFINE new == [cell |-> cell, fine |-> StoredKey(KeyOf(cell)),
                      coarse |-> CoarseKey(KeyOf(cell))]
  <2>1. keys' = keys \cup {new}
    BY <1>1, <1>6
  <2>2. \A x \in keys' : /\ x.cell \in Cells(setup)
                         /\ x.fine = StoredKey(KeyOf(x.cell))
                         /\ x.coarse = CoarseKey(KeyOf(x.cell))
    <3>1. \A x \in keys : /\ x.cell \in Cells(setup)
                          /\ x.fine = StoredKey(KeyOf(x.cell))
                          /\ x.coarse = CoarseKey(KeyOf(x.cell))
      BY DEF IInv, KeysInv
    <3>2. new.cell = cell /\ new.fine = StoredKey(KeyOf(cell))
          /\ new.coarse = CoarseKey(KeyOf(cell))
      OBVIOUS
    <3>. HIDE DEF new
    <3>. QED
      BY <1>1, <2>1, <3>1, <3>2
  <2>. HIDE DEF new
  <2>3. IsFiniteSet(keys) /\ Cardinality(keys) \in Nat /\ Cardinality(keys) < MaxCells
    <3>1. IsFiniteSet(keys) /\ (i < key_count + 2 => Cardinality(keys) < MaxCells)
      BY DEF IInv, KeysInv
    <3>. QED
      BY <1>1, <1>2, <3>1, FS_CardinalityType
  <2>4. IsFiniteSet(keys') /\ Cardinality(keys') <= MaxCells
    <3>1. /\ IsFiniteSet(keys \cup {new})
          /\ \/ Cardinality(keys \cup {new}) = Cardinality(keys)
             \/ Cardinality(keys \cup {new}) = Cardinality(keys) + 1
      BY <2>3, FS_AddElement
    <3>. QED
      BY <2>1, <2>3, <3>1, KeysAssumption
  <2>5. ~(i' < key_count + 2)
    BY <1>1, <1>2
  <2>6. key_count' = key_count
    BY <1>1, SameKeys
  <2>7. \A x \in keys' : /\ x.cell \in Cells(setup')
                         /\ x.fine = StoredKey(KeyOf(x.cell))'
                         /\ x.coarse = CoarseKey(KeyOf(x.cell))'
    BY <1>1, <2>2, SameKeys
  <2>. QED
    BY <2>4, <2>5, <2>6, <2>7 DEF KeysInv
<1>. QED
  BY <1>5, <1>7 DEF IInv

LEMMA NextCellInv == IInv /\ NextCell => IInv'
<1>. SUFFICES ASSUME IInv, NextCell PROVE IInv'
  OBVIOUS
<1>1. /\ setup \in Setups /\ setup' = setup /\ cell' \in Cells(setup)
      /\ i' = 1 /\ totals_i' = 1 /\ vecFuzz' = NoKey /\ keys' = keys
      /\ Cardinality(keys) < MaxCells
  BY DEF IInv, LoopInv, NextCell
<1>2. key_count \in Nat /\ KeyLength(setup) \in {key_count + 1, key_count + 2}
  BY <1>1, SetupIs
<1>3. Cardinality(TotalsOf(setup, Least(i' - 1, key_count))) = 0
  <2>1. Least(i' - 1, key_count) = 0
    BY <1>1, <1>2 DEF Least
  <2>2. TotalsOf(setup, 0) = {}
    BY DEF TotalsOf
  <2>. QED
    BY <2>1, <2>2, FS_EmptySet
<1>4. vecFuzz' = [n \in 1 .. KeyLength(setup) |->
                    IF n <= key_count /\ n < i' THEN ElementOf(cell', n) ELSE None]
  BY <1>1, <1>2 DEF NoKey
<1>5. LoopInv'
  BY <1>1, <1>2, <1>3, <1>4, SameLoop
<1>6. KeysInv'
  BY <1>1, SameKeys DEF IInv, KeysInv
<1>. QED
  BY <1>5, <1>6 DEF IInv

LEMMA NextInv == IInv /\ [Next]_vars => IInv'
<1>1. ASSUME IInv, UNCHANGED vars PROVE IInv'
  <2>1. LoopInv'
    BY <1>1, SameLoop DEF IInv, LoopInv, vars
  <2>2. KeysInv'
    BY <1>1, SameKeys DEF IInv, KeysInv, vars
  <2>. QED
    BY <2>1, <2>2 DEF IInv
<1>. QED
  BY <1>1, ElementInv, FinishInv, NextCellInv DEF Next

\* The state of the loop and the keys made so far stay what the cells say they are.
THEOREM Invariant == Spec => []IInv
BY InitInv, NextInv, PTL DEF Spec

----------------------------------------------------------------------------
(* What keys have in common                                                *)

\* A coarse element has no more digits than asked for, or one more if it is a
\* power of ten.
LEMMA CoarseDigits ==
  ASSUME setup \in Setups, NEW c \in Cells(setup), NEW n \in 1 .. key_count,
         NEW d \in 0 .. 9
  PROVE  Abs(Coarsen(ElementOf(c, n), d).sig) <= Power(d)
<1>. DEFINE v == Reduced(c, n)
            signif == setup.signif[n]
            is_ho == IsTotal(setup.species[n])
            r == Round(v, signif, is_ho)
<1>1. signif \in 1 .. 9 /\ is_ho \in BOOLEAN /\ v \in Numbers
  BY SetupIs, ReducedIs DEF IsTotal
<1>2. Power(d) \in Nat /\ Power(d) >= 1 /\ Abs(0) = 0 /\ Abs(1) = 1
  BY PowerPositive DEF Abs
<1>3. CASE d = 0
  BY <1>2, <1>3 DEF Coarsen
<1>4. CASE d # 0 /\ ElementOf(c, n) = None
  BY <1>2, <1>4 DEF Coarsen, None
<1>5. CASE d # 0 /\ ElementOf(c, n) # None
  <2>1. ElementOf(c, n) = r
    BY <1>5 DEF ElementOf
  <2>2. ~Vanishes(v, is_ho)
    BY <1>5, <2>1 DEF Vanishes, Round
  <2>3. d \in 1 .. 9
    BY <1>5
  <2>. HIDE DEF v, signif, is_ho
  <2>4. \/ Coarsen(r, d) = None
        \/ \E T : Coarsen(r, d) = [sig |-> T, exp |-> Exponent(v)] /\ Abs(T) <= Power(d)
    BY <1>1, <2>2, <2>3, CoarsenIs DEF CutOf
  <2>. HIDE DEF r
  <2>. QED
    BY <1>2, <2>1, <2>4 DEF None
<1>. QED
  BY <1>3, <1>4, <1>5

\* The elements of keys have no more digits than they should, the loop stays
\* within the key and the base totals, and no more cells are looked up than the
\* bound allows.
THEOREM TypesKept == Spec => []TypeOK
<1>1. ASSUME IInv PROVE TypeOK
  <2>1. /\ setup \in Setups /\ cell \in Cells(setup) /\ i \in 1 .. key_count + 2
        /\ totals_i = 1 + Cardinality(TotalsOf(setup, Least(i - 1, key_count)))
        /\ vecFuzz = [n \in 1 .. KeyLength(setup) |->
                        IF n <= key_count /\ n < i THEN ElementOf(cell, n) ELSE None]
        /\ \A x \in keys : x.cell \in Cells(setup) /\ x.coarse = CoarseKey(KeyOf(x.cell))
        /\ Cardinality(keys) <= MaxCells
    BY <1>1 DEF IInv, LoopInv, KeysInv
  <2>2. /\ key_count \in Nat /\ KeyLength(setup) \in {key_count + 1, key_count + 2}
        /\ \A n \in 1 .. key_count : setup.signif[n] \in 1 .. 9
    BY <2>1, SetupIs
  <2>3. totals_i \in 1 .. 3
    <3>. DEFINE k == Least(i - 1, key_count)
    <3>1. k \in 0 .. key_count
      BY <2>1, <2>2 DEF Least
    <3>2. CASE k = 0
      <4>1. TotalsOf(setup, k) = {}
        BY <3>2 DEF TotalsOf
      <4>2. Cardinality(TotalsOf(setup, k)) = 0
        BY <4>1, FS_EmptySet
      <4>. QED
        BY <2>1, <4>2
    <3>3. CASE k \in 1 .. key_count
      <4>1. Cardinality(TotalsOf(setup, k)) \in 0 .. 2
        BY <2>1, <3>3, TotalsStep
      <4>. QED
        BY <2>1, <4>1
    <3>. QED
      BY <2>2, <3>1, <3>2, <3>3
  <2>4. ASSUME NEW n \in 1 .. key_count PROVE Abs(vecFuzz[n].sig) < 10^setup.signif[n]
    <3>1. Abs(ElementOf(cell, n).sig) < Power(setup.signif[n])
      BY <2>1, ElementDigits
    <3>2. Abs(None.sig) < Power(setup.signif[n])
      BY <2>2, PowerPositive DEF None, Abs
    <3>3. vecFuzz[n] = ElementOf(cell, n) \/ vecFuzz[n] = None
      BY <2>1, <2>2
    <3>. QED
      BY <3>1, <3>2, <3>3 DEF Power
  <2>5. ASSUME NEW x \in keys, NEW n \in DOMAIN setup.key_indices
        PROVE  Abs(x.coarse[n].sig) <= 10^setup.coarse[n]
    <3>1. setup.key_indices[n] \in 1 .. key_count /\ setup.coarse[n] \in 0 .. 9
      BY <2>1, SetupIs
    <3>2. x.coarse[n] = Coarsen(ElementOf(x.cell, setup.key_indices[n]), setup.coarse[n])
      BY <2>1, KeyIs
    <3>3. Abs(x.coarse[n].sig) <= Power(setup.coarse[n])
      BY <2>1, <3>1, <3>2, CoarseDigits
    <3>. QED
      BY <3>3 DEF Power
  <2>6. DOMAIN vecFuzz = 1 .. KeyLength(setup)
    BY <2>1
  <2>. QED
    BY <2>1, <2>3, <2>4, <2>5, <2>6 DEF TypeOK
<1>. QED
  BY <1>1, Invariant, PTL

\* Cells that share a result of the main table have the same time step, and the
\* same significant digits of each key species that fits.
THEOREM SameKeyIsClose == Spec => []SameKeyClose
<1>1. ASSUME IInv PROVE SameKeyClose
  <2>. SUFFICES ASSUME NEW x \in keys, NEW y \in keys, x.fine = y.fine
                PROVE  /\ x.cell.dt = y.cell.dt
                       /\ \A n \in 1 .. key_count :
                            LET a == Reduced(x.cell, n)
                                b == Reduced(y.cell, n)
                            IN  \/ setup.species[n] = "custom" /\ ~setup.dht_fuzz
                                \/ Negligible(a, n) /\ Negligible(b, n)
                                \/ ~Fits(a, setup.signif[n])
                                \/ /\ ~Negligible(a, n) /\ ~Negligible(b, n)
                                   /\ Near(a, b, Significant(a, setup.signif[n],
                                                             IsTotal(setup.species[n])))
    BY DEF SameKeyClose
  <2>1. /\ setup \in Setups
        /\ x.cell \in Cells(setup) /\ x.fine = StoredKey(KeyOf(x.cell))
        /\ y.cell \in Cells(setup) /\ y.fine = StoredKey(KeyOf(y.cell))
    BY <1>1 DEF IInv, LoopInv, KeysInv
  <2>2. x.cell.dt = y.cell.dt
    <3>1. StoredKey(KeyOf(x.cell))[key_count + 1] = x.cell.dt
      BY <2>1, KeyIs
    <3>2. StoredKey(KeyOf(y.cell))[key_count + 1] = y.cell.dt
      BY <2>1, KeyIs
    <3>. QED
      BY <2>1, <3>1, <3>2
  <2>3. ASSUME NEW n \in 1 .. key_count,
               ~(setup.species[n] = "custom" /\ ~setup.dht_fuzz),
               Fits(Reduced(x.cell, n), setup.signif[n])
        PROVE  LET a == Reduced(x.cell, n)
                   b == Reduced(y.cell, n)
               IN  \/ Negligible(a, n) /\ Negligible(b, n)
                   \/ /\ ~Negligible(a, n) /\ ~Negligible(b, n)
                      /\ Near(a, b, Significant(a, setup.signif[n],
                                                IsTotal(setup.species[n])))
    <3>. DEFINE a == Reduced(x.cell, n)
                b == Reduced(y.cell, n)
                signif == setup.signif[n]
                is_ho == IsTotal(setup.species[n])
    <3>1. ElementOf(x.cell, n) = ElementOf(y.cell, n)
      <4>1. StoredKey(KeyOf(x.cell))[n] = ElementOf(x.cell, n)
        BY <2>1, KeyIs
      <4>2. StoredKey(KeyOf(y.cell))[n] = ElementOf(y.cell, n)
        BY <2>1, KeyIs
      <4>. QED
        BY <2>1, <4>1, <4>2
    <3>2. signif \in 1 .. 9 /\ is_ho \in BOOLEAN /\ a \in Numbers /\ b \in Numbers
      BY <2>1, SetupIs, ReducedIs DEF IsTotal
    <3>3. /\ Negligible(a, n) => ElementOf(x.cell, n) = None
          /\ ~Negligible(a, n) =>
               ~Vanishes(a, is_ho) /\ ElementOf(x.cell, n) = Round(a, signif, is_ho)
      BY <2>1, <2>3, ElementIs
    <3>4. /\ Negligible(b, n) => ElementOf(y.cell, n) = None
          /\ ~Negligible(b, n) =>
               ~Vanishes(b, is_ho) /\ ElementOf(y.cell, n) = Round(b, signif, is_ho)
      BY <2>1, <2>3, ElementIs
    <3>5. Fits(a, signif)
      BY <2>3
    <3>. HIDE DEF a, b, signif, is_ho
    <3>6. /\ ~Negligible(a, n) => Round(a, signif, is_ho) # None
          /\ ~Negligible(b, n) => Round(b, signif, is_ho) # None
      BY <3>2, <3>3, <3>4, RoundIs
    <3>7. ASSUME ~Negligible(a, n), ~Negligible(b, n)
          PROVE  Near(a, b, Significant(a, signif, is_ho))
      BY <3>1, <3>2, <3>3, <3>4, <3>5, <3>7, RoundNear
    <3>. QED
      BY <3>1, <3>3, <3>4, <3>6, <3>7 DEF a, b, signif, is_ho
  <2>. QED
    BY <2>2, <2>3
<1>. QED
  BY <1>1, Invariant, PTL

\* Numbers that make the same element of a coarse key are near.
LEMMA CoarsenNear ==
  ASSUME NEW a \in Numbers, NEW b \in Numbers, NEW signif \in 1 .. 9,
         NEW is_ho \in BOOLEAN, NEW d \in 1 .. 9,
         ~Vanishes(a, is_ho), ~Vanishes(b, is_ho),
         ~(Abs(Round(a, signif, is_ho).sig) <= Power(d - 1)),
         ~(Abs(Round(b, signif, is_ho).sig) <= Power(d - 1)),
         Coarsen(Round(a, signif, is_ho), d) = Coarsen(Round(b, signif, is_ho), d)
  PROVE  Near(a, b, d)
<1>1. PICK p \in Int : CutOf(Coarsen(Round(a, signif, is_ho), d), a, d, p)
  BY CoarsenIs
<1>2. PICK t \in Int : CutOf(Coarsen(Round(b, signif, is_ho), d), b, d, t)
  BY CoarsenIs
<1>3. a \in Nonzero /\ b \in Nonzero
  BY NonzeroIs DEF Vanishes
<1>4. Truncate(a, p) = Truncate(b, t) /\ Exponent(a) = Exponent(b)
  <2>. DEFINE f == [sig |-> Truncate(a, p), exp |-> Exponent(a)]
              g == [sig |-> Truncate(b, t), exp |-> Exponent(b)]
  <2>1. f = g
    BY <1>1, <1>2 DEF CutOf
  <2>2. f.sig = g.sig /\ f.exp = g.exp
    BY <2>1
  <2>. QED
    BY <2>2
<1>5. p = t
  <2>1. DigitsLeft(a, p) = Exponent(a) + 1 + p /\ DigitsLeft(b, t) = Exponent(b) + 1 + t
        /\ Exponent(a) \in Int
    BY <1>1, <1>2, <1>3, DigitsLeftIs DEF CutOf
  <2>. QED
    BY <1>1, <1>2, <1>4, <2>1 DEF CutOf
<1>6. DigitsLeft(a, p) \in 1 .. 9 /\ d \in Int /\ d <= DigitsLeft(a, p)
  BY <1>1 DEF CutOf
<1>. QED
  BY <1>3, <1>4, <1>5, <1>6, CutNear

\* Cells that are interpolated between are the same up to the digits of the
\* coarse key.
THEOREM SameCoarseIsClose == Spec => []SameCoarseClose
<1>1. ASSUME IInv PROVE SameCoarseClose
  <2>. SUFFICES ASSUME NEW x \in keys, NEW y \in keys, x.coarse = y.coarse,
                       NEW k \in DOMAIN setup.key_indices
                PROVE  LET n == setup.key_indices[k]
                           d == setup.coarse[k]
                           a == Reduced(x.cell, n)
                           b == Reduced(y.cell, n)
                       IN  \/ d = 0
                           \/ setup.species[n] = "custom" /\ ~setup.dht_fuzz
                           \/ Lost(a, n, d) /\ Lost(b, n, d)
                           \/ ~Lost(a, n, d) /\ ~Lost(b, n, d) /\ Near(a, b, d)
    BY DEF SameCoarseClose
  <2>1. /\ setup \in Setups
        /\ x.cell \in Cells(setup) /\ x.coarse = CoarseKey(KeyOf(x.cell))
        /\ y.cell \in Cells(setup) /\ y.coarse = CoarseKey(KeyOf(y.cell))
    BY <1>1 DEF IInv, LoopInv, KeysInv
  <2>. DEFINE n == setup.key_indices[k]
              d == setup.coarse[k]
              a == Reduced(x.cell, n)
              b == Reduced(y.cell, n)
              signif == setup.signif[n]
              is_ho == IsTotal(setup.species[n])
  <2>. SUFFICES ASSUME d # 0, ~(setup.species[n] = "custom" /\ ~setup.dht_fuzz)
                PROVE  \/ Lost(a, n, d) /\ Lost(b, n, d)
                       \/ ~Lost(a, n, d) /\ ~Lost(b, n, d) /\ Near(a, b, d)
    OBVIOUS
  <2>2. n \in 1 .. key_count /\ d \in 1 .. 9
    BY <2>1, SetupIs
  <2>3. Coarsen(ElementOf(x.cell, n), d) = Coarsen(ElementOf(y.cell, n), d)
    <3>1. CoarseKey(KeyOf(x.cell))[k] = Coarsen(ElementOf(x.cell, n), d)
      BY <2>1, KeyIs
    <3>2. CoarseKey(KeyOf(y.cell))[k] = Coarsen(ElementOf(y.cell, n), d)
      BY <2>1, KeyIs
    <3>. QED
      BY <2>1, <3>1, <3>2
  <2>4. signif \in 1 .. 9 /\ is_ho \in BOOLEAN /\ a \in Numbers /\ b \in Numbers
    BY <2>1, <2>2, SetupIs, ReducedIs DEF IsTotal
  <2>5. /\ Negligible(a, n) => ElementOf(x.cell, n) = None
        /\ ~Negligible(a, n) =>
             ~Vanishes(a, is_ho) /\ ElementOf(x.cell, n) = Round(a, signif, is_ho)
    BY <2>1, <2>2, ElementIs
  <2>6. /\ Negligible(b, n) => ElementOf(y.cell, n) = None
        /\ ~Negligible(b, n) =>
             ~Vanishes(b, is_ho) /\ ElementOf(y.cell, n) = Round(b, signif, is_ho)
    BY <2>1, <2>2, ElementIs
  <2>7. /\ Lost(a, n, d) <=> \/ Negligible(a, n)
                             \/ Abs(Round(a, signif, is_ho).sig) <= Power(d - 1)
        /\ Lost(b, n, d) <=> \/ Negligible(b, n)
                             \/ Abs(Round(b, signif, is_ho).sig) <= Power(d - 1)
    BY DEF Lost, Power
  <2>. HIDE DEF n, d, a, b, signif, is_ho
  <2>8. Coarsen(None, d) = None
    BY <2>2 DEF Coarsen, None
  <2>9. Lost(a, n, d) => Coarsen(ElementOf(x.cell, n), d) = None
    BY <2>2, <2>4, <2>5, <2>7, <2>8, CoarsenIs
  <2>10. Lost(b, n, d) => Coarsen(ElementOf(y.cell, n), d) = None
    BY <2>2, <2>4, <2>6, <2>7, <2>8, CoarsenIs
  <2>11. ASSUME NEW v \in Numbers, ~Vanishes(v, is_ho),
                ~(Abs(Round(v, signif, is_ho).sig) <= Power(d - 1))
         PROVE  Coarsen(Round(v, signif, is_ho), d) # None
    <3>1. PICK p \in Int :
            CutOf(Coarsen(Round(v, signif, is_ho), d), v, d, p)
      BY <2>2, <2>4, <2>11, CoarsenIs
    <3>. QED
      BY <3>1 DEF CutOf, None, Narrow
  <2>12. ~Lost(a, n, d) => Coarsen(ElementOf(x.cell, n), d) # None
    BY <2>4, <2>5, <2>7, <2>11
  <2>13. ~Lost(b, n, d) => Coarsen(ElementOf(y.cell, n), d) # None
    BY <2>4, <2>6, <2>7, <2>11
  <2>14. ASSUME ~Lost(a, n, d), ~Lost(b, n, d) PROVE Near(a, b, d)
    BY <2>2, <2>3, <2>4, <2>5, <2>6, <2>7, <2>14, CoarsenNear
  <2>. QED
    BY <2>3, <2>9, <2>10, <2>12, <2>13, <2>14
<1>. QED
  BY <1>1, Invariant, PTL
=============================================================================
