----------------------------- MODULE LookupKeys -----------------------------
(***************************************************************************)
(* The keys under which a cell is looked up: the fine key of the main      *)
(* table, made from the key species of the cell, the time step and the     *)
(* cell's ID, and the coarse key of the proximity table, made from a fine  *)
(* one.  Cells with the same fine key share a result, cells with the same  *)
(* coarse key are interpolated between.                                    *)
(*                                                                         *)
(* A number m * 10^e is [m |-> m, e |-> e]; an element of a key has the    *)
(* leading digits sig of a number and the exponent exp of its first digit. *)
(* Numbers and their logarithms are exact here: a binary double may come   *)
(* out one digit lower where a number has no more digits than its element. *)
(* Conversions that the language leaves open are as on x86-64.             *)
(***************************************************************************)
EXTENDS Integers, SequencesExt

CONSTANTS Setups,      \* species, digits, hook and IDs to consider
          ValuesOf(_), \* values of a species
          Steps,       \* lengths of time steps
          IDs,         \* IDs of cells
          MaxCells     \* bound: number of cells looked up

AQUEOUS_EXP == -13

VARIABLES setup,     \* key species, their digits, and what else makes keys
          cell,      \* the cell in hand
          i,         \* the next element of its key
          totals_i,  \* the next of the base totals
          vecFuzz,   \* its key
          keys       \* cells with their fine and coarse keys

vars == <<setup, cell, i, totals_i, vecFuzz, keys>>
----------------------------------------------------------------------------
(* Numbers                                                                 *)

Abs(n)  == IF n < 0 THEN -n ELSE n
Sign(n) == IF n < 0 THEN -1 ELSE 1
Least(a, b) == IF a < b THEN a ELSE b

\* The numbers of the model: at most nine digits.
Numbers == {v \in [m : Int, e : Int] : Abs(v.m) < 10^9}

\* Decimal digits of an integer.
Digits(n) == CHOOSE d \in 1 .. 9 : 10^(d - 1) <= Abs(n) /\ Abs(n) < 10^d

\* ceil(log10(|n|))
CeilLog10(n) ==
  IF Abs(n) = 10^(Digits(n) - 1) THEN Digits(n) - 1 ELSE Digits(n)

\* floor(log10(|v|))
Exponent(v) == Digits(v.m) - 1 + v.e

\* v * 10^p as an integer, towards zero.
Truncate(v, p) ==
  IF v.e + p >= 0 THEN v.m * 10^(v.e + p)
  ELSE IF v.e + p < -9 THEN 0
  ELSE Sign(v.m) * (Abs(v.m) \div 10^(-(v.e + p)))

Minus(a, b) ==
  LET e == Least(a.e, b.e)
  IN  [m |-> a.m * 10^(a.e - e) - b.m * 10^(b.e - e), e |-> e]

\* a < 10^p
Below(a, p) == a.m <= 0 \/ Exponent(a) < p
----------------------------------------------------------------------------
(* Rounding                                                                *)

None == [sig |-> 0, exp |-> 0]

\* Fewer digits for a number whose last ones are behind the aqueous limit.
Significant(v, signif, is_ho) ==
  IF ~is_ho /\ Exponent(v) - signif + 1 < AQUEOUS_EXP
  THEN signif - (AQUEOUS_EXP - (Exponent(v) - signif + 1))
  ELSE signif

\* DHT_Rounder::round.  The logarithm of zero is minus infinity, and 0 when it
\* is cast.  The power is computed from an unsigned difference: it is infinite
\* for a number with more digits in front of the point than are asked for, and
\* the cast product has no low bits.
Round(v, signif, is_ho) ==
  IF v.m = 0 \/ (~is_ho /\ Exponent(v) < AQUEOUS_EXP)
  THEN None
  ELSE LET shift == Significant(v, signif, is_ho) - Exponent(v) - 1
       IN  [sig |-> IF shift < 0 THEN 0 ELSE Truncate(v, shift),
            exp |-> Exponent(v)]

\* Mutant: one digit more is taken off.
DiffOneMore(sig, signif) == CeilLog10(sig) - signif + 1

\* Mutant: the logarithm is rounded down.
DiffFloor(sig, signif) == Digits(sig) - 1 - signif

\* The digits that PHT_Rounder takes off.
Diff(sig, signif) == CeilLog10(sig) - signif

\* PHT_Rounder::round.  An unsigned difference again: an element with fewer
\* digits than are asked for loses all.
Coarsen(elem, signif) ==
  IF signif = 0
  THEN [sig |-> IF elem.sig > 0 THEN 1 ELSE 0, exp |-> 0]
  ELSE IF elem.sig = 0 \/ Diff(elem.sig, signif) < 0
  THEN None
  ELSE LET sig == Truncate([m |-> elem.sig, e |-> 0], -Diff(elem.sig, signif))
       IN  [sig |-> sig, exp |-> IF sig = 0 THEN 0 ELSE elem.exp]
----------------------------------------------------------------------------
(* Keys                                                                    *)

IsTotal(name)   == name \in {"H", "O"}
IsDefault(name) == name \notin {"H", "O", "Charge"}

\* The totals among the first elements of a key.
TotalsOf(s, count) == {k \in 1 .. count : IsTotal(s.species[k])}

\* A species of the coarse key is one of the fine key; hydrogen and oxygen occur
\* once at most, as names do, and there is a base total for each.
ASSUME KeysAssumption ==
  /\ MaxCells \in Nat \ {0}
  /\ \A s \in Setups :
       /\ s \in [species : Seq(STRING), signif : Seq(1 .. 9),
                key_indices : Seq(Nat), coarse : Seq(0 .. 9),
                base_totals : Seq(Numbers),
                dht_fuzz : BOOLEAN, has_het_ids : BOOLEAN]
       /\ Len(s.signif) = Len(s.species)
       /\ Len(s.coarse) = Len(s.key_indices)
       /\ \A k \in DOMAIN s.key_indices : s.key_indices[k] \in DOMAIN s.species
       /\ Len(s.base_totals) = 2
       /\ Cardinality(TotalsOf(s, Len(s.species))) <= 2

\* What a cell has of a species is a number of the model, also after a base total
\* is taken off; and there is water in every cell.
ASSUME ValuesAssumption ==
  \A s \in Setups : \A n \in DOMAIN s.species : \A v \in ValuesOf(s.species[n]) :
    /\ v \in Numbers
    /\ IsTotal(s.species[n]) =>
         /\ v.m # 0
         /\ \A k \in DOMAIN s.base_totals : Minus(v, s.base_totals[k]) \in Numbers

key_count == Len(setup.species)

\* Species, time step and, where the IDs of the grid differ, the cell's ID.
KeyLength(s) == Len(s.species) + 1 + (IF s.has_het_ids THEN 1 ELSE 0)

\* Mutant: the time step is behind what the table compares.
StoredKeyWithoutStep(key) == SubSeq(key, 1, key_count)

\* What the main table stores and compares of a fine key.
StoredKey(key) == SubSeq(key, 1, key_count + 1)

\* roundKey: the chosen elements with fewer digits, and the last element.
CoarseKey(key) ==
  Append([n \in DOMAIN setup.key_indices |->
            Coarsen(key[setup.key_indices[n]], setup.coarse[n])],
         Last(key))

Cells(s) ==
  {c \in [vals : [DOMAIN s.species ->
                    UNION {ValuesOf(x) : x \in Range(s.species)}],
          dt : Steps, id : IDs] :
     \A n \in DOMAIN s.species : c.vals[n] \in ValuesOf(s.species[n])}

NoKey == [n \in 1 .. KeyLength(setup) |-> None]

Init ==
  /\ setup \in Setups
  /\ cell \in Cells(setup)
  /\ i = 1
  /\ totals_i = 1
  /\ vecFuzz = NoKey
  /\ keys = {}

\* Elements that stay zero: a concentration below the aqueous limit, unless a
\* hook has made the values of the key, and a species that only the hook knows.
Skipped(name, v) ==
  \/ v.m = 0
  \/ /\ ~setup.dht_fuzz
     /\ name = "custom" \/ (IsDefault(name) /\ Below(v, AQUEOUS_EXP))

\* One turn of the loop of fuzzForDHT or fuzzForDHT_R.
Element ==
  /\ i <= key_count
  /\ LET name == setup.species[i]
         v    == cell.vals[i]
         base == IF IsTotal(name) THEN setup.base_totals[totals_i]
                                  ELSE [m |-> 0, e |-> v.e]
     IN  IF Skipped(name, v)
         THEN UNCHANGED <<vecFuzz, totals_i>>
         ELSE /\ vecFuzz' = [vecFuzz EXCEPT ![i] =
                               Round(Minus(v, base), setup.signif[i],
                                     IsTotal(name))]
              /\ totals_i' = IF IsTotal(name) THEN totals_i + 1 ELSE totals_i
  /\ i' = i + 1
  /\ UNCHANGED <<setup, cell, keys>>

\* The key with time step and ID.
Complete ==
  LET timed == [vecFuzz EXCEPT ![key_count + 1] = cell.dt]
  IN  IF setup.has_het_ids
      THEN [timed EXCEPT ![key_count + 2] = cell.id] ELSE timed

\* The key is complete, and a coarse one is made of it.
Finish ==
  /\ i = key_count + 1
  /\ keys' = keys \cup {[cell |-> cell, fine |-> StoredKey(Complete),
                         coarse |-> CoarseKey(Complete)]}
  /\ i' = i + 1
  /\ UNCHANGED <<setup, cell, totals_i, vecFuzz>>

NextCell ==
  /\ i = key_count + 2
  /\ Cardinality(keys) < MaxCells
  /\ cell' \in Cells(setup)
  /\ i' = 1
  /\ totals_i' = 1
  /\ vecFuzz' = NoKey
  /\ UNCHANGED <<setup, keys>>

Next == Element \/ Finish \/ NextCell

Spec == Init /\ [][Next]_vars
----------------------------------------------------------------------------
(* Properties                                                              *)

\* The values the variables can take.  An element has no more digits than asked
\* for; but a power of ten, whose logarithm is not rounded up, keeps one more in
\* a coarse key.
TypeOK ==
  /\ setup \in Setups
  /\ cell \in Cells(setup)
  /\ i \in 1 .. key_count + 2
  /\ totals_i \in 1 .. 3
  /\ DOMAIN vecFuzz = 1 .. KeyLength(setup)
  /\ \A n \in 1 .. key_count : Abs(vecFuzz[n].sig) < 10^setup.signif[n]
  /\ \A x \in keys : \A n \in DOMAIN setup.key_indices :
       Abs(x.coarse[n].sig) <= 10^setup.coarse[n]
  /\ Cardinality(keys) <= MaxCells

\* What element n of a key is made from.
Reduced(c, n) ==
  IF IsTotal(setup.species[n])
  THEN Minus(c.vals[n],
             setup.base_totals[Cardinality(TotalsOf(setup, n))])
  ELSE c.vals[n]

\* Values of element n that count as nothing.
Negligible(v, n) ==
  \/ v.m = 0
  \/ /\ ~IsTotal(setup.species[n])
     /\ Exponent(v) < AQUEOUS_EXP
  \/ /\ IsDefault(setup.species[n])
     /\ ~setup.dht_fuzz
     /\ v.m < 0

\* a and b have the same sign and order of magnitude, and differ by less than
\* one of the last of their "digits" digits.
Near(a, b, digits) ==
  /\ Sign(a.m) = Sign(b.m)
  /\ Exponent(a) = Exponent(b)
  /\ LET d == Minus(a, b)
     IN  d.m = 0 \/ Exponent(d) <= Exponent(a) - digits

\* Numbers whose digits all fit in front of the point.
Fits(v, digits) == v.m = 0 \/ Exponent(v) < digits

\* Cells that share a result of the main table have the same time step, and each
\* of their key species is the same up to its significant digits (fewer at the
\* aqueous limit), as long as it has no more digits in front of the point.
SameKeyClose ==
  \A x, y \in keys : x.fine = y.fine =>
    /\ x.cell.dt = y.cell.dt
    /\ \A n \in 1 .. key_count :
         LET a == Reduced(x.cell, n)
             b == Reduced(y.cell, n)
         IN  \/ setup.species[n] = "custom" /\ ~setup.dht_fuzz
             \/ Negligible(a, n) /\ Negligible(b, n)
             \/ ~Fits(a, setup.signif[n])
             \/ /\ ~Negligible(a, n) /\ ~Negligible(b, n)
                /\ Near(a, b, Significant(a, setup.signif[n],
                                          IsTotal(setup.species[n])))

\* A value that has too few digits for the coarse key: nothing is left of it.
Lost(v, n, digits) ==
  \/ Negligible(v, n)
  \/ LET sig == Round(v, setup.signif[n], IsTotal(setup.species[n])).sig
     IN  Abs(sig) <= 10^(digits - 1)

\* Cells that are interpolated between are the same up to the digits of the
\* coarse key in each of its species that has any, except that values close to
\* the aqueous limit are all taken for nothing.
SameCoarseClose ==
  \A x, y \in keys : x.coarse = y.coarse =>
    \A k \in DOMAIN setup.key_indices :
      LET n == setup.key_indices[k]
          d == setup.coarse[k]
          a == Reduced(x.cell, n)
          b == Reduced(y.cell, n)
      IN  \/ d = 0
          \/ setup.species[n] = "custom" /\ ~setup.dht_fuzz
          \/ Lost(a, n, d) /\ Lost(b, n, d)
          \/ ~Lost(a, n, d) /\ ~Lost(b, n, d) /\ Near(a, b, d)

\* Cells that are interpolated between have the same time step: the last element
\* of a coarse key is called the time step.
CoarseSameStep ==
  \A x, y \in keys : x.coarse = y.coarse => x.cell.dt = y.cell.dt
=============================================================================
