---------------------------- MODULE MCLookupKeys ----------------------------
(***************************************************************************)
(* Settings of LookupKeys for TLC.                                         *)
(***************************************************************************)
EXTENDS LookupKeys

N(m, e) == [m |-> m, e |-> e]

\* Around zero, the aqueous limit, a change of the last significant digit and of
\* the coarse one, a power of ten, and one more than the digits asked for.
Values(name) ==
  CASE name = "H"      -> {N(1110120, -4), N(1110124, -4), N(1110129, -4),
                           N(1110005, -4), N(1110000, -4), N(1109990, -4)}
    [] name = "O"      -> {N(555060, -4), N(555064, -4), N(555160, -4)}
    [] name = "Charge" -> {N(1236, -12), N(-1236, -12), N(1239, -14)}
    [] OTHER           -> {N(0, 0), N(5, -14), N(124, -15), N(126, -15),
                           N(1234, -8), N(1236, -8), N(1251, -8),
                           N(1351, -8), N(1236, -7), N(1, -3), N(1004, -6),
                           N(-1, -3), N(2000, 0), N(2900, 0)}

Base == <<N(1110000, -4), N(555055, -4)>>

Setup(species, key_indices, coarse, dht_fuzz, has_het_ids) ==
  [species |-> species, signif |-> [n \in DOMAIN species |-> 3],
   key_indices |-> key_indices, coarse |-> coarse,
   base_totals |-> Base, dht_fuzz |-> dht_fuzz, has_het_ids |-> has_het_ids]

AllSetups ==
  {Setup(<<"H", "O">>, <<1, 2>>, <<2, 2>>, FALSE, FALSE),
   Setup(<<"Ca", "Charge">>, <<1, 2>>, <<2, 2>>, FALSE, TRUE),
   Setup(<<"Ca", "Charge">>, <<2, 1>>, <<0, 2>>, TRUE, FALSE),
   Setup(<<"custom", "O">>, <<1, 2>>, <<2, 2>>, FALSE, TRUE)}

dt1 == [sig |-> 1, exp |-> 100]
dt2 == [sig |-> 2, exp |-> 100]

AllSteps == {dt1, dt2}

id1 == [sig |-> 1, exp |-> 101]
id2 == [sig |-> 2, exp |-> 101]

AllIDs == {id1, id2}

\* The values that src/src/test/testRounding.cpp expects.
ASSUME RoundingTests ==
  /\ Round(N(12345, -4), 3, FALSE) = [sig |-> 123, exp |-> 0]
  /\ Round(N(-12345, -4), 3, FALSE) = [sig |-> -123, exp |-> 0]
  /\ Round(N(123456789, -13), 3, FALSE) = [sig |-> 123, exp |-> -5]
  /\ Round(N(-123456789, -13), 3, FALSE) = [sig |-> -123, exp |-> -5]
  /\ Round(N(123456789, -22), 3, FALSE) = None
  /\ Round(N(-123456789, -22), 3, FALSE) = None
  /\ Round(N(123456789, -21), 3, FALSE) = [sig |-> 1, exp |-> -13]
  /\ Round(N(-123456789, -21), 3, FALSE) = [sig |-> -1, exp |-> -13]
  /\ Round(N(123456789, -21), 3, TRUE) = [sig |-> 123, exp |-> -13]
  /\ Round(N(-123456789, -21), 3, TRUE) = [sig |-> -123, exp |-> -13]
=============================================================================
