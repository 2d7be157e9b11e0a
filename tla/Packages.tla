------------------------------ MODULE Packages ------------------------------
(***************************************************************************)
(* How the master cuts the grid into work packages.  Package i gets the    *)
(* cells whose number is i modulo the number of packages, in increasing    *)
(* order, and the shuffled field lists the packages one after the other.   *)
(*                                                                         *)
(* The code computes all this in loops; these are the closed forms, and    *)
(* module Partition runs the loops against them.                           *)
(***************************************************************************)
EXTENDS Integers, FiniteSets

\* Mutant: one package more even if the division leaves no remainder.
NPackagesPlusOne(n_cells, wp_size) == n_cells \div wp_size + 1

\* CalculateWPSizesVector: n_cells / wp_size, rounded up.
NPackages(n_cells, wp_size) ==
  n_cells \div wp_size + (IF n_cells % wp_size # 0 THEN 1 ELSE 0)

\* wp_sizes_vector[i]
PackageSize(n_cells, n, i) ==
  Cardinality({c \in 0 .. n_cells - 1 : c % n = i})

\* The sum of the first i entries of wp_sizes_vector.
SizesBefore(n_cells, n, i) ==
  Cardinality({c \in 0 .. n_cells - 1 : c % n < i})

\* Cell d comes before cell c in the shuffled field.
Before(n, d, c) == d % n < c % n \/ (d % n = c % n /\ d < c)

\* Where shuffleField puts cell c, and unshuffleField looks for it.
Position(n_cells, n, c) ==
  Cardinality({d \in 0 .. n_cells - 1 : Before(n, d, c)})
=============================================================================
