------------------------------ MODULE GridLayout ------------------------------
(***************************************************************************)
(* How the grid of an input script becomes the vectors of the program.     *)
(* The script describes an n_rows x n_cols grid with R matrices, which are *)
(* stored by columns; the program and its transport solver keep one vector *)
(* per species, by rows.  A cell is named by its row and column in the     *)
(* script, and a vector of the model says for each of its entries which    *)
(* cell that entry was made for.                                           *)
(***************************************************************************)
EXTENDS Integers, Sequences, SequencesExt

CONSTANT tug_side_mapping   \* tug's numbers of the sides, and their names

Cells(n_rows, n_cols) == (1 .. n_rows) \X (1 .. n_cols)
Positions(n_rows, n_cols) == 0 .. n_rows * n_cols - 1

Sides == {"E", "W", "N", "S"}

\* The enumeration BC_SIDE of tug starts at 0.
ASSUME SideAssumption ==
  /\ tug_side_mapping \in [0 .. 3 -> Sides]
  /\ \A side \in Sides : \E n \in 0 .. 3 : tug_side_mapping[n] = side

\* The place of side n in a list that is filled by going through the mapping, a
\* std::map that is ordered by number.
ListPlace(n) == Cardinality({m \in DOMAIN tug_side_mapping : m < n})

\* How R stores a matrix: entry q of the vector is this element.
RMatrix(n_rows, n_cols) ==
  [q \in Positions(n_rows, n_cols) |-> <<(q % n_rows) + 1, (q \div n_rows) + 1>>]

\* How the solver reads a vector as an n_rows x n_cols matrix.
RowMajMatMap(n_rows, n_cols) ==
  [q \in Positions(n_rows, n_cols) |-> <<(q \div n_cols) + 1, (q % n_cols) + 1>>]

\* Mutant: the matrix of IDs is flattened without transposing it first.
pqc_to_grid_untransposed(n_rows, n_cols) == RMatrix(n_rows, n_cols)

\* The initial grid has one row per element of t(grid_def).
pqc_to_grid(n_rows, n_cols) ==
  [q \in Positions(n_rows, n_cols) |->
     LET transposed == RMatrix(n_cols, n_rows)[q]
     IN  <<transposed[2], transposed[1]>>]

\* The coefficients of the script: one for all cells, or a matrix of them.
\* The element of the matrix for cell x is written x, the single one <<>>.
AlphaVector(kind, n_rows, n_cols) ==
  IF kind = "uniform" THEN [q \in {0} |-> <<>>] ELSE RMatrix(n_rows, n_cols)

\* Mutant: the vector is taken as it comes from R.
colMajToRowMaj_none(vec, n_cols, n_rows) ==
  [q \in 0 .. n_cols * n_rows - 1 |-> IF DOMAIN vec = {0} THEN vec[0] ELSE vec[q]]

\* alpha[i * n_rows + j] = vec[j * n_cols + i]
colMajToRowMaj(vec, n_cols, n_rows) ==
  [q \in 0 .. n_cols * n_rows - 1 |->
     IF DOMAIN vec = {0} THEN vec[0]
     ELSE vec[(q % n_rows) * n_cols + q \div n_rows]]

parseAlphas(kind, n_cols, n_rows) ==
  colMajToRowMaj(AlphaVector(kind, n_rows, n_cols), n_cols, n_rows)

SideLength(side, n_rows, n_cols) == IF side \in {"E", "W"} THEN n_rows ELSE n_cols

\* An entry of the script for a side with that many elements; resolveBoundaries
\* throws at other types.
SideEntry(length) ==
  [cell : 1 .. length, type : {"closed", "constant"}, sol_id : Nat]

\* An entry of the script for the cells inside.
InnerEntry(n_rows, n_cols) == [row : 1 .. n_rows, col : 1 .. n_cols, sol_id : Nat]

\* Mutant: the cells of the script are taken for positions.
resolveSide_offByOne(entries, length) ==
  LET closed == [type |-> [k \in 0 .. length - 1 |-> "closed"],
                 value |-> [k \in 0 .. length - 1 |-> 0]]
      Take(bound, e) ==
        [bound EXCEPT !.type[e.cell % length] = e.type,
                      !.value[e.cell % length] = e.sol_id]
  IN  FoldLeft(Take, closed, entries)

\* resolveBoundaries, for one side: c_type and c_value after the entries of
\* the script.  A closed entry leaves the value that was there.
resolveSide(entries, length) ==
  LET closed == [type |-> [k \in 0 .. length - 1 |-> "closed"],
                 value |-> [k \in 0 .. length - 1 |-> 0]]
      Take(bound, e) ==
        IF e.type = "closed"
        THEN [bound EXCEPT !.type[e.cell - 1] = "closed"]
        ELSE [bound EXCEPT !.type[e.cell - 1] = "constant",
                           !.value[e.cell - 1] = e.sol_id]
  IN  FoldLeft(Take, closed, entries)

\* resolveBoundaries: a list of the conditions on the four sides.
resolveBoundaries(script, n_rows, n_cols) ==
  [place \in 0 .. 3 |->
     LET number == CHOOSE n \in DOMAIN tug_side_mapping : ListPlace(n) = place
         side   == tug_side_mapping[number]
     IN  resolveSide(script[side], SideLength(side, n_rows, n_cols))]

\* RcppListToBoundaryMap: what the solver is told of each of its sides, 0 for a
\* closed element.  The number of the side is taken for its place in the list.
RcppListToBoundaryMap(bound_list) ==
  [n \in DOMAIN tug_side_mapping |->
     [k \in DOMAIN bound_list[n].type |->
        IF bound_list[n].type[k] = "constant" THEN bound_list[n].value[k] ELSE 0]]

\* RcppListToInnerBoundaryMap: a later entry for the same cell replaces the
\* value; resolveBoundaries has made rows and columns start at 0.
RcppListToInnerBoundaryMap(entries) ==
  LET at == {<<e.row - 1, e.col - 1>> : e \in {entries[k] : k \in DOMAIN entries}}
      Put(map, e) == [map EXCEPT ![<<e.row - 1, e.col - 1>>] = e.sol_id]
  IN  FoldLeft(Put, [x \in at |-> 0], entries)
----------------------------------------------------------------------------
(* What the script means, for the properties. *)

\* The last of the entries that P holds of, 0 when there is none.
LastIndex(entries, P(_)) ==
  LET of == {k \in DOMAIN entries : P(entries[k])}
  IN  IF of = {} THEN 0 ELSE CHOOSE k \in of : \A l \in of : l <= k

\* What the script puts on element k (from 1) of a side: the last entry counts.
SideCondition(entries, k) ==
  LET last == LastIndex(entries, LAMBDA e : e.cell = k)
  IN  IF last = 0 \/ entries[last].type = "closed" THEN 0 ELSE entries[last].sol_id

\* The value the script holds constant inside cell x, 0 for none.
InnerCondition(entries, x) ==
  LET last == LastIndex(entries, LAMBDA e : <<e.row, e.col>> = x)
  IN  IF last = 0 THEN 0 ELSE entries[last].sol_id
=============================================================================
