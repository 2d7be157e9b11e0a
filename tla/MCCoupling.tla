------------------------------ MODULE MCCoupling ------------------------------
(***************************************************************************)
(* Scripts for Coupling: conditions on some sides and inside the grid, and *)
(* coefficients for all cells together or for each of them.                *)
(***************************************************************************)
EXTENDS Coupling

MCProps == <<"ID", "Ca", "Calcite">>

\* Left, right, top and bottom.
MCSides == [side \in 0 .. 3 |-> <<"W", "E", "N", "S">>[side + 1]]

Entry(cell, type, sol) == [cell |-> cell, type |-> type, sol_id |-> sol]
Open == [side \in Sides |-> <<>>]

\* The west side constant, the last cell of the north side constant and then
\* closed again.
WestNorth(rows, cols) ==
  [Open EXCEPT !["W"] = [r \in 1 .. rows |-> Entry(r, "constant", 2)],
               !["N"] = <<Entry(cols, "constant", 3), Entry(cols, "closed", 3)>>]

\* The last cells of the east and the south side, one of them given twice.
EastSouth(rows, cols) ==
  [Open EXCEPT !["E"] = <<Entry(rows, "constant", 2), Entry(rows, "constant", 3)>>,
               !["S"] = <<Entry(cols, "closed", 3), Entry(cols, "constant", 2)>>]

\* A cell inside held constant, given twice, and another one.
Inner(rows, cols) ==
  <<[row |-> rows, col |-> 1, sol_id |-> 2],
    [row |-> 1, col |-> cols, sol_id |-> 2],
    [row |-> rows, col |-> 1, sol_id |-> 3]>>

Script(boundaries, inner, alpha) ==
  [boundaries |-> boundaries, inner |-> inner, alpha |-> alpha]

MCScripts(rows, cols) ==
  {Script(WestNorth(rows, cols), <<>>, "uniform"),
   Script(EastSouth(rows, cols), Inner(rows, cols),
          IF rows = cols THEN "matrix" ELSE "uniform")}

\* The coefficients of the benchmark barite_het: a matrix like the grid.
MatrixScripts(rows, cols) == {Script(Open, <<>>, "matrix")}
=============================================================================
