------------------------------ MODULE Partition ------------------------------
(***************************************************************************)
(* The loops that cut the grid into work packages and put it together      *)
(* again: CalculateWPSizesVector, shuffleField and unshuffleField of       *)
(* MasterFunctions.cpp, one iteration of an inner loop per step.  A row    *)
(* of the buffer is named by the cell whose values it holds; module        *)
(* Coupling runs these loops in every chemistry step and moves the values  *)
(* themselves.                                                             *)
(***************************************************************************)
EXTENDS Packages

VARIABLES n_cells, wp_size,   \* the size of the grid and of a package
          pc,                 \* the loop that runs, or what it waits for
          i, j,               \* its counters
          sizes,              \* wp_sizes_vector
          row,                \* write_i of shuffleField, read_i of unshuffleField
          out,                \* out_buffer of shuffleField: the cell of each row
          back                \* the row that unshuffleField gives to each cell

buffers == <<sizes, out, back>>

n == NPackages(n_cells, wp_size)

Cell == 0 .. n_cells - 1

\* No loop has run yet.
PartitionInit ==
  /\ pc = "idle"
  /\ i = 0
  /\ j = 0
  /\ sizes = [p \in 0 .. n - 1 |-> 0]
  /\ row = 0
  /\ out = [q \in Cell |-> 0]
  /\ back = [q \in Cell |-> 0]

\* MasterRunParallel starts with fresh vectors of sizes and rows.
Prepare ==
  /\ pc = "idle"
  /\ pc' = "sizes"
  /\ i' = 0
  /\ j' = 0
  /\ row' = 0
  /\ sizes' = [p \in 0 .. n - 1 |-> 0]
  /\ out' = [q \in Cell |-> 0]
  /\ back' = [q \in Cell |-> 0]
  /\ UNCHANGED <<n_cells, wp_size>>

\* Mutant: the sizes are counted for contiguous packages.
CountContiguous ==
  /\ pc = "sizes"
  /\ i < n_cells
  /\ sizes' = [sizes EXCEPT ![i \div wp_size] = @ + 1]
  /\ i' = i + 1
  /\ UNCHANGED <<n_cells, wp_size, pc, j, row, out, back>>

\* The loop of CalculateWPSizesVector.
CountCell ==
  /\ pc = "sizes"
  /\ i < n_cells
  /\ sizes' = [sizes EXCEPT ![i % n] = @ + 1]
  /\ i' = i + 1
  /\ UNCHANGED <<n_cells, wp_size, pc, j, row, out, back>>

\* shuffleField starts when the sizes are counted.
Counted ==
  /\ pc = "sizes"
  /\ i = n_cells
  /\ i' = 0
  /\ pc' = "shuffle"
  /\ UNCHANGED <<n_cells, wp_size, j, row, buffers>>

\* Mutant: the cells are copied with the package size as stride.
CopyBySize ==
  /\ pc = "shuffle"
  /\ i < n
  /\ j < n_cells
  /\ out' = [out EXCEPT ![row] = j]
  /\ row' = row + 1
  /\ j' = j + wp_size
  /\ UNCHANGED <<n_cells, wp_size, pc, i, sizes, back>>

\* The inner loop of shuffleField copies the cells i, i + n, i + 2n, ...
CopyCell ==
  /\ pc = "shuffle"
  /\ i < n
  /\ j < n_cells
  /\ out' = [out EXCEPT ![row] = j]
  /\ row' = row + 1
  /\ j' = j + n
  /\ UNCHANGED <<n_cells, wp_size, pc, i, sizes, back>>

\* Mutant: the inner loop starts at the old package.
NextPackageOld ==
  /\ pc \in {"shuffle", "unshuffle"}
  /\ i < n
  /\ j >= n_cells
  /\ i' = i + 1
  /\ j' = i
  /\ UNCHANGED <<n_cells, wp_size, pc, row, buffers>>

\* The outer loop of both goes on with the next package.
NextPackage ==
  /\ pc \in {"shuffle", "unshuffle"}
  /\ i < n
  /\ j >= n_cells
  /\ i' = i + 1
  /\ j' = i + 1
  /\ UNCHANGED <<n_cells, wp_size, pc, row, buffers>>

\* All packages are cut out: the work loop has the buffer now.
Shuffled ==
  /\ pc = "shuffle"
  /\ i = n
  /\ pc' = "work"
  /\ UNCHANGED <<n_cells, wp_size, i, j, row, buffers>>

\* The work loop is through, and unshuffleField starts its own counters.
WorkDone ==
  /\ pc = "work"
  /\ pc' = "unshuffle"
  /\ i' = 0
  /\ j' = 0
  /\ row' = 0
  /\ UNCHANGED <<n_cells, wp_size, buffers>>

\* Mutant: the rows are handed out in the order of the cells.
PutBackInOrder ==
  /\ pc = "unshuffle"
  /\ i < n
  /\ j < n_cells
  /\ back' = [back EXCEPT ![row] = row]
  /\ row' = row + 1
  /\ j' = j + n
  /\ UNCHANGED <<n_cells, wp_size, pc, i, sizes, out>>

\* The inner loop of unshuffleField gives the rows to i, i + n, i + 2n, ...
PutBack ==
  /\ pc = "unshuffle"
  /\ i < n
  /\ j < n_cells
  /\ back' = [back EXCEPT ![j] = row]
  /\ row' = row + 1
  /\ j' = j + n
  /\ UNCHANGED <<n_cells, wp_size, pc, i, sizes, out>>

Unshuffled ==
  /\ pc = "unshuffle"
  /\ i = n
  /\ pc' = "idle"
  /\ UNCHANGED <<n_cells, wp_size, i, j, row, buffers>>
----------------------------------------------------------------------------
\* The values the loops can give their variables: in particular the counters
\* stay inside the buffers that are indexed with them.
PartitionTypeOK ==
  /\ pc \in {"idle", "sizes", "shuffle", "work", "unshuffle"}
  /\ i \in 0 .. n_cells
  /\ j \in 0 .. n_cells + n
  /\ row \in 0 .. n_cells
  /\ sizes \in [0 .. n - 1 -> 0 .. n_cells]
  /\ out \in [Cell -> Cell]
  /\ back \in [Cell -> Cell]

\* No package is empty or larger than the requested size, and no two differ by
\* more than a cell, whatever the remainder of n_cells / wp_size is.
PackagesBalanced ==
  pc \notin {"idle", "sizes"} =>
    \A p, q \in 0 .. n - 1 :
      /\ sizes[p] \in 1 .. wp_size
      /\ sizes[p] <= sizes[q] + 1

\* The loops compute the closed forms that the work loop is specified with.
ClosedForms ==
  /\ pc \notin {"idle", "sizes"} =>
       \A p \in 0 .. n - 1 : sizes[p] = PackageSize(n_cells, n, p)
  /\ pc = "work" =>
       /\ row = n_cells
       /\ \A c \in Cell : out[Position(n_cells, n, c)] = c

\* The shuffled field is cut where the packages end: the sizes[p] rows behind
\* those of the packages before p are the cells of package p, although the
\* sizes and the order of the cells come from two separate loops.
CutsAtPackages ==
  pc = "work" =>
    \A p \in 0 .. n - 1 :
      LET start == SizesBefore(n_cells, n, p)
      IN  {out[q] : q \in start .. start + sizes[p] - 1}
            = {c \in Cell : c % n = p}
=============================================================================
