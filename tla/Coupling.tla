------------------------------ MODULE Coupling ------------------------------
(***************************************************************************)
(* A whole simulation as the data sees it: an input script becomes a       *)
(* setup (poet_init), the setup is read by poet, and the loop of           *)
(* RunMasterLoop couples the transport of the species with the chemistry   *)
(* in the cells.  The two modules keep a Field each, columns by name; the  *)
(* values go through vectors, the shuffled buffer and work packages and    *)
(* back.  An entry of a column is the cell it was made for and the number  *)
(* of transport and reaction steps it has been through.                    *)
(*                                                                         *)
(* The stages of the loop are the outer state machine, the loops of        *)
(* Partition run inside the stage "chemistry".  The exchange with the      *)
(* workers is one step here: WorkLoop shows that it computes every row of  *)
(* the buffer once and puts the result where the row was.                  *)
(***************************************************************************)
EXTENDS GridLayout, Partition

CONSTANTS Props,          \* the columns of the initial grid, in their order
          Transported,    \* transport_names
          MaxCells, MaxSize,   \* bounds of the grid and of a work package
          MaxIter,        \* number of time steps
          OutSave,        \* setup$out_save
          Scripts(_, _)   \* boundary conditions and coefficients of a grid

Species == {Props[k] : k \in DOMAIN Props}
prop_count == Len(Props)

ASSUME CouplingAssumption ==
  /\ Props \in Seq(STRING) /\ Len(Props) > 0
  /\ \A k, l \in DOMAIN Props : Props[k] = Props[l] => k = l
  /\ Transported \subseteq Species
  /\ MaxCells \in Nat /\ MaxSize \in Nat /\ MaxIter \in Nat

ASSUME ScriptsAssumption ==
  \A rows, cols \in 1 .. MaxCells : \A script \in Scripts(rows, cols) :
    /\ \A side \in Sides :
         script.boundaries[side] \in Seq(SideEntry(SideLength(side, rows, cols)))
    /\ script.inner \in Seq(InnerEntry(rows, cols))
    /\ script.alpha \in {"uniform", "matrix"}

VARIABLES input,       \* the script: grid, boundaries, inner boundaries, alpha
          setup,       \* what poet_init exports
          param_list,  \* DiffusionModule::param_list
          stage,       \* where the simulation is
          iter,        \* the iteration of RunMasterLoop
          transport,   \* transport_field
          chem,        \* chem_field
          mpi_buffer,  \* the shuffled field
          saved        \* the files with state_T and state_C

loops == <<n_cells, wp_size, pc, i, j, sizes, row, out, back>>
vars == <<input, setup, param_list, stage, iter, transport, chem, mpi_buffer,
          saved, loops>>

NoSetup == [specs |-> <<>>]
NoField == [s \in Species |-> <<>>]
Mixed == [at |-> <<0, 0>>, t |-> 0, c |-> 0]   \* a value that belongs to no cell
Value(x, t, c) == [at |-> x, t |-> t, c |-> c]

(* Scripts a user may write: a matrix of IDs and a package size. *)
Init ==
  /\ \E rows, cols \in 1 .. MaxCells :
       /\ rows * cols \in 2 .. MaxCells
       /\ n_cells = rows * cols
       /\ \E script \in Scripts(rows, cols) :
            input = [rows |-> rows, cols |-> cols, script |-> script]
  /\ wp_size \in 1 .. MaxSize
  /\ PartitionInit
  /\ setup = NoSetup
  /\ param_list = NoSetup
  /\ stage = "script"
  /\ iter = 1
  /\ transport = NoField
  /\ chem = NoField
  /\ mpi_buffer = <<>>
  /\ saved = {}
----------------------------------------------------------------------------
(* Setting up. *)

\* prepareGrid throws for a single row of several cells.
RejectGrid ==
  /\ stage = "script"
  /\ input.rows = 1 /\ input.cols > 1
  /\ stage' = "rejected"
  /\ UNCHANGED <<input, setup, param_list, iter, transport, chem, mpi_buffer,
                 saved, loops>>

\* prepareGrid, initDiffusion and exportList: the setup of poet_init.
initializeFromList ==
  /\ stage = "script"
  /\ ~(input.rows = 1 /\ input.cols > 1)
  /\ setup' =
       [specs |-> <<input.rows, input.cols>>,
        initial |-> [s \in Species |->
                       [q \in Cell |->
                          Value(pqc_to_grid(input.rows, input.cols)[q], 0, 0)]],
        boundaries |-> resolveBoundaries(input.script.boundaries,
                                         input.rows, input.cols),
        inner |-> RcppListToInnerBoundaryMap(input.script.inner),
        alpha |-> parseAlphas(input.script.alpha, input.cols, input.rows)]
  /\ stage' = "setup"
  /\ UNCHANGED <<input, param_list, iter, transport, chem, mpi_buffer, saved,
                 loops>>

\* importList and getDiffusionInit, then the constructor of DiffusionModule
\* and masterSetField: both modules start with the whole initial grid.
importList ==
  /\ stage = "setup"
  /\ param_list' =
       [n_rows |-> setup.specs[1], n_cols |-> setup.specs[2],
        boundaries |-> RcppListToBoundaryMap(setup.boundaries),
        inner |-> setup.inner,
        alpha |-> setup.alpha]
  /\ transport' = setup.initial
  /\ chem' = setup.initial
  /\ setup' = NoSetup
  /\ stage' = "transport"
  /\ UNCHANGED <<input, iter, mpi_buffer, saved, loops>>
----------------------------------------------------------------------------
(* Fields. *)

\* Field::AsVector: the columns one behind the other, in the order of props.
AsVector(field) ==
  [q \in 0 .. prop_count * n_cells - 1 |->
     field[Props[(q \div n_cells) + 1]][q % n_cells]]

\* Field::operator= for a vector, and matrix(TMP, nrow) with names in R.
FromVector(vec) ==
  [s \in Species |->
     LET k == CHOOSE k \in DOMAIN Props : Props[k] = s
     IN  [q \in Cell |-> vec[(k - 1) * n_cells + q]]]

\* Field::update: the columns of the other field replace those of this one.
Update(field, other) ==
  [s \in DOMAIN field |-> IF s \in DOMAIN other THEN other[s] ELSE field[s]]
----------------------------------------------------------------------------
(* One iteration. *)

\* The solver takes a column for a grid in one state and moves it on; what it
\* makes of a column that is not in order belongs to no cell.
Diffused(column) ==
  LET map == RowMajMatMap(param_list.n_rows, param_list.n_cols)
  IN  IF \E k \in 0 .. MaxIter : \A q \in Cell : column[q] = Value(map[q], k, k)
      THEN [q \in Cell |-> [column[q] EXCEPT !.t = @ + 1]]
      ELSE [q \in Cell |-> Mixed]

\* DiffusionModule::simulate runs the solver on every transported species.
Diffuse ==
  /\ stage = "transport"
  /\ iter <= MaxIter
  /\ transport' = [s \in Species |-> IF s \in Transported
                                     THEN Diffused(transport[s])
                                     ELSE transport[s]]
  /\ stage' = "exchange"
  /\ UNCHANGED <<input, setup, param_list, iter, chem, mpi_buffer, saved, loops>>

\* chem.getField().update(diffusion.getField())
ToChemistry ==
  /\ stage = "exchange"
  /\ chem' = Update(chem, transport)
  /\ stage' = "chemistry"
  /\ UNCHANGED <<input, setup, param_list, iter, transport, mpi_buffer, saved,
                 loops>>

\* MasterRunParallel begins.
StartChemistry ==
  /\ stage = "chemistry"
  /\ mpi_buffer = <<>>
  /\ Prepare
  /\ UNCHANGED <<input, setup, param_list, stage, iter, transport, chem,
                 mpi_buffer, saved>>

\* A pass of one of its loops.
RunLoops ==
  /\ CountCell \/ Counted \/ CopyCell \/ NextPackage \/ PutBack
  /\ UNCHANGED <<input, setup, param_list, stage, iter, transport, chem,
                 mpi_buffer, saved>>

\* out_buffer[write_i * prop_count + k] = in_field[k * size_per_prop + j], for
\* all cells: the rows in the order the loops found.
FillBuffer ==
  /\ Shuffled
  /\ mpi_buffer' =
       [q \in 0 .. prop_count * n_cells - 1 |->
          AsVector(chem)[(q % prop_count) * n_cells + out[q \div prop_count]]]
  /\ UNCHANGED <<input, setup, param_list, stage, iter, transport, chem, saved>>

\* What the chemistry makes of the prop_count values of a row: they must be of
\* one cell, the transported ones one step ahead of the others.
React(values) ==
  LET ok == \E x \in Cells(input.rows, input.cols), k \in 0 .. MaxIter :
              \A s \in 1 .. prop_count :
                values[s] = Value(x, IF Props[s] \in Transported THEN k + 1 ELSE k, k)
      x == values[1].at
      c == values[1].c + 1
  IN  [s \in 1 .. prop_count |-> IF ok THEN Value(x, c, c) ELSE Mixed]

\* The workers have computed every row of every package.
RunPackages ==
  /\ WorkDone
  /\ mpi_buffer' =
       [q \in DOMAIN mpi_buffer |->
          LET first == q - (q % prop_count)
          IN  React([s \in 1 .. prop_count |-> mpi_buffer[first + s - 1]])
                [(q % prop_count) + 1]]
  /\ UNCHANGED <<input, setup, param_list, stage, iter, transport, chem, saved>>

\* out_field[k * size_per_prop + j] = in_buffer[read_i * prop_count + k], for
\* all cells, and chem_field = out_vec.
TakeResults ==
  /\ Unshuffled
  /\ chem' =
       FromVector([q \in DOMAIN mpi_buffer |->
                     mpi_buffer[back[q % n_cells] * prop_count + (q \div n_cells)]])
  /\ mpi_buffer' = <<>>
  /\ stage' = "end"
  /\ UNCHANGED <<input, setup, param_list, iter, transport, saved>>

\* call_master_iter_end and master_iteration_end: state_T and state_C become
\* data frames and are written if the iteration is one of out_save.
SaveIteration ==
  /\ stage = "end"
  /\ saved' =
       IF iter \in OutSave
       THEN saved \cup {[iter |-> iter, T |-> FromVector(AsVector(transport)),
                         C |-> FromVector(AsVector(chem))]}
       ELSE saved
  /\ stage' = "back"
  /\ UNCHANGED <<input, setup, param_list, iter, transport, chem, mpi_buffer,
                 loops>>

\* Mutant: the results do not get back to the transport.
NotBackToTransport ==
  /\ stage = "back"
  /\ UNCHANGED transport
  /\ iter' = iter + 1
  /\ stage' = "transport"
  /\ UNCHANGED <<input, setup, param_list, chem, mpi_buffer, saved, loops>>

\* diffusion.getField().update(chem.getField()), and the next iteration.
BackToTransport ==
  /\ stage = "back"
  /\ transport' = Update(transport, chem)
  /\ iter' = iter + 1
  /\ stage' = "transport"
  /\ UNCHANGED <<input, setup, param_list, chem, mpi_buffer, saved, loops>>

Next ==
  \/ RejectGrid \/ initializeFromList \/ importList
  \/ Diffuse \/ ToChemistry \/ StartChemistry \/ RunLoops \/ FillBuffer
  \/ RunPackages \/ TakeResults \/ SaveIteration \/ BackToTransport

Spec == Init /\ [][Next]_vars
----------------------------------------------------------------------------
Values ==
  {Mixed} \cup [at : Cells(input.rows, input.cols), t : 0 .. MaxIter, c : 0 .. MaxIter]
Fields == [Species -> [Cell -> Values]]

\* The values the variables can take; the vectors have the sizes that the
\* loops and the constructors of Field expect.
TypeOK ==
  /\ PartitionTypeOK
  /\ n_cells = input.rows * input.cols
  /\ stage \in {"script", "rejected", "setup", "transport", "exchange",
                "chemistry", "end", "back"}
  /\ iter \in 1 .. MaxIter + 1
  /\ transport \in Fields \cup {NoField}
  /\ chem \in Fields \cup {NoField}
  /\ mpi_buffer = <<>> \/ mpi_buffer \in [0 .. prop_count * n_cells - 1 -> Values]
  /\ \A f \in saved : f.iter \in OutSave /\ {f.T, f.C} \subseteq Fields

Loaded == stage \notin {"script", "rejected", "setup"}

\* What the solver is told of a cell at the border or inside the grid is the
\* last thing the script says of that cell on that side, also where the grid
\* is not square, and its coefficient is the one the script gives that cell
\* (resolveBoundaries, parseAlphas and the two RcppListTo...Map).
BoundariesInPlace ==
  Loaded =>
    LET x == input.script.inner
    IN  /\ \A tug_index \in DOMAIN tug_side_mapping :
             LET side == tug_side_mapping[tug_index]
             IN  \A k \in 1 .. SideLength(side, input.rows, input.cols) :
                   param_list.boundaries[tug_index][k - 1]
                     = SideCondition(input.script.boundaries[side], k)
        /\ \A r \in 1 .. input.rows, c \in 1 .. input.cols :
             InnerCondition(x, <<r, c>>)
               = IF <<r - 1, c - 1>> \in DOMAIN param_list.inner
                 THEN param_list.inner[<<r - 1, c - 1>>] ELSE 0

AlphasInPlace ==
  Loaded =>
    \A q \in Cell :
      param_list.alpha[q] \in
        {<<>>, RowMajMatMap(param_list.n_rows, param_list.n_cols)[q]}

TransportInPlace == BoundariesInPlace /\ AlphasInPlace

(* The simulation in terms of the grid: what a column says of each cell, at *)
(* the place where the solver has it.                                       *)
View(field) ==
  [s \in Species |->
     [x \in Cells(input.rows, input.cols) |->
        LET v == field[s][(x[1] - 1) * input.cols + x[2] - 1]
        IN  IF v.at = x THEN [t |-> v.t, c |-> v.c] ELSE [t |-> -1, c |-> -1]]]

Splitting == INSTANCE OperatorSplitting WITH
  grid <- Cells(input.rows, input.cols),
  conc <- IF ~Loaded
          THEN [s \in Species |->
                  [x \in Cells(input.rows, input.cols) |-> [t |-> 0, c |-> 0]]]
          ELSE View(IF stage \in {"transport", "exchange"} THEN transport ELSE chem),
  phase <- CASE stage \in {"exchange", "chemistry"} -> "reaction"
             [] stage = "end" -> "save"
             [] OTHER -> "transport",
  iter <- IF stage = "back" THEN iter + 1 ELSE iter,
  saved <- {[iter |-> f.iter, T |-> View(f.T), C |-> View(f.C)] : f \in saved}

\* For every shape of the grid and every package size, through all copies
\* between fields, vectors, buffers and data frames, each column holds in each
\* iteration what operator splitting makes of it in that cell, and so do the
\* saved states after transport and after chemistry.
ImplementsSplitting == Splitting!Spec
=============================================================================
