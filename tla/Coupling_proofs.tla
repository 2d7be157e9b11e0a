--------------------------- MODULE Coupling_proofs ---------------------------
(***************************************************************************)
(* That the loops which cut the grid into packages and put it together     *)
(* compute what module Packages says, for every size of the grid and of a  *)
(* package, and that with them the whole simulation is operator splitting, *)
(* for every shape of the grid, number of species and number of steps;     *)
(* and that transport has the boundaries and coefficients of the script.   *)
(***************************************************************************)
EXTENDS Coupling, Counting_proofs, SequenceTheorems

Place(c) == Position(n_cells, n, c)

\* The cells that the copying loops are through with.
Copied(c) == c % n < i \/ (c % n = i /\ c < j)

GridSize == n_cells \in Nat \ {0} /\ wp_size \in Nat \ {0}

\* The sizes counted for the cells before the given one, and their quotient.
CountedTo(k) ==
  \A p \in 0 .. n - 1 :
    /\ sizes[p] = PackageSize(k, n, p)
    /\ sizes[p] = (k + n - 1 - p) \div n

SizesInv ==
  /\ pc = "sizes" => j = 0 /\ row = 0 /\ CountedTo(i)
  /\ pc \in {"shuffle", "work", "unshuffle"} => CountedTo(n_cells)

\* The cursors of the copying loops: j walks through the cells of package i,
\* and the row is the number of cells copied.
CursorInv ==
  pc \in {"shuffle", "unshuffle"} =>
    /\ i \in 0 .. n
    /\ i < n => j % n = i
    /\ row = Cardinality({c \in Cell : Copied(c)})

BuffersInv ==
  /\ pc = "shuffle" => \A c \in Cell : Copied(c) => out[Place(c)] = c
  /\ pc \in {"work", "unshuffle"} => \A c \in Cell : out[Place(c)] = c
  /\ pc = "work" => row = n_cells
  /\ pc = "unshuffle" => \A c \in Cell : Copied(c) => back[c] = Place(c)

LoopsInv == GridSize /\ PartitionTypeOK /\ SizesInv /\ CursorInv /\ BuffersInv

\* A column in order: every entry belongs to the cell that the solver has there.
Map == RowMajMatMap(input.rows, input.cols)
Column(t, c) == [q \in Cell |-> Value(Map[q], t, c)]

\* What a field holds after k reactions, and after the k-th transport.
AfterChemistry(k) == [s \in Species |-> Column(k, k)]
AfterTransport(k) ==
  [s \in Species |->
     IF s \in Transported THEN Column(k, k - 1) ELSE Column(k - 1, k - 1)]

\* The shuffled field.
Buffer(field) ==
  [q \in 0 .. prop_count * n_cells - 1 |->
     field[Props[(q % prop_count) + 1]][out[q \div prop_count]]]

Shape ==
  /\ input.rows \in Nat \ {0} /\ input.cols \in Nat \ {0}
  /\ n_cells = input.rows * input.cols

SetupInv ==
  /\ stage = "setup" =>
       /\ setup.specs = <<input.rows, input.cols>>
       /\ setup.initial = AfterChemistry(0)
  /\ Loaded => param_list.n_rows = input.rows /\ param_list.n_cols = input.cols

\* Which half of which iteration the two modules have seen at each stage.
FieldsInv ==
  /\ stage \in {"script", "rejected", "setup", "transport", "exchange",
                "chemistry", "end", "back"}
  /\ iter \in 1 .. MaxIter + 1
  /\ ~Loaded => transport = NoField /\ chem = NoField /\ iter = 1
  /\ stage = "transport" =>
       transport = AfterChemistry(iter - 1) /\ chem = AfterChemistry(iter - 1)
  /\ stage = "exchange" =>
       transport = AfterTransport(iter) /\ chem = AfterChemistry(iter - 1)
  /\ stage = "chemistry" =>
       transport = AfterTransport(iter) /\ chem = AfterTransport(iter)
  /\ stage \in {"end", "back"} =>
       transport = AfterTransport(iter) /\ chem = AfterChemistry(iter)
  /\ stage \in {"exchange", "chemistry", "end", "back"} => iter <= MaxIter

BufferInv ==
  /\ stage # "chemistry" => pc = "idle"
  /\ pc = "work" => mpi_buffer = Buffer(AfterTransport(iter))
  /\ pc = "unshuffle" => mpi_buffer = Buffer(AfterChemistry(iter))
  /\ pc \notin {"work", "unshuffle"} => mpi_buffer = <<>>

State(k) == [iter |-> k, T |-> AfterTransport(k), C |-> AfterChemistry(k)]
SavedInv ==
  /\ saved \subseteq {State(k) : k \in (1 .. MaxIter) \cap OutSave}
  /\ ~Loaded => saved = {}

DataInv == Shape /\ SetupInv /\ FieldsInv /\ BufferInv /\ SavedInv

IInv == LoopsInv /\ DataInv

LoopStep ==
  \/ Prepare \/ CountCell \/ Counted \/ CopyCell \/ NextPackage
  \/ Shuffled \/ WorkDone \/ PutBack \/ Unshuffled
----------------------------------------------------------------------------
(* The loops. *)

\* The number of packages.
LEMMA PackagesType ==
  ASSUME GridSize
  PROVE  n \in Nat \ {0} /\ n <= n_cells /\ n_cells <= n * wp_size
BY NPackagesType, NPackagesBound DEF GridSize, n

\* Every cell is in one of the packages.
LEMMA CellType ==
  ASSUME GridSize
  PROVE  \A c \in Cell : c \in Nat /\ c % n \in 0 .. n - 1
<1>1. n \in Nat \ {0} /\ \A c \in Cell : c \in Nat
  BY PackagesType DEF Cell, GridSize
<1>. QED
  BY <1>1, ModType

\* Where the cells go, in the words of this module.
LEMMA PlaceType ==
  ASSUME GridSize
  PROVE  /\ \A c \in Cell : Place(c) \in Cell
         /\ \A c, d \in Cell : Place(c) = Place(d) => c = d
         /\ \A q \in Cell : \E c \in Cell : Place(c) = q
<1>1. n_cells \in Nat /\ n \in Nat \ {0}
  BY PackagesType DEF GridSize
<1>2. \A c \in Cell : Place(c) \in Cell
  BY <1>1, PositionType DEF Cell, Place
<1>. QED
  BY <1>1, <1>2, ShuffleIsPermutation DEF Cell, Place

\* Nothing is copied when the loops start.
LEMMA NothingCopied ==
  ASSUME GridSize, i = 0, j = 0
  PROVE  /\ \A c \in Cell : ~Copied(c)
         /\ Cardinality({c \in Cell : Copied(c)}) = 0
<1>1. \A c \in Cell : c \in Nat /\ c % n \in 0 .. n - 1
  BY CellType
<1>2. \A c \in Cell : ~Copied(c)
  BY <1>1 DEF Copied
<1>. QED
  BY <1>2, FS_EmptySet

\* When the loops are through all packages, everything is copied.
LEMMA AllCopied ==
  ASSUME GridSize, i = n
  PROVE  /\ \A c \in Cell : Copied(c)
         /\ Cardinality({c \in Cell : Copied(c)}) = n_cells
<1>1. \A c \in Cell : c \in Nat /\ c % n \in 0 .. n - 1
  BY CellType
<1>2. \A c \in Cell : Copied(c)
  BY <1>1, PackagesType DEF Copied
<1>3. {c \in Cell : Copied(c)} = 0 .. n_cells - 1
  BY <1>2 DEF Cell
<1>4. Cardinality(0 .. n_cells - 1) = n_cells
  BY FS_Interval DEF GridSize
<1>. QED
  BY <1>2, <1>3, <1>4

\* At a cell the copied ones are those that come before it, so it goes to the
\* next row.
LEMMA CopiedBefore ==
  ASSUME GridSize, j \in Cell, j % n = i
  PROVE  /\ \A c \in Cell : Copied(c) <=> Before(n, c, j)
         /\ Cardinality({c \in Cell : Copied(c)}) = Place(j)
<1>1. \A c \in Cell : Copied(c) <=> Before(n, c, j)
  BY DEF Copied, Before
<1>2. {c \in Cell : Copied(c)} = {c \in 0 .. n_cells - 1 : Before(n, c, j)}
  BY <1>1 DEF Cell
<1>. QED
  BY <1>1, <1>2 DEF Place, Position

\* One pass of the inner loop copies one more cell.
LEMMA CopiedNext ==
  ASSUME GridSize, n' = n, n_cells' = n_cells, i' = i, j \in Cell, j % n = i,
         j' = j + n
  PROVE  /\ \A c \in Cell : Copied(c)' <=> Copied(c) \/ c = j
         /\ ~Copied(j)
         /\ Cardinality({c \in Cell : Copied(c)})' = Place(j) + 1
         /\ j' % n = i
<1>1. n \in Nat \ {0} /\ j \in Nat /\ i \in 0 .. n - 1
  BY PackagesType, CellType
<1>2. Cell \subseteq Nat /\ Cell' = Cell
  BY DEF Cell, GridSize
<1>3. \A c \in Cell : c % n = i /\ j <= c /\ c < j + n => c = j
  <2>. SUFFICES ASSUME NEW c \in Cell, c % n = i, j <= c, c < j + n
                PROVE  c = j
    OBVIOUS
  <2>1. /\ c = n * (c \div n) + i /\ c \div n \in Int
        /\ j = n * (j \div n) + i /\ j \div n \in Int
    <3>1. c \in Int /\ j \in Int
      BY <1>1, <1>2
    <3>. QED
      BY <1>1, <3>1, Division
  <2>. DEFINE a == c \div n
              b == j \div n
  <2>2. n * (a - b) \in 0 .. n - 1
    BY <1>1, <1>2, <2>1
  <2>3. \A x \in Int : n * x \in 0 .. n - 1 => x = 0
    BY <1>1
  <2>4. a - b = 0
    BY <2>1, <2>2, <2>3
  <2>. QED
    BY <2>1, <2>4
<1>4. \A c \in Cell : Copied(c)' <=> Copied(c) \/ c = j
  <2>1. \A c \in Cell : Copied(c)' <=> c % n < i \/ (c % n = i /\ c < j + n)
    BY DEF Copied
  <2>. QED
    BY <1>1, <1>2, <1>3, <2>1 DEF Copied
<1>5. ~Copied(j)
  BY <1>1 DEF Copied
<1>6. Cardinality({c \in Cell : Copied(c)})' = Place(j) + 1
  <2>. DEFINE S == {c \in Cell : Copied(c)}
  <2>1. S' = S \cup {j}
    BY <1>2, <1>4
  <2>2. j \notin S /\ S \in SUBSET (0 .. n_cells - 1)
    BY <1>5 DEF Cell
  <2>3. Cardinality(S) = Place(j)
    BY CopiedBefore
  <2>. HIDE DEF S
  <2>4. IsFiniteSet(S)
    BY <2>2, CellsFinite DEF GridSize
  <2>5. Cardinality(S') = Place(j) + 1
    BY <2>1, <2>2, <2>3, <2>4, FS_AddElement
  <2>. QED
    BY <2>5 DEF S
<1>7. j' % n = i
  <2>1. j = n * (j \div n) + i /\ j \div n \in Int
    BY <1>1, Division
  <2>2. j + n = n * ((j \div n) + 1) + i
    BY <1>1, <2>1
  <2>3. (n * ((j \div n) + 1) + i) % n = i
    <3>1. (j \div n) + 1 \in Int
      BY <2>1
    <3>. QED
      BY <1>1, <3>1, DivisionUnique
  <2>. QED
    BY <2>2, <2>3
<1>. QED
  BY <1>4, <1>5, <1>6, <1>7

\* The next package starts with the cells that were copied before.
LEMMA CopiedSame ==
  ASSUME GridSize, n' = n, n_cells' = n_cells, i \in 0 .. n - 1, j \in Nat,
         j >= n_cells, i' = i + 1, j' = i + 1
  PROVE  /\ \A c \in Cell : Copied(c)' <=> Copied(c)
         /\ {c \in Cell : Copied(c)}' = {c \in Cell : Copied(c)}
         /\ i' < n => j' % n = i'
<1>1. n \in Nat \ {0} /\ Cell' = Cell /\ Cell \subseteq Nat
  BY PackagesType DEF Cell, GridSize
<1>2. \A c \in Cell : c % n \in Int /\ c % n <= c
  BY <1>1
<1>3. \A c \in Cell : c < j
  BY DEF Cell, GridSize
<1>4. \A c \in Cell : Copied(c)' <=> Copied(c)
  <2>1. \A c \in Cell : Copied(c)' <=> c % n < i + 1 \/ (c % n = i + 1 /\ c < i + 1)
    BY DEF Copied
  <2>. QED
    BY <1>1, <1>2, <1>3, <2>1 DEF Copied
<1>5. {c \in Cell : Copied(c)}' = {c \in Cell : Copied(c)}
  BY <1>1, <1>4
<1>6. i + 1 < n => (i + 1) % n = i + 1
  BY <1>1
<1>. QED
  BY <1>4, <1>5, <1>6

\* Before the loops have run.
LEMMA LoopsInit ==
  ASSUME n_cells \in Nat \ {0}, wp_size \in Nat \ {0}, PartitionInit
  PROVE  LoopsInv
<1>1. GridSize
  BY DEF GridSize
<1>2. n \in Nat \ {0}
  BY <1>1, PackagesType
<1>3. PartitionTypeOK
  BY <1>1, <1>2 DEF PartitionInit, PartitionTypeOK, GridSize, Cell
<1>. QED
  BY <1>1, <1>3 DEF LoopsInv, SizesInv, CursorInv, BuffersInv, PartitionInit

\* The buffers start again in every time step.
LEMMA PrepareInv ==
  ASSUME LoopsInv, Prepare
  PROVE  LoopsInv'
<1>1. GridSize /\ n \in Nat \ {0} /\ GridSize'
  BY PackagesType DEF LoopsInv, Prepare, GridSize
<1>2. n' = n /\ Cell' = Cell
  BY DEF Prepare, n, Cell
<1>3. PartitionTypeOK'
  BY <1>1, <1>2 DEF Prepare, PartitionTypeOK, GridSize, Cell
<1>4. SizesInv'
  <2>1. \A p \in 0 .. n - 1 :
          PackageSize(0, n, p) = 0 /\ (0 + n - 1 - p) \div n = 0
    <3>. SUFFICES ASSUME NEW p \in 0 .. n - 1
                  PROVE  PackageSize(0, n, p) = 0 /\ (0 + n - 1 - p) \div n = 0
      OBVIOUS
    <3>1. {c \in 0 .. 0 - 1 : c % n = p} = {}
      OBVIOUS
    <3>2. (n * 0 + (n - 1 - p)) \div n = 0
      BY <1>1, DivisionUnique
    <3>3. n * 0 + (n - 1 - p) = 0 + n - 1 - p
      BY <1>1
    <3>. QED
      BY <3>1, <3>2, <3>3, FS_EmptySet DEF PackageSize
  <2>2. CountedTo(i)'
    BY <1>2, <2>1 DEF CountedTo, Prepare
  <2>. QED
    BY <2>2 DEF SizesInv, Prepare
<1>. QED
  BY <1>1, <1>3, <1>4 DEF LoopsInv, CursorInv, BuffersInv, Prepare

\* A cell is counted for its package, in the words of both closed forms.
LEMMA CountCellInv ==
  ASSUME LoopsInv, CountCell
  PROVE  LoopsInv'
<1>1. /\ GridSize /\ n \in Nat \ {0} /\ GridSize'
      /\ i \in Nat /\ i < n_cells /\ i % n \in 0 .. n - 1
  <2>1. /\ GridSize /\ n \in Nat \ {0} /\ GridSize'
        /\ i \in Nat /\ i < n_cells
    BY PackagesType DEF LoopsInv, CountCell, GridSize, PartitionTypeOK
  <2>. QED
    BY <2>1, ModType
<1>2. n' = n /\ Cell' = Cell
  BY DEF CountCell, n, Cell
<1>3. PartitionTypeOK /\ pc = "sizes" /\ CountedTo(i) /\ j = 0 /\ row = 0
  BY DEF LoopsInv, CountCell, SizesInv
<1>4. CountedTo(i)'
  <2>. SUFFICES ASSUME NEW p \in 0 .. n - 1
                PROVE  /\ sizes'[p] = PackageSize(i + 1, n, p)
                       /\ sizes'[p] = (i + 1 + n - 1 - p) \div n
    BY <1>2 DEF CountedTo, CountCell
  <2>1. sizes'[p] = sizes[p] + (IF i % n = p THEN 1 ELSE 0)
    BY <1>3 DEF CountCell, PartitionTypeOK
  <2>2. sizes[p] = PackageSize(i, n, p) /\ sizes[p] = (i + n - 1 - p) \div n
    BY <1>3 DEF CountedTo
  <2>3. PackageSize(i + 1, n, p)
          = PackageSize(i, n, p) + (IF i % n = p THEN 1 ELSE 0)
    BY <1>1, PackageSizeNext
  <2>4. (i + 1 + n - 1 - p) \div n
          = (i + n - 1 - p) \div n + (IF i % n = p THEN 1 ELSE 0)
    BY <1>1, QuotientNext
  <2>. QED
    BY <2>1, <2>2, <2>3, <2>4
<1>5. sizes' \in [0 .. n - 1 -> 0 .. n_cells]
  <2>1. \A p \in 0 .. n - 1 : sizes'[p] \in 0 .. n_cells
    <3>. SUFFICES ASSUME NEW p \in 0 .. n - 1
                  PROVE  sizes'[p] \in 0 .. n_cells
      OBVIOUS
    <3>1. PackageSize(i + 1, n, p) \in 0 .. i + 1
      <4>1. {c \in 0 .. (i + 1) - 1 : c % n = p} \in SUBSET (0 .. (i + 1) - 1)
        OBVIOUS
      <4>. QED
        BY <1>1, <4>1, CellsFinite DEF PackageSize
    <3>. QED
      BY <1>1, <1>2, <1>4, <3>1 DEF CountedTo, CountCell, GridSize
  <2>. QED
    BY <1>3, <2>1 DEF CountCell, PartitionTypeOK
<1>6. PartitionTypeOK'
  BY <1>1, <1>2, <1>3, <1>5 DEF CountCell, PartitionTypeOK, GridSize
<1>. QED
  BY <1>1, <1>3, <1>4, <1>6
     DEF LoopsInv, SizesInv, CursorInv, BuffersInv, CountCell

\* All cells are counted, none is copied.
LEMMA CountedInv ==
  ASSUME LoopsInv, Counted
  PROVE  LoopsInv'
<1>1. /\ GridSize /\ n \in Nat \ {0} /\ GridSize'
      /\ n_cells \in Nat
  BY PackagesType DEF LoopsInv, Counted, GridSize
<1>2. n' = n /\ Cell' = Cell
  BY DEF Counted, n, Cell
<1>3. PartitionTypeOK /\ CountedTo(n_cells) /\ j = 0 /\ row = 0
  BY DEF LoopsInv, Counted, SizesInv
<1>4. PartitionTypeOK'
  BY <1>1, <1>2, <1>3 DEF PartitionTypeOK, Counted, buffers
<1>5. CountedTo(n_cells)'
  BY <1>2, <1>3 DEF CountedTo, Counted, buffers
<1>6. /\ \A c \in Cell : ~Copied(c)'
      /\ Cardinality({c \in Cell : Copied(c)})' = 0
  <2>1. i' = 0 /\ j' = 0
    BY <1>3 DEF Counted
  <2>2. \A c \in Cell : ~(c % n < 0 \/ (c % n = 0 /\ c < 0))
    BY <1>1, CellType
  <2>3. \A c \in Cell : ~Copied(c)'
    BY <1>2, <2>1, <2>2 DEF Copied
  <2>4. {c \in Cell : Copied(c)}' = {}
    BY <1>2, <2>3
  <2>. QED
    BY <2>3, <2>4, FS_EmptySet
<1>7. CursorInv' /\ BuffersInv'
  BY <1>1, <1>2, <1>3, <1>6 DEF CursorInv, BuffersInv, Counted
<1>. QED
  BY <1>1, <1>4, <1>5, <1>7 DEF LoopsInv, SizesInv, Counted

\* The copying loops find cell j at the row that is its place, inside the
\* buffer, and are one row further behind it.
LEMMA CursorAt ==
  ASSUME LoopsInv, pc \in {"shuffle", "unshuffle"}, i < n, j < n_cells
  PROVE  /\ GridSize /\ n \in Nat \ {0} /\ j \in Cell /\ j % n = i
         /\ row = Place(j) /\ row \in Cell
<1>1. GridSize /\ n \in Nat \ {0} /\ j \in Cell /\ j % n = i
  BY PackagesType DEF LoopsInv, GridSize, CursorInv, PartitionTypeOK, Cell
<1>2. row = Place(j)
  BY <1>1, CopiedBefore DEF LoopsInv, CursorInv
<1>. QED
  BY <1>1, <1>2, PlaceType

LEMMA CopyCellInv ==
  ASSUME LoopsInv, CopyCell
  PROVE  LoopsInv'
<1>1. /\ GridSize /\ n \in Nat \ {0} /\ j \in Cell /\ j % n = i
      /\ row = Place(j) /\ row \in Cell /\ n_cells \in Nat
  BY CursorAt DEF CopyCell, GridSize
<1>2. n' = n /\ Cell' = Cell /\ n_cells' = n_cells /\ i' = i /\ j' = j + n
      /\ row' = row + 1 /\ out' = [out EXCEPT ![row] = j] /\ GridSize'
  BY <1>1 DEF CopyCell, n, Cell, GridSize
<1>3. PartitionTypeOK /\ CountedTo(n_cells) /\ pc = "shuffle" /\ pc' = "shuffle"
  BY DEF LoopsInv, CopyCell, SizesInv
<1>4. PartitionTypeOK'
  <2>1. out' \in [Cell -> Cell]
    BY <1>1, <1>2, <1>3 DEF PartitionTypeOK
  <2>2. row' \in 0 .. n_cells /\ j' \in 0 .. n_cells + n
    BY <1>1, <1>2 DEF Cell
  <2>3. sizes' = sizes /\ back' = back
    BY DEF CopyCell
  <2>. QED
    BY <1>2, <1>3, <2>1, <2>2, <2>3 DEF PartitionTypeOK
<1>5. /\ \A c \in Cell : Copied(c)' <=> Copied(c) \/ c = j
      /\ Cardinality({c \in Cell : Copied(c)})' = Place(j) + 1
      /\ j' % n = i
  BY <1>1, <1>2, CopiedNext
<1>6. SizesInv'
  BY <1>2, <1>3 DEF SizesInv, CountedTo, CopyCell
<1>7. CursorInv'
  BY <1>1, <1>2, <1>3, <1>5 DEF CursorInv, LoopsInv
<1>8. \A c \in Cell : Copied(c)' => out'[Place(c)] = c
  <2>. SUFFICES ASSUME NEW c \in Cell, Copied(c)'
                PROVE  out'[Place(c)] = c
    OBVIOUS
  <2>1. out \in [Cell -> Cell] /\ Place(c) \in Cell
    BY <1>1, <1>3, PlaceType DEF PartitionTypeOK
  <2>2. CASE c = j
    BY <1>1, <1>2, <2>1, <2>2
  <2>3. CASE c # j
    <3>1. Place(c) # row
      BY <1>1, <2>3, PlaceType
    <3>2. out[Place(c)] = c
      BY <1>3, <1>5, <2>3 DEF LoopsInv, BuffersInv
    <3>. QED
      BY <1>2, <2>1, <3>1, <3>2
  <2>. QED
    BY <2>2, <2>3
<1>9. \A c : Place(c)' = Place(c)
  BY <1>2 DEF Place
<1>10. BuffersInv'
  BY <1>2, <1>3, <1>8, <1>9 DEF BuffersInv
<1>. QED
  BY <1>2, <1>4, <1>6, <1>7, <1>10 DEF LoopsInv

LEMMA PutBackInv ==
  ASSUME LoopsInv, PutBack
  PROVE  LoopsInv'
<1>1. /\ GridSize /\ n \in Nat \ {0} /\ j \in Cell /\ j % n = i
      /\ row = Place(j) /\ row \in Cell /\ n_cells \in Nat
  BY CursorAt DEF PutBack, GridSize
<1>2. n' = n /\ Cell' = Cell /\ n_cells' = n_cells /\ i' = i /\ j' = j + n
      /\ row' = row + 1 /\ back' = [back EXCEPT ![j] = row] /\ GridSize'
  BY <1>1 DEF PutBack, n, Cell, GridSize
<1>3. PartitionTypeOK /\ CountedTo(n_cells) /\ pc = "unshuffle" /\ pc' = pc
  BY DEF LoopsInv, PutBack, SizesInv
<1>4. PartitionTypeOK'
  <2>1. back' \in [Cell -> Cell]
    BY <1>1, <1>2, <1>3 DEF PartitionTypeOK
  <2>2. row' \in 0 .. n_cells /\ j' \in 0 .. n_cells + n
    BY <1>1, <1>2 DEF Cell
  <2>3. sizes' = sizes /\ out' = out
    BY DEF PutBack
  <2>. QED
    BY <1>2, <1>3, <2>1, <2>2, <2>3 DEF PartitionTypeOK
<1>5. /\ \A c \in Cell : Copied(c)' <=> Copied(c) \/ c = j
      /\ Cardinality({c \in Cell : Copied(c)})' = Place(j) + 1
      /\ j' % n = i
  BY <1>1, <1>2, CopiedNext
<1>6. SizesInv'
  BY <1>2, <1>3 DEF SizesInv, CountedTo, PutBack
<1>7. CursorInv'
  BY <1>1, <1>2, <1>3, <1>5 DEF CursorInv, LoopsInv
<1>8. \A c \in Cell : Copied(c)' => back'[c] = Place(c)
  BY <1>1, <1>2, <1>3, <1>5 DEF LoopsInv, BuffersInv, PartitionTypeOK
<1>9. \A c : Place(c)' = Place(c)
  BY <1>2 DEF Place
<1>10. BuffersInv'
  BY <1>2, <1>3, <1>8, <1>9 DEF BuffersInv, PutBack, LoopsInv
<1>. QED
  BY <1>2, <1>4, <1>6, <1>7, <1>10 DEF LoopsInv

LEMMA NextPackageInv ==
  ASSUME LoopsInv, NextPackage
  PROVE  LoopsInv'
<1>1. /\ GridSize /\ n \in Nat \ {0} /\ n <= n_cells /\ n_cells \in Nat
      /\ i \in 0 .. n - 1 /\ j \in Nat /\ j >= n_cells
  BY PackagesType
     DEF LoopsInv, NextPackage, GridSize, CursorInv, PartitionTypeOK
<1>2. /\ n' = n /\ Cell' = Cell /\ n_cells' = n_cells /\ GridSize' /\ pc' = pc
      /\ i' = i + 1 /\ j' = i + 1 /\ row' = row
      /\ sizes' = sizes /\ out' = out /\ back' = back
  BY <1>1 DEF NextPackage, n, Cell, GridSize, buffers
<1>3. PartitionTypeOK /\ CountedTo(n_cells) /\ pc \in {"shuffle", "unshuffle"}
  BY DEF LoopsInv, NextPackage, SizesInv
<1>4. PartitionTypeOK'
  BY <1>1, <1>2, <1>3 DEF PartitionTypeOK
<1>5. /\ \A c \in Cell : Copied(c)' <=> Copied(c)
      /\ {c \in Cell : Copied(c)}' = {c \in Cell : Copied(c)}
      /\ i' < n => j' % n = i'
  BY <1>1, <1>2, CopiedSame
<1>6. SizesInv'
  BY <1>2, <1>3 DEF SizesInv, CountedTo
<1>7. CursorInv'
  <2>1. row = Cardinality({c \in Cell : Copied(c)})
    BY <1>3 DEF CursorInv, LoopsInv
  <2>2. row' = Cardinality({c \in Cell : Copied(c)})'
    BY <1>2, <1>5, <2>1
  <2>3. i' \in 0 .. n
    BY <1>1, <1>2
  <2>. QED
    BY <1>2, <1>3, <1>5, <2>2, <2>3 DEF CursorInv
<1>8. \A c : Place(c)' = Place(c)
  BY <1>2 DEF Place
<1>9. BuffersInv'
  BY <1>2, <1>3, <1>5, <1>8 DEF BuffersInv, LoopsInv
<1>. QED
  BY <1>2, <1>4, <1>6, <1>7, <1>9 DEF LoopsInv

LEMMA ShuffledInv ==
  ASSUME LoopsInv, Shuffled
  PROVE  LoopsInv'
<1>1. GridSize /\ i = n /\ row = Cardinality({c \in Cell : Copied(c)})
  BY DEF LoopsInv, Shuffled, CursorInv
<1>2. /\ n' = n /\ Cell' = Cell /\ n_cells' = n_cells /\ GridSize'
      /\ i' = i /\ j' = j /\ row' = row
      /\ sizes' = sizes /\ out' = out /\ back' = back
  BY <1>1 DEF Shuffled, n, Cell, GridSize, buffers
<1>3. PartitionTypeOK' /\ SizesInv'
  BY <1>2 DEF LoopsInv, PartitionTypeOK, SizesInv, CountedTo, Shuffled
<1>4. row = n_cells /\ \A c \in Cell : out[Place(c)] = c
  BY <1>1, AllCopied DEF LoopsInv, BuffersInv, Shuffled
<1>5. \A c : Place(c)' = Place(c)
  BY <1>2 DEF Place
<1>. QED
  BY <1>2, <1>3, <1>4, <1>5 DEF LoopsInv, CursorInv, BuffersInv, Shuffled

LEMMA WorkDoneInv ==
  ASSUME LoopsInv, WorkDone
  PROVE  LoopsInv'
<1>1. /\ GridSize /\ n \in Nat \ {0} /\ n_cells \in Nat
      /\ \A c \in Cell : out[Place(c)] = c
  BY PackagesType DEF LoopsInv, WorkDone, BuffersInv, GridSize
<1>2. /\ n' = n /\ Cell' = Cell /\ n_cells' = n_cells /\ GridSize'
      /\ i' = 0 /\ j' = 0 /\ row' = 0 /\ pc' = "unshuffle"
      /\ sizes' = sizes /\ out' = out /\ back' = back
  BY <1>1 DEF WorkDone, n, Cell, GridSize, buffers
<1>3. PartitionTypeOK' /\ SizesInv'
  BY <1>1, <1>2 DEF LoopsInv, PartitionTypeOK, SizesInv, CountedTo, WorkDone
<1>4. /\ \A c \in Cell : ~Copied(c)'
      /\ Cardinality({c \in Cell : Copied(c)})' = 0
  <2>1. \A c \in Cell : ~(c % n < 0 \/ (c % n = 0 /\ c < 0))
    BY <1>1, CellType
  <2>2. \A c \in Cell : ~Copied(c)'
    BY <1>2, <2>1 DEF Copied
  <2>3. {c \in Cell : Copied(c)}' = {}
    BY <1>2, <2>2
  <2>. QED
    BY <2>2, <2>3, FS_EmptySet
<1>5. \A c : Place(c)' = Place(c)
  BY <1>2 DEF Place
<1>6. CursorInv' /\ BuffersInv'
  <2>1. 0 < n /\ 0 % n = 0
    BY <1>1
  <2>. QED
    BY <1>1, <1>2, <1>4, <1>5, <2>1 DEF CursorInv, BuffersInv
<1>. QED
  BY <1>2, <1>3, <1>6 DEF LoopsInv

\* Every cell knows its row when the loops are through.
LEMMA UnshuffledInv ==
  ASSUME LoopsInv, Unshuffled
  PROVE  /\ LoopsInv'
         /\ \A c \in Cell : back[c] = Place(c)
<1>1. GridSize /\ i = n
  BY DEF LoopsInv, Unshuffled
<1>2. /\ n' = n /\ Cell' = Cell /\ n_cells' = n_cells /\ GridSize'
      /\ i' = i /\ j' = j /\ row' = row
      /\ sizes' = sizes /\ out' = out /\ back' = back
  BY <1>1 DEF Unshuffled, n, Cell, GridSize, buffers
<1>3. PartitionTypeOK'
  BY <1>2 DEF LoopsInv, PartitionTypeOK, Unshuffled
<1>4. \A c \in Cell : back[c] = Place(c)
  BY <1>1, AllCopied DEF LoopsInv, BuffersInv, Unshuffled
<1>. QED
  BY <1>2, <1>3, <1>4 DEF LoopsInv, SizesInv, CursorInv, BuffersInv, Unshuffled

\* A step that leaves the loops alone.
LEMMA LoopsUnchanged ==
  ASSUME LoopsInv, UNCHANGED loops
  PROVE  LoopsInv'
<1>1. /\ n' = n /\ Cell' = Cell /\ n_cells' = n_cells /\ GridSize' = GridSize
      /\ i' = i /\ j' = j /\ row' = row /\ pc' = pc
      /\ sizes' = sizes /\ out' = out /\ back' = back
  BY DEF loops, n, Cell, GridSize
<1>2. \A c : Place(c)' = Place(c) /\ (Copied(c)' <=> Copied(c))
  BY <1>1 DEF Place, Copied
<1>3. PartitionTypeOK' /\ SizesInv'
  BY <1>1 DEF LoopsInv, PartitionTypeOK, SizesInv, CountedTo
<1>4. CursorInv'
  <2>1. {c \in Cell : Copied(c)}' = {c \in Cell : Copied(c)}
    BY <1>1, <1>2
  <2>. QED
    BY <1>1, <2>1 DEF LoopsInv, CursorInv
<1>5. BuffersInv'
  BY <1>1, <1>2 DEF LoopsInv, BuffersInv
<1>. QED
  BY <1>1, <1>3, <1>4, <1>5 DEF LoopsInv

\* All of the loops together.
LEMMA LoopsNext ==
  ASSUME LoopsInv, LoopStep \/ UNCHANGED loops
  PROVE  LoopsInv'
BY PrepareInv, CountCellInv, CountedInv, CopyCellInv, NextPackageInv, ShuffledInv,
   WorkDoneInv, PutBackInv, UnshuffledInv, LoopsUnchanged DEF LoopStep

\* What follows from the invariant of the loops.
LEMMA LoopsFacts ==
  ASSUME LoopsInv
  PROVE  PackagesBalanced /\ ClosedForms /\ CutsAtPackages
<1>1. GridSize /\ n_cells \in Nat \ {0} /\ n \in Nat \ {0}
  BY PackagesType DEF LoopsInv, GridSize
<1>2. pc \notin {"idle", "sizes"} => CountedTo(n_cells)
  BY DEF LoopsInv, PartitionTypeOK, SizesInv
<1>3. PackagesBalanced
  <2>. SUFFICES ASSUME CountedTo(n_cells), NEW p \in 0 .. n - 1, NEW q \in 0 .. n - 1
                PROVE  sizes[p] \in 1 .. wp_size /\ sizes[p] <= sizes[q] + 1
    BY <1>2 DEF PackagesBalanced
  <2>1. /\ sizes[p] = (n_cells + n - 1 - p) \div n
        /\ sizes[q] = (n_cells + n - 1 - q) \div n
    BY DEF CountedTo
  <2>. QED
    BY <1>1, <2>1, QuotientBalanced DEF GridSize, n
<1>4. ClosedForms
  BY <1>2 DEF ClosedForms, CountedTo, LoopsInv, BuffersInv, Place
<1>5. CutsAtPackages
  <2>. SUFFICES ASSUME pc = "work", NEW p \in 0 .. n - 1
                PROVE  LET start == SizesBefore(n_cells, n, p)
                       IN  {out[q] : q \in start .. start + sizes[p] - 1}
                             = {c \in Cell : c % n = p}
    BY DEF CutsAtPackages
  <2>. DEFINE start == SizesBefore(n_cells, n, p)
              rows == start .. start + sizes[p] - 1
  <2>1. sizes[p] = PackageSize(n_cells, n, p) /\ \A c \in Cell : out[Place(c)] = c
    BY <1>2 DEF CountedTo, LoopsInv, BuffersInv
  <2>2. \A c \in Cell : c % n = p <=> Place(c) \in rows
    BY <1>1, <2>1, PackageAt DEF Cell, Place
  <2>3. rows \subseteq Cell
    <3>1. p \in Nat
      BY <1>1
    <3>2. /\ start \in 0 .. n_cells /\ PackageSize(n_cells, n, p) \in 0 .. n_cells
          /\ start + PackageSize(n_cells, n, p) \in 0 .. n_cells
      BY <1>1, <3>1, SizesBeforeNext
    <3>. QED
      BY <1>1, <2>1, <3>2 DEF Cell
  <2>. HIDE DEF rows
  <2>4. \A q \in rows : \E c \in Cell : Place(c) = q
    BY <1>1, <2>3, PlaceType
  <2>5. {out[q] : q \in rows} = {c \in Cell : c % n = p}
    BY <2>1, <2>2, <2>4
  <2>. QED
    BY <2>5 DEF rows
<1>. QED
  BY <1>3, <1>4, <1>5
----------------------------------------------------------------------------
(* Grids, vectors and rows. *)

\* The columns and their positions.
LEMMA PropsType ==
  /\ prop_count \in Nat \ {0}
  /\ DOMAIN Props = 1 .. prop_count
  /\ \A k \in 1 .. prop_count : Props[k] \in Species
  /\ \A s \in Species : \E k \in 1 .. prop_count : Props[k] = s
  /\ \A k, l \in 1 .. prop_count : Props[k] = Props[l] => k = l
  /\ Transported \subseteq Species
BY CouplingAssumption DEF Species, prop_count

\* The matrix of IDs, transposed and flattened, is the grid of the solver.
LEMMA GridMap ==
  ASSUME Shape
  PROVE  pqc_to_grid(input.rows, input.cols) = Map
<1>1. input.cols * input.rows = input.rows * input.cols
  BY DEF Shape
<1>. QED
  BY <1>1 DEF pqc_to_grid, RMatrix, Positions, Map, RowMajMatMap

\* Every position of the grid is a cell and the other way round.
LEMMA MapType ==
  ASSUME Shape
  PROVE  /\ Cell = Positions(input.rows, input.cols)
         /\ \A q \in Cell : Map[q] \in Cells(input.rows, input.cols)
         /\ \A x \in Cells(input.rows, input.cols) :
              /\ (x[1] - 1) * input.cols + x[2] - 1 \in Cell
              /\ Map[(x[1] - 1) * input.cols + x[2] - 1] = x
<1>1. Cell = 0 .. input.rows * input.cols - 1
  BY DEF Shape, Cell
<1>2. Map = [q \in Cell |-> <<(q \div input.cols) + 1, (q % input.cols) + 1>>]
  BY <1>1 DEF Map, RowMajMatMap, Positions
<1>3. \A q \in Cell : Map[q] \in Cells(input.rows, input.cols)
  <2>. SUFFICES ASSUME NEW q \in Cell
                PROVE  Map[q] \in Cells(input.rows, input.cols)
    OBVIOUS
  <2>1. q \div input.cols \in 0 .. input.rows - 1 /\ q % input.cols \in 0 .. input.cols - 1
    BY <1>1, IndexParts DEF Shape
  <2>2. /\ (q \div input.cols) + 1 \in 1 .. input.rows
        /\ (q % input.cols) + 1 \in 1 .. input.cols
    BY <2>1 DEF Shape
  <2>. QED
    BY <1>2, <2>2 DEF Cells
<1>4. ASSUME NEW x \in Cells(input.rows, input.cols)
      PROVE  /\ (x[1] - 1) * input.cols + x[2] - 1 \in Cell
             /\ Map[(x[1] - 1) * input.cols + x[2] - 1] = x
  <2>1. x[1] \in 1 .. input.rows /\ x[2] \in 1 .. input.cols /\ x = <<x[1], x[2]>>
    BY DEF Cells
  <2>2. x[1] - 1 \in 0 .. input.rows - 1 /\ x[2] - 1 \in 0 .. input.cols - 1
    BY <2>1 DEF Shape
  <2>. DEFINE a == x[1] - 1
              r == x[2] - 1
              q == a * input.cols + r
  <2>3. (x[1] - 1) * input.cols + x[2] - 1 = q
    BY <2>1 DEF Shape
  <2>4. q \in Cell /\ q \div input.cols = a /\ q % input.cols = r
    <3>1. a \in 0 .. input.rows - 1 /\ r \in 0 .. input.cols - 1
      BY <2>2
    <3>. DEFINE R == input.rows
                C == input.cols
    <3>2. R \in Nat /\ C \in Nat \ {0} /\ a \in 0 .. R - 1 /\ r \in 0 .. C - 1
      BY <3>1 DEF Shape
    <3>3. q = a * C + r /\ Cell = 0 .. R * C - 1
      BY <1>1
    <3>. HIDE DEF a, r, R, C
    <3>4. /\ a * C + r \in 0 .. R * C - 1
          /\ (a * C + r) \div C = a /\ (a * C + r) % C = r
      BY <3>2, IndexOf
    <3>. HIDE DEF q
    <3>. QED
      BY <3>3, <3>4 DEF C
  <2>5. Map[q] = <<a + 1, r + 1>>
    BY <1>2, <2>4
  <2>6. a + 1 = x[1] /\ r + 1 = x[2]
    BY <2>1
  <2>. QED
    BY <2>1, <2>3, <2>4, <2>5, <2>6
<1>. QED
  BY <1>1, <1>3, <1>4 DEF Positions

\* The fields of the invariant are fields.
LEMMA ColumnType ==
  ASSUME Shape, NEW t \in 0 .. MaxIter, NEW c \in 0 .. MaxIter
  PROVE  Column(t, c) \in [Cell -> Values]
<1>1. \A q \in Cell : Map[q] \in Cells(input.rows, input.cols)
  BY MapType
<1>. QED
  BY <1>1 DEF Column, Value, Values

LEMMA FieldTypes ==
  ASSUME Shape, NEW k \in 0 .. MaxIter
  PROVE  /\ AfterChemistry(k) \in Fields
         /\ k # 0 => AfterTransport(k) \in Fields
<1>1. AfterChemistry(k) \in Fields
  <2>1. Column(k, k) \in [Cell -> Values]
    BY ColumnType
  <2>. QED
    BY <2>1 DEF AfterChemistry, Fields
<1>2. ASSUME k # 0 PROVE AfterTransport(k) \in Fields
  <2>1. k - 1 \in 0 .. MaxIter
    BY <1>2, CouplingAssumption
  <2>2. /\ Column(k, k - 1) \in [Cell -> Values]
        /\ Column(k - 1, k - 1) \in [Cell -> Values]
    BY <2>1, ColumnType
  <2>. QED
    BY <2>2 DEF AfterTransport, Fields
<1>. QED
  BY <1>1, <1>2

\* The solver moves a column in order on, whatever the shape of the grid.
LEMMA DiffusedColumn ==
  ASSUME Shape, param_list.n_rows = input.rows, param_list.n_cols = input.cols,
         NEW k \in 0 .. MaxIter
  PROVE  Diffused(Column(k, k)) = Column(k + 1, k)
<1>1. \A q \in Cell : Column(k, k)[q] = Value(Map[q], k, k)
  BY DEF Column
<1>2. Diffused(Column(k, k)) = [q \in Cell |-> [Column(k, k)[q] EXCEPT !.t = @ + 1]]
  BY <1>1 DEF Diffused, Map
<1>3. \A q \in Cell :
        [Column(k, k)[q] EXCEPT !.t = @ + 1] = Value(Map[q], k + 1, k)
  <2>1. \A x : [Value(x, k, k) EXCEPT !.t = @ + 1] = Value(x, k + 1, k)
    BY DEF Value
  <2>2. \A q \in Cell :
          [Column(k, k)[q] EXCEPT !.t = @ + 1]
            = [Value(Map[q], k, k) EXCEPT !.t = @ + 1]
    BY <1>1
  <2>. QED
    BY <2>1, <2>2
<1>. QED
  BY <1>2, <1>3 DEF Column

\* A field has all columns, so that an update replaces all of them.
LEMMA UpdateAll ==
  ASSUME NEW X, NEW f \in [Species -> X], NEW g \in [Species -> X]
  PROVE  Update(f, g) = g
BY DEF Update

\* An entry of a vector of columns, and the row of the shuffled field and the
\* column that it is found at.
LEMMA VectorIndex ==
  ASSUME GridSize, NEW k \in 1 .. prop_count, NEW q \in Cell
  PROVE  /\ (k - 1) * n_cells + q \in 0 .. prop_count * n_cells - 1
         /\ ((k - 1) * n_cells + q) \div n_cells = k - 1
         /\ ((k - 1) * n_cells + q) % n_cells = q
         /\ q * prop_count + (k - 1) \in 0 .. prop_count * n_cells - 1
         /\ (q * prop_count + (k - 1)) \div prop_count = q
         /\ (q * prop_count + (k - 1)) % prop_count = k - 1
<1>1. n_cells \in Nat \ {0} /\ prop_count \in Nat \ {0} /\ q \in 0 .. n_cells - 1
  BY PropsType DEF GridSize, Cell
<1>. DEFINE a == k - 1
<1>2. a \in 0 .. prop_count - 1
  BY <1>1
<1>. HIDE DEF a
<1>3. /\ a * n_cells + q \in 0 .. prop_count * n_cells - 1
      /\ (a * n_cells + q) \div n_cells = a
      /\ (a * n_cells + q) % n_cells = q
  BY <1>1, <1>2, IndexOf
<1>4. /\ q * prop_count + a \in 0 .. n_cells * prop_count - 1
      /\ (q * prop_count + a) \div prop_count = q
      /\ (q * prop_count + a) % prop_count = a
  BY <1>1, <1>2, IndexOf
<1>5. n_cells * prop_count = prop_count * n_cells
  BY <1>1
<1>. QED
  BY <1>3, <1>4, <1>5 DEF a

LEMMA VectorParts ==
  ASSUME GridSize, NEW q \in 0 .. prop_count * n_cells - 1
  PROVE  /\ q \in Nat /\ (q % prop_count) + 1 \in 1 .. prop_count
         /\ q \div prop_count \in Cell
         /\ q = (q \div prop_count) * prop_count + (q % prop_count)
         /\ q % n_cells \in Cell /\ (q \div n_cells) + 1 \in 1 .. prop_count
         /\ q \div n_cells \in Nat
<1>1. n_cells \in Nat \ {0} /\ prop_count \in Nat \ {0} /\ Cell = 0 .. n_cells - 1
  BY PropsType DEF GridSize, Cell
<1>2. n_cells * prop_count = prop_count * n_cells
  BY <1>1
<1>3. /\ q \in Nat /\ q \div n_cells \in 0 .. prop_count - 1
      /\ q % n_cells \in 0 .. n_cells - 1
  BY <1>1, IndexParts
<1>4. /\ q \div prop_count \in 0 .. n_cells - 1
      /\ q % prop_count \in 0 .. prop_count - 1
      /\ q = (q \div prop_count) * prop_count + (q % prop_count)
  BY <1>1, <1>2, IndexParts
<1>. QED
  BY <1>1, <1>3, <1>4

\* A field written into a vector and read back is the same field.
LEMMA VectorRoundTrip ==
  ASSUME GridSize, NEW X, NEW f \in [Species -> [Cell -> X]]
  PROVE  FromVector(AsVector(f)) = f
<1>1. ASSUME NEW s \in Species, NEW k \in DOMAIN Props, Props[k] = s
      PROVE  [q \in Cell |-> AsVector(f)[(k - 1) * n_cells + q]] = f[s]
  <2>1. \A q \in Cell : AsVector(f)[(k - 1) * n_cells + q] = f[s][q]
    <3>. SUFFICES ASSUME NEW q \in Cell
                  PROVE  AsVector(f)[(k - 1) * n_cells + q] = f[s][q]
      OBVIOUS
    <3>1. k \in 1 .. prop_count /\ (k - 1) + 1 = k
      BY PropsType
    <3>. QED
      BY <1>1, <3>1, VectorIndex DEF AsVector
  <2>. QED
    BY <1>1, <2>1
<1>2. \A s \in Species : \E k \in DOMAIN Props : Props[k] = s
  BY PropsType
<1>. QED
  BY <1>1, <1>2 DEF FromVector

\* What FillBuffer puts into the buffer.
LEMMA BufferFilled ==
  ASSUME GridSize, out \in [Cell -> Cell],
         NEW X, NEW f \in [Species -> [Cell -> X]]
  PROVE  [q \in 0 .. prop_count * n_cells - 1 |->
            AsVector(f)[(q % prop_count) * n_cells + out[q \div prop_count]]]
           = Buffer(f)
<1>1. ASSUME NEW q \in 0 .. prop_count * n_cells - 1
      PROVE  AsVector(f)[(q % prop_count) * n_cells + out[q \div prop_count]]
               = f[Props[(q % prop_count) + 1]][out[q \div prop_count]]
  <2>. DEFINE k == (q % prop_count) + 1
              c == out[q \div prop_count]
  <2>1. k \in 1 .. prop_count /\ c \in Cell /\ k - 1 = q % prop_count
    BY VectorParts, PropsType
  <2>. HIDE DEF k, c
  <2>2. AsVector(f)[(k - 1) * n_cells + c] = f[Props[k]][c]
    <3>1. (k - 1) + 1 = k
      BY <2>1
    <3>. QED
      BY <2>1, <3>1, VectorIndex DEF AsVector
  <2>. QED
    BY <2>1, <2>2 DEF k, c
<1>. QED
  BY <1>1 DEF Buffer

\* The rows of the buffer are of one cell each, and react to what chemistry is
\* to make of it.
LEMMA BufferReacted ==
  ASSUME GridSize, Shape, out \in [Cell -> Cell], NEW k \in 1 .. MaxIter,
         mpi_buffer = Buffer(AfterTransport(k))
  PROVE  [q \in DOMAIN mpi_buffer |->
            LET first == q - (q % prop_count)
            IN  React([s \in 1 .. prop_count |-> mpi_buffer[first + s - 1]])
                  [(q % prop_count) + 1]]
           = Buffer(AfterChemistry(k))
<1>. DEFINE Row(q) == [s \in 1 .. prop_count |-> mpi_buffer[q - (q % prop_count) + s - 1]]
<1>1. ASSUME NEW q \in 0 .. prop_count * n_cells - 1
      PROVE  React(Row(q))[(q % prop_count) + 1]
               = AfterChemistry(k)[Props[(q % prop_count) + 1]][out[q \div prop_count]]
  <2>. DEFINE a == q \div prop_count
              c == out[a]
              x == Map[c]
  <2>1. /\ a \in Cell /\ c \in Cell /\ x \in Cells(input.rows, input.cols)
        /\ (q % prop_count) + 1 \in 1 .. prop_count
        /\ q - (q % prop_count) = a * prop_count
    <3>1. /\ a \in Cell /\ (q % prop_count) + 1 \in 1 .. prop_count
          /\ q - (q % prop_count) = a * prop_count
      <4>1. /\ q \in Nat /\ (q % prop_count) + 1 \in 1 .. prop_count /\ a \in Cell
            /\ q = a * prop_count + (q % prop_count)
        BY VectorParts
      <4>2. prop_count \in Nat \ {0} /\ a \in Nat /\ q % prop_count \in Nat
        BY <4>1, PropsType DEF Cell, GridSize
      <4>. QED
        BY <4>1, <4>2
    <3>. QED
      BY <3>1, MapType
  <2>. HIDE DEF a, c, x
  <2>2. ASSUME NEW s \in 1 .. prop_count
        PROVE  Row(q)[s] = Value(x, IF Props[s] \in Transported THEN k ELSE k - 1, k - 1)
    <3>1. /\ a * prop_count + (s - 1) \in 0 .. prop_count * n_cells - 1
          /\ (a * prop_count + (s - 1)) \div prop_count = a
          /\ (a * prop_count + (s - 1)) % prop_count = s - 1
      BY <2>1, VectorIndex
    <3>2. Row(q)[s] = mpi_buffer[a * prop_count + (s - 1)]
      <4>1. a * prop_count \in Int
        BY <2>1, PropsType DEF Cell, GridSize
      <4>2. a * prop_count + s - 1 = a * prop_count + (s - 1)
        BY <4>1
      <4>. QED
        BY <2>1, <4>2
    <3>3. Row(q)[s] = AfterTransport(k)[Props[s]][c]
      <4>1. (s - 1) + 1 = s
        OBVIOUS
      <4>. QED
        BY <3>1, <3>2, <4>1 DEF Buffer, c
    <3>4. Props[s] \in Species
      BY PropsType
    <3>. QED
      BY <2>1, <3>3, <3>4 DEF AfterTransport, Column, x
  <2>. HIDE DEF Row
  <2>3. React(Row(q)) = [s \in 1 .. prop_count |-> Value(x, k, k)]
    <3>1. \E y \in Cells(input.rows, input.cols), l \in 0 .. MaxIter :
            \A s \in 1 .. prop_count :
              Row(q)[s] = Value(y, IF Props[s] \in Transported THEN l + 1 ELSE l, l)
      <4>1. k - 1 \in 0 .. MaxIter /\ (k - 1) + 1 = k
        BY CouplingAssumption
      <4>. QED
        BY <2>1, <2>2, <4>1
    <3>2. Row(q)[1].at = x /\ Row(q)[1].c + 1 = k
      <4>1. 1 \in 1 .. prop_count /\ (k - 1) + 1 = k
        BY PropsType
      <4>2. \E t : Row(q)[1] = Value(x, t, k - 1)
        BY <2>2, <4>1
      <4>3. \A t : Value(x, t, k - 1).at = x /\ Value(x, t, k - 1).c = k - 1
        BY DEF Value
      <4>. QED
        BY <4>1, <4>2, <4>3
    <3>. QED
      BY <3>1, <3>2 DEF React
  <2>4. AfterChemistry(k)[Props[(q % prop_count) + 1]][c] = Value(x, k, k)
    BY <2>1, PropsType DEF AfterChemistry, Column, x
  <2>. QED
    BY <2>1, <2>3, <2>4 DEF c, a
<1>2. DOMAIN mpi_buffer = 0 .. prop_count * n_cells - 1
  BY DEF Buffer
<1>. QED
  BY <1>1, <1>2 DEF Buffer

\* The rows go back to where the cells were.
LEMMA BufferTaken ==
  ASSUME GridSize, NEW X, NEW f \in [Species -> [Cell -> X]], mpi_buffer = Buffer(f),
         \A c \in Cell : out[Place(c)] = c /\ back[c] = Place(c)
  PROVE  FromVector([q \in DOMAIN mpi_buffer |->
                       mpi_buffer[back[q % n_cells] * prop_count + (q \div n_cells)]])
           = f
<1>. DEFINE vec == [q \in DOMAIN mpi_buffer |->
                      mpi_buffer[back[q % n_cells] * prop_count + (q \div n_cells)]]
<1>1. ASSUME NEW s \in Species, NEW k \in DOMAIN Props, Props[k] = s
      PROVE  [q \in Cell |-> vec[(k - 1) * n_cells + q]] = f[s]
  <2>1. ASSUME NEW q \in Cell PROVE vec[(k - 1) * n_cells + q] = f[s][q]
    <3>1. k \in 1 .. prop_count /\ (k - 1) + 1 = k
      BY PropsType
    <3>2. Place(q) \in Cell /\ back[q] = Place(q) /\ out[Place(q)] = q
      BY PlaceType
    <3>3. /\ (k - 1) * n_cells + q \in DOMAIN mpi_buffer
          /\ ((k - 1) * n_cells + q) \div n_cells = k - 1
          /\ ((k - 1) * n_cells + q) % n_cells = q
      BY <3>1, VectorIndex DEF Buffer
    <3>4. /\ Place(q) * prop_count + (k - 1) \in DOMAIN mpi_buffer
          /\ (Place(q) * prop_count + (k - 1)) \div prop_count = Place(q)
          /\ (Place(q) * prop_count + (k - 1)) % prop_count = k - 1
      BY <3>1, <3>2, VectorIndex DEF Buffer
    <3>5. vec[(k - 1) * n_cells + q] = mpi_buffer[Place(q) * prop_count + (k - 1)]
      BY <3>2, <3>3
    <3>6. mpi_buffer[Place(q) * prop_count + (k - 1)] = f[Props[k]][out[Place(q)]]
      BY <3>1, <3>4 DEF Buffer
    <3>. QED
      BY <1>1, <3>2, <3>5, <3>6
  <2>. QED
    BY <1>1, <2>1
<1>2. \A s \in Species : \E k \in DOMAIN Props : Props[k] = s
  BY PropsType
<1>. HIDE DEF vec
<1>3. FromVector(vec) = f
  BY <1>1, <1>2 DEF FromVector
<1>. QED
  BY <1>3 DEF vec
----------------------------------------------------------------------------
(* The simulation. *)

\* What stays the same while the script and the grid do.
LEMMA SameGrid ==
  ASSUME UNCHANGED <<input, n_cells>>
  PROVE  /\ \A k : AfterTransport(k)' = AfterTransport(k)
         /\ \A k : AfterChemistry(k)' = AfterChemistry(k)
         /\ \A k : State(k)' = State(k)
         /\ Shape' = Shape /\ Cell' = Cell
<1>1. Cell' = Cell /\ Map' = Map /\ Shape' = Shape
  BY DEF Cell, Map, Shape
<1>2. \A t, c : Column(t, c)' = Column(t, c)
  BY <1>1 DEF Column
<1>3. \A k : AfterTransport(k)' = AfterTransport(k)
  BY <1>2 DEF AfterTransport
<1>4. \A k : AfterChemistry(k)' = AfterChemistry(k)
  BY <1>2 DEF AfterChemistry
<1>. QED
  BY <1>1, <1>3, <1>4 DEF State

\* The steps of the simulation and the loops that they run.
LEMMA NextLoops ==
  ASSUME Next
  PROVE  UNCHANGED input /\ (LoopStep \/ UNCHANGED loops)
BY DEF Next, RejectGrid, initializeFromList, importList, Diffuse, ToChemistry,
       StartChemistry, RunLoops, FillBuffer, RunPackages, TakeResults,
       SaveIteration, BackToTransport, LoopStep

LEMMA LoopsConstant ==
  ASSUME LoopStep \/ UNCHANGED loops
  PROVE  UNCHANGED <<n_cells, wp_size>>
BY DEF LoopStep, loops, Prepare, CountCell, Counted, CopyCell, NextPackage, Shuffled,
       WorkDone, PutBack, Unshuffled

LEMMA NextSameGrid ==
  ASSUME Next
  PROVE  UNCHANGED <<input, n_cells>>
BY NextLoops, LoopsConstant

\* The saved states are not touched, and once the grid is loaded it stays so.
LEMMA SavedSame ==
  ASSUME SavedInv, UNCHANGED <<input, n_cells, saved>>, ~Loaded' => ~Loaded
  PROVE  SavedInv'
BY SameGrid DEF SavedInv

LEMMA RejectGridData ==
  ASSUME IInv, RejectGrid
  PROVE  DataInv'
<1>1. UNCHANGED <<input, n_cells, pc>> /\ Shape'
  BY SameGrid DEF RejectGrid, loops, IInv, DataInv
<1>2. SavedInv'
  BY <1>1, SavedSame DEF RejectGrid, IInv, DataInv, Loaded
<1>3. SetupInv' /\ FieldsInv' /\ BufferInv'
  BY <1>1 DEF RejectGrid, IInv, DataInv, Loaded, SetupInv, FieldsInv, BufferInv
<1>. QED
  BY <1>1, <1>2, <1>3 DEF DataInv

LEMMA initializeFromListData ==
  ASSUME IInv, initializeFromList
  PROVE  DataInv'
<1>1. UNCHANGED <<input, n_cells, pc>> /\ Shape' /\ Shape
  BY SameGrid DEF initializeFromList, loops, IInv, DataInv
<1>2. SavedInv'
  BY <1>1, SavedSame DEF initializeFromList, IInv, DataInv, Loaded
<1>3. setup'.specs = <<input.rows, input.cols>>
      /\ setup'.initial = AfterChemistry(0)
  BY <1>1, GridMap DEF initializeFromList, AfterChemistry, Column
<1>4. SetupInv'
  <2>1. (AfterChemistry(0))' = AfterChemistry(0)
    BY <1>1, SameGrid
  <2>. QED
    BY <1>1, <1>3, <2>1 DEF initializeFromList, Loaded, SetupInv
<1>5. FieldsInv' /\ BufferInv'
  BY <1>1 DEF initializeFromList, IInv, DataInv, Loaded, FieldsInv, BufferInv
<1>. QED
  BY <1>1, <1>2, <1>4, <1>5 DEF DataInv

LEMMA importListData ==
  ASSUME IInv, importList
  PROVE  DataInv'
<1>1. UNCHANGED <<input, n_cells, pc>> /\ Shape'
  BY SameGrid DEF importList, loops, IInv, DataInv
<1>2. SavedInv'
  BY <1>1, SameGrid DEF importList, IInv, DataInv, Loaded, SavedInv
<1>3. SetupInv'
  BY <1>1 DEF importList, IInv, DataInv, Loaded, SetupInv
<1>4. FieldsInv'
  <2>1. iter' = 1 /\ iter' - 1 = 0 /\ 1 \in 1 .. MaxIter + 1
    BY CouplingAssumption DEF importList, IInv, DataInv, Loaded, FieldsInv
  <2>2. transport' = AfterChemistry(0) /\ chem' = AfterChemistry(0)
    BY DEF importList, IInv, DataInv, SetupInv
  <2>3. (AfterChemistry(iter - 1))' = AfterChemistry(iter' - 1)
    BY <1>1, SameGrid
  <2>4. stage' = "transport"
    BY DEF importList
  <2>. QED
    BY <2>1, <2>2, <2>3, <2>4 DEF FieldsInv, Loaded
<1>5. BufferInv'
  BY <1>1 DEF importList, IInv, DataInv, BufferInv
<1>. QED
  BY <1>1, <1>2, <1>3, <1>4, <1>5 DEF DataInv

\* After transport the columns of the transported species are one step ahead.
LEMMA DiffuseData ==
  ASSUME IInv, Diffuse
  PROVE  DataInv'
<1>1. /\ UNCHANGED <<input, n_cells, pc, iter, saved, param_list, chem, mpi_buffer>>
      /\ Shape /\ Shape' /\ stage = "transport" /\ stage' = "exchange"
  BY SameGrid DEF Diffuse, loops, IInv, DataInv
<1>2. SavedInv'
  BY <1>1, SavedSame DEF IInv, DataInv, Loaded
<1>3. SetupInv'
  BY <1>1 DEF IInv, DataInv, Loaded, SetupInv
<1>4. iter \in 1 .. MaxIter /\ iter - 1 \in 0 .. MaxIter /\ (iter - 1) + 1 = iter
  BY CouplingAssumption DEF Diffuse, IInv, DataInv, FieldsInv
<1>5. Diffused(Column(iter - 1, iter - 1)) = Column(iter, iter - 1)
  BY <1>1, <1>4, DiffusedColumn DEF IInv, DataInv, SetupInv, Loaded
<1>6. transport = AfterChemistry(iter - 1) /\ chem = AfterChemistry(iter - 1)
  BY <1>1 DEF IInv, DataInv, FieldsInv
<1>7. transport' = AfterTransport(iter)
  BY <1>5, <1>6 DEF Diffuse, AfterTransport, AfterChemistry
<1>8. FieldsInv'
  <2>1. /\ (AfterTransport(iter))' = AfterTransport(iter)
        /\ (AfterChemistry(iter - 1))' = AfterChemistry(iter - 1)
    BY <1>1, SameGrid
  <2>2. iter' \in 1 .. MaxIter + 1 /\ iter' <= MaxIter
    BY <1>1, <1>4, CouplingAssumption
  <2>3. transport' = (AfterTransport(iter))' /\ chem' = (AfterChemistry(iter - 1))'
    BY <1>1, <1>6, <1>7, <2>1
  <2>. QED
    BY <1>1, <2>2, <2>3 DEF FieldsInv, Loaded
<1>9. BufferInv'
  BY <1>1 DEF IInv, DataInv, BufferInv
<1>. QED
  BY <1>1, <1>2, <1>3, <1>8, <1>9 DEF DataInv

LEMMA ToChemistryData ==
  ASSUME IInv, ToChemistry
  PROVE  DataInv'
<1>1. /\ UNCHANGED <<input, n_cells, pc, iter, saved, param_list, transport, mpi_buffer>>
      /\ Shape /\ Shape' /\ stage = "exchange" /\ stage' = "chemistry"
      /\ iter <= MaxIter /\ pc = "idle"
  BY SameGrid DEF ToChemistry, loops, IInv, DataInv, FieldsInv, BufferInv
<1>2. SavedInv'
  BY <1>1, SavedSame DEF IInv, DataInv, Loaded
<1>3. SetupInv'
  BY <1>1 DEF IInv, DataInv, Loaded, SetupInv
<1>4. transport = AfterTransport(iter) /\ chem = AfterChemistry(iter - 1)
  BY <1>1 DEF IInv, DataInv, FieldsInv
<1>5. chem' = AfterTransport(iter)
  BY <1>4 DEF ToChemistry, Update, AfterTransport, AfterChemistry
<1>6. FieldsInv'
  <2>1. (AfterTransport(iter))' = AfterTransport(iter)
    BY <1>1, SameGrid
  <2>2. iter \in 1 .. MaxIter + 1
    BY DEF IInv, DataInv, FieldsInv
  <2>. QED
    BY <1>1, <1>4, <1>5, <2>1, <2>2 DEF FieldsInv, Loaded
<1>7. BufferInv'
  BY <1>1 DEF IInv, DataInv, BufferInv
<1>. QED
  BY <1>1, <1>2, <1>3, <1>6, <1>7 DEF DataInv

\* A step of the loops that has no row to move.
LEMMA FieldsSame ==
  ASSUME IInv, UNCHANGED <<input, n_cells, iter, saved, setup, param_list, stage,
                           transport, chem>>
  PROVE  Shape' /\ SavedInv' /\ SetupInv' /\ FieldsInv'
<1>1. /\ Shape'
      /\ \A k : AfterTransport(k)' = AfterTransport(k)
      /\ \A k : AfterChemistry(k)' = AfterChemistry(k)
  BY SameGrid DEF IInv, DataInv
<1>2. SavedInv'
  BY SavedSame DEF IInv, DataInv, Loaded
<1>3. SetupInv'
  BY <1>1 DEF IInv, DataInv, Loaded, SetupInv
<1>4. FieldsInv'
  <2>1. /\ (AfterTransport(iter))' = AfterTransport(iter)
        /\ (AfterChemistry(iter))' = AfterChemistry(iter)
        /\ (AfterChemistry(iter - 1))' = AfterChemistry(iter - 1)
    BY <1>1
  <2>. QED
    BY <2>1 DEF IInv, DataInv, Loaded, FieldsInv
<1>. QED
  BY <1>1, <1>2, <1>3, <1>4

LEMMA StartChemistryData ==
  ASSUME IInv, StartChemistry
  PROVE  DataInv'
<1>1. UNCHANGED <<input, n_cells, iter, saved, setup, param_list, stage, transport, chem>>
  BY DEF StartChemistry, Prepare
<1>2. BufferInv'
  BY DEF StartChemistry, Prepare, IInv, DataInv, BufferInv
<1>. QED
  BY <1>1, <1>2, FieldsSame DEF DataInv

LEMMA RunLoopsData ==
  ASSUME IInv, RunLoops
  PROVE  DataInv'
<1>1. /\ UNCHANGED <<input, n_cells, iter, saved, setup, param_list, stage, transport,
                     chem, mpi_buffer>>
      /\ pc \in {"sizes", "shuffle", "unshuffle"}
      /\ pc' \in {"sizes", "shuffle", "unshuffle"}
      /\ pc = "unshuffle" <=> pc' = "unshuffle"
      /\ pc = "unshuffle" => out' = out
  BY DEF RunLoops, CountCell, Counted, CopyCell, NextPackage, PutBack, buffers
<1>2. BufferInv'
  <2>1. stage = "chemistry"
    BY <1>1 DEF IInv, DataInv, BufferInv
  <2>2. CASE pc = "unshuffle"
    <3>1. (Buffer(AfterChemistry(iter)))' = Buffer(AfterChemistry(iter))
      <4>1. (AfterChemistry(iter))' = AfterChemistry(iter)
        BY <1>1, SameGrid
      <4>. QED
        BY <1>1, <2>2, <4>1 DEF Buffer
    <3>. QED
      BY <1>1, <2>1, <2>2, <3>1 DEF IInv, DataInv, BufferInv
  <2>3. CASE pc # "unshuffle"
    BY <1>1, <2>1, <2>3 DEF IInv, DataInv, BufferInv
  <2>. QED
    BY <2>2, <2>3
<1>. QED
  BY <1>1, <1>2, FieldsSame DEF DataInv

\* The invariant gives FillBuffer a field to shuffle.
LEMMA FillBufferData ==
  ASSUME IInv, FillBuffer
  PROVE  DataInv'
<1>1. /\ UNCHANGED <<input, n_cells, iter, saved, setup, param_list, stage, transport,
                     chem, out>>
      /\ pc = "shuffle" /\ pc' = "work"
  BY DEF FillBuffer, Shuffled, buffers
<1>2. stage = "chemistry" /\ GridSize /\ Shape /\ out \in [Cell -> Cell]
  BY <1>1 DEF IInv, DataInv, BufferInv, LoopsInv, PartitionTypeOK
<1>3. chem = AfterTransport(iter) /\ iter \in 1 .. MaxIter
  BY <1>2 DEF IInv, DataInv, FieldsInv
<1>4. chem \in [Species -> [Cell -> Values]]
  <2>1. iter \in 0 .. MaxIter /\ iter # 0
    BY <1>3, CouplingAssumption
  <2>. QED
    BY <1>2, <1>3, <2>1, FieldTypes DEF Fields
<1>5. mpi_buffer' = Buffer(chem)
  BY <1>2, <1>4, BufferFilled DEF FillBuffer
<1>6. (Buffer(AfterTransport(iter)))' = Buffer(AfterTransport(iter))
  <2>1. (AfterTransport(iter))' = AfterTransport(iter)
    BY <1>1, SameGrid
  <2>. QED
    BY <1>1, <2>1 DEF Buffer
<1>7. BufferInv'
  BY <1>1, <1>2, <1>3, <1>5, <1>6 DEF BufferInv
<1>. QED
  BY <1>1, <1>7, FieldsSame DEF DataInv

LEMMA RunPackagesData ==
  ASSUME IInv, RunPackages
  PROVE  DataInv'
<1>1. /\ UNCHANGED <<input, n_cells, iter, saved, setup, param_list, stage, transport,
                     chem, out>>
      /\ pc = "work" /\ pc' = "unshuffle"
  BY DEF RunPackages, WorkDone, buffers
<1>2. stage = "chemistry" /\ GridSize /\ Shape /\ out \in [Cell -> Cell]
  BY <1>1 DEF IInv, DataInv, BufferInv, LoopsInv, PartitionTypeOK
<1>3. mpi_buffer = Buffer(AfterTransport(iter)) /\ iter \in 1 .. MaxIter
  BY <1>1, <1>2 DEF IInv, DataInv, FieldsInv, BufferInv
<1>4. mpi_buffer' = Buffer(AfterChemistry(iter))
  BY <1>2, <1>3, BufferReacted DEF RunPackages
<1>5. (Buffer(AfterChemistry(iter)))' = Buffer(AfterChemistry(iter))
  <2>1. (AfterChemistry(iter))' = AfterChemistry(iter)
    BY <1>1, SameGrid
  <2>. QED
    BY <1>1, <2>1 DEF Buffer
<1>6. BufferInv'
  BY <1>1, <1>2, <1>4, <1>5 DEF BufferInv
<1>. QED
  BY <1>1, <1>6, FieldsSame DEF DataInv

LEMMA TakeResultsData ==
  ASSUME IInv, TakeResults
  PROVE  DataInv'
<1>1. /\ UNCHANGED <<input, n_cells, iter, saved, param_list, transport>>
      /\ pc = "unshuffle" /\ pc' = "idle" /\ mpi_buffer' = <<>> /\ stage' = "end"
  BY DEF TakeResults, Unshuffled
<1>2. stage = "chemistry" /\ GridSize /\ Shape /\ out \in [Cell -> Cell]
  BY <1>1 DEF IInv, DataInv, BufferInv, LoopsInv, PartitionTypeOK
<1>3. /\ mpi_buffer = Buffer(AfterChemistry(iter)) /\ iter \in 1 .. MaxIter
      /\ transport = AfterTransport(iter)
  BY <1>1, <1>2 DEF IInv, DataInv, FieldsInv, BufferInv
<1>4. \A c \in Cell : out[Place(c)] = c /\ back[c] = Place(c)
  <2>1. LoopsInv /\ Unshuffled
    BY DEF IInv, TakeResults
  <2>. QED
    BY <1>1, <2>1, UnshuffledInv DEF LoopsInv, BuffersInv
<1>5. AfterChemistry(iter) \in [Species -> [Cell -> Values]]
  <2>1. iter \in 0 .. MaxIter
    BY <1>3, CouplingAssumption
  <2>. QED
    BY <1>2, <2>1, FieldTypes DEF Fields
<1>6. chem' = AfterChemistry(iter)
  BY <1>2, <1>3, <1>4, <1>5, BufferTaken DEF TakeResults
<1>7. Shape' /\ SavedInv'
  BY <1>1, <1>2, SameGrid, SavedSame DEF IInv, DataInv, Loaded
<1>8. SetupInv'
  BY <1>1, <1>2 DEF IInv, DataInv, Loaded, SetupInv
<1>9. FieldsInv'
  <2>1. /\ (AfterTransport(iter))' = AfterTransport(iter)
        /\ (AfterChemistry(iter))' = AfterChemistry(iter)
    BY <1>1, SameGrid
  <2>2. iter \in 1 .. MaxIter + 1 /\ iter <= MaxIter
    BY <1>3, CouplingAssumption
  <2>. QED
    BY <1>1, <1>3, <1>6, <2>1, <2>2 DEF FieldsInv, Loaded
<1>10. BufferInv'
  BY <1>1 DEF BufferInv
<1>. QED
  BY <1>7, <1>8, <1>9, <1>10 DEF DataInv

\* The data frames hold what the two modules have, and nothing else is saved.
LEMMA SaveIterationData ==
  ASSUME IInv, SaveIteration
  PROVE  /\ DataInv'
         /\ saved' = IF iter \in OutSave THEN saved \cup {State(iter)} ELSE saved
<1>1. /\ UNCHANGED <<input, n_cells, pc, iter, param_list, transport, chem, mpi_buffer>>
      /\ stage = "end" /\ stage' = "back"
  BY DEF SaveIteration, loops
<1>2. /\ GridSize /\ Shape /\ iter \in 1 .. MaxIter
      /\ transport = AfterTransport(iter) /\ chem = AfterChemistry(iter)
  BY <1>1 DEF IInv, DataInv, FieldsInv, LoopsInv
<1>3. saved' = IF iter \in OutSave THEN saved \cup {State(iter)} ELSE saved
  <2>1. iter \in 0 .. MaxIter /\ iter # 0
    BY <1>2, CouplingAssumption
  <2>2. /\ transport \in [Species -> [Cell -> Values]]
        /\ chem \in [Species -> [Cell -> Values]]
    BY <1>2, <2>1, FieldTypes DEF Fields
  <2>3. /\ FromVector(AsVector(transport)) = transport
        /\ FromVector(AsVector(chem)) = chem
    BY <1>2, <2>2, VectorRoundTrip
  <2>. QED
    BY <1>2, <2>3 DEF SaveIteration, State
<1>4. SavedInv'
  <2>1. \A k : State(k)' = State(k)
    BY <1>1, SameGrid
  <2>2. saved' \subseteq {State(k) : k \in (1 .. MaxIter) \cap OutSave}
    BY <1>2, <1>3 DEF IInv, DataInv, SavedInv
  <2>. QED
    BY <1>1, <2>1, <2>2 DEF SavedInv, Loaded
<1>5. Shape'
  BY <1>1, <1>2, SameGrid
<1>6. SetupInv'
  BY <1>1 DEF IInv, DataInv, Loaded, SetupInv
<1>7. FieldsInv'
  <2>1. /\ (AfterTransport(iter))' = AfterTransport(iter)
        /\ (AfterChemistry(iter))' = AfterChemistry(iter)
    BY <1>1, SameGrid
  <2>2. iter' \in 1 .. MaxIter + 1 /\ iter' <= MaxIter
    BY <1>1, <1>2, CouplingAssumption
  <2>. QED
    BY <1>1, <1>2, <2>1, <2>2 DEF FieldsInv, Loaded
<1>8. BufferInv'
  BY <1>1 DEF IInv, DataInv, BufferInv
<1>. QED
  BY <1>3, <1>4, <1>5, <1>6, <1>7, <1>8 DEF DataInv

LEMMA BackToTransportData ==
  ASSUME IInv, BackToTransport
  PROVE  DataInv'
<1>1. /\ UNCHANGED <<input, n_cells, pc, saved, param_list, chem, mpi_buffer>>
      /\ iter' = iter + 1 /\ stage = "back" /\ stage' = "transport"
  BY DEF BackToTransport, loops
<1>2. /\ Shape /\ iter \in 1 .. MaxIter
      /\ transport = AfterTransport(iter) /\ chem = AfterChemistry(iter)
  BY <1>1 DEF IInv, DataInv, FieldsInv
<1>3. SavedInv'
  BY <1>1, SavedSame DEF IInv, DataInv, Loaded
<1>4. Shape'
  BY <1>1, <1>2, SameGrid
<1>5. SetupInv'
  BY <1>1 DEF IInv, DataInv, Loaded, SetupInv
<1>6. transport' = AfterChemistry(iter)
  BY <1>2 DEF BackToTransport, Update, AfterTransport, AfterChemistry
<1>7. FieldsInv'
  <2>1. (AfterChemistry(iter - 1))' = AfterChemistry(iter)
    <3>1. (iter + 1) - 1 = iter
      BY <1>2
    <3>. QED
      BY <1>1, <3>1, SameGrid
  <2>2. iter' \in 1 .. MaxIter + 1
    BY <1>1, <1>2, CouplingAssumption
  <2>. QED
    BY <1>1, <1>2, <1>6, <2>1, <2>2 DEF FieldsInv, Loaded
<1>8. BufferInv'
  BY <1>1 DEF IInv, DataInv, BufferInv
<1>. QED
  BY <1>3, <1>4, <1>5, <1>7, <1>8 DEF DataInv

LEMMA UnchangedData ==
  ASSUME IInv, UNCHANGED vars
  PROVE  DataInv'
<1>1. UNCHANGED <<input, n_cells, iter, saved, setup, param_list, stage, transport, chem,
                  mpi_buffer, pc, out>>
  BY DEF vars, loops
<1>2. BufferInv'
  <2>1. /\ (AfterTransport(iter))' = AfterTransport(iter)
        /\ (AfterChemistry(iter))' = AfterChemistry(iter)
    BY <1>1, SameGrid
  <2>2. /\ (Buffer(AfterTransport(iter)))' = Buffer(AfterTransport(iter))
        /\ (Buffer(AfterChemistry(iter)))' = Buffer(AfterChemistry(iter))
    BY <1>1, <2>1 DEF Buffer
  <2>. QED
    BY <1>1, <2>2 DEF IInv, DataInv, BufferInv
<1>. QED
  BY <1>1, <1>2, FieldsSame DEF DataInv

\* The invariant holds at first and is kept by every step.
LEMMA InitInv ==
  ASSUME Init
  PROVE  IInv
<1>1. PICK rows \in 1 .. MaxCells, cols \in 1 .. MaxCells :
         /\ rows * cols \in 2 .. MaxCells /\ n_cells = rows * cols
         /\ \E script \in Scripts(rows, cols) :
              input = [rows |-> rows, cols |-> cols, script |-> script]
  BY DEF Init
<1>2. /\ n_cells \in Nat \ {0} /\ wp_size \in Nat \ {0}
      /\ input.rows = rows /\ input.cols = cols
      /\ rows \in Nat \ {0} /\ cols \in Nat \ {0}
  BY <1>1, CouplingAssumption DEF Init
<1>3. LoopsInv
  BY <1>2, LoopsInit DEF Init
<1>4. Shape
  BY <1>1, <1>2 DEF Shape
<1>5. SetupInv /\ FieldsInv /\ BufferInv /\ SavedInv
  BY CouplingAssumption
     DEF Init, PartitionInit, SetupInv, FieldsInv, BufferInv, SavedInv, Loaded
<1>. QED
  BY <1>3, <1>4, <1>5 DEF IInv, DataInv

LEMMA NextInv ==
  ASSUME IInv, [Next]_vars
  PROVE  IInv'
<1>1. LoopsInv'
  <2>1. LoopStep \/ UNCHANGED loops
    BY NextLoops DEF vars
  <2>. QED
    BY <2>1, LoopsNext DEF IInv
<1>2. CASE Next
  BY <1>1, <1>2, RejectGridData, initializeFromListData, importListData, DiffuseData,
     ToChemistryData, StartChemistryData, RunLoopsData, FillBufferData, RunPackagesData,
     TakeResultsData, SaveIterationData, BackToTransportData DEF Next, IInv
<1>3. CASE UNCHANGED vars
  BY <1>1, <1>3, UnchangedData DEF IInv
<1>. QED
  BY <1>2, <1>3

\* The inductive invariant of the simulation.
THEOREM Invariant == Spec => []IInv
BY InitInv, NextInv, PTL DEF Spec

\* The invariant makes the values typed.
LEMMA InvType ==
  ASSUME IInv
  PROVE  TypeOK
<1>1. /\ GridSize /\ Shape /\ iter \in 1 .. MaxIter + 1
      /\ LoopsInv /\ FieldsInv /\ BufferInv /\ SavedInv
  BY DEF IInv, LoopsInv, DataInv, FieldsInv
<1>2. \A k \in 1 .. MaxIter : AfterTransport(k) \in Fields
  <2>1. \A k \in 1 .. MaxIter : k \in 0 .. MaxIter /\ k # 0
    BY CouplingAssumption
  <2>. QED
    BY <1>1, <2>1, FieldTypes
<1>3. \A k \in 0 .. MaxIter : AfterChemistry(k) \in Fields
  BY <1>1, FieldTypes
<1>4. /\ iter - 1 \in 0 .. MaxIter
      /\ iter <= MaxIter => iter \in 1 .. MaxIter /\ iter \in 0 .. MaxIter
  BY <1>1, CouplingAssumption
<1>5. transport \in Fields \cup {NoField} /\ chem \in Fields \cup {NoField}
  BY <1>1, <1>2, <1>3, <1>4 DEF FieldsInv, Loaded
<1>6. mpi_buffer = <<>> \/ mpi_buffer \in [0 .. prop_count * n_cells - 1 -> Values]
  <2>1. out \in [Cell -> Cell]
    BY <1>1 DEF LoopsInv, PartitionTypeOK
  <2>2. ASSUME NEW f \in Fields
        PROVE  Buffer(f) \in [0 .. prop_count * n_cells - 1 -> Values]
    <3>. SUFFICES ASSUME NEW q \in 0 .. prop_count * n_cells - 1
                  PROVE  f[Props[(q % prop_count) + 1]][out[q \div prop_count]] \in Values
      BY DEF Buffer
    <3>1. (q % prop_count) + 1 \in 1 .. prop_count /\ q \div prop_count \in Cell
      BY <1>1, VectorParts
    <3>2. Props[(q % prop_count) + 1] \in Species
      BY <3>1, PropsType
    <3>. QED
      BY <2>1, <3>1, <3>2 DEF Fields
  <2>3. pc \in {"work", "unshuffle"} => iter <= MaxIter
    BY <1>1 DEF FieldsInv, BufferInv
  <2>. QED
    BY <1>1, <1>2, <1>3, <1>4, <2>2, <2>3 DEF BufferInv
<1>7. \A f \in saved : f.iter \in OutSave /\ {f.T, f.C} \subseteq Fields
  <2>1. ASSUME NEW f \in saved PROVE f.iter \in OutSave /\ {f.T, f.C} \subseteq Fields
    <3>1. PICK k \in (1 .. MaxIter) \cap OutSave : f = State(k)
      BY <1>1 DEF SavedInv
    <3>2. k \in 0 .. MaxIter
      BY <3>1, CouplingAssumption
    <3>. QED
      BY <1>2, <1>3, <3>1, <3>2 DEF State
  <2>. QED
    BY <2>1
<1>. QED
  BY <1>1, <1>5, <1>6, <1>7 DEF TypeOK, LoopsInv, FieldsInv, Shape

\* The values the variables can take: no loop leaves its buffer, and the vectors
\* have the sizes that the loops and the constructors of Field expect.
THEOREM TypeCorrect == Spec => []TypeOK
BY Invariant, InvType, PTL

\* Packages are as large as asked for at most, and differ by one cell at most.
THEOREM Balanced == Spec => []PackagesBalanced
BY Invariant, LoopsFacts, PTL DEF IInv

\* The loops compute the closed forms of module Packages, which the work loop
\* is specified with.
THEOREM ComputesClosedForms == Spec => []ClosedForms
BY Invariant, LoopsFacts, PTL DEF IInv

\* The rows that a package is cut out at are its cells.
THEOREM CutsFit == Spec => []CutsAtPackages
BY Invariant, LoopsFacts, PTL DEF IInv
----------------------------------------------------------------------------
(* Operator splitting: what the steps are in its terms. *)

\* What the refinement mapping puts for the variables of OperatorSplitting.
Grid == Cells(input.rows, input.cols)
Conc ==
  IF ~Loaded
  THEN [s \in Species |-> [x \in Grid |-> [t |-> 0, c |-> 0]]]
  ELSE View(IF stage \in {"transport", "exchange"} THEN transport ELSE chem)
Phase ==
  CASE stage \in {"exchange", "chemistry"} -> "reaction"
    [] stage = "end" -> "save"
    [] OTHER -> "transport"
Iter == IF stage = "back" THEN iter + 1 ELSE iter
ViewState(f) == [iter |-> f.iter, T |-> View(f.T), C |-> View(f.C)]
Saved == {ViewState(f) : f \in saved}

\* A step of OperatorSplitting, or none, in these words.
LEMMA MappedStep ==
  /\ Splitting!Init <=> /\ Conc = Splitting!Reacted(0)
                        /\ Phase = "transport" /\ Iter = 1 /\ Saved = {}
  /\ Splitting!Transport <=>
       /\ Phase = "transport" /\ Iter <= MaxIter /\ Conc = Splitting!Reacted(Iter - 1)
       /\ Conc' = Splitting!Moved(Iter) /\ Phase' = "reaction"
       /\ Grid' = Grid /\ Iter' = Iter /\ Saved' = Saved
  /\ Splitting!React <=>
       /\ Phase = "reaction" /\ Conc' = Splitting!Reacted(Iter) /\ Phase' = "save"
       /\ Grid' = Grid /\ Iter' = Iter /\ Saved' = Saved
  /\ Splitting!EndIteration <=>
       /\ Phase = "save"
       /\ Saved' = IF Iter \in OutSave
                   THEN Saved \cup {[iter |-> Iter, T |-> Splitting!Moved(Iter), C |-> Conc]}
                   ELSE Saved
       /\ Phase' = "transport" /\ Iter' = Iter + 1
       /\ Grid' = Grid /\ Conc' = Conc
  /\ UNCHANGED Splitting!vars <=>
       /\ Grid' = Grid /\ Conc' = Conc /\ Phase' = Phase /\ Iter' = Iter
       /\ Saved' = Saved
BY DEF Splitting!Init, Splitting!Transport, Splitting!React, Splitting!EndIteration,
       Splitting!vars, Grid, Conc, Phase, Iter, Saved, ViewState

\* A field of the invariant, seen cell by cell.
LEMMA ViewFields ==
  ASSUME Shape, NEW k
  PROVE  /\ View(AfterChemistry(k)) = Splitting!Reacted(k)
         /\ View(AfterTransport(k)) = Splitting!Moved(k)
<1>1. ASSUME NEW t, NEW c, NEW x \in Grid
      PROVE  LET v == Column(t, c)[(x[1] - 1) * input.cols + x[2] - 1]
             IN  (IF v.at = x THEN [t |-> v.t, c |-> v.c] ELSE [t |-> -1, c |-> -1])
                   = [t |-> t, c |-> c]
  <2>. DEFINE q == (x[1] - 1) * input.cols + x[2] - 1
  <2>1. q \in Cell /\ Map[q] = x
    BY MapType DEF Grid
  <2>. HIDE DEF q
  <2>2. Column(t, c)[q] = Value(x, t, c)
    BY <2>1 DEF Column
  <2>. QED
    BY <2>2 DEF Value, q
<1>2. View(AfterChemistry(k)) = Splitting!Reacted(k)
  BY <1>1 DEF View, AfterChemistry, Splitting!Reacted, Splitting!Stamp, Grid
<1>3. View(AfterTransport(k)) = Splitting!Moved(k)
  <2>. DEFINE f == AfterTransport(k)
  <2>1. ASSUME NEW s \in Species, NEW x \in Grid
        PROVE  LET v == f[s][(x[1] - 1) * input.cols + x[2] - 1]
               IN  (IF v.at = x THEN [t |-> v.t, c |-> v.c] ELSE [t |-> -1, c |-> -1])
                     = [t |-> IF s \in Transported THEN k ELSE k - 1, c |-> k - 1]
    <3>1. f[s] = IF s \in Transported THEN Column(k, k - 1) ELSE Column(k - 1, k - 1)
      BY DEF AfterTransport
    <3>. HIDE DEF f
    <3>2. CASE s \in Transported
      BY <1>1, <3>1, <3>2
    <3>3. CASE s \notin Transported
      BY <1>1, <3>1, <3>3
    <3>. QED
      BY <3>2, <3>3
  <2>. HIDE DEF f
  <2>2. View(f) = Splitting!Moved(k)
    BY <2>1 DEF View, Splitting!Moved, Splitting!Stamp, Grid
  <2>. QED
    BY <2>2 DEF f
<1>. QED
  BY <1>2, <1>3

\* What the mapping gives at every stage.
LEMMA MappedStage ==
  ASSUME IInv
  PROVE  /\ ~Loaded => Conc = Splitting!Reacted(0)
         /\ stage = "transport" => Conc = Splitting!Reacted(iter - 1)
         /\ stage \in {"exchange", "chemistry"} => Conc = Splitting!Moved(iter)
         /\ stage \in {"end", "back"} => Conc = Splitting!Reacted(iter)
<1>1. Shape /\ FieldsInv
  BY DEF IInv, DataInv
<1>2. \A k : /\ View(AfterChemistry(k)) = Splitting!Reacted(k)
             /\ View(AfterTransport(k)) = Splitting!Moved(k)
  BY <1>1, ViewFields
<1>3. ~Loaded => Conc = Splitting!Reacted(0)
  BY DEF Conc, Grid, Splitting!Reacted, Splitting!Stamp
<1>4. /\ stage = "transport" => Conc = View(AfterChemistry(iter - 1))
      /\ stage \in {"exchange", "chemistry"} => Conc = View(AfterTransport(iter))
      /\ stage \in {"end", "back"} => Conc = View(AfterChemistry(iter))
  BY <1>1 DEF FieldsInv, Conc, Loaded
<1>. QED
  BY <1>2, <1>3, <1>4

\* The cells are those of the script.
LEMMA MappedGrid ==
  ASSUME UNCHANGED input
  PROVE  /\ Grid' = Grid
         /\ \A f : ViewState(f)' = ViewState(f)
         /\ \A k : (Splitting!Reacted(k))' = Splitting!Reacted(k)
         /\ \A k : (Splitting!Moved(k))' = Splitting!Moved(k)
         /\ saved' = saved => Saved' = Saved
<1>1. Grid' = Grid
  BY DEF Grid
<1>2. \A f : ViewState(f)' = ViewState(f)
  BY DEF ViewState, View
<1>. QED
  BY <1>1, <1>2 DEF Splitting!Reacted, Splitting!Moved, Saved, Grid

\* Before the loop nothing has moved or reacted.
LEMMA RefinementInit ==
  ASSUME Init
  PROVE  Splitting!Init
<1>1. IInv /\ stage = "script" /\ iter = 1 /\ saved = {}
  BY InitInv DEF Init
<1>. QED
  BY <1>1, MappedStage, MappedStep DEF Loaded, Phase, Iter, Saved

\* The steps that set up, copy or shuffle change nothing in these terms.
LEMMA StutteringStep ==
  ASSUME IInv, IInv',
         \/ RejectGrid \/ initializeFromList \/ importList \/ ToChemistry
         \/ StartChemistry \/ RunLoops \/ FillBuffer \/ RunPackages
         \/ BackToTransport \/ UNCHANGED vars
  PROVE  UNCHANGED Splitting!vars
<1>1. UNCHANGED <<input, saved>>
  BY DEF RejectGrid, initializeFromList, importList, ToChemistry, StartChemistry,
         RunLoops, FillBuffer, RunPackages, BackToTransport, vars
<1>2. \/ stage' = stage /\ iter' = iter
      \/ /\ stage = "script" /\ stage' \in {"rejected", "setup"} /\ iter' = iter
      \/ /\ stage = "setup" /\ stage' = "transport" /\ iter' = iter /\ iter = 1
      \/ /\ stage = "exchange" /\ stage' = "chemistry" /\ iter' = iter
      \/ /\ stage = "back" /\ stage' = "transport" /\ iter' = iter + 1
  BY DEF RejectGrid, initializeFromList, importList, ToChemistry, StartChemistry,
         RunLoops, FillBuffer, RunPackages, BackToTransport, vars,
         IInv, DataInv, FieldsInv, Loaded
<1>3. Phase' = Phase /\ Iter' = Iter
  BY <1>2 DEF Phase, Iter
<1>4. /\ Grid' = Grid /\ Saved' = Saved
      /\ \A k : (Splitting!Reacted(k))' = Splitting!Reacted(k)
      /\ \A k : (Splitting!Moved(k))' = Splitting!Moved(k)
  BY <1>1, MappedGrid
<1>5. Conc' = Conc
  <2>1. /\ stage \in {"script", "rejected", "setup", "transport", "exchange",
                      "chemistry", "end", "back"}
        /\ iter \in Int
    BY DEF IInv, DataInv, FieldsInv
  <2>2. /\ (~Loaded => Conc = Splitting!Reacted(0))
        /\ (stage = "transport" => Conc = Splitting!Reacted(iter - 1))
        /\ (stage \in {"exchange", "chemistry"} => Conc = Splitting!Moved(iter))
        /\ (stage \in {"end", "back"} => Conc = Splitting!Reacted(iter))
    BY MappedStage
  <2>3. /\ (~Loaded => Conc = Splitting!Reacted(0))'
        /\ (stage = "transport" => Conc = Splitting!Reacted(iter - 1))'
        /\ (stage \in {"exchange", "chemistry"} => Conc = Splitting!Moved(iter))'
        /\ (stage \in {"end", "back"} => Conc = Splitting!Reacted(iter))'
    BY MappedStage, PTL
  <2>. QED
    BY <1>2, <1>4, <2>1, <2>2, <2>3 DEF Loaded
<1>. QED
  BY <1>3, <1>4, <1>5, MappedStep

\* Transport moves the transported species in every cell once.
LEMMA TransportStep ==
  ASSUME IInv, IInv', Diffuse
  PROVE  Splitting!Transport
<1>1. /\ UNCHANGED <<input, saved, iter>> /\ iter <= MaxIter
      /\ stage = "transport" /\ stage' = "exchange"
  BY DEF Diffuse
<1>2. Grid' = Grid /\ Saved' = Saved /\ (Splitting!Moved(iter))' = Splitting!Moved(iter)
  BY <1>1, MappedGrid
<1>3. Conc = Splitting!Reacted(iter - 1)
  BY <1>1, MappedStage
<1>4. Conc' = Splitting!Moved(iter)
  <2>1. (stage \in {"exchange", "chemistry"} => Conc = Splitting!Moved(iter))'
    BY MappedStage, PTL
  <2>. QED
    BY <1>1, <1>2, <2>1
<1>5. Phase = "transport" /\ Phase' = "reaction" /\ Iter = iter /\ Iter' = iter
  BY <1>1 DEF Phase, Iter
<1>. QED
  BY <1>1, <1>2, <1>3, <1>4, <1>5, MappedStep

\* When the results are taken, every cell has reacted once.
LEMMA ReactStep ==
  ASSUME IInv, IInv', TakeResults
  PROVE  Splitting!React
<1>1. /\ UNCHANGED <<input, saved, iter>>
      /\ stage = "chemistry" /\ stage' = "end"
  BY DEF TakeResults, Unshuffled, IInv, DataInv, BufferInv
<1>2. /\ Grid' = Grid /\ Saved' = Saved
      /\ (Splitting!Reacted(iter))' = Splitting!Reacted(iter)
  BY <1>1, MappedGrid
<1>3. Conc' = Splitting!Reacted(iter)
  <2>1. (stage \in {"end", "back"} => Conc = Splitting!Reacted(iter))'
    BY MappedStage, PTL
  <2>. QED
    BY <1>1, <1>2, <2>1
<1>4. Phase = "reaction" /\ Phase' = "save" /\ Iter = iter /\ Iter' = iter
  BY <1>1 DEF Phase, Iter
<1>. QED
  BY <1>1, <1>2, <1>3, <1>4, MappedStep

\* What is saved are the two halves of the iteration.
LEMMA EndIterationStep ==
  ASSUME IInv, IInv', SaveIteration
  PROVE  Splitting!EndIteration
<1>1. /\ UNCHANGED <<input, iter, transport, chem>> /\ iter \in Int
      /\ stage = "end" /\ stage' = "back" /\ Shape
  BY DEF SaveIteration, IInv, DataInv, FieldsInv
<1>2. /\ Grid' = Grid /\ \A f : ViewState(f)' = ViewState(f)
      /\ (Splitting!Reacted(iter))' = Splitting!Reacted(iter)
  BY <1>1, MappedGrid
<1>3. Conc = Splitting!Reacted(iter)
  BY <1>1, MappedStage
<1>4. Conc' = Conc
  <2>1. (stage \in {"end", "back"} => Conc = Splitting!Reacted(iter))'
    BY MappedStage, PTL
  <2>. QED
    BY <1>1, <1>2, <1>3, <2>1
<1>5. ViewState(State(iter))
        = [iter |-> iter, T |-> Splitting!Moved(iter), C |-> Conc]
  BY <1>1, <1>3, ViewFields DEF ViewState, State
<1>6. Saved' = IF iter \in OutSave THEN Saved \cup {ViewState(State(iter))} ELSE Saved
  <2>1. saved' = IF iter \in OutSave THEN saved \cup {State(iter)} ELSE saved
    BY SaveIterationData
  <2>2. Saved' = {ViewState(f) : f \in saved'}
    BY <1>2 DEF Saved
  <2>. QED
    BY <2>1, <2>2 DEF Saved
<1>7. Phase = "save" /\ Phase' = "transport" /\ Iter = iter /\ Iter' = iter + 1
  BY <1>1 DEF Phase, Iter
<1>. QED
  BY <1>2, <1>4, <1>5, <1>6, <1>7, MappedStep

LEMMA RefinementNext ==
  ASSUME IInv, IInv', [Next]_vars
  PROVE  [Splitting!Next]_(Splitting!vars)
BY StutteringStep, TransportStep, ReactStep, EndIterationStep
   DEF Next, Splitting!Next

\* For every shape of the grid and every package size, through all copies
\* between fields, vectors, buffers and data frames, the simulation is operator
\* splitting, and so are the saved states.
THEOREM Refinement == Spec => ImplementsSplitting
BY Invariant, RefinementInit, RefinementNext, PTL
   DEF Spec, ImplementsSplitting, Splitting!Spec
----------------------------------------------------------------------------
(* What the solver is told of boundaries and coefficients. *)

\* The conditions on a side of k elements, as the fold has them.
Bounds(k) == [type : [0 .. k - 1 -> {"closed", "constant"}], value : [0 .. k - 1 -> Int]]
AllClosed(k) == [type |-> [x \in 0 .. k - 1 |-> "closed"], value |-> [x \in 0 .. k - 1 |-> 0]]

\* One entry of the script more.
Taken(bound, e) ==
  IF e.type = "closed"
  THEN [bound EXCEPT !.type[e.cell - 1] = "closed"]
  ELSE [bound EXCEPT !.type[e.cell - 1] = "constant", !.value[e.cell - 1] = e.sol_id]

SideStep(entries, k, g) ==
  [t \in SUBSET DOMAIN entries |->
     IF t = {} THEN AllClosed(k) ELSE Taken(g[t \ {Max(t)}], entries[Max(t)])]

LEMMA TakenType ==
  ASSUME NEW k \in Nat, NEW bound \in Bounds(k), NEW e \in SideEntry(k)
  PROVE  /\ Taken(bound, e) \in Bounds(k)
         /\ Taken(bound, e).type
              = [bound.type EXCEPT ![e.cell - 1] = IF e.type = "closed" THEN "closed" ELSE "constant"]
         /\ Taken(bound, e).value
              = IF e.type = "closed" THEN bound.value
                ELSE [bound.value EXCEPT ![e.cell - 1] = e.sol_id]
<1>1. CASE e.type = "closed"
  BY <1>1 DEF Taken, Bounds, SideEntry
<1>2. CASE e.type # "closed"
  <2>. DEFINE b == bound.type
              v == bound.value
              x == e.cell - 1
              d == [bound EXCEPT !.type[x] = "constant", !.value[x] = e.sol_id]
  <2>1. Taken(bound, e) = d
    BY <1>2 DEF Taken
  <2>2. /\ bound = [type |-> b, value |-> v]
        /\ b \in [0 .. k - 1 -> {"closed", "constant"}] /\ v \in [0 .. k - 1 -> Int]
        /\ x \in 0 .. k - 1 /\ e.sol_id \in Int
    BY DEF Bounds, SideEntry
  <2>3. d = [type |-> [b EXCEPT ![x] = "constant"], value |-> [v EXCEPT ![x] = e.sol_id]]
    <3>. DEFINE b2 == [b EXCEPT ![x] = "constant"]
                v2 == [v EXCEPT ![x] = e.sol_id]
                c == [bound EXCEPT !.type = b2]
    <3>1. d = [c EXCEPT !.value = [c.value EXCEPT ![x] = e.sol_id]]
      OBVIOUS
    <3>2. bound = [type |-> b, value |-> v]
      BY <2>2
    <3>. HIDE DEF b, v, x, b2, d
    <3>3. c = [type |-> b2, value |-> v]
      BY <3>2
    <3>. HIDE DEF c
    <3>4. d = [type |-> b2, value |-> v2]
      BY <3>1, <3>3
    <3>. QED
      BY <3>4 DEF b2
  <2>4. /\ d.type = [b EXCEPT ![x] = "constant"] /\ d.value = [v EXCEPT ![x] = e.sol_id]
        /\ d.type \in [0 .. k - 1 -> {"closed", "constant"}]
        /\ d.value \in [0 .. k - 1 -> Int]
    <3>. HIDE DEF b, v, x, d
    <3>. QED
      BY <2>2, <2>3
  <2>5. d \in Bounds(k)
    <3>. HIDE DEF b, v, x, d
    <3>1. d = [type |-> d.type, value |-> d.value]
      BY <2>3
    <3>. QED
      BY <2>4, <3>1 DEF Bounds
  <2>. QED
    BY <1>2, <2>1, <2>4, <2>5
<1>. QED
  BY <1>1, <1>2

\* The first m elements of a domain.
LEMMA Prefix ==
  ASSUME NEW m \in Nat
  PROVE  /\ 1 .. m + 1 # {} /\ Max(1 .. m + 1) = m + 1
         /\ (1 .. m + 1) \ {m + 1} = 1 .. m
<1>1. IsFiniteSet(1 .. m + 1) /\ 1 .. m + 1 \in SUBSET Nat /\ 1 .. m + 1 # {}
  <2>1. IsFiniteSet(1 .. m + 1)
    BY FS_Interval
  <2>2. m + 1 \in 1 .. m + 1
    OBVIOUS
  <2>. QED
    BY <2>1, <2>2
<1>2. Max(1 .. m + 1) \in 1 .. m + 1 /\ \A y \in 1 .. m + 1 : y <= Max(1 .. m + 1)
  BY <1>1, MaxOf
<1>3. m + 1 <= Max(1 .. m + 1)
  BY <1>2
<1>. QED
  BY <1>1, <1>2, <1>3

\* The conditions on a side, entry by entry.
LEMMA SideFold ==
  ASSUME NEW k \in Nat, NEW entries \in Seq(SideEntry(k))
  PROVE  \E g : /\ resolveSide(entries, k) = g[1 .. Len(entries)]
                /\ g[{}] = AllClosed(k)
                /\ \A m \in 0 .. Len(entries) - 1 :
                     g[1 .. m + 1] = Taken(g[1 .. m], entries[m + 1])
<1>. DEFINE D == DOMAIN entries
            L == Len(entries)
            E == SideEntry(k)
            A == Bounds(k)
            F == [p \in A \X E |-> Taken(p[1], p[2])]
<1>1. L \in Nat /\ D = 1 .. L /\ entries \in [D -> E]
  BY LenProperties
<1>2. D \in SUBSET Nat /\ IsFiniteSet(D)
  <2>1. IsFiniteSet(1 .. L)
    <3>1. 1 \in Int /\ L \in Int
      BY <1>1
    <3>. HIDE DEF L
    <3>. QED
      BY <3>1, FS_Interval
  <2>. QED
    BY <1>1, <2>1
<1>3. F \in [A \X E -> A]
  <2>1. ASSUME NEW p \in A \X E PROVE Taken(p[1], p[2]) \in A
    BY TakenType
  <2>. QED
    BY <2>1
<1>4. AllClosed(k) \in A
  BY DEF AllClosed, Bounds
<1>. HIDE DEF A, E
<1>5. PICK g \in [SUBSET D -> A] : \A t \in SUBSET D :
         g[t] = IF t = {} THEN AllClosed(k) ELSE F[<<g[t \ {Max(t)}], entries[Max(t)]>>]
  <2>. HIDE DEF D, L, F
  <2>1. D \in SUBSET Nat /\ IsFiniteSet(D) /\ entries \in [D -> E]
        /\ F \in [A \X E -> A] /\ AllClosed(k) \in A
    BY <1>1, <1>2, <1>3, <1>4
  <2>. DEFINE s == entries
              base == AllClosed(k)
  <2>2. D \in SUBSET Nat /\ IsFiniteSet(D) /\ s \in [D -> E] /\ F \in [A \X E -> A] /\ base \in A
    BY <2>1
  <2>. HIDE DEF s, base
  <2>3. \E g \in [SUBSET D -> A] : FoldOf(F, base, s, D, g)
    BY <2>2, FoldExists
  <2>. QED
    BY <2>3 DEF s, base, FoldOf
<1>6. g = SideStep(entries, k, g)
  <2>1. ASSUME NEW t \in SUBSET D
        PROVE  g[t] = SideStep(entries, k, g)[t]
    <3>1. CASE t = {}
      BY <1>5, <3>1 DEF SideStep
    <3>2. CASE t # {}
      <4>1. Max(t) \in D
        BY <1>2, <3>2, FS_Subset, MaxOf
      <4>2. g[t \ {Max(t)}] \in A /\ entries[Max(t)] \in E
        BY <1>1, <4>1
      <4>3. F[<<g[t \ {Max(t)}], entries[Max(t)]>>] = Taken(g[t \ {Max(t)}], entries[Max(t)])
        BY <4>2
      <4>4. SideStep(entries, k, g)[t] = Taken(g[t \ {Max(t)}], entries[Max(t)])
        BY <3>2 DEF SideStep
      <4>. HIDE DEF F
      <4>. QED
        BY <1>5, <3>2, <4>3, <4>4
    <3>. QED
      BY <3>1, <3>2
  <2>2. SideStep(entries, k, g) = [t \in SUBSET D |-> SideStep(entries, k, g)[t]]
    BY DEF SideStep
  <2>. QED
    BY <2>1, <2>2
<1>. DEFINE h == CHOOSE f : f = SideStep(entries, k, f)
<1>7. h = SideStep(entries, k, h)
  BY <1>6
<1>8. resolveSide(entries, k) = h[D]
  BY DEF resolveSide, FoldLeft, MapThenFoldSet, SideStep, AllClosed, Taken
<1>. HIDE DEF h
<1>9. h[{}] = AllClosed(k)
  <2>1. SideStep(entries, k, h)[{}] = AllClosed(k)
    BY DEF SideStep
  <2>. QED
    BY <1>7, <2>1
<1>10. ASSUME NEW m \in 0 .. L - 1
       PROVE  h[1 .. m + 1] = Taken(h[1 .. m], entries[m + 1])
  <2>1. m \in Nat /\ 1 .. m + 1 \in SUBSET D
    BY <1>1
  <2>2. 1 .. m + 1 # {} /\ Max(1 .. m + 1) = m + 1 /\ (1 .. m + 1) \ {m + 1} = 1 .. m
    BY <2>1, Prefix
  <2>. DEFINE t == 1 .. m + 1
  <2>3. SideStep(entries, k, h)[t] = Taken(h[t \ {Max(t)}], entries[Max(t)])
    BY <2>1, <2>2 DEF SideStep
  <2>. QED
    BY <1>7, <2>2, <2>3
<1>. QED
  BY <1>1, <1>8, <1>9, <1>10

\* What the first m entries say of element c: the last of them counts.
Told(bound, entries, m, c) ==
  \/ /\ bound.type[c - 1] = "closed"
     /\ \A l \in 1 .. m : entries[l].cell # c
  \/ \E l \in 1 .. m :
       /\ entries[l].cell = c
       /\ \A o \in 1 .. m : entries[o].cell = c => o <= l
       /\ IF entries[l].type = "closed" THEN bound.type[c - 1] = "closed"
          ELSE bound.type[c - 1] = "constant" /\ bound.value[c - 1] = entries[l].sol_id

LEMMA SideTold ==
  ASSUME NEW k \in Nat, NEW entries \in Seq(SideEntry(k))
  PROVE  /\ resolveSide(entries, k) \in Bounds(k)
         /\ \A c \in 1 .. k : Told(resolveSide(entries, k), entries, Len(entries), c)
<1>. DEFINE L == Len(entries)
<1>1. L \in Nat /\ \A m \in 1 .. L : entries[m] \in SideEntry(k)
  BY LenProperties
<1>2. PICK g : /\ resolveSide(entries, k) = g[1 .. L]
               /\ g[{}] = AllClosed(k)
               /\ \A m \in 0 .. L - 1 : g[1 .. m + 1] = Taken(g[1 .. m], entries[m + 1])
  BY SideFold
<1>. DEFINE Good(m) == g[1 .. m] \in Bounds(k) /\ \A c \in 1 .. k : Told(g[1 .. m], entries, m, c)
            S == {m \in 0 .. L : Good(m)}
<1>. HIDE DEF L
<1>3. 0 \in S
  <2>1. 1 .. 0 = {}
    OBVIOUS
  <2>2. AllClosed(k) \in Bounds(k) /\ \A c \in 1 .. k : Told(AllClosed(k), entries, 0, c)
    BY DEF AllClosed, Bounds, Told
  <2>3. Good(0)
    BY <1>2, <2>1, <2>2
  <2>. QED
    BY <1>1, <2>3
<1>4. ASSUME NEW m \in 0 .. L - 1, m \in S
      PROVE  m + 1 \in S
  <2>. DEFINE b == g[1 .. m]
              e == entries[m + 1]
              d == Taken(b, e)
  <2>1. b \in Bounds(k) /\ \A c \in 1 .. k : Told(b, entries, m, c)
    BY <1>4
  <2>2. e \in SideEntry(k) /\ g[1 .. m + 1] = d /\ m + 1 \in 0 .. L
    BY <1>1, <1>2
  <2>. HIDE DEF b, e, d
  <2>3. /\ d \in Bounds(k)
        /\ d.type = [b.type EXCEPT ![e.cell - 1] = IF e.type = "closed" THEN "closed" ELSE "constant"]
        /\ d.value = IF e.type = "closed" THEN b.value
                     ELSE [b.value EXCEPT ![e.cell - 1] = e.sol_id]
    BY <2>1, <2>2, TakenType DEF d
  <2>4. /\ b.type \in [0 .. k - 1 -> {"closed", "constant"}]
        /\ b.value \in [0 .. k - 1 -> Int]
        /\ e.cell \in 1 .. k
    BY <2>1, <2>2 DEF Bounds, SideEntry
  <2>5. ASSUME NEW c \in 1 .. k
        PROVE  Told(d, entries, m + 1, c)
    <3>1. CASE e.cell = c
      <4>1. /\ d.type[c - 1] = IF e.type = "closed" THEN "closed" ELSE "constant"
            /\ e.type # "closed" => d.value[c - 1] = e.sol_id
        BY <2>3, <2>4, <3>1
      <4>2. /\ m + 1 \in 1 .. m + 1 /\ entries[m + 1] = e
            /\ \A o \in 1 .. m + 1 : o <= m + 1
        BY DEF e
      <4>. QED
        BY <3>1, <4>1, <4>2 DEF Told
    <3>2. CASE e.cell # c
      <4>1. d.type[c - 1] = b.type[c - 1] /\ d.value[c - 1] = b.value[c - 1]
        <5>1. c - 1 \in 0 .. k - 1 /\ e.cell - 1 # c - 1
          BY <2>4, <3>2
        <5>. QED
          BY <2>3, <2>4, <5>1
      <4>2. \A l \in 1 .. m + 1 : l \in 1 .. m \/ entries[l] = e
        BY DEF e
      <4>3. \A l \in 1 .. m : l \in 1 .. m + 1
        OBVIOUS
      <4>4. Told(b, entries, m, c)
        BY <2>1
      <4>5. CASE \E l \in 1 .. m : entries[l].cell = c
        <5>1. PICK l \in 1 .. m :
                 /\ entries[l].cell = c
                 /\ \A o \in 1 .. m : entries[o].cell = c => o <= l
                 /\ IF entries[l].type = "closed" THEN b.type[c - 1] = "closed"
                    ELSE b.type[c - 1] = "constant" /\ b.value[c - 1] = entries[l].sol_id
          BY <4>4, <4>5 DEF Told
        <5>2. \A o \in 1 .. m + 1 : entries[o].cell = c => o <= l
          BY <3>2, <4>2, <5>1
        <5>. QED
          BY <4>1, <4>3, <5>1, <5>2 DEF Told
      <4>6. CASE \A l \in 1 .. m : entries[l].cell # c
        <5>1. b.type[c - 1] = "closed"
          BY <4>4, <4>6 DEF Told
        <5>2. \A l \in 1 .. m + 1 : entries[l].cell # c
          BY <3>2, <4>2, <4>6
        <5>. QED
          BY <4>1, <5>1, <5>2 DEF Told
      <4>. QED
        BY <4>5, <4>6
    <3>. QED
      BY <3>1, <3>2
  <2>6. Good(m + 1)
    BY <2>2, <2>3, <2>5
  <2>. QED
    BY <2>2, <2>6
<1>5. L \in S
  <2>. HIDE DEF S
  <2>. QED
    BY <1>1, <1>3, <1>4, CountUp
<1>. QED
  BY <1>2, <1>5 DEF L

\* What the solver is told of element c is what the script means.
LEMMA SideMeans ==
  ASSUME NEW k \in Nat, NEW entries \in Seq(SideEntry(k)), NEW c \in 1 .. k
  PROVE  (IF resolveSide(entries, k).type[c - 1] = "constant"
          THEN resolveSide(entries, k).value[c - 1] ELSE 0)
           = SideCondition(entries, c)
<1>. DEFINE bound == resolveSide(entries, k)
            L == Len(entries)
            of == {l \in DOMAIN entries : entries[l].cell = c}
            last == IF of = {} THEN 0 ELSE CHOOSE l \in of : \A o \in of : o <= l
<1>1. DOMAIN entries = 1 .. L /\ L \in Nat
  BY LenProperties
<1>2. Told(bound, entries, L, c)
  BY SideTold
<1>3. SideCondition(entries, c)
        = IF last = 0 \/ entries[last].type = "closed" THEN 0 ELSE entries[last].sol_id
  BY DEF SideCondition, LastIndex
<1>. HIDE DEF bound, L
<1>4. CASE of = {}
  <2>1. bound.type[c - 1] = "closed"
    BY <1>1, <1>2, <1>4 DEF Told
  <2>. QED
    BY <1>3, <1>4, <2>1 DEF bound
<1>5. CASE of # {}
  <2>1. PICK l \in 1 .. L :
          /\ entries[l].cell = c
          /\ \A o \in 1 .. L : entries[o].cell = c => o <= l
          /\ IF entries[l].type = "closed" THEN bound.type[c - 1] = "closed"
             ELSE bound.type[c - 1] = "constant" /\ bound.value[c - 1] = entries[l].sol_id
    BY <1>1, <1>2, <1>5 DEF Told
  <2>2. l \in of /\ (\A o \in of : o <= l) /\ of \in SUBSET Nat
    BY <1>1, <2>1
  <2>3. last \in of /\ \A o \in of : o <= last
    BY <1>5, <2>2
  <2>. HIDE DEF of, last
  <2>4. last = l /\ l # 0
    <3>1. last <= l /\ l <= last /\ last \in Nat /\ l \in Nat
      BY <2>2, <2>3
    <3>. QED
      BY <2>1, <3>1
  <2>. QED
    BY <1>3, <2>1, <2>4 DEF bound
<1>. QED
  BY <1>4, <1>5
----------------------------------------------------------------------------
Elements(entries) == {entries[k] : k \in DOMAIN entries}
At(e) == <<e.row - 1, e.col - 1>>
InnerAt(entries) == {At(e) : e \in Elements(entries)}

InnerStep(entries, g) ==
  [t \in SUBSET DOMAIN entries |->
     IF t = {} THEN [x \in InnerAt(entries) |-> 0]
     ELSE [g[t \ {Max(t)}] EXCEPT ![At(entries[Max(t)])] = entries[Max(t)].sol_id]]

\* g says what the first entries make of the inner boundary.
InnerPrefixes(entries, g) ==
  /\ RcppListToInnerBoundaryMap(entries) = g[1 .. Len(entries)]
  /\ g[{}] = [x \in InnerAt(entries) |-> 0]
  /\ \A m \in 0 .. Len(entries) - 1 :
       g[1 .. m + 1] = [g[1 .. m] EXCEPT ![At(entries[m + 1])] = entries[m + 1].sol_id]

LEMMA InnerFold ==
  ASSUME NEW rows \in Nat, NEW cols \in Nat, NEW entries \in Seq(InnerEntry(rows, cols))
  PROVE  \E g : InnerPrefixes(entries, g)
<1>. DEFINE D == DOMAIN entries
            L == Len(entries)
            E == Elements(entries)
            base == [x \in InnerAt(entries) |-> 0]
            A == [InnerAt(entries) -> Int]
            put(map, e) == [map EXCEPT ![At(e)] = e.sol_id]
            F == [p \in A \X E |-> put(p[1], p[2])]
            s == entries
<1>1. L \in Nat /\ D = 1 .. L /\ s \in [D -> E] /\ E \subseteq InnerEntry(rows, cols)
  <2>1. L \in Nat /\ D = 1 .. L /\ entries \in [D -> InnerEntry(rows, cols)]
    BY LenProperties
  <2>. QED
    BY <2>1 DEF Elements
<1>2. D \in SUBSET Nat /\ IsFiniteSet(D)
  <2>1. IsFiniteSet(1 .. L)
    <3>1. 1 \in Int /\ L \in Int
      BY <1>1
    <3>. HIDE DEF L
    <3>. QED
      BY <3>1, FS_Interval
  <2>. QED
    BY <1>1, <2>1
<1>3. F \in [A \X E -> A]
  <2>1. ASSUME NEW p \in A \X E PROVE put(p[1], p[2]) \in A
    <3>1. p[2].sol_id \in Int
      BY <1>1 DEF InnerEntry
    <3>. QED
      BY <3>1
  <2>. QED
    BY <2>1
<1>4. base \in A
  OBVIOUS
<1>. HIDE DEF A, E
<1>5. PICK g \in [SUBSET D -> A] : FoldOf(F, base, s, D, g)
  <2>. HIDE DEF D, L, F, s, base
  <2>. QED
    BY <1>1, <1>2, <1>3, <1>4, FoldExists
<1>6. g = InnerStep(entries, g)
  <2>1. ASSUME NEW t \in SUBSET D
        PROVE  g[t] = InnerStep(entries, g)[t]
    <3>1. CASE t = {}
      BY <1>5, <3>1 DEF InnerStep, FoldOf
    <3>2. CASE t # {}
      <4>1. Max(t) \in D
        BY <1>2, <3>2, FS_Subset, MaxOf
      <4>2. g[t \ {Max(t)}] \in A /\ entries[Max(t)] \in E
        BY <1>1, <4>1
      <4>3. F[<<g[t \ {Max(t)}], entries[Max(t)]>>] = put(g[t \ {Max(t)}], entries[Max(t)])
        BY <4>2
      <4>4. InnerStep(entries, g)[t] = put(g[t \ {Max(t)}], entries[Max(t)])
        BY <3>2 DEF InnerStep
      <4>5. g[t] = F[<<g[t \ {Max(t)}], entries[Max(t)]>>]
        <5>. HIDE DEF F
        <5>. QED
          BY <1>5, <3>2 DEF FoldOf
      <4>. HIDE DEF F, put
      <4>. QED
        BY <4>3, <4>4, <4>5
    <3>. QED
      BY <3>1, <3>2
  <2>2. InnerStep(entries, g) = [t \in SUBSET D |-> InnerStep(entries, g)[t]]
    BY DEF InnerStep
  <2>. QED
    BY <2>1, <2>2
<1>. DEFINE h == CHOOSE f : f = InnerStep(entries, f)
<1>7. h = InnerStep(entries, h)
  BY <1>6
<1>8. RcppListToInnerBoundaryMap(entries) = h[D]
  BY DEF RcppListToInnerBoundaryMap, FoldLeft, MapThenFoldSet, InnerStep, InnerAt, At, Elements
<1>. HIDE DEF h
<1>9. h[{}] = base
  <2>1. InnerStep(entries, h)[{}] = base
    BY DEF InnerStep
  <2>. QED
    BY <1>7, <2>1
<1>10. ASSUME NEW m \in 0 .. L - 1
       PROVE  h[1 .. m + 1] = put(h[1 .. m], entries[m + 1])
  <2>1. m \in Nat /\ 1 .. m + 1 \in SUBSET D
    BY <1>1
  <2>2. 1 .. m + 1 # {} /\ Max(1 .. m + 1) = m + 1 /\ (1 .. m + 1) \ {m + 1} = 1 .. m
    BY <2>1, Prefix
  <2>. DEFINE t == 1 .. m + 1
  <2>3. InnerStep(entries, h)[t] = put(h[t \ {Max(t)}], entries[Max(t)])
    BY <2>1, <2>2 DEF InnerStep
  <2>. QED
    BY <1>7, <2>2, <2>3
<1>. QED
  BY <1>1, <1>8, <1>9, <1>10 DEF InnerPrefixes

\* What the first m entries say of the element at x: the last of them counts.
InnerTold(map, entries, m, x) ==
  \A l \in 1 .. m :
    /\ At(entries[l]) = x
    /\ \A o \in 1 .. m : At(entries[o]) = x => o <= l
    => map[x] = entries[l].sol_id

LEMMA InnerToldAll ==
  ASSUME NEW rows \in Nat, NEW cols \in Nat, NEW entries \in Seq(InnerEntry(rows, cols))
  PROVE  /\ DOMAIN RcppListToInnerBoundaryMap(entries) = InnerAt(entries)
         /\ \A x \in InnerAt(entries) :
              InnerTold(RcppListToInnerBoundaryMap(entries), entries, Len(entries), x)
<1>. DEFINE L == Len(entries)
            A == InnerAt(entries)
<1>1. L \in Nat /\ DOMAIN entries = 1 .. L
  BY LenProperties
<1>2. PICK g : /\ RcppListToInnerBoundaryMap(entries) = g[1 .. L]
               /\ g[{}] = [x \in A |-> 0]
               /\ \A m \in 0 .. L - 1 :
                    g[1 .. m + 1]
                      = [g[1 .. m] EXCEPT ![At(entries[m + 1])] = entries[m + 1].sol_id]
  <2>1. \E g : InnerPrefixes(entries, g)
    BY InnerFold
  <2>. QED
    BY <2>1 DEF InnerPrefixes
<1>. DEFINE Good(m) == /\ g[1 .. m] = [x \in A |-> g[1 .. m][x]]
                       /\ \A x \in A : InnerTold(g[1 .. m], entries, m, x)
            S == {m \in 0 .. L : Good(m)}
<1>. HIDE DEF L, A
<1>3. 0 \in S
  <2>1. 1 .. 0 = {}
    OBVIOUS
  <2>2. \A x \in A : InnerTold([y \in A |-> 0], entries, 0, x)
    BY DEF InnerTold
  <2>3. Good(0)
    BY <1>2, <2>1, <2>2
  <2>. QED
    BY <1>1, <2>3
<1>4. ASSUME NEW m \in 0 .. L - 1, m \in S
      PROVE  m + 1 \in S
  <2>. DEFINE b == g[1 .. m]
              e == entries[m + 1]
              d == [b EXCEPT ![At(e)] = e.sol_id]
  <2>1. b = [x \in A |-> b[x]] /\ \A x \in A : InnerTold(b, entries, m, x)
    BY <1>4
  <2>2. At(e) \in A /\ g[1 .. m + 1] = d /\ m + 1 \in 0 .. L
    <3>1. m + 1 \in DOMAIN entries
      BY <1>1
    <3>. QED
      BY <1>1, <1>2, <3>1 DEF A, InnerAt, Elements
  <2>3. /\ d = [x \in A |-> d[x]] /\ d[At(e)] = e.sol_id
        /\ \A x \in A : x # At(e) => d[x] = b[x]
    <3>. HIDE DEF b, e
    <3>. QED
      BY <2>1, <2>2
  <2>. HIDE DEF b, d
  <2>4. ASSUME NEW x \in A
        PROVE  InnerTold(d, entries, m + 1, x)
    <3>1. SUFFICES ASSUME NEW l \in 1 .. m + 1, At(entries[l]) = x,
                          \A o \in 1 .. m + 1 : At(entries[o]) = x => o <= l
                   PROVE  d[x] = entries[l].sol_id
      BY DEF InnerTold
    <3>2. CASE At(e) = x
      <4>1. m + 1 <= l
        BY <3>1, <3>2
      <4>2. l = m + 1
        BY <4>1
      <4>. QED
        BY <2>3, <3>2, <4>2
    <3>3. CASE At(e) # x
      <4>1. l \in 1 .. m
        <5>1. l # m + 1
          BY <3>1, <3>3
        <5>. QED
          BY <5>1
      <4>2. \A o \in 1 .. m : At(entries[o]) = x => o <= l
        BY <3>1
      <4>3. b[x] = entries[l].sol_id
        BY <2>1, <3>1, <4>1, <4>2 DEF InnerTold
      <4>. QED
        BY <2>3, <3>3, <4>3
    <3>. QED
      BY <3>2, <3>3
  <2>5. Good(m + 1)
    BY <2>2, <2>3, <2>4
  <2>. QED
    BY <2>2, <2>5
<1>5. L \in S
  <2>. HIDE DEF S
  <2>. QED
    BY <1>1, <1>3, <1>4, CountUp
<1>6. g[1 .. L] = [x \in A |-> g[1 .. L][x]] /\ \A x \in A : InnerTold(g[1 .. L], entries, L, x)
  BY <1>5
<1>. QED
  BY <1>2, <1>6 DEF L, A

\* What the solver is told of the element of row r and column c.
LEMMA InnerMeans ==
  ASSUME NEW rows \in Nat, NEW cols \in Nat, NEW entries \in Seq(InnerEntry(rows, cols)),
         NEW r \in 1 .. rows, NEW c \in 1 .. cols
  PROVE  InnerCondition(entries, <<r, c>>)
           = IF <<r - 1, c - 1>> \in DOMAIN RcppListToInnerBoundaryMap(entries)
             THEN RcppListToInnerBoundaryMap(entries)[<<r - 1, c - 1>>] ELSE 0
<1>. DEFINE map == RcppListToInnerBoundaryMap(entries)
            L == Len(entries)
            x == <<r - 1, c - 1>>
            of == {l \in DOMAIN entries : <<entries[l].row, entries[l].col>> = <<r, c>>}
            last == IF of = {} THEN 0 ELSE CHOOSE l \in of : \A o \in of : o <= l
<1>1. DOMAIN entries = 1 .. L /\ L \in Nat
      /\ \A l \in 1 .. L : entries[l].row \in Int /\ entries[l].col \in Int
  <2>1. DOMAIN entries = 1 .. L /\ L \in Nat /\ \A l \in 1 .. L : entries[l] \in InnerEntry(rows, cols)
    BY LenProperties
  <2>. QED
    BY <2>1 DEF InnerEntry
<1>2. DOMAIN map = InnerAt(entries) /\ \A y \in InnerAt(entries) : InnerTold(map, entries, L, y)
  BY InnerToldAll
<1>3. InnerCondition(entries, <<r, c>>) = IF last = 0 THEN 0 ELSE entries[last].sol_id
  BY DEF InnerCondition, LastIndex
<1>4. \A l \in 1 .. L : At(entries[l]) = x <=> l \in of
  <2>1. ASSUME NEW l \in 1 .. L
        PROVE  At(entries[l]) = x <=> l \in of
    <3>1. entries[l].row \in Int /\ entries[l].col \in Int
      BY <1>1
    <3>2. At(entries[l]) = x <=> entries[l].row = r /\ entries[l].col = c
      BY <3>1 DEF At
    <3>. QED
      BY <1>1, <3>2
  <2>. QED
    BY <2>1
<1>5. x \in InnerAt(entries) <=> of # {}
  <2>1. x \in InnerAt(entries) <=> \E l \in 1 .. L : At(entries[l]) = x
    BY <1>1 DEF InnerAt, Elements
  <2>2. of \subseteq 1 .. L
    BY <1>1
  <2>. HIDE DEF x, of
  <2>. QED
    BY <1>4, <2>1, <2>2
<1>6. CASE of = {}
  BY <1>2, <1>3, <1>5, <1>6
<1>7. CASE of # {}
  <2>1. of \subseteq 1 .. L /\ of \in SUBSET Nat /\ IsFiniteSet(of)
    <3>1. of \subseteq 1 .. L
      BY <1>1
    <3>2. IsFiniteSet(1 .. L)
      BY <1>1, FS_Interval
    <3>. HIDE DEF of
    <3>3. of \in SUBSET (1 .. L)
      BY <3>1
    <3>4. IsFiniteSet(of)
      BY <3>2, <3>3, FS_Subset
    <3>5. 1 .. L \subseteq Nat
      BY <1>1
    <3>. QED
      BY <3>1, <3>4, <3>5
  <2>2. PICK l \in of : \A o \in of : o <= l
    <3>. HIDE DEF of
    <3>. QED
      BY <1>7, <2>1, GreatestNat
  <2>3. last \in of /\ \A o \in of : o <= last
    BY <1>7, <2>2
  <2>. HIDE DEF of, last, x, map
  <2>4. last \in 1 .. L /\ last # 0 /\ At(entries[last]) = x
        /\ \A o \in 1 .. L : At(entries[o]) = x => o <= last
    BY <1>1, <1>4, <2>1, <2>3
  <2>5. x \in InnerAt(entries) /\ InnerTold(map, entries, L, x)
    BY <1>2, <1>5, <1>7
  <2>6. map[x] = entries[last].sol_id
    BY <2>4, <2>5 DEF InnerTold
  <2>. QED
    BY <1>2, <1>3, <2>4, <2>5, <2>6 DEF map, x
<1>. QED
  BY <1>6, <1>7
----------------------------------------------------------------------------
\* A matrix of coefficients for a square grid, and a single coefficient.
LEMMA AlphaMeans ==
  ASSUME NEW rows \in Nat \ {0}, NEW cols \in Nat \ {0}, rows * cols > 1,
         NEW kind, kind = "uniform" \/ rows = cols,
         NEW q \in Positions(rows, cols)
  PROVE  parseAlphas(kind, cols, rows)[q] \in {<<>>, RowMajMatMap(rows, cols)[q]}
<1>1. q \in 0 .. cols * rows - 1 /\ q \in 0 .. rows * cols - 1
  <2>1. cols * rows = rows * cols /\ rows * cols \in Nat
    OBVIOUS
  <2>. QED
    BY <2>1 DEF Positions
<1>2. CASE kind = "uniform"
  BY <1>1, <1>2 DEF parseAlphas, AlphaVector, colMajToRowMaj
<1>3. CASE kind # "uniform"
  <2>. DEFINE vec == RMatrix(rows, cols)
              p == (q % rows) * cols + q \div rows
  <2>1. rows = cols
    BY <1>3
  <2>2. DOMAIN vec = Positions(rows, cols)
    BY DEF RMatrix
  <2>3. 0 \in Positions(rows, cols) /\ 1 \in Positions(rows, cols) /\ 1 # 0
    <3>. DEFINE N == rows * cols
    <3>1. N \in Nat /\ N > 1
      OBVIOUS
    <3>. HIDE DEF N
    <3>2. 0 \in 0 .. N - 1 /\ 1 \in 0 .. N - 1
      BY <3>1
    <3>. QED
      BY <3>2 DEF N, Positions
  <2>4. DOMAIN vec # {0}
    BY <2>2, <2>3
  <2>5. parseAlphas(kind, cols, rows)[q] = vec[p]
    BY <1>1, <1>3, <2>4 DEF parseAlphas, AlphaVector, colMajToRowMaj
  <2>. HIDE DEF vec
  <2>6. /\ q \in Nat /\ q \div rows \in 0 .. rows - 1 /\ q % rows \in 0 .. rows - 1
        /\ q \div cols = q \div rows /\ q % cols = q % rows
    BY <1>1, <2>1, IndexParts
  <2>7. /\ p \in 0 .. rows * rows - 1 /\ p \div rows = q % rows /\ p % rows = q \div rows
    BY <2>1, <2>6, IndexOf
  <2>8. p \in Positions(rows, cols)
    BY <2>1, <2>7 DEF Positions
  <2>9. vec[p] = <<(p % rows) + 1, (p \div rows) + 1>>
    BY <2>8 DEF RMatrix, vec
  <2>10. RowMajMatMap(rows, cols)[q] = <<(q \div cols) + 1, (q % cols) + 1>>
    BY DEF RowMajMatMap
  <2>. HIDE DEF p
  <2>. QED
    BY <2>5, <2>6, <2>7, <2>9, <2>10
<1>. QED
  BY <1>2, <1>3

\* What the setup, and then the solver, has of the script.
ScriptInv ==
  /\ input.rows \in 1 .. MaxCells /\ input.cols \in 1 .. MaxCells
  /\ input.rows * input.cols > 1
  /\ input.script \in Scripts(input.rows, input.cols)
  /\ stage = "setup" =>
       /\ setup.boundaries
            = resolveBoundaries(input.script.boundaries, input.rows, input.cols)
       /\ setup.inner = RcppListToInnerBoundaryMap(input.script.inner)
       /\ setup.alpha = parseAlphas(input.script.alpha, input.cols, input.rows)
  /\ Loaded =>
       /\ param_list.boundaries
            = RcppListToBoundaryMap(
                resolveBoundaries(input.script.boundaries, input.rows, input.cols))
       /\ param_list.inner = RcppListToInnerBoundaryMap(input.script.inner)
       /\ param_list.alpha = parseAlphas(input.script.alpha, input.cols, input.rows)

LEMMA ScriptInit == Init => ScriptInv
<1>. SUFFICES ASSUME Init PROVE ScriptInv
  OBVIOUS
<1>1. PICK rows \in 1 .. MaxCells, cols \in 1 .. MaxCells :
        /\ rows * cols \in 2 .. MaxCells
        /\ \E script \in Scripts(rows, cols) :
             input = [rows |-> rows, cols |-> cols, script |-> script]
  BY DEF Init
<1>2. PICK script \in Scripts(rows, cols) :
        input = [rows |-> rows, cols |-> cols, script |-> script]
  BY <1>1
<1>3. input.rows = rows /\ input.cols = cols /\ input.script = script
  BY <1>2
<1>4. rows * cols > 1
  BY <1>1
<1>5. stage = "script"
  BY DEF Init
<1>. QED
  BY <1>3, <1>4, <1>5 DEF ScriptInv, Loaded

LEMMA ScriptNext == IInv /\ ScriptInv /\ [Next]_vars => ScriptInv'
<1>. SUFFICES ASSUME IInv, ScriptInv, [Next]_vars PROVE ScriptInv'
  OBVIOUS
<1>1. UNCHANGED input
  BY NextSameGrid DEF vars
<1>2. CASE initializeFromList
  BY <1>1, <1>2 DEF initializeFromList, ScriptInv, Loaded
<1>3. CASE importList
  BY <1>1, <1>3 DEF importList, ScriptInv, Loaded
<1>4. CASE RejectGrid
  BY <1>1, <1>4 DEF RejectGrid, ScriptInv, Loaded
<1>5. CASE \/ Diffuse \/ ToChemistry \/ StartChemistry \/ RunLoops \/ FillBuffer
           \/ RunPackages \/ TakeResults \/ SaveIteration \/ BackToTransport
           \/ UNCHANGED vars
  <2>1. \/ UNCHANGED <<setup, param_list>> /\ stage' # "setup"
        \/ UNCHANGED <<setup, param_list, stage>>
    BY <1>5 DEF Diffuse, ToChemistry, StartChemistry, RunLoops, FillBuffer, RunPackages,
                TakeResults, SaveIteration, BackToTransport, vars
  <2>2. Loaded' => Loaded
    BY <1>5 DEF Diffuse, ToChemistry, StartChemistry, RunLoops, FillBuffer, RunPackages,
                TakeResults, SaveIteration, BackToTransport, vars, Loaded, Unshuffled,
                IInv, DataInv, BufferInv
  <2>. QED
    BY <1>1, <2>1, <2>2 DEF ScriptInv
<1>. QED
  BY <1>2, <1>3, <1>4, <1>5 DEF Next

LEMMA ScriptKept == Spec => []ScriptInv
BY Invariant, ScriptInit, ScriptNext, PTL DEF Spec

\* As the numbers of the sides are 0 to 3, each is its own place in the list.
LEMMA ListPlaceIs ==
  ASSUME NEW b \in 0 .. 3
  PROVE  b \in DOMAIN tug_side_mapping /\ ListPlace(b) = b
<1>1. DOMAIN tug_side_mapping = 0 .. 3
  BY SideAssumption
<1>2. {m \in 0 .. 3 : m < b} = 0 .. b - 1
  OBVIOUS
<1>3. Cardinality(0 .. b - 1) = b
  <2>1. 0 \in Int /\ b - 1 \in Int
    OBVIOUS
  <2>2. Cardinality(0 .. b - 1) = IF 0 > b - 1 THEN 0 ELSE (b - 1) - 0 + 1
    BY <2>1, FS_Interval
  <2>. QED
    BY <2>2
<1>. QED
  BY <1>1, <1>2, <1>3 DEF ListPlace

\* The list has the conditions of a side at its number.
LEMMA ResolvedAt ==
  ASSUME NEW script, NEW n_rows, NEW n_cols, NEW b \in 0 .. 3
  PROVE  resolveBoundaries(script, n_rows, n_cols)[b]
           = resolveSide(script[tug_side_mapping[b]],
                         SideLength(tug_side_mapping[b], n_rows, n_cols))
<1>1. DOMAIN tug_side_mapping = 0 .. 3
  BY SideAssumption
<1>2. (CHOOSE m \in DOMAIN tug_side_mapping : ListPlace(m) = b) = b
  BY <1>1, ListPlaceIs
<1>. QED
  BY <1>2 DEF resolveBoundaries

LEMMA BoundariesFromInv == IInv /\ ScriptInv => BoundariesInPlace
<1>. SUFFICES ASSUME IInv, ScriptInv, Loaded PROVE BoundariesInPlace
  BY DEF BoundariesInPlace
<1>. DEFINE rows == input.rows
            cols == input.cols
            script == input.script
<1>1. /\ rows \in 1 .. MaxCells /\ cols \in 1 .. MaxCells
      /\ script \in Scripts(rows, cols)
      /\ param_list.boundaries
           = RcppListToBoundaryMap(resolveBoundaries(script.boundaries, rows, cols))
      /\ param_list.inner = RcppListToInnerBoundaryMap(script.inner)
  BY DEF ScriptInv
<1>2. /\ \A side \in Sides :
           script.boundaries[side] \in Seq(SideEntry(SideLength(side, rows, cols)))
      /\ script.inner \in Seq(InnerEntry(rows, cols))
  BY <1>1, ScriptsAssumption
<1>3. rows \in Nat /\ cols \in Nat /\ \A side \in Sides : SideLength(side, rows, cols) \in Nat
  BY <1>1, CouplingAssumption DEF SideLength
<1>4. ASSUME NEW b \in DOMAIN tug_side_mapping,
             NEW k \in 1 .. SideLength(tug_side_mapping[b], rows, cols)
      PROVE  param_list.boundaries[b][k - 1]
               = SideCondition(script.boundaries[tug_side_mapping[b]], k)
  <2>. DEFINE side == tug_side_mapping[b]
              length == SideLength(side, rows, cols)
              entries == script.boundaries[side]
              bound == resolveSide(entries, length)
  <2>0. b \in 0 .. 3 /\ side \in Sides
    BY SideAssumption
  <2>1. length \in Nat /\ entries \in Seq(SideEntry(length)) /\ k \in 1 .. length
    BY <1>2, <1>3, <2>0
  <2>2. resolveBoundaries(script.boundaries, rows, cols)[b] = bound
    BY <2>0, ResolvedAt
  <2>3. param_list.boundaries[b]
          = [x \in DOMAIN bound.type |-> IF bound.type[x] = "constant" THEN bound.value[x] ELSE 0]
    <3>. DEFINE told == resolveBoundaries(script.boundaries, rows, cols)
    <3>1. param_list.boundaries = RcppListToBoundaryMap(told) /\ told[b] = bound
      BY <1>1, <2>2
    <3>. HIDE DEF told, bound
    <3>. QED
      BY <3>1 DEF RcppListToBoundaryMap
  <2>. HIDE DEF length, entries
  <2>4. bound \in Bounds(length)
    BY <2>1, SideTold
  <2>5. DOMAIN bound.type = 0 .. length - 1 /\ k - 1 \in 0 .. length - 1
    BY <2>1, <2>4 DEF Bounds
  <2>6. (IF bound.type[k - 1] = "constant" THEN bound.value[k - 1] ELSE 0)
          = SideCondition(entries, k)
    BY <2>1, SideMeans
  <2>. HIDE DEF bound
  <2>. QED
    BY <2>3, <2>5, <2>6 DEF entries
<1>5. ASSUME NEW r \in 1 .. rows, NEW c \in 1 .. cols
      PROVE  InnerCondition(script.inner, <<r, c>>)
               = IF <<r - 1, c - 1>> \in DOMAIN param_list.inner
                 THEN param_list.inner[<<r - 1, c - 1>>] ELSE 0
  <2>. HIDE DEF rows, cols
  <2>1. InnerCondition(script.inner, <<r, c>>)
          = IF <<r - 1, c - 1>> \in DOMAIN RcppListToInnerBoundaryMap(script.inner)
            THEN RcppListToInnerBoundaryMap(script.inner)[<<r - 1, c - 1>>] ELSE 0
    BY <1>2, <1>3, InnerMeans
  <2>. QED
    BY <1>1, <2>1
<1>. QED
  BY <1>4, <1>5 DEF BoundariesInPlace

\* BoundariesInPlace: the conditions on the sides and inside the grid reach the
\* solver at the elements the script names, for grids of every shape and any
\* series of entries, of which the last for an element counts.
THEOREM BoundariesKept == Spec => []BoundariesInPlace
BY Invariant, ScriptKept, BoundariesFromInv, PTL

LEMMA AlphasFromInv ==
  ASSUME \A rows, cols \in 1 .. MaxCells : \A script \in Scripts(rows, cols) :
           script.alpha = "matrix" => rows = cols
  PROVE  IInv /\ ScriptInv => AlphasInPlace
<1>. SUFFICES ASSUME IInv, ScriptInv, Loaded, NEW q \in Cell
              PROVE  param_list.alpha[q] \in
                       {<<>>, RowMajMatMap(param_list.n_rows, param_list.n_cols)[q]}
  BY DEF AlphasInPlace
<1>. DEFINE rows == input.rows
            cols == input.cols
            kind == input.script.alpha
<1>1. /\ rows \in 1 .. MaxCells /\ cols \in 1 .. MaxCells /\ rows * cols > 1
      /\ input.script \in Scripts(rows, cols)
      /\ param_list.alpha = parseAlphas(kind, cols, rows)
  BY DEF ScriptInv
<1>2. kind = "uniform" \/ rows = cols
  BY <1>1, ScriptsAssumption
<1>3. /\ rows \in Nat \ {0} /\ cols \in Nat \ {0} /\ q \in Positions(rows, cols)
      /\ param_list.n_rows = rows /\ param_list.n_cols = cols
  BY MapType DEF IInv, DataInv, Shape, SetupInv
<1>. HIDE DEF rows, cols, kind
<1>4. parseAlphas(kind, cols, rows)[q] \in {<<>>, RowMajMatMap(rows, cols)[q]}
  BY <1>1, <1>2, <1>3, AlphaMeans
<1>. QED
  BY <1>1, <1>3, <1>4

\* TransportInPlace: with a matrix of coefficients only for square grids, each
\* cell also has its own coefficient.  For other grids this is false, as run
\* CouplingAlpha shows: hence the assumption.
THEOREM TransportKept ==
  ASSUME \A rows, cols \in 1 .. MaxCells : \A script \in Scripts(rows, cols) :
           script.alpha = "matrix" => rows = cols
  PROVE  Spec => []TransportInPlace
<1>1. IInv /\ ScriptInv => TransportInPlace
  BY BoundariesFromInv, AlphasFromInv DEF TransportInPlace
<1>. QED
  BY <1>1, Invariant, ScriptKept, PTL
=============================================================================
