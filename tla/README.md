# A TLA+ model of POET

POET is a reactive-transport simulator.  A master process runs the coupling
loop (transport, then chemistry, once per time step); worker processes compute
the chemistry of the grid cells in *work packages*.  Because most chemistry
calls repeat earlier ones, the workers share two *surrogates*: a distributed
hash table (DHT) of earlier results, and an interpolation over neighbouring
results that a second table, the proximity hash table (PHT), points to.
Everything is C++ and C over MPI; the tables are MPI windows that the workers
read and write with one-sided calls.

This directory holds TLA+ modules that model the parts of POET where
interleavings, ordering and boundary cases matter, TLC configurations that
check them on small instances, and theorems that the TLA+ proof system checks
for every size of the tables and the grid, any number of workers, any hash
function and any values of the cells.  Paths below are relative to the repository.

## 1. Inventory

MF, WF, CM stand for `MasterFunctions.cpp`, `WorkerFunctions.cpp` and
`ChemistryModule.cpp` in `src/Chemistry`.

| Component | State it keeps | Operations | Interacts with | Modules |
|---|---|---|---|---|
| **Distributed hash table** `src/Chemistry/SurrogateModels/DHT.c` | a window of buckets (flag byte, key, data) on every worker; per rank the probe counts `sum_idx`, `cnt_idx` | `DHT_read`, `DHT_write`, `DHT_write_accumulate`, `DHT_read_location`, `DHT_to_file`, `DHT_from_file`, `DHT_get_used_idx_factor`, `DHT_flush`, create and free | called by wrapper, PHT and `WorkerPostIter`; ranks interact through window locks and collectives | `DHT`, `LossyCache`, `DetermineDest`, dumps and restarts in `DHTFile`, proofs in `DHT_proofs` |
| **Work loop** MF, WF | master: field, shuffled buffer, worker list, counters of packages and free workers; worker: package, iteration count | `MasterRunParallel`, `MasterSendPkgs`, `MasterRecvPkgs`; `WorkerProcessPkgs`, `WorkerDoWork`, `WorkerPostIter`, `WorkerPostSim` | messages `LOOP_WORK`, `LOOP_END`, broadcasts, barrier | `WorkLoop`, `SerialChemistry` |
| **Partition of the grid** `CalculateWPSizesVector`, `shuffleField`, `unshuffleField` | locals of the loops | count the sizes, copy the cells | called by the work loop | `Packages`, `Partition`, run by `Coupling` |
| **Worker commands and metrics** `WorkerLoop`, `WorkerPerfToMaster`, `WorkerMetricsToMaster`, the master's getters | the command a worker is in; timings and per-iteration counters | one broadcast per command, then gathers, reductions and sends | master and workers must enter the same collectives in the same order | `Commands` |
| **DHT wrapper, lookup keys** `DHT_Wrapper.cpp`, `Rounding.hpp`, `LookupKey.hpp` | keys, locations and `filledDHT` of the last package; hit counters | `prepareKeys`, `checkDHT`, `fillDHT`, conversion of outputs to rates and back | DHT, work package | `Surrogates`, `LookupKeys` |
| **Proximity hash table** (PHT) `ProximityHashTable.cpp` | a DHT whose data are lists of (rank, index) pairs; a local LRU cache | `query`, `writeLocationToPHT`, the accumulate callback, the cache | both tables | table and callback `DHT` (run `DHTPHT`), queries `Surrogates`, cache `LocalCache`, coarse keys `LookupKeys` |
| **Interpolation** `InterpolationModule.cpp`, inverse distance weighting in CM | status of each cell of the package | `tryInterpolation`, `writePairs` | PHT, hooks in R | `Surrogates`; the arithmetic stays out |
| **Set-up of the chemistry module** CM | the enabled surrogates | `masterSetField`, `initializeDHT`, `initializeInterp`, ... | collective calls at start-up | the collectives in `Commands` |
| **Coupling loop** `poet.cpp` | iteration, fields of transport and chemistry | transport, update, AI prediction, simulate, save, update back | all of the above | `Coupling`, `OperatorSplitting`; the AI prediction in `WorkLoop`; the master's sequence of calls in `Commands` |
| **Field** `DataStructures/Field.cpp` | columns by name, their order | constructors, `update`, to and from vectors | transport, chemistry, R | `Coupling` |
| **Transport** `Transport/DiffusionModule.cpp` | its field, boundary conditions and coefficients | `simulate` | coupling loop, TUG | `Coupling`, `GridLayout`; the solver is one step |
| **Initialisation** `Init/`, `initializer.cpp` | the setup that `poet_init` writes and `poet` reads | grid, boundaries, coefficients, options of the chemistry | R scripts | grid, boundaries and coefficients in `GridLayout` and `Coupling` |
| **R library** `R_lib/` | - | expansion of the grid, output, user hooks, AI model | initialisation, coupling loop | expansion in `GridLayout`, output in `Coupling`; the rest is not modelled |
| **Options** `poet.cpp` | `RuntimeParameters` | parsing | start-up | not modelled; constants and initial choices of the modules |
| **Chemistry solver** | - | litephreeqc, a submodule whose sources are not in the repository | - | not modelled; a computed cell is one step |

What makes each of them correct, and what is hard about it:

* **Hash table.**  A read returns what was last stored under its key, or a
  miss.  Hard: reads stop probing at the first empty candidate, so no gap may
  ever open before an entry, whatever concurrent writers, evictions and
  flushes do; search and put of a write are two one-sided accesses; dump and
  flush touch the windows without locks and rely on barriers; the decision to
  flush must be the same on every rank, although a mean over no writes is 0/0.
* **Work loop.**  Distributing the cells must not be visible: each cell is
  advanced exactly once per iteration from its own content.  Hard: results
  return in any order into addresses noted in the worker list; the master
  chooses between a blocking and a non-blocking probe from counters; blocking
  sends in both directions could wait for each other; no message may outlive
  its iteration.
* **Partition.**  The sizes of the packages and the order of the cells come
  from two separate loops that must agree when the package size does not divide
  the grid.
* **Coupling and layout.**  In every cell and for every species one transport
  step, one chemistry step, and so on.  Hard: the values of a cell pass through
  columns by name, a vector of columns, rows in the order of packages, and data
  frames, each with its own loops and strides; R keeps matrices by columns and
  the solver by rows, which shows only in grids that are not square; two fields
  are kept equal by two updates per iteration.
* **Surrogate pipeline.**  The PHT stores *addresses* in the main table, whose
  entries may be overwritten or flushed in the meantime; the local cache of
  query results is never emptied; results are stored as inputs and rates and
  must be turned back into outputs; an approximation must never be stored as if
  it had been computed.
* **Local cache.**  Three structures (map, list, finder) and a budget that must
  agree after any series of hits, insertions and evictions.
* **Keys.**  Cells that share a key must be alike; rounding has its own rules
  near zero, at the limit of aqueous concentrations and for H and O, of which a
  base is taken away first.
* **Commands.**  Master and workers must agree on the sequence of collectives
  for every combination of options; counters must be those of the right
  iteration although workers run ahead of each other.

`PROJECT.json` lists the hazards one by one, with source line and property.

## 2. Modules

| Module | What it is | Extends / instantiates |
|---|---|---|
| `LossyCache` | abstract specification of a shared cache: may forget, never lies | |
| `DetermineDest` | hash to destination rank and candidate buckets | |
| `DHT` | the table of `DHT.c` inside the iteration of the workers | `LossyCache` (refinement) |
| `MCDHT` | instances of `DHT` for TLC: main table and PHT | `DHT`, `DetermineDest` |
| `DHTFile` | the table across restarts from a dump | `DHT` |
| `MCDHTFile` | snapshots of other runs for TLC | `MCDHT`, `DHTFile` |
| `DHT_proofs` | theorems about `DHT`, then about `DHTFile` | `DHTFile`, TLAPS |
| `Packages` | closed forms: number, size and order of packages | |
| `Counting_proofs` | what several proofs count with: sums over a function's values, folds over sequences, least and greatest elements; the cuts fill the grid, shuffling is a permutation | `Packages`, TLAPS |
| `Partition` | the loops that compute them and the way back | `Packages` |
| `GridLayout` | from the matrices and lists of a script to the vectors of the solver | |
| `OperatorSplitting` | abstract specification of a simulation, told of cells | |
| `Coupling` | set-up and coupling loop, down to the copies of a value | `GridLayout`, `Partition`, `OperatorSplitting` (refinement) |
| `MCCoupling` | scripts for TLC | `Coupling` |
| `Coupling_proofs` | theorems about `Partition`, `Coupling` and `GridLayout` | `Coupling`, `Counting_proofs` |
| `SerialChemistry` | abstract specification of `simulate` | |
| `WorkLoop` | master, workers and the messages between them | `Packages`, `SerialChemistry` (refinement) |
| `WorkLoop_proofs` | where the packages are and what is in them: the refinement of `SerialChemistry` | `WorkLoop`, `Counting_proofs` |
| `Surrogates` | packages on their way through both tables | |
| `MCSurrogates` | inputs, keys and candidates for TLC | `Surrogates` |
| `Surrogates_proofs` | theorems about `Surrogates` | `Surrogates`, `Counting_proofs` |
| `LocalCache` | the local cache of the PHT with its budget | |
| `LocalCache_proofs` | theorems about `LocalCache` | `LocalCache`, `Counting_proofs` |
| `LookupKeys` | rounding, fine and coarse keys | |
| `MCLookupKeys` | species, values and digits for TLC; the values of `testRounding.cpp` as an assumption | `LookupKeys` |
| `LookupKeys_proofs` | decimal numbers cut to their leading digits, then theorems about `LookupKeys` | `LookupKeys`, `Counting_proofs` |
| `Commands` | start-up, commands and metrics as one series of collective calls | |
| `MCCommands` | all combinations of options | `Commands` |
| `Commands_proofs` | where the workers are in the program of calls, how far from the master, and what it gets from them | `Commands`, `Counting_proofs` |

How they fit together: `DHT` shows that a call on a table is one atomic step of
a cache that may forget (`LossyCache`); `Surrogates` builds on that and takes
the tables as atomic maps; `LookupKeys` says which inputs such a key stands for;
what `Surrogates` does with a package is one `DoWork` of `WorkLoop`, and what
`WorkLoop` does is one step of `SerialChemistry` per iteration, one step
(`RunPackages`) of `Coupling`, and one loop command of `Commands`.

### 2.1 DHT

*State.*  `bkey` and `bdata` are the buckets of all windows (`bkey[l] = NoKey`:
flag byte clear).  For every rank, `pc` is its place in the current call
(`idle`, waiting for the `lock`, in the `probe` loop, before the `put`, before
the `unlock`), `req` the arguments, `idx` the loop variable `i` (from 1), `at`
the bucket it looks at, `send` the data half of `send_entry`, `reply` what the
call will return.  `phase` is its place in the iteration: `loop` (in
`WorkerProcessPkgs`), `dump` and `dumped` (in `DHT_to_file`), `reduce` (in
`DHT_get_used_idx_factor`), `flush` and `flushed` (before and after the memset of
`DHT_flush`), `end`.  `rows` is the content of the dump file.

*Actions.*  `CallRead`, `CallWrite` (both `DHT_write` and
`DHT_write_accumulate`) and `CallLocation` enter a call; `WinLock` is
`MPI_Win_lock` being granted; `ProbeNext`, `ReadHit`, `ReadMiss`, `WriteStop`
are what the body of the probe loop may do after its `MPI_Get`; `LocationGet`
is the single get of `DHT_read_location`; `Put` and `Unlock` the rest.  The
end of an iteration is `PostIter`, `WriteRows`, `LeaveDump`, `UsedIdxFactor`,
`Wipe` and `LoopBarrier`, the barrier at the head of the next
`WorkerProcessPkgs`.

*Memory.*  A put is only complete at the unlock.  Between `Put` and `Unlock`
any other rank that gets the bucket may see anything (`Seen`).  The exclusive
lock is what excludes it; the model does not assume it.

*Main table and PHT* are the same code with different arguments, so the module
is instantiated for each: the main table is read, written and read by location
and is flushed on a decision made elsewhere (`OwnFactor = FALSE`); the PHT is
read and written with the accumulate callback of `ProximityHashTable.cpp`
(`Merge`) and is flushed on its own factor.  The run of the PHT offers it the
read by location too, which the program only uses on the main table.  A location
a caller asks for is the candidate of some key: it comes from an earlier
`DHT_write`.  A maximum over a NaN, the mean of
a rank without writes, may return any contribution (`FlushDecisions`).

*Abstracted.*  Keys, data and hash are constants: `Dest` and `Probe` give the
destination and candidates.  Error returns (`DHT_MPI_ERROR`) do not occur under
MPI's default error handler, which aborts.  The counters `evictions` and
`read_misses` in the table object are only printed.

*Restart* (`DHTFile`).  A dump survives the program: `Restart` starts over with
empty tables and the entries of the file, in any order, from any state in which
something has been dumped, also in the middle of a dump.  `Restore` is a pass
of the loop of `DHT_from_file`: each rank takes every `CommSize`-th entry and
calls `DHT_write` with it, whose steps are those of `DHT`, concurrently with
the other ranks; `CloseFile` is the collective close, after which the actions
of `DHT` go on.  The header of the file has no size of the table and the file is
not truncated when it is overwritten, so `Given` adds snapshots with more
entries than fit and with two entries of one key.  `WorkerReadDHTDump` (WF:290)
is the only caller of `DHT_from_file`, and `CHEM_DHT_READ_FILE` has no handler
in `WorkerLoop`: `--dht-file` of `README.md:210` cannot be reached at present,
and the model says what it will do when it is connected.

### 2.2 WorkLoop and Partition

*State* of the master: `mpc` is its place in the coupling loop and in
`MasterRunParallel` (`ready`, before the `barrier`, `send`, `sending` while
blocked in `MPI_Send`, `recv`, `end`, `ending`, `stopped`); the other
variables have the names of the code's.  `work_pointer` and `send_addr` are
cell positions in the buffer, not double positions.  A worker is `ready` (in
`WorkerLoop`), in the `probe`, in the `work` of a package, in `fill` (results
sent, filling the tables and waiting for the send), or in `post`
(`WorkerPostIter`).  `toWorker` and `toMaster` are the messages between two
ranks, in order.

*Actions* follow the code: `SendPackage` + `PackageSent` (or `SkipWorker`) are
one iteration of the loop of `MasterSendPkgs`, `RecvResult` and `ProbeFails`
those of `MasterRecvPkgs`; `Unshuffle`, `SendEnd`, `EndSent` and `Return` are
the end of `MasterRunParallel`; `RecvWork`, `DoWork` and `FinishWork` are
`WorkerDoWork`.  `Predict` is what the coupling loop does before `simulate`
with the AI surrogate; `LoopBreak` is `MasterLoopBreak` with `WorkerPostSim`.
`MPI_Send` may return at once or only when the message has been taken;
`MPI_Iprobe` may miss a message under way.

The content of a cell is where its species came from and how many steps they
were advanced.  Result by Phreeqc, by DHT and by interpolation all count as
one step; with the AI surrogate a cell whose prediction was accepted arrives
already advanced and must be left alone.  It is not if a table is in use as well
(`Tables`) and has a result for the cell, which the worker copies over the
prediction (`PredictionStays`); which cells a table has is left open.

`Packages` states what the loops compute in closed form (a package is the set
of cells with the same remainder); `Partition` runs the loops, one inner
iteration per step and `unshuffleField` included, and `Coupling` checks them
against it in every chemistry step.

The worker's iteration may end with the collectives of the tables
(`Collective`: flush decision and dump make all workers wait for each other) or
without; which one is chosen in the initial state.

### 2.3 Surrogates

*State.*  `main` and `pht` are the buckets of both tables; the other variables
are those of a worker in `WorkerDoWork`: its place `pc`, the `package` and the
cell `i` its loop is at, the `mapping` that says where a result is from, the
`output`, the locations `filled` (the wrapper's `filledDHT` and `locations`),
those `query` has still to read (`todo`), `lookup_results`, the local `cache`.

*Actions.*  `CheckCell` is an iteration of `checkDHT`; `SkipCell`,
`QueryCached`, `QueryPHT`, `Gather` (one `DHT_read_location`) and `Interpolate`
are those of `tryInterpolation`; `Run` is Phreeqc with the cells left to it,
`FillCell` and `PairCell` the iterations of `fillDHT` and `writePairs`, `Done`
the return, and `PostIter` the end of an iteration with its flush.  Workers
interleave between any two accesses.  `filled` is kept from one package to the
next and cleared where `fillDHT` clears it, so what clears it too late shows.

*Abstracted.*  A cell is an integer and `Pqc` is any function on them, with a
stored pair of input and rate; the user's hooks `dht_fill`, `interp_pre` and
`interp_post` are constants, and `interp_post` may reject at will.  What
`interp_pre` returns is erased index by index (IM:114-119), which removes the pairs
it means only if it names them from the last to the first, as the scripts in
`bench/` do (`rev(which(...))`).  The weighted
mean of the interpolation is represented by the rates it can come close to, or
is NaN when all pairs have distance zero (the weights in CM:98 are then 0/0).

### 2.4 Commands

The master takes no decision that depends on an answer, so it is its `program`:
the sequence of its collective calls for a `setup` (DHT, interpolation, AI,
snapshots, number of time steps).  A worker has a place `wpc`, with `at` the
next of the master's calls it will take part in.  `ReadStartUp`, `ReadCommand`,
`ReadValidity` and `ReadType` receive broadcasts; `PerfToMaster` is a gather,
`MetricsToMaster` and `SendSums` the reductions over the workers' communicator
and the send by its root; `Split`, `Barrier`, `IterationEnd` and
`SimulationEnd` are entered by all.  `Count` is an event a worker counts
anywhere in its loop, also after it has returned its results; `happened` is
what really took place, for comparison.  `CollectivesMatch` compares the kind
of call: the counts and types of the data are not in the model.

At least one worker is assumed (`NWorkers > 0`).  POET can be started on one
process, where the master computes by itself; with `--dht` its getters would
then wait for a worker that does not exist.

### 2.5 LocalCache

`map`, `free_mem`, `lru_queue` and `keyfinder` are the members of the class;
`recent` is a history variable.  A list node has an identity of its own, since
`keyfinder` holds iterators.  Two things a reader of the code may not expect:
the budget is only looked at before an insertion, and then one entry makes way
whatever its size, so the memory in use is not bounded by it (the number of
entries is, `EntriesBounded`); and the cache is not emptied with the tables.

### 2.6 LookupKeys

A number is `m * 10^e`, exactly.  `DHT_Rounder::round` and the loop of
`fuzzForDHT` are translated with their cases, one element of the key per step;
`StoredKey` is the part of a fine key that the table compares (`key_count + 1`
elements), `CoarseKey` is what `roundKey` makes of it.  Where the language leaves a conversion
open (the double `-inf` or a number beyond the range of an integer) the model
has what x86-64 does: a number with more digits in front of the point than the
key has significant ones makes `signif - exp - 1` wrap around, and its element
is zero.  A binary double may fall just below a decimal number, so that a digit
fewer comes out; the model is exact instead.  NaN in a key and the conversion
of keys back to numbers are not modelled.

What the module assumes of its inputs has names.  `KeysAssumption`: a key keeps
one to nine digits of a species and a coarse key none to nine; hydrogen and
oxygen are named once.  With no digits in the coarse key (`d = 0`, which
`PHT_Rounder::round` treats apart) a species says only whether it is positive,
so `SameCoarseClose` says nothing of it.  `ValuesAssumption`: numbers have at
most nine digits, also after a base total has been taken off (the proofs have a
table of the powers of ten up to there); and there is water in every cell.
The last is a condition of the code: `fuzzForDHT` skips a zero before it counts
the totals, so in a cell without hydrogen the base total of hydrogen would be
taken off oxygen.

### 2.7 Coupling and GridLayout

*Layout.*  A cell is its row and column in the script.  A vector of the model
says for each entry which cell it was made for, so a transposition or a stride
that is wrong shows as a cell in the wrong place.  `RMatrix` is how R stores a
matrix, `RowMajMatMap` how the solver reads a vector; `pqc_to_grid`,
`colMajToRowMaj`, `resolveBoundaries`, `RcppListToBoundaryMap` and
`RcppListToInnerBoundaryMap` are the functions of those names; `resolveSide` is
the part of `resolveBoundaries` about one side.  The script names the sides, the
solver numbers them (`tug_side_mapping`).  `resolveBoundaries` makes a list in the
order of the numbers (`ListPlace`), and `RcppListToBoundaryMap` takes the number
of a side for its place in that list.  That is right because the enumeration of
tug starts at 0, which is `SideAssumption`: the sources of tug are not in the
repository.

*State.*  `input` is the script, `setup` what `poet_init` exports, `param_list`
what the transport module is constructed with, `transport` and `chem` the two
fields, `mpi_buffer` the shuffled field, `saved` the files.  `stage` is the
place in the program; inside the stage `chemistry` the loops of `Partition` run
with their own `pc`.  An entry of a column is `[at, t, c]`: the cell it was made
for, and the transport and chemistry steps it has seen.

*Actions.*  `RejectGrid` or `initializeFromList` (the set-up), `importList`
(the start of `poet`), then per iteration `Diffuse`, `ToChemistry`,
`StartChemistry`, the loops, `FillBuffer`, `RunPackages`, `TakeResults`,
`SaveIteration`, `BackToTransport`.  `Diffused` and `React` are what the two
solvers do; each demands its input in order (a column by rows and in one state;
a row of values of one cell, the transported ones a step ahead) and answers
anything else with a value that belongs to no cell, which then stays.

*Refinement.*  `View` reads a column at the place where the solver has each
cell.  The half steps that matter are `Diffuse`, `TakeResults` and
`SaveIteration`; all other steps stutter.  So `ImplementsSplitting` says that
neither the copies nor the order of the updates can be seen in a result or in a
saved state.

*Abstracted.*  The exchange with the workers is one step: `WorkLoop` shows
(`ImplementsSerial`) that it computes every row once and puts the result where
the row was.  The AI surrogate's update of the field between transport and
chemistry is in `WorkLoop`.  `MasterRunSequential` is commented out in the
source (MF:336-361).

## 3. Runs

| Run | Instance | States | Shows |
|---|---|---|---|
| `DHTMain` | 2 ranks, 2 buckets each, 3 keys, 2 data, 1 call per rank and iteration, dumps and flushes; restarts from a dump and from two other snapshots of 3 entries | 211,883 | `TypeOK`, `ProbeChain`, `NoDuplicateKey`, `DumpComplete`, `Restored`, `ImplementsCache` |
| `DHTPHT` | the same without restarts, with accumulating writes of 2 locations into lists, flush on its own factor; fairness | 47,618 | `NoCallDuringFlush`, `ImplementsCache`, `CallsReturn`, `IterationEnds` |
| `Coupling` | all grids of 2 to 9 cells, package sizes 1..10, 2 scripts each, 3 species of which 1 is transported, 2 iterations, the second is saved | 18,752 | `TypeOK`, `PackagesBalanced`, `ClosedForms`, `CutsAtPackages`, `TransportInPlace`, `ImplementsSplitting` |
| `CouplingAlpha` | the same with a matrix of coefficients | - | `AlphasInPlace` is **violated**, see section 6 |
| `WorkLoop` | 3 workers, 7 cells in packages of 2, 2 iterations, which the workers end alone or together; fairness | 13,680 | `TypeOK`, `WorkerListExact`, `NothingLeftOver`, `ImplementsSerial`, `SimulationEnds` |
| `WorkLoopAI` | 2 workers, 4 cells, one accepted prediction | - | `FieldAdvanced` is **violated**, see section 6 |
| `Surrogates` | 2 workers, 6 inputs of 3 keys and 2 coarse keys, 2 buckets and 1, packages of 2 cells, 3 iterations, with and without `--interp` | 234,149 | `TypeOK`, `TableTrue`, `LocationsLive`, `PairsTrue`, `ComputedExact`, `PlainHitsComputed` |
| `SurrogatesHit` | the same inputs, DHT and interpolation | - | `HitsComputed` is **violated**, see section 6 |
| `Commands` | 2 workers, 2 species, all 16 combinations of options, 0 or 2 time steps, 2 events | 318,768 | `TypeOK`, `CollectivesMatch`, `MetricsExact`, `FreshValidity`, `AskedExists`, `ProgramEnds` |
| `LocalCache` | 5 keys, results of size 2 and 5, budget 6 | 66,651 | `TypeOK`, `Consistent`, `RecentKept`, `EntriesBounded` |
| `LookupKeys` | 4 choices of species, 14 values around the limits, 2 cells, 2 steps, 2 IDs | 361,152 | `TypeOK`, `SameKeyClose`, `SameCoarseClose` |
| `LookupKeysStep` | the same | - | `CoarseSameStep` is **violated**, see section 6 |

*Why the bounds are enough.*

* `DHT`: two candidates per key are enough for every case of the probe loop
  (first, later, last, evicting); the three keys of `OneWindow` overlap in one
  and in both candidates, so chains cross, keys evict each other and a key can
  be pushed to its second candidate.  Two ranks are enough for every pair of
  conflicting calls.  `MaxCalls` bounds the calls of a rank in one iteration and
  `MaxWrites` those between two resets of its counters; the table keeps its
  content from one iteration to the next, so the series of calls that shape it
  is longer than `MaxCalls`, and flushed and unflushed iterations alternate.
  The theorems of section 5 have none of these bounds.  A file of three entries
  makes one of two ranks read two, and three keys do not fit into their window.
* `Coupling`: grids of up to nine cells (`MaxCells`) include squares, both
  kinds of rectangles, single columns and, refused, single rows; package sizes
  (`MaxSize`) below, at and above the number of cells, with every remainder.
  Two iterations (`MaxIter`) show what one leaves for the next.  The scripts set
  conditions on first and last cells of the sides, twice and closed again, and
  inside the grid.
* `WorkLoop`: seven cells in packages of two give a last package that is smaller
  and more packages than workers; two iterations show what one leaves for the
  next.
* `Surrogates`: all keys compete for the same two buckets and both coarse keys
  for the same one, so entries that locations point to are overwritten between
  any two accesses; two inputs per key tell a hit from a computation.  One of
  the inputs is kept out of the table by the hook, one does not react, one pair
  is dropped before the interpolation.  Three iterations (`MaxIterations`) of a
  package each are needed to fill, to interpolate from the cache, and to do so
  after a flush.  The workers are interchangeable (`SYMMETRY`): no definition
  names one of them.
* `Commands`: two workers are the root of the reductions and one other; two
  events (`MaxEvents`) can fall in different iterations, workers or metrics; two
  time steps distinguish a count kept from one reset.
* `LocalCache`: a large result exceeds the budget when anything else is cached, small
  ones do not, so evictions come late and one at a time.
* `LookupKeys`: the values lie on both sides of every case of the rounding:
  zero, below and at the aqueous limit, next to a change of the last digit of
  the fine and of the coarse key, a power of ten, and more digits in front of
  the point than the key keeps.  The properties compare pairs of cells, so two
  cells are enough (`MaxCells`).

*Deadlock* is checked in every run but `Coupling` and `LookupKeys`, whose
loops end, and `Surrogates`, which ends with the last package.

## 4. Fairness

* `DHT`: steps inside a granted epoch and steps of the iteration's end are
  weakly fair: MPI completes one-sided accesses, and a collective completes once
  all ranks are in it.  `WinLock` is strongly fair: lock requests queue at the
  target and are not passed over for ever.  Calls are not fair: a worker
  need not touch the table.
* `WorkLoop`: the master and every worker run on.  The return of an `MPI_Send`
  (and of the `MPI_Wait` for an `MPI_Isend`) is only fair once the message has
  been received: MPI may but need not buffer it.  The probe of the master is
  fair as a whole: `MPI_Iprobe` may fail again and again, but not for ever
  while a message is there (MPI's progress rule), nor is it required to fail.
* `Commands`: the processes run on and a collective call returns once its
  condition is met.  The send of the sums is only fair once they have been
  received.  Counting is not fair.

The other modules have safety properties only.

## 5. Proofs

### 5.1 The distributed hash table

`DHT_proofs` proves, for every `CommSize`, `TableSize`, `IndexCount`, every
finite or infinite set of keys and data, every hash and every accumulate
callback (assumptions `SizeAssumption`, `HashAssumption`, `DataAssumption`,
`ModeAssumption` of module `DHT`, which TLC evaluates in every run):

| Theorem | Statement |
|---|---|
| `TypeCorrect` | `Spec => []TypeOK` |
| `FlushIsQuiet` | `Spec => []NoCallDuringFlush` |
| `Invariant` | `Spec => []IInv`, the inductive invariant |
| `ProbeChainCorrect` | `Spec => []ProbeChain` |
| `UniqueKeys` | `Spec => []NoDuplicateKey` |
| `Refinement` | `Spec => ImplementsCache` |
| `DumpCorrect` | `Spec => []DumpComplete` |

*The invariant.*  `ProbeChain` alone is not inductive: a `Put` happens after
the search that justified it.  `IInv` adds

* `LockInv`: ranks inside epochs on one window are readers, or there is one
  writer; so what a writer has seen is still true when it puts;
* `CallInv`: what the locals mean at each stage of a call;
* `SearchInv`: the candidates a call has passed hold other keys;
* `StopInv`: where a write stopped, and why, and with which data;
* `PhaseInv`: how far apart the ranks can be in an iteration; so dump and wipe
  meet no call, although they take no lock;
* `EmptyInv`: a clear flag comes with zeroed data, which is why an accumulating
  write into an empty bucket starts from an empty list.

The control part (`ControlInv`) is proved first, since it does not depend on the
content of the table; the table part (`TableInv`) assumes it.  A bucket that is
overwritten stays non-empty and gets a key whose own chain leads to it, and no
chain of another key loses an occupied candidate before it: this is the step
from `Put` to `ProbeChain'`.  `Wipe` empties whole windows and a chain lies
within one window.

*Uniqueness* follows from `ProbeChain`: of two buckets with the same key the
later one in the key's probe order would have the earlier one before it.

*Refinement.*  `store[k]` is the data of the bucket that holds `k` (`Stored`),
`request` is `req`, and `reply` becomes visible with the entry (`Answered`: a
write has its result variable before its put).  A read linearises at its final
get, a write at its put; a rejected accumulate at its callback; all other
steps stutter, but entering, returning, and `Wipe`, which is `Forget`.

*Dump.*  `RowsInv` says that the file holds the windows of the ranks that have
written theirs; it is inductive together with `IInv`, because no rank is in a
call between the two barriers.

*Across restarts.*  The second half of `DHT_proofs` adds the restart and
`DHT_from_file`; its only further assumption is that a file holds finitely many entries
(`GivenAssumption`).

| Theorem | Statement |
|---|---|
| `FileInvariant` | `FileSpec => []FileInv`, the inductive invariant |
| `RestoredFromFile` | `FileSpec => []Restored` |
| `SafeAcrossRestarts` | `FileSpec => [](TypeOK /\ ProbeChain /\ NoDuplicateKey /\ DumpComplete)` |
| `RefinementAcrossRestarts` | `FileSpec => ImplementsCache` |

`Restored` speaks of the moment at which all ranks are behind their last entry.
`FileInv` follows every entry of the file until then: it is ahead of the
position of some rank, a whole number of rounds away (`Pending`: since `First`
is the rank plus one and the step is the number of ranks, all positions are
dealt out), or in the call that writes it (`InWrite`), or it is `Done`, its key
in the table or evicted.  What had to be found is that the last case is stable
(`PutKeeps`): an entry is overwritten only at the *last* candidate of the key
that takes its place, its own earlier candidates are taken by others (its probe
chain), and all of these buckets stay taken.  This holds whatever order the
writes come in, for any number of entries, also of one key, and for tables that
are too small for them.  A restart finds no rank in a call, because `RowsQuiet`
says that there are entries in a dump only while nobody is in the work loop; so
it is a `Forget` of all keys for the cache, and a restored entry an ordinary
`Call`.

### 5.2 The work loop

`WorkLoop_proofs` and `Counting_proofs` prove, for every
`NCells`, `WPSize`, `NWorkers` and `MaxIter` (`SizeAssumption`,
`ModeAssumption` of module `WorkLoop`):

| Theorem | Statement |
|---|---|
| `Invariant` | `Spec => []IInv`, where the packages are |
| `WorkerListTrue` | `Spec => []WorkerListExact` |
| `NoMessageOutlives` | `Spec => []NothingLeftOver` |
| `ShuffleIsPermutation` | `Position` is a bijection of the cells |
| `ContentRight` | without predictions, `Spec => []DataInv`, what is in the packages |
| `CellsAdvanced` | without predictions, `Spec => []FieldAdvanced` |
| `Refinement` | without predictions, `Spec => ImplementsSerial` |
| `TypesKept` | `Spec => []TypeOK` |

*Where the packages are.*  `WorkerListExact` speaks of the moments at which the
master consults its list.  `IInv` follows each package in between: a worker that
was given one (`Given`: marked, or about to be once the `MPI_Send` returns) has
it in a message to it, in its hands or in a message from it, and in one of them
only (`HasPackage`); another one has nothing (`HasNone`).  Once all results are
in, nobody is marked, so nobody has anything; `LOOP_END` then takes the place of
the packages (`HasEnded`).  The counters are the cardinalities of the marked and
unmarked workers.  This part holds with predictions too.

*What is in them.*  `send_addr` is where a result is put back, so what counts is
that the segments of the packages under way do not overlap (`DisjointInv`), that
they lie before `work_pointer`, which is the sum of the sizes sent so far
(`PointerInv`), and that a package holds the content of its segment, advanced or
not (`LoadsInv`).  The buffer then holds results where a package has returned and
the old content elsewhere (`BufferInv`).  After the last result `work_pointer`
has reached `NCells` and nothing is under way: all places hold results, and as
`Position` is a bijection (of two cells the later one has all the cells before
the earlier one before it, and that one too) `unshuffleField` finds the result
of each cell.  With predictions the statement is false, see the finding of run
`WorkLoopAI`: hence the assumption `AISurrogate = FALSE`.

*Types.*  `TypesKept` holds with predictions too, so it cannot rest on
`DataInv`.  `TypeInv` bounds the steps of a cell by the phase of the iteration:
the field has taken one when it is shuffled, a package that comes back two, and
the part of the buffer behind `work_pointer` still one, which is why the next
package stays below the bound.  A place in the buffer is written by the package
that was cut out of it, so its two steps are the last of the iteration.  The
worker's own count is ahead of the master's only between its `PostIter` and the
master's `Return` (`IterType`), and the size of a package is at most what was
asked for because the packages are balanced (`PackageSizeBounds`).

### 5.3 The surrogates

`Surrogates_proofs` proves all invariants of run `SurrogatesMain` for every
chemistry `Pqc`, every rounding, every probing, size of tables and buckets,
every choice of hooks, packages and number of workers (`TableAssumption`,
`ModeAssumption`):

| Theorem | Statement |
|---|---|
| `Invariant` | `Spec => []IInv` |
| `TypeCorrect` | `Spec => []TypeOK` |
| `OnlyComputedStored` | `Spec => []TableTrue` |
| `LocationsOccupied` | `Spec => []LocationsLive` |
| `PairsComputed` | `Spec => []PairsTrue` |
| `AllComputed` | `Spec => []ComputedExact` |
| `PlainHits` | `Spec => []PlainHitsComputed` |

*The invariant.*  The properties need each other: pairs are computed ones
because the locations they are read from are occupied and what is there was
computed; locations are occupied because those in `filled` are until
`writePairs` has put them into the proximity table, which none of the
properties says (`WorkerLive`).  What is stored was computed, because a cell
that was interpolated or hit is not marked "PQC" any more (`WorkerResults`); an
interpolation has enough pairs because those it has gathered and those it has
still to read are enough (`WorkerPairs`).  `WorkerInv` gathers what is said of
one worker.  A step of another worker, or of the end of an iteration, preserves
it as long as no occupied bucket becomes empty (`Others`): evictions replace
entries, and the flush comes when no worker has a location in hand.  A search
ends at a bucket of the table because the set of candidates it may end at has a
least element (`LeastNat`, `SearchEnds`).

### 5.4 Partition and coupling

`Coupling_proofs` proves, for every shape of the grid, package size, list of
columns (`CouplingAssumption`), set of transported species, number of time steps
and set of saved ones, and whatever the script says of boundaries and
coefficients:

| Theorem | Statement |
|---|---|
| `Invariant` | `Spec => []IInv` |
| `TypeCorrect` | `Spec => []TypeOK` |
| `Balanced` | `Spec => []PackagesBalanced` |
| `ComputesClosedForms` | `Spec => []ClosedForms` |
| `CutsFit` | `Spec => []CutsAtPackages` |
| `Refinement` | `Spec => ImplementsSplitting` |
| `BoundariesKept` | `Spec => []BoundariesInPlace` |
| `TransportKept` | matrices for square grids only: `Spec => []TransportInPlace` |

`BoundariesKept` and `TransportKept` rest on `SideAssumption` (section 2.7).

*The loops* (`LoopsInv`).  While the sizes are counted, `sizes[p]` is the number
of cells below `i` with remainder `p` and at the same time the quotient
`(i + n - 1 - p) \div n` (`CountedTo`): the first is the closed form of
`Packages`, the second gives the balance without any counting of sets.  In the
copying loops `row` is the number of cells copied (`CursorInv`), and at cell `j`
those are the cells before `j` in the shuffled order (`CopiedBefore`), so that
the row is `Position` of `j`.  As `Position` is injective, no copy overwrites an
earlier one (`BuffersInv`); as it is onto, no row is left out.

*The cuts.*  A cell stands between the beginning of its package and that of the
next (`PositionInPackage`), so the rows of a package are its cells (`PackageAt`).

*The data* (`DataInv`).  Each stage has one form for each field: columns in the
order of the solver (`Column`), reacted (`AfterChemistry`) or one transport
ahead (`AfterTransport`); the shuffled buffer is such a field with its indices
changed (`Buffer`).  The copies are lemmas about quotients and remainders:
`GridMap` (transposing and flattening the matrix of IDs gives the solver's
order, also when the grid is not square), `VectorRoundTrip`, `BufferFilled`,
`BufferReacted`, `BufferTaken`.

*Refinement.*  `MappedStage` says what the mapping gives at each stage.  Diffusion
is `Transport`, taking the results is `React`, saving is `EndIteration`; all
other steps stutter.

*Boundaries and coefficients.*  `ScriptInv` says that setup and solver have what
the conversions make of the script, whose entries are within the grid
(`ScriptsAssumption`).  The conversions are folds over the entries, so what they
compute is shown by induction along the sequence: `FoldExists` gives the function
the fold is defined by, `SideFold` and `InnerFold` its values on the first `m`
entries, and `Told` and `InnerTold` say that for each element the last entry
among those counts (a closed entry leaves the value of an earlier constant one,
which the type hides).
`TransportKept` needs its assumption: for a matrix and a grid that is not square
the statement is false (finding `CouplingAlpha`).

### 5.5 Commands

`Commands_proofs` proves, for every number of workers, species and time steps and every set of options
(`CommandsAssumption`):

| Theorem | Statement |
|---|---|
| `PlacesInvariant` | `Spec => [](Types /\ Places)`, where the workers are |
| `CallsMatch` | `Spec => []CollectivesMatch` |
| `ValidityFresh` | `Spec => []FreshValidity` |
| `OnlyAskedExists` | `Spec => []AskedExists` |
| `Invariant` | `Spec => []IInv`, workers, master and counts |
| `MetricsAreExact` | `Spec => []MetricsExact` |
| `TypesKept` | `Spec => []TypeOK` |

*The program* is a concatenation of parts of which some are repeated and some
depend on options.  `SpeciesNamesAt`, `StartUpAt`, `IterationsAt`,
`ProfilingAt` and `ProgramAt` say which call stands at which place: `Off` calls
up to the first step, as many for each step, then three for each timing or
metric asked for.

*Where a worker is* (`Places`).  For each `wpc` there is the set of places in
the program `at` can have there, with the number of names still to come, the
step, and the timing or metric asked for.  `CollectivesMatch` alone is not
inductive: that the next broadcast is a command, and not the rest of one, is only
known from the place.  A worker moves by itself, so this part says nothing of
the master and no step of another worker disturbs it.

*Master and workers* (`Synchronous`).  A worker is at most one call ahead of the
master, and only in a call for which the master waits: a gather, a loop, a
metric.  Hence there is one reduction under way at most (`Reductions`): those
that have contributed, the root's result, and the message to the master, all
for the metric that the master waits for, and its series do not change while it
does.

*Counting* (`Counts`).  What happened in a step is the sum over the workers of
what each has counted in it (`Share`): an entry of its series once it has been
stored, its counter while the step lasts, and nothing before.  Storing and
resetting in one step of the worker leaves its share as it is, an event adds one
to the share and to what happened.  After the last step the shares are the
entries of the series, and their sum over the workers is what the master gets
(`SumsAreEvents`, `Results`).  The sums are folds of the community modules, of
which the prover knows only the definition; that a sum exists, and what one
summand more adds, is shown by the smallest set for which it would be wrong
(`LeastSet`, `SumExists`, `SumOfOneMore`, in `Counting_proofs`).

### 5.6 The local cache

`LocalCache_proofs` proves all properties of run `LocalCache`, for every finite
set of keys, every finite set of positive sizes and every budget
(`CacheAssumption`):

| Theorem | Statement |
|---|---|
| `Invariant` | `Spec => []IInv` |
| `AlwaysConsistent` | `Spec => []Consistent` |
| `LastUsedKept` | `Spec => []RecentKept` |
| `BoundedEntries` | `Spec => []EntriesBounded` |
| `TypesKept` | `Spec => []TypeOK` |

*The invariant.*  `Consistent` is not inductive: it does not say that two entries
have different nodes, without which `keyfinder` could lead a lookup to the entry
of another key.  `Good` adds that; it is stated of a cache as a value, so that
evicting (`EvictGood`) and inserting (`InsertGood`), which one call of the
operator may do one after the other, each have a lemma.  A new entry finds a node
that is free, because there is one more than keys (`FreeNode`).  `Remembered` adds
to `RecentKept` that no key is in the history twice; then the entry that a
lookup moves to the front and the key that the history moves there stand at the
same place, and moving an element is a permutation (`FromIsPermutation`,
`ToFrontIs`) that leaves alone what is behind it.

*The bound* is inductive by itself, together with the exact budget: while the
budget is not exceeded the sizes sum up to no more than it (`SumBounds`), so one
more entry is within the bound; when it is exceeded an entry goes for the one
that comes.

### 5.7 Lookup keys

`LookupKeys_proofs` proves all properties of run `LookupKeys`, for every choice
of key species, digits, base totals, values, time steps, IDs and number of cells
(`KeysAssumption`, `ValuesAssumption`, see section 2.6):

| Theorem | Statement |
|---|---|
| `Invariant` | `Spec => []IInv` |
| `TypesKept` | `Spec => []TypeOK` |
| `SameKeyIsClose` | `Spec => []SameKeyClose` |
| `SameCoarseIsClose` | `Spec => []SameCoarseClose` |

*Numbers.*  The provers know no powers but of numerals, so there is a table of
the ten that occur (`Powers`); from it follow what a product of two is
(`PowerSum`) and that an integer has one number of digits (`DigitsOnly`).
`Truncate` takes a number to its digits before a place: `DigitsLeft` says how
many, and `CutDigits` that the result has just those.  Two numbers of one order
of magnitude whose cuts are the same differ by less than a unit of the last
digit kept (`CutSame`, `CutNear`).  A coarse key cuts what the fine key has
cut already, and that is one cut at the nearer place (`CutTwice`): with
rounding to the nearest digit instead it would not be.

*The two roundings.*  `RoundIs` has the cases of `DHT_Rounder::round`, and
`CoarsenIs` those of `PHT_Rounder::round` on an element of a key: nothing is left,
or the number cut to as many digits as asked for (`CutOf`).  A power of ten, whose
logarithm is not rounded up, keeps one more (`CeilLog10Is`); that is why `TypeOK`
allows a coarse element the bound itself.

*The loop.*  `SameKeyClose` speaks of finished keys; the invariant says what an
unfinished one holds: the elements before `i` are those of their species
(`ElementOf`), and `totals_i` counts the totals among them.  So the base total in
turn is the one of the species at hand (`TotalsStep`), which is what needs water
in every cell.  A species that does not appear in the key because it is
negligible gives the same element as one that is rounded to nothing
(`ElementIs`), so equal keys are equal in each species.

### 5.8 Only model-checked

The liveness properties (`CallsReturn` and `IterationEnds` of `DHT`, `SimulationEnds` of `WorkLoop`,
`ProgramEnds` of `Commands`) are out of the prover's reach.  The expected
violations of section 6 are counterexamples and need no proof.  All invariants and the
refinements of the passing runs are proved.

## 6. Findings

Shown by a run:

* **Start index of a package** (`WorkLoopAI`).  `MasterSendPkgs` increments
  `count_pkgs` before it sums the first `count_pkgs` sizes, so the header
  carries the *end* of the package although the comment says "start location".
  Only the AI surrogate reads it: a worker looks up the validity of the next
  package's cells, computes accepted predictions a second time and leaves cells
  without one unadvanced; for the last package it reads behind the vector.
  With the sum over the packages before, the property holds.
* **A hit with interpolation on** (`SurrogatesHit`).  A bucket then holds the
  key elements of the stored input, followed by the changes.
  `inputAndRatesToOutput` (`DHT_Wrapper.cpp:203`) adds the stored *input*
  to the value of the cell where it means the stored change.  Without
  interpolation hits are right (`PlainHitsComputed`).
* **Coarse key without time step** (`LookupKeysStep`).  `roundKey` appends the
  last element of the fine key under the comment "timestep"
  (`Interpolation.hpp:257`); with several IDs in the grid that element is the ID.
  Results of time steps of different lengths then share a bucket of the PHT.
  In the fine key it is the other way round: the ID is appended behind what the
  table compares and has no effect.

* **Coefficients of grids that are not square** (`CouplingAlpha`).
  `colMajToRowMaj` computes `alpha[i * n_rows + j] = vec[j * n_cols + i]`
  (`DiffusionInit.cpp:48`), with `i` below `n_cols` and `j` below `n_rows`.  R's
  vector has row `r`, column `c` at `c * n_rows + r` and the solver wants it at
  `r * n_cols + c`; the loop does that with rows and columns exchanged, which is
  right only for square grids and uniform coefficients.  The benchmark
  `bench/barite/barite_het.R:21-24` passes such a matrix for a grid of 2 by 5.

Seen while reading, without a run:

* `--dht-snaps=1`: the README (`README.md:219-220`) promises a snapshot at the end of
  the simulation; `WorkerPostSim` (WF:266) compares with
  `>= DHT_SNAPS_ITEREND` and writes none.  Dumps are named `iter_<n>.dht`.
* An empty list of key species makes `initializeDHT` (CM:152-159) use all species,
  but takes the digits from the empty list of indices; the key is then the time
  step only, and the constructor of the wrapper writes behind
  `dht_prop_type_vector`.
* Interpolation between results that all have the input of the cell yields NaN
  (CM:98).
* With the AI surrogate and a table in use together, a cell whose prediction was
  accepted and that is in the table gets the output of the table copied over the
  prediction (`WorkerFunctions.cpp:170-200`): the look-up fills the output before
  the mapping is set to `CHEM_AISURR`.  The cell is then advanced twice.
* The budget of the local cache does not bound its memory (section 2.5).
* `DHT_to_file` opens with `MPI_MODE_CREATE` and does not truncate
  (`DHT.c:407-409`): in an output directory that is used again the end of a
  longer old dump stays behind the new one.  A rank whose write fails returns
  before the barrier in which the others wait (`DHT.c:436-442`).
* `DHT_from_file` returns on a read error with what it has written so far in the
  table (`DHT.c:507-509`), although WF:300 announces an empty one; `cur_pos` is an
  `int` against an `MPI_Offset`, so files of 2 GiB and more are not read to
  their end.
* `prepareGrid` reads `grid_size[1]` (`GridInit.cpp:112`) also for grids of one
  column, where `grid_size` has one entry.  For a single cell `pqc_to_grid`
  (`init_r_lib.R:58`) gets a vector where it expects a matrix.
* The simulation time that `master_iteration_end` saves
  (`kin_r_library.R:87, 95`) is that of the start of the iteration.

## 7. Not modelled, and plan

Not modelled for good: the printing of statistics (`DHT_print_statistics`, the
read counter of the PHT), the parsing of options, the R side but for what
section 2.7 names, Phreeqc and the transport solver, whose sources are
submodules; failing MPI calls, whose outcome MPI leaves open; the options of the
chemistry in `ChemistryInit.cpp`, which are passed on unchanged.

Every invariant of the passing runs has a theorem.  What a next step could add
are sharper statements: that a table in which no key meets a full probe chain
forgets nothing, and that two keys of one cell, fine and coarse, lead to results
of the same inputs.
