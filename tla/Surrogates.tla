----------------------------- MODULE Surrogates -----------------------------
(***************************************************************************)
(* The way of a work package through the surrogates of a worker            *)
(* (WorkerDoWork): each cell is looked up in the main table (checkDHT), or *)
(* interpolated from entries that the proximity table points to            *)
(* (tryInterpolation), or computed by Phreeqc; computed cells are stored   *)
(* in the main table (fillDHT) and their locations in the proximity table  *)
(* (writePairs).  The workers share both tables; every call on a table is  *)
(* one atomic step here, which is what module DHT shows of it.             *)
(*                                                                         *)
(* A cell is its input, an integer; Pqc is the result of the chemistry.    *)
(* Keys are the rounded inputs, coarse keys the keys rounded further.  The *)
(* hooks of the input script are constants.  The local cache of query      *)
(* results is unlimited here, module LocalCache has its budget.            *)
(***************************************************************************)
EXTENDS Integers, Sequences, FiniteSets

CONSTANTS Worker, Input,
          Key, CoarseKey, NoKey,
          KeyOf,             \* fuzzForDHT: Input -> Key
          Coarse,            \* roundKey: Key -> CoarseKey
          Loc, Probe,        \* buckets of the main table, candidates of a key
          PHTLoc, PHTProbe,  \* the same for the proximity table
          Pqc,               \* Input -> Int
          Reacting,          \* inputs whose ID is 2
          FillSkips,         \* inputs for which the hook dht_fill says no
          PreDrops,          \* pairs of inputs: interp_pre drops the second
          PostRejects,       \* the hook interp_post may reject a result
          UseDHT,            \* --dht
          Modes,             \* the settings of --interp to consider
          MinEntries,        \* --interp-min
          BucketEntries,     \* --interp-bucket-entries
          NoLoc, NoOutput, NaN, NotCached,
          Packages,          \* the packages a worker may receive
          MaxPackages,       \* bound: packages of a worker per iteration
          MaxIterations      \* bound: iterations of the simulation

ASSUME TableAssumption ==
  /\ NoKey \notin Key \cup CoarseKey
  /\ NoLoc \notin Loc
  /\ KeyOf \in [Input -> Key]
  /\ Coarse \in [Key -> CoarseKey]
  /\ \A k \in Key : Probe[k] \in Seq(Loc) /\ Probe[k] # <<>>
  /\ \A c \in CoarseKey : PHTProbe[c] \in Seq(PHTLoc) /\ PHTProbe[c] # <<>>

ASSUME ModeAssumption ==
  /\ Input \subseteq Int
  /\ Pqc \in [Input -> Int]
  /\ UseDHT \in BOOLEAN /\ PostRejects \in BOOLEAN
  /\ Modes \subseteq BOOLEAN
  /\ UseDHT \/ Modes = {TRUE}
  /\ MinEntries \in Nat \ {0}
  /\ BucketEntries \in Nat \ {0}
  /\ MaxPackages \in Nat
  /\ NoOutput \notin Int /\ NoOutput # NaN
  /\ \A pkg \in Packages : pkg \in Seq(Input) /\ pkg # <<>>

VARIABLES with_interp,  \* --interp
          main,      \* the main table: a key, an input and data per bucket
          pht,       \* the proximity table: a coarse key and locations
          pc,        \* where each worker is in WorkerDoWork
          package,   \* its work package: the inputs
          i,         \* the cell its loop is at
          mapping,   \* where the result of each cell is from
          output,    \* the results
          filled,    \* where fillDHT stored each cell, or NoLoc
          todo,      \* the locations query has still to read
          lookup,    \* lookup_results: pairs of input and rates
          cache,     \* localCache
          left,      \* packages left to it in this iteration
          iteration

vars == <<with_interp, main, pht, pc, package, i, mapping, output, filled,
          todo, lookup, cache, left, iteration>>

Empty    == [key |-> NoKey, input |-> 0, data |-> 0]
EmptyPHT == [key |-> NoKey, locations |-> <<>>]

Cell(w) == package[w][i[w]]

\* The bucket in which a search for key k ends: the first of its candidates
\* that is empty or holds it, or the last one.
StopAt(table, candidates, k) ==
  LET ends(p) == table[candidates[p]].key \in {NoKey, k} \/ p = Len(candidates)
  IN  candidates[CHOOSE p \in DOMAIN candidates :
                   ends(p) /\ \A q \in 1 .. p - 1 : ~ends(q)]

\* Mutant: rates are stored although the reader expects the result.
RatesOnly(x, result) == [input |-> 0, data |-> result - x]

\* What is stored for a cell: its input and rates (outputToInputAndRates) when
\* interpolation is on, else the plain result.
DataOf(x, result) ==
  IF with_interp THEN [input |-> x, data |-> result - x]
               ELSE [input |-> 0, data |-> result]

\* inputAndRatesToOutput adds what it finds first in the bucket, the input of
\* the stored cell.
HitOutput(x, bucket) == IF with_interp THEN x + bucket.input ELSE bucket.data
----------------------------------------------------------------------------
Init ==
  /\ with_interp \in Modes
  /\ main = [l \in Loc |-> Empty]
  /\ pht = [l \in PHTLoc |-> EmptyPHT]
  /\ pc = [w \in Worker |-> "idle"]
  /\ package = [w \in Worker |-> <<>>]
  /\ i = [w \in Worker |-> 1]
  /\ mapping = [w \in Worker |-> <<>>]
  /\ output = [w \in Worker |-> <<>>]
  /\ filled = [w \in Worker |-> <<>>]
  /\ todo = [w \in Worker |-> <<>>]
  /\ lookup = [w \in Worker |-> <<>>]
  /\ cache = [w \in Worker |-> [c \in CoarseKey |-> NotCached]]
  /\ left = [w \in Worker |-> MaxPackages]
  /\ iteration = 1

\* A package arrives: every cell is to be computed.
Receive(w, pkg) ==
  /\ pc[w] = "idle"
  /\ left[w] > 0
  /\ left' = [left EXCEPT ![w] = @ - 1]
  /\ package' = [package EXCEPT ![w] = pkg]
  /\ mapping' = [mapping EXCEPT ![w] = [n \in DOMAIN pkg |-> "PQC"]]
  /\ output' = [output EXCEPT ![w] = [n \in DOMAIN pkg |-> NoOutput]]
  /\ pc' = [pc EXCEPT ![w] = IF UseDHT THEN "check" ELSE "query"]
  /\ UNCHANGED <<with_interp, iteration, main, pht, i, filled, todo, lookup,
                 cache>>

\* Mutant: the loop takes one cell too many.
NextCellPastEnd(w, stage, next) ==
  IF i[w] <= Len(package[w])
  THEN /\ i' = [i EXCEPT ![w] = @ + 1]
       /\ pc' = [pc EXCEPT ![w] = stage]
  ELSE /\ i' = [i EXCEPT ![w] = 1]
       /\ pc' = [pc EXCEPT ![w] = next]

\* The loop over the cells goes on, or ends and the next stage begins.
NextCell(w, stage, next) ==
  IF i[w] < Len(package[w])
  THEN /\ i' = [i EXCEPT ![w] = @ + 1]
       /\ pc' = [pc EXCEPT ![w] = stage]
  ELSE /\ i' = [i EXCEPT ![w] = 1]
       /\ pc' = [pc EXCEPT ![w] = next]

\* checkDHT: one DHT_read.
CheckCell(w) ==
  /\ pc[w] = "check"
  /\ LET k == KeyOf[Cell(w)]
         bucket == main[StopAt(main, Probe[k], k)]
     IN  IF bucket.key = k
         THEN /\ output' =
                   [output EXCEPT ![w][i[w]] = HitOutput(Cell(w), bucket)]
              /\ mapping' = [mapping EXCEPT ![w][i[w]] = "DHT"]
         ELSE UNCHANGED <<output, mapping>>
  /\ NextCell(w, "check", IF with_interp THEN "query" ELSE "run")
  /\ UNCHANGED <<with_interp, iteration, main, pht, package, filled, todo,
                 lookup, cache, left>>

Wanted(w) == Cell(w) \in Reacting /\ mapping[w][i[w]] = "PQC"

\* tryInterpolation passes over a cell that has a result or another ID.
SkipCell(w) ==
  /\ pc[w] = "query"
  /\ ~Wanted(w)
  /\ NextCell(w, "query", "run")
  /\ UNCHANGED <<with_interp, iteration, main, pht, package, mapping, output,
                 filled, todo, lookup, cache, left>>

\* query finds the coarse key in the local cache.
QueryCached(w) ==
  /\ pc[w] = "query"
  /\ Wanted(w)
  /\ LET c == Coarse[KeyOf[Cell(w)]]
     IN  /\ cache[w][c] # NotCached
         /\ lookup' = [lookup EXCEPT ![w] = cache[w][c]]
  /\ pc' = [pc EXCEPT ![w] = "interpolate"]
  /\ UNCHANGED <<with_interp, iteration, main, pht, package, i, mapping,
                 output, filled, todo, cache, left>>

\* query reads the proximity table: too few locations leave the cell to
\* Phreeqc.
QueryPHT(w) ==
  /\ pc[w] = "query"
  /\ Wanted(w)
  /\ LET c == Coarse[KeyOf[Cell(w)]]
         bucket == pht[StopAt(pht, PHTProbe[c], c)]
     IN  /\ cache[w][c] = NotCached
         /\ IF bucket.key = c /\ Len(bucket.locations) >= MinEntries
            THEN /\ todo' = [todo EXCEPT ![w] = bucket.locations]
                 /\ pc' = [pc EXCEPT ![w] = "gather"]
                 /\ UNCHANGED i
            ELSE /\ NextCell(w, "query", "run")
                 /\ UNCHANGED todo
  /\ lookup' = [lookup EXCEPT ![w] = <<>>]
  /\ UNCHANGED <<with_interp, iteration, main, pht, package, mapping, output,
                 filled, cache, left>>

\* One DHT_read_location: whatever is in the bucket now.  The last one
\* completes the result, which goes into the local cache.
Gather(w) ==
  /\ pc[w] = "gather"
  /\ LET bucket == main[Head(todo[w])]
         pair == [input |-> bucket.input, rates |-> bucket.data]
         results == Append(lookup[w], pair)
     IN  /\ lookup' = [lookup EXCEPT ![w] = results]
         /\ IF Len(todo[w]) = 1
            THEN /\ cache' =
                      [cache EXCEPT ![w][Coarse[KeyOf[Cell(w)]]] = results]
                 /\ pc' = [pc EXCEPT ![w] = "interpolate"]
            ELSE UNCHANGED <<cache, pc>>
  /\ todo' = [todo EXCEPT ![w] = Tail(@)]
  /\ UNCHANGED <<with_interp, iteration, main, pht, package, i, mapping,
                 output, filled, left>>

\* inverseDistanceWeighting adds a mean of the rates; entries at distance zero
\* have weight zero, and 0 / 0 is left if there are no others.  The mean is
\* represented by the rates it can come close to.
Interpolated(x, pairs, kept) ==
  LET others == {n \in kept : pairs[n].input # x}
  IN  IF others = {} THEN {NaN} ELSE {x + pairs[n].rates : n \in others}

\* The pairs that interp_pre leaves.  It names the others from the last to the
\* first, so that none moves before it is erased.
Kept(x, pairs) == {n \in DOMAIN pairs : <<x, pairs[n].input>> \notin PreDrops}

\* The rest of tryInterpolation for a cell.
Interpolate(w) ==
  /\ pc[w] = "interpolate"
  /\ LET kept == Kept(Cell(w), lookup[w])
     IN  IF Cardinality(kept) >= MinEntries
         THEN \E result \in Interpolated(Cell(w), lookup[w], kept),
                 accepted \in {TRUE, ~PostRejects} :
                /\ output' = [output EXCEPT ![w][i[w]] = result]
                /\ mapping' = IF accepted
                              THEN [mapping EXCEPT ![w][i[w]] = "INTERP"]
                              ELSE mapping
         ELSE UNCHANGED <<output, mapping>>
  /\ lookup' = [lookup EXCEPT ![w] = <<>>]
  /\ NextCell(w, "query", "run")
  /\ UNCHANGED <<with_interp, iteration, main, pht, package, filled, todo,
                 cache, left>>

\* Mutant: only cells without any output are computed.
RunEmpty(w) ==
  /\ pc[w] = "run"
  /\ output' = [output EXCEPT ![w] = [n \in DOMAIN package[w] |->
                  IF @[n] = NoOutput THEN Pqc[package[w][n]] ELSE @[n]]]
  /\ filled' = [filled EXCEPT ![w] = [n \in DOMAIN package[w] |-> NoLoc]]
  /\ pc' = [pc EXCEPT ![w] = "fill"]
  /\ UNCHANGED <<with_interp, iteration, main, pht, package, i, mapping, todo,
                 lookup, cache, left>>

\* Mutant: filledDHT is not cleared.
RunKeepsFilled(w) ==
  /\ pc[w] = "run"
  /\ output' = [output EXCEPT ![w] = [n \in DOMAIN package[w] |->
                  IF mapping[w][n] = "PQC" THEN Pqc[package[w][n]] ELSE @[n]]]
  /\ filled' = [filled EXCEPT ![w] = [n \in DOMAIN package[w] |->
                  IF n \in DOMAIN filled[w] THEN filled[w][n] ELSE NoLoc]]
  /\ pc' = [pc EXCEPT ![w] = "fill"]
  /\ UNCHANGED <<with_interp, iteration, main, pht, package, i, mapping, todo,
                 lookup, cache, left>>

\* WorkerRunWorkPackage computes the cells left; fillDHT clears filledDHT.
Run(w) ==
  /\ pc[w] = "run"
  /\ output' = [output EXCEPT ![w] = [n \in DOMAIN package[w] |->
                  IF mapping[w][n] = "PQC" THEN Pqc[package[w][n]] ELSE @[n]]]
  /\ filled' = [filled EXCEPT ![w] = [n \in DOMAIN package[w] |-> NoLoc]]
  /\ pc' = [pc EXCEPT ![w] = "fill"]
  /\ UNCHANGED <<with_interp, iteration, main, pht, package, i, mapping, todo,
                 lookup, cache, left>>

\* Mutant: interpolated cells are stored as well.
StoresAll(w) == mapping[w][i[w]] # "DHT" /\ Cell(w) \in Reacting \ FillSkips

Stores(w) == mapping[w][i[w]] = "PQC" /\ Cell(w) \in Reacting \ FillSkips

\* fillDHT: one DHT_write, of what was computed for the cell.
FillCell(w) ==
  /\ pc[w] = "fill"
  /\ IF Stores(w)
     THEN LET k == KeyOf[Cell(w)]
              l == StopAt(main, Probe[k], k)
              stored == DataOf(Cell(w), output[w][i[w]])
          IN  /\ main' = [main EXCEPT ![l] =
                    [key |-> k, input |-> stored.input, data |-> stored.data]]
              /\ filled' = [filled EXCEPT ![w][i[w]] = l]
     ELSE UNCHANGED <<main, filled>>
  /\ NextCell(w, "fill", IF with_interp THEN "pairs" ELSE "done")
  /\ UNCHANGED <<with_interp, iteration, pht, package, mapping, output, todo,
                 lookup, cache, left>>

\* PHT_callback_function: a bucket takes a location it has room for and does
\* not have.
Takes(locations, l) ==
  /\ Len(locations) # BucketEntries
  /\ \A n \in DOMAIN locations : locations[n] # l

\* writePairs: one DHT_write_accumulate for a cell that was stored.
PairCell(w) ==
  /\ pc[w] = "pairs"
  /\ IF filled[w][i[w]] # NoLoc
     THEN LET c == Coarse[KeyOf[Cell(w)]]
              p == StopAt(pht, PHTProbe[c], c)
              old == IF pht[p].key = c THEN pht[p].locations ELSE <<>>
          IN  pht' = IF Takes(old, filled[w][i[w]])
                     THEN [pht EXCEPT ![p] =
                             [key |-> c,
                              locations |-> Append(old, filled[w][i[w]])]]
                     ELSE pht
     ELSE UNCHANGED pht
  /\ NextCell(w, "pairs", "done")
  /\ UNCHANGED <<with_interp, iteration, main, package, mapping, output,
                 filled, todo, lookup, cache, left>>

\* The results have been sent and WorkerDoWork returns.
Done(w) ==
  /\ pc[w] = "done"
  /\ pc' = [pc EXCEPT ![w] = "idle"]
  /\ package' = [package EXCEPT ![w] = <<>>]
  /\ mapping' = [mapping EXCEPT ![w] = <<>>]
  /\ output' = [output EXCEPT ![w] = <<>>]
  /\ UNCHANGED <<with_interp, iteration, main, pht, i, filled, todo, lookup,
                 cache, left>>

\* Mutant: only the main table is emptied.
FlushMain ==
  /\ main' = [l \in Loc |-> Empty]
  /\ UNCHANGED pht

\* WorkerPostIter empties both tables, or none.
FlushBoth ==
  /\ main' = [l \in Loc |-> Empty]
  /\ pht' = [l \in PHTLoc |-> EmptyPHT]

\* The end of an iteration, with no package under way.
PostIter ==
  /\ \A w \in Worker : pc[w] = "idle"
  /\ \E w \in Worker : left[w] < MaxPackages
  /\ iteration < MaxIterations
  /\ iteration' = iteration + 1
  /\ left' = [w \in Worker |-> MaxPackages]
  /\ (with_interp /\ FlushBoth) \/ UNCHANGED <<main, pht>>
  /\ UNCHANGED <<with_interp, pc, package, i, mapping, output,
                 filled, todo, lookup, cache>>

Next ==
  \/ \E w \in Worker :
       \/ \E pkg \in Packages : Receive(w, pkg)
       \/ CheckCell(w) \/ SkipCell(w) \/ QueryCached(w) \/ QueryPHT(w)
       \/ Gather(w) \/ Interpolate(w) \/ Run(w) \/ FillCell(w) \/ PairCell(w)
       \/ Done(w)
  \/ PostIter

Spec == Init /\ [][Next]_vars
----------------------------------------------------------------------------
(* Properties                                                              *)

\* The values the variables can take.
TypeOK ==
  /\ with_interp \in Modes
  /\ \A l \in Loc : main[l].key \in Key \cup {NoKey}
  /\ \A p \in PHTLoc :
       /\ pht[p].key \in CoarseKey \cup {NoKey}
       /\ Len(pht[p].locations) <= BucketEntries
       /\ \A n \in DOMAIN pht[p].locations : pht[p].locations[n] \in Loc
  /\ \A w \in Worker :
       /\ pc[w] \in {"idle", "check", "query", "gather", "interpolate", "run",
                     "fill", "pairs", "done"}
       /\ package[w] \in Packages \cup {<<>>}
       /\ i[w] \in 1 .. Len(package[w]) \/ (i[w] = 1 /\ pc[w] = "idle")
       /\ DOMAIN mapping[w] = DOMAIN package[w]
       /\ DOMAIN output[w] = DOMAIN package[w]
       /\ \A n \in DOMAIN mapping[w] :
            mapping[w][n] \in {"PQC", "DHT", "INTERP"}
       /\ \A n \in DOMAIN filled[w] : filled[w][n] \in Loc \cup {NoLoc}
       /\ todo[w] # <<>> <=> pc[w] = "gather"
       /\ left[w] \in 0 .. MaxPackages

\* No approximation feeds back: whatever hits, interpolations, rejected
\* results and hooks the workers mix, an entry of the main table is what
\* Phreeqc computed for an input of its key.
TableTrue ==
  \A l \in Loc : main[l].key # NoKey =>
    \E x \in Reacting \ FillSkips :
      /\ KeyOf[x] = main[l].key
      /\ DataOf(x, Pqc[x]) = [input |-> main[l].input, data |-> main[l].data]

\* A location in the proximity table, or on its way from there, points to an
\* occupied bucket of the main table, across packages, evictions and the
\* flushes of both tables.  (Which key is there may have changed.)
LocationsLive ==
  /\ \A p \in PHTLoc : \A n \in DOMAIN pht[p].locations :
       main[pht[p].locations[n]].key # NoKey
  /\ \A w \in Worker : \A n \in DOMAIN todo[w] : main[todo[w][n]].key # NoKey

\* So interpolation only mixes pairs that Phreeqc computed, never the zeros of
\* an empty bucket, although locations are read one by one while other workers
\* write, and the local cache outlives the tables.
PairsTrue ==
  \A w \in Worker :
    LET True(pairs) == \A n \in DOMAIN pairs : \E x \in Reacting :
                         pairs[n] = [input |-> x, rates |-> Pqc[x] - x]
    IN  /\ True(lookup[w])
        /\ \A c \in CoarseKey : cache[w][c] # NotCached =>
             True(cache[w][c]) /\ Len(cache[w][c]) >= MinEntries

\* A cell left to Phreeqc gets its result, even if an interpolation had
\* written one that the hook rejected.
ComputedExact ==
  \A w \in Worker : pc[w] \in {"fill", "pairs", "done"} =>
    \A n \in DOMAIN package[w] :
      /\ output[w][n] # NoOutput
      /\ mapping[w][n] = "PQC" => output[w][n] = Pqc[package[w][n]]

\* A hit gives a cell what Phreeqc computed for a cell of the same key: its
\* result or, with interpolation on, its change.
HitsComputed ==
  \A w \in Worker : \A n \in DOMAIN package[w] : mapping[w][n] = "DHT" =>
    \E x \in Reacting :
      /\ KeyOf[x] = KeyOf[package[w][n]]
      /\ output[w][n] = IF with_interp THEN package[w][n] + (Pqc[x] - x)
                                       ELSE Pqc[x]

\* The same for a run without interpolation, whichever worker stored the entry
\* and whatever entries its bucket has held.
PlainHitsComputed == ~with_interp => HitsComputed
=============================================================================
