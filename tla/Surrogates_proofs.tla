------------------------- MODULE Surrogates_proofs -------------------------
(***************************************************************************)
(* Theorems about module Surrogates, for every chemistry, rounding, table  *)
(* size, hook and number of workers: the tables hold nothing but what      *)
(* Phreeqc computed, a location leads to an occupied bucket, interpolation *)
(* mixes computed pairs only, and every cell gets its result.              *)
(***************************************************************************)
EXTENDS Surrogates, Counting_proofs, SequenceTheorems

Stages == {"idle", "check", "query", "gather", "interpolate", "run", "fill",
           "pairs", "done"}

\* The stages of a worker that interpolates.
Interpolating == {"query", "gather", "interpolate", "pairs"}

\* The stages in which filled says where the cells of the package are.
Filling == {"fill", "pairs"}

Bucket    == [key : Key \cup {NoKey}, input : Int, data : Int]
PHTBucket == [key : CoarseKey \cup {NoKey}, locations : Seq(Loc)]
Pair      == [input : Int, rates : Int]
Result    == Int \cup {NaN, NoOutput}

TableType ==
  /\ with_interp \in Modes
  /\ main \in [Loc -> Bucket]
  /\ pht \in [PHTLoc -> PHTBucket]
  /\ \A p \in PHTLoc : Len(pht[p].locations) <= BucketEntries

\* The variables of the workers are functions on them.
Shape ==
  /\ pc = [w \in Worker |-> pc[w]]
  /\ package = [w \in Worker |-> package[w]]
  /\ i = [w \in Worker |-> i[w]]
  /\ mapping = [w \in Worker |-> mapping[w]]
  /\ output = [w \in Worker |-> output[w]]
  /\ filled = [w \in Worker |-> filled[w]]
  /\ todo = [w \in Worker |-> todo[w]]
  /\ lookup = [w \in Worker |-> lookup[w]]
  /\ cache = [w \in Worker |-> cache[w]]
  /\ left = [w \in Worker |-> left[w]]

\* The values of a worker's variables, stage by stage.
WorkerType(w) ==
  /\ pc[w] \in Stages
  /\ IF pc[w] = "idle" THEN package[w] = <<>> ELSE package[w] \in Packages
  /\ IF pc[w] \in {"idle", "run", "done"}
     THEN i[w] = 1 ELSE i[w] \in 1 .. Len(package[w])
  /\ mapping[w] \in [DOMAIN package[w] -> {"PQC", "DHT", "INTERP"}]
  /\ output[w] \in [DOMAIN package[w] -> Result]
  /\ \A n \in DOMAIN filled[w] : filled[w][n] \in Loc \cup {NoLoc}
  /\ pc[w] \in Filling => filled[w] \in [DOMAIN package[w] -> Loc \cup {NoLoc}]
  /\ todo[w] \in Seq(Loc)
  /\ todo[w] # <<>> <=> pc[w] = "gather"
  /\ lookup[w] \in Seq(Pair)
  /\ cache[w] \in [CoarseKey -> Seq(Pair) \cup {NotCached}]
  /\ left[w] \in 0 .. MaxPackages

\* A pair that Phreeqc computed.
Computed(pair) == \E x \in Reacting : pair = [input |-> x, rates |-> Pqc[x] - x]

\* Interpolation is on where a worker interpolates, it has or will have enough
\* pairs, and all pairs it has or keeps were computed.
WorkerPairs(w) ==
  /\ pc[w] \in Interpolating => with_interp
  /\ pc[w] = "gather" => Len(lookup[w]) + Len(todo[w]) >= MinEntries
  /\ \A n \in DOMAIN lookup[w] : Computed(lookup[w][n])
  /\ pc[w] = "interpolate" => Len(lookup[w]) >= MinEntries
  /\ \A c \in CoarseKey : cache[w][c] # NotCached =>
       /\ \A n \in DOMAIN cache[w][c] : Computed(cache[w][c][n])
       /\ Len(cache[w][c]) >= MinEntries

\* What a worker has for the cells of its package.
WorkerResults(w) ==
  /\ \A n \in DOMAIN package[w] :
       /\ mapping[w][n] # "PQC" => output[w][n] # NoOutput
       /\ ~with_interp /\ mapping[w][n] = "DHT" =>
            \E x \in Reacting :
              KeyOf[x] = KeyOf[package[w][n]] /\ output[w][n] = Pqc[x]
  /\ pc[w] \in {"fill", "pairs", "done"} =>
       \A n \in DOMAIN package[w] :
         mapping[w][n] = "PQC" => output[w][n] = Pqc[package[w][n]]

\* The locations a worker has in hand, from the proximity table or for it,
\* lead to occupied buckets.
WorkerLive(w) ==
  /\ \A n \in DOMAIN todo[w] : main[todo[w][n]].key # NoKey
  /\ pc[w] \in Filling =>
       \A n \in DOMAIN filled[w] :
         filled[w][n] # NoLoc => main[filled[w][n]].key # NoKey

TableLive ==
  \A p \in PHTLoc : \A n \in DOMAIN pht[p].locations :
    main[pht[p].locations[n]].key # NoKey

WorkerInv(w) ==
  WorkerType(w) /\ WorkerPairs(w) /\ WorkerResults(w) /\ WorkerLive(w)

\* The inductive invariant.  The properties of the runs are not inductive on
\* their own: that a location from filled is occupied until writePairs puts it
\* into the proximity table is said by none of them.
IInv ==
  /\ TableType /\ TableTrue /\ TableLive
  /\ Shape
  /\ \A w \in Worker : WorkerInv(w)

\* A step leaves the variables of worker w alone.
SameWorker(w) ==
  /\ pc'[w] = pc[w] /\ package'[w] = package[w] /\ i'[w] = i[w]
  /\ mapping'[w] = mapping[w] /\ output'[w] = output[w]
  /\ filled'[w] = filled[w] /\ todo'[w] = todo[w] /\ lookup'[w] = lookup[w]
  /\ cache'[w] = cache[w] /\ left'[w] = left[w]

\* No occupied bucket of the main table becomes empty.
StaysOccupied == \A l \in Loc : main[l].key # NoKey => main'[l].key # NoKey
----------------------------------------------------------------------------
(* Searching a bucket                                                      *)

\* A search ends at one of the candidates: at the last one, or at one that is
\* empty or holds the key.
LEMMA SearchEnds ==
  ASSUME NEW table, NEW candidates, NEW L,
         candidates \in Seq(L), candidates # <<>>, NEW k
  PROVE  StopAt(table, candidates, k) \in L
<1>. DEFINE ends(p) == table[candidates[p]].key \in {NoKey, k} \/ p = Len(candidates)
            T == {p \in DOMAIN candidates : ends(p)}
<1>1. DOMAIN candidates = 1 .. Len(candidates) /\ Len(candidates) \in Nat \ {0}
  OBVIOUS
<1>2. T \in SUBSET Nat /\ Len(candidates) \in T
  BY <1>1
<1>. HIDE DEF ends
<1>3. PICK p \in T : \A q \in T : p <= q
  BY <1>2, LeastNat
<1>4. \A q \in 1 .. p - 1 : ~ends(q)
  BY <1>1, <1>3
<1>5. \E q \in DOMAIN candidates : ends(q) /\ \A r \in 1 .. q - 1 : ~ends(r)
  BY <1>3, <1>4
<1>6. StopAt(table, candidates, k)
        = candidates[CHOOSE q \in DOMAIN candidates :
                       ends(q) /\ \A r \in 1 .. q - 1 : ~ends(r)]
  BY DEF StopAt, ends
<1>7. (CHOOSE q \in DOMAIN candidates :
         ends(q) /\ \A r \in 1 .. q - 1 : ~ends(r)) \in DOMAIN candidates
  BY <1>5
<1>. QED
  BY <1>1, <1>6, <1>7
----------------------------------------------------------------------------
(* Frames                                                                  *)

\* A step of another worker, or of none, that empties no bucket preserves what
\* holds of a worker.
LEMMA Others ==
  ASSUME TableType, NEW v \in Worker, WorkerInv(v),
         SameWorker(v), with_interp' = with_interp, StaysOccupied
  PROVE  WorkerInv(v)'
<1>1. WorkerType(v)'
  BY DEF WorkerInv, WorkerType, SameWorker
<1>2. WorkerPairs(v)'
  BY DEF WorkerInv, WorkerPairs, SameWorker, Computed
<1>3. WorkerResults(v)'
  BY DEF WorkerInv, WorkerResults, SameWorker
<1>4. \A n \in DOMAIN todo[v] : main'[todo[v][n]].key # NoKey
  BY DEF WorkerInv, WorkerType, WorkerLive, StaysOccupied
<1>5. pc[v] \in Filling =>
        \A n \in DOMAIN filled[v] :
          filled[v][n] # NoLoc => main'[filled[v][n]].key # NoKey
  BY DEF WorkerInv, WorkerType, WorkerLive, StaysOccupied
<1>6. WorkerLive(v)'
  BY <1>4, <1>5 DEF WorkerLive, SameWorker
<1>. QED
  BY <1>1, <1>2, <1>3, <1>6 DEF WorkerInv

\* So it is enough to look at the tables and at the worker that moves.
LEMMA Assemble ==
  ASSUME IInv, NEW w \in Worker,
         Shape', \A v \in Worker \ {w} : SameWorker(v),
         with_interp' = with_interp, StaysOccupied,
         TableType', TableTrue', TableLive', WorkerInv(w)'
  PROVE  IInv'
<1>1. ASSUME NEW v \in Worker PROVE WorkerInv(v)'
  BY <1>1, Others DEF IInv
<1>. QED
  BY <1>1 DEF IInv

\* Most steps leave both tables alone.
LEMMA SameTables ==
  ASSUME IInv, UNCHANGED <<with_interp, main, pht>>
  PROVE  TableType' /\ TableTrue' /\ TableLive' /\ StaysOccupied
<1>1. TableType' /\ TableLive' /\ StaysOccupied
  BY DEF IInv, TableType, TableLive, StaysOccupied
<1>2. TableTrue'
  BY DEF IInv, TableTrue, DataOf
<1>. QED
  BY <1>1, <1>2

\* A worker in a loop over its package, or between two, that has neither
\* locations to read nor any to store, has its types as long as the variables
\* that the loop writes have theirs.
LEMMA LoopType ==
  ASSUME NEW w \in Worker, WorkerType(w),
         package'[w] = package[w], package[w] \in Packages,
         pc'[w] \in {"check", "query", "run"},
         IF pc'[w] = "run" THEN i'[w] = 1 ELSE i'[w] \in 1 .. Len(package[w]),
         mapping'[w] \in [DOMAIN package[w] -> {"PQC", "DHT", "INTERP"}],
         output'[w] \in [DOMAIN package[w] -> Result],
         filled'[w] = filled[w], todo'[w] = <<>>, lookup'[w] \in Seq(Pair),
         cache'[w] = cache[w], left'[w] = left[w]
  PROVE  WorkerType(w)'
<1>1. /\ pc'[w] \in Stages /\ pc'[w] \notin Filling
      /\ pc'[w] # "idle" /\ pc'[w] # "gather" /\ pc'[w] # "done"
  BY DEF Stages, Filling
<1>2. \A n \in DOMAIN filled'[w] : filled'[w][n] \in Loc \cup {NoLoc}
  BY DEF WorkerType
<1>3. cache'[w] \in [CoarseKey -> Seq(Pair) \cup {NotCached}]
      /\ left'[w] \in 0 .. MaxPackages
  BY DEF WorkerType
<1>4. todo'[w] \in Seq(Loc)
  OBVIOUS
<1>. QED
  BY <1>1, <1>2, <1>3, <1>4 DEF WorkerType

\* What NextCell does to the two variables it writes.
LEMMA Advance ==
  ASSUME Shape, NEW w \in Worker, NEW stage, NEW next, NextCell(w, stage, next)
  PROVE  /\ pc' = [v \in Worker |-> pc'[v]]
         /\ i' = [v \in Worker |-> i'[v]]
         /\ \A v \in Worker \ {w} : pc'[v] = pc[v] /\ i'[v] = i[v]
         /\ IF i[w] < Len(package[w])
            THEN i'[w] = i[w] + 1 /\ pc'[w] = stage
            ELSE i'[w] = 1 /\ pc'[w] = next
  BY DEF Shape, NextCell

\* The next cell is one of the package.
LEMMA AdvanceInside ==
  ASSUME NEW w \in Worker, package[w] \in Packages,
         i[w] \in 1 .. Len(package[w]), i[w] < Len(package[w])
  PROVE  i[w] + 1 \in 1 .. Len(package[w])
<1>1. Len(package[w]) \in Nat
  BY ModeAssumption
<1>. QED
  BY <1>1

\* A worker in a loop over its cells is at one of them.
LEMMA CellType ==
  ASSUME NEW w \in Worker, WorkerType(w), pc[w] \notin {"idle", "run", "done"}
  PROVE  /\ package[w] \in Packages
         /\ i[w] \in 1 .. Len(package[w])
         /\ i[w] \in DOMAIN package[w]
         /\ Cell(w) = package[w][i[w]] /\ Cell(w) \in Input
         /\ Cell(w) \in Int /\ KeyOf[Cell(w)] \in Key
         /\ Coarse[KeyOf[Cell(w)]] \in CoarseKey
         /\ Pqc[Cell(w)] \in Int
<1>1. package[w] \in Packages /\ i[w] \in 1 .. Len(package[w])
  BY DEF WorkerType, Stages
<1>2. package[w] \in Seq(Input)
  BY <1>1, ModeAssumption
<1>3. i[w] \in DOMAIN package[w] /\ package[w][i[w]] \in Input
  BY <1>1, <1>2
<1>. QED
  BY <1>1, <1>3, ModeAssumption, TableAssumption DEF Cell

\* A loop goes on inside the package, or the next stage begins at its start.
LEMMA LoopOn ==
  ASSUME Shape, NEW w \in Worker, WorkerType(w),
         pc[w] \notin {"idle", "run", "done"},
         NEW stage, NEW next, stage # next, NextCell(w, stage, next)
  PROVE  /\ pc'[w] \in {stage, next}
         /\ i'[w] \in 1 .. Len(package[w])
         /\ pc'[w] = next => i'[w] = 1
<1>1. package[w] \in Packages /\ i[w] \in 1 .. Len(package[w])
  BY CellType
<1>2. 1 \in 1 .. Len(package[w])
  BY <1>1
<1>. QED
  BY <1>1, <1>2, Advance, AdvanceInside
----------------------------------------------------------------------------
(* Steps                                                                   *)

\* Before anything has arrived.
LEMMA InitIInv == Init => IInv
<1>. SUFFICES ASSUME Init PROVE IInv
  OBVIOUS
<1>1. TableType /\ TableTrue /\ TableLive
  BY ModeAssumption DEF Init, TableType, TableTrue, TableLive, Empty, EmptyPHT,
     Bucket, PHTBucket
<1>2. Shape
  BY DEF Init, Shape
<1>3. ASSUME NEW w \in Worker PROVE WorkerInv(w)
  <2>1. WorkerType(w)
    BY ModeAssumption DEF Init, WorkerType, Stages, Filling
  <2>2. WorkerPairs(w)
    BY DEF Init, WorkerPairs, Interpolating
  <2>3. WorkerResults(w)
    BY DEF Init, WorkerResults
  <2>4. WorkerLive(w)
    BY DEF Init, WorkerLive, Filling
  <2>. QED
    BY <2>1, <2>2, <2>3, <2>4 DEF WorkerInv
<1>. QED
  BY <1>1, <1>2, <1>3 DEF IInv

\* A package arrives.
LEMMA ReceiveStep ==
  ASSUME IInv, NEW w \in Worker, NEW pkg \in Packages, Receive(w, pkg)
  PROVE  IInv'
<1>. USE DEF IInv, WorkerInv
<1>1. Shape' /\ \A v \in Worker \ {w} : SameWorker(v)
  BY DEF Receive, Shape, SameWorker
<1>2. /\ TableType' /\ TableTrue' /\ TableLive' /\ StaysOccupied
      /\ with_interp' = with_interp
  BY SameTables DEF Receive
<1>3. pkg \in Seq(Input) /\ pkg # <<>>
  BY ModeAssumption
<1>4. /\ pc[w] = "idle" /\ pc'[w] = IF UseDHT THEN "check" ELSE "query"
      /\ package'[w] = pkg
      /\ mapping'[w] = [n \in DOMAIN pkg |-> "PQC"]
      /\ output'[w] = [n \in DOMAIN pkg |-> NoOutput]
      /\ left'[w] = left[w] - 1 /\ left[w] > 0
      /\ i'[w] = i[w] /\ filled'[w] = filled[w] /\ todo'[w] = todo[w]
      /\ lookup'[w] = lookup[w] /\ cache'[w] = cache[w]
  BY DEF Receive, Shape
<1>5. WorkerType(w)'
  <2>1. i[w] = 1 /\ todo[w] = <<>>
    BY <1>4 DEF WorkerType
  <2>2. 1 \in 1 .. Len(pkg)
    BY <1>3
  <2>3. left'[w] \in 0 .. MaxPackages
    BY <1>4, ModeAssumption DEF WorkerType
  <2>. QED
    BY <1>4, <2>1, <2>2, <2>3 DEF WorkerType, Stages, Filling, Result
<1>6. WorkerPairs(w)'
  <2>1. pc'[w] = "query" => with_interp
    BY <1>4, ModeAssumption DEF TableType
  <2>2. WorkerPairs(w) /\ pc'[w] \in {"check", "query"}
    BY <1>4
  <2>. QED
    BY <1>2, <1>4, <2>1, <2>2 DEF WorkerPairs, Interpolating, Computed
<1>7. WorkerResults(w)'
  BY <1>4 DEF WorkerResults
<1>8. WorkerLive(w)'
  BY <1>4 DEF WorkerLive, WorkerType, Filling
<1>9. WorkerInv(w)'
  BY <1>5, <1>6, <1>7, <1>8
<1>. HIDE DEF IInv, WorkerInv
<1>. QED
  BY <1>1, <1>2, <1>9, Assemble

\* A cell is looked up: a hit is what was computed for a cell of the same key.
LEMMA CheckCellStep ==
  ASSUME IInv, NEW w \in Worker, CheckCell(w)
  PROVE  IInv'
<1>. DEFINE k == KeyOf[Cell(w)]
            bucket == main[StopAt(main, Probe[k], k)]
            hit == bucket.key = k
<1>1. Shape' /\ \A v \in Worker \ {w} : SameWorker(v)
  BY Advance DEF IInv, CheckCell, Shape, SameWorker
<1>2. /\ TableType' /\ TableTrue' /\ TableLive' /\ StaysOccupied
      /\ with_interp' = with_interp
  BY SameTables DEF CheckCell
<1>3. WorkerInv(w) /\ Shape /\ TableType /\ TableTrue
  BY DEF IInv
<1>4. /\ pc[w] = "check" /\ package'[w] = package[w]
      /\ IF hit
         THEN /\ output'[w] = [output[w] EXCEPT ![i[w]] = HitOutput(Cell(w), bucket)]
              /\ mapping'[w] = [mapping[w] EXCEPT ![i[w]] = "DHT"]
         ELSE output'[w] = output[w] /\ mapping'[w] = mapping[w]
      /\ filled'[w] = filled[w] /\ todo'[w] = todo[w]
      /\ lookup'[w] = lookup[w] /\ cache'[w] = cache[w] /\ left'[w] = left[w]
  BY <1>3 DEF CheckCell, Shape
<1>5. /\ package[w] \in Packages /\ i[w] \in 1 .. Len(package[w])
      /\ i[w] \in DOMAIN package[w] /\ Cell(w) = package[w][i[w]]
      /\ Cell(w) \in Int /\ k \in Key
  BY <1>3, <1>4, CellType DEF WorkerInv
<1>6. IF i[w] < Len(package[w])
      THEN i'[w] = i[w] + 1 /\ pc'[w] = "check"
      ELSE i'[w] = 1 /\ pc'[w] = IF with_interp THEN "query" ELSE "run"
  BY <1>3, Advance DEF CheckCell
<1>7. bucket \in Bucket
  BY <1>3, <1>5, SearchEnds, TableAssumption DEF TableType
<1>8. hit => /\ HitOutput(Cell(w), bucket) \in Int
             /\ ~with_interp =>
                  \E x \in Reacting :
                    KeyOf[x] = k /\ HitOutput(Cell(w), bucket) = Pqc[x]
  <2>. SUFFICES ASSUME hit
                PROVE  /\ HitOutput(Cell(w), bucket) \in Int
                       /\ ~with_interp =>
                            \E x \in Reacting :
                              KeyOf[x] = k /\ HitOutput(Cell(w), bucket) = Pqc[x]
    OBVIOUS
  <2>1. HitOutput(Cell(w), bucket) \in Int
    <3>1. bucket.input \in Int /\ bucket.data \in Int
      BY <1>7 DEF Bucket
    <3>2. Cell(w) \in Int
      BY <1>5
    <3>. HIDE DEF bucket
    <3>. QED
      BY <3>1, <3>2 DEF HitOutput
  <2>2. StopAt(main, Probe[k], k) \in Loc /\ bucket.key # NoKey
    BY <1>5, SearchEnds, TableAssumption
  <2>3. PICK x \in Reacting \ FillSkips :
          /\ KeyOf[x] = bucket.key
          /\ DataOf(x, Pqc[x]) = [input |-> bucket.input, data |-> bucket.data]
    BY <1>3, <2>2 DEF TableTrue
  <2>4. ~with_interp => HitOutput(Cell(w), bucket) = Pqc[x]
    BY <2>3 DEF DataOf, HitOutput
  <2>. QED
    BY <2>1, <2>3, <2>4
<1>. HIDE DEF k, bucket, hit
<1>9. /\ i'[w] \in 1 .. Len(package[w]) \/ pc'[w] = "run"
      /\ pc'[w] \in {"query", "run"} => i'[w] = 1
      /\ pc'[w] \in {"check", "query", "run"}
      /\ pc'[w] = "query" => with_interp
  <2>1. 1 \in 1 .. Len(package[w])
    BY <1>5
  <2>. QED
    BY <1>5, <1>6, AdvanceInside, <2>1
<1>10. WorkerType(w)'
  <2>1. mapping'[w] \in [DOMAIN package[w] -> {"PQC", "DHT", "INTERP"}]
    BY <1>3, <1>4, <1>5 DEF WorkerInv, WorkerType
  <2>2. output'[w] \in [DOMAIN package[w] -> Result]
    <3>1. output[w] \in [DOMAIN package[w] -> Result]
      BY <1>3 DEF WorkerInv, WorkerType
    <3>2. CASE hit
      <4>1. HitOutput(Cell(w), bucket) \in Result
        BY <1>8, <3>2 DEF Result
      <4>2. output'[w] = [output[w] EXCEPT ![i[w]] = HitOutput(Cell(w), bucket)]
        BY <1>4, <3>2
      <4>. QED
        BY <3>1, <4>1, <4>2
    <3>3. CASE ~hit
      BY <1>4, <3>1, <3>3
    <3>. QED
      BY <3>2, <3>3
  <2>3. todo'[w] = <<>> /\ lookup'[w] \in Seq(Pair) /\ WorkerType(w)
    BY <1>3, <1>4 DEF WorkerInv, WorkerType
  <2>. QED
    BY <1>4, <1>5, <1>9, <2>1, <2>2, <2>3, LoopType
<1>11. WorkerPairs(w)'
  <2>1. WorkerPairs(w) /\ lookup'[w] = lookup[w] /\ cache'[w] = cache[w]
    BY <1>3, <1>4 DEF WorkerInv
  <2>2. pc'[w] # "gather" /\ pc'[w] # "interpolate"
    BY <1>9
  <2>3. pc'[w] \in Interpolating => with_interp'
    BY <1>2, <1>9 DEF Interpolating
  <2>. QED
    BY <2>1, <2>2, <2>3 DEF WorkerPairs, Computed
<1>12. WorkerResults(w)'
  <2>1. ASSUME NEW n \in DOMAIN package[w]
        PROVE  /\ mapping'[w][n] # "PQC" => output'[w][n] # NoOutput
               /\ ~with_interp /\ mapping'[w][n] = "DHT" =>
                    \E x \in Reacting :
                      KeyOf[x] = KeyOf[package[w][n]] /\ output'[w][n] = Pqc[x]
    <3>1. CASE hit /\ n = i[w]
      <4>1. mapping'[w][n] = "DHT" /\ output'[w][n] = HitOutput(Cell(w), bucket)
        BY <1>3, <1>4, <1>5, <3>1 DEF WorkerInv, WorkerType
      <4>2. KeyOf[package[w][n]] = k
        BY <1>5, <3>1 DEF k
      <4>. QED
        BY <1>8, <3>1, <4>1, <4>2, ModeAssumption
    <3>2. CASE ~(hit /\ n = i[w])
      <4>1. mapping'[w][n] = mapping[w][n] /\ output'[w][n] = output[w][n]
        BY <1>3, <1>4, <1>5, <3>2 DEF WorkerInv, WorkerType
      <4>. QED
        BY <1>3, <4>1 DEF WorkerInv, WorkerResults
    <3>. QED
      BY <3>1, <3>2
  <2>. QED
    BY <1>2, <1>4, <1>9, <2>1 DEF WorkerResults
<1>13. WorkerLive(w)'
  <2>1. todo'[w] = <<>>
    BY <1>3, <1>4 DEF WorkerInv, WorkerType
  <2>2. pc'[w] \notin Filling
    BY <1>9 DEF Filling
  <2>. QED
    BY <2>1, <2>2 DEF WorkerLive
<1>14. WorkerInv(w)'
  BY <1>10, <1>11, <1>12, <1>13 DEF WorkerInv
<1>. QED
  BY <1>1, <1>2, <1>14, Assemble

\* A cell that is not to be interpolated is passed over.
LEMMA SkipCellStep ==
  ASSUME IInv, NEW w \in Worker, SkipCell(w)
  PROVE  IInv'
<1>1. Shape' /\ \A v \in Worker \ {w} : SameWorker(v)
  BY Advance DEF IInv, SkipCell, Shape, SameWorker
<1>2. /\ TableType' /\ TableTrue' /\ TableLive' /\ StaysOccupied
      /\ with_interp' = with_interp
  BY SameTables DEF SkipCell
<1>3. WorkerInv(w) /\ WorkerType(w) /\ Shape
  BY DEF IInv, WorkerInv
<1>4. /\ pc[w] = "query" /\ package' = package /\ mapping' = mapping
      /\ output' = output /\ filled' = filled /\ todo' = todo
      /\ lookup' = lookup /\ cache' = cache /\ left' = left
      /\ main' = main
  BY DEF SkipCell
<1>5. /\ pc'[w] \in {"query", "run"}
      /\ i'[w] \in 1 .. Len(package[w])
      /\ pc'[w] = "run" => i'[w] = 1
  BY <1>3, <1>4, LoopOn DEF SkipCell
<1>6. WorkerType(w)'
  BY <1>3, <1>4, <1>5 DEF WorkerType, Stages, Filling
<1>7. WorkerPairs(w)' /\ WorkerResults(w)' /\ WorkerLive(w)'
  BY <1>2, <1>3, <1>4, <1>5
     DEF WorkerInv, WorkerPairs, WorkerResults, WorkerLive, Interpolating,
         Filling, Computed
<1>8. WorkerInv(w)'
  BY <1>6, <1>7 DEF WorkerInv
<1>. QED
  BY <1>1, <1>2, <1>8, Assemble

\* The local cache has the pairs.
LEMMA QueryCachedStep ==
  ASSUME IInv, NEW w \in Worker, QueryCached(w)
  PROVE  IInv'
<1>. DEFINE c == Coarse[KeyOf[Cell(w)]]
<1>1. Shape' /\ \A v \in Worker \ {w} : SameWorker(v)
  BY DEF IInv, QueryCached, Shape, SameWorker
<1>2. /\ TableType' /\ TableTrue' /\ TableLive' /\ StaysOccupied
      /\ with_interp' = with_interp
  BY SameTables DEF QueryCached
<1>3. WorkerInv(w) /\ WorkerType(w) /\ Shape
  BY DEF IInv, WorkerInv
<1>4. /\ pc[w] = "query" /\ pc'[w] = "interpolate"
      /\ cache[w][c] # NotCached /\ lookup'[w] = cache[w][c]
      /\ package' = package /\ i' = i /\ mapping' = mapping
      /\ output' = output /\ filled' = filled /\ todo' = todo
      /\ cache' = cache /\ left' = left /\ main' = main
  BY <1>3 DEF QueryCached, Shape
<1>5. c \in CoarseKey
  BY <1>3, <1>4, CellType
<1>. HIDE DEF c
<1>6. WorkerType(w)'
  BY <1>3, <1>4, <1>5 DEF WorkerType, Stages, Filling
<1>7. WorkerPairs(w)'
  BY <1>2, <1>3, <1>4, <1>5 DEF WorkerInv, WorkerPairs, Interpolating, Computed
<1>8. WorkerResults(w)' /\ WorkerLive(w)'
  BY <1>2, <1>3, <1>4 DEF WorkerInv, WorkerResults, WorkerLive, Filling
<1>9. WorkerInv(w)'
  BY <1>6, <1>7, <1>8 DEF WorkerInv
<1>. QED
  BY <1>1, <1>2, <1>9, Assemble

\* The proximity table has enough locations, or the cell is left to Phreeqc.
LEMMA QueryPHTStep ==
  ASSUME IInv, NEW w \in Worker, QueryPHT(w)
  PROVE  IInv'
<1>. DEFINE c == Coarse[KeyOf[Cell(w)]]
            p == StopAt(pht, PHTProbe[c], c)
            found == pht[p].key = c /\ Len(pht[p].locations) >= MinEntries
<1>1. Shape' /\ \A v \in Worker \ {w} : SameWorker(v)
  <2>1. CASE found
    BY <2>1 DEF IInv, QueryPHT, Shape, SameWorker
  <2>2. CASE ~found
    BY <2>2, Advance DEF IInv, QueryPHT, Shape, SameWorker
  <2>. QED
    BY <2>1, <2>2
<1>2. /\ TableType' /\ TableTrue' /\ TableLive' /\ StaysOccupied
      /\ with_interp' = with_interp
  BY SameTables DEF QueryPHT
<1>3. WorkerInv(w) /\ WorkerType(w) /\ Shape /\ TableType /\ TableLive
  BY DEF IInv, WorkerInv
<1>4. /\ pc[w] = "query" /\ lookup'[w] = <<>>
      /\ package' = package /\ mapping' = mapping
      /\ output' = output /\ filled' = filled
      /\ cache' = cache /\ left' = left /\ main' = main
  BY <1>3 DEF QueryPHT, Shape
<1>5. /\ c \in CoarseKey /\ i[w] \in 1 .. Len(package[w])
  BY <1>3, <1>4, CellType
<1>6. p \in PHTLoc
  BY <1>5, SearchEnds, TableAssumption
<1>7. CASE found
  <2>1. todo'[w] = pht[p].locations /\ pc'[w] = "gather" /\ i'[w] = i[w]
    BY <1>3, <1>7 DEF QueryPHT, Shape
  <2>. HIDE DEF p, c
  <2>2. /\ todo'[w] \in Seq(Loc) /\ Len(todo'[w]) >= MinEntries
        /\ todo'[w] # <<>>
        /\ \A n \in DOMAIN todo'[w] : main[todo'[w][n]].key # NoKey
    BY <1>3, <1>6, <1>7, <2>1, ModeAssumption
       DEF TableType, TableLive, PHTBucket
  <2>3. WorkerType(w)'
    BY <1>3, <1>4, <1>5, <2>1, <2>2 DEF WorkerType, Stages, Filling
  <2>4. WorkerPairs(w)'
    <3>1. Len(<<>>) + Len(todo'[w]) >= MinEntries
      BY <2>2
    <3>. QED
      BY <1>2, <1>3, <1>4, <2>1, <3>1
         DEF WorkerInv, WorkerPairs, Interpolating, Computed
  <2>5. WorkerResults(w)' /\ WorkerLive(w)'
    BY <1>2, <1>3, <1>4, <2>1, <2>2
       DEF WorkerInv, WorkerResults, WorkerLive, Filling
  <2>6. WorkerInv(w)'
    BY <2>3, <2>4, <2>5 DEF WorkerInv
  <2>. QED
    BY <1>1, <1>2, <2>6, Assemble
<1>8. CASE ~found
  <2>1. todo' = todo /\ NextCell(w, "query", "run")
    BY <1>8 DEF QueryPHT
  <2>. HIDE DEF found, p, c
  <2>2. /\ pc'[w] \in {"query", "run"}
        /\ i'[w] \in 1 .. Len(package[w])
        /\ pc'[w] = "run" => i'[w] = 1
    BY <1>3, <1>4, <2>1, LoopOn
  <2>3. WorkerType(w)'
    BY <1>3, <1>4, <2>1, <2>2 DEF WorkerType, Stages, Filling
  <2>4. WorkerPairs(w)' /\ WorkerResults(w)' /\ WorkerLive(w)'
    BY <1>2, <1>3, <1>4, <2>1, <2>2
       DEF WorkerInv, WorkerPairs, WorkerResults, WorkerLive, Interpolating,
           Filling, Computed
  <2>5. WorkerInv(w)'
    BY <2>3, <2>4 DEF WorkerInv
  <2>. QED
    BY <1>1, <1>2, <2>5, Assemble
<1>. QED
  BY <1>7, <1>8

\* What is read from an occupied bucket, with interpolation on, is a pair that
\* Phreeqc computed.
LEMMA OccupiedComputed ==
  ASSUME TableTrue, with_interp, NEW l \in Loc, main[l].key # NoKey
  PROVE  Computed([input |-> main[l].input, rates |-> main[l].data])
<1>1. PICK x \in Reacting \ FillSkips :
        DataOf(x, Pqc[x]) = [input |-> main[l].input, data |-> main[l].data]
  BY DEF TableTrue
<1>2. main[l].input = x /\ main[l].data = Pqc[x] - x
  BY <1>1 DEF DataOf
<1>. QED
  BY <1>2 DEF Computed

\* A location is read: its bucket is still occupied, whatever is there now.
LEMMA GatherStep ==
  ASSUME IInv, NEW w \in Worker, Gather(w)
  PROVE  IInv'
<1>. DEFINE l == Head(todo[w])
            pair == [input |-> main[l].input, rates |-> main[l].data]
            results == Append(lookup[w], pair)
            c == Coarse[KeyOf[Cell(w)]]
            last == Len(todo[w]) = 1
<1>1. Shape' /\ \A v \in Worker \ {w} : SameWorker(v)
  BY DEF IInv, Gather, Shape, SameWorker
<1>2. /\ TableType' /\ TableTrue' /\ TableLive' /\ StaysOccupied
      /\ with_interp' = with_interp
  BY SameTables DEF Gather
<1>3. WorkerInv(w) /\ WorkerType(w) /\ Shape /\ TableType /\ TableTrue
  BY DEF IInv, WorkerInv
<1>4. /\ pc[w] = "gather" /\ lookup'[w] = results /\ todo'[w] = Tail(todo[w])
      /\ IF last
         THEN /\ cache'[w] = [cache[w] EXCEPT ![c] = results]
              /\ pc'[w] = "interpolate"
         ELSE cache'[w] = cache[w] /\ pc'[w] = pc[w]
      /\ package' = package /\ i' = i /\ mapping' = mapping
      /\ output' = output /\ filled' = filled /\ left' = left /\ main' = main
  BY <1>3 DEF Gather, Shape
<1>5. c \in CoarseKey
  BY <1>3, <1>4, CellType
<1>6. /\ todo[w] \in Seq(Loc) /\ todo[w] # <<>> /\ l \in Loc
      /\ main[l].key # NoKey
  BY <1>3, <1>4 DEF WorkerType, WorkerInv, WorkerLive
<1>7. pair \in Pair /\ Computed(pair)
  <2>1. with_interp
    BY <1>3, <1>4 DEF WorkerInv, WorkerPairs, Interpolating
  <2>. QED
    BY <1>3, <1>6, <2>1, OccupiedComputed DEF TableType, Bucket, Pair
<1>. HIDE DEF pair, l
<1>8. /\ results \in Seq(Pair) /\ Len(results) = Len(lookup[w]) + 1
      /\ \A n \in DOMAIN results : Computed(results[n])
  BY <1>3, <1>7 DEF WorkerType, WorkerInv, WorkerPairs
<1>9. /\ todo'[w] \in Seq(Loc) /\ Len(todo'[w]) = Len(todo[w]) - 1
      /\ todo'[w] = <<>> <=> last
      /\ \A n \in DOMAIN todo'[w] : main[todo'[w][n]].key # NoKey
  <2>1. \A n \in DOMAIN todo'[w] :
          n + 1 \in DOMAIN todo[w] /\ todo'[w][n] = todo[w][n + 1]
    BY <1>4, <1>6
  <2>2. \A n \in DOMAIN todo[w] : main[todo[w][n]].key # NoKey
    BY <1>3 DEF WorkerInv, WorkerLive
  <2>3. todo'[w] \in Seq(Loc) /\ Len(todo'[w]) = Len(todo[w]) - 1
    BY <1>4, <1>6
  <2>4. todo'[w] = <<>> <=> Len(todo'[w]) = 0
    BY <2>3, EmptySeq
  <2>5. Len(todo[w]) \in Nat
    BY <1>6
  <2>6. todo'[w] = <<>> <=> last
    BY <2>3, <2>4, <2>5
  <2>. QED
    BY <2>1, <2>2, <2>3, <2>6
<1>. HIDE DEF results
<1>10. Len(results) + Len(todo'[w]) >= MinEntries
  <2>1. Len(lookup[w]) + Len(todo[w]) >= MinEntries
    BY <1>3, <1>4 DEF WorkerInv, WorkerPairs
  <2>2. Len(lookup[w]) \in Nat /\ Len(todo[w]) \in Nat
    BY <1>3, <1>6 DEF WorkerType
  <2>3. Len(results) = Len(lookup[w]) + 1 /\ Len(todo'[w]) = Len(todo[w]) - 1
    BY <1>8, <1>9
  <2>4. MinEntries \in Nat
    BY ModeAssumption
  <2>5. \A a, b, m \in Nat : a + b >= m => (a + 1) + (b - 1) >= m
    OBVIOUS
  <2>. QED
    BY <2>1, <2>2, <2>3, <2>4, <2>5
<1>11. last => Len(results) >= MinEntries
  BY <1>8, <1>9, <1>10, ModeAssumption
<1>. HIDE DEF c, last
<1>12. /\ pc'[w] \in {"gather", "interpolate"}
       /\ pc'[w] = "interpolate" <=> last
  BY <1>4
<1>13. /\ cache'[w] \in [CoarseKey -> Seq(Pair) \cup {NotCached}]
       /\ \A d \in CoarseKey : cache'[w][d] # NotCached =>
            /\ \A n \in DOMAIN cache'[w][d] : Computed(cache'[w][d][n])
            /\ Len(cache'[w][d]) >= MinEntries
  <2>1. cache[w] \in [CoarseKey -> Seq(Pair) \cup {NotCached}]
    BY <1>3 DEF WorkerType
  <2>2. \A d \in CoarseKey : cache[w][d] # NotCached =>
            /\ \A n \in DOMAIN cache[w][d] : Computed(cache[w][d][n])
            /\ Len(cache[w][d]) >= MinEntries
    BY <1>3 DEF WorkerInv, WorkerPairs
  <2>3. CASE last
    BY <1>4, <1>5, <1>8, <1>11, <2>1, <2>2, <2>3
  <2>4. CASE ~last
    BY <1>4, <2>1, <2>2, <2>4
  <2>. QED
    BY <2>3, <2>4
<1>14. WorkerType(w)'
  BY <1>3, <1>4, <1>8, <1>9, <1>12, <1>13 DEF WorkerType, Stages, Filling
<1>15. WorkerPairs(w)'
  <2>1. \A q : Computed(q)' <=> Computed(q)
    BY DEF Computed
  <2>2. with_interp
    BY <1>3, <1>4 DEF WorkerInv, WorkerPairs, Interpolating
  <2>. QED
    BY <1>2, <1>4, <1>8, <1>10, <1>11, <1>12, <1>13, <2>1, <2>2 DEF WorkerPairs
<1>16. WorkerResults(w)' /\ WorkerLive(w)'
  BY <1>2, <1>3, <1>4, <1>9, <1>12
     DEF WorkerInv, WorkerResults, WorkerLive, Filling
<1>17. WorkerInv(w)'
  BY <1>14, <1>15, <1>16 DEF WorkerInv
<1>. QED
  BY <1>1, <1>2, <1>17, Assemble

\* A cell is interpolated, and the result accepted or not.
LEMMA InterpolateStep ==
  ASSUME IInv, NEW w \in Worker, Interpolate(w)
  PROVE  IInv'
<1>. DEFINE kept == Kept(Cell(w), lookup[w])
            results == Interpolated(Cell(w), lookup[w], kept)
<1>1. Shape' /\ \A v \in Worker \ {w} : SameWorker(v)
  <2>1. CASE Cardinality(kept) >= MinEntries
    BY <2>1, Advance DEF IInv, Interpolate, Shape, SameWorker
  <2>2. CASE ~(Cardinality(kept) >= MinEntries)
    BY <2>2, Advance DEF IInv, Interpolate, Shape, SameWorker
  <2>. QED
    BY <2>1, <2>2
<1>2. /\ TableType' /\ TableTrue' /\ TableLive' /\ StaysOccupied
      /\ with_interp' = with_interp
  BY SameTables DEF Interpolate
<1>3. WorkerInv(w) /\ WorkerType(w) /\ Shape
  BY DEF IInv, WorkerInv
<1>4. /\ pc[w] = "interpolate" /\ lookup'[w] = <<>> /\ package' = package
      /\ filled' = filled /\ todo' = todo /\ cache' = cache /\ left' = left
      /\ main' = main /\ NextCell(w, "query", "run")
  BY <1>3 DEF Interpolate, Shape
<1>5. /\ pc'[w] \in {"query", "run"}
      /\ i'[w] \in 1 .. Len(package[w])
      /\ pc'[w] = "run" => i'[w] = 1
  BY <1>3, <1>4, LoopOn
<1>6. i[w] \in DOMAIN package[w] /\ Cell(w) \in Int
  BY <1>3, <1>4, CellType
<1>7. results \in SUBSET (Int \cup {NaN})
  <2>1. \A n \in kept : lookup[w][n] \in Pair
    BY <1>3 DEF WorkerType, Kept
  <2>. QED
    BY <1>6, <2>1 DEF Interpolated, Pair
<1>8. \/ output'[w] = output[w] /\ mapping'[w] = mapping[w]
      \/ \E result \in Int \cup {NaN} :
           /\ output'[w] = [output[w] EXCEPT ![i[w]] = result]
           /\ \/ mapping'[w] = mapping[w]
              \/ mapping'[w] = [mapping[w] EXCEPT ![i[w]] = "INTERP"]
  <2>1. CASE Cardinality(kept) >= MinEntries
    <3>1. PICK result \in results, accepted \in {TRUE, ~PostRejects} :
            /\ output' = [output EXCEPT ![w][i[w]] = result]
            /\ mapping' = IF accepted
                          THEN [mapping EXCEPT ![w][i[w]] = "INTERP"]
                          ELSE mapping
      BY <2>1 DEF Interpolate
    <3>. HIDE DEF results
    <3>2. output'[w] = [output[w] EXCEPT ![i[w]] = result]
      BY <1>3, <3>1 DEF Shape
    <3>3. \/ mapping'[w] = mapping[w]
          \/ mapping'[w] = [mapping[w] EXCEPT ![i[w]] = "INTERP"]
      BY <1>3, <3>1 DEF Shape
    <3>. QED
      BY <1>7, <3>2, <3>3
  <2>2. CASE ~(Cardinality(kept) >= MinEntries)
    BY <2>2 DEF Interpolate
  <2>. QED
    BY <2>1, <2>2
<1>. HIDE DEF kept, results
<1>9. /\ output'[w] \in [DOMAIN package[w] -> Result]
      /\ mapping'[w] \in [DOMAIN package[w] -> {"PQC", "DHT", "INTERP"}]
  <2>1. output[w] \in [DOMAIN package[w] -> Result]
    BY <1>3 DEF WorkerType
  <2>2. mapping[w] \in [DOMAIN package[w] -> {"PQC", "DHT", "INTERP"}]
    BY <1>3 DEF WorkerType
  <2>3. output'[w] \in [DOMAIN package[w] -> Result]
    BY <1>8, <2>1 DEF Result
  <2>4. mapping'[w] \in [DOMAIN package[w] -> {"PQC", "DHT", "INTERP"}]
    BY <1>8, <2>2
  <2>. QED
    BY <2>3, <2>4
<1>10. \A n \in DOMAIN package[w] :
         mapping'[w][n] # "PQC" => output'[w][n] # NoOutput
  <2>. SUFFICES ASSUME NEW n \in DOMAIN package[w], mapping'[w][n] # "PQC"
                PROVE  output'[w][n] # NoOutput
    OBVIOUS
  <2>1. mapping[w][n] # "PQC" => output[w][n] # NoOutput
    BY <1>3 DEF WorkerInv, WorkerResults
  <2>2. CASE n = i[w]
    BY <1>3, <1>6, <1>8, <2>1, <2>2, ModeAssumption DEF WorkerType
  <2>3. CASE n # i[w]
    BY <1>3, <1>6, <1>8, <2>1, <2>3 DEF WorkerType
  <2>. QED
    BY <2>2, <2>3
<1>11. with_interp
  BY <1>3, <1>4 DEF WorkerInv, WorkerPairs, Interpolating
<1>12. WorkerType(w)'
  <2>1. todo'[w] = <<>> /\ package[w] \in Packages /\ lookup'[w] \in Seq(Pair)
    BY <1>3, <1>4 DEF WorkerType
  <2>. QED
    BY <1>3, <1>4, <1>5, <1>9, <2>1, LoopType
<1>13. WorkerPairs(w)'
  BY <1>2, <1>3, <1>4, <1>5
     DEF WorkerInv, WorkerPairs, Interpolating, Computed
<1>14. WorkerResults(w)'
  BY <1>2, <1>4, <1>5, <1>10, <1>11 DEF WorkerResults
<1>15. WorkerLive(w)'
  BY <1>3, <1>4, <1>5 DEF WorkerInv, WorkerLive, Filling
<1>16. WorkerInv(w)'
  BY <1>12, <1>13, <1>14, <1>15 DEF WorkerInv
<1>. QED
  BY <1>1, <1>2, <1>16, Assemble

\* Phreeqc computes the cells without a result, and filled is cleared.
LEMMA RunStep ==
  ASSUME IInv, NEW w \in Worker, Run(w)
  PROVE  IInv'
<1>1. Shape' /\ \A v \in Worker \ {w} : SameWorker(v)
  BY DEF IInv, Run, Shape, SameWorker
<1>2. /\ TableType' /\ TableTrue' /\ TableLive' /\ StaysOccupied
      /\ with_interp' = with_interp
  BY SameTables DEF Run
<1>3. WorkerInv(w) /\ WorkerType(w) /\ Shape
  BY DEF IInv, WorkerInv
<1>4. /\ pc[w] = "run" /\ pc'[w] = "fill"
      /\ output'[w] = [n \in DOMAIN package[w] |->
                         IF mapping[w][n] = "PQC" THEN Pqc[package[w][n]]
                                                  ELSE output[w][n]]
      /\ filled'[w] = [n \in DOMAIN package[w] |-> NoLoc]
      /\ package' = package /\ i' = i /\ mapping' = mapping
      /\ todo' = todo /\ lookup' = lookup /\ cache' = cache /\ left' = left
  BY <1>3 DEF Run, Shape
<1>5. package[w] \in Packages /\ package[w] \in Seq(Input) /\ package[w] # <<>>
  BY <1>3, <1>4, ModeAssumption DEF WorkerType
<1>6. i[w] = 1 /\ 1 \in 1 .. Len(package[w])
  BY <1>3, <1>4, <1>5 DEF WorkerType
<1>7. \A n \in DOMAIN package[w] : Pqc[package[w][n]] \in Int
  <2>1. \A n \in DOMAIN package[w] : package[w][n] \in Input
    BY <1>5
  <2>. QED
    BY <2>1, ModeAssumption
<1>8. WorkerType(w)'
  <2>1. output'[w] \in [DOMAIN package[w] -> Result]
    <3>1. output[w] \in [DOMAIN package[w] -> Result]
      BY <1>3 DEF WorkerType
    <3>. QED
      BY <1>4, <1>7, <3>1 DEF Result
  <2>2. /\ filled'[w] \in [DOMAIN package[w] -> Loc \cup {NoLoc}]
        /\ \A n \in DOMAIN filled'[w] : filled'[w][n] \in Loc \cup {NoLoc}
    BY <1>4
  <2>3. pc'[w] = "fill" /\ pc'[w] \in Stages
    BY <1>4 DEF Stages
  <2>4. /\ mapping[w] \in [DOMAIN package[w] -> {"PQC", "DHT", "INTERP"}]
        /\ todo[w] = <<>> /\ lookup[w] \in Seq(Pair) /\ left[w] \in 0 .. MaxPackages
        /\ cache[w] \in [CoarseKey -> Seq(Pair) \cup {NotCached}]
    BY <1>3, <1>4 DEF WorkerType
  <2>5. todo'[w] \in Seq(Loc)
    BY <1>4, <2>4
  <2>. QED
    BY <1>4, <1>5, <1>6, <2>1, <2>2, <2>3, <2>4, <2>5 DEF WorkerType
<1>9. WorkerPairs(w)'
  BY <1>2, <1>3, <1>4 DEF WorkerInv, WorkerPairs, Interpolating, Computed
<1>10. WorkerResults(w)'
  BY <1>2, <1>3, <1>4 DEF WorkerInv, WorkerResults
<1>11. WorkerLive(w)'
  BY <1>3, <1>4 DEF WorkerType, WorkerLive
<1>12. WorkerInv(w)'
  BY <1>8, <1>9, <1>10, <1>11 DEF WorkerInv
<1>. QED
  BY <1>1, <1>2, <1>12, Assemble

\* A computed cell is stored: whatever was in the bucket, it is a computed one
\* of its key now.
LEMMA FillCellStep ==
  ASSUME IInv, NEW w \in Worker, FillCell(w)
  PROVE  IInv'
<1>. DEFINE x == Cell(w)
            k == KeyOf[x]
            l == StopAt(main, Probe[k], k)
            stored == DataOf(x, output[w][i[w]])
            next == IF with_interp THEN "pairs" ELSE "done"
<1>1. Shape' /\ \A v \in Worker \ {w} : SameWorker(v)
  <2>1. CASE Stores(w)
    BY <2>1, Advance DEF IInv, FillCell, Shape, SameWorker
  <2>2. CASE ~Stores(w)
    BY <2>2, Advance DEF IInv, FillCell, Shape, SameWorker
  <2>. QED
    BY <2>1, <2>2
<1>2. WorkerInv(w) /\ WorkerType(w) /\ Shape /\ TableType /\ TableTrue /\ TableLive
  BY DEF IInv, WorkerInv
<1>3. /\ pc[w] = "fill" /\ with_interp' = with_interp /\ pht' = pht
      /\ package' = package /\ mapping' = mapping /\ output' = output
      /\ todo' = todo /\ lookup' = lookup /\ cache' = cache /\ left' = left
      /\ NextCell(w, "fill", next)
  BY DEF FillCell
<1>4. /\ i[w] \in DOMAIN package[w] /\ x = package[w][i[w]] /\ x \in Int
      /\ k \in Key /\ Pqc[x] \in Int
  BY <1>2, <1>3, CellType
<1>5. l \in Loc
  BY <1>4, SearchEnds, TableAssumption
<1>6. /\ pc'[w] \in {"fill", next}
      /\ i'[w] \in 1 .. Len(package[w])
      /\ pc'[w] = next => i'[w] = 1
      /\ pc'[w] \in {"fill", "pairs", "done"}
      /\ pc'[w] = "pairs" => with_interp
  <2>1. next # "fill"
    OBVIOUS
  <2>. QED
    BY <1>2, <1>3, <2>1, LoopOn
<1>7. filled[w] \in [DOMAIN package[w] -> Loc \cup {NoLoc}]
  BY <1>2, <1>3 DEF WorkerType, Filling
<1>8. CASE Stores(w)
  <2>1. /\ main' = [main EXCEPT ![l] =
              [key |-> k, input |-> stored.input, data |-> stored.data]]
        /\ filled'[w] = [filled[w] EXCEPT ![i[w]] = l]
    BY <1>2, <1>8 DEF FillCell, Shape
  <2>2. output[w][i[w]] = Pqc[x] /\ x \in Reacting \ FillSkips
    BY <1>2, <1>3, <1>4, <1>8 DEF Stores, WorkerInv, WorkerResults
  <2>3. /\ stored.input \in Int /\ stored.data \in Int
        /\ stored = [input |-> stored.input, data |-> stored.data]
        /\ stored = DataOf(x, Pqc[x])
    BY <1>4, <2>2 DEF DataOf
  <2>. HIDE DEF l, stored, next, x
  <2>4. TableType'
    BY <1>2, <1>3, <1>4, <1>5, <2>1, <2>3 DEF TableType, Bucket
  <2>5. /\ \A m \in Loc \ {l} : main'[m] = main[m]
        /\ main'[l] = [key |-> k, input |-> stored.input, data |-> stored.data]
    BY <1>2, <1>5, <2>1 DEF TableType
  <2>6. k # NoKey
    BY <1>4, TableAssumption
  <2>7. TableTrue'
    <3>1. \A y, r : DataOf(y, r)' = DataOf(y, r)
      BY <1>3 DEF DataOf
    <3>2. ASSUME NEW m \in Loc, main'[m].key # NoKey
          PROVE  \E y \in Reacting \ FillSkips :
                   /\ KeyOf[y] = main'[m].key
                   /\ DataOf(y, Pqc[y]) = [input |-> main'[m].input,
                                           data |-> main'[m].data]
      <4>1. CASE m = l
        BY <2>2, <2>3, <2>5, <4>1
      <4>2. CASE m # l
        BY <1>2, <2>5, <3>2, <4>2 DEF TableTrue
      <4>. QED
        BY <4>1, <4>2
    <3>. QED
      BY <3>1, <3>2 DEF TableTrue
  <2>8. StaysOccupied
    BY <2>5, <2>6 DEF StaysOccupied
  <2>9. TableLive'
    BY <1>2, <1>3, <2>8 DEF TableLive, StaysOccupied, TableType, PHTBucket
  <2>10. /\ filled'[w] \in [DOMAIN package[w] -> Loc \cup {NoLoc}]
         /\ \A n \in DOMAIN filled'[w] :
              filled'[w][n] # NoLoc => main'[filled'[w][n]].key # NoKey
    <3>1. \A n \in DOMAIN filled[w] :
            filled[w][n] # NoLoc => main[filled[w][n]].key # NoKey
      BY <1>2, <1>3 DEF WorkerInv, WorkerLive, Filling
    <3>2. \A n \in DOMAIN package[w] :
            filled'[w][n] = l \/ filled'[w][n] = filled[w][n]
      BY <1>7, <2>1
    <3>3. filled'[w] \in [DOMAIN package[w] -> Loc \cup {NoLoc}]
      BY <1>5, <1>7, <2>1
    <3>. QED
      BY <1>7, <2>5, <2>6, <2>8, <3>1, <3>2, <3>3 DEF StaysOccupied
  <2>11. WorkerType(w)'
    BY <1>2, <1>3, <1>6, <2>10 DEF WorkerType, Stages, Filling
  <2>12. WorkerPairs(w)' /\ WorkerResults(w)'
    BY <1>2, <1>3, <1>6
       DEF WorkerInv, WorkerPairs, WorkerResults, Interpolating, Computed
  <2>13. WorkerLive(w)'
    BY <1>2, <1>3, <1>6, <2>10 DEF WorkerType, WorkerLive
  <2>14. WorkerInv(w)'
    BY <2>11, <2>12, <2>13 DEF WorkerInv
  <2>. QED
    BY <1>1, <1>3, <2>4, <2>7, <2>8, <2>9, <2>14, Assemble
<1>9. CASE ~Stores(w)
  <2>1. main' = main /\ filled' = filled
    BY <1>9 DEF FillCell
  <2>. HIDE DEF next
  <2>2. TableType' /\ TableTrue' /\ TableLive' /\ StaysOccupied
    BY <1>3, <2>1, SameTables
  <2>3. WorkerType(w)'
    BY <1>2, <1>3, <1>6, <1>7, <2>1 DEF WorkerType, Stages, Filling
  <2>4. WorkerPairs(w)' /\ WorkerResults(w)'
    BY <1>2, <1>3, <1>6
       DEF WorkerInv, WorkerPairs, WorkerResults, Interpolating, Computed
  <2>5. WorkerLive(w)'
    BY <1>2, <1>3, <1>6, <2>1 DEF WorkerInv, WorkerLive, Filling
  <2>6. WorkerInv(w)'
    BY <2>3, <2>4, <2>5 DEF WorkerInv
  <2>. QED
    BY <1>1, <1>3, <2>2, <2>6, Assemble
<1>. QED
  BY <1>8, <1>9

\* The location of a stored cell goes into the proximity table, where there is
\* room for it.
LEMMA PairCellStep ==
  ASSUME IInv, NEW w \in Worker, PairCell(w)
  PROVE  IInv'
<1>. DEFINE l == filled[w][i[w]]
            c == Coarse[KeyOf[Cell(w)]]
            p == StopAt(pht, PHTProbe[c], c)
            old == IF pht[p].key = c THEN pht[p].locations ELSE <<>>
<1>1. Shape' /\ \A v \in Worker \ {w} : SameWorker(v)
  BY Advance DEF IInv, PairCell, Shape, SameWorker
<1>2. WorkerInv(w) /\ WorkerType(w) /\ Shape /\ TableType /\ TableTrue /\ TableLive
  BY DEF IInv, WorkerInv
<1>3. /\ pc[w] = "pairs" /\ with_interp' = with_interp /\ main' = main
      /\ package' = package /\ mapping' = mapping /\ output' = output
      /\ filled' = filled /\ todo' = todo /\ lookup' = lookup
      /\ cache' = cache /\ left' = left
      /\ NextCell(w, "pairs", "done")
  BY DEF PairCell
<1>4. i[w] \in DOMAIN package[w] /\ c \in CoarseKey
  BY <1>2, <1>3, CellType
<1>5. /\ pc'[w] \in {"pairs", "done"}
      /\ i'[w] \in 1 .. Len(package[w])
      /\ pc'[w] = "done" => i'[w] = 1
  BY <1>2, <1>3, LoopOn
<1>6. p \in PHTLoc
  BY <1>4, SearchEnds, TableAssumption
<1>7. filled[w] \in [DOMAIN package[w] -> Loc \cup {NoLoc}]
  BY <1>2, <1>3 DEF WorkerType, Filling
<1>8. TableTrue' /\ StaysOccupied
  BY <1>2, <1>3 DEF TableTrue, DataOf, StaysOccupied
<1>9. TableType' /\ TableLive'
  <2>1. CASE UNCHANGED pht
    BY <1>2, <1>3, <2>1 DEF TableType, TableLive
  <2>2. CASE /\ l # NoLoc /\ Takes(old, l)
             /\ pht' = [pht EXCEPT ![p] = [key |-> c, locations |-> Append(old, l)]]
    <3>1. l \in Loc /\ main[l].key # NoKey
      BY <1>2, <1>3, <1>4, <1>7, <2>2 DEF WorkerInv, WorkerLive, Filling
    <3>. HIDE DEF l, p, c
    <3>2. /\ old \in Seq(Loc) /\ Len(old) < BucketEntries
          /\ \A n \in DOMAIN old : main[old[n]].key # NoKey
      <4>1. /\ pht[p].locations \in Seq(Loc)
            /\ Len(pht[p].locations) <= BucketEntries
            /\ \A n \in DOMAIN pht[p].locations :
                 main[pht[p].locations[n]].key # NoKey
        BY <1>2, <1>6 DEF TableType, TableLive, PHTBucket
      <4>2. CASE pht[p].key = c
        <5>1. old = pht[p].locations
          BY <4>2
        <5>. HIDE DEF old
        <5>2. Len(old) # BucketEntries
          BY <2>2 DEF Takes
        <5>. QED
          BY <4>1, <5>1, <5>2, ModeAssumption
      <4>3. CASE pht[p].key # c
        BY <4>3, ModeAssumption
      <4>. QED
        BY <4>2, <4>3
    <3>. HIDE DEF old
    <3>3. /\ Append(old, l) \in Seq(Loc)
          /\ Len(Append(old, l)) <= BucketEntries
          /\ \A n \in DOMAIN Append(old, l) : main[Append(old, l)[n]].key # NoKey
      <4>1. \A n \in DOMAIN Append(old, l) :
              \/ Append(old, l)[n] = l
              \/ n \in DOMAIN old /\ Append(old, l)[n] = old[n]
        BY <3>1, <3>2
      <4>2. Append(old, l) \in Seq(Loc) /\ Len(Append(old, l)) <= BucketEntries
        BY <3>1, <3>2, ModeAssumption
      <4>. QED
        BY <3>1, <3>2, <4>1, <4>2
    <3>4. TableType'
      BY <1>2, <1>3, <1>4, <1>6, <2>2, <3>3 DEF TableType, PHTBucket
    <3>5. ASSUME NEW q \in PHTLoc
          PROVE  \A n \in DOMAIN pht'[q].locations :
                   main[pht'[q].locations[n]].key # NoKey
      <4>1. CASE q = p
        BY <1>2, <1>6, <2>2, <3>3, <4>1 DEF TableType
      <4>2. CASE q # p
        <5>1. pht'[q] = pht[q]
          BY <1>2, <2>2, <4>2 DEF TableType
        <5>. QED
          BY <1>2, <5>1 DEF TableLive
      <4>. QED
        BY <4>1, <4>2
    <3>. QED
      BY <1>3, <3>4, <3>5 DEF TableLive
  <2>. QED
    BY <2>1, <2>2 DEF PairCell
<1>. HIDE DEF l, p, c, old
<1>10. WorkerType(w)'
  BY <1>2, <1>3, <1>5 DEF WorkerType, Stages, Filling
<1>11. WorkerPairs(w)' /\ WorkerResults(w)' /\ WorkerLive(w)'
  BY <1>2, <1>3, <1>5
     DEF WorkerInv, WorkerPairs, WorkerResults, WorkerLive, Interpolating,
         Filling, Computed
<1>12. WorkerInv(w)'
  BY <1>10, <1>11 DEF WorkerInv
<1>. QED
  BY <1>1, <1>3, <1>8, <1>9, <1>12, Assemble

\* The results have been sent.
LEMMA DoneStep ==
  ASSUME IInv, NEW w \in Worker, Done(w)
  PROVE  IInv'
<1>1. Shape' /\ \A v \in Worker \ {w} : SameWorker(v)
  BY DEF IInv, Done, Shape, SameWorker
<1>2. /\ TableType' /\ TableTrue' /\ TableLive' /\ StaysOccupied
      /\ with_interp' = with_interp
  BY SameTables DEF Done
<1>3. WorkerInv(w) /\ WorkerType(w) /\ Shape
  BY DEF IInv, WorkerInv
<1>4. /\ pc[w] = "done" /\ pc'[w] = "idle" /\ package'[w] = <<>>
      /\ mapping'[w] = <<>> /\ output'[w] = <<>>
      /\ i' = i /\ filled' = filled /\ todo' = todo /\ lookup' = lookup
      /\ cache' = cache /\ left' = left
  BY <1>3 DEF Done, Shape
<1>5. WorkerType(w)'
  BY <1>3, <1>4 DEF WorkerType, Stages, Filling
<1>6. WorkerPairs(w)' /\ WorkerResults(w)' /\ WorkerLive(w)'
  BY <1>2, <1>3, <1>4
     DEF WorkerInv, WorkerType, WorkerPairs, WorkerResults, WorkerLive,
         Interpolating, Filling, Computed
<1>7. WorkerInv(w)'
  BY <1>5, <1>6 DEF WorkerInv
<1>. QED
  BY <1>1, <1>2, <1>7, Assemble

\* An iteration ends, and no worker has a location in hand: both tables can be
\* emptied, but not one of them.
LEMMA PostIterStep ==
  ASSUME IInv, PostIter
  PROVE  IInv'
<1>1. /\ \A w \in Worker : pc[w] = "idle"
      /\ with_interp' = with_interp /\ left' = [w \in Worker |-> MaxPackages]
      /\ pc' = pc /\ package' = package /\ i' = i /\ mapping' = mapping
      /\ output' = output /\ filled' = filled /\ todo' = todo
      /\ lookup' = lookup /\ cache' = cache
  BY DEF PostIter
<1>2. Shape'
  BY <1>1 DEF IInv, Shape
<1>3. TableType' /\ TableTrue' /\ TableLive'
  <2>1. CASE UNCHANGED <<main, pht>>
    BY <1>1, <2>1, SameTables
  <2>2. CASE FlushBoth
    BY <1>1, <2>2, ModeAssumption
       DEF IInv, FlushBoth, TableType, TableTrue, TableLive, Empty, EmptyPHT,
           Bucket, PHTBucket
  <2>. QED
    BY <2>1, <2>2 DEF PostIter
<1>4. ASSUME NEW w \in Worker PROVE WorkerInv(w)'
  <2>1. WorkerInv(w) /\ WorkerType(w) /\ pc[w] = "idle"
    BY <1>1 DEF IInv, WorkerInv
  <2>2. WorkerType(w)'
    <3>1. left'[w] \in 0 .. MaxPackages
      BY <1>1, ModeAssumption
    <3>. QED
      BY <1>1, <2>1, <3>1 DEF WorkerType
  <2>3. WorkerPairs(w)'
    BY <1>1, <2>1 DEF WorkerInv, WorkerPairs, Interpolating, Computed
  <2>4. WorkerResults(w)'
    BY <1>1, <2>1 DEF WorkerType, WorkerResults
  <2>5. WorkerLive(w)'
    <3>1. todo'[w] = <<>> /\ pc'[w] \notin Filling
      BY <1>1, <2>1 DEF WorkerType, Filling
    <3>. QED
      BY <3>1 DEF WorkerLive
  <2>. QED
    BY <2>2, <2>3, <2>4, <2>5 DEF WorkerInv
<1>. QED
  BY <1>2, <1>3, <1>4 DEF IInv
----------------------------------------------------------------------------
(* Theorems                                                                *)

\* The inductive invariant holds in every state of WorkerDoWork on all workers,
\* of writePairs, query and the flush of both tables.
THEOREM Invariant == Spec => []IInv
<1>1. Init => IInv
  BY InitIInv
<1>2. IInv /\ [Next]_vars => IInv'
  <2>. SUFFICES ASSUME IInv, [Next]_vars PROVE IInv'
    OBVIOUS
  <2>1. ASSUME NEW w \in Worker, NEW pkg \in Packages, Receive(w, pkg)
        PROVE  IInv'
    BY <2>1, ReceiveStep
  <2>2. ASSUME NEW w \in Worker, CheckCell(w) PROVE IInv'
    BY <2>2, CheckCellStep
  <2>3. ASSUME NEW w \in Worker, SkipCell(w) PROVE IInv'
    BY <2>3, SkipCellStep
  <2>4. ASSUME NEW w \in Worker, QueryCached(w) PROVE IInv'
    BY <2>4, QueryCachedStep
  <2>5. ASSUME NEW w \in Worker, QueryPHT(w) PROVE IInv'
    BY <2>5, QueryPHTStep
  <2>6. ASSUME NEW w \in Worker, Gather(w) PROVE IInv'
    BY <2>6, GatherStep
  <2>7. ASSUME NEW w \in Worker, Interpolate(w) PROVE IInv'
    BY <2>7, InterpolateStep
  <2>8. ASSUME NEW w \in Worker, Run(w) PROVE IInv'
    BY <2>8, RunStep
  <2>9. ASSUME NEW w \in Worker, FillCell(w) PROVE IInv'
    BY <2>9, FillCellStep
  <2>10. ASSUME NEW w \in Worker, PairCell(w) PROVE IInv'
    BY <2>10, PairCellStep
  <2>11. ASSUME NEW w \in Worker, Done(w) PROVE IInv'
    BY <2>11, DoneStep
  <2>12. CASE PostIter
    BY <2>12, PostIterStep
  <2>13. CASE UNCHANGED vars
    <3>1. TableType' /\ TableTrue' /\ TableLive' /\ StaysOccupied
      BY <2>13, SameTables DEF vars
    <3>2. Shape'
      BY <2>13 DEF vars, IInv, Shape
    <3>3. ASSUME NEW w \in Worker PROVE WorkerInv(w)'
      <4>1. SameWorker(w) /\ with_interp' = with_interp
        BY <2>13 DEF vars, SameWorker
      <4>. QED
        BY <3>1, <4>1, Others DEF IInv
    <3>. QED
      BY <3>1, <3>2, <3>3 DEF IInv
  <2>. QED
    BY <2>1, <2>2, <2>3, <2>4, <2>5, <2>6, <2>7, <2>8, <2>9, <2>10, <2>11,
       <2>12, <2>13 DEF Next
<1>. QED
  BY <1>1, <1>2, PTL DEF Spec

\* The variables have the values that the runs check, whatever the tables and
\* packages are.
THEOREM TypeCorrect == Spec => []TypeOK
<1>1. IInv => TypeOK
  <2>. SUFFICES ASSUME IInv PROVE TypeOK
    OBVIOUS
  <2>1. /\ with_interp \in Modes
        /\ \A l \in Loc : main[l].key \in Key \cup {NoKey}
    BY DEF IInv, TableType, Bucket
  <2>2. ASSUME NEW p \in PHTLoc
        PROVE  /\ pht[p].key \in CoarseKey \cup {NoKey}
               /\ Len(pht[p].locations) <= BucketEntries
               /\ \A n \in DOMAIN pht[p].locations : pht[p].locations[n] \in Loc
    BY DEF IInv, TableType, PHTBucket
  <2>3. ASSUME NEW w \in Worker
        PROVE  /\ pc[w] \in Stages
               /\ package[w] \in Packages \cup {<<>>}
               /\ i[w] \in 1 .. Len(package[w]) \/ (i[w] = 1 /\ pc[w] = "idle")
               /\ DOMAIN mapping[w] = DOMAIN package[w]
               /\ DOMAIN output[w] = DOMAIN package[w]
               /\ \A n \in DOMAIN mapping[w] :
                    mapping[w][n] \in {"PQC", "DHT", "INTERP"}
               /\ \A n \in DOMAIN filled[w] : filled[w][n] \in Loc \cup {NoLoc}
               /\ todo[w] # <<>> <=> pc[w] = "gather"
               /\ left[w] \in 0 .. MaxPackages
    <3>1. WorkerType(w)
      BY DEF IInv, WorkerInv
    <3>2. pc[w] # "idle" => 1 \in 1 .. Len(package[w])
      BY <3>1, ModeAssumption DEF WorkerType
    <3>. QED
      BY <3>1, <3>2 DEF WorkerType
  <2>. QED
    BY <2>1, <2>2, <2>3 DEF TypeOK, Stages
<1>. QED
  BY <1>1, Invariant, PTL

\* No approximation is stored: an entry of the main table is what Phreeqc
\* computed for an input of its key that fillDHT lets in.
THEOREM OnlyComputedStored == Spec => []TableTrue
<1>1. IInv => TableTrue
  BY DEF IInv
<1>. QED
  BY <1>1, Invariant, PTL

\* A location in the proximity table, or read from it, leads to an occupied
\* bucket of the main table, across evictions and flushes.
THEOREM LocationsOccupied == Spec => []LocationsLive
<1>1. IInv => LocationsLive
  BY DEF IInv, WorkerInv, WorkerLive, TableLive, LocationsLive
<1>. QED
  BY <1>1, Invariant, PTL

\* Interpolation mixes pairs that Phreeqc computed, and the local cache keeps
\* no others, although it outlives the tables.
THEOREM PairsComputed == Spec => []PairsTrue
<1>1. IInv => PairsTrue
  BY DEF IInv, WorkerInv, WorkerPairs, Computed, PairsTrue
<1>. QED
  BY <1>1, Invariant, PTL

\* Once WorkerRunWorkPackage is through every cell has a result, and one that
\* was left to it has its own.
THEOREM AllComputed == Spec => []ComputedExact
<1>1. IInv => ComputedExact
  <2>. SUFFICES ASSUME IInv, NEW w \in Worker, pc[w] \in {"fill", "pairs", "done"},
                       NEW n \in DOMAIN package[w]
                PROVE  /\ output[w][n] # NoOutput
                       /\ mapping[w][n] = "PQC" => output[w][n] = Pqc[package[w][n]]
    BY DEF ComputedExact
  <2>1. WorkerType(w) /\ WorkerResults(w)
    BY DEF IInv, WorkerInv
  <2>2. package[w] \in Packages
    BY <2>1 DEF WorkerType
  <2>3. package[w] \in Seq(Input)
    BY <2>2, ModeAssumption
  <2>4. Pqc[package[w][n]] \in Int
    <3>1. n \in 1 .. Len(package[w])
      BY <2>3
    <3>2. package[w][n] \in Input
      BY <2>3, <3>1
    <3>. QED
      BY <3>2, ModeAssumption
  <2>. QED
    BY <2>1, <2>4, ModeAssumption DEF WorkerResults
<1>. QED
  BY <1>1, Invariant, PTL

\* Without interpolation a hit of checkDHT gives a cell what Phreeqc computed
\* for a cell of the same key.
THEOREM PlainHits == Spec => []PlainHitsComputed
<1>1. IInv => PlainHitsComputed
  BY DEF IInv, WorkerInv, WorkerResults, PlainHitsComputed, HitsComputed
<1>. QED
  BY <1>1, Invariant, PTL
=============================================================================
