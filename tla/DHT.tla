-------------------------------- MODULE DHT --------------------------------
(***************************************************************************)
(* The distributed hash table of DHT.c and the loop of workers around it.  *)
(*                                                                         *)
(* Every worker of the communicator hosts one MPI window of TableSize      *)
(* buckets and reaches the windows of all of them with one-sided calls.  A *)
(* key has one destination rank and IndexCount candidate buckets there; a  *)
(* call locks the window, looks at the candidates in order, one MPI_Get    *)
(* each, and ends with an unlock.  At the end of an iteration the workers  *)
(* dump the table, compare their mean probe counts and wipe it when        *)
(* probing has become too long.                                            *)
(*                                                                         *)
(* A bucket is its flag byte and key (bkey, NoKey when the flag is clear)  *)
(* and its data (bdata).  An MPI_Put is complete only at the unlock of its *)
(* epoch: until then what another rank would read from the bucket is       *)
(* undefined, see Seen.                                                    *)
(***************************************************************************)
EXTENDS Integers, FiniteSets

CONSTANTS CommSize,    \* ranks of the workers' communicator
          TableSize,   \* buckets per rank
          IndexCount,  \* candidate buckets per key
          Key, NoKey,
          Data, NoData,
          Input,       \* the data that callers pass to a write
          Dest,        \* destination rank of a key    (determine_dest)
          Probe,       \* its candidate buckets there  (determine_dest)
          Merge,       \* accumulate_callback: the new data, or Reject
          Reject,
          Absent,
          Kinds,       \* the calls this table receives
          OwnFactor,   \* the flush follows this table's own probe counts
          Snapshots,   \* the table is dumped after each iteration
          MaxCalls,    \* bound: calls of a worker in one iteration
          MaxWrites    \* bound: writes of a worker between two resets

Rank  == 0 .. CommSize - 1
Index == 0 .. TableSize - 1
Loc   == Rank \X Index

ASSUME SizeAssumption ==
  /\ CommSize \in Nat \ {0}
  /\ TableSize \in Nat \ {0}
  /\ IndexCount \in Nat \ {0}
  /\ MaxCalls \in Nat
  /\ MaxWrites \in Nat

ASSUME HashAssumption ==
  /\ Dest \in [Key -> Rank]
  /\ Probe \in [Key -> [1 .. IndexCount -> Index]]

ASSUME DataAssumption ==
  /\ NoKey \notin Key
  /\ NoData \in Data
  /\ Input \subseteq Data
  /\ Reject \notin Data
  /\ Absent \notin Data
  /\ Merge \in [Data -> [Data -> Data \cup {Reject}]]

ASSUME ModeAssumption ==
  /\ Kinds \subseteq {"read", "write", "accumulate", "location"}
  /\ OwnFactor \in BOOLEAN
  /\ Snapshots \in BOOLEAN

VARIABLES bkey, bdata,   \* the buckets of all windows
          pc,            \* where each rank is in its call
          req,           \* the arguments of the call
          idx,           \* i of the probe loop, from 1
          at,            \* the bucket it looks at: rank and index
          send,          \* the data half of send_entry
          reply,         \* the result of the call
          phase,         \* where each rank is in the iteration
          calls,         \* calls left to it in this iteration
          sum_idx, cnt_idx,  \* probes and writes since the last reset
          rows           \* the entries in the dump file

tableVars == <<bkey, bdata>>
callVars  == <<pc, req, idx, at, send, reply, calls>>
countVars == <<sum_idx, cnt_idx>>
vars == <<bkey, bdata, pc, req, idx, at, send, reply, phase, calls,
          sum_idx, cnt_idx, rows>>

NoRequest == [kind |-> "none", key |-> NoKey, data |-> NoData]
NoReply   == [status |-> "none", data |-> NoData]

Keyed == {"read", "write", "accumulate"}

\* Only a read by location comes without a key.
Requests == [kind : Keyed, key : Key, data : Data]
              \cup [kind : {"none", "location"}, key : {NoKey}, data : Data]

\* The p-th candidate of key k.
Slot(k, p) == <<Dest[k], Probe[k][p]>>

Locations == {l \in Loc : bkey[l] # NoKey}
----------------------------------------------------------------------------
(* Window locks                                                            *)

Writes(w) == req[w].kind \in {"write", "accumulate"}

\* w is inside the epoch it opened on the window of rank at[w][1].
Holding(w) == pc[w] \in {"probe", "put", "unlock"}

\* Mutant: only an accumulating write locks exclusively.
WriteShared(w) == req[w].kind = "accumulate"

\* MPI_LOCK_EXCLUSIVE for the writing calls, MPI_LOCK_SHARED for the others.
Exclusive(w) == Writes(w)

Compatible(w, v) == ~Exclusive(w) /\ ~Exclusive(v)

LockFree(w) ==
  \A v \in Rank \ {w} :
    Holding(v) /\ at[v][1] = at[w][1] => Compatible(w, v)

\* The bucket an unfinished MPI_Put is still writing.
InFlight(w, l) ==
  /\ pc[w] = "unlock"
  /\ reply[w].status \in {"success", "eviction"}
  /\ at[w] = l

\* What w can get from bucket l.  A Get that overlaps a Put of another rank
\* may return anything.
Seen(w, l) ==
  IF \E v \in Rank \ {w} : InFlight(v, l)
  THEN [key : Key \cup {NoKey}, data : Data]
  ELSE {[key |-> bkey[l], data |-> bdata[l]]}
----------------------------------------------------------------------------
Init ==
  /\ bkey = [l \in Loc |-> NoKey]
  /\ bdata = [l \in Loc |-> NoData]
  /\ pc = [w \in Rank |-> "idle"]
  /\ req = [w \in Rank |-> NoRequest]
  /\ idx = [w \in Rank |-> 1]
  /\ at = [w \in Rank |-> <<0, 0>>]
  /\ send = [w \in Rank |-> NoData]
  /\ reply = [w \in Rank |-> NoReply]
  /\ phase = [w \in Rank |-> "loop"]
  /\ calls = [w \in Rank |-> MaxCalls]
  /\ sum_idx = [w \in Rank |-> 0]
  /\ cnt_idx = [w \in Rank |-> 0]
  /\ rows = {}

\* Entry of a call: the destination and the candidates are computed and the
\* window lock is requested.
Enter(w, kind, k, d, l) ==
  /\ kind \in Kinds
  /\ phase[w] = "loop"
  /\ pc[w] = "idle"
  /\ calls[w] > 0
  /\ calls' = [calls EXCEPT ![w] = @ - 1]
  /\ pc' = [pc EXCEPT ![w] = "lock"]
  /\ req' = [req EXCEPT ![w] = [kind |-> kind, key |-> k, data |-> d]]
  /\ idx' = [idx EXCEPT ![w] = 1]
  /\ at' = [at EXCEPT ![w] = l]
  /\ UNCHANGED <<tableVars, send, reply, phase, countVars, rows>>

CallRead(w, k) == Enter(w, "read", k, NoData, Slot(k, 1))

CallWrite(w, kind, k, d) ==
  /\ kind \in {"write", "accumulate"}
  /\ cnt_idx[w] < MaxWrites
  /\ Enter(w, kind, k, d, Slot(k, 1))

\* Callers have the locations from earlier writes.
CallLocation(w, l) ==
  /\ l \in {Slot(k, p) : k \in Key, p \in 1 .. IndexCount}
  /\ Enter(w, "location", NoKey, NoData, l)

WinLock(w) ==
  /\ pc[w] = "lock"
  /\ LockFree(w)
  /\ pc' = [pc EXCEPT ![w] = "probe"]
  /\ UNCHANGED <<tableVars, req, idx, at, send, reply, phase, calls,
                 countVars, rows>>

\* Mutant: the loop counter is not advanced.
ProbeSame(w) ==
  /\ pc[w] = "probe"
  /\ req[w].kind \in Keyed
  /\ idx[w] < IndexCount
  /\ \E seen \in Seen(w, at[w]) : seen.key \notin {NoKey, req[w].key}
  /\ UNCHANGED vars

\* The candidate holds another key and is not the last one: look at the next.
ProbeNext(w) ==
  /\ pc[w] = "probe"
  /\ req[w].kind \in Keyed
  /\ idx[w] < IndexCount
  /\ \E seen \in Seen(w, at[w]) : seen.key \notin {NoKey, req[w].key}
  /\ idx' = [idx EXCEPT ![w] = @ + 1]
  /\ at' = [at EXCEPT ![w] = Slot(req[w].key, idx[w] + 1)]
  /\ UNCHANGED <<tableVars, pc, req, send, reply, phase, calls, countVars,
                 rows>>

Finish(w, status, d) ==
  /\ pc' = [pc EXCEPT ![w] = "unlock"]
  /\ reply' = [reply EXCEPT ![w] = [status |-> status, data |-> d]]

ReadHit(w) ==
  /\ pc[w] = "probe"
  /\ req[w].kind = "read"
  /\ \E seen \in Seen(w, at[w]) :
       /\ seen.key = req[w].key
       /\ Finish(w, "hit", seen.data)
  /\ UNCHANGED <<tableVars, req, idx, at, send, phase, calls, countVars, rows>>

\* An empty candidate, or another key in the last one.
ReadMiss(w) ==
  /\ pc[w] = "probe"
  /\ req[w].kind = "read"
  /\ \E seen \in Seen(w, at[w]) :
       /\ seen.key # req[w].key
       /\ seen.key = NoKey \/ idx[w] = IndexCount
  /\ Finish(w, "miss", NoData)
  /\ UNCHANGED <<tableVars, req, idx, at, send, phase, calls, countVars, rows>>

\* DHT_read_location looks at one bucket and compares no key.
LocationGet(w) ==
  /\ pc[w] = "probe"
  /\ req[w].kind = "location"
  /\ \E seen \in Seen(w, at[w]) : Finish(w, "data", seen.data)
  /\ UNCHANGED <<tableVars, req, idx, at, send, phase, calls, countVars, rows>>

\* Mutant: the callback gets the evicted data instead of zeros.
EntryUncleared(w, seen, evicts) ==
  IF req[w].kind = "write" THEN req[w].data
  ELSE Merge[seen.data][req[w].data]

\* The data an accumulating write is called back with: what it found, zeros
\* when it evicts.
Entry(w, seen, evicts) ==
  IF req[w].kind = "write" THEN req[w].data
  ELSE Merge[IF evicts THEN NoData ELSE seen.data][req[w].data]

\* Mutant: an eviction is not reported.
PutStatusPlain(evicts) == "success"

\* The return value, DHT_SUCCESS or DHT_WRITE_SUCCESS_WITH_EVICTION.
PutStatus(evicts) == IF evicts THEN "eviction" ELSE "success"

\* The probe loop of a write ends at a candidate that is empty, holds the key,
\* or is the last one: there it evicts.  The callback may decline.
WriteStop(w) ==
  /\ pc[w] = "probe"
  /\ Writes(w)
  /\ \E seen \in Seen(w, at[w]) :
       LET evicts == seen.key \notin {NoKey, req[w].key}
           new == Entry(w, seen, evicts)
       IN  /\ evicts => idx[w] = IndexCount
           /\ IF new = Reject
              THEN Finish(w, "rejected", NoData) /\ UNCHANGED send
              ELSE /\ send' = [send EXCEPT ![w] = new]
                   /\ reply' = [reply EXCEPT ![w] =
                        [status |-> PutStatus(evicts), data |-> NoData]]
                   /\ pc' = [pc EXCEPT ![w] = "put"]
  /\ cnt_idx' = [cnt_idx EXCEPT ![w] = @ + 1]
  /\ sum_idx' = [sum_idx EXCEPT ![w] = @ + idx[w]]
  /\ UNCHANGED <<tableVars, req, idx, at, phase, calls, rows>>

Put(w) ==
  /\ pc[w] = "put"
  /\ bkey' = [bkey EXCEPT ![at[w]] = req[w].key]
  /\ bdata' = [bdata EXCEPT ![at[w]] = send[w]]
  /\ pc' = [pc EXCEPT ![w] = "unlock"]
  /\ UNCHANGED <<req, idx, at, send, reply, phase, calls, countVars, rows>>

\* The epoch ends and the call returns; its locals go out of scope.
Unlock(w) ==
  /\ pc[w] = "unlock"
  /\ pc' = [pc EXCEPT ![w] = "idle"]
  /\ req' = [req EXCEPT ![w] = NoRequest]
  /\ idx' = [idx EXCEPT ![w] = 1]
  /\ at' = [at EXCEPT ![w] = <<0, 0>>]
  /\ send' = [send EXCEPT ![w] = NoData]
  /\ reply' = [reply EXCEPT ![w] = NoReply]
  /\ UNCHANGED <<tableVars, phase, calls, countVars, rows>>
----------------------------------------------------------------------------
(* The end of an iteration                                                 *)

\* LOOP_END reaches a worker that is in no call: WorkerPostIter.
PostIter(w) ==
  /\ phase[w] = "loop"
  /\ pc[w] = "idle"
  /\ phase' = [phase EXCEPT ![w] = IF Snapshots THEN "dump" ELSE "reduce"]
  /\ UNCHANGED <<tableVars, callVars, countVars, rows>>

\* Mutant: no barrier before the windows are read.
DumpAtOnce == TRUE

DumpBarrier == \A v \in Rank : phase[v] \in {"dump", "dumped"}

\* Mutant: the flag is not looked at.
AllBuckets(w) == {l \in Loc : l[1] = w}

Occupied(w) == {l \in Locations : l[1] = w}

\* DHT_to_file: behind its first barrier a rank writes its occupied buckets,
\* reading its own memory without a lock.
WriteRows(w) ==
  /\ phase[w] = "dump"
  /\ DumpBarrier
  /\ rows' = rows \cup {<<bkey[l], bdata[l]>> : l \in Occupied(w)}
  /\ phase' = [phase EXCEPT ![w] = "dumped"]
  /\ UNCHANGED <<tableVars, callVars, countVars>>

\* The second barrier of DHT_to_file.
LeaveDump(w) ==
  /\ phase[w] = "dumped"
  /\ \A v \in Rank : phase[v] \in {"dumped", "reduce"}
  /\ phase' = [phase EXCEPT ![w] = "reduce"]
  /\ UNCHANGED <<tableVars, callVars, countVars, rows>>

\* A rank without writes contributes 0/0, a NaN, and MPI_MAX over a NaN may
\* yield any of the contributions.
MeanAtLeast2(w) == cnt_idx[w] > 0 /\ sum_idx[w] >= 2 * cnt_idx[w]

FlushDecisions ==
  IF ~OwnFactor THEN BOOLEAN
  ELSE IF \E w \in Rank : MeanAtLeast2(w)
       THEN {TRUE} \cup {b \in {FALSE} : \E w \in Rank : cnt_idx[w] = 0}
       ELSE {FALSE}

\* Mutant: the factor is not broadcast, only rank 0 sees it.
FactorAtRoot ==
  /\ \A w \in Rank : phase[w] = "reduce"
  /\ \E flush \in FlushDecisions :
       phase' = [w \in Rank |-> IF flush /\ w = 0 THEN "flush" ELSE "end"]
  /\ UNCHANGED <<tableVars, callVars, countVars, rows>>

\* DHT_get_used_idx_factor is collective (MPI_Reduce and MPI_Bcast): all ranks
\* learn the same factor.  Both tables are wiped on the factor of the PHT.
UsedIdxFactor ==
  /\ \A w \in Rank : phase[w] = "reduce"
  /\ \E flush \in FlushDecisions :
       phase' = [w \in Rank |-> IF flush THEN "flush" ELSE "end"]
  /\ IF OwnFactor
     THEN /\ sum_idx' = [w \in Rank |-> 0]
          /\ cnt_idx' = [w \in Rank |-> 0]
     ELSE UNCHANGED countVars
  /\ UNCHANGED <<tableVars, callVars, rows>>

\* DHT_flush: behind its barrier each rank zeroes its own window, no lock held.
Wipe(w) ==
  /\ phase[w] = "flush"
  /\ \A v \in Rank : phase[v] \in {"flush", "flushed"}
  /\ bkey' = [l \in Loc |-> IF l[1] = w THEN NoKey ELSE bkey[l]]
  /\ bdata' = [l \in Loc |-> IF l[1] = w THEN NoData ELSE bdata[l]]
  /\ sum_idx' = [sum_idx EXCEPT ![w] = 0]
  /\ cnt_idx' = [cnt_idx EXCEPT ![w] = 0]
  /\ phase' = [phase EXCEPT ![w] = "flushed"]
  /\ UNCHANGED <<callVars, rows>>

\* Mutant: a rank starts the next iteration without waiting for the others.
LoopAtOnce ==
  \E w \in Rank :
    /\ phase[w] \in {"flushed", "end"}
    /\ phase' = [phase EXCEPT ![w] = "loop"]
    /\ calls' = [calls EXCEPT ![w] = MaxCalls]
    /\ rows' = {}
    /\ UNCHANGED <<tableVars, pc, req, idx, at, send, reply, countVars>>

\* The barrier at the head of WorkerProcessPkgs: the next iteration starts.
LoopBarrier ==
  /\ \A w \in Rank : phase[w] \in {"flushed", "end"}
  /\ phase' = [w \in Rank |-> "loop"]
  /\ calls' = [w \in Rank |-> MaxCalls]
  /\ rows' = {}
  /\ UNCHANGED <<tableVars, pc, req, idx, at, send, reply, countVars>>
----------------------------------------------------------------------------
Step(w) ==
  \/ ProbeNext(w) \/ ReadHit(w) \/ ReadMiss(w) \/ LocationGet(w)
  \/ WriteStop(w) \/ Put(w) \/ Unlock(w)

Next ==
  \/ \E w \in Rank :
       \/ \E k \in Key : CallRead(w, k)
       \/ \E k \in Key, d \in Input, kind \in {"write", "accumulate"} :
            CallWrite(w, kind, k, d)
       \/ \E l \in Loc : CallLocation(w, l)
       \/ WinLock(w)
       \/ Step(w)
       \/ PostIter(w) \/ WriteRows(w) \/ LeaveDump(w) \/ Wipe(w)
  \/ UsedIdxFactor
  \/ LoopBarrier

Spec == Init /\ [][Next]_vars

\* MPI completes an access inside a granted epoch and queues lock requests, so
\* a request is not passed over for ever; collectives complete once all ranks
\* have entered them; the master ends every iteration.
Fairness ==
  /\ \A w \in Rank :
       /\ SF_vars(WinLock(w))
       /\ WF_vars(Step(w))
       /\ WF_vars(PostIter(w))
       /\ WF_vars(WriteRows(w))
       /\ WF_vars(LeaveDump(w))
       /\ WF_vars(Wipe(w))
  /\ WF_vars(UsedIdxFactor)
  /\ WF_vars(LoopBarrier)

FairSpec == Spec /\ Fairness
----------------------------------------------------------------------------
(* Properties                                                              *)

\* The values the variables can take.
TypeOK ==
  /\ bkey \in [Loc -> Key \cup {NoKey}]
  /\ bdata \in [Loc -> Data]
  /\ pc \in [Rank -> {"idle", "lock", "probe", "put", "unlock"}]
  /\ req \in [Rank -> Requests]
  /\ idx \in [Rank -> 1 .. IndexCount]
  /\ at \in [Rank -> Loc]
  /\ send \in [Rank -> Data]
  /\ reply \in [Rank -> [status : {"none", "hit", "miss", "data", "success",
                                   "eviction", "rejected"},
                         data : Data]]
  /\ phase \in [Rank -> {"loop", "dump", "dumped", "reduce", "flush", "flushed", "end"}]
  /\ calls \in [Rank -> 0 .. MaxCalls]
  /\ sum_idx \in [Rank -> Nat]
  /\ cnt_idx \in [Rank -> Nat]
  /\ rows \in SUBSET (Key \X Data)

\* The probe loops of DHT_read and DHT_write stop at the first empty candidate,
\* so every stored key must sit at one of its candidates with no gap and no
\* second copy before it: concurrent writers, evictions and partial flushes
\* never break the chain that leads to an entry.
ChainTo(l, k) ==
  \E p \in 1 .. IndexCount :
    /\ Slot(k, p) = l
    /\ \A q \in 1 .. p - 1 :
         Slot(k, q) = l \/ bkey[Slot(k, q)] \notin {NoKey, k}

ProbeChain == \A l \in Locations : ChainTo(l, bkey[l])

\* A key is in at most one bucket of one rank: two workers that write the same
\* new key at the same time do not leave two entries, of which a later
\* overwrite would refresh only one.
NoDuplicateKey ==
  \A l, m \in Locations : bkey[l] = bkey[m] => l = m

\* No rank is inside a call on the table while some rank is still to wipe its
\* window in DHT_flush (which has a barrier before the memset and none after).
NoCallDuringFlush ==
  (\E w \in Rank : phase[w] \in {"flush", "flushed", "end"}) =>
     \A v \in Rank : pc[v] = "idle"

\* The mapping to LossyCache.
HomeOf(k) == CHOOSE l \in Loc : bkey[l] = k

Stored(k) == IF \E l \in Loc : bkey[l] = k THEN bdata[HomeOf(k)] ELSE Absent

\* The result variable of a write is visible once the entry is.
Answered(w) == IF pc[w] = "put" THEN NoReply ELSE reply[w]

Cache == INSTANCE LossyCache
           WITH Worker <- Rank,
                store <- [k \in Key |-> Stored(k)],
                request <- req,
                reply <- [w \in Rank |-> Answered(w)]

\* The table implements the cache that forgets but never lies: reads return
\* what the last write of their key stored, a miss means the key is absent, and
\* a write costs at most one other key and reports it.
ImplementsCache == Cache!Spec

\* The dump of an iteration holds exactly the table's entries, each complete:
\* DHT_to_file reads the windows without a lock while other ranks may still
\* be in their last write.
DumpComplete ==
  (\A w \in Rank : phase[w] \in {"dumped", "reduce"}) /\ Snapshots =>
     rows = {<<k, Stored(k)>> : k \in {x \in Key : Stored(x) # Absent}}

\* Every call on the table returns, however the ranks contend for the windows.
CallsReturn == \A w \in Rank : pc[w] = "lock" ~> pc[w] = "idle"

\* Once one worker has left the work loop, all of them get through the
\* collectives of the iteration's end and start the next iteration.
IterationEnds == \A w \in Rank : phase[w] # "loop" ~> phase[w] = "loop"
----------------------------------------------------------------------------
(* The inductive invariant                                                 *)

\* Between two ranks inside an epoch on the same window, neither writes.
LockInv ==
  \A v, w \in Rank :
    v # w /\ Holding(v) /\ Holding(w) /\ at[v][1] = at[w][1] => Compatible(v, w)

\* What the locals of a call are at each of its stages.
CallInv(w) ==
  /\ pc[w] = "idle" <=> req[w].kind = "none"
  /\ pc[w] = "idle" => req[w] = NoRequest
  /\ pc[w] \in {"idle", "lock", "probe"} => reply[w] = NoReply
  /\ pc[w] \in {"put", "unlock"} => reply[w].status # "none"
  /\ reply[w].status \in {"success", "eviction", "rejected"} => Writes(w)
  /\ pc[w] = "put" => reply[w].status \in {"success", "eviction"}
  /\ req[w].kind \in Keyed => at[w] = Slot(req[w].key, idx[w])
  /\ pc[w] = "lock" => idx[w] = 1

\* The candidates that a searching call has passed hold other keys.
SearchInv(w) ==
  req[w].kind \in Keyed /\ pc[w] \in {"probe", "put"} =>
    \A q \in 1 .. idx[w] - 1 :
      bkey[Slot(req[w].key, q)] \notin {NoKey, req[w].key}

\* Where a write stopped, and with what data, before its Put.
StopInv(w) ==
  pc[w] = "put" =>
    /\ reply[w].data = NoData
    /\ send[w] # Reject
    /\ reply[w].status = "success" =>
         /\ bkey[at[w]] \in {NoKey, req[w].key}
         /\ send[w] = IF req[w].kind = "write" THEN req[w].data
                      ELSE Merge[bdata[at[w]]][req[w].data]
    /\ reply[w].status = "eviction" =>
         /\ bkey[at[w]] \notin {NoKey, req[w].key}
         /\ idx[w] = IndexCount
         /\ send[w] = IF req[w].kind = "write" THEN req[w].data
                      ELSE Merge[NoData][req[w].data]

\* How far apart the ranks can be in an iteration.
PhaseInv ==
  /\ \A w \in Rank : pc[w] # "idle" => phase[w] = "loop"
  /\ \A v, w \in Rank :
       /\ phase[w] \in {"flush", "flushed", "end"} => phase[v] \in {"flush", "flushed", "end"}
       /\ phase[w] = "dumped" => phase[v] \in {"dump", "dumped", "reduce"}
       /\ Snapshots /\ phase[w] = "reduce" => phase[v] \in {"dumped", "reduce"}
       /\ ~Snapshots => phase[w] \notin {"dump", "dumped"}

\* A clear flag comes with zeroed data.
EmptyInv == \A l \in Loc : bkey[l] = NoKey => bdata[l] = NoData

\* The file holds the windows of the ranks that have written theirs.
RowsInv ==
  Snapshots /\ (\A w \in Rank : phase[w] \notin {"flush", "flushed", "end"}) =>
    rows = {<<bkey[l], bdata[l]>> :
              l \in {m \in Locations : phase[m[1]] \in {"dumped", "reduce"}}}

ControlInv ==
  /\ TypeOK
  /\ LockInv
  /\ \A w \in Rank : CallInv(w)
  /\ PhaseInv

TableInv ==
  /\ \A w \in Rank : SearchInv(w) /\ StopInv(w)
  /\ EmptyInv
  /\ ProbeChain

IInv == ControlInv /\ TableInv
=============================================================================
