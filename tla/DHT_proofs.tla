----------------------------- MODULE DHT_proofs -----------------------------
(***************************************************************************)
(* Theorems about modules DHT and DHTFile, for every number of ranks,      *)
(* table size, number of candidates, set of keys and hash function.  The   *)
(* first part is about the table, the second shows that the same holds     *)
(* across restarts, and that what a run reads back is what the run before  *)
(* it had stored, up to evictions.                                         *)
(***************************************************************************)
EXTENDS DHTFile, FiniteSetTheorems, TLAPS

\* A candidate of a key is a bucket of the key's destination rank.
LEMMA SlotType ==
  ASSUME NEW k \in Key, NEW p \in 1 .. IndexCount
  PROVE  Slot(k, p) \in Loc /\ Slot(k, p)[1] = Dest[k]
BY HashAssumption DEF Slot, Loc

\* What a rank gets from a bucket is a key, or none, with some data.
LEMMA SeenType ==
  ASSUME TypeOK, NEW w \in Rank, NEW l \in Loc, NEW seen \in Seen(w, l)
  PROVE  seen.key \in Key \cup {NoKey} /\ seen.data \in Data
<1>1. CASE \E v \in Rank \ {w} : InFlight(v, l)
  BY <1>1 DEF Seen
<1>2. CASE ~ \E v \in Rank \ {w} : InFlight(v, l)
  <2>1. seen = [key |-> bkey[l], data |-> bdata[l]]
    BY <1>2 DEF Seen
  <2>. QED
    BY <2>1 DEF TypeOK
<1>. QED
  BY <1>1, <1>2
\* The next candidate exists.
LEMMA ProbeNextType ==
  ASSUME TypeOK, NEW w \in Rank, ProbeNext(w)
  PROVE  /\ req[w].key \in Key
         /\ idx[w] \in 1 .. IndexCount
         /\ idx[w] + 1 \in 1 .. IndexCount
<1>1. req[w].key \in Key
  BY DEF ProbeNext, TypeOK, Requests, Keyed
<1>2. idx[w] \in 1 .. IndexCount /\ idx[w] < IndexCount
  BY DEF ProbeNext, TypeOK
<1>. QED
  BY <1>1, <1>2, SizeAssumption

\* All four calls enter the same way.
LEMMA CallEnters ==
  ASSUME NEW w \in Rank,
         \/ \E k \in Key : CallRead(w, k)
         \/ \E k \in Key, d \in Input, kind \in {"write", "accumulate"} :
              CallWrite(w, kind, k, d)
         \/ \E l \in Loc : CallLocation(w, l)
  PROVE  \E kind \in Kinds, k \in Key \cup {NoKey}, d \in Data, l \in Loc :
           /\ Enter(w, kind, k, d, l)
           /\ IF kind = "location" THEN k = NoKey ELSE k \in Key
           /\ kind \in Keyed => l = Slot(k, 1)
<1>1. 1 \in 1 .. IndexCount
  BY SizeAssumption
<1>2. ASSUME NEW kind, NEW k, NEW d, NEW l, Enter(w, kind, k, d, l)
      PROVE  kind \in Kinds
  BY <1>2 DEF Enter
<1>3. ASSUME NEW k \in Key, CallRead(w, k)
      PROVE  Enter(w, "read", k, NoData, Slot(k, 1)) /\ Slot(k, 1) \in Loc
  BY <1>1, <1>3, SlotType DEF CallRead
<1>4. ASSUME NEW k \in Key, NEW d \in Input, NEW kind \in {"write", "accumulate"},
             CallWrite(w, kind, k, d)
      PROVE  Enter(w, kind, k, d, Slot(k, 1)) /\ Slot(k, 1) \in Loc
  BY <1>1, <1>4, SlotType DEF CallWrite
<1>5. ASSUME NEW l \in Loc, CallLocation(w, l)
      PROVE  Enter(w, "location", NoKey, NoData, l)
  BY <1>5 DEF CallLocation
<1>. QED
  BY <1>2, <1>3, <1>4, <1>5, DataAssumption DEF Keyed
----------------------------------------------------------------------------
(* Type correctness                                                        *)

LEMMA InitType == Init => TypeOK
<1>. SUFFICES ASSUME Init PROVE TypeOK
  OBVIOUS
<1>1. <<0, 0>> \in Loc
  BY SizeAssumption DEF Loc, Rank, Index
<1>2. NoRequest \in Requests
  BY DataAssumption DEF NoRequest, Requests
<1>. QED
  BY <1>1, <1>2, SizeAssumption, DataAssumption DEF Init, TypeOK, NoReply

LEMMA EnterType ==
  ASSUME TypeOK, NEW w \in Rank, NEW kind, NEW k \in Key \cup {NoKey},
         NEW d \in Data, NEW l \in Loc, Enter(w, kind, k, d, l),
         IF kind = "location" THEN k = NoKey ELSE k \in Key
  PROVE  TypeOK'
BY SizeAssumption, ModeAssumption DEF TypeOK, Enter, Requests, Keyed, tableVars, countVars

LEMMA CallType ==
  ASSUME TypeOK, NEW w \in Rank,
         \/ \E k \in Key : CallRead(w, k)
         \/ \E k \in Key, d \in Input, kind \in {"write", "accumulate"} :
              CallWrite(w, kind, k, d)
         \/ \E l \in Loc : CallLocation(w, l)
  PROVE  TypeOK'
BY CallEnters, EnterType

LEMMA NextType == TypeOK /\ [Next]_vars => TypeOK'
<1>. SUFFICES ASSUME TypeOK, [Next]_vars PROVE TypeOK'
  OBVIOUS
<1>. USE DEF tableVars, callVars, countVars
<1>1. ASSUME NEW w \in Rank, WinLock(w) PROVE TypeOK'
  BY <1>1 DEF TypeOK, WinLock
<1>2. ASSUME NEW w \in Rank, ProbeNext(w) PROVE TypeOK'
  <2>1. req[w].key \in Key /\ idx[w] + 1 \in 1 .. IndexCount
    BY <1>2, ProbeNextType
  <2>. QED
    BY <1>2, <2>1, SlotType, SizeAssumption DEF TypeOK, ProbeNext
<1>3. ASSUME NEW w \in Rank, ReadHit(w) PROVE TypeOK'
  BY <1>3, SeenType DEF TypeOK, ReadHit, Finish
<1>4. ASSUME NEW w \in Rank, ReadMiss(w) PROVE TypeOK'
  BY <1>4, DataAssumption DEF TypeOK, ReadMiss, Finish
<1>5. ASSUME NEW w \in Rank, LocationGet(w) PROVE TypeOK'
  BY <1>5, SeenType DEF TypeOK, LocationGet, Finish
<1>6. ASSUME NEW w \in Rank, WriteStop(w) PROVE TypeOK'
  <2>1. PICK seen \in Seen(w, at[w]) :
          LET evicts == seen.key \notin {NoKey, req[w].key}
              new == Entry(w, seen, evicts)
          IN  IF new = Reject
              THEN Finish(w, "rejected", NoData) /\ UNCHANGED send
              ELSE /\ send' = [send EXCEPT ![w] = new]
                   /\ reply' = [reply EXCEPT ![w] =
                        [status |-> IF evicts THEN "eviction" ELSE "success",
                         data |-> NoData]]
                   /\ pc' = [pc EXCEPT ![w] = "put"]
    BY <1>6 DEF WriteStop, PutStatus
  <2>. DEFINE evicts == seen.key \notin {NoKey, req[w].key}
              new == Entry(w, seen, evicts)
  <2>2. new \in Data \cup {Reject}
    BY SeenType, DataAssumption DEF Entry, TypeOK, Requests
  <2>3. pc' \in [Rank -> {"idle", "lock", "probe", "put", "unlock"}]
    BY <2>1 DEF TypeOK, Finish
  <2>4. send' \in [Rank -> Data]
    BY <2>1, <2>2 DEF TypeOK
  <2>5. reply' \in [Rank -> [status : {"none", "hit", "miss", "data", "success",
                                      "eviction", "rejected"},
                            data : Data]]
    <3>1. \E status \in {"success", "eviction", "rejected"} :
            reply' = [reply EXCEPT ![w] = [status |-> status, data |-> NoData]]
      BY <2>1 DEF Finish
    <3>. QED
      BY <3>1, DataAssumption DEF TypeOK
  <2>6. cnt_idx' \in [Rank -> Nat] /\ sum_idx' \in [Rank -> Nat]
    <3>1. idx[w] \in Nat
      BY SizeAssumption DEF TypeOK
    <3>2. /\ cnt_idx' = [cnt_idx EXCEPT ![w] = @ + 1]
          /\ sum_idx' = [sum_idx EXCEPT ![w] = @ + idx[w]]
      BY <1>6 DEF WriteStop, PutStatus
    <3>. QED
      BY <3>1, <3>2 DEF TypeOK
  <2>. QED
    BY <1>6, <2>3, <2>4, <2>5, <2>6 DEF WriteStop, PutStatus, TypeOK
<1>7. ASSUME NEW w \in Rank, Put(w) PROVE TypeOK'
  BY <1>7 DEF TypeOK, Put, Requests
<1>8. ASSUME NEW w \in Rank, Unlock(w) PROVE TypeOK'
  <2>1. <<0, 0>> \in Loc /\ NoRequest \in Requests
    BY SizeAssumption, DataAssumption DEF Loc, Rank, Index, NoRequest, Requests
  <2>. QED
    BY <1>8, <2>1, SizeAssumption, DataAssumption DEF TypeOK, Unlock, NoReply
<1>9. ASSUME NEW w \in Rank, PostIter(w) PROVE TypeOK'
  BY <1>9 DEF TypeOK, PostIter
<1>10. ASSUME NEW w \in Rank, WriteRows(w) PROVE TypeOK'
  BY <1>10 DEF TypeOK, WriteRows, Occupied, Locations
<1>11. ASSUME NEW w \in Rank, LeaveDump(w) PROVE TypeOK'
  BY <1>11 DEF TypeOK, LeaveDump
<1>12. ASSUME NEW w \in Rank, Wipe(w) PROVE TypeOK'
  BY <1>12, DataAssumption DEF TypeOK, Wipe
<1>13. CASE UsedIdxFactor
  BY <1>13 DEF TypeOK, UsedIdxFactor
<1>14. CASE LoopBarrier
  BY <1>14, SizeAssumption DEF TypeOK, LoopBarrier
<1>15. CASE UNCHANGED vars
  BY <1>15 DEF TypeOK, vars
<1>. QED
  BY CallType, <1>1, <1>2, <1>3, <1>4, <1>5, <1>6, <1>7, <1>8, <1>9, <1>10,
     <1>11, <1>12, <1>13, <1>14, <1>15 DEF Next, Step

\* Every variable of the table, of the calls and of the iteration keeps the
\* values its C type and its use allow: no call searches beyond the last
\* candidate, and no access leaves the windows.
THEOREM TypeCorrect == Spec => []TypeOK
BY InitType, NextType, PTL DEF Spec
----------------------------------------------------------------------------
(* Locks, calls and phases                                                 *)

LEMMA InitControl == Init => ControlInv
<1>. SUFFICES ASSUME Init PROVE ControlInv
  OBVIOUS
<1>1. TypeOK
  BY InitType
<1>2. LockInv
  BY DEF Init, LockInv, Holding
<1>3. ASSUME NEW w \in Rank PROVE CallInv(w)
  BY DEF Init, CallInv, NoRequest, NoReply, Writes, Keyed
<1>4. PhaseInv
  BY DEF Init, PhaseInv
<1>. QED
  BY <1>1, <1>2, <1>3, <1>4 DEF ControlInv

LEMMA NextLock == ControlInv /\ [Next]_vars => LockInv'
<1>. SUFFICES ASSUME ControlInv, [Next]_vars PROVE LockInv'
  OBVIOUS
<1>. USE DEF LockInv, Holding, Compatible, Exclusive, Writes, tableVars, callVars, countVars
<1>. TypeOK /\ LockInv /\ \A w \in Rank : CallInv(w)
  BY DEF ControlInv
<1>0. ASSUME NEW w \in Rank, NEW kind, NEW k, NEW d, NEW l, Enter(w, kind, k, d, l)
      PROVE  LockInv'
  BY <1>0 DEF Enter, TypeOK
<1>1. ASSUME NEW w \in Rank, WinLock(w) PROVE LockInv'
  BY <1>1 DEF WinLock, LockFree, TypeOK
<1>2. ASSUME NEW w \in Rank, ProbeNext(w) PROVE LockInv'
  <2>1. /\ req[w].key \in Key
        /\ idx[w] \in 1 .. IndexCount
        /\ idx[w] + 1 \in 1 .. IndexCount
    BY <1>2, ProbeNextType
  <2>2. at'[w][1] = at[w][1]
    <3>1. at[w] = Slot(req[w].key, idx[w])
      BY <1>2 DEF ProbeNext, CallInv
    <3>. QED
      BY <1>2, <2>1, <3>1, SlotType DEF ProbeNext, TypeOK
  <2>. QED
    BY <1>2, <2>2 DEF ProbeNext, TypeOK
<1>3. ASSUME NEW w \in Rank, ReadHit(w) PROVE LockInv'
  BY <1>3 DEF ReadHit, Finish, TypeOK
<1>4. ASSUME NEW w \in Rank, ReadMiss(w) PROVE LockInv'
  BY <1>4 DEF ReadMiss, Finish, TypeOK
<1>5. ASSUME NEW w \in Rank, LocationGet(w) PROVE LockInv'
  BY <1>5 DEF LocationGet, Finish, TypeOK
<1>6. ASSUME NEW w \in Rank, WriteStop(w) PROVE LockInv'
  <2>1. \A v \in Rank : Holding(v)' => Holding(v)
    BY <1>6 DEF WriteStop, PutStatus, Finish, TypeOK
  <2>. QED
    BY <1>6, <2>1 DEF WriteStop, PutStatus, TypeOK
<1>7. ASSUME NEW w \in Rank, Put(w) PROVE LockInv'
  BY <1>7 DEF Put, TypeOK
<1>8. ASSUME NEW w \in Rank, Unlock(w) PROVE LockInv'
  BY <1>8 DEF Unlock, TypeOK
<1>9. ASSUME NEW w \in Rank, PostIter(w) \/ WriteRows(w) \/ LeaveDump(w) \/ Wipe(w)
      PROVE  LockInv'
  BY <1>9 DEF PostIter, WriteRows, LeaveDump, Wipe
<1>10. CASE UsedIdxFactor \/ LoopBarrier \/ UNCHANGED vars
  BY <1>10 DEF UsedIdxFactor, LoopBarrier, vars
<1>. QED
  BY <1>0, <1>1, <1>2, <1>3, <1>4, <1>5, <1>6, <1>7, <1>8, <1>9, <1>10
  DEF Next, Step, CallRead, CallWrite, CallLocation

LEMMA NextCall == ControlInv /\ [Next]_vars => \A w \in Rank : CallInv(w)'
<1>. SUFFICES ASSUME ControlInv, [Next]_vars, NEW v \in Rank PROVE CallInv(v)'
  OBVIOUS
<1>. USE DEF CallInv, Writes, tableVars, callVars, countVars
<1>. TypeOK /\ CallInv(v)
  BY DEF ControlInv
<1>0. ASSUME NEW w \in Rank, NEW kind \in Kinds, NEW k, NEW d, NEW l,
             Enter(w, kind, k, d, l), kind \in Keyed => l = Slot(k, 1)
      PROVE  CallInv(v)'
  BY <1>0, ModeAssumption DEF Enter, TypeOK
<1>1. ASSUME NEW w \in Rank, WinLock(w) PROVE CallInv(v)'
  BY <1>1 DEF WinLock, TypeOK
<1>2. ASSUME NEW w \in Rank, ProbeNext(w) PROVE CallInv(v)'
  BY <1>2 DEF ProbeNext, TypeOK
<1>3. ASSUME NEW w \in Rank, ReadHit(w) PROVE CallInv(v)'
  BY <1>3 DEF ReadHit, Finish, TypeOK
<1>4. ASSUME NEW w \in Rank, ReadMiss(w) PROVE CallInv(v)'
  BY <1>4 DEF ReadMiss, Finish, TypeOK
<1>5. ASSUME NEW w \in Rank, LocationGet(w) PROVE CallInv(v)'
  BY <1>5 DEF LocationGet, Finish, TypeOK
<1>6. ASSUME NEW w \in Rank, WriteStop(w) PROVE CallInv(v)'
  BY <1>6 DEF WriteStop, PutStatus, Finish, TypeOK
<1>7. ASSUME NEW w \in Rank, Put(w) PROVE CallInv(v)'
  BY <1>7 DEF Put, TypeOK
<1>8. ASSUME NEW w \in Rank, Unlock(w) PROVE CallInv(v)'
  BY <1>8 DEF Unlock, TypeOK, NoRequest, NoReply, Keyed
<1>9. ASSUME NEW w \in Rank, PostIter(w) \/ WriteRows(w) \/ LeaveDump(w) \/ Wipe(w)
      PROVE  CallInv(v)'
  BY <1>9 DEF PostIter, WriteRows, LeaveDump, Wipe
<1>10. CASE UsedIdxFactor \/ LoopBarrier \/ UNCHANGED vars
  BY <1>10 DEF UsedIdxFactor, LoopBarrier, vars
<1>. HIDE DEF CallInv
<1>. QED
  BY CallEnters, <1>0, <1>1, <1>2, <1>3, <1>4, <1>5, <1>6, <1>7, <1>8, <1>9,
     <1>10 DEF Next, Step

LEMMA NextPhase == ControlInv /\ [Next]_vars => PhaseInv'
<1>. SUFFICES ASSUME ControlInv, [Next]_vars PROVE PhaseInv'
  OBVIOUS
<1>. USE DEF PhaseInv, tableVars, callVars, countVars
<1>. TypeOK /\ PhaseInv
  BY DEF ControlInv
<1>0. ASSUME NEW w \in Rank, NEW kind, NEW k, NEW d, NEW l, Enter(w, kind, k, d, l)
      PROVE  PhaseInv'
  BY <1>0 DEF Enter, TypeOK
<1>1. ASSUME NEW w \in Rank, WinLock(w) PROVE PhaseInv'
  BY <1>1 DEF WinLock, TypeOK
<1>2. ASSUME NEW w \in Rank, ProbeNext(w) PROVE PhaseInv'
  BY <1>2 DEF ProbeNext, TypeOK
<1>3. ASSUME NEW w \in Rank, ReadHit(w) PROVE PhaseInv'
  BY <1>3 DEF ReadHit, Finish, TypeOK
<1>4. ASSUME NEW w \in Rank, ReadMiss(w) PROVE PhaseInv'
  BY <1>4 DEF ReadMiss, Finish, TypeOK
<1>5. ASSUME NEW w \in Rank, LocationGet(w) PROVE PhaseInv'
  BY <1>5 DEF LocationGet, Finish, TypeOK
<1>6. ASSUME NEW w \in Rank, WriteStop(w) PROVE PhaseInv'
  <2>1. \A v \in Rank : pc'[v] # "idle" => pc[v] # "idle"
    BY <1>6 DEF WriteStop, PutStatus, Finish, TypeOK
  <2>2. phase' = phase
    BY <1>6 DEF WriteStop, PutStatus
  <2>. QED
    BY <2>1, <2>2
<1>7. ASSUME NEW w \in Rank, Put(w) PROVE PhaseInv'
  BY <1>7 DEF Put, TypeOK
<1>8. ASSUME NEW w \in Rank, Unlock(w) PROVE PhaseInv'
  BY <1>8 DEF Unlock, TypeOK
<1>9. ASSUME NEW w \in Rank, PostIter(w) PROVE PhaseInv'
  BY <1>9, ModeAssumption DEF PostIter, TypeOK
<1>10. ASSUME NEW w \in Rank, WriteRows(w) PROVE PhaseInv'
  BY <1>10, ModeAssumption DEF WriteRows, DumpBarrier, Occupied, TypeOK
<1>11. ASSUME NEW w \in Rank, LeaveDump(w) PROVE PhaseInv'
  BY <1>11, ModeAssumption DEF LeaveDump, TypeOK
<1>12. ASSUME NEW w \in Rank, Wipe(w) PROVE PhaseInv'
  BY <1>12, ModeAssumption DEF Wipe, TypeOK
<1>13. CASE UsedIdxFactor
  BY <1>13, ModeAssumption DEF UsedIdxFactor, TypeOK
<1>14. CASE LoopBarrier
  BY <1>14, ModeAssumption DEF LoopBarrier, TypeOK
<1>15. CASE UNCHANGED vars
  BY <1>15 DEF vars
<1>. QED
  BY <1>0, <1>1, <1>2, <1>3, <1>4, <1>5, <1>6, <1>7, <1>8, <1>9, <1>10,
     <1>11, <1>12, <1>13, <1>14, <1>15
  DEF Next, Step, CallRead, CallWrite, CallLocation

LEMMA NextControl == ControlInv /\ [Next]_vars => ControlInv'
BY NextType, NextLock, NextCall, NextPhase DEF ControlInv

THEOREM ControlCorrect == Spec => []ControlInv
BY InitControl, NextControl, PTL DEF Spec

\* DHT_flush zeroes a window without a lock.  No rank is inside a call on any
\* window from the moment the first rank has entered the flush until all ranks
\* have finished it.
THEOREM FlushIsQuiet == Spec => []NoCallDuringFlush
<1>1. ControlInv => NoCallDuringFlush
  BY DEF ControlInv, PhaseInv, NoCallDuringFlush
<1>. QED
  BY <1>1, ControlCorrect, PTL
----------------------------------------------------------------------------
(* The probe chain                                                         *)

\* Inside an epoch a rank sees the bucket as it is: the window lock keeps
\* every unfinished Put away from it.
LEMMA SeenExact ==
  ASSUME ControlInv, NEW w \in Rank, pc[w] = "probe",
         NEW seen \in Seen(w, at[w])
  PROVE  seen = [key |-> bkey[at[w]], data |-> bdata[at[w]]]
<1>1. ASSUME NEW v \in Rank \ {w}, InFlight(v, at[w]) PROVE FALSE
  <2>1. Writes(v) /\ Holding(v) /\ Holding(w) /\ at[v] = at[w]
    BY <1>1 DEF ControlInv, CallInv, InFlight, Holding
  <2>. QED
    BY <2>1 DEF ControlInv, LockInv, Compatible, Exclusive
<1>. QED
  BY <1>1 DEF Seen

\* While a write is putting its entry no other rank is inside its window.
LEMMA PutAlone ==
  ASSUME ControlInv, NEW w \in Rank, pc[w] = "put",
         NEW v \in Rank \ {w}, Holding(v)
  PROVE  at[v][1] # at[w][1]
<1>1. Writes(w) /\ Holding(w)
  BY DEF ControlInv, CallInv, Holding
<1>. QED
  BY <1>1 DEF ControlInv, LockInv, Compatible, Exclusive

\* The bucket of a call on a key.
LEMMA CallBucket ==
  ASSUME ControlInv, NEW w \in Rank, req[w].kind \in Keyed
  PROVE  /\ req[w].key \in Key
         /\ idx[w] \in 1 .. IndexCount
         /\ at[w] = Slot(req[w].key, idx[w])
         /\ at[w] \in Loc
         /\ at[w][1] = Dest[req[w].key]
<1>1. req[w].key \in Key /\ idx[w] \in 1 .. IndexCount
  BY DEF ControlInv, TypeOK, Requests, Keyed
<1>2. at[w] = Slot(req[w].key, idx[w])
  BY DEF ControlInv, CallInv
<1>. QED
  BY <1>1, <1>2, SlotType

\* A key whose chain is intact is in one bucket only.
LEMMA ChainUnique ==
  ASSUME TypeOK, ProbeChain, NEW l \in Locations, NEW m \in Locations,
         bkey[l] = bkey[m]
  PROVE  l = m
<1>. DEFINE k == bkey[l]
<1>1. PICK p \in 1 .. IndexCount :
        /\ Slot(k, p) = l
        /\ \A q \in 1 .. p - 1 :
             Slot(k, q) = l \/ bkey[Slot(k, q)] \notin {NoKey, k}
  BY DEF ProbeChain, ChainTo
<1>2. PICK r \in 1 .. IndexCount :
        /\ Slot(k, r) = m
        /\ \A q \in 1 .. r - 1 :
             Slot(k, q) = m \/ bkey[Slot(k, q)] \notin {NoKey, k}
  BY DEF ProbeChain, ChainTo
<1>3. CASE p < r
  <2>1. p \in 1 .. r - 1
    BY <1>3, SizeAssumption
  <2>. QED
    BY <2>1, <1>1, <1>2
<1>4. CASE r < p
  <2>1. r \in 1 .. p - 1
    BY <1>4, SizeAssumption
  <2>. QED
    BY <2>1, <1>1, <1>2
<1>5. CASE p = r
  BY <1>5, <1>1, <1>2
<1>. QED
  BY <1>3, <1>4, <1>5, SizeAssumption

\* A search that has passed the first idx - 1 candidates and stopped at one
\* that is empty, holds the key or is the last has found the only place where
\* the key can be.
LEMMA SearchDecides ==
  ASSUME ControlInv, TableInv, NEW w \in Rank, req[w].kind \in Keyed,
         pc[w] \in {"probe", "put"},
         bkey[at[w]] \in {NoKey, req[w].key} \/ idx[w] = IndexCount,
         NEW l \in Loc, bkey[l] = req[w].key
  PROVE  l = at[w]
<1>. DEFINE k == req[w].key
<1>1. k \in Key /\ idx[w] \in 1 .. IndexCount /\ at[w] = Slot(k, idx[w])
  BY CallBucket
<1>2. l \in Locations
  BY <1>1, DataAssumption DEF Locations
<1>3. PICK p \in 1 .. IndexCount :
        /\ Slot(k, p) = l
        /\ \A q \in 1 .. p - 1 :
             Slot(k, q) = l \/ bkey[Slot(k, q)] \notin {NoKey, k}
  BY <1>2 DEF TableInv, ProbeChain, ChainTo
<1>4. CASE p < idx[w]
  <2>1. p \in 1 .. idx[w] - 1
    BY <1>4, <1>1, SizeAssumption
  <2>. QED
    BY <2>1, <1>3 DEF TableInv, SearchInv
<1>5. CASE idx[w] < p
  <2>1. idx[w] \in 1 .. p - 1 /\ idx[w] # IndexCount
    BY <1>5, <1>1, SizeAssumption
  <2>. QED
    BY <2>1, <1>1, <1>3
<1>6. CASE p = idx[w]
  BY <1>6, <1>1, <1>3
<1>. QED
  BY <1>1, <1>4, <1>5, <1>6, SizeAssumption

LEMMA PutStops ==
  ASSUME ControlInv, TableInv, NEW w \in Rank, pc[w] = "put"
  PROVE  /\ req[w].kind \in Keyed
         /\ bkey[at[w]] \in {NoKey, req[w].key} \/ idx[w] = IndexCount
BY DEF ControlInv, CallInv, TableInv, StopInv, Writes, Keyed

LEMMA InitTable == Init => TableInv
<1>. SUFFICES ASSUME Init PROVE TableInv
  OBVIOUS
<1>1. ASSUME NEW w \in Rank PROVE SearchInv(w) /\ StopInv(w)
  BY DEF Init, SearchInv, StopInv
<1>2. EmptyInv
  BY DEF Init, EmptyInv
<1>3. ProbeChain
  BY DEF Init, ProbeChain, Locations
<1>. QED
  BY <1>1, <1>2, <1>3 DEF TableInv

\* A step that leaves the windows alone keeps the chain.
LEMMA TableFrame ==
  ASSUME ProbeChain, EmptyInv, UNCHANGED tableVars
  PROVE  ProbeChain' /\ EmptyInv'
BY DEF ProbeChain, ChainTo, EmptyInv, Locations, tableVars

\* A Put lengthens no chain and interrupts none.
LEMMA PutChain ==
  ASSUME ControlInv, TableInv, NEW w \in Rank, Put(w)
  PROVE  ProbeChain'
<1>. DEFINE k == req[w].key
            a == at[w]
<1>1. pc[w] = "put" /\ bkey' = [bkey EXCEPT ![a] = k]
  BY DEF Put
<1>2. /\ k \in Key /\ k # NoKey
      /\ idx[w] \in 1 .. IndexCount
      /\ a \in Loc
      /\ a = Slot(k, idx[w])
  BY <1>1, PutStops, CallBucket, DataAssumption
<1>3. bkey'[a] = k /\ \A l \in Loc : l # a => bkey'[l] = bkey[l]
  BY <1>1, <1>2 DEF ControlInv, TypeOK
<1>. SUFFICES ASSUME NEW l \in Loc, bkey'[l] # NoKey
              PROVE  ChainTo(l, bkey[l])'
  BY DEF ProbeChain, Locations
<1>4. CASE l = a
  <2>1. ASSUME NEW q \in 1 .. idx[w] - 1
        PROVE  Slot(k, q) = l \/ bkey'[Slot(k, q)] \notin {NoKey, k}
    <3>1. q \in 1 .. IndexCount
      BY <1>2, SizeAssumption
    <3>2. Slot(k, q) \in Loc
      BY <1>2, <3>1, SlotType
    <3>3. bkey[Slot(k, q)] \notin {NoKey, k}
      BY <1>1, PutStops DEF TableInv, SearchInv
    <3>. QED
      BY <3>2, <3>3, <1>3, <1>4
  <2>. QED
    BY <2>1, <1>2, <1>3, <1>4 DEF ChainTo
<1>5. CASE l # a
  <2>. DEFINE x == bkey[l]
  <2>1. bkey'[l] = x /\ x # NoKey /\ x \in Key
    BY <1>3, <1>5 DEF ControlInv, TypeOK
  <2>2. x # k
    BY <1>1, <1>5, PutStops, SearchDecides
  <2>3. PICK p \in 1 .. IndexCount :
          /\ Slot(x, p) = l
          /\ \A q \in 1 .. p - 1 :
               Slot(x, q) = l \/ bkey[Slot(x, q)] \notin {NoKey, x}
    BY <2>1 DEF TableInv, ProbeChain, ChainTo, Locations
  <2>4. ASSUME NEW q \in 1 .. p - 1
        PROVE  Slot(x, q) = l \/ bkey'[Slot(x, q)] \notin {NoKey, x}
    <3>1. q \in 1 .. IndexCount
      BY SizeAssumption
    <3>2. Slot(x, q) \in Loc
      BY <2>1, <3>1, SlotType
    <3>. QED
      BY <3>2, <2>2, <2>3, <1>2, <1>3
  <2>. QED
    BY <2>1, <2>3, <2>4 DEF ChainTo
<1>. QED
  BY <1>4, <1>5

\* A flush removes whole windows, and a chain lies within one window.
LEMMA WipeChain ==
  ASSUME TypeOK, ProbeChain, NEW w \in Rank, Wipe(w)
  PROVE  ProbeChain'
<1>1. \A l \in Loc : bkey'[l] = IF l[1] = w THEN NoKey ELSE bkey[l]
  BY DEF Wipe
<1>. SUFFICES ASSUME NEW l \in Loc, bkey'[l] # NoKey
              PROVE  ChainTo(l, bkey[l])'
  BY DEF ProbeChain, Locations
<1>. DEFINE x == bkey[l]
<1>2. l[1] # w /\ bkey'[l] = x /\ x \in Key /\ x # NoKey
  BY <1>1 DEF TypeOK
<1>3. PICK p \in 1 .. IndexCount :
        /\ Slot(x, p) = l
        /\ \A q \in 1 .. p - 1 :
             Slot(x, q) = l \/ bkey[Slot(x, q)] \notin {NoKey, x}
  BY <1>2 DEF ProbeChain, ChainTo, Locations
<1>4. ASSUME NEW q \in 1 .. p - 1
      PROVE  Slot(x, q) = l \/ bkey'[Slot(x, q)] \notin {NoKey, x}
  <2>1. q \in 1 .. IndexCount
    BY SizeAssumption
  <2>2. Slot(x, q) \in Loc /\ Slot(x, q)[1] = l[1]
    BY <1>2, <1>3, <2>1, SlotType
  <2>. QED
    BY <2>2, <1>1, <1>2, <1>3
<1>. QED
  BY <1>2, <1>3, <1>4 DEF ChainTo

LEMMA NextChain ==
  ASSUME ControlInv, TableInv, [Next]_vars
  PROVE  ProbeChain' /\ EmptyInv'
<1>. TypeOK /\ ProbeChain /\ EmptyInv
  BY DEF ControlInv, TableInv
<1>1. ASSUME NEW w \in Rank, Put(w) PROVE ProbeChain' /\ EmptyInv'
  <2>1. EmptyInv'
    <3>1. req[w].key # NoKey /\ at[w] \in Loc
      BY <1>1, PutStops, CallBucket, DataAssumption DEF Put
    <3>. QED
      BY <1>1, <3>1 DEF Put, EmptyInv, TypeOK
  <2>. QED
    BY <1>1, <2>1, PutChain
<1>2. ASSUME NEW w \in Rank, Wipe(w) PROVE ProbeChain' /\ EmptyInv'
  <2>1. EmptyInv'
    BY <1>2 DEF Wipe, EmptyInv
  <2>. QED
    BY <1>2, <2>1, WipeChain
<1>3. ASSUME NEW w \in Rank, NEW kind, NEW k, NEW d, NEW l, Enter(w, kind, k, d, l)
      PROVE  UNCHANGED tableVars
  BY <1>3 DEF Enter
<1>4. ASSUME NEW w \in Rank,
             WinLock(w) \/ ProbeNext(w) \/ ReadHit(w) \/ ReadMiss(w)
               \/ LocationGet(w) \/ WriteStop(w) \/ Unlock(w)
      PROVE  UNCHANGED tableVars
  BY <1>4 DEF WinLock, ProbeNext, ReadHit, ReadMiss, LocationGet, WriteStop, Unlock
<1>5. ASSUME NEW w \in Rank, PostIter(w) \/ WriteRows(w) \/ LeaveDump(w)
      PROVE  UNCHANGED tableVars
  BY <1>5 DEF PostIter, WriteRows, LeaveDump
<1>6. CASE UsedIdxFactor \/ LoopBarrier \/ UNCHANGED vars
  <2>1. UNCHANGED tableVars
    BY <1>6 DEF UsedIdxFactor, LoopBarrier, vars, tableVars
  <2>. QED
    BY <2>1, TableFrame
<1>. QED
  BY CallEnters, <1>1, <1>2, <1>3, <1>4, <1>5, <1>6, TableFrame DEF Next, Step

\* A call that keeps its place keeps its search, as long as no Put and no
\* flush changes the windows.
LEMMA SearchFrame ==
  ASSUME NEW v \in Rank, SearchInv(v), StopInv(v), UNCHANGED tableVars,
         UNCHANGED <<pc[v], req[v], idx[v], at[v], send[v], reply[v]>>
  PROVE  SearchInv(v)' /\ StopInv(v)'
BY DEF SearchInv, StopInv, tableVars

LEMMA StopStep ==
  ASSUME ControlInv, TableInv, NEW w \in Rank, WriteStop(w)
  PROVE  SearchInv(w)' /\ StopInv(w)'
<1>1. PICK seen \in Seen(w, at[w]) :
        LET evicts == seen.key \notin {NoKey, req[w].key}
            new == Entry(w, seen, evicts)
        IN  /\ evicts => idx[w] = IndexCount
            /\ IF new = Reject
               THEN Finish(w, "rejected", NoData) /\ UNCHANGED send
               ELSE /\ send' = [send EXCEPT ![w] = new]
                    /\ reply' = [reply EXCEPT ![w] =
                         [status |-> IF evicts THEN "eviction" ELSE "success",
                          data |-> NoData]]
                    /\ pc' = [pc EXCEPT ![w] = "put"]
  BY DEF WriteStop, PutStatus
<1>. DEFINE evicts == seen.key \notin {NoKey, req[w].key}
            new == Entry(w, seen, evicts)
<1>2. seen.key = bkey[at[w]] /\ seen.data = bdata[at[w]]
  BY SeenExact DEF WriteStop, PutStatus
<1>3. UNCHANGED <<bkey, bdata, req, idx, at>> /\ pc[w] = "probe" /\ Writes(w)
  BY DEF WriteStop, PutStatus, tableVars
<1>. TypeOK /\ SearchInv(w)
  BY DEF ControlInv, TableInv
<1>4. SearchInv(w)'
  BY <1>3 DEF SearchInv
<1>5. CASE new = Reject
  <2>1. pc'[w] = "unlock"
    BY <1>1, <1>5 DEF Finish, TypeOK
  <2>. QED
    BY <1>4, <2>1 DEF StopInv
<1>6. CASE new # Reject
  <2>1. /\ send'[w] = new
        /\ reply'[w] = [status |-> IF evicts THEN "eviction" ELSE "success",
                        data |-> NoData]
        /\ evicts => idx[w] = IndexCount
    BY <1>1, <1>6 DEF TypeOK
  <2>2. CASE evicts
    BY <1>2, <1>3, <1>4, <1>6, <2>1, <2>2 DEF StopInv, Entry
  <2>3. CASE ~evicts
    BY <1>2, <1>3, <1>4, <1>6, <2>1, <2>3 DEF StopInv, Entry
  <2>. QED
    BY <2>2, <2>3
<1>. QED
  BY <1>5, <1>6

LEMMA NextSearch ==
  ASSUME ControlInv, TableInv, [Next]_vars, NEW v \in Rank
  PROVE  SearchInv(v)' /\ StopInv(v)'
<1>. TypeOK /\ SearchInv(v) /\ StopInv(v)
  BY DEF ControlInv, TableInv
<1>0. ASSUME NEW w \in Rank, NEW kind, NEW k, NEW d, NEW l, Enter(w, kind, k, d, l)
      PROVE  SearchInv(v)' /\ StopInv(v)'
  <2>1. CASE v = w
    BY <1>0, <2>1 DEF Enter, SearchInv, StopInv, TypeOK
  <2>2. CASE v # w
    BY <1>0, <2>2, SearchFrame DEF Enter, TypeOK
  <2>. QED
    BY <2>1, <2>2
<1>1. ASSUME NEW w \in Rank, WinLock(w) PROVE SearchInv(v)' /\ StopInv(v)'
  <2>1. CASE v = w
    <3>1. idx'[w] = 1 /\ pc'[w] = "probe"
      BY <1>1 DEF WinLock, ControlInv, CallInv, TypeOK
    <3>. QED
      BY <2>1, <3>1 DEF SearchInv, StopInv
  <2>2. CASE v # w
    BY <1>1, <2>2, SearchFrame DEF WinLock, TypeOK
  <2>. QED
    BY <2>1, <2>2
<1>2. ASSUME NEW w \in Rank, ProbeNext(w) PROVE SearchInv(v)' /\ StopInv(v)'
  <2>1. CASE v = w
    <3>1. /\ pc'[w] = "probe" /\ pc[w] = "probe" /\ req' = req /\ bkey' = bkey
          /\ req[w].kind \in Keyed
          /\ idx'[w] = idx[w] + 1
      BY <1>2 DEF ProbeNext, TypeOK, tableVars
    <3>2. bkey[Slot(req[w].key, idx[w])] \notin {NoKey, req[w].key}
      <4>1. PICK seen \in Seen(w, at[w]) : seen.key \notin {NoKey, req[w].key}
        BY <1>2 DEF ProbeNext
      <4>. QED
        BY <3>1, <4>1, SeenExact, CallBucket
    <3>3. idx[w] \in Nat
      BY SizeAssumption DEF TypeOK
    <3>4. \A q \in 1 .. idx'[w] - 1 : q \in 1 .. idx[w] - 1 \/ q = idx[w]
      BY <3>1, <3>3
    <3>. QED
      BY <2>1, <3>1, <3>2, <3>4 DEF SearchInv, StopInv
  <2>2. CASE v # w
    BY <1>2, <2>2, SearchFrame DEF ProbeNext, TypeOK
  <2>. QED
    BY <2>1, <2>2
<1>3. ASSUME NEW w \in Rank, ReadHit(w) \/ ReadMiss(w) \/ LocationGet(w)
      PROVE  SearchInv(v)' /\ StopInv(v)'
  <2>1. CASE v = w
    BY <1>3, <2>1 DEF ReadHit, ReadMiss, LocationGet, Finish, SearchInv, StopInv, TypeOK
  <2>2. CASE v # w
    BY <1>3, <2>2, SearchFrame DEF ReadHit, ReadMiss, LocationGet, Finish, TypeOK
  <2>. QED
    BY <2>1, <2>2
<1>4. ASSUME NEW w \in Rank, WriteStop(w) PROVE SearchInv(v)' /\ StopInv(v)'
  <2>1. CASE v = w
    BY <1>4, <2>1, StopStep
  <2>2. CASE v # w
    BY <1>4, <2>2, SearchFrame DEF WriteStop, PutStatus, Finish, TypeOK
  <2>. QED
    BY <2>1, <2>2
<1>5. ASSUME NEW w \in Rank, Put(w) PROVE SearchInv(v)' /\ StopInv(v)'
  <2>1. CASE v = w
    BY <1>5, <2>1 DEF Put, SearchInv, StopInv, TypeOK
  <2>2. CASE v # w
    <3>1. CASE req[v].kind \in Keyed /\ pc[v] \in {"probe", "put"}
      <4>. DEFINE k == req[v].key
      <4>1. /\ k \in Key /\ idx[v] \in 1 .. IndexCount
            /\ at[v] \in Loc /\ at[v][1] = Dest[k]
        BY <3>1, CallBucket
      <4>2. Dest[k] # at[w][1]
        BY <1>5, <2>2, <3>1, <4>1, PutAlone DEF Put, Holding
      <4>3. \A l \in Loc : l[1] = Dest[k] => bkey'[l] = bkey[l] /\ bdata'[l] = bdata[l]
        BY <1>5, <4>2 DEF Put, TypeOK
      <4>4. \A q \in 1 .. idx[v] - 1 : bkey'[Slot(k, q)] = bkey[Slot(k, q)]
        <5>1. \A q \in 1 .. idx[v] - 1 : q \in 1 .. IndexCount
          BY <4>1, SizeAssumption
        <5>. QED
          BY <4>1, <4>3, <5>1, SlotType
      <4>5. bkey'[at[v]] = bkey[at[v]] /\ bdata'[at[v]] = bdata[at[v]]
        BY <4>1, <4>3
      <4>6. UNCHANGED <<req, idx, at, send, reply>> /\ pc'[v] = pc[v]
        BY <1>5, <2>2 DEF Put, TypeOK
      <4>7. SearchInv(v)'
        BY <4>4, <4>6 DEF SearchInv
      <4>8. StopInv(v)'
        BY <4>5, <4>6 DEF StopInv
      <4>. QED
        BY <4>7, <4>8
    <3>2. CASE ~(req[v].kind \in Keyed /\ pc[v] \in {"probe", "put"})
      <4>1. pc[v] # "put"
        BY <3>2, PutStops
      <4>. QED
        BY <1>5, <2>2, <3>2, <4>1 DEF Put, SearchInv, StopInv, TypeOK
    <3>. QED
      BY <3>1, <3>2
  <2>. QED
    BY <2>1, <2>2
<1>6. ASSUME NEW w \in Rank, Unlock(w) PROVE SearchInv(v)' /\ StopInv(v)'
  <2>1. CASE v = w
    BY <1>6, <2>1 DEF Unlock, SearchInv, StopInv, TypeOK
  <2>2. CASE v # w
    BY <1>6, <2>2, SearchFrame DEF Unlock, TypeOK
  <2>. QED
    BY <2>1, <2>2
<1>7. ASSUME NEW w \in Rank, Wipe(w) PROVE SearchInv(v)' /\ StopInv(v)'
  <2>1. pc[v] = "idle" /\ pc' = pc
    BY <1>7 DEF Wipe, callVars, ControlInv, PhaseInv
  <2>. QED
    BY <2>1 DEF SearchInv, StopInv
<1>8. ASSUME NEW w \in Rank, PostIter(w) \/ WriteRows(w) \/ LeaveDump(w)
      PROVE  SearchInv(v)' /\ StopInv(v)'
  BY <1>8, SearchFrame DEF PostIter, WriteRows, LeaveDump, callVars
<1>9. CASE UsedIdxFactor \/ LoopBarrier \/ UNCHANGED vars
  BY <1>9, SearchFrame DEF UsedIdxFactor, LoopBarrier, vars, callVars, tableVars
<1>. QED
  BY CallEnters, <1>0, <1>1, <1>2, <1>3, <1>4, <1>5, <1>6, <1>7, <1>8, <1>9
  DEF Next, Step

LEMMA NextIInv == IInv /\ [Next]_vars => IInv'
BY NextControl, NextChain, NextSearch DEF IInv, TableInv

THEOREM Invariant == Spec => []IInv
BY InitControl, InitTable, NextIInv, PTL DEF Spec, IInv

\* However writers interleave, evict and flush, the candidates before a stored
\* entry hold other keys, so that DHT_read and DHT_write find the entry.
THEOREM ProbeChainCorrect == Spec => []ProbeChain
<1>1. IInv => ProbeChain
  BY DEF IInv, TableInv
<1>. QED
  BY <1>1, Invariant, PTL

LEMMA UniqueStep == IInv => NoDuplicateKey
BY ChainUnique DEF IInv, ControlInv, TableInv, NoDuplicateKey

\* No key is stored twice: a later write of a key replaces the only copy.
THEOREM UniqueKeys == Spec => []NoDuplicateKey
BY UniqueStep, Invariant, PTL
----------------------------------------------------------------------------
(* The table implements the lossy cache                                    *)

\* What is stored under a key, given the bucket that holds it ...
LEMMA StoredIn ==
  ASSUME TypeOK, ProbeChain, NEW l \in Loc, bkey[l] \in Key
  PROVE  Stored(bkey[l]) = bdata[l] /\ Stored(bkey[l]) # Absent
<1>. DEFINE k == bkey[l]
<1>1. HomeOf(k) \in Loc /\ bkey[HomeOf(k)] = k
  BY DEF HomeOf
<1>2. HomeOf(k) = l
  BY <1>1, ChainUnique, DataAssumption DEF Locations
<1>. QED
  BY <1>2, DataAssumption DEF Stored, TypeOK

\* ... or that no bucket does.
LEMMA StoredNowhere ==
  ASSUME NEW k, \A l \in Loc : bkey[l] # k
  PROVE  Stored(k) = Absent
BY DEF Stored

\* A key that is present is in some bucket, and its data is there.
LEMMA StoredSomewhere ==
  ASSUME TypeOK, NEW k \in Key, Stored(k) # Absent
  PROVE  \E l \in Loc : bkey[l] = k
BY DEF Stored

LEMMA StoredFrame ==
  ASSUME UNCHANGED tableVars, NEW k
  PROVE  Stored(k)' = Stored(k)
BY DEF Stored, HomeOf, tableVars

LEMMA InitCache == Init => Cache!Init
<1>. SUFFICES ASSUME Init PROVE Cache!Init
  OBVIOUS
<1>1. \A k \in Key : Stored(k) = Absent
  BY DataAssumption, StoredNowhere DEF Init
<1>2. \A w \in Rank : Answered(w) = NoReply
  BY DEF Init, Answered
<1>. QED
  BY <1>1, <1>2 DEF Init, Cache!Init, Cache!NoRequest, Cache!NoReply, NoRequest, NoReply

\* Steps that the cache does not see.
LEMMA CacheFrame ==
  ASSUME UNCHANGED tableVars, UNCHANGED req,
         \A w \in Rank : Answered(w)' = Answered(w)
  PROVE  UNCHANGED Cache!cacheVars
<1>1. \A k \in Key : Stored(k)' = Stored(k)
  BY StoredFrame
<1>. QED
  BY <1>1 DEF Cache!cacheVars

\* The answer of a call, as the cache sees it.
LEMMA AnswerStep ==
  ASSUME TypeOK, NEW w \in Rank, NEW status, NEW d,
         \A v \in Rank \ {w} : Answered(v)' = Answered(v),
         Answered(w)' = [status |-> status, data |-> d]
  PROVE  Cache!Answer(w, status, d)
BY DEF Cache!Answer

LEMMA FinishAnswers ==
  ASSUME TypeOK, NEW w \in Rank, NEW status, NEW d, Finish(w, status, d)
  PROVE  Cache!Answer(w, status, d)
<1>1. \A v \in Rank \ {w} : Answered(v)' = Answered(v)
  BY DEF Finish, Answered, TypeOK
<1>2. Answered(w)' = [status |-> status, data |-> d]
  BY DEF Finish, Answered, TypeOK
<1>. QED
  BY <1>1, <1>2, AnswerStep

LEMMA EnterRefines ==
  ASSUME IInv, NEW w \in Rank, NEW kind \in Kinds, NEW k \in Key \cup {NoKey},
         NEW d \in Data, NEW l \in Loc, Enter(w, kind, k, d, l)
  PROVE  \E r \in Cache!Request : Cache!Call(w, r)
<1>. DEFINE r == [kind |-> kind, key |-> k, data |-> d]
<1>. TypeOK /\ CallInv(w)
  BY DEF IInv, ControlInv
<1>1. r \in Cache!Request
  BY ModeAssumption DEF Cache!Request, Cache!Kind
<1>2. req[w] = NoRequest /\ r # NoRequest
  BY ModeAssumption DEF Enter, CallInv, NoRequest
<1>3. \A x \in Key : Stored(x)' = Stored(x)
  BY StoredFrame DEF Enter
<1>4. \A v \in Rank : Answered(v)' = Answered(v)
  BY DEF Enter, Answered, TypeOK
<1>5. req' = [req EXCEPT ![w] = r]
  BY DEF Enter
<1>6. Cache!Call(w, r)
  BY <1>2, <1>3, <1>4, <1>5 DEF Cache!Call, Cache!NoRequest, NoRequest
<1>. QED
  BY <1>1, <1>6

LEMMA ReadRefines ==
  ASSUME IInv, NEW w \in Rank, ReadHit(w) \/ ReadMiss(w)
  PROVE  Cache!Read(w)
<1>. DEFINE k == req[w].key
            a == at[w]
<1>. ControlInv /\ TableInv /\ TypeOK /\ CallInv(w) /\ ProbeChain
  BY DEF IInv, ControlInv, TableInv
<1>1. pc[w] = "probe" /\ req[w].kind = "read" /\ req' = req /\ UNCHANGED tableVars
  BY DEF ReadHit, ReadMiss
<1>2. k \in Key /\ a \in Loc
  BY <1>1, CallBucket DEF Keyed
<1>3. \A x \in Key : Stored(x)' = Stored(x)
  BY <1>1, StoredFrame
<1>4. Cache!InCall(w, "read")
  BY <1>1 DEF Cache!InCall, Cache!NoReply, CallInv, NoReply, Answered
<1>5. ASSUME ReadHit(w) PROVE Cache!Read(w)
  <2>1. PICK seen \in Seen(w, a) : seen.key = k /\ Finish(w, "hit", seen.data)
    BY <1>5 DEF ReadHit
  <2>2. bkey[a] = k /\ seen.data = bdata[a]
    BY <1>1, <2>1, SeenExact
  <2>3. Stored(k) = bdata[a] /\ Stored(k) # Absent
    BY <1>2, <2>2, StoredIn
  <2>4. Cache!Answer(w, "hit", Stored(k))
    BY <2>1, <2>2, <2>3, FinishAnswers
  <2>. QED
    BY <1>1, <1>2, <1>3, <1>4, <2>3, <2>4 DEF Cache!Read, Cache!Present
<1>6. ASSUME ReadMiss(w) PROVE Cache!Read(w)
  <2>1. PICK seen \in Seen(w, a) :
          seen.key # k /\ (seen.key = NoKey \/ idx[w] = IndexCount)
    BY <1>6 DEF ReadMiss
  <2>2. bkey[a] # k /\ (bkey[a] = NoKey \/ idx[w] = IndexCount)
    BY <1>1, <2>1, SeenExact
  <2>3. \A l \in Loc : bkey[l] # k
    BY <1>1, <2>2, SearchDecides DEF Keyed
  <2>4. Stored(k) = Absent
    BY <2>3, StoredNowhere
  <2>5. Cache!Answer(w, "miss", NoData)
    BY <1>6, FinishAnswers DEF ReadMiss
  <2>. QED
    BY <1>1, <1>2, <1>3, <1>4, <2>4, <2>5 DEF Cache!Read, Cache!Present
<1>. QED
  BY <1>5, <1>6

LEMMA LocationRefines ==
  ASSUME IInv, NEW w \in Rank, LocationGet(w)
  PROVE  Cache!ReadLocation(w)
<1>. DEFINE a == at[w]
<1>. ControlInv /\ TypeOK /\ CallInv(w) /\ ProbeChain /\ EmptyInv
  BY DEF IInv, ControlInv, TableInv
<1>1. pc[w] = "probe" /\ req[w].kind = "location" /\ req' = req /\ UNCHANGED tableVars
  BY DEF LocationGet
<1>2. \A x \in Key : Stored(x)' = Stored(x)
  BY <1>1, StoredFrame
<1>3. Cache!InCall(w, "location")
  BY <1>1 DEF Cache!InCall, Cache!NoReply, CallInv, NoReply, Answered
<1>4. PICK seen \in Seen(w, a) : Finish(w, "data", seen.data)
  BY DEF LocationGet
<1>5. seen.data = bdata[a] /\ a \in Loc
  BY <1>1, SeenExact DEF TypeOK
<1>6. Cache!Answer(w, "data", bdata[a])
  BY <1>4, <1>5, FinishAnswers
<1>7. CASE bkey[a] = NoKey
  <2>1. bdata[a] = NoData
    BY <1>5, <1>7 DEF EmptyInv
  <2>. QED
    BY <1>1, <1>2, <1>3, <1>6, <2>1 DEF Cache!ReadLocation
<1>8. CASE bkey[a] # NoKey
  <2>. DEFINE k == bkey[a]
  <2>1. k \in Key
    BY <1>5, <1>8 DEF TypeOK
  <2>2. Stored(k) = bdata[a] /\ Stored(k) # Absent
    BY <1>5, <2>1, StoredIn
  <2>. QED
    BY <1>1, <1>2, <1>3, <1>6, <2>1, <2>2 DEF Cache!ReadLocation, Cache!Present
<1>. QED
  BY <1>7, <1>8

\* What an accumulating write updates is what is stored under its key.
LEMMA OldEntry ==
  ASSUME IInv, NEW w \in Rank, Writes(w), pc[w] \in {"probe", "put"},
         bkey[at[w]] \in {NoKey, req[w].key} \/ idx[w] = IndexCount
  PROVE  Cache!Old(req[w].key) =
           IF bkey[at[w]] \notin {NoKey, req[w].key} THEN NoData ELSE bdata[at[w]]
<1>. DEFINE k == req[w].key
            a == at[w]
<1>. ControlInv /\ TableInv /\ TypeOK /\ ProbeChain /\ EmptyInv
  BY DEF IInv, ControlInv, TableInv
<1>1. k \in Key /\ a \in Loc /\ req[w].kind \in Keyed
  BY CallBucket DEF Writes, Keyed
<1>2. CASE bkey[a] = k
  <2>1. Stored(k) = bdata[a] /\ Stored(k) # Absent
    BY <1>1, <1>2, StoredIn
  <2>. QED
    BY <1>1, <1>2, <2>1 DEF Cache!Old
<1>3. CASE bkey[a] # k
  <2>1. \A l \in Loc : bkey[l] # k
    BY <1>1, <1>3, SearchDecides
  <2>2. Stored(k) = Absent
    BY <2>1, StoredNowhere
  <2>3. bkey[a] = NoKey => bdata[a] = NoData
    BY <1>1 DEF EmptyInv
  <2>. QED
    BY <1>1, <1>3, <2>2, <2>3 DEF Cache!Old
<1>. QED
  BY <1>2, <1>3

LEMMA StopRefines ==
  ASSUME IInv, NEW w \in Rank, WriteStop(w)
  PROVE  Cache!Accumulate(w) \/ UNCHANGED Cache!cacheVars
<1>. DEFINE k == req[w].key
            a == at[w]
<1>. ControlInv /\ TypeOK /\ CallInv(w)
  BY DEF IInv, ControlInv
<1>1. PICK seen \in Seen(w, a) :
        LET evicts == seen.key \notin {NoKey, k}
            new == Entry(w, seen, evicts)
        IN  /\ evicts => idx[w] = IndexCount
            /\ IF new = Reject
               THEN Finish(w, "rejected", NoData) /\ UNCHANGED send
               ELSE /\ send' = [send EXCEPT ![w] = new]
                    /\ reply' = [reply EXCEPT ![w] =
                         [status |-> IF evicts THEN "eviction" ELSE "success",
                          data |-> NoData]]
                    /\ pc' = [pc EXCEPT ![w] = "put"]
  BY DEF WriteStop, PutStatus
<1>. DEFINE evicts == seen.key \notin {NoKey, k}
            new == Entry(w, seen, evicts)
<1>2. pc[w] = "probe" /\ Writes(w) /\ req' = req /\ UNCHANGED tableVars
  BY DEF WriteStop, PutStatus
<1>3. seen.key = bkey[a] /\ seen.data = bdata[a]
  BY <1>2, SeenExact
<1>4. k \in Key /\ req[w].data \in Data
  BY <1>2, CallBucket DEF Writes, Keyed, TypeOK, Requests
<1>5. \A x \in Key : Stored(x)' = Stored(x)
  BY <1>2, StoredFrame
<1>6. CASE new = Reject
  <2>1. req[w].kind = "accumulate"
    BY <1>2, <1>4, <1>6, DataAssumption DEF Writes, Entry
  <2>2. new = Merge[Cache!Old(k)][req[w].data]
    BY <1>1, <1>2, <1>3, <2>1, OldEntry DEF Entry
  <2>3. Cache!Answer(w, "rejected", NoData)
    BY <1>1, <1>6, FinishAnswers
  <2>4. Cache!InCall(w, "accumulate")
    BY <1>2, <2>1 DEF Cache!InCall, Cache!NoReply, CallInv, NoReply, Answered
  <2>5. Cache!Accumulate(w)
    BY <1>2, <1>5, <1>6, <2>2, <2>3, <2>4 DEF Cache!Accumulate
  <2>. QED
    BY <2>5
<1>7. CASE new # Reject
  <2>1. reply[w] = NoReply
    BY <1>2 DEF CallInv
  <2>2. pc' = [pc EXCEPT ![w] = "put"] /\ \A v \in Rank \ {w} : reply'[v] = reply[v]
    BY <1>1, <1>7 DEF TypeOK
  <2>3. \A v \in Rank : Answered(v)' = Answered(v)
    BY <1>2, <2>1, <2>2 DEF Answered, TypeOK
  <2>. QED
    BY <1>2, <2>3, CacheFrame
<1>. QED
  BY <1>6, <1>7

\* What the table holds after a Put.
LEMMA PutStores ==
  ASSUME IInv, NEW w \in Rank, Put(w), NEW x \in Key
  PROVE  Stored(x)' = IF x = req[w].key THEN send[w]
                      ELSE IF x = bkey[at[w]] THEN Absent ELSE Stored(x)
<1>. DEFINE k == req[w].key
            a == at[w]
<1>. ControlInv /\ TableInv /\ TypeOK /\ ProbeChain
  BY DEF IInv, ControlInv, TableInv
<1>0. pc[w] = "put" /\ req[w].kind \in Keyed /\ (bkey[a] \in {NoKey, k} \/ idx[w] = IndexCount)
  BY PutStops DEF Put
<1>1. k \in Key /\ a \in Loc
  BY PutStops, CallBucket DEF Put
<1>2. /\ bkey'[a] = k /\ bdata'[a] = send[w]
      /\ \A l \in Loc : l # a => bkey'[l] = bkey[l] /\ bdata'[l] = bdata[l]
  BY <1>1 DEF Put, TypeOK
<1>3. ASSUME NEW l \in Loc, \A m \in Loc : bkey'[m] = x <=> m = l
      PROVE  Stored(x)' = bdata'[l]
  <2>1. HomeOf(x)' \in Loc /\ bkey'[HomeOf(x)'] = x
    BY <1>3 DEF HomeOf
  <2>. QED
    BY <1>3, <2>1 DEF Stored
<1>4. CASE x = k
  <2>1. \A m \in Loc : m # a => bkey[m] # k
    BY <1>0, SearchDecides
  <2>2. \A m \in Loc : bkey'[m] = x <=> m = a
    BY <1>1, <1>2, <1>4, <2>1
  <2>. QED
    BY <1>1, <1>2, <1>3, <1>4, <2>2
<1>5. CASE x # k /\ \E l \in Loc : l # a /\ bkey[l] = x
  <2>1. PICK l \in Loc : l # a /\ bkey[l] = x
    BY <1>5
  <2>2. \A m \in Loc : bkey[m] = x => m = l
    BY <2>1, ChainUnique, DataAssumption DEF Locations
  <2>3. \A m \in Loc : bkey'[m] = x <=> m = l
    BY <1>1, <1>2, <1>5, <2>1, <2>2
  <2>4. Stored(x)' = bdata[l]
    BY <1>2, <1>3, <2>1, <2>3
  <2>5. Stored(x) = bdata[l]
    BY <2>1, StoredIn
  <2>6. x # bkey[a]
    BY <1>1, <2>1, <2>2
  <2>. QED
    BY <1>5, <2>4, <2>5, <2>6
<1>6. CASE x # k /\ ~ \E l \in Loc : l # a /\ bkey[l] = x
  <2>1. \A l \in Loc : bkey'[l] # x
    BY <1>1, <1>2, <1>6
  <2>2. Stored(x)' = Absent
    BY <2>1 DEF Stored
  <2>3. x # bkey[a] => Stored(x) = Absent
    BY <1>6, StoredNowhere
  <2>. QED
    BY <1>6, <2>2, <2>3
<1>. QED
  BY <1>4, <1>5, <1>6

LEMMA PutRefines ==
  ASSUME IInv, NEW w \in Rank, Put(w)
  PROVE  Cache!Write(w) \/ Cache!Accumulate(w)
<1>. DEFINE k == req[w].key
            a == at[w]
            d == send[w]
            v == bkey[a]
<1>. ControlInv /\ TableInv /\ TypeOK /\ CallInv(w) /\ StopInv(w) /\ ProbeChain
  BY DEF IInv, ControlInv, TableInv
<1>1. pc[w] = "put" /\ pc' = [pc EXCEPT ![w] = "unlock"] /\ UNCHANGED <<req, reply>>
  BY DEF Put
<1>2. k \in Key /\ a \in Loc /\ req[w].kind \in Keyed /\ Writes(w)
  BY <1>1, PutStops, CallBucket DEF CallInv
<1>3. reply[w].status \in {"success", "eviction"} /\ reply[w].data = NoData
  BY <1>1 DEF CallInv, StopInv
<1>4. Cache!Answer(w, reply[w].status, NoData)
  <2>1. \A u \in Rank \ {w} : Answered(u)' = Answered(u)
    BY <1>1 DEF Answered, TypeOK
  <2>2. Answered(w)' = [status |-> reply[w].status, data |-> NoData]
    BY <1>1, <1>3 DEF Answered, TypeOK
  <2>. QED
    BY <2>1, <2>2, AnswerStep
<1>5. Cache!Replace(w, d)
  <2>1. CASE reply[w].status = "success"
    <3>1. v \in {NoKey, k}
      BY <1>1, <2>1 DEF StopInv
    <3>2. \A x \in Key : Stored(x)' = IF x = k THEN d ELSE Stored(x)
      BY <3>1, PutStores, DataAssumption
    <3>. QED
      BY <1>4, <2>1, <3>2 DEF Cache!Replace, Cache!Written
  <2>2. CASE reply[w].status = "eviction"
    <3>1. v \notin {NoKey, k}
      BY <1>1, <2>2 DEF StopInv
    <3>2. v \in Key /\ Stored(v) # Absent
      BY <1>2, <3>1, StoredIn DEF TypeOK
    <3>3. \A x \in Key : Stored(x)' = IF x = k THEN d ELSE IF x \in {v} THEN Absent
                                     ELSE Stored(x)
      BY PutStores
    <3>4. v \in Cache!Present \ {k}
      BY <3>1, <3>2 DEF Cache!Present
    <3>. QED
      BY <1>4, <2>2, <3>3, <3>4 DEF Cache!Replace, Cache!Written
  <2>. QED
    BY <1>3, <2>1, <2>2
<1>6. CASE req[w].kind = "write"
  <2>1. d = req[w].data
    BY <1>1, <1>3, <1>6 DEF StopInv
  <2>2. Cache!InCall(w, "write")
    BY <1>1, <1>6 DEF Cache!InCall, Cache!NoReply, NoReply, Answered
  <2>. QED
    BY <1>1, <1>5, <2>1, <2>2 DEF Cache!Write
<1>7. CASE req[w].kind = "accumulate"
  <2>1. d = Merge[Cache!Old(k)][req[w].data]
    <3>1. v \in {NoKey, k} \/ idx[w] = IndexCount
      BY <1>1, PutStops
    <3>2. Cache!Old(k) = IF v \notin {NoKey, k} THEN NoData ELSE bdata[a]
      BY <1>1, <1>2, <3>1, OldEntry
    <3>. QED
      BY <1>1, <1>3, <1>7, <3>2 DEF StopInv
  <2>2. Cache!InCall(w, "accumulate")
    BY <1>1, <1>7 DEF Cache!InCall, Cache!NoReply, NoReply, Answered
  <2>3. d # Reject
    BY <1>1 DEF StopInv
  <2>. QED
    BY <1>1, <1>5, <2>1, <2>2, <2>3 DEF Cache!Accumulate
<1>. QED
  BY <1>2, <1>6, <1>7 DEF Writes

LEMMA UnlockRefines ==
  ASSUME IInv, NEW w \in Rank, Unlock(w)
  PROVE  Cache!Return(w)
<1>. TypeOK /\ CallInv(w)
  BY DEF IInv, ControlInv
<1>1. /\ pc[w] = "unlock" /\ pc' = [pc EXCEPT ![w] = "idle"]
      /\ req' = [req EXCEPT ![w] = NoRequest]
      /\ reply' = [reply EXCEPT ![w] = NoReply]
      /\ UNCHANGED tableVars
  BY DEF Unlock
<1>2. Answered(w) # NoReply
  BY <1>1 DEF CallInv, Answered, NoReply
<1>3. Answered(w)' = NoReply /\ \A v \in Rank \ {w} : Answered(v)' = Answered(v)
  BY <1>1 DEF Answered, TypeOK
<1>4. \A x \in Key : Stored(x)' = Stored(x)
  BY <1>1, StoredFrame
<1>. QED
  BY <1>1, <1>2, <1>3, <1>4
     DEF Cache!Return, Cache!NoRequest, Cache!NoReply, NoRequest, NoReply

\* A rank's wipe forgets the keys of its window, all at once.
LEMMA WipeRefines ==
  ASSUME IInv, NEW w \in Rank, Wipe(w)
  PROVE  \E lost \in SUBSET Key : Cache!Forget(lost)
<1>. DEFINE lost == {k \in Key : \E l \in Loc : l[1] = w /\ bkey[l] = k}
<1>. TypeOK /\ PhaseInv /\ ProbeChain /\ \A v \in Rank : CallInv(v)
  BY DEF IInv, ControlInv, TableInv
<1>1. \A v \in Rank : req[v] = NoRequest
  <2>1. \A v \in Rank : phase[v] # "loop"
    BY DEF Wipe
  <2>. QED
    BY <2>1 DEF PhaseInv, CallInv
<1>2. /\ bkey' = [l \in Loc |-> IF l[1] = w THEN NoKey ELSE bkey[l]]
      /\ bdata' = [l \in Loc |-> IF l[1] = w THEN NoData ELSE bdata[l]]
      /\ UNCHANGED <<pc, req, reply>>
  BY DEF Wipe, callVars
<1>3. ASSUME NEW x \in Key
      PROVE  Stored(x)' = IF x \in lost THEN Absent ELSE Stored(x)
  <2>1. CASE \E l \in Loc : l[1] # w /\ bkey[l] = x
    <3>1. PICK l \in Loc : l[1] # w /\ bkey[l] = x
      BY <2>1
    <3>2. \A m \in Loc : bkey[m] = x => m = l
      BY <3>1, ChainUnique, DataAssumption DEF Locations
    <3>3. \A m \in Loc : bkey'[m] = x <=> m = l
      BY <1>2, <3>1, <3>2, DataAssumption
    <3>4. HomeOf(x)' = l
      <4>1. HomeOf(x)' \in Loc /\ bkey'[HomeOf(x)'] = x
        BY <3>3 DEF HomeOf
      <4>. QED
        BY <3>3, <4>1
    <3>5. Stored(x)' = bdata[l]
      BY <1>2, <3>1, <3>3, <3>4 DEF Stored
    <3>6. Stored(x) = bdata[l]
      BY <3>1, StoredIn
    <3>. QED
      BY <3>1, <3>2, <3>5, <3>6
  <2>2. CASE ~ \E l \in Loc : l[1] # w /\ bkey[l] = x
    <3>1. \A l \in Loc : bkey'[l] # x
      BY <1>2, <2>2, DataAssumption
    <3>2. Stored(x)' = Absent
      BY <3>1 DEF Stored
    <3>3. x \notin lost => Stored(x) = Absent
      BY <2>2, StoredNowhere
    <3>. QED
      BY <3>2, <3>3
  <2>. QED
    BY <2>1, <2>2
<1>4. \A v \in Rank : Answered(v)' = Answered(v)
  BY <1>2 DEF Answered
<1>5. Cache!Forget(lost)
  BY <1>1, <1>2, <1>3, <1>4 DEF Cache!Forget, Cache!NoRequest, NoRequest
<1>. QED
  BY <1>5

\* Locks, probes and the bookkeeping of the iteration are stutters.
LEMMA QuietRefines ==
  ASSUME TypeOK, NEW w \in Rank,
         \/ WinLock(w) \/ ProbeNext(w)
         \/ PostIter(w) \/ WriteRows(w) \/ LeaveDump(w)
         \/ UsedIdxFactor \/ LoopBarrier \/ UNCHANGED vars
  PROVE  UNCHANGED Cache!cacheVars
<1>1. CASE WinLock(w)
  <2>1. \A v \in Rank : Answered(v)' = Answered(v)
    BY <1>1 DEF WinLock, Answered, TypeOK
  <2>. QED
    BY <1>1, <2>1, CacheFrame DEF WinLock
<1>2. CASE ProbeNext(w)
  <2>1. \A v \in Rank : Answered(v)' = Answered(v)
    BY <1>2 DEF ProbeNext, Answered
  <2>. QED
    BY <1>2, <2>1, CacheFrame DEF ProbeNext
<1>3. CASE PostIter(w) \/ WriteRows(w) \/ LeaveDump(w) \/ UsedIdxFactor
             \/ LoopBarrier \/ UNCHANGED vars
  <2>1. UNCHANGED <<tableVars, pc, req, reply>>
    BY <1>3 DEF PostIter, WriteRows, LeaveDump, UsedIdxFactor, LoopBarrier,
                vars, callVars, tableVars
  <2>2. \A v \in Rank : Answered(v)' = Answered(v)
    BY <2>1 DEF Answered
  <2>. QED
    BY <2>1, <2>2, CacheFrame
<1>. QED
  BY <1>1, <1>2, <1>3

LEMMA StepRefines ==
  ASSUME IInv, NEW w \in Rank, Step(w)
  PROVE  Cache!Next \/ UNCHANGED Cache!cacheVars
<1>. TypeOK
  BY DEF IInv, ControlInv
<1>1. CASE ProbeNext(w)
  BY <1>1, QuietRefines
<1>2. CASE ReadHit(w) \/ ReadMiss(w)
  BY <1>2, ReadRefines DEF Cache!Next
<1>3. CASE LocationGet(w)
  BY <1>3, LocationRefines DEF Cache!Next
<1>4. CASE WriteStop(w)
  BY <1>4, StopRefines DEF Cache!Next
<1>5. CASE Put(w)
  BY <1>5, PutRefines DEF Cache!Next
<1>6. CASE Unlock(w)
  BY <1>6, UnlockRefines DEF Cache!Next
<1>. QED
  BY <1>1, <1>2, <1>3, <1>4, <1>5, <1>6 DEF Step

LEMMA NextRefines ==
  IInv /\ [Next]_vars => Cache!Next \/ UNCHANGED Cache!cacheVars
<1>. SUFFICES ASSUME IInv, [Next]_vars
              PROVE  Cache!Next \/ UNCHANGED Cache!cacheVars
  OBVIOUS
<1>. TypeOK
  BY DEF IInv, ControlInv
<1>1. ASSUME NEW w \in Rank, NEW k \in Key, CallRead(w, k)
      PROVE  Cache!Next
  BY <1>1, CallEnters, EnterRefines DEF Cache!Next
<1>2. ASSUME NEW w \in Rank, NEW k \in Key, NEW d \in Input,
             NEW kind \in {"write", "accumulate"}, CallWrite(w, kind, k, d)
      PROVE  Cache!Next
  BY <1>2, CallEnters, EnterRefines DEF Cache!Next
<1>3. ASSUME NEW w \in Rank, NEW l \in Loc, CallLocation(w, l)
      PROVE  Cache!Next
  BY <1>3, CallEnters, EnterRefines DEF Cache!Next
<1>4. ASSUME NEW w \in Rank, Step(w)
      PROVE  Cache!Next \/ UNCHANGED Cache!cacheVars
  BY <1>4, StepRefines
<1>5. ASSUME NEW w \in Rank, Wipe(w)
      PROVE  Cache!Next
  BY <1>5, WipeRefines DEF Cache!Next
<1>6. ASSUME NEW w \in Rank,
             \/ WinLock(w) \/ PostIter(w) \/ WriteRows(w) \/ LeaveDump(w)
             \/ UsedIdxFactor \/ LoopBarrier \/ UNCHANGED vars
      PROVE  UNCHANGED Cache!cacheVars
  BY <1>6, QuietRefines
<1>7. 0 \in Rank
  BY SizeAssumption DEF Rank
<1>. HIDE DEF Rank, Cache!Next, Cache!cacheVars, CallRead, CallWrite, CallLocation
<1>. QED
  BY <1>1, <1>2, <1>3, <1>4, <1>5, <1>6, <1>7 DEF Next

\* The table implements the cache that forgets but never lies.
THEOREM Refinement == Spec => ImplementsCache
<1>1. Init => Cache!Init
  BY InitCache
<1>2. IInv /\ [Next]_vars => [Cache!Next]_Cache!cacheVars
  BY NextRefines
<1>. QED
  BY <1>1, <1>2, Invariant, PTL DEF Spec, ImplementsCache, Cache!Spec
----------------------------------------------------------------------------
(* The dump file                                                           *)

\* The buckets of the ranks that have written their windows.
Dumped == {m \in Locations : phase[m[1]] \in {"dumped", "reduce"}}

LEMMA NextRows == IInv /\ RowsInv /\ [Next]_vars => RowsInv'
<1>. SUFFICES ASSUME IInv, RowsInv, [Next]_vars, Snapshots,
                     \A w \in Rank : phase'[w] \notin {"flush", "flushed", "end"}
              PROVE  rows' = {<<bkey'[l], bdata'[l]>> : l \in Dumped'}
  BY DEF RowsInv, Dumped, Locations
<1>. TypeOK /\ PhaseInv
  BY DEF IInv, ControlInv
<1>0. 0 \in Rank /\ \A l \in Loc : l[1] \in Rank
  BY SizeAssumption DEF Rank, Loc
<1>1. (\A w \in Rank : phase[w] \notin {"flush", "flushed", "end"}) =>
        rows = {<<bkey[l], bdata[l]>> : l \in Dumped}
  BY DEF RowsInv, Dumped
<1>2. ASSUME UNCHANGED <<tableVars, phase, rows>>
      PROVE  rows' = {<<bkey'[l], bdata'[l]>> : l \in Dumped'}
  BY <1>1, <1>2 DEF Dumped, Locations, tableVars
<1>3. ASSUME UNCHANGED <<tableVars, rows>>,
             \A v \in Rank : phase'[v] \in {"dumped", "reduce"}
                               <=> phase[v] \in {"dumped", "reduce"},
             \A v \in Rank : phase[v] \notin {"flush", "flushed", "end"}
      PROVE  rows' = {<<bkey'[l], bdata'[l]>> : l \in Dumped'}
  <2>1. Dumped' = Dumped
    BY <1>0, <1>3 DEF Dumped, Locations, tableVars
  <2>. QED
    BY <1>1, <1>3, <2>1 DEF tableVars
<1>4. ASSUME NEW w \in Rank, PostIter(w)
      PROVE  rows' = {<<bkey'[l], bdata'[l]>> : l \in Dumped'}
  <2>1. phase[w] = "loop" /\ phase' = [phase EXCEPT ![w] = "dump"]
        /\ UNCHANGED <<tableVars, rows>>
    BY <1>4 DEF PostIter
  <2>. QED
    BY <1>3, <2>1 DEF TypeOK
<1>5. ASSUME NEW w \in Rank, LeaveDump(w)
      PROVE  rows' = {<<bkey'[l], bdata'[l]>> : l \in Dumped'}
  <2>1. phase[w] = "dumped" /\ phase' = [phase EXCEPT ![w] = "reduce"]
        /\ UNCHANGED <<tableVars, rows>>
    BY <1>5 DEF LeaveDump
  <2>. QED
    BY <1>3, <2>1 DEF TypeOK
<1>6. ASSUME NEW w \in Rank, WriteRows(w)
      PROVE  rows' = {<<bkey'[l], bdata'[l]>> : l \in Dumped'}
  <2>1. /\ phase[w] = "dump" /\ phase' = [phase EXCEPT ![w] = "dumped"]
        /\ rows' = rows \cup {<<bkey[l], bdata[l]>> : l \in {m \in Locations : m[1] = w}}
        /\ UNCHANGED tableVars
    BY <1>6 DEF WriteRows, DumpBarrier, Occupied
  <2>2. \A v \in Rank : phase[v] \notin {"flush", "flushed", "end"}
    BY <2>1 DEF TypeOK
  <2>3. Dumped' = Dumped \cup {m \in Locations : m[1] = w}
    BY <1>0, <2>1 DEF Dumped, Locations, tableVars, TypeOK
  <2>. QED
    BY <1>1, <2>1, <2>2, <2>3 DEF tableVars
<1>7. ASSUME NEW w \in Rank, Put(w)
      PROVE  rows' = {<<bkey'[l], bdata'[l]>> : l \in Dumped'}
  <2>1. phase[w] = "loop" /\ UNCHANGED <<phase, rows>>
    BY <1>7 DEF Put, PhaseInv
  <2>2. \A v \in Rank : phase[v] \notin {"dumped", "reduce", "flush", "flushed", "end"}
    BY <2>1 DEF PhaseInv
  <2>3. Dumped = {} /\ Dumped' = {}
    BY <1>0, <2>1, <2>2 DEF Dumped, Locations
  <2>. QED
    BY <1>1, <2>1, <2>2, <2>3
<1>8. ASSUME UsedIdxFactor \/ \E w \in Rank : Wipe(w)
      PROVE  FALSE
  BY <1>0, <1>8 DEF UsedIdxFactor, Wipe, TypeOK
<1>9. ASSUME LoopBarrier
      PROVE  rows' = {<<bkey'[l], bdata'[l]>> : l \in Dumped'}
  <2>1. rows' = {} /\ \A v \in Rank : phase'[v] = "loop"
    BY <1>9 DEF LoopBarrier
  <2>2. Dumped' = {}
    BY <1>0, <2>1 DEF Dumped, Locations
  <2>. QED
    BY <2>1, <2>2
<1>10. ASSUME NEW w \in Rank,
              \/ \E k \in Key : CallRead(w, k)
              \/ \E k \in Key, d \in Input, kind \in {"write", "accumulate"} :
                   CallWrite(w, kind, k, d)
              \/ \E l \in Loc : CallLocation(w, l)
              \/ WinLock(w)
       PROVE  UNCHANGED <<tableVars, phase, rows>>
  BY <1>10 DEF CallRead, CallWrite, CallLocation, Enter, WinLock, tableVars
<1>11. ASSUME NEW w \in Rank,
              \/ ProbeNext(w) \/ ReadHit(w) \/ ReadMiss(w) \/ LocationGet(w)
              \/ WriteStop(w) \/ Unlock(w)
       PROVE  UNCHANGED <<tableVars, phase, rows>>
  BY <1>11 DEF ProbeNext, ReadHit, ReadMiss, LocationGet, WriteStop, Unlock, tableVars
<1>12. UNCHANGED vars => UNCHANGED <<tableVars, phase, rows>>
  BY DEF vars, tableVars
<1>. HIDE DEF Dumped, CallRead, CallWrite, CallLocation, tableVars
<1>. QED
  BY <1>2, <1>4, <1>5, <1>6, <1>7, <1>8, <1>9, <1>10, <1>11, <1>12 DEF Next, Step

LEMMA RowsComplete == IInv /\ RowsInv => DumpComplete
<1>. SUFFICES ASSUME IInv, RowsInv, Snapshots,
                     \A w \in Rank : phase[w] \in {"dumped", "reduce"}
              PROVE  rows = {<<k, Stored(k)>> : k \in {x \in Key : Stored(x) # Absent}}
  BY DEF DumpComplete
<1>. TypeOK /\ ProbeChain
  BY DEF IInv, ControlInv, TableInv
<1>1. {m \in Locations : phase[m[1]] \in {"dumped", "reduce"}} = Locations
  BY DEF Locations, Loc
<1>2. rows = {<<bkey[l], bdata[l]>> : l \in Locations}
  BY <1>1 DEF RowsInv
<1>3. \A l \in Locations : /\ bkey[l] \in Key
                           /\ Stored(bkey[l]) = bdata[l] /\ Stored(bkey[l]) # Absent
  BY StoredIn DEF Locations, TypeOK
<1>4. \A k \in Key : Stored(k) # Absent => \E l \in Locations : bkey[l] = k
  BY StoredSomewhere, DataAssumption DEF Locations
<1>. HIDE DEF Stored, Locations
<1>5. ASSUME NEW l \in Locations
      PROVE  <<bkey[l], bdata[l]>> \in
               {<<k, Stored(k)>> : k \in {x \in Key : Stored(x) # Absent}}
  BY <1>3
<1>6. ASSUME NEW k \in Key, Stored(k) # Absent
      PROVE  <<k, Stored(k)>> \in {<<bkey[l], bdata[l]>> : l \in Locations}
  <2>1. PICK l \in Locations : bkey[l] = k
    BY <1>4, <1>6
  <2>. QED
    BY <1>3, <2>1
<1>. QED
  BY <1>2, <1>5, <1>6

\* A finished dump holds every entry of the table, complete, and nothing else.
THEOREM DumpCorrect == Spec => []DumpComplete
<1>1. Init => RowsInv
  <2>. SUFFICES ASSUME Init PROVE rows = {} /\ Locations = {}
    BY DEF RowsInv
  <2>. QED
    BY DEF Init, Locations
<1>. QED
  BY <1>1, NextRows, RowsComplete, Invariant, PTL DEF Spec
----------------------------------------------------------------------------
(* Restarts                                                                *)

fileAll == <<vars, fileVars>>

\* Entry i of the file is still to be read by some rank ...
Pending(i) == \E w \in Rank : \E n \in Nat : i = cur[w] + n * CommSize

\* ... or a rank is in DHT_write with it and has not put it yet ...
InWrite(i) ==
  \E w \in Rank :
    /\ pc[w] \in {"lock", "probe", "put"}
    /\ req[w].key = file[i][1]

\* ... or its key is in the table, or was evicted from it.
Done(i) == Stored(file[i][1]) # Absent \/ EvictedOnRead(file[i][1])

\* What a call is while the file is being read.
RestoreCall(w) ==
  /\ req[w].kind = "write"
  /\ \E i \in 1 .. Len(file) :
       req[w].key = file[i][1] /\ req[w].data = file[i][2]

ReadInv ==
  /\ \A w \in Rank : phase[w] = "loop"
  /\ rows = {}
  /\ \A w \in Rank : pc[w] # "idle" => RestoreCall(w)
  /\ \A l \in Locations : \E i \in 1 .. Len(file) :
       bkey[l] = file[i][1] /\ bdata[l] = file[i][2]
  /\ \A i \in 1 .. Len(file) : Pending(i) \/ InWrite(i) \/ Done(i)

FileType ==
  /\ file \in Seq(Key \X Data)
  /\ cur \in [Rank -> Nat \ {0}]

\* Entries are in the dump only while no rank is in the work loop.
RowsQuiet ==
  /\ IsFiniteSet(rows)
  /\ rows # {} => \A w \in Rank : phase[w] # "loop"

\* The inductive invariant.  A dump leaves nobody in a call, so that the restart
\* finds the ranks outside of the table; while the file is read, each entry is
\* before, in or behind the call that writes it.
FileInv ==
  /\ IInv /\ RowsInv
  /\ FileType
  /\ RowsQuiet
  /\ Reading => ReadInv
----------------------------------------------------------------------------
(* The file                                                                *)

\* A snapshot is a finite sequence of its entries.
LEMMA SnapshotType ==
  ASSUME NEW S, S \subseteq Key \X Data, IsFiniteSet(S), NEW f \in SetToSeqs(S)
  PROVE  f \in Seq(Key \X Data)
<1>1. Cardinality(S) \in Nat
  BY FS_CardinalityType
<1>2. f \in [1 .. Cardinality(S) -> S]
  BY DEF SetToSeqs
<1>3. f \in [1 .. Cardinality(S) -> Key \X Data]
  BY <1>2
<1>. QED
  BY <1>1, <1>3

LEMMA EntryType ==
  ASSUME FileType, NEW i \in 1 .. Len(file)
  PROVE  /\ file[i] \in Key \X Data
         /\ file[i][1] \in Key /\ file[i][2] \in Data
         /\ file[i] = <<file[i][1], file[i][2]>>
<1>1. file[i] \in Key \X Data
  BY DEF FileType
<1>. QED
  BY <1>1

\* The ranks deal the entries out: before the first is read, all are pending.
LEMMA AllPending ==
  ASSUME cur = [w \in Rank |-> First(w)], NEW i \in Nat \ {0}
  PROVE  Pending(i)
<1>. DEFINE w == (i - 1) % CommSize
            n == (i - 1) \div CommSize
<1>1. w \in 0 .. CommSize - 1 /\ n \in Nat /\ i - 1 = n * CommSize + w
  <2>1. CommSize \in Nat \ {0} /\ i - 1 \in Nat
    BY SizeAssumption
  <2>. HIDE DEF w, n
  <2>2. w \in 0 .. CommSize - 1 /\ n \in Nat
    BY <2>1 DEF w, n
  <2>3. i - 1 = CommSize * n + w
    BY <2>1 DEF w, n
  <2>. QED
    BY <2>1, <2>2, <2>3
<1>. HIDE DEF w, n
<1>2. cur[w] = w + 1
  BY <1>1 DEF First, Rank
<1>3. i = cur[w] + n * CommSize
  <2>1. n * CommSize \in Nat
    BY <1>1, SizeAssumption
  <2>. QED
    BY <1>1, <1>2, <2>1
<1>. QED
  BY <1>1, <1>3 DEF Pending, Rank
----------------------------------------------------------------------------
(* The table's invariant across the new steps                              *)

\* A call out of the file enters like any other write.
LEMMA RestoreIInv ==
  ASSUME FileInv, NEW w \in Rank, Restore(w)
  PROVE  /\ IInv' /\ UNCHANGED <<tableVars, reply, rows, file, phase>>
         /\ pc[w] = "idle" /\ cur[w] \in 1 .. Len(file)
         /\ pc' = [pc EXCEPT ![w] = "lock"]
         /\ req' = [req EXCEPT ![w] = [kind |-> "write", key |-> file[cur[w]][1],
                                       data |-> file[cur[w]][2]]]
         /\ cur' = [cur EXCEPT ![w] = cur[w] + CommSize]
<1>. DEFINE k == file[cur[w]][1]
            d == file[cur[w]][2]
<1>1. /\ UNCHANGED <<bkey, bdata, send, reply, phase, calls, sum_idx, cnt_idx, rows, file>>
      /\ pc[w] = "idle" /\ cur[w] <= Len(file) /\ Reading
      /\ pc' = [pc EXCEPT ![w] = "lock"]
      /\ req' = [req EXCEPT ![w] = [kind |-> "write", key |-> k, data |-> d]]
      /\ at' = [at EXCEPT ![w] = Slot(k, 1)]
      /\ idx' = [idx EXCEPT ![w] = 1]
      /\ cur' = [cur EXCEPT ![w] = cur[w] + CommSize]
  BY DEF Restore, tableVars, countVars, FileInv, FileType
<1>2. cur[w] \in 1 .. Len(file)
  BY <1>1 DEF FileInv, FileType
<1>3. k \in Key /\ d \in Data
  BY <1>2, EntryType DEF FileInv
<1>. HIDE DEF k, d
<1>4. 1 \in 1 .. IndexCount /\ Slot(k, 1) \in Loc
  BY <1>3, SizeAssumption, SlotType
<1>. TypeOK /\ LockInv /\ PhaseInv /\ (\A v \in Rank : CallInv(v))
  BY DEF FileInv, IInv, ControlInv
<1>. (\A v \in Rank : SearchInv(v) /\ StopInv(v)) /\ EmptyInv /\ ProbeChain
  BY DEF FileInv, IInv, TableInv
<1>5. TypeOK'
  BY <1>1, <1>3, <1>4 DEF TypeOK, Requests, Keyed
<1>6. LockInv'
  BY <1>1 DEF LockInv, Holding, Compatible, Exclusive, Writes, TypeOK
<1>7. ASSUME NEW v \in Rank PROVE CallInv(v)'
  BY <1>1 DEF CallInv, Writes, Keyed, TypeOK
<1>8. PhaseInv'
  <2>1. phase[w] = "loop"
    BY <1>1 DEF FileInv, ReadInv
  <2>. QED
    BY <1>1, <2>1 DEF PhaseInv, TypeOK
<1>9. ASSUME NEW v \in Rank PROVE SearchInv(v)' /\ StopInv(v)'
  <2>1. CASE v = w
    BY <1>1, <2>1 DEF SearchInv, StopInv, TypeOK
  <2>2. CASE v # w
    BY <1>1, <2>2, SearchFrame DEF TypeOK, tableVars
  <2>. QED
    BY <2>1, <2>2
<1>10. ProbeChain' /\ EmptyInv'
  BY <1>1, TableFrame DEF tableVars
<1>11. IInv'
  BY <1>5, <1>6, <1>7, <1>8, <1>9, <1>10 DEF IInv, ControlInv, TableInv
<1>. QED
  BY <1>1, <1>2, <1>11 DEF k, d, tableVars

\* The dump of a run leaves nobody in a call.
LEMMA RestartQuiet ==
  ASSUME FileInv, Restart
  PROVE  \A w \in Rank : pc[w] = "idle" /\ req[w] = NoRequest
BY DEF FileInv, RowsQuiet, Restart, IInv, ControlInv, PhaseInv, CallInv

\* The tables of the next run are empty, and no call is under way.
LEMMA RestartIInv ==
  ASSUME FileInv, Restart
  PROVE  IInv'
<1>1. /\ bkey' = [l \in Loc |-> NoKey] /\ bdata' = [l \in Loc |-> NoData]
      /\ phase' = [w \in Rank |-> "loop"] /\ calls' = [w \in Rank |-> MaxCalls]
      /\ sum_idx' = [w \in Rank |-> 0] /\ cnt_idx' = [w \in Rank |-> 0]
      /\ rows' = {} /\ UNCHANGED <<pc, req, idx, at, send, reply>>
  BY DEF Restart
<1>2. \A w \in Rank : pc[w] = "idle"
  BY RestartQuiet
<1>. TypeOK /\ LockInv /\ \A v \in Rank : CallInv(v)
  BY DEF FileInv, IInv, ControlInv
<1>3. TypeOK'
  BY <1>1, SizeAssumption, DataAssumption DEF TypeOK
<1>4. LockInv'
  BY <1>1 DEF LockInv, Holding, Compatible, Exclusive, Writes
<1>5. ASSUME NEW v \in Rank PROVE CallInv(v)'
  BY <1>1 DEF CallInv, Writes
<1>6. PhaseInv'
  BY <1>1 DEF PhaseInv
<1>7. ASSUME NEW v \in Rank PROVE SearchInv(v)' /\ StopInv(v)'
  BY <1>1, <1>2 DEF SearchInv, StopInv
<1>8. EmptyInv'
  BY <1>1 DEF EmptyInv
<1>9. ProbeChain'
  BY <1>1 DEF ProbeChain, Locations
<1>. QED
  BY <1>3, <1>4, <1>5, <1>6, <1>7, <1>8, <1>9 DEF IInv, ControlInv, TableInv
----------------------------------------------------------------------------
(* Reading the file                                                        *)

\* A key is in the table when some bucket has it.
LEMMA StoredWhere ==
  ASSUME TypeOK, ProbeChain, NEW k \in Key
  PROVE  Stored(k) # Absent <=> \E l \in Loc : bkey[l] = k
BY StoredIn, StoredSomewhere

\* The same of the next state.
LEMMA StoredNext ==
  ASSUME TypeOK', NEW k
  PROVE  Stored(k)' # Absent <=> \E l \in Loc : bkey'[l] = k
<1>1. CASE \E l \in Loc : bkey'[l] = k
  <2>1. HomeOf(k)' \in Loc
    BY <1>1 DEF HomeOf
  <2>2. Stored(k)' = bdata'[HomeOf(k)']
    BY <1>1 DEF Stored
  <2>3. bdata'[HomeOf(k)'] \in Data
    BY <2>1 DEF TypeOK
  <2>. QED
    BY <1>1, <2>2, <2>3, DataAssumption
<1>2. CASE ~ \E l \in Loc : bkey'[l] = k
  BY <1>2 DEF Stored
<1>. QED
  BY <1>1, <1>2

\* A call that puts has a bucket, and evicts at its last candidate only.
LEMMA PutAt ==
  ASSUME IInv, NEW w \in Rank, Put(w)
  PROVE  /\ req[w].key \in Key /\ at[w] \in Loc
         /\ bkey' = [bkey EXCEPT ![at[w]] = req[w].key]
         /\ bkey[at[w]] \notin {NoKey, req[w].key} => at[w] = Slot(req[w].key, IndexCount)
<1>1. pc[w] = "put"
  BY DEF Put
<1>2. /\ req[w].kind \in Keyed
      /\ bkey[at[w]] \in {NoKey, req[w].key} \/ idx[w] = IndexCount
  BY <1>1, PutStops DEF IInv
<1>3. req[w].key \in Key /\ at[w] = Slot(req[w].key, idx[w]) /\ at[w] \in Loc
  BY <1>2, CallBucket DEF IInv
<1>. QED
  BY <1>2, <1>3 DEF Put

\* An entry that was written stays, or makes way at the last candidate of
\* another one; one that was evicted keeps the buckets before it taken.
LEMMA PutKeeps ==
  ASSUME IInv, IInv', NEW w \in Rank, Put(w), NEW k \in Key,
         Stored(k) # Absent \/ EvictedOnRead(k)
  PROVE  Stored(k)' # Absent \/ EvictedOnRead(k)'
<1>. DEFINE l == at[w]
            x == req[w].key
<1>1. /\ x \in Key /\ l \in Loc /\ x # NoKey
      /\ bkey' = [bkey EXCEPT ![l] = x]
      /\ bkey[l] \notin {NoKey, x} => l = Slot(x, IndexCount)
  BY PutAt, DataAssumption
<1>. HIDE DEF l, x
<1>2. TypeOK /\ ProbeChain /\ TypeOK' /\ ProbeChain'
  BY DEF IInv, ControlInv, TableInv
<1>3. bkey'[l] = x /\ \A m \in Loc : m # l => bkey'[m] = bkey[m]
  BY <1>1, <1>2 DEF TypeOK
<1>4. Stored(k)' # Absent <=> \E m \in Loc : bkey'[m] = k
  BY <1>2, StoredNext
<1>5. \A q \in 1 .. IndexCount : Slot(k, q) \in Loc
  BY SlotType
<1>6. CASE k = x
  BY <1>1, <1>3, <1>4, <1>6
<1>7. CASE k # x /\ Stored(k) # Absent
  <2>1. PICK m \in Loc : bkey[m] = k
    BY <1>2, <1>7, StoredWhere
  <2>2. CASE m # l
    BY <1>3, <1>4, <2>1, <2>2
  <2>3. CASE m = l
    <3>1. k # NoKey /\ m \in Locations
      BY <2>1, DataAssumption DEF Locations
    <3>2. l = Slot(x, IndexCount)
      BY <1>1, <1>7, <2>1, <2>3, <3>1
    <3>3. PICK p \in 1 .. IndexCount :
            /\ Slot(k, p) = m
            /\ \A q \in 1 .. p - 1 : Slot(k, q) = m \/ bkey[Slot(k, q)] \notin {NoKey, k}
      BY <1>2, <2>1, <3>1 DEF ProbeChain, ChainTo
    <3>4. \A q \in 1 .. p : q \in 1 .. IndexCount /\ (q \in 1 .. p - 1 \/ q = p)
      BY SizeAssumption
    <3>5. ASSUME NEW q \in 1 .. p
          PROVE  bkey'[Slot(k, q)] \notin {NoKey, k}
      <4>1. Slot(k, q) = m \/ bkey[Slot(k, q)] \notin {NoKey, k}
        BY <3>3, <3>4
      <4>. QED
        BY <1>1, <1>3, <1>5, <1>7, <2>3, <3>4, <4>1
    <3>6. bkey'[Slot(k, p)] = x /\ Slot(k, p) = Slot(x, IndexCount)
      BY <1>3, <2>3, <3>2, <3>3
    <3>. QED
      BY <3>5, <3>6 DEF EvictedOnRead
  <2>. QED
    BY <2>2, <2>3
<1>8. CASE k # x /\ EvictedOnRead(k)
  <2>1. PICK p \in 1 .. IndexCount :
          /\ \A q \in 1 .. p : bkey[Slot(k, q)] \notin {NoKey, k}
          /\ Slot(k, p) = Slot(bkey[Slot(k, p)], IndexCount)
    BY <1>8 DEF EvictedOnRead
  <2>2. p \in 1 .. p /\ \A q \in 1 .. p : q \in 1 .. IndexCount
    BY SizeAssumption
  <2>3. \A q \in 1 .. p : bkey'[Slot(k, q)] \notin {NoKey, k}
    BY <1>1, <1>3, <1>5, <1>8, <2>1, <2>2
  <2>4. Slot(k, p) = Slot(bkey'[Slot(k, p)], IndexCount)
    <3>1. CASE Slot(k, p) # l
      BY <1>3, <1>5, <2>1, <3>1
    <3>2. CASE Slot(k, p) = l
      <4>1. bkey'[Slot(k, p)] = x
        BY <1>3, <3>2
      <4>2. bkey[l] = x \/ l = Slot(x, IndexCount)
        BY <1>1, <2>1, <2>2, <3>2
      <4>. QED
        BY <2>1, <3>2, <4>1, <4>2
    <3>. QED
      BY <3>1, <3>2
  <2>. QED
    BY <2>3, <2>4 DEF EvictedOnRead
<1>. QED
  BY <1>6, <1>7, <1>8

LEMMA DoneFrame ==
  ASSUME UNCHANGED tableVars, NEW k
  PROVE  /\ Stored(k)' = Stored(k)
         /\ EvictedOnRead(k)' <=> EvictedOnRead(k)
BY StoredFrame DEF EvictedOnRead, tableVars

\* While the file is read, a step of a call is one of a write out of the file.
LEMMA ReadStep ==
  ASSUME FileInv, Reading, NEW w \in Rank, WinLock(w) \/ Step(w),
         UNCHANGED fileVars, IInv'
  PROVE  ReadInv'
<1>0. TypeOK /\ ReadInv /\ FileType /\ \A v \in Rank : CallInv(v)
  BY DEF FileInv, IInv, ControlInv
<1>1. pc[w] # "idle" /\ req[w].kind = "write" /\ UNCHANGED <<file, cur>>
  <2>1. pc[w] # "idle"
    BY DEF WinLock, Step, ProbeNext, ReadHit, ReadMiss, LocationGet, WriteStop, Put, Unlock
  <2>. QED
    BY <1>0, <2>1 DEF ReadInv, RestoreCall, fileVars
<1>2. WinLock(w) \/ ProbeNext(w) \/ WriteStop(w) \/ Put(w) \/ Unlock(w)
  BY <1>1 DEF Step, ReadHit, ReadMiss, LocationGet
<1>3. /\ UNCHANGED <<phase, rows>>
      /\ \A v \in Rank \ {w} : pc'[v] = pc[v] /\ req'[v] = req[v]
      /\ Unlock(w) \/ req'[w] = req[w]
      /\ Put(w) \/ UNCHANGED tableVars
  BY <1>0, <1>2 DEF WinLock, ProbeNext, WriteStop, Finish, Put, Unlock, TypeOK
<1>4. ASSUME NEW v \in Rank, pc'[v] # "idle"
      PROVE  RestoreCall(v)'
  <2>1. pc[v] # "idle" /\ req'[v] = req[v]
    BY <1>0, <1>1, <1>3, <1>4 DEF Unlock, TypeOK
  <2>. QED
    BY <1>0, <1>1, <2>1 DEF ReadInv, RestoreCall
<1>5. ASSUME NEW l \in Loc, bkey'[l] # NoKey
      PROVE  \E i \in 1 .. Len(file) : bkey'[l] = file[i][1] /\ bdata'[l] = file[i][2]
  <2>1. CASE bkey'[l] = bkey[l] /\ bdata'[l] = bdata[l]
    BY <1>0, <1>5, <2>1 DEF ReadInv, Locations
  <2>2. CASE Put(w) /\ l = at[w]
    <3>1. bkey'[l] = req[w].key /\ bdata'[l] = send[w] /\ pc[w] = "put"
      BY <1>0, <2>2 DEF Put, TypeOK
    <3>2. send[w] = req[w].data
      <4>1. StopInv(w) /\ CallInv(w)
        BY DEF FileInv, IInv, TableInv, ControlInv
      <4>. QED
        BY <1>1, <3>1, <4>1 DEF StopInv, CallInv
    <3>. QED
      BY <1>0, <1>1, <3>1, <3>2 DEF ReadInv, RestoreCall
  <2>. QED
    BY <1>0, <1>3, <2>1, <2>2 DEF Put, TypeOK, tableVars
<1>6. ASSUME NEW i \in 1 .. Len(file)
      PROVE  Pending(i)' \/ InWrite(i)' \/ Done(i)'
  <2>1. CASE Pending(i)
    BY <1>1, <2>1 DEF Pending
  <2>2. CASE Done(i)
    <3>1. PICK k \in Key : k = file[i][1]
      BY <1>0, EntryType
    <3>2. CASE Put(w)
      <4>1. Stored(k) # Absent \/ EvictedOnRead(k)
        BY <2>2, <3>1 DEF Done
      <4>2. Stored(k)' # Absent \/ EvictedOnRead(k)'
        BY <3>2, <4>1, PutKeeps DEF FileInv
      <4>3. k = file'[i][1]
        BY <1>1, <3>1
      <4>. QED
        BY <4>2, <4>3 DEF Done
    <3>3. CASE UNCHANGED tableVars
      BY <1>1, <2>2, <3>3, DoneFrame DEF Done
    <3>. QED
      BY <1>3, <3>2, <3>3
  <2>3. CASE InWrite(i)
    <3>1. PICK v \in Rank : pc[v] \in {"lock", "probe", "put"} /\ req[v].key = file[i][1]
      BY <2>3 DEF InWrite
    <3>2. CASE pc'[v] \in {"lock", "probe", "put"} /\ req'[v] = req[v]
      BY <1>1, <3>1, <3>2 DEF InWrite
    <3>3. CASE Put(w) /\ v = w
      <4>1. PICK k \in Key : k = file[i][1] /\ req[w].key = k
        BY <1>0, <3>1, <3>3, EntryType
      <4>2. bkey'[at[w]] = k /\ at[w] \in Loc
        BY <1>0, <3>3, <4>1, PutAt DEF FileInv, TypeOK
      <4>3. Stored(k)' # Absent
        <5>1. TypeOK'
          BY DEF IInv, ControlInv
        <5>. QED
          BY <4>2, <5>1, StoredNext
      <4>4. k = file'[i][1]
        BY <1>1, <4>1
      <4>. QED
        BY <4>3, <4>4 DEF Done
    <3>4. v = w => \/ Put(w)
                   \/ pc'[w] \in {"lock", "probe", "put"} /\ req'[w] = req[w]
      <4>1. CASE WriteStop(w)
        <5>1. TypeOK' /\ CallInv(w)'
          BY DEF IInv, ControlInv
        <5>2. PICK seen \in Seen(w, at[w]) : TRUE
          BY <4>1 DEF WriteStop
        <5>3. \A s, e : Entry(w, s, e) # Reject
          BY <1>0, <1>1, DataAssumption DEF Entry, TypeOK, Requests
        <5>4. pc' = [pc EXCEPT ![w] = "put"]
          BY <4>1, <5>3 DEF WriteStop
        <5>. QED
          BY <1>0, <1>3, <4>1, <5>4 DEF TypeOK, WriteStop
      <4>. QED
        BY <1>0, <1>2, <3>1, <4>1 DEF WinLock, ProbeNext, Unlock, TypeOK
    <3>. QED
      BY <1>3, <3>1, <3>2, <3>3, <3>4
  <2>. QED
    BY <1>0, <2>1, <2>2, <2>3 DEF ReadInv
<1>. QED
  BY <1>0, <1>1, <1>3, <1>4, <1>5, <1>6 DEF ReadInv, Locations
----------------------------------------------------------------------------
(* The invariant                                                           *)

LEMMA SnapshotOfGiven ==
  ASSUME NEW f \in {<<>>} \cup UNION {SetToSeqs(g) : g \in Given}
  PROVE  f \in Seq(Key \X Data)
<1>1. CASE f = <<>>
  BY <1>1
<1>2. CASE f # <<>>
  <2>1. PICK g \in Given : f \in SetToSeqs(g)
    BY <1>2
  <2>. QED
    BY <2>1, GivenAssumption, SnapshotType
<1>. QED
  BY <1>1, <1>2

\* At the start of a run no entry has been read and the table is empty.
Opened ==
  /\ cur = [w \in Rank |-> First(w)]
  /\ file \in Seq(Key \X Data)
  /\ \A w \in Rank : pc[w] = "idle" /\ phase[w] = "loop"
  /\ rows = {}
  /\ bkey = [l \in Loc |-> NoKey]

LEMMA ReadStarts == Opened => FileType /\ RowsQuiet /\ ReadInv
<1>. SUFFICES ASSUME Opened PROVE FileType /\ RowsQuiet /\ ReadInv
  OBVIOUS
<1>. USE DEF Opened
<1>1. FileType
  BY DEF FileType, First, Rank
<1>2. RowsQuiet
  BY FS_EmptySet DEF RowsQuiet
<1>3. \A i \in 1 .. Len(file) : Pending(i)
  <2>1. Len(file) \in Nat
    OBVIOUS
  <2>. QED
    BY <2>1, AllPending
<1>4. Locations = {}
  BY DEF Locations
<1>. QED
  BY <1>1, <1>2, <1>3, <1>4 DEF ReadInv

LEMMA InitFile == FileInit => FileInv
<1>. SUFFICES ASSUME FileInit PROVE FileInv
  OBVIOUS
<1>1. IInv
  BY InitControl, InitTable DEF FileInit, IInv
<1>2. FileType /\ RowsQuiet /\ ReadInv
  <2>1. Opened
    BY SnapshotOfGiven DEF FileInit, Init, Opened
  <2>. QED
    BY <2>1, ReadStarts
<1>3. RowsInv
  <2>1. rows = {} /\ Locations = {}
    BY DEF FileInit, Init, Locations
  <2>. QED
    BY <2>1 DEF RowsInv
<1>. QED
  BY <1>1, <1>2, <1>3 DEF FileInv

\* No bucket belongs to a dump while all ranks are in the work loop.
LEMMA LoopRows == rows = {} /\ (\A v \in Rank : phase[v] = "loop") => RowsInv
<1>. SUFFICES ASSUME rows = {}, \A v \in Rank : phase[v] = "loop"
              PROVE  RowsInv
  OBVIOUS
<1>1. \A l \in Loc : l[1] \in Rank
  BY DEF Loc
<1>2. {m \in Locations : phase[m[1]] \in {"dumped", "reduce"}} = {}
  BY <1>1 DEF Locations
<1>. QED
  BY <1>2 DEF RowsInv

\* A bucket range has finitely many buckets, so that a dump is finite.
LEMMA OccupiedFinite ==
  ASSUME NEW w \in Rank
  PROVE  IsFiniteSet(Occupied(w))
<1>1. IsFiniteSet(Rank) /\ IsFiniteSet(Index)
  BY FS_Interval, SizeAssumption DEF Rank, Index
<1>2. IsFiniteSet(Loc)
  BY <1>1, FS_Product DEF Loc
<1>. QED
  BY <1>2, FS_Subset DEF Occupied, Locations

LEMMA NextQuiet ==
  ASSUME IInv, RowsQuiet, [Next]_vars
  PROVE  RowsQuiet'
<1>. TypeOK /\ PhaseInv
  BY DEF IInv, ControlInv
<1>0. 0 \in Rank
  BY SizeAssumption DEF Rank
<1>1. ASSUME UNCHANGED rows,
             \A v \in Rank : phase'[v] = "loop" => phase[v] = "loop"
      PROVE  RowsQuiet'
  BY <1>1 DEF RowsQuiet
<1>2. ASSUME NEW w \in Rank, WriteRows(w)
      PROVE  RowsQuiet'
  <2>. DEFINE new == {<<bkey[l], bdata[l]>> : l \in Occupied(w)}
  <2>1. IsFiniteSet(new)
    <3>. DEFINE f == [l \in Occupied(w) |-> <<bkey[l], bdata[l]>>]
    <3>1. f \in Surjection(Occupied(w), new)
      BY DEF Surjection
    <3>. HIDE DEF f, new
    <3>. QED
      BY <3>1, OccupiedFinite, FS_Surjection
  <2>2. rows' = rows \cup new /\ \A v \in Rank : phase[v] \in {"dump", "dumped"}
        /\ phase' = [phase EXCEPT ![w] = "dumped"]
    BY <1>2 DEF WriteRows, DumpBarrier
  <2>. HIDE DEF new
  <2>3. IsFiniteSet(rows')
    BY <2>1, <2>2, FS_Union DEF RowsQuiet
  <2>4. \A v \in Rank : phase'[v] # "loop"
    BY <2>2 DEF TypeOK
  <2>. QED
    BY <2>3, <2>4 DEF RowsQuiet
<1>3. ASSUME LoopBarrier
      PROVE  RowsQuiet'
  BY <1>3, FS_EmptySet DEF LoopBarrier, RowsQuiet
<1>4. ASSUME NEW w \in Rank,
             \/ \E k \in Key : CallRead(w, k)
             \/ \E k \in Key, d \in Input, kind \in {"write", "accumulate"} :
                  CallWrite(w, kind, k, d)
             \/ \E l \in Loc : CallLocation(w, l)
             \/ WinLock(w) \/ Step(w)
      PROVE  UNCHANGED <<rows, phase>>
  BY <1>4 DEF CallRead, CallWrite, CallLocation, Enter, WinLock, Step, ProbeNext,
              ReadHit, ReadMiss, LocationGet, WriteStop, Put, Unlock
<1>5. ASSUME NEW w \in Rank, PostIter(w) \/ LeaveDump(w) \/ Wipe(w)
      PROVE  /\ UNCHANGED rows
             /\ \A v \in Rank : phase'[v] = "loop" => phase[v] = "loop"
  BY <1>5 DEF PostIter, LeaveDump, Wipe, TypeOK
<1>6. ASSUME UsedIdxFactor
      PROVE  /\ UNCHANGED rows
             /\ \A v \in Rank : phase'[v] = "loop" => phase[v] = "loop"
  BY <1>6 DEF UsedIdxFactor
<1>7. UNCHANGED vars => UNCHANGED <<rows, phase>>
  BY DEF vars
<1>. HIDE DEF RowsQuiet, CallRead, CallWrite, CallLocation
<1>. QED
  BY <1>1, <1>2, <1>3, <1>4, <1>5, <1>6, <1>7 DEF Next

\* A restart: the file is a snapshot of what was dumped.
LEMMA RestartFile ==
  ASSUME FileInv, Restart
  PROVE  FileInv'
<1>1. IInv'
  BY RestartIInv
<1>2. PICK entries \in SetToSeqs(rows) : file' = entries
  BY DEF Restart
<1>3. rows \subseteq Key \X Data /\ IsFiniteSet(rows)
  BY DEF FileInv, RowsQuiet, IInv, ControlInv, TypeOK
<1>4. file' \in Seq(Key \X Data)
  BY <1>2, <1>3, SnapshotType
<1>5. /\ cur' = [w \in Rank |-> First(w)] /\ rows' = {}
      /\ \A w \in Rank : pc'[w] = "idle" /\ phase'[w] = "loop"
      /\ bkey' = [l \in Loc |-> NoKey]
  BY RestartQuiet DEF Restart
<1>6. (FileType /\ RowsQuiet /\ ReadInv)'
  <2>1. Opened'
    BY <1>4, <1>5 DEF Opened
  <2>. QED
    BY <2>1, ReadStarts, PTL
<1>7. RowsInv'
  <2>1. (rows = {} /\ (\A v \in Rank : phase[v] = "loop"))'
    BY <1>5
  <2>. QED
    BY <2>1, LoopRows, PTL
<1>. QED
  BY <1>1, <1>6, <1>7 DEF FileInv

\* An entry that a rank takes out of the file is no longer pending, but in its
\* write; the rank's others come one round of the ranks nearer.
LEMMA RestoreFile ==
  ASSUME FileInv, NEW w \in Rank, Restore(w)
  PROVE  FileInv'
<1>1. /\ IInv' /\ UNCHANGED <<tableVars, reply, rows, file, phase>>
      /\ pc[w] = "idle" /\ cur[w] \in 1 .. Len(file)
      /\ pc' = [pc EXCEPT ![w] = "lock"]
      /\ req' = [req EXCEPT ![w] = [kind |-> "write", key |-> file[cur[w]][1],
                                    data |-> file[cur[w]][2]]]
      /\ cur' = [cur EXCEPT ![w] = cur[w] + CommSize]
  BY RestoreIInv
<1>2. FileType /\ RowsQuiet /\ ReadInv /\ TypeOK
  BY DEF FileInv, Restore, IInv, ControlInv
<1>3. FileType' /\ RowsQuiet' /\ RowsInv'
  <2>1. FileType'
    BY <1>1, <1>2, SizeAssumption DEF FileType
  <2>2. RowsQuiet' /\ RowsInv'
    <3>1. (rows = {} /\ (\A v \in Rank : phase[v] = "loop"))'
      BY <1>1, <1>2 DEF ReadInv
    <3>2. RowsInv'
      BY <3>1, LoopRows, PTL
    <3>. QED
      BY <3>1, <3>2, FS_EmptySet DEF RowsQuiet
  <2>. QED
    BY <2>1, <2>2
<1>4. /\ pc'[w] = "lock" /\ req'[w].kind = "write"
      /\ req'[w].key = file[cur[w]][1] /\ req'[w].data = file[cur[w]][2]
      /\ \A v \in Rank \ {w} : pc'[v] = pc[v] /\ req'[v] = req[v] /\ cur'[v] = cur[v]
      /\ cur'[w] = cur[w] + CommSize
  BY <1>1, <1>2 DEF TypeOK, FileType
<1>5. ASSUME NEW v \in Rank, pc'[v] # "idle"
      PROVE  RestoreCall(v)'
  BY <1>1, <1>2, <1>4, <1>5 DEF ReadInv, RestoreCall
<1>6. ASSUME NEW i \in 1 .. Len(file)
      PROVE  Pending(i)' \/ InWrite(i)' \/ Done(i)'
  <2>1. CASE Pending(i)
    <3>1. PICK v \in Rank, n \in Nat : i = cur[v] + n * CommSize
      BY <2>1 DEF Pending
    <3>2. CASE v # w
      BY <1>4, <3>1, <3>2 DEF Pending
    <3>3. CASE v = w /\ n = 0
      <4>1. 0 * CommSize = 0 /\ cur[w] \in Nat /\ i \in Nat
        BY <1>2, SizeAssumption DEF FileType
      <4>2. i = cur[w]
        BY <3>1, <3>3, <4>1
      <4>. QED
        BY <1>1, <1>4, <4>2 DEF InWrite
    <3>4. CASE v = w /\ n # 0
      <4>1. n - 1 \in Nat /\ cur[w] \in Nat /\ CommSize \in Nat
        BY <1>2, <3>4, SizeAssumption DEF FileType
      <4>2. n * CommSize = (n - 1) * CommSize + CommSize
        BY <4>1
      <4>3. i = cur'[w] + (n - 1) * CommSize
        <5>. DEFINE x == n * CommSize
                    y == (n - 1) * CommSize
        <5>1. x = y + CommSize /\ y \in Int
          BY <4>1, <4>2
        <5>2. i = cur[w] + x
          BY <3>1, <3>4
        <5>. HIDE DEF x, y
        <5>3. i = (cur[w] + CommSize) + y
          BY <4>1, <5>1, <5>2
        <5>. QED
          BY <1>4, <5>3 DEF y
      <4>. QED
        BY <4>1, <4>3 DEF Pending
    <3>. QED
      BY <3>2, <3>3, <3>4
  <2>2. CASE InWrite(i)
    <3>1. PICK v \in Rank : pc[v] \in {"lock", "probe", "put"} /\ req[v].key = file[i][1]
      BY <2>2 DEF InWrite
    <3>2. v # w
      BY <1>1, <3>1
    <3>. QED
      BY <1>1, <1>4, <3>1, <3>2 DEF InWrite
  <2>3. CASE Done(i)
    BY <1>1, <2>3, DoneFrame DEF Done
  <2>. QED
    BY <1>2, <2>1, <2>2, <2>3 DEF ReadInv
<1>7. ReadInv'
  <2>1. \A v \in Rank : phase'[v] = "loop"
    BY <1>1, <1>2 DEF ReadInv
  <2>2. rows' = {}
    BY <1>1, <1>2 DEF ReadInv
  <2>3. \A l \in Locations' : \E i \in 1 .. Len(file') :
          bkey'[l] = file'[i][1] /\ bdata'[l] = file'[i][2]
    BY <1>1, <1>2 DEF ReadInv, Locations, tableVars
  <2>. QED
    BY <1>1, <1>5, <1>6, <2>1, <2>2, <2>3 DEF ReadInv
<1>. QED
  BY <1>1, <1>3, <1>7 DEF FileInv

LEMMA NextFile == FileInv /\ [FileNext]_fileAll => FileInv'
<1>. SUFFICES ASSUME FileInv, [FileNext]_fileAll PROVE FileInv'
  OBVIOUS
<1>0. IInv /\ RowsInv /\ FileType /\ RowsQuiet
  BY DEF FileInv
<1>1. CASE Restart
  BY <1>1, RestartFile
<1>2. CASE \E w \in Rank : Restore(w)
  BY <1>2, RestoreFile
<1>3. CASE Reading /\ (\E w \in Rank : WinLock(w) \/ Step(w)) /\ UNCHANGED fileVars
  <2>1. Next
    BY <1>3 DEF Next
  <2>2. IInv' /\ RowsInv' /\ RowsQuiet'
    BY <1>0, <2>1, NextIInv, NextRows, NextQuiet
  <2>3. ReadInv'
    BY <1>3, <2>2, ReadStep
  <2>4. FileType'
    BY <1>0, <1>3 DEF FileType, fileVars
  <2>. QED
    BY <2>2, <2>3, <2>4 DEF FileInv
<1>4. CASE CloseFile
  <2>1. IInv' /\ RowsInv' /\ RowsQuiet'
    BY <1>0, <1>4, NextIInv, NextRows, NextQuiet DEF CloseFile
  <2>2. ~Reading' /\ FileType'
    BY <1>4 DEF CloseFile, Reading, FileType, First, Rank
  <2>. QED
    BY <2>1, <2>2 DEF FileInv
<1>5. CASE ~Reading /\ Next /\ UNCHANGED fileVars
  <2>1. IInv' /\ RowsInv' /\ RowsQuiet'
    BY <1>0, <1>5, NextIInv, NextRows, NextQuiet
  <2>2. ~Reading' /\ FileType'
    BY <1>0, <1>5 DEF fileVars, Reading, FileType
  <2>. QED
    BY <2>1, <2>2 DEF FileInv
<1>6. CASE UNCHANGED fileAll
  <2>1. UNCHANGED vars /\ UNCHANGED fileVars
    BY <1>6 DEF fileAll
  <2>2. IInv' /\ RowsInv' /\ RowsQuiet'
    BY <1>0, <2>1, NextIInv, NextRows, NextQuiet
  <2>3. FileType' /\ (Reading' <=> Reading)
    BY <1>0, <2>1 DEF FileType, fileVars, Reading
  <2>4. ReadInv => ReadInv'
    <3>1. UNCHANGED <<bkey, bdata, pc, req, phase, rows, file, cur>>
      BY <2>1 DEF vars, fileVars
    <3>2. \A i \in 1 .. Len(file) : Done(i) => Done(i)'
      BY <3>1, DoneFrame DEF Done, tableVars
    <3>3. \A i \in 1 .. Len(file) : Pending(i) \/ InWrite(i) => Pending(i)' \/ InWrite(i)'
      BY <3>1 DEF Pending, InWrite
    <3>4. \A w \in Rank : RestoreCall(w) => RestoreCall(w)'
      BY <3>1 DEF RestoreCall
    <3>5. Locations' = Locations
      BY <3>1 DEF Locations
    <3>. QED
      BY <3>1, <3>2, <3>3, <3>4, <3>5 DEF ReadInv
  <2>. QED
    BY <2>2, <2>3, <2>4 DEF FileInv
<1>. QED
  BY <1>1, <1>2, <1>3, <1>4, <1>5, <1>6 DEF FileNext

THEOREM FileInvariant == FileSpec => []FileInv
BY InitFile, NextFile, PTL DEF FileSpec, fileAll

\* When the ranks are behind their last entries none is pending and none is in
\* a call, so that each has been done.
LEMMA ReadDone == FileInv => Restored
<1>. SUFFICES ASSUME FileInv, Reading, AllRead
              PROVE  /\ \A l \in Locations : <<bkey[l], bdata[l]>> \in ToSet(file)
                     /\ \A e \in ToSet(file) : Stored(e[1]) # Absent \/ EvictedOnRead(e[1])
  BY DEF Restored
<1>0. FileType /\ ReadInv
  BY DEF FileInv
<1>1. DOMAIN file = 1 .. Len(file) /\ Len(file) \in Nat
  BY <1>0 DEF FileType
<1>2. \A l \in Locations : <<bkey[l], bdata[l]>> \in ToSet(file)
  <2>. TAKE l \in Locations
  <2>1. PICK i \in 1 .. Len(file) : bkey[l] = file[i][1] /\ bdata[l] = file[i][2]
    BY <1>0 DEF ReadInv
  <2>2. file[i] = <<bkey[l], bdata[l]>>
    BY <1>0, <2>1, EntryType
  <2>. QED
    BY <1>1, <2>2 DEF ToSet
<1>3. ASSUME NEW i \in 1 .. Len(file)
      PROVE  Done(i)
  <2>1. ~Pending(i)
    <3>. SUFFICES ASSUME NEW w \in Rank, NEW n \in Nat, i = cur[w] + n * CommSize
                  PROVE  FALSE
      BY DEF Pending
    <3>1. cur[w] > Len(file) /\ cur[w] \in Nat
      BY <1>0 DEF AllRead, FileType
    <3>2. n * CommSize \in Nat
      BY SizeAssumption
    <3>. QED
      BY <1>1, <3>1, <3>2
  <2>2. ~InWrite(i)
    BY DEF InWrite, AllRead
  <2>. QED
    BY <1>0, <2>1, <2>2 DEF ReadInv
<1>4. \A e \in ToSet(file) : Stored(e[1]) # Absent \/ EvictedOnRead(e[1])
  <2>. TAKE e \in ToSet(file)
  <2>1. PICK i \in 1 .. Len(file) : e = file[i]
    BY <1>1 DEF ToSet
  <2>. QED
    BY <1>3, <2>1 DEF Done
<1>. QED
  BY <1>2, <1>4

\* What DHT_from_file leaves in the table is what the file holds: nothing else,
\* and all of it but the keys that another entry evicted at its last candidate.
THEOREM RestoredFromFile == FileSpec => []Restored
BY FileInvariant, ReadDone, PTL

\* Across restarts the table keeps its types, its probe chains, one bucket per
\* key, and its dumps complete.
THEOREM SafeAcrossRestarts ==
  FileSpec => [](TypeOK /\ ProbeChain /\ NoDuplicateKey /\ DumpComplete)
<1>1. FileInv => TypeOK /\ ProbeChain /\ NoDuplicateKey /\ DumpComplete
  BY RowsComplete, ChainUnique DEF FileInv, IInv, ControlInv, TableInv, NoDuplicateKey
<1>. QED
  BY <1>1, FileInvariant, PTL
----------------------------------------------------------------------------
(* The cache across restarts                                               *)

\* A restart forgets all keys, between the calls of all ranks.
LEMMA RestartRefines ==
  ASSUME FileInv, Restart
  PROVE  Cache!Forget(Key)
<1>1. \A w \in Rank : req[w] = NoRequest
  BY RestartQuiet
<1>2. bkey' = [l \in Loc |-> NoKey] /\ UNCHANGED <<pc, req, reply>>
  BY DEF Restart
<1>3. \A k \in Key : Stored(k)' = Absent
  BY <1>2, DataAssumption DEF Stored
<1>4. \A w \in Rank : Answered(w)' = Answered(w)
  BY <1>2 DEF Answered
<1>. QED
  BY <1>1, <1>2, <1>3, <1>4 DEF Cache!Forget, Cache!NoRequest, NoRequest

\* An entry out of the file is an ordinary call of the cache.
LEMMA RestoreRefines ==
  ASSUME FileInv, NEW w \in Rank, Restore(w)
  PROVE  Cache!Next
<1>. DEFINE r == [kind |-> "write", key |-> file[cur[w]][1], data |-> file[cur[w]][2]]
<1>1. /\ IInv' /\ UNCHANGED <<tableVars, reply, rows, file, phase>>
      /\ pc[w] = "idle" /\ cur[w] \in 1 .. Len(file)
      /\ pc' = [pc EXCEPT ![w] = "lock"]
      /\ req' = [req EXCEPT ![w] = r]
  BY RestoreIInv
<1>2. r \in Cache!Request /\ r # NoRequest
  BY <1>1, EntryType DEF Cache!Request, Cache!Kind, FileInv, NoRequest
<1>. HIDE DEF r
<1>3. req[w] = NoRequest /\ TypeOK
  BY <1>1 DEF FileInv, IInv, ControlInv, CallInv
<1>4. \A k \in Key : Stored(k)' = Stored(k)
  BY <1>1, StoredFrame
<1>5. \A v \in Rank : Answered(v)' = Answered(v)
  BY <1>1, <1>3 DEF Answered, TypeOK
<1>6. Cache!Call(w, r)
  BY <1>1, <1>2, <1>3, <1>4, <1>5 DEF Cache!Call, Cache!NoRequest, NoRequest
<1>. QED
  BY <1>2, <1>6 DEF Cache!Next

LEMMA FileNextRefines ==
  FileInv /\ [FileNext]_fileAll => Cache!Next \/ UNCHANGED Cache!cacheVars
<1>. SUFFICES ASSUME FileInv, [FileNext]_fileAll
              PROVE  Cache!Next \/ UNCHANGED Cache!cacheVars
  OBVIOUS
<1>1. CASE Restart
  <2>1. Cache!Forget(Key) /\ Key \in SUBSET Key
    BY <1>1, RestartRefines
  <2>. QED
    BY <2>1 DEF Cache!Next
<1>2. CASE \E w \in Rank : Restore(w)
  BY <1>2, RestoreRefines
<1>3. CASE [Next]_vars
  BY <1>3, NextRefines DEF FileInv
<1>4. [FileNext]_fileAll => Restart \/ (\E w \in Rank : Restore(w)) \/ [Next]_vars
  <2>1. (\E w \in Rank : WinLock(w) \/ Step(w)) => Next
    BY DEF Next
  <2>. HIDE DEF Next
  <2>. QED
    BY <2>1 DEF FileNext, CloseFile, fileAll
<1>. HIDE DEF Cache!Next, Cache!cacheVars
<1>. QED
  BY <1>1, <1>2, <1>3, <1>4

\* With restarts and reads of the file the table still implements the cache
\* that forgets but never lies.
THEOREM RefinementAcrossRestarts == FileSpec => ImplementsCache
<1>1. FileInit => Cache!Init
  BY InitCache DEF FileInit
<1>2. FileInv /\ [FileNext]_fileAll => [Cache!Next]_Cache!cacheVars
  BY FileNextRefines
<1>. QED
  BY <1>1, <1>2, FileInvariant, PTL DEF FileSpec, fileAll, ImplementsCache, Cache!Spec
=============================================================================
