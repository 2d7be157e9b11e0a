----------------------------- MODULE LossyCache -----------------------------
(***************************************************************************)
(* What the distributed hash table promises to the workers that share it:  *)
(* a map from keys to data that may forget, but never lies.  A write makes *)
(* its key present and may cost at most one other key (and says so); a     *)
(* read returns the data stored under its key, or a miss exactly when the  *)
(* key is absent; a flush forgets keys, never alters data.                 *)
(*                                                                         *)
(* Module DHT, which models the probing, the window locks and the          *)
(* collective flush of DHT.c, implements this specification.               *)
(***************************************************************************)
EXTENDS Integers, FiniteSets

CONSTANTS Worker,    \* the callers
          Key,       \* what entries are stored under
          NoKey,     \* the key field of a request that carries none
          Data,      \* what is stored
          NoData,    \* a zeroed data field
          Absent,    \* the content of a key that is not in the map
          Reject,    \* the answer of an update function that declines
          Merge      \* the update function of an accumulating write

VARIABLES store,     \* the map: Key -> Data or Absent
          request,   \* the call each worker is in, or NoRequest
          reply      \* the answer to that call, or NoReply

cacheVars == <<store, request, reply>>

NoRequest == [kind |-> "none", key |-> NoKey, data |-> NoData]
NoReply   == [status |-> "none", data |-> NoData]

Kind == {"read", "write", "accumulate", "location"}
Request == [kind : Kind \cup {"none"}, key : Key \cup {NoKey}, data : Data]

Present == {k \in Key : store[k] # Absent}

\* What a write of d under k leaves behind: the new entry, and every old one
\* but those in lost.
Written(k, d, lost) ==
  [x \in Key |-> IF x = k THEN d ELSE IF x \in lost THEN Absent ELSE store[x]]

\* The entry an accumulating write updates: the one stored, or zeros.
Old(k) == IF store[k] = Absent THEN NoData ELSE store[k]

Answer(w, status, d) ==
  reply' = [reply EXCEPT ![w] = [status |-> status, data |-> d]]

InCall(w, kind) == request[w].kind = kind /\ reply[w] = NoReply
----------------------------------------------------------------------------
Init ==
  /\ store = [k \in Key |-> Absent]
  /\ request = [w \in Worker |-> NoRequest]
  /\ reply = [w \in Worker |-> NoReply]

Call(w, r) ==
  /\ request[w] = NoRequest
  /\ r # NoRequest
  /\ request' = [request EXCEPT ![w] = r]
  /\ UNCHANGED <<store, reply>>

Read(w) ==
  /\ InCall(w, "read")
  /\ LET k == request[w].key
     IN  IF k \in Present THEN Answer(w, "hit", store[k])
                          ELSE Answer(w, "miss", NoData)
  /\ UNCHANGED <<store, request>>

\* The new entry replaces the old one of its key; nothing else is lost, or
\* one other entry is and the caller is told.
Replace(w, d) ==
  LET k == request[w].key
  IN  \/ /\ store' = Written(k, d, {})
         /\ Answer(w, "success", NoData)
      \/ \E victim \in Present \ {k} :
           /\ store' = Written(k, d, {victim})
           /\ Answer(w, "eviction", NoData)

Write(w) ==
  /\ InCall(w, "write")
  /\ Replace(w, request[w].data)
  /\ UNCHANGED request

Accumulate(w) ==
  /\ InCall(w, "accumulate")
  /\ LET new == Merge[Old(request[w].key)][request[w].data]
     IN  IF new = Reject THEN Answer(w, "rejected", NoData) /\ UNCHANGED store
                         ELSE Replace(w, new)
  /\ UNCHANGED request

\* A read by location sees the entry of some key, whichever is there now.
ReadLocation(w) ==
  /\ InCall(w, "location")
  /\ \E d \in {NoData} \cup {store[k] : k \in Present} : Answer(w, "data", d)
  /\ UNCHANGED <<store, request>>

Return(w) ==
  /\ reply[w] # NoReply
  /\ request' = [request EXCEPT ![w] = NoRequest]
  /\ reply' = [reply EXCEPT ![w] = NoReply]
  /\ UNCHANGED store

\* Entries are only dropped while no call is under way.
Forget(lost) ==
  /\ \A w \in Worker : request[w] = NoRequest
  /\ store' = [k \in Key |-> IF k \in lost THEN Absent ELSE store[k]]
  /\ UNCHANGED <<request, reply>>

Next ==
  \/ \E w \in Worker :
       \/ \E r \in Request : Call(w, r)
       \/ Read(w) \/ Write(w) \/ Accumulate(w) \/ ReadLocation(w)
       \/ Return(w)
  \/ \E lost \in SUBSET Key : Forget(lost)

Spec == Init /\ [][Next]_cacheVars
=============================================================================
