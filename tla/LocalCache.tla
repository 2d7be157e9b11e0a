----------------------------- MODULE LocalCache -----------------------------
(***************************************************************************)
(* The cache that each worker keeps of the answers of the proximity table: *)
(* a map, a list of the cached keys with the last used in front, and for   *)
(* each key its node in the list.                                          *)
(*                                                                         *)
(* A result counts with its size only.  How queries use the table, and     *)
(* that a cached answer may outlive what it was made from, is module       *)
(* Surrogates, where the cache has no bound.                               *)
(***************************************************************************)
EXTENDS Integers, SequencesExt

CONSTANTS Keys,           \* coarse keys
          Sizes,          \* sizes of results
          MAX_CACHE_SIZE  \* budget

ASSUME CacheAssumption ==
  /\ IsFiniteSet(Keys)
  /\ IsFiniteSet(Sizes)
  /\ Sizes \subseteq Nat \ {0}
  /\ Sizes # {}
  /\ MAX_CACHE_SIZE \in Nat

VARIABLES map,        \* cached key -> size of its result
          free_mem,   \* what is left of the budget
          lru_queue,  \* the list: nodes with their keys
          keyfinder,  \* cached key -> its node
          recent      \* history: keys answered so far, the last one in front

vars == <<map, free_mem, lru_queue, keyfinder, recent>>

\* What list nodes can be, one more than there are keys.
Nodes == 1 .. Cardinality(Keys) + 1

Without(f, k) == [x \in DOMAIN f \ {k} |-> f[x]]
With(f, k, v) == [x \in DOMAIN f \cup {k} |-> IF x = k THEN v ELSE f[x]]

\* Sequence s with its element i in front.
ToFront(s, i) == <<s[i]>> \o RemoveAt(s, i)

Used(k) ==
  recent' = IF k \in Range(recent)
            THEN ToFront(recent, CHOOSE i \in DOMAIN recent : recent[i] = k)
            ELSE <<k>> \o recent
----------------------------------------------------------------------------
Init ==
  /\ map = [k \in {} |-> 0]
  /\ free_mem = MAX_CACHE_SIZE
  /\ lru_queue = <<>>
  /\ keyfinder = [k \in {} |-> 0]
  /\ recent = <<>>

\* Mutant: an answer from the cache does not count as a use.
StaysInPlace(k) == lru_queue

\* A key that is looked up moves to the front, by its node.
Splice(k) ==
  ToFront(lru_queue, CHOOSE i \in DOMAIN lru_queue : lru_queue[i].node = keyfinder[k])

\* query answers from the cache.
Hit(k) ==
  /\ k \in DOMAIN map
  /\ lru_queue' = Splice(k)
  /\ Used(k)
  /\ UNCHANGED <<map, free_mem, keyfinder>>

\* Mutant: the cache is never full.
NeverFull == FALSE

\* The budget has to be exceeded before an entry makes way.
Full == free_mem < 0

\* Mutant: the size of the entry that goes is not given back.
KeepMem(c) == c.free_mem

\* The budget with the size of the entry that goes.
GiveBack(c) == c.free_mem + c.map[Last(c.lru_queue).key]

\* Mutant: the node of the evicted key can still be found.
FinderKept(c) == c.keyfinder

FinderErased(c) == Without(c.keyfinder, Last(c.lru_queue).key)

\* Cache c without its last used entry.
Evict(c) ==
  [map       |-> Without(c.map, Last(c.lru_queue).key),
   free_mem  |-> GiveBack(c),
   lru_queue |-> Front(c.lru_queue),
   keyfinder |-> FinderErased(c)]

\* Cache c with a new entry.
Insert(c, k, size) ==
  LET node == CHOOSE n \in Nodes : \A e \in Range(c.lru_queue) : e.node # n
  IN  [map       |-> With(c.map, k, size),
       free_mem  |-> c.free_mem - size,
       lru_queue |-> <<[node |-> node, key |-> k]>> \o c.lru_queue,
       keyfinder |-> With(c.keyfinder, k, node)]

Cache == [map |-> map, free_mem |-> free_mem, lru_queue |-> lru_queue,
          keyfinder |-> keyfinder]

\* query finds enough entries, gathers a result of that size and caches it; when
\* it does not, it leaves the cache alone.  The operator of the
\* cache has another branch for a key that is cached; query, which asks first,
\* never gets there.
Gathered(k, size) ==
  /\ k \notin DOMAIN map
  /\ LET c == Insert(IF Full THEN Evict(Cache) ELSE Cache, k, size)
     IN  /\ map' = c.map
         /\ free_mem' = c.free_mem
         /\ lru_queue' = c.lru_queue
         /\ keyfinder' = c.keyfinder
  /\ Used(k)

Next ==
  \E k \in Keys :
    \/ Hit(k)
    \/ \E size \in Sizes : Gathered(k, size)

Spec == Init /\ [][Next]_vars
----------------------------------------------------------------------------
(* Properties                                                              *)

\* The values the variables can take.
TypeOK ==
  /\ DOMAIN map \subseteq Keys
  /\ Range(map) \subseteq Sizes
  /\ free_mem \in MAX_CACHE_SIZE - Cardinality(Keys) * Max(Sizes)
                    .. MAX_CACHE_SIZE
  /\ \A n \in DOMAIN lru_queue :
       lru_queue[n] \in [node : Nodes, key : Keys]
  /\ DOMAIN keyfinder \subseteq Keys
  /\ Range(keyfinder) \subseteq Nodes

Occupied == SumFunction(map)

\* Map, list, finder and budget speak of the same keys: each is in the list once
\* and is found where it is, so no lookup follows a node that is gone and no
\* eviction looks for a key that is not in the map; and the budget left is what
\* their sizes leave, after any series of insertions and evictions.
Consistent ==
  /\ DOMAIN keyfinder = DOMAIN map
  /\ {n.key : n \in Range(lru_queue)} = DOMAIN map
  /\ IsInjective([n \in DOMAIN lru_queue |-> lru_queue[n].key])
  /\ \A n \in Range(lru_queue) : keyfinder[n.key] = n.node
  /\ free_mem = MAX_CACHE_SIZE - Occupied

\* What is cached are the keys that were used last: none makes way for an entry
\* that was used before it.
RecentKept ==
  \A n \in DOMAIN lru_queue : lru_queue[n].key = recent[n]

\* One entry goes for one that comes, whatever their sizes: the budget does not
\* bound the memory, but the number of entries is the most that the budget holds
\* of the smallest, and one.
EntriesBounded ==
  Cardinality(DOMAIN map) <= MAX_CACHE_SIZE \div Min(Sizes) + 1
=============================================================================
