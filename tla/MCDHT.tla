------------------------------- MODULE MCDHT -------------------------------
(***************************************************************************)
(* Instances of DHT for TLC.  Words of two "bytes" of four values give     *)
(* tables of up to four buckets two candidates per key.                    *)
(***************************************************************************)
EXTENDS DHT, TLC

CONSTANTS a, b, c,      \* keys
          HashOf        \* the hash of each key

H == INSTANCE DetermineDest WITH WordBytes <- 2, ByteRange <- 4

MCKey == DOMAIN HashOf
MCDest == [k \in MCKey |-> H!DestRank(HashOf[k], CommSize)]
MCProbe == [k \in MCKey |-> H!Candidates(HashOf[k], TableSize)]
MCIndexCount == H!CandidateCount(TableSize)

\* With two ranks of two buckets: a and c share both candidates, b the first;
\* all three belong to rank 0.
OneWindow == (a :> 0) @@ (b :> 4) @@ (c :> 2)

\* Both keys belong to rank 0.
TwoKeys == (a :> 0) @@ (b :> 4)

\* The main table: vectors of results, no accumulating writes.
MainInput == {"r1", "r2"}
MainData == MainInput \cup {"zeros"}
MainMerge == [old \in MainData |-> [new \in MainData |-> Reject]]

\* The proximity table: a bucket collects up to two locations, and the
\* callback declines a location it has.
NoLocations == {}
PHTData == {NoLocations} \cup {{i, j} : i, j \in 1 .. 2}
PHTInput == {{1}, {2}}
PHTMerge ==
  [old \in PHTData |-> [new \in PHTData |->
     IF new \subseteq old THEN Reject ELSE old \cup new]]
=============================================================================
