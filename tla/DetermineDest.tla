--------------------------- MODULE DetermineDest ---------------------------
(***************************************************************************)
(* How DHT.c turns the hash of a key into a destination rank and a list of *)
(* candidate buckets.  The hash is a word of WordBytes bytes (8 in the     *)
(* code) of ByteRange values each (256); a candidate is read from          *)
(* IndexBytes consecutive bytes of it, and successive candidates start one *)
(* byte further up, so they overlap when an index needs several bytes.     *)
(***************************************************************************)
EXTENDS Integers

CONSTANTS WordBytes,  \* bytes of a hash
          ByteRange   \* values of a byte

Hashes == 0 .. ByteRange ^ WordBytes - 1

\* ceil(log2(size)) bits, rounded up to whole bytes.
IndexBytes(size) ==
  CHOOSE b \in 0 .. WordBytes :
    /\ size <= ByteRange ^ b
    /\ \A c \in 0 .. b - 1 : ByteRange ^ c < size

\* index_count = 9 - index_bytes / 8
CandidateCount(size) == WordBytes + 1 - IndexBytes(size)

DestRank(hash, comm_size) == hash % comm_size

\* The bytes i, i + 1, ... of the hash, IndexBytes of them, as a number.
HashBytes(hash, i, bytes) == (hash \div ByteRange ^ i) % ByteRange ^ bytes

Candidates(hash, size) ==
  [p \in 1 .. CandidateCount(size) |->
     HashBytes(hash, p - 1, IndexBytes(size)) % size]
=============================================================================
