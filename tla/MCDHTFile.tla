----------------------------- MODULE MCDHTFile -----------------------------
(***************************************************************************)
(* The instances of MCDHT, with restarts from a snapshot.                  *)
(***************************************************************************)
EXTENDS MCDHT, DHTFile

\* Three keys for a window of two buckets: one of two ranks reads two entries.
ThreeKeys == {<<a, "r1">>, <<b, "r1">>, <<c, "r2">>}

\* Behind the entries of a short dump, those of the longer one it overwrote.
OldTail == {<<a, "r1">>, <<a, "r2">>, <<b, "r1">>}

MCGiven == {ThreeKeys, OldTail}
=============================================================================
