------------------------------ MODULE DHTFile ------------------------------
(***************************************************************************)
(* The table across a restart.  DHT_to_file leaves the entries in a file;  *)
(* a later run whose tables are empty reads them back with DHT_from_file,  *)
(* in which the ranks deal the entries out among themselves by position    *)
(* and hand each to DHT_write, all at the same time and before any worker  *)
(* calls the table.                                                        *)
(***************************************************************************)
EXTENDS DHT, Sequences, SequencesExt

CONSTANT Given   \* snapshots another run has left: sets of entries

VARIABLES file,   \* the entries of the snapshot being read, in file order
          cur     \* the entry each rank reads next (cur_pos)

fileVars == <<file, cur>>

\* The header of a file holds the sizes of a key and of the data, not those of
\* the table: a snapshot may have more entries than fit.  It may have two of
\* one key: a file that exists is overwritten but not truncated.
ASSUME GivenAssumption ==
  \A g \in Given : g \subseteq Key \X Data /\ IsFiniteSet(g)

Reading == file # <<>>

\* Mutant: the rank is left out of the first position.
FirstOfAll(w) == 1

First(w) == w + 1

FileInit ==
  /\ Init
  /\ file \in {<<>>} \cup UNION {SetToSeqs(g) : g \in Given}
  /\ cur = [w \in Rank |-> First(w)]

\* The program ends or dies with entries in the file, in the middle of the
\* dump or after it (no rank is in a call then), and a new one opens the file.
\* The ranks write through the shared file pointer: any order of the entries.
Restart ==
  /\ rows # {}
  /\ ~Reading
  /\ \E entries \in SetToSeqs(rows) : file' = entries
  /\ cur' = [w \in Rank |-> First(w)]
  /\ bkey' = [l \in Loc |-> NoKey]
  /\ bdata' = [l \in Loc |-> NoData]
  /\ phase' = [w \in Rank |-> "loop"]
  /\ calls' = [w \in Rank |-> MaxCalls]
  /\ sum_idx' = [w \in Rank |-> 0]
  /\ cnt_idx' = [w \in Rank |-> 0]
  /\ rows' = {}
  /\ UNCHANGED <<pc, req, idx, at, send, reply>>

\* A rank reads its next entry and calls DHT_write with it, which takes the
\* steps of module DHT; then it moves on by as many entries as there are ranks.
Restore(w) ==
  /\ Reading
  /\ pc[w] = "idle"
  /\ cur[w] <= Len(file)
  /\ LET key == file[cur[w]][1]
         data == file[cur[w]][2]
     IN  /\ req' = [req EXCEPT ![w] = [kind |-> "write", key |-> key, data |-> data]]
         /\ at' = [at EXCEPT ![w] = Slot(key, 1)]
  /\ pc' = [pc EXCEPT ![w] = "lock"]
  /\ idx' = [idx EXCEPT ![w] = 1]
  /\ cur' = [cur EXCEPT ![w] = @ + CommSize]
  /\ UNCHANGED <<tableVars, send, reply, phase, calls, countVars, rows, file>>

\* Every rank is behind the last of its entries.
AllRead == \A w \in Rank : pc[w] = "idle" /\ cur[w] > Len(file)

\* MPI_File_close is collective: the ranks leave DHT_from_file together.
CloseFile ==
  /\ Reading
  /\ AllRead
  /\ file' = <<>>
  /\ cur' = [w \in Rank |-> First(w)]
  /\ UNCHANGED vars

FileNext ==
  \/ Restart
  \/ \E w \in Rank : Restore(w)
  \/ Reading /\ (\E w \in Rank : WinLock(w) \/ Step(w)) /\ UNCHANGED fileVars
  \/ CloseFile
  \/ ~Reading /\ Next /\ UNCHANGED fileVars

FileSpec == FileInit /\ [][FileNext]_<<vars, fileVars>>
----------------------------------------------------------------------------
(* Properties                                                              *)

\* When DHT_from_file returns, the table holds nothing that is not in the
\* file, and misses a key of the file only when another one evicted it: up to
\* some candidate of the key all buckets are taken, and that candidate is the
\* last one of the entry that sits there.  A table that was dumped with room
\* for its keys may lose some on the way back, its writes come in another order.
EvictedOnRead(k) ==
  \E p \in 1 .. IndexCount :
    /\ \A q \in 1 .. p : bkey[Slot(k, q)] \notin {NoKey, k}
    /\ Slot(k, p) = Slot(bkey[Slot(k, p)], IndexCount)

Restored ==
  Reading /\ AllRead =>
    /\ \A l \in Locations : <<bkey[l], bdata[l]>> \in ToSet(file)
    /\ \A e \in ToSet(file) : Stored(e[1]) # Absent \/ EvictedOnRead(e[1])
=============================================================================
