-------------------------- MODULE OperatorSplitting --------------------------
(***************************************************************************)
(* What the coupling of transport and chemistry is to compute, told of the *)
(* grid and not of vectors: in every iteration the transported species     *)
(* move once and then all species react once, in every cell, and the       *)
(* result of both halves can be saved.  The state of a species in a cell   *)
(* is the number of transport and of reaction steps it has seen.           *)
(***************************************************************************)
EXTENDS Integers

CONSTANTS Species, Transported,   \* the columns, and those that move
          MaxIter,                \* the number of time steps
          OutSave                 \* the iterations that are saved

VARIABLES grid,    \* the cells
          conc,    \* species -> cell -> steps seen
          phase,   \* what comes next
          iter,    \* the current iteration
          saved    \* the saved iterations

vars == <<grid, conc, phase, iter, saved>>

Stamp(t, c) == [t |-> t, c |-> c]
Reacted(k) == [s \in Species |-> [x \in grid |-> Stamp(k, k)]]
Moved(k) ==
  [s \in Species |->
     [x \in grid |-> Stamp(IF s \in Transported THEN k ELSE k - 1, k - 1)]]

Init ==
  /\ conc = Reacted(0)
  /\ phase = "transport"
  /\ iter = 1
  /\ saved = {}

Transport ==
  /\ phase = "transport"
  /\ iter <= MaxIter
  /\ conc = Reacted(iter - 1)
  /\ conc' = Moved(iter)
  /\ phase' = "reaction"
  /\ UNCHANGED <<grid, iter, saved>>

React ==
  /\ phase = "reaction"
  /\ conc' = Reacted(iter)
  /\ phase' = "save"
  /\ UNCHANGED <<grid, iter, saved>>

\* The iteration ends; its two halves are saved if it is one of OutSave.
EndIteration ==
  /\ phase = "save"
  /\ saved' = IF iter \in OutSave
              THEN saved \cup {[iter |-> iter, T |-> Moved(iter), C |-> conc]}
              ELSE saved
  /\ phase' = "transport"
  /\ iter' = iter + 1
  /\ UNCHANGED <<grid, conc>>

Next == Transport \/ React \/ EndIteration

Spec == Init /\ [][Next]_vars
=============================================================================
