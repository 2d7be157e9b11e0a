--------------------------- MODULE SerialChemistry ---------------------------
(***************************************************************************)
(* What the chemistry module promises to the coupling loop: a call of      *)
(* simulate advances every cell of the field by one time step, each from   *)
(* its own content, as if the cells were computed one after the other on a *)
(* single process.                                                         *)
(*                                                                         *)
(* The content of a cell is the cell its species came from and the number  *)
(* of steps they have been advanced.  Module WorkLoop, where the cells     *)
(* travel between master and workers, implements this specification.       *)
(***************************************************************************)
EXTENDS Integers

CONSTANTS Cell

VARIABLE field

Advance(content) == [content EXCEPT !.steps = @ + 1]

Init == field = [c \in Cell |-> [cell |-> c, steps |-> 0]]

Simulate == field' = [c \in Cell |-> Advance(field[c])]

Spec == Init /\ [][Simulate]_field
=============================================================================
