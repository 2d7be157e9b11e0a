----------------------------- MODULE MCCommands -----------------------------
(***************************************************************************)
(* Settings of Commands for TLC.                                           *)
(***************************************************************************)
EXTENDS Commands

\* All options, for no time step and for two.
AllSetups ==
  [dht : BOOLEAN, interp : BOOLEAN, ai : BOOLEAN, snaps : BOOLEAN,
   timesteps : {0, 2}]
=============================================================================
