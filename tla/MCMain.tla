-------------------------------- MODULE MCMain --------------------------------
(***************************************************************************)
(* A small instance of Main for TLC.                                       *)
(***************************************************************************)
EXTENDS Main

CONSTANTS e1, e2   \* two presses of Ctrl-C, whose handlers may overlap

=============================================================================
