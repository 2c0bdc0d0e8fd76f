------------------------- MODULE MCControllerManager -------------------------
(***************************************************************************)
(* Small instances of ControllerManager for TLC.                           *)
(***************************************************************************)
EXTENDS ControllerManager

\* The cache reallocates for its first, second and third element and has room
\* for the fourth; the first two controllers report in the meantime.
MCReports == <<2, 1, 0, 0>>

\* One controller, for the smallest counterexamples.
MCOneReport  == <<1>>
MCTwoReports == <<2>>

=============================================================================
