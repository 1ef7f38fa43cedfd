------------------------------ MODULE MCPcx2mb ------------------------------
(***************************************************************************)
(* Pcx2mb for TLC.  Two destinations fill four places: entry 1 and three   *)
(* more, in the proportion of the code (five destinations, ten places).    *)
(***************************************************************************)
EXTENDS Pcx2mb

CONSTANTS d1, d2, none

TwoDests == {d1, d2}
=============================================================================
