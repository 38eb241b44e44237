------------------------- MODULE MCPositionControl -------------------------
(* Two runners of one symbol, of one lot each. *)
EXTENDS PositionControl

CONSTANTS r1, r2
=============================================================================
