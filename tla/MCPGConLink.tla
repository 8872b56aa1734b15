---------------------------- MODULE MCPGConLink ----------------------------
(* A button and both sticks for PGConLink. *)
EXTENDS PGConLink

MCButtons == {"ZR"}
MCDirections == {"L_TOP", "R_BOTTOM_LEFT"}
=============================================================================
