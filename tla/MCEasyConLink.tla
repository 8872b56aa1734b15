--------------------------- MODULE MCEasyConLink ---------------------------
(* Buttons at the edges of the two button bytes, both kinds of stick. *)
EXTENDS EasyConLink

MCButtons == {"ZR", "MINUS", "D_TOP"}
MCDirections == {"L_TOP_RIGHT", "R_TOP_LEFT", "R_CENTER"}
=============================================================================
