------------------------------- MODULE Writes -------------------------------
(***************************************************************************)
(* A write gives new values to some slots of a controller; applied to a    *)
(* controller it leaves the others as they are.                            *)
(***************************************************************************)

(* The write of one slot. *)
At(slot, value) == [s \in {slot} |-> value]

(* The write of no slot. *)
NoWrite == [s \in {} |-> 0]

(* Write w applied to p; w and p may also be two writes sent as one. *)
Overlay(w, p) ==
    [s \in DOMAIN w \cup DOMAIN p |-> IF s \in DOMAIN w THEN w[s] ELSE p[s]]
=============================================================================
