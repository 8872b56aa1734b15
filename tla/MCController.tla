-------------------------- MODULE MCController --------------------------
(* Model values and the symmetry of the script threads for                 *)
(* ControllerService.                                                      *)
EXTENDS ControllerService, TLC

ClientSymmetry == Permutations(Clients)
=============================================================================
