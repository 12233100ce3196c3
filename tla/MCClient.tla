------------------------------ MODULE MCClient ------------------------------
(* TLC instance of Client: model values for the users.                      *)
EXTENDS Client, TLC

CONSTANTS u, v

Symmetry == Permutations(Users)
=============================================================================
