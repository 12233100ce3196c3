----------------------------- MODULE MCIdentity -----------------------------
(* TLC instance of Identity: model values, and requests that are alike.      *)
EXTENDS Identity, TLC

CONSTANTS u, v, r1, r2, r3

Symmetry == Permutations({r1, r2, r3}) \cup Permutations({u, v})
=============================================================================
