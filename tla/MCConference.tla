---------------------------- MODULE MCConference ----------------------------
(* TLC instance of Conference: model values for the rooms.                  *)
EXTENDS Conference, TLC

CONSTANTS r1, r2

Symmetry == Permutations(Rooms)
=============================================================================
