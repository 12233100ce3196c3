----------------------------- MODULE MCFilters -----------------------------
(* TLC instance of Filters: model values for the peers.                      *)
EXTENDS Filters

CONSTANTS s1, s2
=============================================================================
