------------------------------ MODULE OfferLog ------------------------------
(***************************************************************************)
(* What SessionDesc promises about the offers of one peer, without its      *)
(* mutex, deadline and descriptions: at most one offer is open; a newer one *)
(* may replace it at any time; a commit is accepted for the open offer and  *)
(* no other, and closes it.  So an offer is committed at most once, and     *)
(* never after a newer one has been.                                        *)
(***************************************************************************)
EXTENDS Naturals

VARIABLES
  last,      \* offers made so far
  open,      \* the offer waiting for its commit; 0 when there is none
  committed  \* the offer committed last; 0 before the first commit

Init == last = 0 /\ open = 0 /\ committed = 0

Make == last' = last + 1 /\ UNCHANGED <<open, committed>>

(* The newest offer becomes the open one. *)
Open ==
  /\ last > committed
  /\ open' = last
  /\ UNCHANGED <<last, committed>>

Commit ==
  /\ open > committed
  /\ committed' = open /\ open' = 0
  /\ UNCHANGED last

Next == Make \/ Open \/ Commit

Spec == Init /\ [][Next]_<<last, open, committed>>
=============================================================================
