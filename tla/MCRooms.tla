------------------------------ MODULE MCRooms ------------------------------
(* TLC instance of Rooms: model values for the peers and the pages.          *)
EXTENDS Rooms

CONSTANTS p, q, page

(* p may connect, recover and fail; q joins and leaves without ever connecting. *)
Events == [x \in Peers |-> IF x = p THEN 2 ELSE 0]
=============================================================================
