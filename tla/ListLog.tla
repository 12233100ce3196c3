------------------------------ MODULE ListLog -------------------------------
(***************************************************************************)
(* What the list of streams of a room page promises: the actions given to   *)
(* setRoomMediaStream are applied one at a time, in the order they were     *)
(* given, and all of them are.                                              *)
(***************************************************************************)
EXTENDS Sequences

CONSTANT Streams

VARIABLES todo, list

Action == [name : {"clear", "mutate", "remove"}, stream : Streams]

(* `empty`: the stream has no track left when its removal is applied. *)
After(a, streams, empty) ==
  CASE a.name = "clear"  -> {}
    [] a.name = "mutate" -> streams \cup {a.stream}
    [] a.name = "remove" -> IF empty THEN streams \ {a.stream} ELSE streams

Init == todo = << >> /\ list = {}

Give == \E a \in Action : todo' = Append(todo, a) /\ UNCHANGED list

Apply ==
  /\ todo # << >> /\ todo' = Tail(todo)
  /\ \E empty \in BOOLEAN : list' = After(Head(todo), list, empty)

Safety == Init /\ [][Give \/ Apply]_<<todo, list>>

Spec == Safety /\ WF_<<todo, list>>(Apply)
=============================================================================
