----------------------------- MODULE Conference -----------------------------
(***************************************************************************)
(* How a page of the browser client enters and leaves rooms:                *)
(*   - useRoom and Signal in App.tsx, which open a websocket and a peer      *)
(*     connection for a room and hand both to two contexts;                 *)
(*   - SignalProvider.tsx and SubscriberProvider.tsx, which keep them as the *)
(*     page's only connection and close the one before when React commits;  *)
(*   - RoomPage.tsx, which asks for the room of the route once the camera's  *)
(*     gate is open, and stays mounted from one room to the next;           *)
(*   - AuthWall in main.tsx, which mounts and unmounts all of it.           *)
(* A join is one call of useRoom's `join`, numbered as they are asked for;   *)
(* its number also names its Signal and its RTCEngine.                      *)
(***************************************************************************)
EXTENDS Integers

CONSTANTS
  Rooms,
  Home,          \* the route that shows no room
  MaxJoins,      \* bound: joins asked for
  MaxMounts,     \* bound: times the layout is mounted
  PromptRender   \* TRUE: React renders an update, and runs the effects of what it
                 \* rendered, before the browser's next event

ASSUME ConferenceAssumption ==
  /\ Home \notin Rooms /\ MaxJoins \in Nat \ {0} /\ MaxMounts \in Nat
  /\ PromptRender \in BOOLEAN

Joins == 1..MaxJoins
Routes == Rooms \cup {Home}

VARIABLES
  at,        \* the route
  user,      \* "in": AuthWall shows the layout
  mount,     \* how often the layout has been mounted
  media,     \* getUserMedia: "asked", "granted" or "denied"
  seen,      \* the signal RoomPage's first render saw (0: null)
  joins,     \* joins asked for
  room, sees, made,  \* per join: its room, `seen` and `mount` when it was asked for
  step,      \* per join: where it is, then where its socket is
  sends,     \* per join: what the senders of its peer connection have
  signal,    \* the committed state of both contexts
  next,      \* what setSignal and setPeerContext have asked for
  list       \* joins whose remote streams are in the room's list

pageVars == <<at, user, mount, seen>>
joinVars == <<joins, room, sees, made>>
contextVars == <<signal, next, list>>
vars == <<pageVars, media, joinVars, step, sends, contextVars>>

Steps == {"none", "gated", "same", "opening", "refused", "open", "dropped", "closed"}

TypeOK ==
  /\ at \in Routes /\ user \in {"in", "out"} /\ mount \in 0..MaxMounts
  /\ media \in {"asked", "granted", "denied"}
  /\ seen \in 0..joins /\ joins \in 0..MaxJoins
  /\ room \in [Joins -> Routes]
  /\ sees \in [Joins -> 0..MaxJoins] /\ made \in [Joins -> 0..MaxMounts]
  /\ step \in [Joins -> Steps] /\ sends \in [Joins -> {"new", "bare", "media"}]
  /\ signal \in 0..joins /\ next \in 0..joins /\ list \subseteq Joins

Init ==
  /\ at \in Routes /\ user = "out" /\ mount = 0 /\ media = "asked"
  /\ seen = 0 /\ joins = 0
  /\ room = [j \in Joins |-> Home] /\ sees = [j \in Joins |-> 0]
  /\ made = [j \in Joins |-> 0]
  /\ step = [j \in Joins |-> "none"] /\ sends = [j \in Joins |-> "new"]
  /\ signal = 0 /\ next = 0 /\ list = {}

OnRoomPage == user = "in" /\ at # Home
Rendered == PromptRender => next = 0

(* Join j was asked for by the layout that is mounted. *)
Present(j) == user = "in" /\ made[j] = mount

-----------------------------------------------------------------------------
(* The page *)

(* RoomPage's effect: await the gate, then join.  `join` is a callback       *)
(* without dependencies: its isSameRoom is the one of the first render.     *)
Ask(r, s, m) ==
  /\ joins < MaxJoins /\ joins' = joins + 1
  /\ room' = [room EXCEPT ![joins + 1] = r]
  /\ sees' = [sees EXCEPT ![joins + 1] = s]
  /\ made' = [made EXCEPT ![joins + 1] = m]
  /\ step' = [step EXCEPT ![joins + 1] = "gated"]

(* sinkMediaStream: the tracks are attached if there is no sender yet; else *)
(* they replace the tracks of senders that have one of their kind.          *)
Sink(j) == [sends EXCEPT ![j] = IF @ = "new" THEN "media" ELSE @]

(* AuthWall shows the layout.  Its gate is made, and RoomPage rendered with  *)
(* it, before anything else happens.                                        *)
MountLayout ==
  /\ user = "out" /\ mount < MaxMounts
  /\ user' = "in" /\ mount' = mount + 1
  /\ signal' = 0 /\ next' = 0 /\ list' = {} /\ seen' = 0
  /\ IF at = Home THEN UNCHANGED <<joinVars, step>> ELSE Ask(at, 0, mount + 1)
  /\ UNCHANGED <<at, media, sends>>

(* From one room to another RoomPage stays mounted. *)
EnterRoom(r) ==
  LET s == IF at = Home THEN signal ELSE seen
  IN /\ user = "in" /\ r # at /\ Rendered
     /\ at' = r /\ seen' = s
     /\ sends' = IF at = Home /\ signal # 0 THEN Sink(signal) ELSE sends
     /\ Ask(r, s, mount)
     /\ UNCHANGED <<user, mount, media, contextVars>>

LeaveRoom ==
  /\ OnRoomPage /\ Rendered
  /\ at' = Home
  /\ UNCHANGED <<user, mount, seen, media, joinVars, step, sends, contextVars>>

(* Signal.destroy and RTCEngine.close. *)
Destroyed(j) == IF j # 0 /\ step[j] = "open" THEN [step EXCEPT ![j] = "closed"] ELSE step

(* Sign-out: AuthWall unmounts the layout, the clean-ups of both contexts run. *)
UnmountLayout ==
  /\ user = "in" /\ Rendered
  /\ user' = "out" /\ step' = Destroyed(signal)
  /\ UNCHANGED <<at, mount, seen, media, joinVars, sends, contextVars>>

(* The prompt for the camera is answered, once for all layouts. *)
AnswerPrompt ==
  /\ media = "asked" /\ mount > 0 /\ Rendered
  /\ media' \in {"granted", "denied"}
  /\ UNCHANGED <<pageVars, joinVars, step, sends, contextVars>>

-----------------------------------------------------------------------------
(* A join *)

SameRoom(j) == sees[j] # 0 /\ room[sees[j]] = room[j]

(* The gate is open: isSameRoom, then Signal, RTCEngine and connect. *)
Proceed(j) ==
  /\ step[j] = "gated" /\ media = "granted"
  /\ \A k \in 1 .. j - 1 : made[k] = made[j] => step[k] # "gated"
  /\ step' = [step EXCEPT ![j] = IF SameRoom(j) THEN "same" ELSE "opening"]
  /\ UNCHANGED <<pageVars, media, joinVars, sends, contextVars>>

Refuse(j) ==
  /\ step[j] = "opening"
  /\ step' = [step EXCEPT ![j] = "refused"]
  /\ UNCHANGED <<pageVars, media, joinVars, sends, contextVars>>

(* onopen unlocks onConnect; the handlers are registered, subscribe is sent. *)
(* Sockets open in any order, and the last one to open is the page's.  The   *)
(* setters of a layout that is gone do nothing.                             *)
Open(j) ==
  /\ step[j] = "opening" /\ Rendered
  /\ step' = [step EXCEPT ![j] = "open"]
  /\ next' = IF Present(j) THEN j ELSE next
  /\ UNCHANGED <<pageVars, media, joinVars, sends, signal, list>>

(* The server goes away: nobody listens to onclose. *)
Drop(j) ==
  /\ step[j] = "open"
  /\ step' = [step EXCEPT ![j] = "dropped"]
  /\ UNCHANGED <<pageVars, media, joinVars, sends, contextVars>>

(* Mutant: the old socket is not closed. *)
CommitKeepsSocket ==
  /\ user = "in" /\ next # 0
  /\ signal' = next /\ next' = 0
  /\ list' = IF signal = 0 THEN list ELSE {}
  /\ sends' = IF OnRoomPage THEN Sink(next) ELSE sends
  /\ UNCHANGED <<pageVars, media, joinVars, step>>

(* Mutant: the streams of the old peer stay. *)
CommitKeepsList ==
  /\ user = "in" /\ next # 0
  /\ signal' = next /\ next' = 0
  /\ step' = Destroyed(signal)
  /\ sends' = IF OnRoomPage THEN Sink(next) ELSE sends
  /\ UNCHANGED <<pageVars, media, joinVars, list>>

(* Mutant: the sink's effect does not depend on the peer: it runs when        *)
(* RoomPage is mounted only.                                                *)
CommitWithoutSink ==
  /\ user = "in" /\ next # 0
  /\ signal' = next /\ next' = 0
  /\ step' = Destroyed(signal)
  /\ list' = IF signal = 0 THEN list ELSE {}
  /\ UNCHANGED <<pageVars, media, joinVars, sends>>

(* React commits the new state: the clean-ups of the old connection, which   *)
(* clear the list and close it, then the effect of sinkMediaStream.  These    *)
(* are passive effects: PromptRender has them run with the commit.           *)
Commit ==
  /\ user = "in" /\ next # 0
  /\ signal' = next /\ next' = 0
  /\ step' = Destroyed(signal)
  /\ list' = IF signal = 0 THEN list ELSE {}
  /\ sends' = IF OnRoomPage THEN Sink(next) ELSE sends
  /\ UNCHANGED <<pageVars, media, joinVars>>

(* An offer: the remote description gives the connection its transceivers,  *)
(* with senders that have no track unless one was added before, and its     *)
(* tracks, whose streams go to the list of the layout that made it.         *)
Offer(j) ==
  /\ step[j] = "open" /\ Rendered
  /\ sends' = [sends EXCEPT ![j] = IF @ = "new" THEN "bare" ELSE @]
  /\ list' \in {list} \cup IF Present(j) THEN {list \cup {j}} ELSE {}
  /\ UNCHANGED <<pageVars, media, joinVars, step, signal, next>>

-----------------------------------------------------------------------------
Joining(j) == Proceed(j) \/ Refuse(j) \/ Open(j) \/ Drop(j) \/ Offer(j)

Next ==
  \/ MountLayout \/ UnmountLayout \/ AnswerPrompt
  \/ LeaveRoom \/ \E r \in Rooms : EnterRoom(r)
  \/ Commit \/ \E j \in Joins : Joining(j)

Spec == Init /\ [][Next]_vars

-----------------------------------------------------------------------------
(* A page is in one room: a websocket that is open, on which the server has  *)
(* subscribed a peer, is the committed one or the one about to be committed. *)
(* The sockets a layout was still opening when its user signed out are left  *)
(* out: nobody closes them.                                                 *)
NoOrphan ==
  \A j \in Joins : step[j] = "open" => j \in {signal, next} \/ ~ Present(j)

(* The streams in the gallery come from the connection of the page, none     *)
(* from a room that was left.                                               *)
StreamsAreCurrent == user = "in" => list \subseteq {signal}

(* On a room page the committed connection sends the camera, whatever order  *)
(* sockets open in and however the user went through the pages: no offer     *)
(* came first, which gives it senders without a track that no later sink     *)
(* would fill.  The one exception is the connection RoomPage found when it   *)
(* was mounted: its socket opened on the start page, where nothing sinks.    *)
MediaBeforeOffer ==
  OnRoomPage /\ signal # 0 =>
    \/ sends[signal] = "media"
    \/ sends[signal] = "bare" /\ signal = seen
=============================================================================
