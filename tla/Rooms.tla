------------------------------- MODULE Rooms -------------------------------
(***************************************************************************)
(* One room of the server and the pages that list it:                      *)
(*   - RoomControllerRoomJoin (internal/room/room_controller.go) from the   *)
(*     upgrade to its deferred clean-up, with the gate that pairs a peer    *)
(*     with its statistics;                                                 *)
(*   - the peer connection state handlers, each a goroutine of its own, and *)
(*     the PeerContextPool they and the clean-up change;                    *)
(*   - RoomNotifier (room_service.go): a mutex, an unbuffered channel and   *)
(*     one goroutine that writes to the listeners in turn;                  *)
(*   - RoomProvider.tsx: the list a page shows, fetched again for every     *)
(*     update-rooms.                                                        *)
(***************************************************************************)
EXTENDS Naturals, FiniteSets

CONSTANTS
  Peers,         \* calls of RoomControllerRoomJoin
  Listeners,     \* pages connected to /rooms-notifier
  NoOne,         \* a mutex is free, the statistics channel is empty
  MaxEvents,     \* bound: state changes of the connection of each peer
  MaxFaults,     \* bound: failures of NewPeerContext
  MaxLeaves      \* bound: sockets that end

ASSUME RoomsAssumption ==
  /\ Peers \cap Listeners = {} /\ NoOne \notin Peers \cup Listeners
  /\ MaxEvents \in [Peers -> Nat] /\ MaxFaults \in Nat /\ MaxLeaves \in Nat

VARIABLES
  join,        \* where RoomControllerRoomJoin is, per peer
  gate,        \* peerConnectionMu
  stats,       \* the statistics channel (capacity 1): whose are in it
  conn,        \* pion's connection state
  events,      \* state changes of a connection so far
  tasks,       \* goroutines running the state change handler
  pool,        \* PeerContextPool.pool
  notifyMu,    \* updateRoomsMu: who holds it, blocked on the channel
  listeners,   \* RoomNotifier.listeners
  reading,     \* OnUpdateRooms has still to read the listeners
  writing,     \* listeners OnUpdateRooms has still to write to
  due,         \* pages whose debounce timer runs
  asked,       \* requests GET /rooms of a page the server has not answered
  fetched,     \* answers on their way to a page: how many with these peers
  shown,       \* the peers a page shows
  faults

joinVars == <<join, gate, stats>>
connVars == <<conn, events>>
notifyVars == <<notifyMu, listeners, reading, writing>>
pageVars == <<due, asked, fetched, shown>>
vars == <<joinVars, connVars, tasks, pool, notifyVars, pageVars, faults>>

Init ==
  /\ join = [p \in Peers |-> "start"] /\ gate = NoOne /\ stats = NoOne
  /\ conn = [p \in Peers |-> "none"] /\ events = [p \in Peers |-> 0]
  /\ tasks = {} /\ pool = {}
  /\ notifyMu = NoOne /\ listeners = {} /\ reading = FALSE /\ writing = {}
  /\ due = {} /\ asked = [l \in Listeners |-> 1]
  /\ fetched = [l \in Listeners |-> [rooms \in SUBSET Peers |-> 0]]
  /\ shown = [l \in Listeners |-> {}]
  /\ faults = 0

Goto(p, from, to) == join[p] = from /\ join' = [join EXCEPT ![p] = to]

-----------------------------------------------------------------------------
(* The join gate *)

(* Mutant: peerConnectionMu is not taken. *)
LockGateHeld(p) ==
  /\ Goto(p, "start", "make")
  /\ gate' = p
  /\ UNCHANGED <<stats, connVars, tasks, pool, notifyVars, pageVars, faults>>

LockGate(p) ==
  /\ gate = NoOne /\ Goto(p, "start", "make")
  /\ gate' = p
  /\ UNCHANGED <<stats, connVars, tasks, pool, notifyVars, pageVars, faults>>

(* NewPeerContext: pion calls back with the statistics of the connection it *)
(* makes, which blocks while those of another one are in the channel.       *)
NewPeerContext(p) ==
  /\ Goto(p, "make", "stats")
  /\ stats = NoOne /\ stats' = p
  /\ conn' = [conn EXCEPT ![p] = "new"]
  /\ UNCHANGED <<gate, events, tasks, pool, notifyVars, pageVars, faults>>

NewPeerContextFails(p) ==
  /\ faults < MaxFaults /\ faults' = faults + 1
  /\ Goto(p, "make", "failed")
  /\ stats' \in {stats} \cup IF stats = NoOne THEN {p} ELSE {}
  /\ UNCHANGED <<gate, connVars, tasks, pool, notifyVars, pageVars>>

SetStats(p) ==
  /\ stats # NoOne /\ Goto(p, "stats", "open")
  /\ stats' = NoOne
  /\ gate' = NoOne
  /\ UNCHANGED <<connVars, tasks, pool, notifyVars, pageVars, faults>>

(* SetStats of a nil peer panics before the gate is unlocked. *)
SetStatsPanics(p) ==
  /\ stats # NoOne /\ Goto(p, "failed", "stuck")
  /\ stats' = NoOne
  /\ UNCHANGED <<gate, connVars, tasks, pool, notifyVars, pageVars, faults>>

-----------------------------------------------------------------------------
(* The peer connection and the goroutines of its state handler *)

(* A state the handler acts on starts a goroutine; the n-th of its peer. *)
Enter(p, state, step) ==
  /\ conn' = [conn EXCEPT ![p] = state]
  /\ IF step = "none" THEN UNCHANGED <<events, tasks>>
     ELSE /\ events[p] < MaxEvents[p]
          /\ events' = [events EXCEPT ![p] = @ + 1]
          /\ tasks' = tasks \cup {[peer |-> p, n |-> events[p] + 1, step |-> step]}

Connects(p) ==
  /\ join[p] \in {"open", "closing"} /\ conn[p] \in {"new", "disconnected"}
  /\ Enter(p, "connected", "add")
  /\ UNCHANGED <<joinVars, pool, notifyVars, pageVars, faults>>

Disconnects(p) ==
  /\ join[p] \in {"open", "closing"} /\ conn[p] = "connected"
  /\ Enter(p, "disconnected", "none")
  /\ UNCHANGED <<joinVars, pool, notifyVars, pageVars, faults>>

Fails(p) ==
  /\ join[p] \in {"open", "closing"} /\ conn[p] \in {"new", "disconnected"}
  /\ Enter(p, "failed", "close")
  /\ UNCHANGED <<joinVars, pool, notifyVars, pageVars, faults>>

Advance(t, step) == (tasks \ {t}) \cup {[peer |-> t.peer, n |-> t.n, step |-> step]}

(* peerContextPool.Add: "Subscriber exist. Remove it first" for a peer that *)
(* connects again.                                                          *)
Add(t) ==
  /\ t \in tasks /\ t.step = "add"
  /\ tasks' = Advance(t, IF t.peer \in pool THEN "reject" ELSE "notify")
  /\ pool' = pool \cup {t.peer}
  /\ UNCHANGED <<joinVars, connVars, notifyVars, pageVars, faults>>

(* PeerContext.Close: a second call changes nothing. *)
CloseBy(p, others) ==
  IF conn[p] = "closed"
  THEN tasks' = others /\ UNCHANGED connVars
  ELSE /\ conn' = [conn EXCEPT ![p] = "closed"]
       /\ events' = [events EXCEPT ![p] = @ + 1]
       /\ tasks' = others \cup {[peer |-> p, n |-> events[p] + 1, step |-> "close"]}

Reject(t) ==
  /\ t \in tasks /\ t.step = "reject"
  /\ CloseBy(t.peer, tasks \ {t})
  /\ UNCHANGED <<joinVars, pool, notifyVars, pageVars, faults>>

HandleClosed(t) ==
  /\ t \in tasks /\ t.step = "close"
  /\ CloseBy(t.peer, Advance(t, "remove"))
  /\ UNCHANGED <<joinVars, pool, notifyVars, pageVars, faults>>

(* Remove closes a peer it finds, which is closed already; then offers. *)
HandlerRemoves(t) ==
  /\ t \in tasks /\ t.step = "remove"
  /\ pool' = pool \ {t.peer}
  /\ tasks' = tasks \ {t}
  /\ UNCHANGED <<joinVars, connVars, notifyVars, pageVars, faults>>

-----------------------------------------------------------------------------
(* The end of RoomControllerRoomJoin: the socket is closed, or a message    *)
(* arrives on a closed peer; then the deferred clean-up.                    *)

Left == {p \in Peers : join[p] \in {"closing", "removing", "notify", "end"}}

Leaves(p) ==
  /\ Cardinality(Left) < MaxLeaves
  /\ Goto(p, "open", "closing")
  /\ UNCHANGED <<gate, stats, connVars, tasks, pool, notifyVars, pageVars, faults>>

Closes(p) ==
  /\ Goto(p, "closing", "removing")
  /\ CloseBy(p, tasks)
  /\ UNCHANGED <<gate, stats, pool, notifyVars, pageVars, faults>>

(* Mutant: the clean-up leaves the pool to the state handler. *)
RemovesNothing(p) ==
  /\ Goto(p, "removing", "notify")
  /\ UNCHANGED <<gate, stats, connVars, tasks, pool, notifyVars, pageVars, faults>>

Removes(p) ==
  /\ Goto(p, "removing", "notify")
  /\ pool' = pool \ {p}
  /\ UNCHANGED <<gate, stats, connVars, tasks, notifyVars, pageVars, faults>>

-----------------------------------------------------------------------------
(* RoomNotifier *)

WantsDispatch(d) == IF d \in Peers THEN join[d] = "notify"
                    ELSE d \in tasks /\ d.step = "notify"

Dispatched(d) ==
  IF d \in Peers THEN join' = [join EXCEPT ![d] = "end"] /\ UNCHANGED tasks
                 ELSE tasks' = tasks \ {d} /\ UNCHANGED join

DispatchToNobody(d) ==
  /\ WantsDispatch(d) /\ notifyMu = NoOne /\ listeners = {}
  /\ Dispatched(d)
  /\ UNCHANGED <<gate, stats, connVars, pool, notifyVars, pageVars, faults>>

DispatchUpdateRooms(d) ==
  /\ WantsDispatch(d) /\ notifyMu = NoOne /\ listeners # {}
  /\ notifyMu' = d
  /\ UNCHANGED <<joinVars, connVars, tasks, pool, listeners, reading, writing, pageVars, faults>>

(* Mutant: the mutex stays locked after the send. *)
SendLocked ==
  /\ notifyMu # NoOne /\ ~ reading /\ writing = {}
  /\ Dispatched(notifyMu)
  /\ reading' = TRUE
  /\ UNCHANGED <<gate, stats, connVars, pool, notifyMu, listeners, writing, pageVars, faults>>

(* n.updateRoomCh <- struct{}{}: OnUpdateRooms is back at its select. *)
Send ==
  /\ notifyMu # NoOne /\ ~ reading /\ writing = {}
  /\ Dispatched(notifyMu) /\ notifyMu' = NoOne
  /\ reading' = TRUE
  /\ UNCHANGED <<gate, stats, connVars, pool, listeners, writing, pageVars, faults>>

(* getListeners, which takes no lock: it finds those that listen by now. *)
GetListeners ==
  /\ reading /\ reading' = FALSE
  /\ writing' = listeners
  /\ UNCHANGED <<joinVars, connVars, tasks, pool, notifyMu, listeners, pageVars, faults>>

WriteUpdate(l) ==
  /\ l \in writing
  /\ writing' = writing \ {l}
  /\ due' = due \cup {l}   \* the page's timer starts, or starts again
  /\ UNCHANGED <<joinVars, connVars, tasks, pool, notifyMu, listeners, reading,
                 asked, fetched, shown, faults>>

-----------------------------------------------------------------------------
(* The page.  Its first request and its socket to the notifier are two       *)
(* effects that wait for nothing: the list may be read before it listens.    *)

Listen(l) ==
  /\ l \notin listeners /\ notifyMu = NoOne
  /\ listeners' = listeners \cup {l}
  /\ UNCHANGED <<joinVars, connVars, tasks, pool, notifyMu, reading, writing, pageVars, faults>>

(* Mutant: an update is dropped while the page has an answer to show. *)
TimerFiresOnce(l) ==
  /\ l \in due /\ due' = due \ {l}
  /\ asked' = [asked EXCEPT ![l] = IF \A rooms \in SUBSET Peers : fetched[l][rooms] = 0
                                   THEN @ + 1 ELSE @]
  /\ UNCHANGED <<joinVars, connVars, tasks, pool, notifyVars, fetched, shown, faults>>

(* The debounced updateRooms runs; requests under way are left alone. *)
TimerFires(l) ==
  /\ l \in due /\ due' = due \ {l}
  /\ asked' = [asked EXCEPT ![l] = @ + 1]
  /\ UNCHANGED <<joinVars, connVars, tasks, pool, notifyVars, fetched, shown, faults>>

(* GET /rooms is answered: RoomService.ListRoom reads the pool under its lock. *)
Fetch(l) ==
  /\ asked[l] > 0 /\ asked' = [asked EXCEPT ![l] = @ - 1]
  /\ fetched' = [fetched EXCEPT ![l][pool] = @ + 1]
  /\ UNCHANGED <<joinVars, connVars, tasks, pool, notifyVars, due, shown, faults>>

(* setRooms: the answers of a page arrive in any order. *)
Show(l) ==
  /\ \E rooms \in SUBSET Peers :
       /\ fetched[l][rooms] > 0 /\ fetched' = [fetched EXCEPT ![l][rooms] = @ - 1]
       /\ shown' = [shown EXCEPT ![l] = rooms]
  /\ UNCHANGED <<joinVars, connVars, tasks, pool, notifyVars, due, asked, faults>>

-----------------------------------------------------------------------------
Joining(p) ==
  \/ LockGate(p) \/ NewPeerContext(p) \/ SetStats(p) \/ SetStatsPanics(p)
  \/ Closes(p) \/ Removes(p)

Handling == \E t \in tasks : Add(t) \/ Reject(t) \/ HandleClosed(t) \/ HandlerRemoves(t)

Notifying(d) == DispatchToNobody(d) \/ DispatchUpdateRooms(d)

Page(l) == TimerFires(l) \/ Fetch(l) \/ Show(l)

Next ==
  \/ \E p \in Peers : \/ Joining(p) \/ NewPeerContextFails(p)
                      \/ Connects(p) \/ Disconnects(p) \/ Fails(p) \/ Leaves(p)
                      \/ Notifying(p)
  \/ Handling
  \/ \E t \in tasks : Notifying(t)
  \/ Send \/ GetListeners
  \/ \E l \in Listeners : WriteUpdate(l) \/ Listen(l) \/ Page(l)

Spec == Init /\ [][Next]_vars

(* Goroutines that can run, a mutex that can be taken, a write to a listener, *)
(* timers, requests and answers: as long as one of these can go on, one does. *)
(* Nothing else is fair: no peer has to connect, fail or leave, no page to   *)
(* listen.                                                                  *)
Progress ==
  \/ \E p \in Peers : Joining(p) \/ Notifying(p)
  \/ Handling \/ (\E t \in tasks : Notifying(t))
  \/ Send \/ GetListeners
  \/ \E l \in Listeners : WriteUpdate(l) \/ Page(l)

FairSpec == Spec /\ WF_vars(Progress)

-----------------------------------------------------------------------------
InGate(p) == join[p] \in {"make", "stats", "failed", "stuck"}

(* The gate does what it is for: one join at a time is between its start and *)
(* its statistics, and those it takes from the channel are those of the      *)
(* connection it has made.  Unless NewPeerContext has failed, whoever holds  *)
(* the gate can go on: the channel is empty when it makes a connection, and  *)
(* full when it waits for it.                                               *)
GatePairs ==
  /\ \A p, q \in Peers : InGate(p) /\ InGate(q) => p = q
  /\ \A p \in Peers : join[p] = "stats" => stats = p
  /\ gate # NoOne /\ faults = 0 =>
       \/ join[gate] = "make" /\ stats = NoOne
       \/ join[gate] = "stats" /\ stats = gate

(* DispatchUpdateRooms returns to the clean-up and to every state handler:   *)
(* its mutex, the channel and the goroutine that writes to the listeners     *)
(* never wait for each other in a cycle.                                     *)
UpdateReturns ==
  /\ \A p \in Peers : join[p] = "notify" ~> join[p] = "end"
  /\ tasks # {} ~> tasks = {}

(* What a handler or a clean-up has changed reaches the pages that listen:   *)
(* one that joined is shown unless it has left the pool, one that left is    *)
(* not shown unless it is back in the pool, through debounce, requests that  *)
(* overlap and the notices of other peers.  (The last answer a page shows    *)
(* may still be an older one: nothing orders requests.)                     *)
PageHears ==
  \A l \in Listeners, p \in Peers :
    /\ l \in listeners /\ (\E t \in tasks : t.peer = p /\ t.step = "notify")
         ~> p \in shown[l] \/ p \notin pool
    /\ l \in listeners /\ join[p] = "notify"
         ~> p \notin shown[l] \/ p \in pool

Adding(p) == \E t \in tasks : t.peer = p /\ t.step = "add"

(* A peer whose connection is closed and whose socket has ended leaves the   *)
(* pool for good, whichever of its clean-up and its state handlers come      *)
(* first, but for the one handler that can bring it back: a Connected        *)
(* handler that has not reached Add when the clean-up removes the peer.      *)
PeerLeavesForGood ==
  \A p \in Peers :
    conn[p] = "closed" /\ join[p] \in {"closing", "removing"} /\ ~ Adding(p)
      ~> [](p \notin pool)
=============================================================================
