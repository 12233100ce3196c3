----------------------------- MODULE RoomsProofs -----------------------------
(***************************************************************************)
(* Theorems about Rooms, for any peers and pages and every bound.           *)
(***************************************************************************)
EXTENDS Rooms, TLAPS

Steps == {"add", "notify", "reject", "close", "remove"}
Places == {"start", "make", "failed", "stuck", "stats", "open", "closing", "removing", "notify", "end"}
States == {"none", "new", "connected", "disconnected", "failed", "closed"}

Tasks == [peer : Peers, n : Nat \ {0}, step : Steps]

(* The goroutines of a peer are numbered in the order of its states; it has  *)
(* a connection.                                                            *)
Numbered ==
  /\ \A t \in tasks : t.n <= events[t.peer] /\ conn[t.peer] # "none"
  /\ \A t, u \in tasks : t.peer = u.peer /\ t.n = u.n => t = u

JoinTyped ==
  /\ join \in [Peers -> Places] /\ conn \in [Peers -> States] /\ events \in [Peers -> Nat]
  /\ tasks \subseteq Tasks /\ pool \subseteq Peers

(* A join has a connection between NewPeerContext and its clean-up, which    *)
(* starts by closing it.                                                    *)
ClosedBefore ==
  \A p \in Peers :
    /\ join[p] \in {"start", "make", "failed", "stuck"} => conn[p] = "none"
    /\ join[p] \in {"removing", "notify", "end"} => conn[p] = "closed"

(* Whoever holds updateRoomsMu waits to dispatch. *)
HolderWaits ==
  notifyMu # NoOne =>
    IF notifyMu \in Peers THEN join[notifyMu] = "notify"
    ELSE notifyMu \in tasks /\ notifyMu.step = "notify"

RoomsInv == JoinTyped /\ Numbered /\ ClosedBefore /\ HolderWaits

-----------------------------------------------------------------------------
LEMMA InitRooms == Init => RoomsInv
<1> SUFFICES ASSUME Init PROVE RoomsInv  OBVIOUS
<1>1. JoinTyped  BY DEF Init, JoinTyped, Places, States
<1>2. Numbered /\ HolderWaits  BY DEF Init, Numbered, HolderWaits
<1>3. ClosedBefore  BY DEF Init, ClosedBefore
<1> QED BY <1>1, <1>2, <1>3 DEF RoomsInv

(* Steps that move joins only. *)
LEMMA MoveJoin ==
  ASSUME RoomsInv, NEW p \in Peers, NEW to \in Places, join' = [join EXCEPT ![p] = to],
         UNCHANGED <<connVars, tasks>>, pool' \in SUBSET Peers,
         notifyMu' = notifyMu, join[p] # "notify",
         to \in {"start", "make", "failed", "stuck"} => conn[p] = "none",
         to \in {"removing", "notify", "end"} => conn[p] = "closed"
  PROVE  RoomsInv'
<1>0. JoinTyped /\ Numbered /\ ClosedBefore /\ HolderWaits  BY DEF RoomsInv
<1>1. join' \in [Peers -> Places] /\ \A q \in Peers : join'[q] = IF q = p THEN to ELSE join[q]
  BY <1>0 DEF JoinTyped
<1>2. JoinTyped' /\ Numbered'  BY <1>0, <1>1 DEF JoinTyped, Numbered, connVars
<1>3. ClosedBefore'  BY <1>0, <1>1 DEF ClosedBefore, connVars
<1>4. HolderWaits'  BY <1>0, <1>1 DEF HolderWaits
<1> QED BY <1>2, <1>3, <1>4 DEF RoomsInv

(* Steps of the notifier and of the pages, but for the end of a dispatch. *)
LEMMA MoveNone ==
  ASSUME RoomsInv, UNCHANGED <<joinVars, connVars, tasks, pool>>,
         \/ UNCHANGED notifyMu
         \/ \E d \in Peers \cup tasks : WantsDispatch(d) /\ notifyMu' = d
  PROVE  RoomsInv'
<1>1. HolderWaits'
  <2>1. CASE UNCHANGED notifyMu  BY <2>1 DEF RoomsInv, HolderWaits, joinVars
  <2>2. ASSUME NEW d \in Peers \cup tasks, WantsDispatch(d), notifyMu' = d PROVE HolderWaits'
    BY <2>2 DEF HolderWaits, WantsDispatch, joinVars
  <2> QED BY <2>1, <2>2
<1> QED BY <1>1 DEF RoomsInv, JoinTyped, Numbered, ClosedBefore, joinVars, connVars

-----------------------------------------------------------------------------
(* Goroutines that keep the numbers of those there are. *)
NumberedSet(B) ==
  /\ B \subseteq Tasks
  /\ \A t \in B : t.n <= events[t.peer] /\ conn[t.peer] # "none"
  /\ \A t, u \in B : t.peer = u.peer /\ t.n = u.n => t = u

LEMMA Remaining ==
  ASSUME RoomsInv, NEW t  PROVE NumberedSet(tasks \ {t})
BY DEF RoomsInv, JoinTyped, Numbered, NumberedSet

LEMMA Advancing ==
  ASSUME RoomsInv, NEW t \in tasks, NEW step \in Steps  PROVE NumberedSet(Advance(t, step))
<1> DEFINE v == [peer |-> t.peer, n |-> t.n, step |-> step]
<1>1. t \in Tasks /\ v \in Tasks /\ v.peer = t.peer /\ v.n = t.n
  BY DEF RoomsInv, JoinTyped, Tasks
<1>2. Advance(t, step) = (tasks \ {t}) \cup {v}  BY DEF Advance
<1> HIDE DEF v
<1>3. Advance(t, step) \subseteq Tasks  BY <1>1, <1>2 DEF RoomsInv, JoinTyped
<1>4. \A u \in Advance(t, step) : u.n <= events[u.peer] /\ conn[u.peer] # "none"
  BY <1>1, <1>2 DEF RoomsInv, Numbered
<1>5. ASSUME NEW u \in Advance(t, step), NEW w \in Advance(t, step), u.peer = w.peer, u.n = w.n
      PROVE  u = w
  <2>1. \A x, y \in tasks : x.peer = y.peer /\ x.n = y.n => x = y  BY DEF RoomsInv, Numbered
  <2> QED BY <1>1, <1>2, <1>5, <2>1
<1> QED BY <1>3, <1>4, <1>5 DEF NumberedSet

(* The state handler goes on: fewer goroutines, or one that is further on.   *)
LEMMA TasksMove ==
  ASSUME RoomsInv, UNCHANGED <<joinVars, connVars, notifyMu>>, pool' \in SUBSET Peers,
         NumberedSet(tasks'), \A u \in tasks : u.step = "notify" => u \in tasks'
  PROVE  RoomsInv'
<1>1. JoinTyped' /\ Numbered' /\ ClosedBefore'
  BY DEF RoomsInv, JoinTyped, Numbered, NumberedSet, ClosedBefore, joinVars, connVars
<1>2. HolderWaits'  BY DEF RoomsInv, HolderWaits, joinVars
<1> QED BY <1>1, <1>2 DEF RoomsInv

(* One goroutine more, for a new state. *)
LEMMA EventStep ==
  ASSUME RoomsInv, NEW p \in Peers, NEW state \in States \ {"none"}, NEW step \in Steps, NEW B, NumberedSet(B),
         \A u \in tasks : u.step = "notify" => u \in B,
         conn' = [conn EXCEPT ![p] = state], events' = [events EXCEPT ![p] = @ + 1],
         tasks' = B \cup {[peer |-> p, n |-> events[p] + 1, step |-> step]},
         pool' = pool, notifyMu' = notifyMu,
         join' \in [Peers -> Places], \A q \in Peers : join[q] = "notify" => join'[q] = "notify"
  PROVE  JoinTyped' /\ Numbered' /\ HolderWaits'
<1> DEFINE v == [peer |-> p, n |-> events[p] + 1, step |-> step]
<1>0. JoinTyped  BY DEF RoomsInv
<1>1. events[p] \in Nat /\ v \in Tasks /\ v.peer = p /\ v.n = events[p] + 1
  BY <1>0 DEF JoinTyped, Tasks
<1>2. tasks' = B \cup {v}  OBVIOUS
<1> HIDE DEF v
<1>3. events' \in [Peers -> Nat] /\ \A q \in Peers : events'[q] = IF q = p THEN events[p] + 1 ELSE events[q]
  BY <1>0, <1>1 DEF JoinTyped
<1>4. JoinTyped'
  BY <1>0, <1>1, <1>2, <1>3 DEF JoinTyped, NumberedSet
<1>5. ASSUME NEW t \in B PROVE t.peer \in Peers /\ t.n \in Nat /\ t.n <= events[t.peer] /\ t.n <= events'[t.peer]
  <2>1. t.peer \in Peers /\ t.n \in Nat /\ t.n <= events[t.peer] /\ events[t.peer] \in Nat
    BY <1>0 DEF NumberedSet, Tasks, JoinTyped
  <2> QED BY <1>3, <2>1
<1>6. Numbered'
  <2>1. \A t \in tasks' : t.n <= events'[t.peer]
    BY <1>1, <1>2, <1>3, <1>5
  <2>3. \A q \in Peers : conn'[q] = IF q = p THEN state ELSE conn[q]
    BY <1>0 DEF JoinTyped
  <2>4. \A t \in tasks' : conn'[t.peer] # "none"
    BY <1>1, <1>2, <1>5, <2>3 DEF NumberedSet
  <2>2. ASSUME NEW t \in tasks', NEW u \in tasks', t.peer = u.peer, t.n = u.n PROVE t = u
    <3>1. CASE t \in B /\ u \in B  BY <2>2, <3>1 DEF NumberedSet
    <3>2. CASE t = v /\ u = v  BY <3>2
    <3>3. CASE t \in B /\ u = v  BY <1>1, <1>5, <2>2, <3>3
    <3>4. CASE t = v /\ u \in B  BY <1>1, <1>5, <2>2, <3>4
    <3> QED BY <1>2, <3>1, <3>2, <3>3, <3>4
  <2> QED BY <2>1, <2>2, <2>4 DEF Numbered
<1>7. HolderWaits'  BY <1>2 DEF RoomsInv, HolderWaits
<1> QED BY <1>4, <1>6, <1>7

LEMMA ClosingStep ==
  ASSUME RoomsInv, NEW p \in Peers, NEW B, NumberedSet(B), CloseBy(p, B),
         \A u \in tasks : u.step = "notify" => u \in B,
         pool' = pool, notifyMu' = notifyMu,
         join' \in [Peers -> Places], \A q \in Peers : join[q] = "notify" => join'[q] = "notify"
  PROVE  /\ JoinTyped' /\ Numbered' /\ HolderWaits'
         /\ \A q \in Peers : conn'[q] = IF q = p THEN "closed" ELSE conn[q]
<1>1. CASE conn[p] = "closed"
  <2>1. tasks' = B /\ UNCHANGED <<conn, events>>  BY <1>1 DEF CloseBy, connVars
  <2>2. JoinTyped' /\ Numbered' /\ HolderWaits'
    BY <2>1 DEF RoomsInv, JoinTyped, Numbered, NumberedSet, HolderWaits
  <2> QED BY <1>1, <2>1, <2>2
<1>2. CASE conn[p] # "closed"
  <2>1. /\ conn' = [conn EXCEPT ![p] = "closed"] /\ events' = [events EXCEPT ![p] = @ + 1]
        /\ tasks' = B \cup {[peer |-> p, n |-> events[p] + 1, step |-> "close"]}
    BY <1>2 DEF CloseBy
  <2>2. JoinTyped' /\ Numbered' /\ HolderWaits'
    BY <2>1, EventStep, "closed" \in States \ {"none"}, "close" \in Steps DEF States, Steps
  <2> QED BY <2>1, <2>2 DEF RoomsInv, JoinTyped
<1> QED BY <1>1, <1>2

LEMMA JoiningKeeps ==
  ASSUME RoomsInv, NEW p \in Peers,
         \/ LockGate(p) \/ NewPeerContextFails(p) \/ SetStats(p) \/ SetStatsPanics(p)
         \/ Leaves(p) \/ Removes(p)
  PROVE  RoomsInv'
<1> USE DEF Goto
<1>0. JoinTyped /\ ClosedBefore /\ pool \subseteq Peers  BY DEF RoomsInv, JoinTyped
<1>1. UNCHANGED <<connVars, tasks, notifyMu>> /\ pool' \in SUBSET Peers
  BY <1>0 DEF LockGate, NewPeerContextFails, SetStats, SetStatsPanics, Leaves, Removes, notifyVars
<1>2. CASE LockGate(p)
  BY <1>0, <1>1, <1>2, MoveJoin, "make" \in Places DEF LockGate, ClosedBefore, Places
<1>3. CASE NewPeerContextFails(p)
  BY <1>0, <1>1, <1>3, MoveJoin, "failed" \in Places DEF NewPeerContextFails, ClosedBefore, Places
<1>4. CASE SetStats(p)
  BY <1>0, <1>1, <1>4, MoveJoin, "open" \in Places DEF SetStats, ClosedBefore, Places
<1>5. CASE SetStatsPanics(p)
  BY <1>0, <1>1, <1>5, MoveJoin, "stuck" \in Places DEF SetStatsPanics, ClosedBefore, Places
<1>6. CASE Leaves(p)
  BY <1>0, <1>1, <1>6, MoveJoin, "closing" \in Places DEF Leaves, ClosedBefore, Places
<1>7. CASE Removes(p)
  BY <1>0, <1>1, <1>7, MoveJoin, "notify" \in Places DEF Removes, ClosedBefore, Places
<1> QED BY <1>2, <1>3, <1>4, <1>5, <1>6, <1>7

LEMMA NewKeeps == ASSUME RoomsInv, NEW p \in Peers, NewPeerContext(p) PROVE RoomsInv'
<1>1. /\ join[p] = "make" /\ join' = [join EXCEPT ![p] = "stats"] /\ conn' = [conn EXCEPT ![p] = "new"]
      /\ UNCHANGED <<events, tasks, pool, notifyMu>>
  BY DEF NewPeerContext, Goto, notifyVars
<1>2. /\ join' \in [Peers -> Places] /\ conn' \in [Peers -> States]
      /\ \A q \in Peers : /\ join'[q] = IF q = p THEN "stats" ELSE join[q]
                          /\ conn'[q] = IF q = p THEN "new" ELSE conn[q]
  BY <1>1 DEF RoomsInv, JoinTyped, Places, States
<1>3. JoinTyped' /\ Numbered'  BY <1>1, <1>2 DEF RoomsInv, JoinTyped, Numbered, Tasks
<1>4. ClosedBefore'  BY <1>2 DEF RoomsInv, ClosedBefore
<1>5. HolderWaits'  BY <1>1, <1>2 DEF RoomsInv, HolderWaits
<1> QED BY <1>3, <1>4, <1>5 DEF RoomsInv

LEMMA EnterKeeps ==
  ASSUME RoomsInv, NEW p \in Peers, Connects(p) \/ Disconnects(p) \/ Fails(p)
  PROVE  RoomsInv'
<1>1. /\ join[p] \in {"open", "closing"} /\ UNCHANGED <<joinVars, pool, notifyMu>>
      /\ Enter(p, "connected", "add") \/ Enter(p, "disconnected", "none") \/ Enter(p, "failed", "close")
  BY DEF Connects, Disconnects, Fails, notifyVars
<1>2. NumberedSet(tasks)  BY DEF RoomsInv, JoinTyped, Numbered, NumberedSet
<1>3. join' \in [Peers -> Places] /\ join' = join  BY <1>1 DEF RoomsInv, JoinTyped, joinVars
<1>4. JoinTyped' /\ Numbered' /\ HolderWaits'
  <2>1. CASE Enter(p, "connected", "add")
    BY <1>1, <1>2, <1>3, <2>1, EventStep, "connected" \in States \ {"none"}, "add" \in Steps DEF Enter, States, Steps
  <2>2. CASE Enter(p, "disconnected", "none")
    <3>1. conn' = [conn EXCEPT ![p] = "disconnected"] /\ UNCHANGED <<events, tasks>>
      BY <2>2 DEF Enter
    <3>2. \A q \in Peers : conn'[q] \in {conn[q], "disconnected"}
      BY <3>1 DEF RoomsInv, JoinTyped
    <3> QED BY <1>1, <1>3, <3>1, <3>2 DEF RoomsInv, JoinTyped, Numbered, HolderWaits, States, Tasks
  <2>3. CASE Enter(p, "failed", "close")
    BY <1>1, <1>2, <1>3, <2>3, EventStep, "failed" \in States \ {"none"}, "close" \in Steps DEF Enter, States, Steps
  <2> QED BY <1>1, <2>1, <2>2, <2>3
<1>5. \A q \in Peers \ {p} : conn'[q] = conn[q]
  BY <1>1 DEF Enter, RoomsInv, JoinTyped
<1>6. ClosedBefore'  BY <1>1, <1>3, <1>5 DEF RoomsInv, ClosedBefore
<1> QED BY <1>4, <1>6 DEF RoomsInv

LEMMA HandlingKeeps ==
  ASSUME RoomsInv, NEW t \in tasks, Add(t) \/ Reject(t) \/ HandleClosed(t) \/ HandlerRemoves(t)
  PROVE  RoomsInv'
<1>0. t.peer \in Peers /\ pool \subseteq Peers  BY DEF RoomsInv, JoinTyped, Tasks
<1>1. CASE Add(t)
  <2>1. PICK step \in {"reject", "notify"} : tasks' = Advance(t, step)
    BY <1>1 DEF Add
  <2>2. NumberedSet(tasks')  BY <2>1, Advancing DEF Steps
  <2>3. \A u \in tasks : u.step = "notify" => u \in tasks'
    BY <1>1, <2>1 DEF Add, Advance
  <2>4. UNCHANGED <<joinVars, connVars, notifyMu>> /\ pool' \in SUBSET Peers
    BY <1>0, <1>1 DEF Add, notifyVars
  <2> QED BY <2>2, <2>3, <2>4, TasksMove
<1>2. CASE HandlerRemoves(t)
  <2>1. UNCHANGED <<joinVars, connVars, notifyMu>> /\ pool' \in SUBSET Peers /\ tasks' = tasks \ {t}
        /\ t.step = "remove"
    BY <1>0, <1>2 DEF HandlerRemoves, notifyVars
  <2>2. NumberedSet(tasks')  BY <2>1, Remaining
  <2>3. \A u \in tasks : u.step = "notify" => u \in tasks'  BY <2>1
  <2> QED BY <2>1, <2>2, <2>3, TasksMove
<1>3. CASE Reject(t) \/ HandleClosed(t)
  <2>1. PICK B \in {tasks \ {t}, Advance(t, "remove")} : CloseBy(t.peer, B)
    BY <1>3 DEF Reject, HandleClosed
  <2>2. NumberedSet(B)  BY Remaining, Advancing DEF Steps
  <2>3. \A u \in tasks : u.step = "notify" => u \in B
    BY <1>3 DEF Reject, HandleClosed, Advance
  <2>4. join' = join /\ pool' = pool /\ notifyMu' = notifyMu /\ join' \in [Peers -> Places]
    BY <1>3 DEF Reject, HandleClosed, joinVars, notifyVars, RoomsInv, JoinTyped
  <2>5. /\ JoinTyped' /\ Numbered' /\ HolderWaits'
        /\ \A q \in Peers : conn'[q] = IF q = t.peer THEN "closed" ELSE conn[q]
    BY <1>0, <2>1, <2>2, <2>3, <2>4, ClosingStep
  <2>6. conn[t.peer] # "none"  BY DEF RoomsInv, Numbered
  <2> QED BY <2>4, <2>5, <2>6 DEF RoomsInv, ClosedBefore
<1> QED BY <1>1, <1>2, <1>3

LEMMA ClosesKeeps == ASSUME RoomsInv, NEW p \in Peers, Closes(p) PROVE RoomsInv'
<1>1. /\ join[p] = "closing" /\ join' = [join EXCEPT ![p] = "removing"] /\ CloseBy(p, tasks)
      /\ pool' = pool /\ notifyMu' = notifyMu
  BY DEF Closes, Goto, notifyVars
<1>2. /\ join' \in [Peers -> Places]
      /\ \A q \in Peers : join'[q] = IF q = p THEN "removing" ELSE join[q]
  BY <1>1 DEF RoomsInv, JoinTyped, Places
<1>3. NumberedSet(tasks)  BY DEF RoomsInv, JoinTyped, Numbered, NumberedSet
<1>4. /\ JoinTyped' /\ Numbered' /\ HolderWaits'
      /\ \A q \in Peers : conn'[q] = IF q = p THEN "closed" ELSE conn[q]
  BY <1>1, <1>2, <1>3, ClosingStep
<1>5. ClosedBefore'  BY <1>2, <1>4 DEF RoomsInv, ClosedBefore
<1> QED BY <1>4, <1>5 DEF RoomsInv

(* The end of a dispatch: the clean-up has ended, or the goroutine has. *)
LEMMA DispatchedKeeps ==
  ASSUME RoomsInv, NEW d, IF d \in Peers THEN join[d] = "notify" ELSE d \in tasks /\ d.step = "notify",
         Dispatched(d), UNCHANGED <<gate, stats, connVars, pool>>, notifyMu' = NoOne
  PROVE  RoomsInv'
<1>1. HolderWaits'  BY DEF HolderWaits
<1>2. CASE d \in Peers
  <2>1. join' = [join EXCEPT ![d] = "end"] /\ tasks' = tasks /\ conn[d] = "closed"
    BY <1>2 DEF Dispatched, RoomsInv, ClosedBefore
  <2>2. join' \in [Peers -> Places] /\ \A q \in Peers : join'[q] = IF q = d THEN "end" ELSE join[q]
    BY <1>2, <2>1 DEF RoomsInv, JoinTyped, Places
  <2>3. JoinTyped' /\ Numbered'  BY <2>1, <2>2 DEF RoomsInv, JoinTyped, Numbered, connVars
  <2>4. ClosedBefore'  BY <2>1, <2>2 DEF RoomsInv, ClosedBefore, connVars
  <2> QED BY <1>1, <2>3, <2>4 DEF RoomsInv
<1>3. CASE d \notin Peers
  <2>1. tasks' = tasks \ {d} /\ join' = join  BY <1>3 DEF Dispatched
  <2>2. JoinTyped' /\ Numbered' /\ ClosedBefore'
    BY <2>1 DEF RoomsInv, JoinTyped, Numbered, ClosedBefore, connVars
  <2> QED BY <1>1, <2>2 DEF RoomsInv
<1> QED BY <1>2, <1>3

LEMMA NotifierKeeps ==
  ASSUME RoomsInv,
         \/ \E d \in Peers \cup tasks : Notifying(d)
         \/ Send
         \/ GetListeners
         \/ \E l \in Listeners : WriteUpdate(l) \/ Listen(l) \/ Page(l)
  PROVE  RoomsInv'
<1>1. ASSUME NEW d \in Peers \cup tasks, DispatchToNobody(d) PROVE RoomsInv'
  <2>1. IF d \in Peers THEN join[d] = "notify" ELSE d \in tasks /\ d.step = "notify"
    BY <1>1 DEF DispatchToNobody, WantsDispatch
  <2> QED BY <1>1, <2>1, DispatchedKeeps DEF DispatchToNobody, notifyVars
<1>2. ASSUME NEW d \in Peers \cup tasks, DispatchUpdateRooms(d) PROVE RoomsInv'
  BY <1>2, MoveNone DEF DispatchUpdateRooms
<1>3. CASE Send
  <2>1. IF notifyMu \in Peers THEN join[notifyMu] = "notify"
        ELSE notifyMu \in tasks /\ notifyMu.step = "notify"
    BY <1>3 DEF Send, RoomsInv, HolderWaits
  <2> QED BY <1>3, <2>1, DispatchedKeeps DEF Send
<1>4. ASSUME NEW l \in Listeners, WriteUpdate(l) \/ Listen(l) \/ Page(l) PROVE RoomsInv'
  BY <1>4, MoveNone DEF WriteUpdate, Page, Listen, TimerFires, Fetch, Show, notifyVars
<1>5. CASE GetListeners  BY <1>5, MoveNone DEF GetListeners
<1> QED BY <1>1, <1>2, <1>3, <1>4, <1>5 DEF Notifying

LEMMA RoomsStep == ASSUME RoomsInv, [Next]_vars PROVE RoomsInv'
<1>1. CASE UNCHANGED vars  BY <1>1, MoveNone DEF vars, notifyVars
<1>2. ASSUME NEW p \in Peers,
             \/ Joining(p) \/ NewPeerContextFails(p)
             \/ Connects(p) \/ Disconnects(p) \/ Fails(p) \/ Leaves(p)
      PROVE  RoomsInv'
  BY <1>2, JoiningKeeps, NewKeeps, EnterKeeps, ClosesKeeps DEF Joining
<1>3. CASE Handling  BY <1>3, HandlingKeeps DEF Handling
<1>4. CASE \/ \E d \in Peers \cup tasks : Notifying(d)
           \/ Send \/ GetListeners
           \/ \E l \in Listeners : WriteUpdate(l) \/ Listen(l) \/ Page(l)
  BY <1>4, NotifierKeeps
<1> QED BY <1>1, <1>2, <1>3, <1>4 DEF Next

-----------------------------------------------------------------------------
(* A peer that has left the pool *)

(* A closed connection stays so. *)
LEMMA StaysClosed ==
  ASSUME RoomsInv, [Next]_vars, NEW p \in Peers, conn[p] = "closed"
  PROVE  conn'[p] = "closed"
<1>1. CASE UNCHANGED <<conn>>  BY <1>1
<1>2. ASSUME NEW q \in Peers, NEW state \in States, conn' = [conn EXCEPT ![q] = state],
             conn[q] # "closed" \/ state = "closed"
      PROVE  conn'[p] = "closed"
  BY <1>2 DEF RoomsInv, JoinTyped
<1>3. ASSUME NEW q \in Peers, NEW B, CloseBy(q, B) PROVE conn'[p] = "closed"
  BY <1>1, <1>2, <1>3 DEF CloseBy, connVars, States
<1>4. ASSUME NEW q \in Peers, Joining(q) \/ NewPeerContextFails(q) \/ Leaves(q) PROVE conn'[p] = "closed"
  <2>1. CASE NewPeerContext(q)
    <3>1. conn[q] # "closed"  BY <2>1 DEF NewPeerContext, Goto, RoomsInv, ClosedBefore
    <3> QED BY <2>1, <3>1, <1>2 DEF NewPeerContext, States
  <2>2. CASE Closes(q)  BY <2>2, <1>3 DEF Closes
  <2>3. CASE \/ LockGate(q) \/ SetStats(q) \/ SetStatsPanics(q) \/ Removes(q)
             \/ NewPeerContextFails(q) \/ Leaves(q)
    BY <1>1, <2>3 DEF LockGate, SetStats, SetStatsPanics, Removes, NewPeerContextFails, Leaves, connVars
  <2> QED BY <1>4, <2>1, <2>2, <2>3 DEF Joining
<1>5. ASSUME NEW q \in Peers, Connects(q) \/ Disconnects(q) \/ Fails(q) PROVE conn'[p] = "closed"
  BY <1>2, <1>5 DEF Connects, Disconnects, Fails, Enter, States
<1>6. CASE Handling
  <2>1. PICK t \in tasks : Add(t) \/ Reject(t) \/ HandleClosed(t) \/ HandlerRemoves(t)
    BY <1>6 DEF Handling
  <2>2. t.peer \in Peers  BY DEF RoomsInv, JoinTyped, Tasks
  <2> QED BY <1>1, <1>3, <2>1, <2>2 DEF Add, Reject, HandleClosed, HandlerRemoves, connVars
<1>7. CASE \/ \E d \in Peers \cup tasks : Notifying(d)
           \/ Send \/ GetListeners
           \/ \E l \in Listeners : WriteUpdate(l) \/ Listen(l) \/ Page(l)
           \/ UNCHANGED vars
  BY <1>1, <1>7 DEF Notifying, DispatchToNobody, DispatchUpdateRooms, Send, GetListeners,
                    WriteUpdate, Page, Listen, TimerFires, Fetch, Show, connVars, vars
<1> QED BY <1>4, <1>5, <1>6, <1>7 DEF Next

(* The connection is closed, the pool has forgotten it, and no Connected     *)
(* handler is there that could add it once more.                             *)
Gone(p) == conn[p] = "closed" /\ p \notin pool /\ ~ Adding(p)

LEMMA GoneStep ==
  ASSUME RoomsInv, [Next]_vars, NEW p \in Peers, Gone(p)
  PROVE  Gone(p)'
<1> DEFINE NoneAdded == pool' \subseteq pool /\ \A t \in tasks' : t.step = "add" => t \in tasks
<1>0. conn[p] = "closed" /\ conn'[p] = "closed" /\ p \notin pool /\ ~ Adding(p)
  BY StaysClosed DEF Gone
<1>1. NoneAdded => Gone(p)'  BY <1>0 DEF Gone, Adding
<1>2. ASSUME NEW q \in Peers, NEW B, CloseBy(q, B), pool' = pool,
             \A t \in B : t.step = "add" => t \in tasks
      PROVE  Gone(p)'
  BY <1>1, <1>2 DEF CloseBy
<1>3. ASSUME NEW q \in Peers, Joining(q) \/ NewPeerContextFails(q) \/ Leaves(q) PROVE Gone(p)'
  <2>1. CASE Closes(q)  BY <1>2, <2>1 DEF Closes
  <2>2. CASE \/ LockGate(q) \/ NewPeerContext(q) \/ SetStats(q) \/ SetStatsPanics(q) \/ Removes(q)
             \/ NewPeerContextFails(q) \/ Leaves(q)
    BY <1>1, <2>2 DEF LockGate, NewPeerContext, SetStats, SetStatsPanics, Removes,
                      NewPeerContextFails, Leaves
  <2> QED BY <1>3, <2>1, <2>2 DEF Joining
<1>4. ASSUME NEW q \in Peers, Connects(q) PROVE Gone(p)'
  <2>1. q # p /\ pool' = pool  BY <1>0, <1>4 DEF Connects
  <2>2. tasks' = tasks \cup {[peer |-> q, n |-> events[q] + 1, step |-> "add"]}
    BY <1>4 DEF Connects, Enter
  <2> QED BY <1>0, <2>1, <2>2 DEF Gone, Adding
<1>5. ASSUME NEW q \in Peers, Disconnects(q) \/ Fails(q) PROVE Gone(p)'
  BY <1>1, <1>5 DEF Disconnects, Fails, Enter
<1>6. ASSUME NEW t \in tasks, Add(t) \/ Reject(t) \/ HandleClosed(t) \/ HandlerRemoves(t)
      PROVE  Gone(p)'
  <2>0. t.peer \in Peers  BY DEF RoomsInv, JoinTyped, Tasks
  <2>1. CASE Add(t)
    <3>1. t.step = "add" /\ t.peer # p  BY <1>0, <2>1 DEF Add, Adding
    <3>2. p \notin pool'  BY <1>0, <2>1, <3>1 DEF Add
    <3>3. \A u \in tasks' : u.step = "add" => u \in tasks  BY <2>1 DEF Add, Advance
    <3> QED BY <1>0, <3>2, <3>3 DEF Gone, Adding
  <2>2. CASE Reject(t)  BY <1>2, <2>0, <2>2 DEF Reject
  <2>3. CASE HandleClosed(t)
    <3>1. \A u \in Advance(t, "remove") : u.step = "add" => u \in tasks  BY DEF Advance
    <3> QED BY <1>2, <2>0, <2>3, <3>1 DEF HandleClosed
  <2>4. CASE HandlerRemoves(t)  BY <1>1, <2>4 DEF HandlerRemoves
  <2> QED BY <1>6, <2>1, <2>2, <2>3, <2>4
<1>7. ASSUME NEW d \in Peers \cup tasks, Notifying(d) PROVE Gone(p)'
  BY <1>1, <1>7 DEF Notifying, DispatchToNobody, DispatchUpdateRooms, Dispatched
<1>8. CASE Send  BY <1>1, <1>8 DEF Send, Dispatched
<1>9. CASE \/ GetListeners \/ UNCHANGED vars
           \/ \E l \in Listeners : WriteUpdate(l) \/ Listen(l) \/ Page(l)
  BY <1>1, <1>9 DEF GetListeners, vars, WriteUpdate, Page, Listen, TimerFires, Fetch, Show
<1> QED BY <1>3, <1>4, <1>5, <1>6, <1>7, <1>8, <1>9 DEF Next, Handling

(* Once a peer with a closed connection is out of the pool and no Connected  *)
(* handler of it is before its Add, nothing ever adds it again: neither a    *)
(* connection that recovers, nor any other handler, clean-up or rejection,   *)
(* in whatever order the goroutines run.  (PeerLeavesForGood adds that every *)
(* such peer does leave.)                                                   *)
THEOREM GoneStaysGone == Spec => [][\A p \in Peers : Gone(p) => Gone(p)']_vars
<1>1. Spec => []RoomsInv
  BY InitRooms, RoomsStep, PTL DEF Spec
<1>2. RoomsInv /\ [Next]_vars => [\A p \in Peers : Gone(p) => Gone(p)']_vars
  BY GoneStep
<1>3. QED
  BY <1>1, <1>2, PTL DEF Spec

-----------------------------------------------------------------------------
(* The gate and the notifier's mutex always have somebody who gives them back *)

(* Who holds the gate, and whose statistics the channel has. *)
GateInv ==
  /\ join \in [Peers -> Places] /\ faults \in Nat
  /\ \A p \in Peers : InGate(p) <=> gate = p
  /\ gate \in Peers \cup {NoOne}
  /\ gate = NoOne => stats = NoOne
  /\ \A p \in Peers : /\ join[p] = "make" => stats = NoOne
                      /\ join[p] = "stats" => stats = p
                      /\ join[p] \in {"failed", "stuck"} => faults > 0

LEMMA InitGate == Init => GateInv
<1> SUFFICES ASSUME Init PROVE GateInv  OBVIOUS
<1> QED BY RoomsAssumption DEF Init, GateInv, InGate, Places

(* A join that moves outside of the gate. *)
LEMMA OutsideGate ==
  ASSUME GateInv, NEW p \in Peers, NEW to \in Places, join' = [join EXCEPT ![p] = to],
         UNCHANGED <<gate, stats, faults>>, ~ InGate(p),
         to \notin {"make", "stats", "failed", "stuck"}
  PROVE  GateInv'
<1>1. join' \in [Peers -> Places] /\ \A q \in Peers : join'[q] = IF q = p THEN to ELSE join[q]
  BY DEF GateInv
<1>2. \A q \in Peers : InGate(q)' <=> InGate(q)  BY <1>1 DEF InGate
<1> QED BY <1>1, <1>2 DEF GateInv, InGate

LEMMA GateJoining == ASSUME GateInv, NEW p \in Peers, Joining(p) \/ NewPeerContextFails(p) \/ Leaves(p)
                     PROVE  GateInv'
<1> USE RoomsAssumption DEF GateInv, InGate, Goto, Places
<1>0. \A to \in Places : join' = [join EXCEPT ![p] = to] =>
        \A q \in Peers : join'[q] = IF q = p THEN to ELSE join[q]
  OBVIOUS
<1>1. CASE LockGate(p)  BY <1>0, <1>1 DEF LockGate
<1>2. CASE NewPeerContext(p)  BY <1>0, <1>2 DEF NewPeerContext
<1>3. CASE NewPeerContextFails(p)  BY <1>0, <1>3 DEF NewPeerContextFails
<1>4. CASE SetStats(p)  BY <1>0, <1>4 DEF SetStats
<1>5. CASE SetStatsPanics(p)  BY <1>0, <1>5 DEF SetStatsPanics
<1>6. CASE Closes(p)  BY <1>6, OutsideGate DEF Closes
<1>7. CASE Removes(p)  BY <1>7, OutsideGate DEF Removes
<1>8. CASE Leaves(p)  BY <1>8, OutsideGate DEF Leaves
<1> QED BY <1>1, <1>2, <1>3, <1>4, <1>5, <1>6, <1>7, <1>8 DEF Joining

LEMMA GateSame ==
  ASSUME GateInv, UNCHANGED <<joinVars, faults>> PROVE GateInv'
BY DEF GateInv, InGate, joinVars

(* The end of a dispatch moves a join from its clean-up, if it was that one. *)
LEMMA GateDispatched ==
  ASSUME GateInv, NEW d, Dispatched(d), d \in Peers => join[d] = "notify",
         UNCHANGED <<gate, stats, faults>>
  PROVE  GateInv'
<1>1. CASE d \in Peers
  <2>1. ~ InGate(d) /\ join' = [join EXCEPT ![d] = "end"]
    BY <1>1 DEF Dispatched, InGate
  <2> QED BY <1>1, <2>1, OutsideGate DEF Places
<1>2. CASE d \notin Peers  BY <1>2, GateSame DEF Dispatched, joinVars
<1> QED BY <1>1, <1>2

LEMMA GateStep == ASSUME RoomsInv, GateInv, [Next]_vars PROVE GateInv'
<1>1. ASSUME NEW p \in Peers, Joining(p) \/ NewPeerContextFails(p) \/ Leaves(p) PROVE GateInv'
  BY <1>1, GateJoining
<1>2. ASSUME NEW p \in Peers, Connects(p) \/ Disconnects(p) \/ Fails(p) PROVE GateInv'
  BY <1>2, GateSame DEF Connects, Disconnects, Fails
<1>3. CASE Handling
  BY <1>3, GateSame DEF Handling, Add, Reject, HandleClosed, HandlerRemoves
<1>4. ASSUME NEW d \in Peers \cup tasks, Notifying(d) PROVE GateInv'
  <2>1. CASE DispatchToNobody(d)
    <3>1. d \in Peers => join[d] = "notify"  BY <2>1 DEF DispatchToNobody, WantsDispatch
    <3> QED BY <2>1, <3>1, GateDispatched DEF DispatchToNobody
  <2>2. CASE DispatchUpdateRooms(d)  BY <2>2, GateSame DEF DispatchUpdateRooms
  <2> QED BY <1>4, <2>1, <2>2 DEF Notifying
<1>5. CASE Send
  <2>1. notifyMu \in Peers => join[notifyMu] = "notify"
    BY <1>5 DEF Send, RoomsInv, HolderWaits
  <2> QED BY <1>5, <2>1, GateDispatched DEF Send
<1>6. ASSUME NEW l \in Listeners, WriteUpdate(l) \/ Listen(l) \/ Page(l) PROVE GateInv'
  BY <1>6, GateSame DEF WriteUpdate, Page, Listen, TimerFires, Fetch, Show
<1>7. CASE GetListeners \/ UNCHANGED vars  BY <1>7, GateSame DEF GetListeners, vars
<1> QED BY <1>1, <1>2, <1>3, <1>4, <1>5, <1>6, <1>7 DEF Next

(* However many joins come at once, one at a time is between the gate and its *)
(* statistics, takes those of its own connection, and can go on unless        *)
(* NewPeerContext has failed.                                                *)
THEOREM GateIsPaired == Spec => []GatePairs
<1>1. Spec => []RoomsInv
  BY InitRooms, RoomsStep, PTL DEF Spec
<1>2. GateInv => GatePairs
  <2> SUFFICES ASSUME GateInv PROVE GatePairs  OBVIOUS
  <2>1. \A p, q \in Peers : InGate(p) /\ InGate(q) => p = q  BY DEF GateInv
  <2>2. gate # NoOne /\ faults = 0 => InGate(gate) /\ join[gate] \notin {"failed", "stuck"}
    BY DEF GateInv
  <2>3. gate # NoOne /\ faults = 0 => \/ join[gate] = "make" /\ stats = NoOne
                                      \/ join[gate] = "stats" /\ stats = gate
    BY <2>2 DEF GateInv, InGate
  <2> QED BY <2>1, <2>3 DEF GateInv, GatePairs
<1>3. QED
  BY <1>1, <1>2, InitGate, GateStep, PTL DEF Spec

(* Whoever holds the notifier's mutex still has its notice to send: the      *)
(* goroutine that reads the channel meets a sender, and the mutex is given   *)
(* back, whatever joins and handlers end meanwhile (what UpdateReturns rests *)
(* on).                                                                     *)
THEOREM NotifierHasSender == Spec => []HolderWaits
<1>1. RoomsInv => HolderWaits
  BY DEF RoomsInv
<1>2. QED
  BY <1>1, InitRooms, RoomsStep, PTL DEF Spec
=============================================================================
