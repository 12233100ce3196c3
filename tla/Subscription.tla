---------------------------- MODULE Subscription ----------------------------
(***************************************************************************)
(* What ONE peer of a room receives: the tracks its Subscriber             *)
(* (pkg/sfu/subscriber.go) attaches, the transceivers it sends them on      *)
(* (transceiverpool.go) and the goroutines that ask for an attachment:      *)
(*   - TrackDownToPeers, called by the publisher's OnTrack;                 *)
(*   - SanitizePeerSenders, called by a 10s ticker, by ObserveSubscriber    *)
(*     for each attached track and by an ObserveTrack that ends;            *)
(*   - SynchronizeOfferState, a 4s ticker.                                  *)
(* All of them block on one unbuffered channel and on the ack of its only   *)
(* reader, HandleTrackAttach.  The publishers are the environment.          *)
(*                                                                          *)
(* A transceiver is the number of its creation.  The first Stubs of them    *)
(* are those of PeerContext.AddTransceiver.  What pion does with a          *)
(* transceiver is modelled by its sender, its direction and whether it has  *)
(* a mid, which CreateOffer gives it.                                       *)
(***************************************************************************)
EXTENDS Naturals, FiniteSets, FiniteSetsExt

CONSTANTS
  Tracks,        \* the tracks the other peers publish
  Tickers,       \* the 10s goroutines of RoomControllerRoomJoin (one per peer)
  Syncs,         \* SynchronizeOfferState (one per peer)
  Leavers,       \* observers in their last sanitize
  Bus,           \* ObserveSubscriber
  None, Stub,    \* no sender; a sender whose track nobody publishes
  Stubs,         \* transceivers AddTransceiver made (2 in the code)
  MaxXcvrs,      \* bound: transceivers made
  MayClose,      \* bound: FALSE, only runs in which the peer stays
  Settings       \* what a behaviour may be restricted to, one of them in each:
                 \*   faults         bound: failures of pion
                 \*   leavers        bound: observers that can be in their last sanitize at once
                 \*   runners        bound: the tickers that run, the leavers that get further
                 \*                  than their start

Runners == Tickers \cup Syncs \cup Leavers \cup {Bus}

ASSUME SubscriptionAssumption ==
  /\ IsFiniteSet(Tracks)
  /\ Tracks \cap Runners = {} /\ {None, Stub} \cap Tracks = {} /\ None # Stub
  /\ Bus \notin Tickers \cup Syncs \cup Leavers
  /\ Tickers \cap Syncs = {} /\ Leavers \cap (Tickers \cup Syncs) = {}
  /\ Stubs \in Nat /\ MaxXcvrs \in Nat /\ Stubs <= MaxXcvrs
  /\ MayClose \in BOOLEAN
  /\ Settings \subseteq [faults : Nat, leavers : SUBSET Leavers,
                         runners : SUBSET (Tickers \cup Leavers)]

VARIABLES
  published,   \* tracks in the publishTracks of their publisher
  pooled,      \* tracks whose publisher is in the room's pool
  done,        \* tracks whose context is cancelled
  down,        \* where TrackDownToPeers is with this peer, per track
  tracks,      \* Subscriber.tracks: the transceiver of an attached track, 0 if absent
  attached,    \* SubscriberTrackAttached messages not yet received
  observers,   \* ObserveTrack goroutines that wait for their track to be done
  deleting,    \* the DeleteTrack that holds tracksMu
  sender, direction, withMid, made,  \* pion's transceivers
  free,        \* TransceiverPool.free: per mid (0 is ""), a transceiver or 0
  handler,     \* HandleTrackAttach
  runs,        \* the goroutines that sanitize or synchronize
  closed,      \* the subscriber's context is done
  panicked,    \* the Go runtime aborted the process
  faults,
  setting      \* never changes

pubVars == <<published, pooled, done, down>>
subVars == <<tracks, attached, observers, deleting>>
xcvrVars == <<sender, direction, withMid, made, free>>
endVars == <<closed, panicked, faults, setting>>
vars == <<pubVars, subVars, xcvrVars, handler, runs, endVars>>

Xcvrs == 1..MaxXcvrs
Attachment == [track : Tracks, xcvr : Xcvrs]
NoAttachment == [track |-> None, xcvr |-> 0]
HandlerAt(step, k, from, x) == [step |-> step, track |-> k, from |-> from, xcvr |-> x]
IdleHandler == HandlerAt("select", None, None, 0)
RunAt(step, seen, todo) == [step |-> step, seen |-> seen, todo |-> todo]
IdleRun == RunAt("idle", {}, {})

(* newSubscriber, OnTrack's goroutines, AddTransceiver; no offer made yet. *)
Init ==
  /\ published = {} /\ pooled = {} /\ done = {}
  /\ down = [k \in Tracks |-> "no"]
  /\ tracks = [k \in Tracks |-> 0]
  /\ attached = {} /\ observers = {} /\ deleting = NoAttachment
  /\ sender = [x \in Xcvrs |-> IF x <= Stubs THEN Stub ELSE None]
  /\ direction = [x \in Xcvrs |-> IF x <= Stubs THEN "sendrecv" ELSE "none"]
  /\ withMid = {} /\ made = Stubs
  /\ free = [m \in 0..MaxXcvrs |-> 0]
  /\ handler = IdleHandler
  /\ runs = [r \in Runners |-> IdleRun]
  /\ closed = FALSE /\ panicked = FALSE
  /\ setting \in Settings /\ faults = 0

Fault == faults < setting.faults /\ faults' = faults + 1

Visible == published \cap pooled

-----------------------------------------------------------------------------
(* The publishers: each track has a publisher of its own *)

JoinPool(k) ==
  /\ k \notin pooled \cup done
  /\ pooled' = pooled \cup {k}
  /\ UNCHANGED <<published, done, down, subVars, xcvrVars, handler, runs, endVars>>

(* publishTrack *)
Publish(k) ==
  /\ k \notin published \cup done
  /\ published' = published \cup {k}
  /\ UNCHANGED <<pooled, done, down, subVars, xcvrVars, handler, runs, endVars>>

(* TrackDownToPeers finds this peer in the pool. *)
TrackDown(k) ==
  /\ k \in published \ done /\ down[k] = "no"
  /\ down' = [down EXCEPT ![k] = "ask"]
  /\ UNCHANGED <<published, pooled, done, subVars, xcvrVars, handler, runs, endVars>>

(* The last RTP packet (EOF), or the publisher is closed. *)
EndTrack(k) ==
  /\ k \in published \ done
  /\ done' = done \cup {k}
  /\ UNCHANGED <<published, pooled, down, subVars, xcvrVars, handler, runs, endVars>>

(* OnTrack returns.  The TrackDownStopToPeers it defers runs under the      *)
(* track's own context, which is done: it detaches nothing.                 *)
Unpublish(k) ==
  /\ k \in published \cap done /\ down[k] \in {"no", "back"}
  /\ published' = published \ {k}
  /\ UNCHANGED <<pooled, done, down, subVars, xcvrVars, handler, runs, endVars>>

-----------------------------------------------------------------------------
(* pion's transceivers and TransceiverPool *)

(* PeerConnection.RemoveTrack of the sender of x. *)
RemoveTrack(x) ==
  /\ sender' = [sender EXCEPT ![x] = None]
  /\ direction' = [direction EXCEPT ![x] =
       CASE @ = "sendrecv" -> "recvonly" [] @ = "sendonly" -> "inactive" [] OTHER -> @]

Mid(x) == IF x \in withMid THEN x ELSE 0

(* Mutant: the transceiver is stopped, not kept. *)
ReleaseForgets(x) ==
  /\ direction' = [direction EXCEPT ![x] = "inactive"]
  /\ UNCHANGED free

(* Stop makes the transceiver inactive; its mid is the key it is kept under. *)
Release(x) ==
  /\ direction' = [direction EXCEPT ![x] = "inactive"]
  /\ free' = [free EXCEPT ![Mid(x)] = x]

FreeXcvrs == {free[m] : m \in 0..MaxXcvrs} \ {0}

(* Mutant: the transceiver stays in the pool. *)
GetKeeps(x) ==
  /\ x \in FreeXcvrs
  /\ \A y \in FreeXcvrs : direction[y] = "inactive"
  /\ UNCHANGED free

(* Any free transceiver: the last one of a map's iteration. *)
Get(x) ==
  /\ x \in FreeXcvrs
  /\ \A y \in FreeXcvrs : direction[y] = "inactive"
  /\ free' = [free EXCEPT ![Mid(x)] = 0]

-----------------------------------------------------------------------------
(* HandleTrackAttach *)

HandlerIdle == handler.step = "select"

(* The ack reaches who asked: a sanitizer goes on or, on an error, returns  *)
(* without its offer; a publisher whose track was refused is closed.        *)
Acknowledge(ok) ==
  /\ handler' = IdleHandler
  /\ IF handler.from \in Tracks
     THEN /\ down' = [down EXCEPT ![handler.from] = "back"]
          /\ done' = IF ok THEN done ELSE done \cup {handler.from}
          /\ UNCHANGED runs
     ELSE /\ runs' = IF ok \/ handler.from \in Syncs
                       THEN [runs EXCEPT ![handler.from] = RunAt("attach", {}, runs[handler.from].todo)]
                       ELSE [runs EXCEPT ![handler.from] = IdleRun]
          /\ UNCHANGED <<down, done>>

TakeFromPublisher(k) ==
  /\ HandlerIdle /\ down[k] = "ask"
  /\ down' = [down EXCEPT ![k] = "wait"]
  /\ handler' = HandlerAt("has", k, k, 0)
  /\ UNCHANGED <<published, pooled, done, subVars, xcvrVars, runs, endVars>>

(* Sanitize and Synchronize go through their unattached tracks in any order. *)
TakeFromRunner(r, k) ==
  /\ HandlerIdle /\ runs[r].step = "attach" /\ k \in runs[r].todo
  /\ runs' = [runs EXCEPT ![r] = RunAt("wait", {}, runs[r].todo \ {k})]
  /\ handler' = HandlerAt("has", k, r, 0)
  /\ UNCHANGED <<pubVars, subVars, xcvrVars, endVars>>

(* <-s.ctx.Done() *)
HandlerExits ==
  /\ HandlerIdle /\ closed
  /\ handler' = HandlerAt("gone", None, None, 0)
  /\ UNCHANGED <<pubVars, subVars, xcvrVars, runs, endVars>>

(* Mutant: nobody is told that the track is already attached. *)
FindsTrackSilently ==
  /\ handler.step = "has" /\ deleting = NoAttachment
  /\ tracks[handler.track] # 0
  /\ handler' = IdleHandler
  /\ UNCHANGED <<pubVars, subVars, xcvrVars, runs, endVars>>

(* HasTrack takes tracksMu. *)
FindsTrack ==
  /\ handler.step = "has" /\ deleting = NoAttachment
  /\ tracks[handler.track] # 0
  /\ Acknowledge(TRUE)
  /\ UNCHANGED <<published, pooled, subVars, xcvrVars, endVars>>

(* Mutant: a track is attached whether or not it already is. *)
NeverLooks ==
  /\ handler.step = "has" /\ deleting = NoAttachment
  /\ handler' = HandlerAt("get", handler.track, handler.from, 0)
  /\ UNCHANGED <<pubVars, subVars, xcvrVars, runs, endVars>>

FindsNoTrack ==
  /\ handler.step = "has" /\ deleting = NoAttachment
  /\ tracks[handler.track] = 0
  /\ handler' = HandlerAt("get", handler.track, handler.from, 0)
  /\ UNCHANGED <<pubVars, subVars, xcvrVars, runs, endVars>>

GetTransceiver ==
  /\ handler.step = "get"
  /\ \E x \in Xcvrs : /\ Get(x)
                      /\ handler' = HandlerAt("set", handler.track, handler.from, x)
  /\ UNCHANGED <<pubVars, subVars, sender, direction, withMid, made, runs, endVars>>

(* panic("[TransceiverPoolGet] Never must be here") *)
GetPanics ==
  /\ handler.step = "get"
  /\ \E x \in FreeXcvrs : direction[x] # "inactive"
  /\ panicked' = TRUE
  /\ UNCHANGED <<pubVars, subVars, xcvrVars, handler, runs, closed, faults, setting>>

(* ErrNotFoundTransceiver: AddTransceiverFromKind makes one, with a sender  *)
(* of its own.                                                              *)
AddTransceiver ==
  /\ handler.step = "get" /\ FreeXcvrs = {} /\ made < MaxXcvrs
  /\ made' = made + 1
  /\ sender' = [sender EXCEPT ![made + 1] = Stub]
  /\ direction' = [direction EXCEPT ![made + 1] = "sendonly"]
  /\ handler' = HandlerAt("set", handler.track, handler.from, made + 1)
  /\ UNCHANGED <<pubVars, subVars, withMid, free, runs, endVars>>

AddTransceiverFails ==
  /\ handler.step = "get" /\ FreeXcvrs = {} /\ Fault
  /\ Acknowledge(FALSE)
  /\ UNCHANGED <<published, pooled, subVars, xcvrVars, closed, panicked, setting>>

(* NewRTPSender fails: the transceiver is in no pool any more. *)
NewSenderFails ==
  /\ handler.step = "set" /\ Fault
  /\ Acknowledge(FALSE)
  /\ UNCHANGED <<published, pooled, subVars, xcvrVars, closed, panicked, setting>>

(* The branch has no continue: the handler goes on to answer a closed ack. *)
SetSenderFails ==
  /\ handler.step = "set" /\ Fault
  /\ panicked' = TRUE
  /\ UNCHANGED <<pubVars, subVars, xcvrVars, handler, runs, closed, setting>>

SetSender ==
  /\ handler.step = "set"
  /\ sender' = [sender EXCEPT ![handler.xcvr] = handler.track]
  /\ direction' = [direction EXCEPT ![handler.xcvr] =
                     IF @ = "inactive" THEN "sendonly" ELSE @]
  /\ tracks' = [tracks EXCEPT ![handler.track] = handler.xcvr]
  /\ attached' = attached \cup {[track |-> handler.track, xcvr |-> handler.xcvr]}
  /\ Acknowledge(TRUE)
  /\ UNCHANGED <<published, pooled, observers, deleting, withMid, made, free, endVars>>

-----------------------------------------------------------------------------
(* ObserveSubscriber, ObserveTrack and DeleteTrack *)

(* Mutant: the new track is sanitized, not observed. *)
ObserveNothing(a) ==
  /\ a \in attached /\ runs[Bus].step = "idle"
  /\ attached' = attached \ {a}
  /\ runs' = [runs EXCEPT ![Bus] = RunAt("begin", {}, {})]
  /\ UNCHANGED <<pubVars, tracks, observers, deleting, xcvrVars, handler, endVars>>

(* go p.ObserveTrack(track), then a sanitize. *)
ObserveAttached(a) ==
  /\ a \in attached /\ runs[Bus].step = "idle"
  /\ attached' = attached \ {a}
  /\ observers' = observers \cup {a}
  /\ runs' = [runs EXCEPT ![Bus] = RunAt("begin", {}, {})]
  /\ UNCHANGED <<pubVars, tracks, deleting, xcvrVars, handler, endVars>>

TrackIsDone(a) ==
  /\ a \in observers /\ a.track \in done /\ deleting = NoAttachment
  /\ observers' = observers \ {a}
  /\ \E l \in Leavers \cap setting.leavers : /\ runs[l].step = "idle"
                                             /\ runs' = [runs EXCEPT ![l] = RunAt("begin", {}, {})]

(* The entry is that of the track's id, the transceiver that of the observer. *)
DeleteTrack(a) ==
  /\ TrackIsDone(a)
  /\ IF tracks[a.track] = 0
     THEN UNCHANGED <<tracks, deleting, direction, free>>
     ELSE /\ tracks' = [tracks EXCEPT ![a.track] = 0]
          /\ deleting' = [track |-> a.track, xcvr |-> tracks[a.track]]
          /\ Release(a.xcvr)
  /\ UNCHANGED <<pubVars, attached, sender, withMid, made, handler, endVars>>

(* transiv.Stop fails: the transceiver is neither used nor free. *)
ReleaseFails(a) ==
  /\ TrackIsDone(a) /\ tracks[a.track] # 0 /\ Fault
  /\ tracks' = [tracks EXCEPT ![a.track] = 0]
  /\ deleting' = [track |-> a.track, xcvr |-> tracks[a.track]]
  /\ UNCHANGED <<pubVars, attached, xcvrVars, handler, closed, panicked, setting>>

(* RemoveTrack refuses a sender its transceiver has been given away from. *)
RemoveSender ==
  /\ deleting # NoAttachment
  /\ IF sender[deleting.xcvr] = deleting.track
     THEN RemoveTrack(deleting.xcvr) ELSE UNCHANGED <<sender, direction>>
  /\ deleting' = NoAttachment
  /\ UNCHANGED <<pubVars, tracks, attached, observers, withMid, made, free,
                 handler, runs, endVars>>

-----------------------------------------------------------------------------
(* SanitizePeerSenders and SynchronizeOfferState *)

Begins(r) == /\ r \in setting.runners \cup Syncs \cup {Bus}
             /\ \/ runs[r].step = "begin"
                \/ r \in Tickers \cup Syncs /\ runs[r].step = "idle" /\ ~closed

(* Mutant: the map holds what is attached only. *)
PublishingSendersAttached(r) ==
  /\ Begins(r) /\ deleting = NoAttachment
  /\ runs' = [runs EXCEPT ![r] =
       IF r \in Syncs THEN RunAt("attach", {}, {})
                      ELSE RunAt("remove", {k \in Visible : tracks[k] # 0}, {})]
  /\ UNCHANGED <<pubVars, subVars, xcvrVars, handler, endVars>>

(* PeerPublishingSenders: what is published, and what of it is not attached. *)
PeerPublishingSenders(r) ==
  /\ Begins(r) /\ deleting = NoAttachment
  /\ LET unattached == {k \in Visible : tracks[k] = 0}
     IN runs' = [runs EXCEPT ![r] =
          IF r \in Syncs THEN RunAt("attach", {}, unattached)
                         ELSE RunAt("remove", Visible, unattached)]
  /\ UNCHANGED <<pubVars, subVars, xcvrVars, handler, endVars>>

(* The senders of GetSenders that have a track; Stop takes it from them. *)
Senders == {x \in 1..made : sender[x] # None /\ direction[x] # "inactive"}

(* Mutant: what has been attached since the snapshot goes, too. *)
RemoveUnattachedSenders(r) ==
  /\ runs[r].step = "remove"
  /\ LET unattached == {x \in Senders : sender[x] \notin runs[r].seen \ runs[r].todo}
     IN IF unattached = {} THEN UNCHANGED <<sender, direction>>
                           ELSE RemoveTrack(Min(unattached))
  /\ runs' = [runs EXCEPT ![r] = RunAt("attach", {}, runs[r].todo)]
  /\ UNCHANGED <<pubVars, subVars, withMid, made, free, handler, endVars>>

(* removeUnpublishSenders returns after the first one it removes.  A sender *)
(* of a published track that is not the attached one is not removed: the    *)
(* attached one is, if it is still there.                                   *)
RemoveUnpublishSenders(r) ==
  /\ runs[r].step = "remove"
  /\ LET unpublished == {x \in Senders : sender[x] \notin runs[r].seen}
     IN IF unpublished = {} THEN UNCHANGED <<sender, direction>>
                            ELSE RemoveTrack(Min(unpublished))
  /\ runs' = [runs EXCEPT ![r] = RunAt("attach", {}, runs[r].todo)]
  /\ UNCHANGED <<pubVars, subVars, withMid, made, free, handler, endVars>>

(* DispatchOffer: CreateOffer gives every transceiver a mid. *)
DispatchOffer(r) ==
  /\ r \notin Syncs /\ runs[r].step = "attach" /\ runs[r].todo = {}
  /\ withMid' = IF closed THEN withMid ELSE 1..made
  /\ runs' = [runs EXCEPT ![r] = IdleRun]
  /\ UNCHANGED <<pubVars, subVars, sender, direction, made, free, handler, endVars>>

(* DispatchOffer of the read loop, of a retry and of PeerContextPool. *)
DispatchElsewhere ==
  /\ ~closed /\ withMid # 1..made
  /\ withMid' = 1..made
  /\ UNCHANGED <<pubVars, subVars, sender, direction, made, free, handler, runs, endVars>>

Synchronized(r) ==
  /\ r \in Syncs /\ runs[r].step = "attach" /\ runs[r].todo = {}
  /\ runs' = [runs EXCEPT ![r] = IdleRun]
  /\ UNCHANGED <<pubVars, subVars, xcvrVars, handler, endVars>>

-----------------------------------------------------------------------------
(* PeerContext.Close *)
Close ==
  /\ MayClose /\ ~closed
  /\ closed' = TRUE
  /\ UNCHANGED <<pubVars, subVars, xcvrVars, handler, runs, panicked, faults, setting>>

Publishing ==
  \E k \in Tracks : JoinPool(k) \/ Publish(k) \/ TrackDown(k) \/ EndTrack(k)
                      \/ Unpublish(k)

Taking == \/ \E k \in Tracks : TakeFromPublisher(k)
          \/ \E r \in Runners, k \in Tracks : TakeFromRunner(r, k)

Handling == \/ HandlerExits \/ FindsTrack \/ FindsNoTrack
            \/ GetTransceiver \/ GetPanics
            \/ AddTransceiver \/ AddTransceiverFails
            \/ NewSenderFails \/ SetSenderFails \/ SetSender

Observing == \/ \E a \in attached : ObserveAttached(a)
             \/ \E a \in observers : DeleteTrack(a) \/ ReleaseFails(a)
             \/ RemoveSender

Running(r) == \/ PeerPublishingSenders(r) \/ RemoveUnpublishSenders(r)
              \/ DispatchOffer(r) \/ Synchronized(r)

Next ==
  /\ ~panicked
  /\ \/ Publishing \/ Taking \/ Handling \/ Observing
     \/ \E r \in Runners : Running(r)
     \/ DispatchElsewhere \/ Close

Spec == Init /\ [][Next]_vars

(* Goroutines that can run do run; the senders blocked on a Go channel are   *)
(* served in the order they came; tickers fire; OnTrack of a publisher whose *)
(* track is done returns.  Publishing, ending, closing and the offers of     *)
(* others are not fair.                                                     *)
Advances(r) == Running(r) \/ \E k \in Tracks : TakeFromRunner(r, k)

Fairness ==
  /\ WF_vars(~panicked /\ Handling)
  /\ \A k \in Tracks : SF_vars(~panicked /\ (TakeFromPublisher(k) \/ Unpublish(k)))
  /\ \A r \in Runners : SF_vars(~panicked /\ Advances(r))
  /\ SF_vars(~panicked /\ Observing)

FairSpec == Spec /\ Fairness

-----------------------------------------------------------------------------
(* Safety *)

(* Watched: an attached track has exactly one goroutine that will delete it, *)
(* started or about to be, and that goroutine holds the transceiver the      *)
(* entry holds.  DeleteTrack looks the entry up by id but releases its       *)
(* observer's transceiver: only this makes the two the same.                 *)
OneObserverPerEntry ==
  /\ attached \cap observers = {}
  /\ \A a \in attached \cup observers : tracks[a.track] = a.xcvr
  /\ \A k \in Tracks : tracks[k] # 0 =>
       [track |-> k, xcvr |-> tracks[k]] \in attached \cup observers

(* A transceiver sends one track: two attached tracks never share one, and   *)
(* the pool never offers one that is in use, as long as no transceiver that  *)
(* has its mid is kept under the empty one.                                  *)
TransceiverOwnedOnce ==
  free[0] \notin withMid =>
    /\ \A j, k \in Tracks : j # k /\ tracks[j] # 0 => tracks[j] # tracks[k]
    /\ \A k \in Tracks : tracks[k] \notin FreeXcvrs

Lost == (Stubs + 1 .. made)
          \ ({tracks[k] : k \in Tracks} \cup FreeXcvrs \cup {handler.xcvr})

(* No transceiver is lost: each one made for a track carries one, waits in   *)
(* the pool or is in HandleTrackAttach's hands (each is an m-line of every   *)
(* later offer, and is never removed).  A failure of pion costs two: the one *)
(* in hand, and, when the sanitizer after an attachment gives up before its  *)
(* offer, one of two that are put away without a mid, under the same key.    *)
TransceiversAreReused == ~closed => Cardinality(Lost) <= 2 * faults

(* HandleTrackAttach never panics on a free transceiver that is in use.      *)
(* transceiverpool.go:30 says so: "Never must be here".                      *)
NeverMustBeHere == ~panicked

(* A sanitizer removes a sender of an attached track only if the track was   *)
(* not published when the sanitizer looked, and nothing else ever does: an   *)
(* attachment that comes between the snapshot and the removal, a DeleteTrack *)
(* or another track's attachment never takes the sender of a track that was  *)
(* there.  (A track published in between can lose its sender, and keeps its  *)
(* entry: peercontextpool.go:209, "here may be bug if sender not attached".) *)
PublishedKeepsSender ==
  [][free[0] \notin withMid =>
       \A k \in Tracks : LET x == tracks[k] IN
         x # 0 /\ tracks'[k] = x /\ sender[x] = k /\ sender'[x] # k =>
           \E r \in Runners : /\ runs[r].step = "remove" /\ k \notin runs[r].seen
                             /\ runs'[r].step # "remove"]_vars

-----------------------------------------------------------------------------
(* Liveness *)

(* Whoever attaches a track to an open subscriber gets an answer: the waits  *)
(* of sanitizers, observers, publishers and the handler on each other and on *)
(* tracksMu never close into a cycle.                                        *)
AttachReturns ==
  /\ \A k \in Tracks : down[k] = "ask" ~> down[k] = "back" \/ closed \/ panicked
  /\ \A r \in Runners : runs[r].todo # {} ~>
       runs[r].step \in {"idle", "begin"} \/ closed \/ panicked

(* A track somebody in the room publishes reaches this peer, even if the     *)
(* publisher's TrackDownToPeers did not find it in the pool.                 *)
LiveTrackIsAttached ==
  \A k \in Tracks :
    k \in Visible ~> tracks[k] # 0 \/ k \in done \/ closed \/ panicked

(* A track that has ended and is no longer published leaves the subscriber   *)
(* for good, although a sanitizer may still attach it from an old snapshot.  *)
DeadTrackIsDropped ==
  \A k \in Tracks :
    k \in done /\ k \notin published ~> [](tracks[k] = 0) \/ closed \/ panicked
=============================================================================
