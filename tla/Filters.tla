------------------------------ MODULE Filters ------------------------------
(***************************************************************************)
(* One published track whose publisher switches its filter                  *)
(* (pkg/sfu/trackcontext.go, SwitchFilter of peercontext.go) and the peers   *)
(* that send it on, the publisher among them:                               *)
(*   - SetFilter makes a new local track, installs it under mediaMu and     *)
(*     dispatches a media change, one goroutine per observer's channel;     *)
(*   - HandleTrackAttach takes the local track of the moment for its first  *)
(*     sender; only later does ObserveTrack open the observer's channel;    *)
(*   - SwitchActiveTrackMedia puts a new sender on the transceiver;         *)
(*   - the end of the track takes the observer away and closes its channel. *)
(*                                                                          *)
(* A local track is the number of its installation, a sender the number of  *)
(* its creation at its peer.  What flows through tracks is left out.        *)
(***************************************************************************)
EXTENDS Naturals, Sequences, FiniteSets

CONSTANTS
  Subs,          \* peers the track is attached to, once each
  MaxSwitches,   \* bound: filter messages of the publisher
  MaxFaults      \* bound: failures of a pipeline's allocation and of NewRTPSender

ASSUME FiltersAssumption ==
  /\ IsFiniteSet(Subs)
  /\ MaxSwitches \in Nat /\ MaxFaults \in Nat

VARIABLES
  switcher,    \* the publisher's read loop: the filter SetFilter is setting
  filter, media,  \* TrackContext.filter and .media
  switches,    \* filter messages so far
  track,       \* "live", "ended" (its context is done), "removed" from publishTracks
  sub,         \* where a peer's HandleTrackAttach, then ObserveTrack, is
  observers,   \* TrackContext.observers
  spawned,     \* dispatch goroutines that have not run yet, per peer
  blocked,     \* dispatch goroutines blocked on the peer's channel
  sends,       \* the local track of each sender a peer has made
  running,     \* the senders of a peer that are not stopped
  current,     \* the sender of the peer's transceiver
  stored,      \* ActiveTrackContext.sender
  server,      \* "up", or "aborted" by the Go runtime
  faults

trackVars == <<switcher, filter, media, switches>>
busVars == <<observers, spawned, blocked>>
senderVars == <<sends, running, current, stored>>
endVars == <<server, faults>>
vars == <<trackVars, track, sub, busVars, senderVars, endVars>>

FilterNames == {"none", "canny"}
Medias == 1..MaxSwitches + 1
SenderIds == 1..MaxSwitches + 1

TypeOK ==
  /\ switcher \in FilterNames \cup {"idle", "dead"}
  /\ filter \in FilterNames /\ media \in Medias
  /\ switches \in 0..MaxSwitches
  /\ track \in {"live", "ended", "removed"}
  /\ sub \in [Subs -> {"no", "attach", "stored", "select", "switch", "sanitize", "unref", "gone"}]
  /\ observers \in SUBSET Subs
  /\ spawned \in [Subs -> 0..MaxSwitches] /\ blocked \in [Subs -> 0..MaxSwitches]
  /\ sends \in [Subs -> Seq(Medias)] /\ running \in [Subs -> SUBSET SenderIds]
  /\ current \in [Subs -> SenderIds \cup {0}] /\ stored \in [Subs -> SenderIds \cup {0}]
  /\ server \in {"up", "aborted"} /\ faults \in 0..MaxFaults

(* OnTrack: NewTrackContext sets FILTER_NONE, nobody observes yet. *)
Init ==
  /\ switcher = "idle" /\ filter = "none" /\ media = 1 /\ switches = 0
  /\ track = "live"
  /\ sub = [s \in Subs |-> "no"]
  /\ observers = {}
  /\ spawned = [s \in Subs |-> 0] /\ blocked = [s \in Subs |-> 0]
  /\ sends = [s \in Subs |-> <<>>] /\ running = [s \in Subs |-> {}]
  /\ current = [s \in Subs |-> 0] /\ stored = [s \in Subs |-> 0]
  /\ server = "up" /\ faults = 0

Fault == faults < MaxFaults /\ faults' = faults + 1
Goto(s, from, to) == sub[s] = from /\ sub' = [sub EXCEPT ![s] = to]
Senders(s) == Len(sends[s])
Ended == track # "live"

-----------------------------------------------------------------------------
(* The publisher *)

(* The read loop finds the video track and calls SetFilter. *)
SwitchFilter ==
  /\ switcher = "idle" /\ track # "removed" /\ switches < MaxSwitches
  /\ switcher' \in FilterNames
  /\ switches' = switches + 1
  /\ UNCHANGED <<filter, media, track, sub, busVars, senderVars, endVars>>

(* A nil pipeline is started before the error is looked at: the handler of  *)
(* the websocket panics, and its deferred clean-up closes the publisher.    *)
AllocateFails ==
  /\ switcher = "canny" /\ Fault
  /\ switcher' = "dead"
  /\ track' = IF Ended THEN track ELSE "ended"
  /\ blocked' = [s \in Subs |-> 0]
  /\ UNCHANGED <<filter, media, switches, sub, observers, spawned, senderVars, server>>

(* Mutant: an observer that is busy is not waited for. *)
SetFilterTellsIdle ==
  /\ switcher \in FilterNames
  /\ filter' = switcher /\ media' = media + 1 /\ switcher' = "idle"
  /\ spawned' = [s \in Subs |-> IF s \in observers /\ sub[s] = "select"
                                THEN spawned[s] + 1 ELSE spawned[s]]
  /\ UNCHANGED <<switches, track, sub, observers, blocked, senderVars, endVars>>

(* Under mediaMu: the new local track, and a dispatch to every observer. *)
SetFilter ==
  /\ switcher \in FilterNames
  /\ filter' = switcher /\ media' = media + 1 /\ switcher' = "idle"
  /\ spawned' = [s \in Subs |-> IF s \in observers THEN spawned[s] + 1 ELSE spawned[s]]
  /\ UNCHANGED <<switches, track, sub, observers, blocked, senderVars, endVars>>

(* EOF or the publisher's close: blocked dispatches return. *)
EndTrack ==
  /\ ~Ended /\ track' = "ended"
  /\ blocked' = [s \in Subs |-> 0]
  /\ UNCHANGED <<trackVars, sub, observers, spawned, senderVars, endVars>>

Unpublish ==
  /\ track = "ended" /\ track' = "removed"
  /\ UNCHANGED <<trackVars, sub, busVars, senderVars, endVars>>

-----------------------------------------------------------------------------
(* dispatch: a goroutine that selects between the track's end and the send *)

(* Mutant: the message goes to the channel twice. *)
BlocksTwice(s) ==
  /\ spawned[s] > 0 /\ ~Ended
  /\ spawned' = [spawned EXCEPT ![s] = @ - 1]
  /\ blocked' = [blocked EXCEPT ![s] = @ + 2]
  /\ UNCHANGED <<trackVars, track, sub, observers, senderVars, endVars>>

(* Mutant: a dispatch that finds the observer busy gives up. *)
BlocksIfIdle(s) ==
  /\ spawned[s] > 0 /\ ~Ended
  /\ spawned' = [spawned EXCEPT ![s] = @ - 1]
  /\ blocked' = IF sub[s] = "select" THEN [blocked EXCEPT ![s] = @ + 1] ELSE blocked
  /\ UNCHANGED <<trackVars, track, sub, observers, senderVars, endVars>>

Blocks(s) ==
  /\ spawned[s] > 0 /\ ~Ended
  /\ spawned' = [spawned EXCEPT ![s] = @ - 1]
  /\ blocked' = [blocked EXCEPT ![s] = @ + 1]
  /\ UNCHANGED <<trackVars, track, sub, observers, senderVars, endVars>>

Returns(s) ==
  /\ spawned[s] > 0 /\ Ended
  /\ spawned' = [spawned EXCEPT ![s] = @ - 1]
  /\ UNCHANGED <<trackVars, track, sub, observers, blocked, senderVars, endVars>>

(* Both cases are ready when the channel is closed; the send panics. *)
SendsOnClosed(s) ==
  /\ spawned[s] > 0 /\ Ended /\ sub[s] = "gone"
  /\ server' = "aborted"
  /\ UNCHANGED <<trackVars, track, sub, busVars, senderVars, faults>>

-----------------------------------------------------------------------------
(* A peer's attachment *)

(* GetLocalTrack, NewRTPSender; the caller may hold the track from a         *)
(* snapshot taken before it ended.                                          *)
Attach(s) ==
  /\ Goto(s, "no", "attach")
  /\ sends' = [sends EXCEPT ![s] = <<media>>]
  /\ UNCHANGED <<trackVars, track, busVars, running, current, stored, endVars>>

(* SetSender, MapStoreTrack; SubscriberTrackAttached is on its way. *)
Stores(s) ==
  /\ Goto(s, "attach", "stored")
  /\ running' = [running EXCEPT ![s] = {1}]
  /\ current' = [current EXCEPT ![s] = 1] /\ stored' = [stored EXCEPT ![s] = 1]
  /\ UNCHANGED <<trackVars, track, busVars, sends, endVars>>

(* ObserveTrack: TrackObserver. *)
Observes(s) ==
  /\ Goto(s, "stored", "select")
  /\ observers' = observers \cup {s}
  /\ UNCHANGED <<trackVars, track, spawned, blocked, senderVars, endVars>>

(* TrackContextMediaChange of an attached track; SwitchActiveTrackMedia     *)
(* makes a sender for the local track of now.                               *)
Receive(s) ==
  /\ blocked[s] > 0 /\ Goto(s, "select", "switch")
  /\ blocked' = [blocked EXCEPT ![s] = @ - 1]
  /\ sends' = [sends EXCEPT ![s] = Append(@, media)]
  /\ UNCHANGED <<trackVars, track, observers, spawned, running, current, stored, endVars>>

(* NewRTPSender fails: nothing is switched, the peer is sanitized. *)
ReceiveFails(s) ==
  /\ blocked[s] > 0 /\ Goto(s, "select", "sanitize") /\ Fault
  /\ blocked' = [blocked EXCEPT ![s] = @ - 1]
  /\ UNCHANGED <<trackVars, track, observers, spawned, senderVars, server>>

(* Mutant: the sender replaced is left running. *)
SwitchKeepsSender(s) ==
  /\ Goto(s, "switch", "sanitize")
  /\ running' = [running EXCEPT ![s] = @ \cup {Senders(s)}]
  /\ current' = [current EXCEPT ![s] = Senders(s)]
  /\ sends' = [sends EXCEPT ![s][Senders(s)] = media]
  /\ UNCHANGED <<trackVars, track, busVars, stored, endVars>>

(* Stop; SetSender reads the local track once more; StoreSender stores the  *)
(* sender that was stored before.                                           *)
SwitchActiveTrackMedia(s) ==
  /\ Goto(s, "switch", "sanitize")
  /\ running' = [running EXCEPT ![s] = (@ \ {stored[s]}) \cup {Senders(s)}]
  /\ current' = [current EXCEPT ![s] = Senders(s)]
  /\ sends' = [sends EXCEPT ![s][Senders(s)] = media]
  /\ UNCHANGED <<trackVars, track, busVars, stored, endVars>>

Sanitized(s) ==
  /\ Goto(s, "sanitize", "select")
  /\ UNCHANGED <<trackVars, track, busVars, senderVars, endVars>>

(* DeleteTrack: Release stops the transceiver with its sender; RemoveTrack  *)
(* of the stored sender finds nothing else to stop.                         *)
DeleteTrack(s) ==
  /\ Ended /\ Goto(s, "select", "unref")
  /\ running' = [running EXCEPT ![s] = @ \ {current[s]}]
  /\ UNCHANGED <<trackVars, track, busVars, sends, current, stored, endVars>>

(* After a last sanitize: TrackObserverUnref closes the channel. *)
TrackObserverUnref(s) ==
  /\ Goto(s, "unref", "gone")
  /\ observers' = observers \ {s}
  /\ UNCHANGED <<trackVars, track, spawned, blocked, senderVars, endVars>>

-----------------------------------------------------------------------------
Dispatching(s) == Blocks(s) \/ Returns(s)

Observing(s) ==
  \/ Stores(s) \/ Observes(s) \/ Receive(s) \/ SwitchActiveTrackMedia(s)
  \/ Sanitized(s) \/ DeleteTrack(s) \/ TrackObserverUnref(s)

Next ==
  /\ server = "up"
  /\ \/ SwitchFilter \/ AllocateFails \/ SetFilter \/ EndTrack \/ Unpublish
     \/ \E s \in Subs : \/ Attach(s) \/ Observing(s) \/ ReceiveFails(s)
                        \/ Dispatching(s) \/ SendsOnClosed(s)

Spec == Init /\ [][Next]_vars

(* Goroutines that can run do run, a sanitize returns (Negotiation and      *)
(* Subscription say when).  Nobody has to attach, switch or end.            *)
Fairness ==
  \A s \in Subs : WF_vars(server = "up" /\ Dispatching(s)) /\ WF_vars(server = "up" /\ Observing(s))

FairSpec == Spec /\ Fairness

-----------------------------------------------------------------------------
(* A filter set between an attachment's GetLocalTrack and its TrackObserver  *)
(* is missed.  The next one makes up for it: once a peer was told of a        *)
(* switch, with no dispatch on its way and its observer back at the select,   *)
(* it sends the local track of the filter that is set, whatever switches,     *)
(* dispatches and reads of GetLocalTrack overlapped.                         *)
CurrentMediaIsSent ==
  \A s \in Subs :
    /\ sub[s] = "select" /\ spawned[s] = 0 /\ blocked[s] = 0
    /\ Senders(s) >= 2 /\ ~Ended /\ faults = 0
    => sends[s][current[s]] = media

(* A peer has one running sender of the track, that of its transceiver, and  *)
(* none when the track is deleted, as long as it has switched at most once:  *)
(* the sender stored after a switch is the one the switch has stopped.       *)
OneRunningSender ==
  \A s \in Subs : sub[s] \notin {"attach", "switch"} /\ Senders(s) <= 2 =>
    running[s] = IF sub[s] \in {"no", "unref", "gone"} THEN {} ELSE {current[s]}

(* A filter that is set reaches every peer that observes the track then,     *)
(* although the dispatches of several switches wait for one busy observer.    *)
FilterReaches ==
  \A s \in Subs, m \in Medias :
    media = m /\ spawned[s] > 0
      ~> \/ current[s] # 0 /\ sends[s][current[s]] >= m
         \/ Ended \/ server = "aborted" \/ faults > 0
=============================================================================
