----------------------------- MODULE StreamList -----------------------------
(***************************************************************************)
(* rtc/RoomMediaStreamListProvider.tsx: the streams a room page shows, a     *)
(* useReducer whose state is a promise and whose reducer is asynchronous.   *)
(* React calls it, in a row, for the actions dispatched since the last      *)
(* render, with the Mutex that render made; each call waits for that mutex  *)
(* and for the promise of the call before it.  What they wait for are       *)
(* promises only, so all of them return before the browser runs another     *)
(* task: a render, or the handler of an event.                              *)
(***************************************************************************)
EXTENDS Naturals, Sequences, SequencesExt, PromiseMutex

CONSTANTS
  Streams,        \* streams of the connection, one per participant
  MaxDispatches,  \* bound: actions dispatched
  PromptRender    \* TRUE: a track comes back only after its removal was applied

ASSUME StreamListAssumption ==
  IsFiniteSet(Streams) /\ MaxDispatches \in Nat /\ PromptRender \in BOOLEAN

Kinds == {"audio", "video"}
NoTrack == "none"

VARIABLES
  remote,       \* the tracks the server sends, per stream
  live,         \* the tracks the MediaStream object has
  dispatched,   \* actions React has not reduced yet
  calls,        \* calls of the reducer that have not returned, oldest first
  mutex,        \* the mutex of the last render
  list,         \* what the last promise that has resolved gave
  shown,        \* the list useRoom has awaited, roomMediaList of a mounted RoomPage
  count

streamVars == <<remote, live, dispatched, calls, mutex, list, shown, count>>

Action == [name : {"clear", "mutate", "remove"}, stream : Streams, track : Kinds \cup {NoTrack}]

ActionOf(name, s, track) == [name |-> name, stream |-> s, track |-> track]

CallAt(at, act, ticket, result) == [at |-> at, act |-> act, ticket |-> ticket, result |-> result]

StreamInit ==
  /\ remote = [s \in Streams |-> {}] /\ live = [s \in Streams |-> {}]
  /\ dispatched = << >> /\ calls = << >> /\ mutex = NewMutex
  /\ list = {} /\ shown = {} /\ count = 0

Idle == calls = << >>

Dispatch(name, s, track) ==
  /\ Idle /\ count < MaxDispatches /\ count' = count + 1
  /\ dispatched' = Append(dispatched, ActionOf(name, s, track))
  /\ UNCHANGED <<calls, mutex, list, shown>>

-----------------------------------------------------------------------------
(* The connection *)

Removing(s, track) ==
  \E i \in DOMAIN dispatched : /\ dispatched[i].name = "remove"
                               /\ dispatched[i].stream = s /\ dispatched[i].track = track

(* ontrack *)
OnTrack(s, track) ==
  /\ track \notin remote[s] /\ (PromptRender => ~ Removing(s, track))
  /\ remote' = [remote EXCEPT ![s] = @ \cup {track}]
  /\ live' = [live EXCEPT ![s] = @ \cup {track}]
  /\ Dispatch("mutate", s, NoTrack)

(* onremovetrack: the browser has taken the track out of the stream. *)
OnRemoveTrack(s, track) ==
  /\ track \in remote[s]
  /\ remote' = [remote EXCEPT ![s] = @ \ {track}]
  /\ live' = [live EXCEPT ![s] = @ \ {track}]
  /\ Dispatch("remove", s, track)

(* SubscriberContextProvider, when the peer changes: the list is cleared,   *)
(* the old peer, whose tracks these are, is closed.                         *)
ChangePeer ==
  /\ \E s \in Streams : remote[s] # {}
  /\ remote' = [s \in Streams |-> {}] /\ live' = remote'
  /\ Dispatch("clear", CHOOSE s \in Streams : TRUE, NoTrack)

-----------------------------------------------------------------------------
(* The reducer *)

(* A render: its mutex, and a call for each action.  All of them read       *)
(* mutex.wait before any of them locks.                                     *)
Render ==
  /\ Idle /\ dispatched # << >>
  /\ mutex' = NewMutex
  /\ calls' = [i \in DOMAIN dispatched |-> CallAt("wait", dispatched[i], 0, {})]
  /\ dispatched' = << >>
  /\ UNCHANGED <<remote, live, list, shown, count>>

(* await mutex.wait; mutex.lock(): continuations of one promise run in the  *)
(* order they were attached.                                                *)
TakeTicket(i) ==
  /\ calls[i].at = "wait" /\ Waited(mutex, 0)
  /\ \A j \in 1 .. i - 1 : calls[j].at # "wait"
  /\ mutex' = Lock(mutex)
  /\ calls' = [calls EXCEPT ![i] = CallAt("locked", @.act, mutex.taken + 1, {})]
  /\ UNCHANGED <<remote, live, dispatched, list, shown, count>>

Emptied(act) == live[act.stream] \subseteq {act.track}

(* The entry of a stream goes with the last of its tracks. *)
Reduced(act, state) ==
  CASE act.name = "clear"  -> {}
    [] act.name = "mutate" -> state \cup {act.stream}
    [] act.name = "remove" -> IF Emptied(act) THEN state \ {act.stream} ELSE state

(* await reducer: the calls before it have returned, and list is what they   *)
(* gave; then context.stream.removeTrack and the switch.                    *)
Reduce ==
  LET c == Head(calls)
  IN /\ calls # << >> /\ c.at = "locked"
     /\ calls' = [calls EXCEPT ![1] = CallAt("applied", c.act, c.ticket, Reduced(c.act, list))]
     /\ live' = IF c.act.name = "remove" /\ c.act.stream \in list
                THEN [live EXCEPT ![c.act.stream] = @ \ {c.act.track}] ELSE live
     /\ UNCHANGED <<remote, dispatched, mutex, list, shown, count>>

(* What useRoom awaits, and shows, is the promise of a render's last call. *)
EndsRender == Len(calls) = 1

(* Mutant: a removal returns without unlocking. *)
ReturnLocked ==
  LET c == Head(calls)
  IN /\ calls # << >> /\ c.at = "applied" /\ Granted(mutex, c.ticket)
     /\ mutex' = IF c.act.name = "remove" THEN mutex ELSE Unlock(mutex, c.ticket)
     /\ calls' = Tail(calls) /\ list' = c.result
     /\ shown' = IF EndsRender THEN c.result ELSE shown
     /\ UNCHANGED <<remote, live, dispatched, count>>

(* (await unlock)(), and the promise resolves; no one refers to the mutex   *)
(* of a render whose calls have returned.                                   *)
Return ==
  LET c == Head(calls)
  IN /\ calls # << >> /\ c.at = "applied" /\ Granted(mutex, c.ticket)
     /\ mutex' = IF EndsRender THEN NewMutex ELSE Unlock(mutex, c.ticket)
     /\ calls' = Tail(calls) /\ list' = c.result
     /\ shown' = IF EndsRender THEN c.result ELSE shown
     /\ UNCHANGED <<remote, live, dispatched, count>>

Reducing == Render \/ Reduce \/ Return \/ \E i \in DOMAIN calls : TakeTicket(i)

StreamStep ==
  \/ \E s \in Streams, track \in Kinds : OnTrack(s, track) \/ OnRemoveTrack(s, track)
  \/ ChangePeer
  \/ Reducing

-----------------------------------------------------------------------------
Given(act) == [name |-> act.name, stream |-> act.stream]

Log == INSTANCE ListLog WITH
         todo <- [i \in DOMAIN calls |-> Given(calls[i].act)]
                 \o [i \in DOMAIN dispatched |-> Given(dispatched[i])]
=============================================================================
