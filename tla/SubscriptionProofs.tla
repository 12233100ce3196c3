------------------------- MODULE SubscriptionProofs -------------------------
(***************************************************************************)
(* Theorems about Subscription, for any tracks, goroutines, bounds and      *)
(* settings.                                                                *)
(***************************************************************************)
EXTENDS Subscription, FiniteSetTheorems, TLAPS

Bounded ==
  /\ made \in Nat /\ made <= MaxXcvrs
  /\ tracks \in [Tracks -> 0..made]
  /\ attached \subseteq Attachment /\ observers \subseteq Attachment
  /\ withMid \subseteq 1..made
  /\ free \in [0..MaxXcvrs -> 0..made]

(* What HandleTrackAttach has read stays so: nobody else attaches a track.   *)
HandlerHolds ==
  /\ handler.step \in {"has", "get", "set"} => handler.track \in Tracks
  /\ handler.step \in {"get", "set"} => tracks[handler.track] = 0
  /\ handler.step = "set" => handler.xcvr \in 1..made

(* A transceiver that has a mid is kept under it. *)
KeptUnderMid == \A m \in 1..MaxXcvrs : free[m] # 0 => free[m] = m /\ m \in withMid

(* Once a transceiver under the empty mid has a mid of its own the pool is   *)
(* never empty again: no transceiver is made any more, and all have a mid.   *)
Stale == free[0] \in withMid => withMid = 1..made

(* The transceiver HandleTrackAttach is about to give is its own. *)
HandedOut ==
  free[0] \notin withMid =>
    (handler.step = "set" =>
       handler.xcvr \notin FreeXcvrs /\ \A k \in Tracks : tracks[k] # handler.xcvr)

WatchInv == Bounded /\ HandlerHolds /\ OneObserverPerEntry
PoolInv == KeptUnderMid /\ Stale /\ HandedOut /\ TransceiverOwnedOnce

-----------------------------------------------------------------------------
LEMMA InitWatch == Init => WatchInv
<1> SUFFICES ASSUME Init PROVE WatchInv  OBVIOUS
<1>1. Bounded  BY SubscriptionAssumption DEF Init, Bounded
<1>2. HandlerHolds  BY DEF Init, HandlerHolds, IdleHandler, HandlerAt
<1>3. OneObserverPerEntry  BY DEF Init, OneObserverPerEntry
<1> QED BY <1>1, <1>2, <1>3 DEF WatchInv

LEMMA InitPool == Init => PoolInv
<1> SUFFICES ASSUME Init PROVE PoolInv  OBVIOUS
<1>1. FreeXcvrs = {}  BY DEF Init, FreeXcvrs
<1>2. KeptUnderMid /\ Stale  BY SubscriptionAssumption DEF Init, KeptUnderMid, Stale
<1>3. HandedOut  BY DEF Init, HandedOut, IdleHandler, HandlerAt
<1>4. TransceiverOwnedOnce  BY <1>1 DEF Init, TransceiverOwnedOnce
<1> QED BY <1>2, <1>3, <1>4 DEF PoolInv

(* Steps that leave the entries, their observers and the pool alone: the     *)
(* handler may move, without an entry or a transceiver.                      *)
LEMMA MoveHandler ==
  ASSUME WatchInv, PoolInv,
         UNCHANGED <<tracks, attached, observers, made, withMid, free>>,
         \/ UNCHANGED handler
         \/ handler'.step \in {"select", "gone"}
         \/ handler'.step = "has" /\ handler'.track \in Tracks
         \/ /\ handler'.step = "get" /\ handler'.track = handler.track
            /\ handler.step = "has" /\ tracks[handler.track] = 0
  PROVE  WatchInv' /\ PoolInv'
<1>1. Bounded' /\ OneObserverPerEntry'  BY DEF WatchInv, Bounded, OneObserverPerEntry
<1>2. FreeXcvrs' = FreeXcvrs  BY DEF FreeXcvrs
<1>3. KeptUnderMid' /\ Stale'  BY DEF PoolInv, KeptUnderMid, Stale
<1>4. HandlerHolds'  BY DEF WatchInv, HandlerHolds
<1>5. HandedOut'  BY <1>2 DEF PoolInv, HandedOut
<1>6. TransceiverOwnedOnce'  BY <1>2 DEF PoolInv, TransceiverOwnedOnce
<1> QED BY <1>1, <1>3, <1>4, <1>5, <1>6 DEF WatchInv, PoolInv

LEMMA PublishingKeeps == ASSUME WatchInv, PoolInv, Publishing PROVE WatchInv' /\ PoolInv'
<1>1. UNCHANGED <<subVars, xcvrVars, handler>>
  BY DEF Publishing, JoinPool, Publish, TrackDown, EndTrack, Unpublish
<1> QED BY <1>1, MoveHandler DEF subVars, xcvrVars

LEMMA TakenIsHeld == ASSUME Taking PROVE handler'.step = "has" /\ handler'.track \in Tracks
<1>1. PICK k \in Tracks : \E from \in Tracks \cup Runners : handler' = HandlerAt("has", k, from, 0)
  <2>1. ASSUME NEW k \in Tracks, TakeFromPublisher(k)
        PROVE  handler' = HandlerAt("has", k, k, 0)
    BY <2>1 DEF TakeFromPublisher
  <2>2. ASSUME NEW r \in Runners, NEW k \in Tracks, TakeFromRunner(r, k)
        PROVE  handler' = HandlerAt("has", k, r, 0)
    BY <2>2 DEF TakeFromRunner
  <2> QED BY <2>1, <2>2 DEF Taking
<1> QED BY <1>1 DEF HandlerAt

LEMMA TakingKeeps == ASSUME WatchInv, PoolInv, Taking PROVE WatchInv' /\ PoolInv'
<1>1. UNCHANGED <<subVars, xcvrVars>>
  BY DEF Taking, TakeFromPublisher, TakeFromRunner
<1> QED BY <1>1, TakenIsHeld, MoveHandler DEF subVars, xcvrVars

LEMMA AnswerKeeps ==
  ASSUME WatchInv, PoolInv,
         HandlerExits \/ FindsTrack \/ FindsNoTrack \/ GetPanics \/ AddTransceiverFails
           \/ NewSenderFails \/ SetSenderFails
  PROVE  WatchInv' /\ PoolInv'
<1>1. UNCHANGED <<subVars, xcvrVars>>
  BY DEF HandlerExits, FindsTrack, FindsNoTrack, GetPanics, AddTransceiverFails,
         NewSenderFails, SetSenderFails
<1>2. ASSUME HandlerExits PROVE handler'.step = "gone"  BY <1>2 DEF HandlerExits, HandlerAt
<1>3. ASSUME FindsTrack \/ AddTransceiverFails \/ NewSenderFails PROVE handler'.step = "select"
  BY <1>3 DEF FindsTrack, AddTransceiverFails, NewSenderFails, Acknowledge, IdleHandler, HandlerAt
<1>4. ASSUME GetPanics \/ SetSenderFails PROVE UNCHANGED handler
  BY <1>4 DEF GetPanics, SetSenderFails
<1>5. ASSUME FindsNoTrack
      PROVE  /\ handler'.step = "get" /\ handler'.track = handler.track
             /\ handler.step = "has" /\ tracks[handler.track] = 0
  BY <1>5 DEF FindsNoTrack, HandlerAt
<1> QED BY <1>1, <1>2, <1>3, <1>4, <1>5, MoveHandler DEF subVars, xcvrVars

-----------------------------------------------------------------------------
(* The steps that hand a transceiver out *)

LEMMA GetKeepsIt == ASSUME WatchInv, PoolInv, GetTransceiver PROVE WatchInv' /\ PoolInv'
<1>1. PICK x \in Xcvrs : Get(x) /\ handler' = HandlerAt("set", handler.track, handler.from, x)
  BY DEF GetTransceiver
<1>2. /\ UNCHANGED <<tracks, attached, observers, made, withMid>>
      /\ handler.step = "get"
      /\ handler'.step = "set" /\ handler'.track = handler.track /\ handler'.xcvr = x
  BY <1>1 DEF GetTransceiver, HandlerAt, subVars
<1>3. /\ Bounded /\ HandlerHolds /\ OneObserverPerEntry
      /\ KeptUnderMid /\ Stale /\ TransceiverOwnedOnce
  BY DEF WatchInv, PoolInv
<1>4. MaxXcvrs \in Nat  BY SubscriptionAssumption
<1>5. PICK m \in 0..MaxXcvrs : free[m] = x
  BY <1>1 DEF Get, FreeXcvrs
<1>6. x \in 1..made /\ Mid(x) \in 0..MaxXcvrs
  BY <1>3, <1>4, <1>5 DEF Bounded, Xcvrs, Mid
<1>7. /\ free' \in [0..MaxXcvrs -> 0..made]
      /\ \A n \in 0..MaxXcvrs : free'[n] = IF n = Mid(x) THEN 0 ELSE free[n]
  BY <1>1, <1>3, <1>6 DEF Get, Bounded
<1>8. Bounded'  BY <1>2, <1>3, <1>7 DEF Bounded
<1>9. HandlerHolds'  BY <1>2, <1>3, <1>6 DEF HandlerHolds
<1>10. OneObserverPerEntry'  BY <1>2, <1>3 DEF OneObserverPerEntry
<1>11. KeptUnderMid'  BY <1>2, <1>3, <1>4, <1>7 DEF KeptUnderMid
<1>12. free'[0] = free[0] \/ free'[0] = 0  BY <1>4, <1>7
<1>13. 0 \notin withMid  BY <1>3 DEF Bounded
<1>14. Stale'  BY <1>2, <1>3, <1>12, <1>13 DEF Stale
<1>15. FreeXcvrs' \subseteq FreeXcvrs
  BY <1>7 DEF FreeXcvrs
<1>16. ASSUME free'[0] \notin withMid PROVE free[0] \notin withMid /\ x \notin FreeXcvrs'
  <2>1. CASE x \in withMid
    <3>1. Mid(x) = x /\ free'[0] = free[0]  BY <1>4, <1>6, <1>7, <2>1 DEF Mid
    <3>2. \A n \in 0..MaxXcvrs : free'[n] # x
      BY <1>3, <1>4, <1>6, <1>7, <1>16, <2>1, <3>1 DEF KeptUnderMid
    <3> QED BY <1>16, <3>1, <3>2 DEF FreeXcvrs
  <2>2. CASE x \notin withMid
    <3>1. Mid(x) = 0  BY <2>2 DEF Mid
    <3>2. m = 0  BY <1>3, <1>4, <1>5, <1>6, <2>2 DEF KeptUnderMid
    <3>3. \A n \in 0..MaxXcvrs : free'[n] # x
      BY <1>3, <1>4, <1>6, <1>7, <2>2, <3>1 DEF KeptUnderMid
    <3> QED BY <1>5, <2>2, <3>2, <3>3 DEF FreeXcvrs
  <2> QED BY <2>1, <2>2
<1>17. x \in FreeXcvrs  BY <1>1 DEF Get
<1>18. HandedOut'
  BY <1>2, <1>3, <1>16, <1>17 DEF HandedOut, TransceiverOwnedOnce
<1>19. TransceiverOwnedOnce'
  BY <1>2, <1>3, <1>15, <1>16 DEF TransceiverOwnedOnce
<1> QED BY <1>8, <1>9, <1>10, <1>11, <1>14, <1>18, <1>19 DEF WatchInv, PoolInv

LEMMA AddKeeps == ASSUME WatchInv, PoolInv, AddTransceiver PROVE WatchInv' /\ PoolInv'
<1>1. /\ UNCHANGED <<tracks, attached, observers, withMid, free>>
      /\ handler.step = "get" /\ FreeXcvrs = {} /\ made < MaxXcvrs /\ made' = made + 1
      /\ handler'.step = "set" /\ handler'.track = handler.track /\ handler'.xcvr = made + 1
  BY DEF AddTransceiver, HandlerAt, subVars
<1>2. /\ Bounded /\ HandlerHolds /\ OneObserverPerEntry
      /\ KeptUnderMid /\ Stale /\ TransceiverOwnedOnce
  BY DEF WatchInv, PoolInv
<1>3. MaxXcvrs \in Nat  BY SubscriptionAssumption
<1>4. 0..made \subseteq 0..made' /\ 1..made \subseteq 1..made' /\ made' \in Nat /\ made' <= MaxXcvrs
  BY <1>1, <1>2, <1>3 DEF Bounded
<1>5. tracks \in [Tracks -> 0..made'] /\ free \in [0..MaxXcvrs -> 0..made']
  BY <1>2, <1>4 DEF Bounded
<1>6. Bounded'  BY <1>1, <1>2, <1>4, <1>5 DEF Bounded
<1>7. HandlerHolds'  BY <1>1, <1>2, <1>4 DEF HandlerHolds, Bounded
<1>8. OneObserverPerEntry'  BY <1>1, <1>2 DEF OneObserverPerEntry
<1>9. KeptUnderMid'  BY <1>1, <1>2 DEF KeptUnderMid
<1>10. free[0] = 0  BY <1>1, <1>3 DEF FreeXcvrs
<1>11. Stale'  BY <1>1, <1>2, <1>10 DEF Stale, Bounded
<1>12. FreeXcvrs' = {}  BY <1>1 DEF FreeXcvrs
<1>13. \A k \in Tracks : tracks[k] # made + 1  BY <1>2 DEF Bounded
<1>14. HandedOut'  BY <1>1, <1>12, <1>13 DEF HandedOut
<1>15. TransceiverOwnedOnce'  BY <1>1, <1>2, <1>12 DEF TransceiverOwnedOnce
<1> QED BY <1>6, <1>7, <1>8, <1>9, <1>11, <1>14, <1>15 DEF WatchInv, PoolInv

LEMMA SetKeeps == ASSUME WatchInv, PoolInv, SetSender PROVE WatchInv' /\ PoolInv'
<1> DEFINE k == handler.track
           x == handler.xcvr
           new == [track |-> k, xcvr |-> x]
<1>1. /\ UNCHANGED <<observers, withMid, made, free>>
      /\ handler.step = "set" /\ handler'.step = "select"
      /\ tracks' = [tracks EXCEPT ![k] = x] /\ attached' = attached \cup {new}
  BY DEF SetSender, Acknowledge, IdleHandler, HandlerAt
<1>2. /\ Bounded /\ HandlerHolds /\ OneObserverPerEntry
      /\ KeptUnderMid /\ Stale /\ HandedOut /\ TransceiverOwnedOnce
  BY DEF WatchInv, PoolInv
<1>3. k \in Tracks /\ tracks[k] = 0 /\ x \in 1..made  BY <1>1, <1>2 DEF HandlerHolds
<1> HIDE DEF k, x
<1>4. /\ tracks' \in [Tracks -> 0..made]
      /\ \A j \in Tracks : tracks'[j] = IF j = k THEN x ELSE tracks[j]
  BY <1>1, <1>2, <1>3 DEF Bounded
<1>5. new \in Attachment /\ new.track = k /\ new.xcvr = x
  <2>1. x \in 1..MaxXcvrs  BY <1>2, <1>3, SubscriptionAssumption DEF Bounded
  <2> QED BY <1>3, <2>1 DEF Attachment, Xcvrs
<1>6. Bounded'  BY <1>1, <1>2, <1>4, <1>5 DEF Bounded
<1>7. HandlerHolds'  BY <1>1 DEF HandlerHolds
<1>8. \A o \in attached \cup observers : o.track \in Tracks /\ o.track # k
  BY <1>2, <1>3 DEF OneObserverPerEntry, Bounded, Attachment, Xcvrs
<1>9. OneObserverPerEntry'
  <2>1. (attached \cap observers)' = {}
    BY <1>1, <1>2, <1>5, <1>8 DEF OneObserverPerEntry
  <2>2. \A o \in (attached \cup observers)' : tracks'[o.track] = o.xcvr
    BY <1>1, <1>2, <1>3, <1>4, <1>5, <1>8 DEF OneObserverPerEntry
  <2>3. \A j \in Tracks : tracks'[j] # 0 =>
           [track |-> j, xcvr |-> tracks'[j]] \in (attached \cup observers)'
    BY <1>1, <1>2, <1>4 DEF OneObserverPerEntry
  <2> QED BY <2>1, <2>2, <2>3 DEF OneObserverPerEntry
<1>10. KeptUnderMid' /\ Stale'  BY <1>1, <1>2 DEF KeptUnderMid, Stale
<1>11. HandedOut'  BY <1>1 DEF HandedOut
<1>12. FreeXcvrs' = FreeXcvrs  BY <1>1 DEF FreeXcvrs
<1>13. free[0] \notin withMid => x \notin FreeXcvrs /\ \A j \in Tracks : tracks[j] # x
  BY <1>1, <1>2 DEF HandedOut, x
<1>14. TransceiverOwnedOnce'
  BY <1>1, <1>2, <1>4, <1>12, <1>13 DEF TransceiverOwnedOnce
<1> QED BY <1>6, <1>7, <1>9, <1>10, <1>11, <1>14 DEF WatchInv, PoolInv

-----------------------------------------------------------------------------
(* Observers: the handler stays where it is *)

LEMMA ObserveKeeps ==
  ASSUME WatchInv, PoolInv, NEW a \in attached, ObserveAttached(a)
  PROVE  WatchInv' /\ PoolInv'
<1>1. /\ UNCHANGED <<tracks, made, withMid, free, handler>>
      /\ attached' = attached \ {a} /\ observers' = observers \cup {a}
  BY DEF ObserveAttached, xcvrVars
<1>2. /\ Bounded /\ HandlerHolds /\ OneObserverPerEntry
      /\ KeptUnderMid /\ Stale /\ HandedOut /\ TransceiverOwnedOnce
  BY DEF WatchInv, PoolInv
<1>3. Bounded' /\ HandlerHolds'  BY <1>1, <1>2 DEF Bounded, HandlerHolds
<1>4. OneObserverPerEntry'
  <2>1. (attached \cap observers)' = {} /\ (attached \cup observers)' = attached \cup observers
    BY <1>1, <1>2 DEF OneObserverPerEntry
  <2> QED BY <1>1, <1>2, <2>1 DEF OneObserverPerEntry
<1>5. FreeXcvrs' = FreeXcvrs  BY <1>1 DEF FreeXcvrs
<1>6. KeptUnderMid' /\ Stale' /\ HandedOut' /\ TransceiverOwnedOnce'
  BY <1>1, <1>2, <1>5 DEF KeptUnderMid, Stale, HandedOut, TransceiverOwnedOnce
<1> QED BY <1>3, <1>4, <1>6 DEF WatchInv, PoolInv

(* An observer's entry is there, with the observer's transceiver. *)
LEMMA EntryIsThere ==
  ASSUME WatchInv, NEW a \in observers
  PROVE  a.track \in Tracks /\ a.xcvr \in 1..made /\ tracks[a.track] = a.xcvr
<1>1. a.track \in Tracks /\ a.xcvr \in 1..MaxXcvrs
  BY DEF WatchInv, Bounded, Attachment, Xcvrs
<1>2. tracks[a.track] = a.xcvr  BY DEF WatchInv, OneObserverPerEntry
<1> QED BY <1>1, <1>2 DEF WatchInv, Bounded

(* What DeleteTrack does whether or not Release succeeds. *)
LEMMA DropKeeps ==
  ASSUME WatchInv, NEW a \in observers, observers' = observers \ {a},
         tracks' = [tracks EXCEPT ![a.track] = 0], UNCHANGED <<attached, made, withMid, handler>>,
         free' \in [0..MaxXcvrs -> 0..made]
  PROVE  /\ WatchInv'
         /\ \A k \in Tracks : tracks'[k] = IF k = a.track THEN 0 ELSE tracks[k]
<1>1. a.track \in Tracks /\ a.xcvr \in 1..made /\ tracks[a.track] = a.xcvr  BY EntryIsThere
<1>2. Bounded /\ HandlerHolds /\ OneObserverPerEntry  BY DEF WatchInv
<1>3. /\ tracks' \in [Tracks -> 0..made]
      /\ \A k \in Tracks : tracks'[k] = IF k = a.track THEN 0 ELSE tracks[k]
  BY <1>1, <1>2 DEF Bounded
<1>4. Bounded'  BY <1>2, <1>3 DEF Bounded
<1>5. HandlerHolds'  BY <1>2, <1>3 DEF HandlerHolds
<1>6. OneObserverPerEntry'
  <2>1. (attached \cap observers)' = {}  BY <1>2 DEF OneObserverPerEntry
  <2>2. (attached \cup observers)' = (attached \cup observers) \ {a}
    BY <1>2 DEF OneObserverPerEntry
  <2>3. \A o \in (attached \cup observers) \ {a} : o.track \in Tracks /\ o.track # a.track
    <3> SUFFICES ASSUME NEW o \in attached \cup observers, o.track = a.track PROVE o = a
      BY <1>2 DEF Bounded, Attachment
    <3>1. o.xcvr = a.xcvr  BY <1>1, <1>2 DEF OneObserverPerEntry
    <3>2. o \in Attachment /\ a \in Attachment  BY <1>2 DEF Bounded
    <3> QED BY <3>1, <3>2 DEF Attachment
  <2>4. \A o \in (attached \cup observers)' : tracks'[o.track] = o.xcvr
    BY <1>2, <1>3, <2>2, <2>3 DEF OneObserverPerEntry
  <2>5. \A k \in Tracks : tracks'[k] # 0 =>
           [track |-> k, xcvr |-> tracks'[k]] \in (attached \cup observers)'
    <3> SUFFICES ASSUME NEW k \in Tracks, tracks'[k] # 0
                 PROVE  [track |-> k, xcvr |-> tracks[k]] \in (attached \cup observers)'
      BY <1>3
    <3>1. k # a.track /\ tracks[k] # 0  BY <1>3
    <3>2. [track |-> k, xcvr |-> tracks[k]] \in attached \cup observers
      BY <1>2, <3>1 DEF OneObserverPerEntry
    <3>3. [track |-> k, xcvr |-> tracks[k]] # a  BY <3>1
    <3> QED BY <2>2, <3>2, <3>3
  <2> QED BY <2>1, <2>4, <2>5 DEF OneObserverPerEntry
<1> QED BY <1>3, <1>4, <1>5, <1>6 DEF WatchInv

LEMMA DeleteKeeps ==
  ASSUME WatchInv, PoolInv, NEW a \in observers, DeleteTrack(a)
  PROVE  WatchInv' /\ PoolInv'
<1> DEFINE x == a.xcvr
<1>1. a.track \in Tracks /\ x \in 1..made /\ tracks[a.track] = x  BY EntryIsThere
<1>2. /\ observers' = observers \ {a} /\ tracks' = [tracks EXCEPT ![a.track] = 0]
      /\ UNCHANGED <<attached, made, withMid, handler>> /\ Release(x)
  BY <1>1 DEF DeleteTrack, TrackIsDone
<1>3. /\ Bounded /\ HandlerHolds /\ OneObserverPerEntry
      /\ KeptUnderMid /\ Stale /\ HandedOut /\ TransceiverOwnedOnce
  BY DEF WatchInv, PoolInv
<1>4. MaxXcvrs \in Nat /\ made \in Nat /\ made <= MaxXcvrs
  BY <1>3, SubscriptionAssumption DEF Bounded
<1>5. Mid(x) \in 0..MaxXcvrs  BY <1>1, <1>4 DEF Mid
<1>6. /\ free' \in [0..MaxXcvrs -> 0..made]
      /\ \A n \in 0..MaxXcvrs : free'[n] = IF n = Mid(x) THEN x ELSE free[n]
  BY <1>1, <1>2, <1>3, <1>4, <1>5 DEF Release, Bounded
<1>7. WatchInv' /\ \A k \in Tracks : tracks'[k] = IF k = a.track THEN 0 ELSE tracks[k]
  BY <1>2, <1>6, DropKeeps
<1> HIDE DEF x
<1>8. KeptUnderMid'
  BY <1>1, <1>2, <1>3, <1>4, <1>6 DEF KeptUnderMid, Mid
<1>9. free'[0] = IF x \in withMid THEN free[0] ELSE x
  BY <1>1, <1>4, <1>6 DEF Mid
<1>10. Stale'
  BY <1>1, <1>2, <1>3, <1>9 DEF Stale
<1>11. free'[0] \notin withMid => free[0] \notin withMid
  BY <1>1, <1>3, <1>9 DEF Stale
<1>12. FreeXcvrs' \subseteq FreeXcvrs \cup {x}
  BY <1>6 DEF FreeXcvrs
<1>13. HandedOut'
  <2> SUFFICES ASSUME free'[0] \notin withMid', handler'.step = "set"
               PROVE  /\ handler'.xcvr \notin FreeXcvrs'
                      /\ \A k \in Tracks : tracks'[k] # handler'.xcvr
    BY DEF HandedOut
  <2>1. handler.xcvr \notin FreeXcvrs /\ \A k \in Tracks : tracks[k] # handler.xcvr
    BY <1>2, <1>3, <1>11 DEF HandedOut
  <2>2. handler.xcvr # x /\ handler.xcvr \in 1..made  BY <1>1, <1>2, <1>3, <2>1 DEF HandlerHolds
  <2> QED BY <1>2, <1>7, <1>12, <2>1, <2>2
<1>14. TransceiverOwnedOnce'
  <2> SUFFICES ASSUME free'[0] \notin withMid'
               PROVE  /\ \A j, k \in Tracks : j # k /\ tracks'[j] # 0 => tracks'[j] # tracks'[k]
                      /\ \A k \in Tracks : tracks'[k] \notin FreeXcvrs'
    BY DEF TransceiverOwnedOnce
  <2>1. /\ \A j, k \in Tracks : j # k /\ tracks[j] # 0 => tracks[j] # tracks[k]
        /\ \A k \in Tracks : tracks[k] \notin FreeXcvrs
    BY <1>2, <1>3, <1>11 DEF TransceiverOwnedOnce
  <2>2. \A j, k \in Tracks : j # k /\ tracks'[j] # 0 => tracks'[j] # tracks'[k]
    BY <1>7, <2>1
  <2>3. ASSUME NEW k \in Tracks PROVE tracks'[k] \notin FreeXcvrs'
    <3>1. CASE k = a.track  BY <1>7, <3>1 DEF FreeXcvrs
    <3>2. CASE k # a.track
      <4>1. tracks'[k] = tracks[k] /\ tracks[k] # x  BY <1>1, <1>7, <2>1, <3>2
      <4> QED BY <1>12, <2>1, <4>1
    <3> QED BY <3>1, <3>2
  <2> QED BY <2>2, <2>3
<1> QED BY <1>7, <1>8, <1>10, <1>13, <1>14 DEF PoolInv

LEMMA ReleaseFailsKeeps ==
  ASSUME WatchInv, PoolInv, NEW a \in observers, ReleaseFails(a)
  PROVE  WatchInv' /\ PoolInv'
<1>1. /\ observers' = observers \ {a} /\ tracks' = [tracks EXCEPT ![a.track] = 0]
      /\ UNCHANGED <<attached, made, withMid, free, handler>>
  BY DEF ReleaseFails, TrackIsDone, xcvrVars
<1>2. free' \in [0..MaxXcvrs -> 0..made]  BY <1>1 DEF WatchInv, Bounded
<1>3. WatchInv' /\ \A k \in Tracks : tracks'[k] = IF k = a.track THEN 0 ELSE tracks[k]
  BY <1>1, <1>2, DropKeeps
<1>4. KeptUnderMid /\ Stale /\ HandedOut /\ TransceiverOwnedOnce  BY DEF PoolInv
<1>5. FreeXcvrs' = FreeXcvrs /\ 0 \notin FreeXcvrs  BY <1>1 DEF FreeXcvrs
<1>6. KeptUnderMid' /\ Stale'  BY <1>1, <1>4 DEF KeptUnderMid, Stale
<1>7. HandedOut'
  <2>1. handler.step = "set" => handler.xcvr # 0  BY DEF WatchInv, HandlerHolds, Bounded
  <2> QED BY <1>1, <1>3, <1>4, <1>5, <2>1 DEF HandedOut
<1>8. TransceiverOwnedOnce'  BY <1>1, <1>3, <1>4, <1>5 DEF TransceiverOwnedOnce
<1> QED BY <1>3, <1>6, <1>7, <1>8 DEF PoolInv

-----------------------------------------------------------------------------
(* The goroutines that sanitize and synchronize *)

(* An offer gives mids, and moves nothing. *)
LEMMA OfferKeeps ==
  ASSUME WatchInv, PoolInv, UNCHANGED <<tracks, attached, observers, made, free, handler>>,
         withMid' \in {withMid, 1..made}
  PROVE  WatchInv' /\ PoolInv'
<1>1. /\ Bounded /\ HandlerHolds /\ OneObserverPerEntry
      /\ KeptUnderMid /\ Stale /\ HandedOut /\ TransceiverOwnedOnce
  BY DEF WatchInv, PoolInv
<1>2. withMid \subseteq withMid' /\ withMid' \subseteq 1..made  BY <1>1 DEF Bounded
<1>3. Bounded' /\ HandlerHolds' /\ OneObserverPerEntry'
  BY <1>1, <1>2 DEF Bounded, HandlerHolds, OneObserverPerEntry
<1>4. KeptUnderMid' /\ Stale'  BY <1>1, <1>2 DEF KeptUnderMid, Stale
<1>5. FreeXcvrs' = FreeXcvrs  BY DEF FreeXcvrs
<1>6. HandedOut' /\ TransceiverOwnedOnce'
  BY <1>1, <1>2, <1>5 DEF HandedOut, TransceiverOwnedOnce
<1> QED BY <1>3, <1>4, <1>6 DEF WatchInv, PoolInv

LEMMA RunningKeeps ==
  ASSUME WatchInv, PoolInv, NEW r \in Runners, Running(r)
  PROVE  WatchInv' /\ PoolInv'
<1>1. CASE PeerPublishingSenders(r) \/ RemoveUnpublishSenders(r) \/ Synchronized(r)
  <2>1. UNCHANGED <<subVars, made, withMid, free, handler>>
    BY <1>1 DEF PeerPublishingSenders, RemoveUnpublishSenders, Synchronized, xcvrVars
  <2> QED BY <2>1, MoveHandler DEF subVars
<1>2. CASE DispatchOffer(r)
  <2>1. /\ UNCHANGED <<tracks, attached, observers, made, free, handler>>
        /\ withMid' \in {withMid, 1..made}
    BY <1>2 DEF DispatchOffer, subVars
  <2> QED BY <2>1, OfferKeeps
<1> QED BY <1>1, <1>2 DEF Running

-----------------------------------------------------------------------------
LEMMA StepKeeps == ASSUME WatchInv, PoolInv, [Next]_vars PROVE WatchInv' /\ PoolInv'
<1>1. CASE UNCHANGED vars
  <2>1. UNCHANGED <<tracks, attached, observers, made, withMid, free, handler>>
    BY <1>1 DEF vars, subVars, xcvrVars
  <2> QED BY <2>1, MoveHandler
<1>2. CASE Publishing  BY <1>2, PublishingKeeps
<1>3. CASE Taking  BY <1>3, TakingKeeps
<1>4. CASE Handling
  BY <1>4, AnswerKeeps, GetKeepsIt, AddKeeps, SetKeeps DEF Handling
<1>5. CASE Observing
  <2>1. CASE RemoveSender
    <3>1. UNCHANGED <<tracks, attached, observers, made, withMid, free, handler>>
      BY <2>1 DEF RemoveSender
    <3> QED BY <3>1, MoveHandler
  <2>2. ASSUME NEW a \in attached, ObserveAttached(a) PROVE WatchInv' /\ PoolInv'
    BY <2>2, ObserveKeeps
  <2>3. ASSUME NEW a \in observers, DeleteTrack(a) \/ ReleaseFails(a) PROVE WatchInv' /\ PoolInv'
    BY <2>3, DeleteKeeps, ReleaseFailsKeeps
  <2> QED BY <1>5, <2>1, <2>2, <2>3 DEF Observing
<1>6. CASE \E r \in Runners : Running(r)  BY <1>6, RunningKeeps
<1>7. CASE Close
  <2>1. UNCHANGED <<subVars, xcvrVars, handler>>  BY <1>7 DEF Close
  <2> QED BY <2>1, MoveHandler DEF subVars, xcvrVars
<1>8. CASE DispatchElsewhere
  <2>1. /\ UNCHANGED <<tracks, attached, observers, made, free, handler>>
        /\ withMid' \in {withMid, 1..made}
    BY <1>8 DEF DispatchElsewhere, subVars
  <2> QED BY <2>1, OfferKeeps
<1> QED BY <1>1, <1>2, <1>3, <1>4, <1>5, <1>6, <1>7, <1>8 DEF Next

LEMMA AlwaysOwned == Spec => [](WatchInv /\ PoolInv)
<1>1. Init => WatchInv /\ PoolInv  BY InitWatch, InitPool
<1>2. WatchInv /\ PoolInv /\ [Next]_vars => (WatchInv /\ PoolInv)'  BY StepKeeps
<1> QED BY <1>1, <1>2, PTL DEF Spec

(* Whatever sanitizers, publishers and observers do in whatever order, an    *)
(* attached track has exactly one observer, and it holds the transceiver     *)
(* the entry holds: DeleteTrack releases what it took.                       *)
THEOREM EntriesAreWatched == Spec => []OneObserverPerEntry
<1>1. WatchInv /\ PoolInv => OneObserverPerEntry  BY DEF WatchInv
<1> QED BY <1>1, AlwaysOwned, PTL

(* Two attached tracks never share a transceiver, and TransceiverPool never  *)
(* offers one that is in use, unless one it keeps under the empty mid has    *)
(* been given a mid by an offer.                                             *)
THEOREM TransceiversAreOwned == Spec => []TransceiverOwnedOnce
<1>1. WatchInv /\ PoolInv => TransceiverOwnedOnce  BY DEF PoolInv
<1> QED BY <1>1, AlwaysOwned, PTL
-----------------------------------------------------------------------------
(* Who waits for an answer of HandleTrackAttach *)

RunSteps == {"idle", "begin", "remove", "attach", "wait"}
Run == [step : RunSteps, seen : SUBSET Tracks, todo : SUBSET Tracks]
Downs == {"no", "ask", "wait", "back"}

AskTyped ==
  /\ runs \in [Runners -> Run] /\ down \in [Tracks -> Downs]
  /\ published \subseteq Tracks /\ pooled \subseteq Tracks /\ done \subseteq Tracks

InHand == handler.step \in {"has", "get", "set"}

(* The handler holds the track of who waits, and who waits is one. *)
Served ==
  /\ InHand => handler.from \in Tracks \cup Runners
  /\ \A k \in Tracks : down[k] = "wait" <=> InHand /\ handler.from = k
  /\ \A r \in Runners : runs[r].step = "wait" <=> InHand /\ handler.from = r

AskInv == AskTyped /\ Served

LEMMA RunFields ==
  ASSUME NEW step \in RunSteps, NEW seen \in SUBSET Tracks, NEW todo \in SUBSET Tracks
  PROVE  LET run == RunAt(step, seen, todo)
         IN run \in Run /\ run.step = step /\ run.seen = seen /\ run.todo = todo
BY DEF RunAt, Run

(* One run is replaced, the others stay. *)
LEMMA RunReplaced ==
  ASSUME AskTyped, NEW r \in Runners, NEW run \in Run, runs' = [runs EXCEPT ![r] = run]
  PROVE  /\ runs' \in [Runners -> Run] /\ runs'[r] = run
         /\ \A q \in Runners : q # r => runs'[q] = runs[q]
BY DEF AskTyped

LEMMA InitAsk == Init => AskInv
<1> SUFFICES ASSUME Init PROVE AskInv  OBVIOUS
<1>1. \A r \in Runners : runs[r] = IdleRun  BY DEF Init
<1>2. IdleRun \in Run /\ IdleRun.step = "idle"  BY DEF IdleRun, RunAt, Run, RunSteps
<1>3. AskTyped  BY <1>2 DEF Init, AskTyped, Downs
<1>4. ~ InHand  BY DEF Init, InHand, IdleHandler, HandlerAt
<1>5. Served  BY <1>1, <1>2, <1>4 DEF Init, Served
<1> QED BY <1>3, <1>5 DEF AskInv

(* What an answer does: it goes to who asked, and to nobody else. *)
Answer(ok) ==
  /\ handler'.step = "select" /\ handler'.xcvr = 0
  /\ down' \in [Tracks -> Downs]
  /\ \A k \in Tracks : down'[k] = IF k = handler.from THEN "back" ELSE down[k]
  /\ done \subseteq done' /\ done' \subseteq Tracks
  /\ runs' \in [Runners -> Run]
  /\ \A r \in Runners : r # handler.from => runs'[r] = runs[r]
  /\ \A r \in Runners : r = handler.from =>
       /\ runs'[r].step \in {"idle", "attach"} /\ runs'[r].todo \subseteq runs[r].todo
       /\ ok => runs'[r].step = "attach"

LEMMA Answered ==
  ASSUME AskInv, InHand, NEW ok \in BOOLEAN, Acknowledge(ok) PROVE Answer(ok)
<1>1. AskTyped /\ handler.from \in Tracks \cup Runners  BY DEF AskInv, Served
<1>2. handler'.step = "select" /\ handler'.xcvr = 0
  BY DEF Acknowledge, IdleHandler, HandlerAt
<1>3. CASE handler.from \in Tracks
  <2>1. /\ down' = [down EXCEPT ![handler.from] = "back"] /\ UNCHANGED runs
        /\ done \subseteq done' /\ done' \subseteq Tracks
    BY <1>1, <1>3 DEF Acknowledge, AskTyped
  <2>2. handler.from \notin Runners  BY <1>3, SubscriptionAssumption
  <2>3. /\ down' \in [Tracks -> Downs]
        /\ \A k \in Tracks : down'[k] = IF k = handler.from THEN "back" ELSE down[k]
    BY <1>1, <2>1 DEF AskTyped, Downs
  <2> QED BY <1>1, <1>2, <2>1, <2>2, <2>3 DEF Answer, AskTyped
<1>4. CASE handler.from \notin Tracks
  <2>1. handler.from \in Runners /\ UNCHANGED <<down, done>>
    BY <1>1, <1>4 DEF Acknowledge
  <2>2. runs[handler.from].todo \subseteq Tracks  BY <1>1, <2>1 DEF AskTyped, Run
  <2>3. PICK run \in Run : /\ runs' = [runs EXCEPT ![handler.from] = run]
                           /\ run.step \in {"idle", "attach"}
                           /\ ok => run.step = "attach"
                           /\ run.todo \subseteq runs[handler.from].todo
    <3> DEFINE more == RunAt("attach", {}, runs[handler.from].todo)
    <3>1. /\ more \in Run /\ more.step = "attach" /\ more.todo = runs[handler.from].todo
          /\ IdleRun \in Run /\ IdleRun.step = "idle" /\ IdleRun.todo = {}
      BY <2>2, RunFields DEF IdleRun, RunSteps
    <3> QED BY <1>4, <3>1 DEF Acknowledge
  <2>4. /\ runs' \in [Runners -> Run] /\ runs'[handler.from] = run
        /\ \A q \in Runners : q # handler.from => runs'[q] = runs[q]
    BY <1>1, <2>1, <2>3, RunReplaced
  <2> QED BY <1>1, <1>2, <1>4, <2>1, <2>3, <2>4 DEF Answer, AskTyped
<1> QED BY <1>3, <1>4

(* Steps that neither ask nor answer. *)
LEMMA NobodyAsks ==
  ASSUME AskInv, UNCHANGED handler,
         down' \in [Tracks -> Downs], \A k \in Tracks : down'[k] = "wait" <=> down[k] = "wait",
         runs' \in [Runners -> Run],
         \A r \in Runners : runs'[r].step = "wait" <=> runs[r].step = "wait",
         published' \subseteq Tracks, pooled' \subseteq Tracks, done' \subseteq Tracks
  PROVE  AskInv'
<1>1. AskTyped'  BY DEF AskTyped
<1>2. InHand' <=> InHand  BY DEF InHand
<1>3. Served'  BY <1>2 DEF AskInv, Served
<1> QED BY <1>1, <1>3 DEF AskInv

LEMMA PublishingAsks == ASSUME AskInv, Publishing PROVE AskInv'
<1>1. UNCHANGED <<handler, runs>>
  BY DEF Publishing, JoinPool, Publish, TrackDown, EndTrack, Unpublish
<1>2. AskTyped  BY DEF AskInv
<1>3. published' \subseteq Tracks /\ pooled' \subseteq Tracks /\ done' \subseteq Tracks
  BY <1>2 DEF AskTyped, Publishing, JoinPool, Publish, TrackDown, EndTrack, Unpublish
<1>4. /\ down' \in [Tracks -> Downs]
      /\ \A k \in Tracks : down'[k] = "wait" <=> down[k] = "wait"
  BY <1>2 DEF AskTyped, Publishing, JoinPool, Publish, TrackDown, EndTrack, Unpublish, Downs
<1> QED BY <1>1, <1>2, <1>3, <1>4, NobodyAsks DEF AskTyped

LEMMA TakingAsks == ASSUME AskInv, Taking PROVE AskInv'
<1>1. AskTyped /\ Served  BY DEF AskInv
<1>2. Tracks \cap Runners = {}  BY SubscriptionAssumption
<1>3. ASSUME NEW k \in Tracks, TakeFromPublisher(k) PROVE AskInv'
  <2>1. /\ down' = [down EXCEPT ![k] = "wait"] /\ handler' = HandlerAt("has", k, k, 0)
        /\ HandlerIdle /\ UNCHANGED <<published, pooled, done, runs>>
    BY <1>3 DEF TakeFromPublisher
  <2>2. ~ InHand /\ InHand' /\ handler'.from = k
    BY <2>1 DEF HandlerIdle, InHand, HandlerAt
  <2>3. AskTyped'  BY <1>1, <2>1 DEF AskTyped, Downs
  <2>4. Served'  BY <1>1, <1>2, <2>1, <2>2 DEF Served, AskTyped
  <2> QED BY <2>3, <2>4 DEF AskInv
<1>4. ASSUME NEW r \in Runners, NEW k \in Tracks, TakeFromRunner(r, k) PROVE AskInv'
  <2> DEFINE run == RunAt("wait", {}, runs[r].todo \ {k})
  <2>1. /\ runs' = [runs EXCEPT ![r] = run] /\ handler' = HandlerAt("has", k, r, 0)
        /\ HandlerIdle /\ UNCHANGED pubVars
    BY <1>4 DEF TakeFromRunner
  <2>2. ~ InHand /\ InHand' /\ handler'.from = r
    BY <2>1 DEF HandlerIdle, InHand, HandlerAt
  <2>3. run \in Run /\ run.step = "wait"
    <3>1. runs[r].todo \ {k} \in SUBSET Tracks /\ {} \in SUBSET Tracks  BY <1>1 DEF AskTyped, Run
    <3> QED BY <3>1, RunFields DEF RunSteps
  <2> HIDE DEF run
  <2>4. runs' \in [Runners -> Run] /\ runs'[r] = run /\ \A q \in Runners : q # r => runs'[q] = runs[q]
    BY <1>1, <2>1, <2>3, RunReplaced
  <2>5. AskTyped'  BY <1>1, <2>1, <2>4 DEF AskTyped, pubVars
  <2>6. Served'  BY <1>1, <1>2, <2>1, <2>2, <2>3, <2>4 DEF Served, pubVars
  <2> QED BY <2>5, <2>6 DEF AskInv
<1> QED BY <1>3, <1>4 DEF Taking

LEMMA HandlingAsks == ASSUME AskInv, Handling PROVE AskInv'
<1>1. AskTyped /\ Served  BY DEF AskInv
<1>2. Tracks \cap Runners = {}  BY SubscriptionAssumption
<1>3. CASE HandlerExits \/ FindsNoTrack \/ GetTransceiver \/ GetPanics \/ AddTransceiver
             \/ SetSenderFails
  <2>1. UNCHANGED <<pubVars, runs>> /\ (InHand' <=> InHand) /\ (InHand => handler'.from = handler.from)
    BY <1>3 DEF HandlerExits, FindsNoTrack, GetTransceiver, GetPanics, AddTransceiver,
                SetSenderFails, HandlerIdle, InHand, HandlerAt
  <2>2. AskTyped'  BY <1>1, <2>1 DEF AskTyped, pubVars
  <2>3. Served'  BY <1>1, <2>1 DEF Served, pubVars
  <2> QED BY <2>2, <2>3 DEF AskInv
<1>4. CASE FindsTrack \/ AddTransceiverFails \/ NewSenderFails \/ SetSender
  <2>1. InHand /\ UNCHANGED <<published, pooled>> /\ \E ok \in BOOLEAN : Acknowledge(ok)
    BY <1>4 DEF FindsTrack, AddTransceiverFails, NewSenderFails, SetSender, InHand
  <2>2. PICK ok \in BOOLEAN : Answer(ok)  BY <2>1, Answered
  <2>3. AskTyped'  BY <1>1, <2>1, <2>2 DEF AskTyped, Answer
  <2>4. ~ InHand'  BY <2>2 DEF Answer, InHand
  <2>5. \A k \in Tracks : down'[k] # "wait"  BY <1>1, <2>1, <2>2 DEF Served, Answer
  <2>6. \A r \in Runners : runs'[r].step # "wait"  BY <1>1, <2>1, <2>2 DEF Served, Answer
  <2> QED BY <2>3, <2>4, <2>5, <2>6 DEF AskInv, Served
<1> QED BY <1>3, <1>4 DEF Handling

(* A goroutine that does not wait goes on. *)
LEMMA RunGoesOn ==
  ASSUME AskInv, UNCHANGED <<pubVars, handler>>,
         NEW r \in Runners, runs[r].step # "wait", NEW run \in Run, run.step # "wait",
         runs' = [runs EXCEPT ![r] = run]
  PROVE  AskInv'
<1>1. AskTyped  BY DEF AskInv
<1>2. /\ runs' \in [Runners -> Run] /\ runs'[r] = run
      /\ \A q \in Runners : q # r => runs'[q] = runs[q]
  BY <1>1, RunReplaced
<1> QED BY <1>1, <1>2, NobodyAsks DEF AskTyped, pubVars

(* What the actions write into runs. *)
LEMMA Starts == RunAt("begin", {}, {}) \in Run /\ RunAt("begin", {}, {}).step = "begin"
BY RunFields DEF RunSteps

LEMMA Observers ==
  ASSUME AskInv, Observing
  PROVE  /\ UNCHANGED <<pubVars, handler>>
         /\ \/ UNCHANGED runs
            \/ \E r \in Runners : /\ runs[r].step = "idle"
                                  /\ runs' = [runs EXCEPT ![r] = RunAt("begin", {}, {})]
                                  /\ r = Bus \/ r \in Leavers
BY DEF Observing, ObserveAttached, DeleteTrack, ReleaseFails, RemoveSender, TrackIsDone, Runners

(* A run goes from its start to its removal or its attachments, and to idle. *)
LEMMA Runs ==
  ASSUME AskInv, NEW r \in Runners, Running(r)
  PROVE  /\ UNCHANGED <<pubVars, handler>> /\ runs[r].step # "wait"
         /\ \E run \in Run :
              /\ run.step # "wait" /\ runs' = [runs EXCEPT ![r] = run]
              /\ run.todo \subseteq runs[r].todo \cup Visible
              /\ run.step = "remove" => run.seen = Visible
              /\ run.step = "idle" => runs[r].step = "attach" /\ runs[r].todo = {}
<1>1. runs[r] \in Run /\ Visible \subseteq Tracks /\ {} \in SUBSET Tracks
  BY DEF AskInv, AskTyped, Visible
<1>2. runs[r].todo \in SUBSET Tracks  BY <1>1 DEF Run
<1>3. CASE PeerPublishingSenders(r)
  <2> DEFINE unattached == {k \in Visible : tracks[k] = 0}
             run == IF r \in Syncs THEN RunAt("attach", {}, unattached)
                                   ELSE RunAt("remove", Visible, unattached)
  <2>1. /\ UNCHANGED <<pubVars, handler>> /\ runs' = [runs EXCEPT ![r] = run]
        /\ runs[r].step \in {"begin", "idle"}
    BY <1>3 DEF PeerPublishingSenders, Begins
  <2>2. unattached \in SUBSET Tracks /\ Visible \in SUBSET Tracks  BY <1>1
  <2>3. /\ run \in Run /\ run.step \in {"attach", "remove"} /\ run.todo = unattached
        /\ run.step = "remove" => run.seen = Visible
    BY <1>1, <2>2, RunFields DEF RunSteps
  <2> HIDE DEF run
  <2> QED BY <2>1, <2>3
<1>4. CASE RemoveUnpublishSenders(r)
  <2> DEFINE run == RunAt("attach", {}, runs[r].todo)
  <2>1. /\ UNCHANGED <<pubVars, handler>> /\ runs' = [runs EXCEPT ![r] = run]
        /\ runs[r].step = "remove"
    BY <1>4 DEF RemoveUnpublishSenders
  <2>2. run \in Run /\ run.step = "attach" /\ run.todo = runs[r].todo
    BY <1>1, <1>2, RunFields DEF RunSteps
  <2> HIDE DEF run
  <2> QED BY <2>1, <2>2
<1>5. CASE DispatchOffer(r) \/ Synchronized(r)
  <2>1. /\ UNCHANGED <<pubVars, handler>> /\ runs' = [runs EXCEPT ![r] = IdleRun]
        /\ runs[r].step = "attach" /\ runs[r].todo = {}
    BY <1>5 DEF DispatchOffer, Synchronized
  <2>2. IdleRun \in Run /\ IdleRun.step = "idle" /\ IdleRun.todo = {}
    BY <1>1, RunFields DEF IdleRun, RunSteps
  <2> QED BY <2>1, <2>2
<1> QED BY <1>3, <1>4, <1>5 DEF Running

LEMMA AsksStep == ASSUME AskInv, [Next]_vars PROVE AskInv'
<1>1. CASE UNCHANGED vars
  BY <1>1 DEF vars, pubVars, AskInv, AskTyped, Served, InHand
<1>2. CASE Observing
  <2>1. UNCHANGED <<pubVars, handler>>  BY <1>2, Observers
  <2>2. CASE UNCHANGED runs
    BY <2>1, <2>2, NobodyAsks DEF AskInv, AskTyped, pubVars
  <2>3. CASE ~ UNCHANGED runs
    <3>1. PICK r \in Runners : /\ runs[r].step = "idle"
                               /\ runs' = [runs EXCEPT ![r] = RunAt("begin", {}, {})]
      BY <1>2, <2>3, Observers
    <3> QED BY <2>1, <3>1, Starts, RunGoesOn
  <2> QED BY <2>2, <2>3
<1>3. ASSUME NEW r \in Runners, Running(r) PROVE AskInv'
  <2>1. PICK run \in Run : run.step # "wait" /\ runs' = [runs EXCEPT ![r] = run]
    BY <1>3, Runs
  <2>2. UNCHANGED <<pubVars, handler>> /\ runs[r].step # "wait"  BY <1>3, Runs
  <2> QED BY <2>1, <2>2, RunGoesOn
<1>4. CASE Close \/ DispatchElsewhere
  BY <1>4 DEF Close, DispatchElsewhere, pubVars, AskInv, AskTyped, Served, InHand
<1> QED BY <1>1, <1>2, <1>3, <1>4, PublishingAsks, TakingAsks, HandlingAsks DEF Next

-----------------------------------------------------------------------------
(* How many transceivers are lost *)

(* The stubs are never in the pool or in use. *)
NoStub ==
  /\ Stubs <= made /\ (handler.step = "set" \/ handler.xcvr = 0)
  /\ handler.xcvr \notin 1..Stubs
  /\ \A k \in Tracks : tracks[k] \notin 1..Stubs
  /\ \A m \in 0..MaxXcvrs : free[m] \notin 1..Stubs

Made == Stubs + 1 .. made

(* Transceivers without a mid whose attachment has been observed. *)
Loose == {x \in Made \ withMid : x # handler.xcvr /\ \A a \in attached : a.xcvr # x}

(* ObserveSubscriber is on its way to an offer. *)
Busy == IF runs[Bus].step = "idle" THEN 0 ELSE 1

(* An observed attachment is followed by an offer before the next one is:    *)
(* at most one transceiver is loose, if no sanitizer gives up.              *)
LossInv ==
  /\ faults \in Nat
  /\ ~ closed => /\ Cardinality(Lost) <= 2 * faults
                 /\ Cardinality(Lost \cup Loose) <= 2 * faults + Busy

KeepInv == WatchInv /\ PoolInv /\ AskInv

LEMMA MadeIsFinite ==
  ASSUME WatchInv
  PROVE  /\ IsFiniteSet(Lost) /\ IsFiniteSet(Lost \cup Loose)
         /\ Cardinality(Lost) \in Nat /\ Cardinality(Lost \cup Loose) \in Nat
<1>1. IsFiniteSet(Made)
  BY SubscriptionAssumption, FS_Interval DEF WatchInv, Bounded, Made
<1>2. Lost \in SUBSET Made /\ Lost \cup Loose \in SUBSET Made  BY DEF Lost, Loose, Made
<1>3. IsFiniteSet(Lost) /\ IsFiniteSet(Lost \cup Loose)  BY <1>1, <1>2, FS_Subset
<1> QED BY <1>3, FS_CardinalityType

(* Counting: a set grows by one element at most; a part of a set that lacks  *)
(* one of its elements is smaller.                                           *)
LEMMA GrowsByOne ==
  ASSUME NEW S, NEW T, NEW x, IsFiniteSet(S), T \subseteq S \cup {x}
  PROVE  /\ Cardinality(T) <= Cardinality(S) + 1
         /\ T \subseteq S => Cardinality(T) <= Cardinality(S)
<1>1. /\ IsFiniteSet(S \cup {x}) /\ Cardinality(S) \in Nat
      /\ Cardinality(S \cup {x}) <= Cardinality(S) + 1
  <2>1. Cardinality(S) \in Nat  BY FS_CardinalityType
  <2>2. /\ IsFiniteSet(S \cup {x})
        /\ Cardinality(S \cup {x}) = IF x \in S THEN Cardinality(S) ELSE Cardinality(S) + 1
    BY FS_AddElement
  <2> QED BY <2>1, <2>2
<1>2. IsFiniteSet(T) /\ Cardinality(T) <= Cardinality(S \cup {x})
  BY <1>1, FS_Subset
<1>3. Cardinality(T) \in Nat /\ Cardinality(S \cup {x}) \in Nat
  BY <1>1, <1>2, FS_CardinalityType
<1>4. T \subseteq S => Cardinality(T) <= Cardinality(S)  BY FS_Subset
<1> QED BY <1>1, <1>2, <1>3, <1>4

LEMMA LacksOne ==
  ASSUME NEW S, NEW T, NEW x \in S, IsFiniteSet(S), T \subseteq S \ {x}
  PROVE  Cardinality(T) <= Cardinality(S) - 1
<1>1. IsFiniteSet(S \ {x}) /\ Cardinality(S \ {x}) = Cardinality(S) - 1
  BY FS_RemoveElement
<1> QED BY <1>1, FS_Subset

LEMMA InitLoss == Init => NoStub /\ LossInv
<1> SUFFICES ASSUME Init PROVE NoStub /\ LossInv  OBVIOUS
<1>1. handler.xcvr = 0 /\ handler.step = "select"  BY DEF Init, IdleHandler, HandlerAt
<1>2. NoStub  BY <1>1, SubscriptionAssumption DEF Init, NoStub
<1>3. Made = {} /\ Lost = {} /\ Loose = {}
  BY SubscriptionAssumption DEF Init, Made, Lost, Loose
<1>4. runs[Bus] = IdleRun /\ IdleRun.step = "idle"
  BY DEF Init, IdleRun, RunAt, Runners
<1> QED BY <1>2, <1>3, <1>4, FS_EmptySet DEF Init, LossInv, Busy

(* Steps that lose nothing: nothing new is lost or loose, and                *)
(* ObserveSubscriber does not give up.                                       *)
LEMMA NothingLost ==
  ASSUME WatchInv, LossInv, UNCHANGED <<faults, closed>>,
         Lost' \subseteq Lost, Lost' \cup Loose' \subseteq Lost \cup Loose, Busy <= Busy'
  PROVE  LossInv'
<1> SUFFICES ASSUME ~ closed
             PROVE  /\ Cardinality(Lost') <= 2 * faults
                    /\ Cardinality(Lost' \cup Loose') <= 2 * faults + Busy'
  BY DEF LossInv
<1>1. /\ IsFiniteSet(Lost) /\ IsFiniteSet(Lost \cup Loose)
      /\ Cardinality(Lost) \in Nat /\ Cardinality(Lost \cup Loose) \in Nat
  BY MadeIsFinite
<1>2. IsFiniteSet(Lost') /\ Cardinality(Lost') <= Cardinality(Lost)  BY <1>1, FS_Subset
<1>3. IsFiniteSet(Lost' \cup Loose') /\ Cardinality(Lost' \cup Loose') <= Cardinality(Lost \cup Loose)
  BY <1>1, FS_Subset
<1>4. Cardinality(Lost') \in Nat /\ Cardinality(Lost' \cup Loose') \in Nat
  BY <1>2, <1>3, FS_CardinalityType
<1>5. Busy \in {0, 1} /\ Busy' \in {0, 1}  BY DEF Busy
<1> QED BY <1>1, <1>2, <1>3, <1>4, <1>5 DEF LossInv

(* A failure loses the transceiver at hand, and the offer that would follow. *)
LEMMA OneLost ==
  ASSUME WatchInv, LossInv, UNCHANGED closed, faults' = faults + 1, NEW x,
         Lost' \subseteq Lost \cup {x}, Lost' \cup Loose' \subseteq (Lost \cup Loose) \cup {x}
  PROVE  LossInv'
<1> SUFFICES ASSUME ~ closed
             PROVE  /\ Cardinality(Lost') <= 2 * faults'
                    /\ Cardinality(Lost' \cup Loose') <= 2 * faults' + Busy'
  BY DEF LossInv
<1>1. /\ IsFiniteSet(Lost) /\ IsFiniteSet(Lost \cup Loose)
      /\ Cardinality(Lost) \in Nat /\ Cardinality(Lost \cup Loose) \in Nat
  BY MadeIsFinite
<1>2. Cardinality(Lost') <= Cardinality(Lost) + 1  BY <1>1, GrowsByOne
<1>3. Cardinality(Lost' \cup Loose') <= Cardinality(Lost \cup Loose) + 1
  BY <1>1, GrowsByOne
<1>4. IsFiniteSet(Lost') /\ IsFiniteSet(Lost' \cup Loose')
  <2>1. IsFiniteSet(Lost \cup {x}) /\ IsFiniteSet((Lost \cup Loose) \cup {x})
    BY <1>1, FS_AddElement
  <2> QED BY <2>1, FS_Subset
<1>5. Cardinality(Lost') \in Nat /\ Cardinality(Lost' \cup Loose') \in Nat
  BY <1>4, FS_CardinalityType
<1>6. Busy \in {0, 1} /\ Busy' \in {0, 1}  BY DEF Busy
<1> QED BY <1>1, <1>2, <1>3, <1>5, <1>6 DEF LossInv

LEMMA SameXcvrs ==
  ASSUME NoStub, UNCHANGED <<tracks, attached, made, withMid, free>>,
         handler'.xcvr = handler.xcvr, handler.xcvr # 0 => handler'.step = "set"
  PROVE  Lost' = Lost /\ Loose' = Loose /\ NoStub'
<1>1. FreeXcvrs' = FreeXcvrs  BY DEF FreeXcvrs
<1>2. Lost' = Lost  BY <1>1 DEF Lost
<1>3. Loose' = Loose  BY DEF Loose, Made
<1>4. NoStub'  BY DEF NoStub
<1> QED BY <1>2, <1>3, <1>4

LEMMA BusyStays == ASSUME AskInv, InHand, Answer(TRUE) PROVE Busy <= Busy'
<1>1. Bus \in Runners  BY DEF Runners
<1> QED BY <1>1 DEF Answer, Busy

LEMMA PublishingLoses ==
  ASSUME KeepInv, NoStub, LossInv, Publishing \/ Close PROVE NoStub' /\ LossInv'
<1>1. UNCHANGED <<subVars, xcvrVars, handler, runs, faults>> /\ (UNCHANGED closed \/ closed')
  BY DEF Publishing, JoinPool, Publish, TrackDown, EndTrack, Unpublish, Close, endVars
<1>2. Lost' = Lost /\ Loose' = Loose /\ NoStub'
  BY <1>1, SameXcvrs DEF subVars, xcvrVars, NoStub
<1>3. Busy' = Busy /\ Busy \in {0, 1}  BY <1>1 DEF Busy
<1>4. CASE closed'
  <2>1. faults' \in Nat  BY <1>1 DEF LossInv
  <2> QED BY <1>2, <1>4, <2>1 DEF LossInv
<1>5. CASE UNCHANGED closed
  <2>1. Lost' \subseteq Lost /\ Lost' \cup Loose' \subseteq Lost \cup Loose /\ Busy <= Busy'
    BY <1>2, <1>3
  <2> QED BY <1>1, <1>2, <1>5, <2>1, NothingLost DEF KeepInv
<1> QED BY <1>1, <1>2, <1>4, <1>5

LEMMA TakingLoses == ASSUME KeepInv, NoStub, LossInv, Taking PROVE NoStub' /\ LossInv'
<1>1. UNCHANGED <<subVars, xcvrVars, endVars>> /\ HandlerIdle /\ handler'.xcvr = 0
  <2>1. ASSUME NEW k \in Tracks, TakeFromPublisher(k)
        PROVE  UNCHANGED <<subVars, xcvrVars, endVars>> /\ HandlerIdle /\ handler'.xcvr = 0
    BY <2>1 DEF TakeFromPublisher, HandlerAt
  <2>2. ASSUME NEW r \in Runners, NEW k \in Tracks, TakeFromRunner(r, k)
        PROVE  UNCHANGED <<subVars, xcvrVars, endVars>> /\ HandlerIdle /\ handler'.xcvr = 0
    BY <2>2 DEF TakeFromRunner, HandlerAt
  <2> QED BY <2>1, <2>2 DEF Taking
<1>2. handler.xcvr = 0  BY <1>1 DEF HandlerIdle, NoStub
<1>3. Lost' = Lost /\ Loose' = Loose /\ NoStub'
  BY <1>1, <1>2, SameXcvrs DEF subVars, xcvrVars
<1>4. Busy <= Busy'
  <2>1. ASSUME NEW k \in Tracks, TakeFromPublisher(k) PROVE Busy <= Busy'
    BY <2>1 DEF TakeFromPublisher, Busy
  <2>2. ASSUME NEW r \in Runners, NEW k \in Tracks, TakeFromRunner(r, k) PROVE Busy <= Busy'
    <3>1. runs' = [runs EXCEPT ![r] = RunAt("wait", {}, runs[r].todo \ {k})]
      BY <2>2 DEF TakeFromRunner
    <3>2. Bus \in Runners /\ DOMAIN runs = Runners  BY DEF Runners, KeepInv, AskInv, AskTyped
    <3>3. runs'[Bus] = runs[Bus] \/ runs'[Bus].step = "wait"  BY <3>1, <3>2 DEF RunAt
    <3> QED BY <3>3 DEF Busy
  <2> QED BY <2>1, <2>2 DEF Taking
<1> QED BY <1>1, <1>3, <1>4, NothingLost DEF KeepInv, endVars

LEMMA HandlingLoses ==
  ASSUME KeepInv, NoStub, LossInv,
         \/ HandlerExits \/ FindsTrack \/ FindsNoTrack \/ GetPanics \/ AddTransceiverFails
         \/ NewSenderFails \/ SetSenderFails
  PROVE  NoStub' /\ LossInv'
<1>1. UNCHANGED <<tracks, attached, made, withMid, free, closed>>
  BY DEF HandlerExits, FindsTrack, FindsNoTrack, GetPanics, AddTransceiverFails,
         NewSenderFails, SetSenderFails, subVars, xcvrVars, endVars
<1>2. AskInv /\ WatchInv /\ faults \in Nat  BY DEF KeepInv, LossInv
<1>3. CASE HandlerExits \/ FindsTrack \/ FindsNoTrack \/ GetPanics
  <2>1. UNCHANGED faults /\ handler'.xcvr = handler.xcvr /\ Busy <= Busy'
    <3>1. CASE FindsTrack
      <4>1. InHand /\ Answer(TRUE)  BY <1>2, <3>1, Answered DEF FindsTrack, InHand
      <4>2. handler.xcvr = 0  BY <3>1 DEF FindsTrack, NoStub
      <4> QED BY <1>2, <3>1, <4>1, <4>2, BusyStays DEF FindsTrack, endVars, Answer
    <3>2. CASE HandlerExits \/ FindsNoTrack \/ GetPanics
      <4>1. UNCHANGED <<runs, faults>> /\ (UNCHANGED handler \/ handler'.xcvr = 0)
        BY <3>2 DEF HandlerExits, FindsNoTrack, GetPanics, HandlerAt, endVars
      <4>2. UNCHANGED handler \/ handler.xcvr = 0
        BY <3>2 DEF HandlerExits, FindsNoTrack, GetPanics, HandlerIdle, NoStub
      <4> QED BY <4>1, <4>2 DEF Busy
    <3> QED BY <1>3, <3>1, <3>2
  <2>2. handler.xcvr # 0 => handler'.step = "set"
    BY <1>3 DEF HandlerExits, FindsTrack, FindsNoTrack, GetPanics, NoStub, HandlerIdle
  <2>3. Lost' = Lost /\ Loose' = Loose /\ NoStub'  BY <1>1, <2>1, <2>2, SameXcvrs
  <2> QED BY <1>1, <1>2, <2>1, <2>3, NothingLost
<1>4. CASE AddTransceiverFails \/ NewSenderFails \/ SetSenderFails
  <2>1. faults' = faults + 1
    BY <1>4 DEF AddTransceiverFails, NewSenderFails, SetSenderFails, Fault
  <2>2. UNCHANGED handler \/ handler'.xcvr = 0
    BY <1>4 DEF AddTransceiverFails, NewSenderFails, SetSenderFails, Acknowledge,
                IdleHandler, HandlerAt
  <2>3. FreeXcvrs' = FreeXcvrs  BY <1>1 DEF FreeXcvrs
  <2>4. Lost' \subseteq Lost \cup {handler.xcvr}  BY <1>1, <2>3 DEF Lost
  <2>5. Loose' \subseteq Loose \cup {handler.xcvr}  BY <1>1 DEF Loose, Made
  <2>6. NoStub'  BY <1>1, <2>2 DEF NoStub
  <2> QED BY <1>1, <1>2, <2>1, <2>4, <2>5, <2>6, OneLost
<1> QED BY <1>3, <1>4

LEMMA GetLoses ==
  ASSUME KeepInv, NoStub, LossInv, GetTransceiver PROVE NoStub' /\ LossInv'
<1>1. PICK x \in Xcvrs : Get(x) /\ handler' = HandlerAt("set", handler.track, handler.from, x)
  BY DEF GetTransceiver
<1>2. /\ UNCHANGED <<tracks, attached, made, withMid, runs, faults, closed>>
      /\ handler'.step = "set" /\ handler'.xcvr = x /\ handler.xcvr = 0
  BY <1>1 DEF GetTransceiver, HandlerAt, subVars, endVars, NoStub
<1>3. Bounded /\ KeptUnderMid /\ MaxXcvrs \in Nat /\ WatchInv
  BY SubscriptionAssumption DEF KeepInv, WatchInv, PoolInv
<1>4. PICK m \in 0..MaxXcvrs : free[m] = x  BY <1>1 DEF Get, FreeXcvrs
<1>5. x \in 1..made /\ x \notin 1..Stubs /\ Mid(x) \in 0..MaxXcvrs
  BY <1>3, <1>4 DEF Bounded, Xcvrs, Mid, NoStub
<1>6. \A n \in 0..MaxXcvrs : free'[n] = IF n = Mid(x) THEN 0 ELSE free[n]
  BY <1>1, <1>3, <1>5 DEF Get, Bounded
<1>7. free[Mid(x)] \in {0, x}
  BY <1>3, <1>4, <1>5 DEF KeptUnderMid, Mid, Bounded
<1>8. FreeXcvrs \subseteq FreeXcvrs' \cup {x}
  <2> SUFFICES ASSUME NEW y \in FreeXcvrs, y # x PROVE y \in FreeXcvrs'
    OBVIOUS
  <2>1. PICK n \in 0..MaxXcvrs : free[n] = y  BY DEF FreeXcvrs
  <2>2. y # 0  BY DEF FreeXcvrs
  <2>3. n # Mid(x)  BY <1>7, <2>1, <2>2
  <2> QED BY <1>6, <2>1, <2>2, <2>3 DEF FreeXcvrs
<1>9. Lost' \subseteq Lost
  <2>1. 0 \notin Stubs + 1 .. made  BY SubscriptionAssumption
  <2> QED BY <1>2, <1>8, <2>1 DEF Lost
<1>10. Loose' \subseteq Loose
  <2>1. 0 \notin Stubs + 1 .. made  BY SubscriptionAssumption
  <2> QED BY <1>2, <2>1 DEF Loose, Made
<1>11. NoStub'
  <2>1. 0 \notin 1..Stubs  OBVIOUS
  <2> QED BY <1>2, <1>5, <1>6, <2>1 DEF NoStub
<1>12. Busy' = Busy /\ Busy \in {0, 1}  BY <1>2 DEF Busy
<1>13. Lost' \cup Loose' \subseteq Lost \cup Loose /\ Busy <= Busy'  BY <1>9, <1>10, <1>12
<1> QED BY <1>2, <1>3, <1>9, <1>11, <1>13, NothingLost

LEMMA AddLoses ==
  ASSUME KeepInv, NoStub, LossInv, AddTransceiver PROVE NoStub' /\ LossInv'
<1>1. /\ UNCHANGED <<tracks, attached, withMid, free, runs, faults, closed>>
      /\ made' = made + 1 /\ handler'.step = "set" /\ handler'.xcvr = made + 1
      /\ handler.xcvr = 0
  BY DEF AddTransceiver, HandlerAt, subVars, endVars, NoStub
<1>2. made \in Nat /\ Stubs \in Nat /\ Stubs <= made /\ WatchInv
  BY SubscriptionAssumption DEF KeepInv, WatchInv, Bounded, NoStub
<1>3. Stubs + 1 .. made' \subseteq (Stubs + 1 .. made) \cup {made + 1} /\ 0 \notin Stubs + 1 .. made
  BY <1>1, <1>2
<1>4. FreeXcvrs' = FreeXcvrs  BY <1>1 DEF FreeXcvrs
<1>5. Lost' \subseteq Lost  BY <1>1, <1>3, <1>4 DEF Lost
<1>6. Loose' \subseteq Loose  BY <1>1, <1>3 DEF Loose, Made
<1>7. NoStub'  BY <1>1, <1>2 DEF NoStub
<1>8. Busy' = Busy /\ Busy \in {0, 1}  BY <1>1 DEF Busy
<1>9. Lost' \cup Loose' \subseteq Lost \cup Loose /\ Busy <= Busy'  BY <1>5, <1>6, <1>8
<1> QED BY <1>1, <1>2, <1>5, <1>7, <1>9, NothingLost

LEMMA SetLoses ==
  ASSUME KeepInv, NoStub, LossInv, SetSender PROVE NoStub' /\ LossInv'
<1> DEFINE k == handler.track
           x == handler.xcvr
           new == [track |-> k, xcvr |-> x]
<1>1. /\ UNCHANGED <<withMid, made, free, faults, closed>>
      /\ handler.step = "set" /\ Acknowledge(TRUE)
      /\ tracks' = [tracks EXCEPT ![k] = x] /\ attached' = attached \cup {new}
  BY DEF SetSender, endVars
<1>2. WatchInv /\ AskInv /\ HandlerHolds /\ Bounded  BY DEF KeepInv, WatchInv
<1>3. k \in Tracks /\ tracks[k] = 0 /\ x \in 1..made  BY <1>1, <1>2 DEF HandlerHolds
<1>4. InHand /\ Answer(TRUE)  BY <1>1, <1>2, Answered DEF InHand
<1>5. handler'.xcvr = 0 /\ handler'.step = "select"  BY <1>4 DEF Answer
<1>6. new.xcvr = x  OBVIOUS
<1> HIDE DEF k, new
<1>7. \A j \in Tracks : tracks'[j] = IF j = k THEN x ELSE tracks[j]
  BY <1>1, <1>2, <1>3 DEF Bounded
<1>8. FreeXcvrs' = FreeXcvrs  BY <1>1 DEF FreeXcvrs
<1>9. 0 \notin Stubs + 1 .. made  BY SubscriptionAssumption
<1>10. Lost' \subseteq Lost
  <2> SUFFICES ASSUME NEW y \in Lost' PROVE y \in Lost
    OBVIOUS
  <2>1. y \in Stubs + 1 .. made /\ y \notin FreeXcvrs /\ \A j \in Tracks : y # tracks'[j]
    BY <1>1, <1>8 DEF Lost
  <2>2. y # x  BY <1>3, <1>7, <2>1
  <2>3. \A j \in Tracks : y # tracks[j]  BY <1>3, <1>7, <1>9, <2>1
  <2> QED BY <2>1, <2>2, <2>3 DEF Lost
<1>11. Loose' \subseteq Loose
  <2> SUFFICES ASSUME NEW y \in Loose' PROVE y \in Loose
    OBVIOUS
  <2>1. y \in Made \ withMid /\ \A a \in attached' : a.xcvr # y  BY <1>1 DEF Loose, Made
  <2>2. y # x /\ \A a \in attached : a.xcvr # y  BY <1>1, <1>6, <2>1
  <2> QED BY <2>1, <2>2 DEF Loose
<1>12. NoStub'
  <2>1. 0 \notin 1..Stubs  OBVIOUS
  <2> QED BY <1>1, <1>5, <1>7, <2>1 DEF NoStub
<1>13. Busy <= Busy'  BY <1>2, <1>4, BusyStays
<1>14. Lost' \cup Loose' \subseteq Lost \cup Loose  BY <1>10, <1>11
<1> QED BY <1>1, <1>2, <1>10, <1>12, <1>13, <1>14, NothingLost

LEMMA ObserveLoses ==
  ASSUME KeepInv, NoStub, LossInv, NEW a \in attached, ObserveAttached(a)
  PROVE  NoStub' /\ LossInv'
<1>1. /\ UNCHANGED <<tracks, made, withMid, free, handler, faults, closed>>
      /\ attached' = attached \ {a} /\ runs[Bus].step = "idle"
      /\ runs' = [runs EXCEPT ![Bus] = RunAt("begin", {}, {})]
  BY DEF ObserveAttached, xcvrVars, endVars
<1>2. Bus \in Runners /\ DOMAIN runs = Runners /\ WatchInv
  BY DEF Runners, KeepInv, AskInv, AskTyped
<1>3. Busy = 0 /\ Busy' = 1  BY <1>1, <1>2 DEF Busy, RunAt
<1>4. FreeXcvrs' = FreeXcvrs  BY <1>1 DEF FreeXcvrs
<1>5. Lost' = Lost /\ NoStub'  BY <1>1, <1>4 DEF Lost, NoStub
<1>6. Loose' \subseteq Loose \cup {a.xcvr}  BY <1>1 DEF Loose, Made
<1>7. Lost' \cup Loose' \subseteq (Lost \cup Loose) \cup {a.xcvr}  BY <1>5, <1>6
<1>8. IsFiniteSet(Lost \cup Loose) /\ Cardinality(Lost \cup Loose) \in Nat
  BY <1>2, MadeIsFinite
<1>9. Cardinality(Lost' \cup Loose') <= Cardinality(Lost \cup Loose) + 1
  BY <1>7, <1>8, GrowsByOne
<1>10. IsFiniteSet(Lost' \cup Loose')  BY <1>7, <1>8, FS_AddElement, FS_Subset
<1>11. Cardinality(Lost' \cup Loose') \in Nat  BY <1>10, FS_CardinalityType
<1>12. LossInv'  BY <1>1, <1>3, <1>5, <1>8, <1>9, <1>11 DEF LossInv
<1> QED BY <1>5, <1>12

(* One run starts: nobody gives up. *)
LEMMA BusyStarts ==
  ASSUME AskInv, NEW l \in Runners, runs' = [runs EXCEPT ![l] = RunAt("begin", {}, {})]
  PROVE  Busy <= Busy'
<1>1. Bus \in Runners /\ DOMAIN runs = Runners  BY DEF Runners, AskInv, AskTyped
<1>2. runs'[Bus] = runs[Bus] \/ runs'[Bus].step = "begin"  BY <1>1 DEF RunAt
<1> QED BY <1>2 DEF Busy

(* Two transceivers kept under the empty mid, one after the other: the first *)
(* of them is lost, and both were loose.                                     *)
LEMMA DeleteLoses ==
  ASSUME KeepInv, NoStub, LossInv, NEW a \in observers, DeleteTrack(a)
  PROVE  NoStub' /\ LossInv'
<1> DEFINE x == a.xcvr
           y == free[0]
<1>1. WatchInv /\ AskInv /\ PoolInv  BY DEF KeepInv
<1>2. a.track \in Tracks /\ x \in 1..made /\ tracks[a.track] = x  BY <1>1, EntryIsThere
<1>3. /\ tracks' = [tracks EXCEPT ![a.track] = 0] /\ free' = [free EXCEPT ![Mid(x)] = x]
      /\ UNCHANGED <<attached, made, withMid, handler, faults, closed>>
      /\ \E l \in Leavers : runs' = [runs EXCEPT ![l] = RunAt("begin", {}, {})]
  <2>1. tracks[a.track] # 0  BY <1>2
  <2>2. /\ tracks' = [tracks EXCEPT ![a.track] = 0] /\ Release(x)
        /\ UNCHANGED <<attached, made, withMid, handler, faults, closed>>
    BY <2>1 DEF DeleteTrack, endVars
  <2>3. \E l \in Leavers : runs' = [runs EXCEPT ![l] = RunAt("begin", {}, {})]
    BY DEF DeleteTrack, TrackIsDone
  <2> QED BY <2>2, <2>3 DEF Release
<1>4. /\ Bounded /\ OneObserverPerEntry /\ KeptUnderMid /\ Stale /\ HandedOut
      /\ TransceiverOwnedOnce /\ MaxXcvrs \in Nat /\ made \in Nat /\ made <= MaxXcvrs
  BY <1>1, SubscriptionAssumption DEF WatchInv, PoolInv, Bounded
<1> HIDE DEF x, y
<1>5. Mid(x) \in 0..MaxXcvrs  BY <1>2, <1>4 DEF Mid
<1>6. /\ \A n \in 0..MaxXcvrs : free'[n] = IF n = Mid(x) THEN x ELSE free[n]
      /\ \A k \in Tracks : tracks'[k] = IF k = a.track THEN 0 ELSE tracks[k]
  BY <1>2, <1>3, <1>4, <1>5 DEF Bounded
<1>7. x \notin 1..Stubs  BY <1>2 DEF NoStub
<1>8. NoStub'
  <2>1. 0 \notin 1..Stubs  OBVIOUS
  <2> QED BY <1>3, <1>6, <1>7, <2>1 DEF NoStub
<1>9. Loose' = Loose  BY <1>3 DEF Loose, Made
<1>10. Busy <= Busy'
  <2>1. PICK l \in Leavers : runs' = [runs EXCEPT ![l] = RunAt("begin", {}, {})]  BY <1>3
  <2>2. l \in Runners  BY DEF Runners
  <2> QED BY <1>1, <2>1, <2>2, BusyStarts
<1>11. x \in FreeXcvrs'
  <2>1. x # 0  BY <1>2, <1>4
  <2> QED BY <1>5, <1>6, <2>1 DEF FreeXcvrs
<1>12. Lost' \subseteq Lost \cup ({free[Mid(x)]} \ {0, x})
  <2> SUFFICES ASSUME NEW z \in Lost', z \notin Lost
               PROVE  z = free[Mid(x)] /\ z # 0 /\ z # x
    OBVIOUS
  <2>1. /\ z \in Stubs + 1 .. made /\ z \notin FreeXcvrs' /\ z # handler.xcvr
        /\ \A k \in Tracks : z # tracks'[k]
    BY <1>3 DEF Lost
  <2>2. z # x /\ z # 0  BY <1>11, <2>1, SubscriptionAssumption
  <2>3. \A k \in Tracks : z # tracks[k]  BY <1>2, <1>6, <2>1, <2>2
  <2>4. z \in FreeXcvrs  BY <2>1, <2>3 DEF Lost
  <2>5. PICK n \in 0..MaxXcvrs : free[n] = z  BY <2>4 DEF FreeXcvrs
  <2>6. CASE n = Mid(x)  BY <2>2, <2>5, <2>6
  <2>7. CASE n # Mid(x)
    <3>1. free'[n] = z  BY <1>6, <2>5, <2>7
    <3>2. z \in FreeXcvrs'  BY <2>2, <3>1 DEF FreeXcvrs
    <3> QED BY <2>1, <3>2
  <2> QED BY <2>6, <2>7
<1>13. CASE free[Mid(x)] \in {0, x}
  <2>1. Lost' \subseteq Lost  BY <1>12, <1>13
  <2>2. Lost' \cup Loose' \subseteq Lost \cup Loose  BY <1>9, <2>1
  <2> QED BY <1>1, <1>3, <1>8, <1>10, <2>1, <2>2, NothingLost
<1>14. CASE free[Mid(x)] \notin {0, x}
  <2>1. x \notin withMid /\ Mid(x) = 0 /\ y # 0 /\ y # x
    BY <1>2, <1>4, <1>14 DEF KeptUnderMid, Mid, y, Bounded
  <2>2. y \notin withMid /\ y \in 1..made
    BY <1>2, <1>4, <2>1 DEF Stale, Bounded, y
  <2>3. y \in FreeXcvrs /\ y \notin 1..Stubs
    BY <1>4, <2>1 DEF FreeXcvrs, y, NoStub
  <2>4. handler.xcvr # y /\ handler.xcvr # x
    <3>1. handler.step = "set" =>
            handler.xcvr \notin FreeXcvrs /\ \A k \in Tracks : tracks[k] # handler.xcvr
      BY <1>4, <2>2 DEF HandedOut, y
    <3>2. handler.step # "set" => handler.xcvr = 0  BY DEF NoStub
    <3> QED BY <1>2, <1>4, <2>1, <2>3, <3>1, <3>2
  <2>5. /\ \A j, k \in Tracks : j # k /\ tracks[j] # 0 => tracks[j] # tracks[k]
        /\ \A k \in Tracks : tracks[k] # y
    BY <1>4, <2>2, <2>3 DEF TransceiverOwnedOnce, y
  <2>6. \A b \in attached : b.track \in Tracks /\ tracks[b.track] = b.xcvr /\ b.xcvr # 0
    BY <1>4 DEF OneObserverPerEntry, Bounded, Attachment, Xcvrs
  <2>7. \A b \in attached : b.xcvr # y /\ b.xcvr # x
    <3> SUFFICES ASSUME NEW b \in attached PROVE b.xcvr # y /\ b.xcvr # x
      OBVIOUS
    <3>1. b.xcvr # y  BY <2>5, <2>6
    <3>2. ASSUME b.xcvr = x PROVE FALSE
      <4>1. b.track = a.track  BY <1>2, <2>5, <2>6, <3>2
      <4>2. b \in Attachment /\ a \in Attachment  BY <1>4 DEF Bounded
      <4>3. b = a  BY <3>2, <4>1, <4>2 DEF Attachment, x
      <4> QED BY <1>4, <4>3 DEF OneObserverPerEntry
    <3> QED BY <3>1, <3>2
  <2>8. x \in Made /\ y \in Made
    BY <1>2, <1>4, <1>7, <2>2, <2>3, SubscriptionAssumption DEF Made
  <2>9. x \in Loose /\ y \in Loose  BY <2>1, <2>2, <2>4, <2>7, <2>8 DEF Loose
  <2>10. x \notin Lost  BY <1>2 DEF Lost
  <2>11. Lost' \subseteq Lost \cup {y}  BY <1>12, <2>1 DEF y
  <2>12. Lost' \subseteq (Lost \cup Loose) \ {x} /\ Lost' \cup Loose' \subseteq Lost \cup Loose
    BY <1>9, <1>14, <2>1, <2>9, <2>10, <2>11
  <2>13. /\ IsFiniteSet(Lost \cup Loose) /\ Cardinality(Lost \cup Loose) \in Nat
    BY <1>1, MadeIsFinite
  <2>14. Cardinality(Lost') <= Cardinality(Lost \cup Loose) - 1
    BY <2>9, <2>12, <2>13, LacksOne
  <2>15. /\ IsFiniteSet(Lost' \cup Loose')
         /\ Cardinality(Lost' \cup Loose') <= Cardinality(Lost \cup Loose)
    BY <2>12, <2>13, FS_Subset
  <2>16. IsFiniteSet(Lost')  BY <2>12, <2>13, FS_RemoveElement, FS_Subset
  <2>17. Cardinality(Lost') \in Nat /\ Cardinality(Lost' \cup Loose') \in Nat
    BY <2>15, <2>16, FS_CardinalityType
  <2>18. Busy \in {0, 1} /\ Busy' \in {0, 1}  BY DEF Busy
  <2>19. LossInv'
    BY <1>3, <1>10, <2>13, <2>14, <2>15, <2>17, <2>18 DEF LossInv
  <2> QED BY <1>8, <2>19
<1> QED BY <1>13, <1>14

LEMMA ReleaseFailsLoses ==
  ASSUME KeepInv, NoStub, LossInv, NEW a \in observers, ReleaseFails(a)
  PROVE  NoStub' /\ LossInv'
<1>1. WatchInv /\ Bounded  BY DEF KeepInv, WatchInv
<1>2. a.track \in Tracks /\ tracks[a.track] = a.xcvr  BY <1>1, EntryIsThere
<1>3. /\ tracks' = [tracks EXCEPT ![a.track] = 0] /\ faults' = faults + 1
      /\ UNCHANGED <<attached, made, withMid, free, handler, closed>>
  BY DEF ReleaseFails, Fault, xcvrVars
<1>4. \A k \in Tracks : tracks'[k] = IF k = a.track THEN 0 ELSE tracks[k]
  BY <1>1, <1>2, <1>3 DEF Bounded
<1>5. FreeXcvrs' = FreeXcvrs  BY <1>3 DEF FreeXcvrs
<1>6. Lost' \subseteq Lost \cup {a.xcvr}  BY <1>2, <1>3, <1>4, <1>5 DEF Lost
<1>7. Loose' = Loose  BY <1>3 DEF Loose, Made
<1>8. NoStub'
  <2>1. 0 \notin 1..Stubs  OBVIOUS
  <2> QED BY <1>3, <1>4, <2>1 DEF NoStub
<1>9. Lost' \cup Loose' \subseteq (Lost \cup Loose) \cup {a.xcvr}  BY <1>6, <1>7
<1> QED BY <1>1, <1>3, <1>6, <1>8, <1>9, OneLost

(* An offer leaves no transceiver without a mid. *)
LEMMA OfferLoses ==
  ASSUME WatchInv, NoStub, LossInv,
         UNCHANGED <<tracks, attached, made, free, faults, closed, handler>>,
         ~ closed => withMid' = 1..made
  PROVE  NoStub' /\ LossInv'
<1>1. FreeXcvrs' = FreeXcvrs  BY DEF FreeXcvrs
<1>2. Lost' = Lost /\ NoStub'  BY <1>1 DEF Lost, NoStub
<1>3. ~ closed => Loose' = {}
  <2>1. Made \subseteq 1..made  BY SubscriptionAssumption DEF Made, WatchInv, Bounded
  <2> QED BY <2>1 DEF Loose, Made
<1>4. Cardinality(Lost) \in Nat /\ faults \in Nat  BY MadeIsFinite DEF LossInv
<1>5. Busy' \in {0, 1}  BY DEF Busy
<1>6. ~ closed => Lost' \cup Loose' = Lost  BY <1>2, <1>3
<1>7. ~ closed' => Cardinality(Lost') = Cardinality(Lost)
                   /\ Cardinality(Lost' \cup Loose') = Cardinality(Lost)
  BY <1>2, <1>6
<1>8. ~ closed' => Cardinality(Lost) <= 2 * faults  BY DEF LossInv
<1>9. faults' = faults  OBVIOUS
<1>10. ~ closed' => /\ Cardinality(Lost') <= 2 * faults'
                    /\ Cardinality(Lost' \cup Loose') <= 2 * faults' + Busy'
  BY <1>4, <1>5, <1>7, <1>8, <1>9
<1>11. LossInv'  BY <1>4, <1>9, <1>10 DEF LossInv
<1> QED BY <1>2, <1>11

LEMMA RunningLoses ==
  ASSUME KeepInv, NoStub, LossInv, NEW r \in Runners, Running(r)
  PROVE  NoStub' /\ LossInv'
<1>1. WatchInv /\ AskInv /\ AskTyped  BY DEF KeepInv, AskInv
<1>2. UNCHANGED handler  BY <1>1, Runs
<1>3. CASE PeerPublishingSenders(r) \/ RemoveUnpublishSenders(r) \/ Synchronized(r)
  <2>1. UNCHANGED <<tracks, attached, made, withMid, free, faults, closed>>
    BY <1>3 DEF PeerPublishingSenders, RemoveUnpublishSenders, Synchronized,
                subVars, xcvrVars, endVars
  <2>2. Lost' = Lost /\ Loose' = Loose /\ NoStub'
    BY <1>2, <2>1, SameXcvrs DEF NoStub
  <2>3. Busy <= Busy'
    <3>1. Bus \in Runners /\ DOMAIN runs = Runners  BY <1>1 DEF Runners, AskTyped
    <3>2. CASE PeerPublishingSenders(r)
      <4>1. runs'[Bus] = runs[Bus] \/ runs'[Bus].step \in {"attach", "remove"}
        BY <3>1, <3>2 DEF PeerPublishingSenders, RunAt
      <4> QED BY <4>1 DEF Busy
    <3>3. CASE RemoveUnpublishSenders(r)
      <4>1. runs'[Bus] = runs[Bus] \/ runs'[Bus].step = "attach"
        BY <3>1, <3>3 DEF RemoveUnpublishSenders, RunAt
      <4> QED BY <4>1 DEF Busy
    <3>4. CASE Synchronized(r)
      <4>1. r # Bus  BY <3>4, SubscriptionAssumption DEF Synchronized
      <4>2. runs'[Bus] = runs[Bus]  BY <3>1, <3>4, <4>1 DEF Synchronized
      <4> QED BY <4>2 DEF Busy
    <3> QED BY <1>3, <3>2, <3>3, <3>4
  <2>4. Lost' \cup Loose' \subseteq Lost \cup Loose  BY <2>2
  <2> QED BY <1>1, <2>1, <2>2, <2>3, <2>4, NothingLost
<1>4. CASE DispatchOffer(r)
  <2>1. /\ UNCHANGED <<tracks, attached, made, free, faults, closed>>
        /\ ~ closed => withMid' = 1..made
    BY <1>4 DEF DispatchOffer, subVars, endVars
  <2> QED BY <1>1, <1>2, <2>1, OfferLoses
<1> QED BY <1>3, <1>4 DEF Running

LEMMA LossStep ==
  ASSUME KeepInv, NoStub, LossInv, [Next]_vars PROVE NoStub' /\ LossInv'
<1>1. WatchInv /\ AskInv  BY DEF KeepInv
<1>2. CASE UNCHANGED vars
  <2>1. UNCHANGED <<tracks, attached, made, withMid, free, handler, faults, closed, runs>>
    BY <1>2 DEF vars, subVars, xcvrVars, endVars
  <2>2. Lost' = Lost /\ Loose' = Loose /\ NoStub'  BY <2>1, SameXcvrs DEF NoStub
  <2>3. Busy' = Busy /\ Busy \in {0, 1}  BY <2>1 DEF Busy
  <2>4. Lost' \cup Loose' \subseteq Lost \cup Loose /\ Busy <= Busy'  BY <2>2, <2>3
  <2> QED BY <1>1, <2>1, <2>2, <2>4, NothingLost
<1>3. CASE Handling
  BY <1>3, HandlingLoses, GetLoses, AddLoses, SetLoses DEF Handling
<1>4. CASE RemoveSender
  <2>1. UNCHANGED <<tracks, attached, made, withMid, free, handler, faults, closed, runs>>
    BY <1>4 DEF RemoveSender, endVars
  <2>2. Lost' = Lost /\ Loose' = Loose /\ NoStub'  BY <2>1, SameXcvrs DEF NoStub
  <2>3. Busy' = Busy /\ Busy \in {0, 1}  BY <2>1 DEF Busy
  <2>4. Lost' \cup Loose' \subseteq Lost \cup Loose /\ Busy <= Busy'  BY <2>2, <2>3
  <2> QED BY <1>1, <2>1, <2>2, <2>4, NothingLost
<1>5. CASE Observing
  BY <1>4, <1>5, ObserveLoses, DeleteLoses, ReleaseFailsLoses DEF Observing
<1>6. CASE DispatchElsewhere
  <2>1. UNCHANGED <<tracks, attached, made, free, faults, closed, handler>> /\ withMid' = 1..made
    BY <1>6 DEF DispatchElsewhere, subVars, endVars
  <2> QED BY <1>1, <2>1, OfferLoses
<1> QED BY <1>2, <1>3, <1>5, <1>6, PublishingLoses, TakingLoses, RunningLoses DEF Next

-----------------------------------------------------------------------------
(* Who takes a sender *)

(* A DeleteTrack that has still to remove its sender has dropped the entry,  *)
(* and nobody can make a new one: the handler looks for it under tracksMu.   *)
DeletesAlone ==
  deleting # NoAttachment =>
    /\ tracks[deleting.track] = 0
    /\ handler.step \in {"get", "set"} => handler.track # deleting.track

SendInv == DeletesAlone /\ sender \in [Xcvrs -> Tracks \cup {None, Stub}]

LEMMA MinIsIn == ASSUME NEW S \in SUBSET Nat, S # {} PROVE Min(S) \in S
<1> DEFINE R == {p \in Nat \X Nat : p[1] < p[2]}
<1>1. IsWellFoundedOn(R, Nat)  BY NatLessThanWellFounded DEF OpToRel
<1>2. PICK x \in S : \A y \in S : ~ (<<y, x>> \in R)  BY <1>1, WFMin
<1>3. \A y \in S : x \in Nat /\ y \in Nat /\ ~ (y < x)  BY <1>2
<1>4. \A y \in S : x <= y  BY <1>3
<1> QED BY <1>4 DEF Min

LEMMA InitSends == Init => SendInv
<1> SUFFICES ASSUME Init PROVE SendInv  OBVIOUS
<1>1. DeletesAlone  BY DEF Init, DeletesAlone
<1>2. sender \in [Xcvrs -> Tracks \cup {None, Stub}]  BY DEF Init
<1> QED BY <1>1, <1>2 DEF SendInv

(* RemoveTrack takes one sender, and gives none. *)
LEMMA TakesOne ==
  ASSUME SendInv, NEW x, RemoveTrack(x)
  PROVE  /\ sender' \in [Xcvrs -> Tracks \cup {None, Stub}]
         /\ \A y \in Xcvrs : y # x => sender'[y] = sender[y]
BY DEF RemoveTrack, SendInv

(* The sanitizer takes the sender of a track it has not seen. *)
LEMMA TakesUnseen ==
  ASSUME WatchInv, SendInv, NEW r \in Runners, RemoveUnpublishSenders(r)
  PROVE  \/ UNCHANGED sender
         \/ \E x \in Xcvrs : RemoveTrack(x) /\ sender[x] \notin runs[r].seen
<1> DEFINE unpublished == {x \in Senders : sender[x] \notin runs[r].seen}
<1>1. Senders \subseteq Xcvrs /\ Xcvrs \subseteq Nat
  BY SubscriptionAssumption DEF Senders, WatchInv, Bounded, Xcvrs
<1>2. CASE unpublished = {}  BY <1>2 DEF RemoveUnpublishSenders
<1>3. CASE unpublished # {}
  <2>1. Min(unpublished) \in unpublished  BY <1>1, <1>3, MinIsIn
  <2>2. RemoveTrack(Min(unpublished))  BY <1>3 DEF RemoveUnpublishSenders
  <2> QED BY <1>1, <2>1, <2>2
<1> QED BY <1>2, <1>3

LEMMA SendsStep == ASSUME WatchInv, SendInv, [Next]_vars PROVE SendInv'
<1> USE DEF SendInv
<1>0. Bounded /\ HandlerHolds  BY DEF WatchInv
<1>1. CASE UNCHANGED <<sender, tracks, deleting, handler>>  BY <1>1 DEF DeletesAlone
<1>2. CASE \/ UNCHANGED vars \/ Publishing \/ Close \/ DispatchElsewhere
           \/ \E a \in attached : ObserveAttached(a)
           \/ \E r \in Runners : PeerPublishingSenders(r) \/ DispatchOffer(r) \/ Synchronized(r)
  BY <1>1, <1>2 DEF vars, Publishing, JoinPool, Publish, TrackDown, EndTrack, Unpublish, Close,
                    DispatchElsewhere, ObserveAttached, PeerPublishingSenders, DispatchOffer,
                    Synchronized, subVars, xcvrVars
<1>3. CASE \/ Taking \/ HandlerExits \/ FindsTrack \/ GetTransceiver \/ GetPanics
           \/ AddTransceiverFails \/ NewSenderFails \/ SetSenderFails
  <2>1. UNCHANGED <<sender, tracks, deleting>>
    <3>1. ASSUME Taking PROVE UNCHANGED <<subVars, xcvrVars>>
      BY <3>1 DEF Taking, TakeFromPublisher, TakeFromRunner
    <3>2. ASSUME GetTransceiver PROVE UNCHANGED <<subVars, sender>>
      BY <3>2 DEF GetTransceiver
    <3>3. ASSUME HandlerExits \/ FindsTrack \/ GetPanics \/ AddTransceiverFails
                   \/ NewSenderFails \/ SetSenderFails
          PROVE  UNCHANGED <<subVars, xcvrVars>>
      BY <3>3 DEF HandlerExits, FindsTrack, GetPanics, AddTransceiverFails, NewSenderFails,
                  SetSenderFails
    <3> QED BY <1>3, <3>1, <3>2, <3>3 DEF subVars, xcvrVars
  <2>2. handler'.step \in {"get", "set"} =>
          handler.step \in {"get", "set"} /\ handler'.track = handler.track
    <3>1. ASSUME Taking PROVE handler'.step = "has"
      BY <3>1, TakenIsHeld
    <3>2. ASSUME HandlerExits PROVE handler'.step = "gone"  BY <3>2 DEF HandlerExits, HandlerAt
    <3>3. ASSUME FindsTrack \/ AddTransceiverFails \/ NewSenderFails PROVE handler'.step = "select"
      BY <3>3 DEF FindsTrack, AddTransceiverFails, NewSenderFails, Acknowledge, IdleHandler, HandlerAt
    <3>4. ASSUME GetPanics \/ SetSenderFails PROVE UNCHANGED handler
      BY <3>4 DEF GetPanics, SetSenderFails
    <3>5. ASSUME GetTransceiver PROVE handler.step = "get" /\ handler'.track = handler.track
      BY <3>5 DEF GetTransceiver, HandlerAt
    <3> QED BY <1>3, <3>1, <3>2, <3>3, <3>4, <3>5
  <2> QED BY <2>1, <2>2 DEF DeletesAlone
<1>4. CASE FindsNoTrack
  BY <1>4 DEF FindsNoTrack, DeletesAlone, subVars, xcvrVars
<1>5. CASE AddTransceiver
  <2>1. /\ UNCHANGED <<tracks, deleting>> /\ handler.step = "get"
        /\ handler'.track = handler.track
        /\ sender' = [sender EXCEPT ![made + 1] = Stub]
    BY <1>5 DEF AddTransceiver, subVars, HandlerAt
  <2>2. sender' \in [Xcvrs -> Tracks \cup {None, Stub}]  BY <2>1
  <2>3. DeletesAlone'  BY <2>1 DEF DeletesAlone
  <2> QED BY <2>2, <2>3
<1>6. CASE SetSender
  <2>1. /\ handler.step = "set" /\ UNCHANGED deleting /\ handler' = IdleHandler
        /\ tracks' = [tracks EXCEPT ![handler.track] = handler.xcvr]
        /\ sender' = [sender EXCEPT ![handler.xcvr] = handler.track]
    BY <1>6 DEF SetSender, Acknowledge
  <2>2. handler'.step = "select"  BY <2>1 DEF IdleHandler, HandlerAt
  <2>3. handler.track \in Tracks  BY <1>0, <2>1 DEF HandlerHolds
  <2>4. deleting # NoAttachment => tracks'[deleting.track] = 0
    BY <1>0, <2>1 DEF DeletesAlone, Bounded
  <2> QED BY <2>1, <2>2, <2>3, <2>4 DEF DeletesAlone
<1>7. ASSUME NEW a \in observers, DeleteTrack(a) \/ ReleaseFails(a) PROVE SendInv'
  <2>1. a.track \in Tracks /\ tracks[a.track] # 0
    <3>1. a.track \in Tracks /\ a.xcvr \in 1..made /\ tracks[a.track] = a.xcvr  BY EntryIsThere
    <3> QED BY <3>1, <1>0 DEF Bounded
  <2>2. /\ tracks' = [tracks EXCEPT ![a.track] = 0] /\ deleting'.track = a.track
        /\ UNCHANGED <<sender, handler>>
    BY <1>7, <2>1 DEF DeleteTrack, ReleaseFails, xcvrVars
  <2>3. tracks'[a.track] = 0  BY <1>0, <2>1, <2>2 DEF Bounded
  <2>4. handler.step \in {"get", "set"} => handler.track # a.track
    BY <1>0, <2>1 DEF HandlerHolds
  <2> QED BY <2>2, <2>3, <2>4 DEF DeletesAlone
<1>8. CASE RemoveSender
  <2>1. deleting' = NoAttachment  BY <1>8 DEF RemoveSender
  <2>2. sender' \in [Xcvrs -> Tracks \cup {None, Stub}]
    BY <1>8, TakesOne DEF RemoveSender
  <2> QED BY <2>1, <2>2 DEF DeletesAlone
<1>9. ASSUME NEW r \in Runners, RemoveUnpublishSenders(r) PROVE SendInv'
  <2>1. UNCHANGED <<tracks, deleting, handler>>  BY <1>9 DEF RemoveUnpublishSenders, subVars
  <2>2. sender' \in [Xcvrs -> Tracks \cup {None, Stub}]
    BY <1>9, TakesUnseen, TakesOne
  <2> QED BY <2>1, <2>2 DEF DeletesAlone
<1> QED BY <1>2, <1>3, <1>4, <1>5, <1>6, <1>7, <1>8, <1>9 DEF Next, Handling, Observing, Running

(* The step of PublishedKeepsSender. *)
LEMMA KeptStep ==
  ASSUME KeepInv, SendInv, [Next]_vars, free[0] \notin withMid, NEW k \in Tracks,
         tracks[k] # 0, tracks'[k] = tracks[k], sender[tracks[k]] = k, sender'[tracks[k]] # k
  PROVE  \E r \in Runners : /\ runs[r].step = "remove" /\ k \notin runs[r].seen
                           /\ runs'[r].step # "remove"
<1> DEFINE x == tracks[k]
<1>0. WatchInv /\ PoolInv /\ runs \in [Runners -> Run]  BY DEF KeepInv, AskInv, AskTyped
<1>1. x \in 1..made /\ x \in Xcvrs /\ sender \in [Xcvrs -> Tracks \cup {None, Stub}]
  BY <1>0, SubscriptionAssumption DEF WatchInv, Bounded, Xcvrs, SendInv
<1>2. sender[x] = k /\ sender'[x] # k  OBVIOUS
<1>3. ~ UNCHANGED sender  BY <1>2
<1>4. ~ AddTransceiver
  <2> SUFFICES ASSUME AddTransceiver PROVE FALSE  OBVIOUS
  <2>1. sender' = [sender EXCEPT ![made + 1] = Stub] /\ x # made + 1
    BY <1>0, <1>1 DEF AddTransceiver, WatchInv, Bounded
  <2> QED BY <1>1, <1>2, <2>1
<1>5. ~ SetSender
  <2> SUFFICES ASSUME SetSender PROVE FALSE  OBVIOUS
  <2>1. sender' = [sender EXCEPT ![handler.xcvr] = handler.track] /\ handler.step = "set"
    BY DEF SetSender
  <2>2. x # handler.xcvr  BY <1>0, <2>1 DEF PoolInv, HandedOut
  <2> QED BY <1>1, <1>2, <2>1, <2>2
<1>6. ~ RemoveSender
  <2> SUFFICES ASSUME RemoveSender PROVE FALSE  OBVIOUS
  <2>1. deleting # NoAttachment /\ tracks[deleting.track] = 0
    BY DEF RemoveSender, SendInv, DeletesAlone
  <2>2. sender[deleting.xcvr] = deleting.track /\ RemoveTrack(deleting.xcvr)
    BY <1>3 DEF RemoveSender
  <2>3. deleting.xcvr = x  BY <1>1, <1>2, <2>2, TakesOne
  <2>4. deleting.track = k  BY <1>2, <2>2, <2>3
  <2> QED BY <2>1, <2>4
<1>7. PICK r \in Runners : RemoveUnpublishSenders(r)
  BY <1>3, <1>4, <1>5, <1>6
     DEF Next, vars, Publishing, JoinPool, Publish, TrackDown, EndTrack, Unpublish, Taking,
         TakeFromPublisher, TakeFromRunner, Close, DispatchElsewhere, Handling, HandlerExits,
         FindsTrack, FindsNoTrack, GetTransceiver, GetPanics, AddTransceiverFails, NewSenderFails,
         SetSenderFails, Observing, ObserveAttached, DeleteTrack, ReleaseFails, Running,
         PeerPublishingSenders, DispatchOffer, Synchronized, xcvrVars
<1>8. PICK y \in Xcvrs : RemoveTrack(y) /\ sender[y] \notin runs[r].seen
  BY <1>0, <1>3, <1>7, TakesUnseen
<1>9. x = y  BY <1>1, <1>2, <1>8, TakesOne
<1>10. runs[r].step = "remove" /\ runs'[r].step # "remove"
  <2>1. /\ runs[r].step = "remove"
        /\ runs' = [runs EXCEPT ![r] = RunAt("attach", {}, runs[r].todo)]
    BY <1>7 DEF RemoveUnpublishSenders
  <2>2. RunAt("attach", {}, runs[r].todo).step = "attach"  BY DEF RunAt
  <2>3. runs'[r] = RunAt("attach", {}, runs[r].todo)  BY <1>0, <2>1
  <2> QED BY <2>1, <2>2, <2>3
<1> QED BY <1>2, <1>8, <1>9, <1>10

-----------------------------------------------------------------------------
PeerInv == KeepInv /\ NoStub /\ LossInv /\ SendInv

LEMMA InitPeer == Init => PeerInv
BY InitWatch, InitPool, InitAsk, InitLoss, InitSends DEF PeerInv, KeepInv

LEMMA PeerStep == PeerInv /\ [Next]_vars => PeerInv'
<1> SUFFICES ASSUME PeerInv, [Next]_vars PROVE PeerInv'  OBVIOUS
<1>1. KeepInv /\ NoStub /\ LossInv /\ SendInv /\ WatchInv  BY DEF PeerInv, KeepInv
<1>2. KeepInv'  BY <1>1, StepKeeps, AsksStep DEF KeepInv
<1>3. NoStub' /\ LossInv'  BY <1>1, LossStep
<1>4. SendInv'  BY <1>1, SendsStep
<1> QED BY <1>2, <1>3, <1>4 DEF PeerInv

LEMMA AlwaysKept == Spec => []PeerInv
BY InitPeer, PeerStep, PTL DEF Spec

(* HandleTrackAttach answers whoever asked: every goroutine that waits for   *)
(* an ack is the one whose track it has in hand, so no two ever wait at      *)
(* once, and when nobody waits it is back at its select or gone.             *)
THEOREM AnswersReachWhoAsks == Spec => []Served
<1>1. PeerInv => Served  BY DEF PeerInv, KeepInv, AskInv
<1> QED BY <1>1, AlwaysKept, PTL

(* A failure of pion costs at most two transceivers, however many            *)
(* sanitizers, publishers and observers run: every other one made for a      *)
(* track carries one, waits in the pool or is in hand.                       *)
THEOREM TransceiversAreNotLost == Spec => []TransceiversAreReused
<1>1. PeerInv => TransceiversAreReused  BY DEF PeerInv, LossInv, TransceiversAreReused
<1> QED BY <1>1, AlwaysKept, PTL

(* Unless the pool keeps a transceiver under a mid it no longer has, only a  *)
(* sanitizer takes the sender of an attached track, and only of one that was *)
(* not published when it looked: neither an attachment it has not seen nor   *)
(* the end, the attachment or the loss of another track is enough.           *)
THEOREM SendersAreKept == Spec => PublishedKeepsSender
<1>1. PeerInv /\ [Next]_vars =>
        [free[0] \notin withMid =>
           \A k \in Tracks : LET x == tracks[k] IN
             x # 0 /\ tracks'[k] = x /\ sender[x] = k /\ sender'[x] # k =>
               \E r \in Runners : /\ runs[r].step = "remove" /\ k \notin runs[r].seen
                                 /\ runs'[r].step # "remove"]_vars
  BY KeptStep DEF PeerInv, KeepInv
<1> QED BY <1>1, AlwaysKept, PTL DEF Spec, PublishedKeepsSender
=============================================================================
