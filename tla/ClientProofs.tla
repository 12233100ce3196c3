---------------------------- MODULE ClientProofs ----------------------------
(***************************************************************************)
(* Theorems about Client, for any users and every bound.                    *)
(***************************************************************************)
EXTENDS Client, TLAPS

MediaTyped ==
  /\ prompt \in [Kinds -> {"asked", "ok", "denied"}]
  /\ faces \in Nat \ {0} /\ queued \in 0..faces
  /\ mediaStream \in 0..faces /\ nextStream \in 0..faces
  /\ worker \in 0..faces /\ held \in 0..faces /\ running \subseteq 2..faces /\ displayed \subseteq 1..faces
  /\ muted \subseteq Kinds

(* Before the prompts are answered nothing has been shown. *)
AskedFirst ==
  Asked(prompt) => nextStream = 0 /\ mediaStream = 0 /\ held = 0 /\ displayed = {}

QueuedWaits ==
  queued # 0 => Asked(prompt) /\ queued \in running

(* A face detection that is about to be shown has its worker in the state,   *)
(* one that is shown has it in the clean-up's closure.                      *)
NextHasWorker ==
  nextStream > 1 => /\ worker = nextStream /\ nextStream \in running
                    /\ nextStream \notin displayed /\ nextStream # held

ShownHasWorker ==
  mediaStream > 1 => held = mediaStream /\ mediaStream \in running

WorkersEnd == running \cap displayed \subseteq {mediaStream}

WorkerInv == MediaTyped /\ AskedFirst /\ QueuedWaits /\ NextHasWorker /\ ShownHasWorker /\ WorkersEnd

-----------------------------------------------------------------------------
(* What a step of Client is for the camera. *)
LEMMA MediaSteps ==
  ASSUME [Next]_vars
  PROVE  \/ MountMedia \/ UnmountMedia \/ ReloadMedia \/ EnterPage \/ Connect
         \/ \E k \in Kinds, answer \in {"ok", "denied"} : AnswerPrompt(k, answer, Authenticated)
         \/ StartNormal \/ StartFace \/ \E k \in Kinds : Toggle(k)
         \/ Commit(OnRoomPage)
         \/ UNCHANGED mediaVars
BY DEF Next, Signing, FollowSession, Controlling, StartFaceDetection, vars

LEMMA InitWorkers == Init => WorkerInv
<1> SUFFICES ASSUME Init PROVE WorkerInv  OBVIOUS
<1>1. MediaTyped  BY DEF Init, MediaInit, MediaTyped, Kinds
<1>2. AskedFirst /\ QueuedWaits  BY DEF Init, MediaInit, AskedFirst, QueuedWaits
<1>3. NextHasWorker /\ ShownHasWorker /\ WorkersEnd
  BY DEF Init, MediaInit, NextHasWorker, ShownHasWorker, WorkersEnd
<1> QED BY <1>1, <1>2, <1>3 DEF WorkerInv

(* Steps that show nothing, start nothing and end nothing. *)
LEMMA WorkersRest ==
  ASSUME WorkerInv, UNCHANGED <<prompt, streamVars>>, muted' \subseteq Kinds
  PROVE  WorkerInv'
BY DEF WorkerInv, MediaTyped, AskedFirst, QueuedWaits, NextHasWorker, ShownHasWorker, WorkersEnd,
       streamVars, Asked

(* Asking for the default stream. *)
LEMMA WorkersNormal ==
  ASSUME WorkerInv, nextStream' \in {0, Default}, Asked(prompt) => nextStream' = 0,
         UNCHANGED <<prompt, faces, queued, mediaStream, worker, held, running, displayed>>,
         muted' \subseteq Kinds
  PROVE  WorkerInv'
<1>1. MediaTyped'  BY DEF WorkerInv, MediaTyped, Default
<1>2. AskedFirst' /\ QueuedWaits'  BY DEF WorkerInv, AskedFirst, QueuedWaits, Asked
<1>3. NextHasWorker'  BY DEF NextHasWorker, Default
<1>4. ShownHasWorker' /\ WorkersEnd'  BY DEF WorkerInv, ShownHasWorker, WorkersEnd
<1> QED BY <1>1, <1>2, <1>3, <1>4 DEF WorkerInv

LEMMA WorkersFace == ASSUME WorkerInv, StartFace PROVE WorkerInv'
<1> DEFINE n == faces + 1
<1>1. /\ faces' = n /\ running' = running \cup {n}
      /\ queued' = IF Asked(prompt) THEN n ELSE queued
      /\ \/ ~ Asked(prompt) /\ nextStream' = n /\ worker' = n
         \/ UNCHANGED <<nextStream, worker>>
      /\ UNCHANGED <<prompt, mediaStream, held, displayed, muted>>
  BY DEF StartFace
<1>2. /\ faces \in Nat \ {0} /\ queued \in 0..faces /\ mediaStream \in 0..faces
      /\ nextStream \in 0..faces /\ worker \in 0..faces /\ held \in 0..faces
      /\ running \subseteq 2..faces /\ displayed \subseteq 1..faces
  BY DEF WorkerInv, MediaTyped
<1>3. n \in 2..n /\ n \notin displayed /\ n # held /\ n # mediaStream /\ n \in Nat \ {0}
  BY <1>2
<1>4. 0..faces \subseteq 0..n /\ 2..faces \subseteq 2..n /\ 1..faces \subseteq 1..n /\ n \in 0..n
  BY <1>2
<1> HIDE DEF n
<1>5. MediaTyped'
  BY <1>1, <1>2, <1>3, <1>4 DEF WorkerInv, MediaTyped
<1>6. AskedFirst' /\ QueuedWaits'
  BY <1>1, <1>2 DEF WorkerInv, AskedFirst, QueuedWaits, Asked
<1>7. NextHasWorker'
  BY <1>1, <1>3 DEF WorkerInv, NextHasWorker
<1>8. ShownHasWorker' /\ WorkersEnd'
  BY <1>1, <1>3 DEF WorkerInv, ShownHasWorker, WorkersEnd
<1> QED BY <1>5, <1>6, <1>7, <1>8 DEF WorkerInv

LEMMA WorkersAnswer ==
  ASSUME WorkerInv, NEW k \in Kinds, NEW answer \in {"ok", "denied"}, NEW m \in BOOLEAN,
         AnswerPrompt(k, answer, m)
  PROVE  WorkerInv'
<1> DEFINE last == IF prompt'["video"] = "ok" THEN queued ELSE 0
<1>1. /\ prompt[k] = "asked" /\ prompt' = [prompt EXCEPT ![k] = answer]
      /\ UNCHANGED <<faces, mediaStream, held, running, displayed, muted>>
      /\ IF Asked(prompt') THEN UNCHANGED <<queued, nextStream, worker>>
         ELSE /\ queued' = 0
              /\ nextStream' \in {0, Default, last}
              /\ nextStream' \in {0, Default} \/ (last # 0 /\ worker' = last)
              /\ worker' \in {worker, last}
  BY DEF AnswerPrompt
<1>2. nextStream = 0 /\ mediaStream = 0 /\ held = 0 /\ displayed = {}
  BY <1>1 DEF WorkerInv, AskedFirst, Asked
<1>3. prompt' \in [Kinds -> {"asked", "ok", "denied"}]
  BY <1>1 DEF WorkerInv, MediaTyped
<1>4. last # 0 => last \in running /\ last = queued
  BY DEF WorkerInv, QueuedWaits
<1>5. /\ faces \in Nat \ {0} /\ queued \in 0..faces /\ last \in 0..faces
      /\ 0 \in 0..faces /\ Default \in 0..faces /\ worker \in 0..faces
  BY DEF WorkerInv, MediaTyped, Default
<1> HIDE DEF last
<1>6. MediaTyped'
  <2>1. queued' \in 0..faces /\ nextStream' \in 0..faces /\ worker' \in 0..faces
    BY <1>1, <1>2, <1>5
  <2> QED BY <1>1, <1>3, <2>1 DEF WorkerInv, MediaTyped
<1>7. AskedFirst'
  BY <1>1, <1>2 DEF AskedFirst, Asked
<1>8. QueuedWaits'
  BY <1>1 DEF WorkerInv, QueuedWaits
<1>9. NextHasWorker'
  BY <1>1, <1>2, <1>4 DEF NextHasWorker, Default
<1>10. ShownHasWorker' /\ WorkersEnd'
  BY <1>1 DEF WorkerInv, ShownHasWorker, WorkersEnd
<1> QED BY <1>6, <1>7, <1>8, <1>9, <1>10 DEF WorkerInv

(* The clean-up of a stream that was shown ends its worker; that of the next *)
(* one is in the state, and goes into the closure.                          *)
LEMMA WorkersCommit == ASSUME WorkerInv, NEW r, Commit(r) PROVE WorkerInv'
<1>1. /\ nextStream # 0 /\ mediaStream' = nextStream /\ nextStream' = 0
      /\ displayed' = displayed \cup {nextStream}
      /\ running' = running \ {held} /\ held' = worker
      /\ UNCHANGED <<prompt, faces, queued, muted>>
  BY DEF Commit
<1>2. /\ faces \in Nat \ {0} /\ nextStream \in 0..faces /\ mediaStream \in 0..faces
      /\ worker \in 0..faces /\ running \subseteq 2..faces /\ displayed \subseteq 1..faces
  BY DEF WorkerInv, MediaTyped
<1>3. MediaTyped'
  <2>1. worker' \in 0..faces  BY <1>2 DEF Commit
  <2>2. displayed' \subseteq 1..faces  BY <1>1, <1>2
  <2> QED BY <1>1, <1>2, <2>1, <2>2 DEF WorkerInv, MediaTyped
<1>4. ~ Asked(prompt)
  BY <1>1 DEF WorkerInv, AskedFirst
<1>5. AskedFirst' /\ QueuedWaits'
  BY <1>1, <1>4 DEF WorkerInv, QueuedWaits, AskedFirst, Asked
<1>6. NextHasWorker'
  BY <1>1 DEF NextHasWorker
<1>7. ShownHasWorker'
  BY <1>1 DEF WorkerInv, NextHasWorker, ShownHasWorker
<1>8. WorkersEnd'
  <2>1. mediaStream \notin running \ {held}
    <3>1. CASE mediaStream > 1  BY <3>1 DEF WorkerInv, ShownHasWorker
    <3>2. CASE ~ (mediaStream > 1)  BY <3>2, <1>2
    <3> QED BY <3>1, <3>2
  <2> QED BY <1>1, <2>1 DEF WorkerInv, WorkersEnd
<1> QED BY <1>3, <1>5, <1>6, <1>7, <1>8 DEF WorkerInv

(* The clean-up of an unmounted layout ends the worker of the stream shown. *)
LEMMA WorkersUnmount == ASSUME WorkerInv, UnmountMedia PROVE WorkerInv'
<1>1. /\ running' = running \ {held} /\ UNCHANGED <<prompt, faces, displayed, muted>>
      /\ queued' = 0 /\ mediaStream' = 0 /\ nextStream' = 0 /\ worker' = 0 /\ held' = 0
  BY DEF UnmountMedia
<1>2. /\ faces \in Nat \ {0} /\ mediaStream \in 0..faces
      /\ running \subseteq 2..faces /\ 0 \in 0..faces
  BY DEF WorkerInv, MediaTyped
<1>3. MediaTyped'  BY <1>1, <1>2 DEF WorkerInv, MediaTyped
<1>4. AskedFirst'  BY <1>1 DEF WorkerInv, AskedFirst, Asked
<1>5. QueuedWaits' /\ NextHasWorker' /\ ShownHasWorker'
  BY <1>1 DEF QueuedWaits, NextHasWorker, ShownHasWorker
<1>6. WorkersEnd'
  <2>1. mediaStream \notin running \ {held}
    <3>1. CASE mediaStream > 1  BY <3>1 DEF WorkerInv, ShownHasWorker
    <3>2. CASE ~ (mediaStream > 1)  BY <3>2, <1>2
    <3> QED BY <3>1, <3>2
  <2> QED BY <1>1, <2>1 DEF WorkerInv, WorkersEnd
<1> QED BY <1>3, <1>4, <1>5, <1>6 DEF WorkerInv

LEMMA WorkersReload == ASSUME WorkerInv, ReloadMedia PROVE WorkerInv'
<1>1. /\ prompt' = [t \in Kinds |-> "asked"] /\ faces' = faces /\ muted' = Kinds
      /\ queued' = 0 /\ mediaStream' = 0 /\ nextStream' = 0
      /\ worker' = 0 /\ held' = 0 /\ running' = {} /\ displayed' = {}
  BY DEF ReloadMedia
<1>2. faces \in Nat \ {0} /\ 0 \in 0..faces
  BY DEF WorkerInv, MediaTyped
<1>3. MediaTyped'  BY <1>1, <1>2 DEF MediaTyped
<1>4. AskedFirst' /\ QueuedWaits'  BY <1>1 DEF AskedFirst, QueuedWaits
<1>5. NextHasWorker' /\ ShownHasWorker' /\ WorkersEnd'
  BY <1>1 DEF NextHasWorker, ShownHasWorker, WorkersEnd
<1> QED BY <1>3, <1>4, <1>5 DEF WorkerInv

LEMMA WorkersStep == ASSUME WorkerInv, [Next]_vars PROVE WorkerInv'
<1> USE DEF streamVars
<1>0. muted \subseteq Kinds  BY DEF WorkerInv, MediaTyped
<1>1. CASE MountMedia
  <2>1. /\ muted' = Kinds /\ UNCHANGED <<prompt, faces, queued, mediaStream, worker, held, running, displayed>>
        /\ \/ UNCHANGED nextStream
           \/ ~ Asked(prompt) /\ nextStream' \in {0, Default}
    BY <1>1 DEF MountMedia, ShowDefault, Ready
  <2> QED BY <2>1, WorkersRest, WorkersNormal
<1>2. CASE StartNormal
  <2>1. /\ ~ Asked(prompt) /\ nextStream' \in {0, Default}
        /\ UNCHANGED <<prompt, faces, queued, mediaStream, worker, held, running, displayed, muted>>
    BY <1>2 DEF StartNormal, ShowDefault, Ready
  <2> QED BY <1>0, <2>1, WorkersNormal
<1>3. CASE EnterPage \/ Connect \/ UNCHANGED mediaVars
  BY <1>0, <1>3, WorkersRest DEF EnterPage, Connect, mediaVars
<1>4. ASSUME NEW k \in Kinds, Toggle(k) PROVE WorkerInv'
  <2>1. muted' \subseteq Kinds  BY <1>0, <1>4 DEF Toggle, Flipped
  <2> QED BY <1>4, <2>1, WorkersRest DEF Toggle
<1>5. ASSUME NEW k \in Kinds, NEW answer \in {"ok", "denied"}, AnswerPrompt(k, answer, Authenticated)
      PROVE WorkerInv'
  BY <1>5, WorkersAnswer, Authenticated \in BOOLEAN DEF Authenticated
<1> QED BY <1>1, <1>2, <1>3, <1>4, <1>5, MediaSteps,
           WorkersFace, WorkersCommit, WorkersUnmount, WorkersReload

(* While a face is looked for on the screen its worker runs, and no worker   *)
(* outlives the stream it made, for any number of streams, whatever order    *)
(* buttons, prompts, renders and clean-ups with their old closures come in. *)
THEOREM ShownFaceHasItsWorker == Spec => []WorkerIsShown
<1>1. WorkerInv => WorkerIsShown
  <2> SUFFICES ASSUME WorkerInv PROVE WorkerIsShown  OBVIOUS
  <2>1. ASSUME OnScreen \in Faces PROVE OnScreen \in running
    <3>1. mediaStream > 1
      BY <2>1, MediaAssumption DEF OnScreen, Faces
    <3> QED BY <3>1 DEF WorkerInv, ShownHasWorker, OnScreen
  <2> QED BY <2>1 DEF WorkerIsShown, WorkerInv, WorkersEnd, OnScreen
<1>2. WorkerInv /\ [Next]_vars => WorkerInv'  BY WorkersStep
<1> QED BY InitWorkers, <1>1, <1>2, PTL DEF Spec
-----------------------------------------------------------------------------
(* Only tracks that there are can be enabled. *)
TracksExist ==
  \A s \in Nat, k \in Kinds : <<s, k>> \in enabled => s # 0 /\ prompt[k] = "ok"

(* The effects of ControlsProvider have run for the page's stream. *)
MutesApplied == \A k \in muted : <<mediaStream, k>> \notin enabled

(* The effect of sinkMediaStream has run on a room's page. *)
SinkIsCurrent == OnRoomPage => sent \in {0, mediaStream}

Unmounted == ~ Authenticated => mediaStream = 0 /\ nextStream = 0 /\ sent = 0

SilenceInv ==
  /\ prompt \in [Kinds -> {"asked", "ok", "denied"}] /\ muted \subseteq Kinds
  /\ mediaStream \in Nat /\ nextStream \in Nat
  /\ TracksExist /\ MutesApplied /\ SinkIsCurrent /\ Unmounted

LEMMA TrackIs ==
  ASSUME NEW s, NEW k \in Kinds
  PROVE  Tracks(s) \cap {<<s, k>>} = IF s # 0 /\ prompt[k] = "ok" THEN {<<s, k>>} ELSE {}
BY DEF Tracks

(* What a mute changes, track by track. *)
LEMMA SetMuteIs ==
  ASSUME NEW on, NEW s, NEW k \in Kinds, NEW m, NEW s2, NEW k2
  PROVE  <<s2, k2>> \in SetMute(on, s, k, k \in m)
           <=> IF s2 = s /\ k2 = k /\ s # 0 /\ prompt[k] = "ok" THEN k \notin m ELSE <<s2, k2>> \in on
<1>1. CASE s # 0 /\ prompt[k] = "ok"
  <2>1. Tracks(s) \cap {<<s, k>>} = {<<s, k>>}  BY <1>1, TrackIs
  <2>2. SetMute(on, s, k, k \in m) = IF k \in m THEN on \ {<<s, k>>} ELSE on \cup {<<s, k>>}
    BY <2>1 DEF SetMute
  <2> QED BY <1>1, <2>2
<1>2. CASE ~ (s # 0 /\ prompt[k] = "ok")
  <2>1. Tracks(s) \cap {<<s, k>>} = {}  BY <1>2, TrackIs
  <2>2. SetMute(on, s, k, k \in m) = on
    BY <2>1 DEF SetMute
  <2> QED BY <1>2, <2>2
<1> QED BY <1>1, <1>2

LEMMA AppliedIs ==
  ASSUME NEW s, NEW m, NEW s2, NEW k \in Kinds
  PROVE  <<s2, k>> \in Applied(s, m)
           <=> IF s2 = s /\ s # 0 /\ prompt[k] = "ok" THEN k \notin m ELSE <<s2, k>> \in enabled
<1> DEFINE on == SetMute(enabled, s, "video", "video" \in m)
<1>1. "video" \in Kinds /\ "audio" \in Kinds /\ k \in {"video", "audio"}  BY DEF Kinds
<1>2. <<s2, k>> \in on
        <=> IF s2 = s /\ k = "video" /\ s # 0 /\ prompt["video"] = "ok"
            THEN "video" \notin m ELSE <<s2, k>> \in enabled
  BY <1>1, SetMuteIs
<1>3. <<s2, k>> \in SetMute(on, s, "audio", "audio" \in m)
        <=> IF s2 = s /\ k = "audio" /\ s # 0 /\ prompt["audio"] = "ok"
            THEN "audio" \notin m ELSE <<s2, k>> \in on
  <2> HIDE DEF on
  <2> QED BY <1>1, SetMuteIs
<1>4. Applied(s, m) = SetMute(on, s, "audio", "audio" \in m)  BY DEF Applied
<1> HIDE DEF on
<1>5. CASE k = "video"  BY <1>2, <1>3, <1>4, <1>5
<1>6. CASE k = "audio"  BY <1>2, <1>3, <1>4, <1>6
<1> QED BY <1>1, <1>5, <1>6

(* Both effects leave only tracks that there are. *)
LEMMA AppliedExist ==
  ASSUME TracksExist, NEW s, NEW m, NEW s2 \in Nat, NEW k \in Kinds, <<s2, k>> \in Applied(s, m)
  PROVE  s2 # 0 /\ prompt[k] = "ok"
BY AppliedIs DEF TracksExist

LEMMA InitSilence == Init => SilenceInv
BY DEF Init, SessionInit, MediaInit, SilenceInv, TracksExist, MutesApplied, SinkIsCurrent, Unmounted,
       Authenticated, OnRoomPage, Kinds

-----------------------------------------------------------------------------
(* Pages are of the router. *)
PathInv == path \in Paths

LEMMA SilenceMount ==
  ASSUME SilenceInv, ~ Authenticated, Authenticated', MountMedia  PROVE SilenceInv'
<1>1. /\ muted' = Kinds /\ UNCHANGED <<prompt, mediaStream, sent>>
      /\ \/ UNCHANGED <<enabled, nextStream>>
         \/ enabled' = Applied(Default, Kinds) /\ nextStream' \in {0, Default}
  BY DEF MountMedia, ShowDefault
<1>2. mediaStream = 0 /\ sent = 0  BY DEF SilenceInv, Unmounted
<1>3. TracksExist'
  <2> SUFFICES ASSUME NEW s \in Nat, NEW k \in Kinds, <<s, k>> \in enabled'
               PROVE  s # 0 /\ prompt[k] = "ok"
    BY <1>1 DEF TracksExist
  <2> QED BY <1>1, AppliedExist DEF SilenceInv, TracksExist
<1>4. MutesApplied'
  BY <1>1, <1>2, <1>3 DEF MutesApplied, TracksExist
<1>5. SinkIsCurrent' /\ Unmounted'  BY <1>1, <1>2 DEF SinkIsCurrent, Unmounted
<1>6. nextStream' \in Nat  BY <1>1 DEF SilenceInv, Default
<1> QED BY <1>1, <1>3, <1>4, <1>5, <1>6 DEF SilenceInv

(* Asking for the default stream mutes it. *)
LEMMA SilenceNormal ==
  ASSUME SilenceInv, Authenticated, StartNormal, UNCHANGED sessionVars  PROVE SilenceInv'
<1>1. /\ UNCHANGED <<prompt, mediaStream, muted, sent, tokenPair, path>>
      /\ enabled' = Applied(Default, Kinds) /\ nextStream' \in {0, Default}
  BY DEF StartNormal, ShowDefault, sessionVars
<1>2. TracksExist'
  BY <1>1, AppliedExist DEF SilenceInv, TracksExist
<1>3. MutesApplied'
  BY <1>1, AppliedIs DEF SilenceInv, MutesApplied
<1>4. SinkIsCurrent' /\ Unmounted'
  BY <1>1 DEF SilenceInv, SinkIsCurrent, Unmounted, OnRoomPage, Authenticated
<1>5. nextStream' \in Nat  BY <1>1 DEF Default
<1> QED BY <1>1, <1>2, <1>3, <1>4, <1>5 DEF SilenceInv

LEMMA SilenceCommit ==
  ASSUME SilenceInv, Commit(OnRoomPage), UNCHANGED sessionVars  PROVE SilenceInv'
<1>1. /\ nextStream # 0 /\ mediaStream' = nextStream /\ nextStream' = 0
      /\ enabled' = Applied(nextStream, muted) /\ UNCHANGED <<prompt, muted, tokenPair, path>>
      /\ OnRoomPage => sent' \in {0, nextStream}
  BY DEF Commit, Sunk, sessionVars
<1>2. TracksExist'
  BY <1>1, AppliedExist DEF SilenceInv, TracksExist
<1>3. MutesApplied'
  BY <1>1, AppliedIs DEF SilenceInv, MutesApplied, TracksExist
<1>4. Authenticated  BY <1>1 DEF SilenceInv, Unmounted
<1>5. SinkIsCurrent' /\ Unmounted'
  BY <1>1, <1>4 DEF SinkIsCurrent, Unmounted, OnRoomPage, Authenticated
<1> QED BY <1>1, <1>2, <1>3, <1>5 DEF SilenceInv

LEMMA SilenceToggle ==
  ASSUME SilenceInv, Authenticated, NEW k \in Kinds, Toggle(k), UNCHANGED sessionVars  PROVE SilenceInv'
<1>1. /\ muted' = Flipped(k) /\ UNCHANGED <<prompt, mediaStream, nextStream, sent, tokenPair, path>>
      /\ enabled' = SetMute(enabled, mediaStream, k, k \in Flipped(k))
  BY DEF Toggle, streamVars, sessionVars
<1>2. \A s, t : <<s, t>> \in enabled'
        <=> IF s = mediaStream /\ t = k /\ mediaStream # 0 /\ prompt[k] = "ok"
            THEN k \notin Flipped(k) ELSE <<s, t>> \in enabled
  BY <1>1, SetMuteIs
<1>3. Flipped(k) \subseteq Kinds /\ Flipped(k) \ {k} \subseteq muted
  BY DEF Flipped, SilenceInv
<1>4. TracksExist'
  BY <1>1, <1>2 DEF SilenceInv, TracksExist
<1>5. MutesApplied'
  BY <1>1, <1>2, <1>3 DEF SilenceInv, MutesApplied, TracksExist
<1>6. SinkIsCurrent' /\ Unmounted'
  BY <1>1 DEF SilenceInv, SinkIsCurrent, Unmounted, OnRoomPage, Authenticated
<1> QED BY <1>1, <1>3, <1>4, <1>5, <1>6 DEF SilenceInv

LEMMA SilenceAnswer ==
  ASSUME SilenceInv, NEW k \in Kinds, NEW answer \in {"ok", "denied"},
         AnswerPrompt(k, answer, Authenticated), UNCHANGED sessionVars, queued \in Nat
  PROVE  SilenceInv'
<1> DEFINE new == {<<Default, t>> : t \in {kind \in Kinds : prompt'[kind] = "ok"}}
<1>1. /\ prompt[k] = "asked" /\ prompt' = [prompt EXCEPT ![k] = answer]
      /\ UNCHANGED <<mediaStream, muted, sent, tokenPair, path>>
      /\ enabled' \in {enabled, enabled \cup new}
      /\ Authenticated => enabled' = enabled
  BY DEF AnswerPrompt, sessionVars
<1>2. nextStream' \in Nat /\ (~ Authenticated => nextStream' = 0)
  <2>1. nextStream' \in {nextStream, 0, Default, queued} /\ (~ Authenticated => nextStream' \in {nextStream, 0})
    BY DEF AnswerPrompt
  <2> QED BY <2>1 DEF SilenceInv, Unmounted, Default
<1>3. /\ prompt' \in [Kinds -> {"asked", "ok", "denied"}]
      /\ \A t \in Kinds : prompt[t] = "ok" => prompt'[t] = "ok"
  BY <1>1 DEF SilenceInv
<1>4. \A s, t : <<s, t>> \in new => s # 0 /\ prompt'[t] = "ok"
  BY DEF Default
<1> HIDE DEF new
<1>5. TracksExist'
  BY <1>1, <1>3, <1>4 DEF SilenceInv, TracksExist
<1>6. MutesApplied'
  <2>1. CASE Authenticated  BY <1>1, <2>1 DEF SilenceInv, MutesApplied
  <2>2. CASE ~ Authenticated
    <3>1. mediaStream' = 0 /\ muted' \subseteq Kinds  BY <1>1, <2>2 DEF SilenceInv, Unmounted
    <3> QED BY <1>5, <3>1 DEF MutesApplied, TracksExist
  <2> QED BY <2>1, <2>2
<1>7. SinkIsCurrent' /\ Unmounted'
  BY <1>1, <1>2 DEF SilenceInv, SinkIsCurrent, Unmounted, OnRoomPage, Authenticated
<1> QED BY <1>1, <1>2, <1>3, <1>5, <1>6, <1>7 DEF SilenceInv

(* Steps that end the page's streams, or its layout. *)
LEMMA SilenceEnd ==
  ASSUME SilenceInv, ReloadMedia \/ UnmountMedia  PROVE SilenceInv'
<1>1. /\ mediaStream' = 0 /\ nextStream' = 0 /\ sent' = 0
      /\ \/ prompt' = [t \in Kinds |-> "asked"] /\ enabled' = {} /\ muted' = Kinds
         \/ UNCHANGED <<prompt, enabled, muted>>
  BY DEF ReloadMedia, UnmountMedia
<1>2. TracksExist' /\ muted' \subseteq Kinds
  BY <1>1 DEF SilenceInv, TracksExist
<1>3. MutesApplied'
  BY <1>1, <1>2 DEF MutesApplied, TracksExist
<1>4. SinkIsCurrent' /\ Unmounted'  BY <1>1 DEF SinkIsCurrent, Unmounted
<1>5. prompt' \in [Kinds -> {"asked", "ok", "denied"}]  BY <1>1 DEF SilenceInv
<1> QED BY <1>1, <1>2, <1>3, <1>4, <1>5 DEF SilenceInv

(* Steps that change no stream. *)
LEMMA SilenceRest ==
  ASSUME SilenceInv, UNCHANGED <<prompt, muted, enabled, mediaStream, nextStream>>,
         SinkIsCurrent', Unmounted'
  PROVE  SilenceInv'
BY DEF SilenceInv, TracksExist, MutesApplied

LEMMA SilenceStep ==
  ASSUME SilenceInv, queued \in Nat, faces \in Nat, PathInv, [Next]_vars  PROVE SilenceInv'
<1> USE DEF mediaVars, streamVars
<1>1. CASE Signing /\ FollowSession
  <2>1. UNCHANGED path  BY <1>1 DEF Signing, SignOut, SignInOK, formVars
  <2>2. CASE Authenticated <=> Authenticated'
    <3>1. UNCHANGED mediaVars
      BY <1>1, <2>2 DEF FollowSession, Authenticated
    <3>2. SinkIsCurrent' /\ Unmounted'
      BY <2>1, <2>2, <3>1 DEF SilenceInv, SinkIsCurrent, Unmounted, OnRoomPage
    <3> QED BY <3>1, <3>2, SilenceRest
  <2>3. CASE ~ Authenticated /\ Authenticated'
    BY <1>1, <2>3, SilenceMount DEF FollowSession, Authenticated
  <2>4. CASE Authenticated /\ ~ Authenticated'
    BY <1>1, <2>4, SilenceEnd DEF FollowSession, Authenticated
  <2> QED BY <2>2, <2>3, <2>4
<1>2. CASE Editing /\ UNCHANGED mediaVars
  <2>1. UNCHANGED <<path, tokenPair>>  BY <1>2 DEF Editing, Submit, SignInRefused, Type
  <2>2. SinkIsCurrent' /\ Unmounted'
    BY <1>2, <2>1 DEF SilenceInv, SinkIsCurrent, Unmounted, OnRoomPage, Authenticated
  <2> QED BY <1>2, <2>2, SilenceRest
<1>3. CASE Reload /\ ReloadMedia
  BY <1>3, SilenceEnd
<1>4. CASE Navigate /\ IF Authenticated /\ path = "/" THEN EnterPage ELSE UNCHANGED mediaVars
  <2>1. UNCHANGED tokenPair /\ path' \in Paths \ {path}  BY <1>4 DEF Navigate
  <2>2. CASE Authenticated /\ path = "/"
    <3>1. sent' \in {0, mediaStream} /\ UNCHANGED <<prompt, muted, enabled, mediaStream, nextStream>>
      BY <1>4, <2>2 DEF EnterPage, Sunk
    <3>2. SinkIsCurrent' /\ Unmounted'
      BY <2>1, <2>2, <3>1 DEF SilenceInv, SinkIsCurrent, Unmounted, Authenticated
    <3> QED BY <3>1, <3>2, SilenceRest
  <2>3. CASE ~ (Authenticated /\ path = "/")
    <3>1. UNCHANGED mediaVars  BY <1>4, <2>3
    <3>2. ~ OnRoomPage'
      BY <2>1, <2>3 DEF PathInv, OnRoomPage, Authenticated, Paths
    <3>3. SinkIsCurrent' /\ Unmounted'
      BY <2>1, <3>1, <3>2 DEF SilenceInv, SinkIsCurrent, Unmounted, Authenticated
    <3> QED BY <3>1, <3>3, SilenceRest
  <2> QED BY <2>2, <2>3
<1>5. CASE \E k \in Kinds, answer \in {"ok", "denied"} :
             AnswerPrompt(k, answer, Authenticated) /\ UNCHANGED sessionVars
  BY <1>5, SilenceAnswer
<1>6. CASE Authenticated /\ Controlling /\ UNCHANGED sessionVars
  <2>1. CASE StartFace
    <3>1. /\ UNCHANGED <<prompt, muted, enabled, mediaStream, sent, tokenPair, path>>
          /\ nextStream' \in {nextStream, faces + 1}
      BY <1>6, <2>1 DEF StartFace, sessionVars
    <3>2. SinkIsCurrent' /\ Unmounted'
      BY <1>6, <3>1 DEF SilenceInv, SinkIsCurrent, Unmounted, OnRoomPage, Authenticated
    <3>3. nextStream' \in Nat  BY <3>1 DEF SilenceInv
    <3> QED BY <3>1, <3>2, <3>3 DEF SilenceInv, TracksExist, MutesApplied
  <2>2. CASE StartNormal
    BY <1>6, <2>2, SilenceNormal
  <2>3. CASE \E k \in Kinds : Toggle(k)
    BY <1>6, <2>3, SilenceToggle
  <2> QED BY <1>6, <2>1, <2>2, <2>3 DEF Controlling, StartFaceDetection
<1>7. CASE Commit(OnRoomPage) /\ UNCHANGED sessionVars
  BY <1>7, SilenceCommit
<1>8. CASE OnRoomPage /\ Connect /\ UNCHANGED sessionVars
  <2>1. SinkIsCurrent' /\ Unmounted'
    BY <1>8 DEF Connect, SilenceInv, SinkIsCurrent, Unmounted, OnRoomPage, Authenticated, sessionVars
  <2> QED BY <1>8, <2>1, SilenceRest DEF Connect
<1>9. CASE UNCHANGED vars
  <2>1. SinkIsCurrent' /\ Unmounted'
    BY <1>9 DEF vars, sessionVars, SilenceInv, SinkIsCurrent, Unmounted, OnRoomPage, Authenticated
  <2> QED BY <1>9, <2>1, SilenceRest DEF vars
<1> QED BY <1>1, <1>2, <1>3, <1>4, <1>5, <1>6, <1>7, <1>8, <1>9 DEF Next

LEMMA PathStep == ASSUME PathInv, [Next]_vars PROVE PathInv'
BY DEF PathInv, Next, Signing, SignOut, SignInOK, Editing, Submit, SignInRefused, Type, Reload, Navigate,
       vars, sessionVars, formVars

(* What a button says is muted is not sent, for any number of streams: the   *)
(* effects that mute and sink a stream never leave a track of a muted kind   *)
(* enabled that the room receives.                                          *)
THEOREM MutedTracksAreSilent == Spec => []MutedMeansSilent
<1>1. Init => PathInv  BY DEF Init, SessionInit, PathInv
<1>2. SilenceInv => MutedMeansSilent
  <2> SUFFICES ASSUME SilenceInv, OnRoomPage, NEW k \in muted PROVE <<sent, k>> \notin enabled
    BY DEF MutedMeansSilent
  <2>1. CASE sent = 0  BY <2>1 DEF SilenceInv, TracksExist
  <2>2. CASE sent = mediaStream  BY <2>2 DEF SilenceInv, MutesApplied
  <2> QED BY <2>1, <2>2 DEF SilenceInv, SinkIsCurrent
<1>3. WorkerInv => queued \in Nat /\ faces \in Nat  BY DEF WorkerInv, MediaTyped
<1>4. SilenceInv /\ WorkerInv /\ PathInv /\ [Next]_vars
        => SilenceInv' /\ WorkerInv' /\ PathInv'
  BY <1>3, SilenceStep, WorkersStep, PathStep
<1> QED BY InitSilence, InitWorkers, <1>1, <1>2, <1>4, PTL DEF Spec
=============================================================================
