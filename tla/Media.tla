------------------------------- MODULE Media --------------------------------
(***************************************************************************)
(* The camera and the microphone of the browser client:                     *)
(*   - rtc/MediaStreamProvider.tsx: the default stream, asked for once when   *)
(*     the program is loaded, the streams with face detection, each with a   *)
(*     worker of its own, and which of them is the page's mediaStream;      *)
(*   - rtc/ControlsProvider.tsx and the controls of App.tsx: the two mutes;  *)
(*   - sinkMediaStream of App.tsx: which of them the room receives.         *)
(* Stream 1 is the default one, 2 and more have face detection.             *)
(***************************************************************************)
EXTENDS Naturals

CONSTANTS MaxStreams    \* bound: streams

ASSUME MediaAssumption == MaxStreams \in Nat \ {0}

Kinds == {"audio", "video"}

(* User agents as the expressions of browsersList match them: Chrome names   *)
(* Safari too, which is why the list's order matters.                       *)
Agents == {{"Firefox"}, {"Chrome", "Safari"}, {"Safari"}, {}}
BrowsersList == <<"Firefox", "Chrome", "Safari">>

GetBrowser(agent) ==
  LET found == {i \in DOMAIN BrowsersList : BrowsersList[i] \in agent}
  IN IF found = {} THEN "undefined"
     ELSE BrowsersList[CHOOSE i \in found : \A j \in found : i <= j]
Default == 1
Faces == 2..MaxStreams

VARIABLES
  browser,     \* "Chrome" or "Firefox": the program stops loading in others
  prompt,      \* getUserMedia, per kind: "asked", "ok" or "denied"
  faces,       \* streams made so far, the default one included
  queued,      \* the last face detection that waits for the default stream, or 0
  mediaStream, \* the committed state, 0 if undefined
  nextStream,  \* what setMediaStream has asked for, 0 if nothing
  worker,      \* the state `worker`, 0 if undefined
  held,        \* the worker in the closure of the effect's clean-up
  running,     \* workers that have been started and not terminated
  displayed,   \* streams that have been the page's
  muted,       \* isVideoMuted, isAudioMuted: the kinds that are
  enabled,     \* <<stream, kind>>: tracks that are enabled
  sent         \* the stream the peer connection sends, 0 without a connection

streamVars == <<faces, queued, mediaStream, nextStream, worker, held, running, displayed>>
mediaVars == <<browser, prompt, streamVars, muted, enabled, sent>>

IsChromiumBased == browser = "Chrome"

Tracks(s) == {<<s, k>> : k \in {kind \in Kinds : s # 0 /\ prompt[kind] = "ok"}}

Asked(p) == \E k \in Kinds : p[k] = "asked"
Ready(p) == ~ Asked(p) /\ \E k \in Kinds : p[k] = "ok"

(* The values of a page that has just been loaded, with nobody signed in. *)
MediaInit ==
  /\ browser \in {GetBrowser(a) : a \in Agents} \cap {"Chrome", "Firefox"}
  /\ prompt = [k \in Kinds |-> "asked"]
  /\ faces = 1 /\ queued = 0 /\ mediaStream = 0 /\ nextStream = 0
  /\ worker = 0 /\ held = 0 /\ running = {} /\ displayed = {}
  /\ muted = Kinds /\ enabled = {} /\ sent = 0

(* A reload: the workers end with the page, the prompts are shown again. *)
ReloadMedia ==
  /\ prompt' = [k \in Kinds |-> "asked"]
  /\ queued' = 0 /\ mediaStream' = 0 /\ nextStream' = 0
  /\ worker' = 0 /\ held' = 0 /\ running' = {} /\ displayed' = {}
  /\ muted' = Kinds /\ enabled' = {} /\ sent' = 0
  /\ UNCHANGED <<browser, faces>>

(* setVideoMute and setAudioMute *)
SetMute(on, s, k, mute) ==
  LET t == Tracks(s) \cap {<<s, k>>} IN IF mute THEN on \ t ELSE on \cup t

(* The effects of ControlsProvider on a stream. *)
Applied(s, m) ==
  SetMute(SetMute(enabled, s, "video", "video" \in m), s, "audio", "audio" \in m)

(* sinkMediaStream replaces the tracks of a connection that has senders. *)
Sunk(s) == IF sent # 0 THEN s ELSE 0

-----------------------------------------------------------------------------
(* startNormal, once the default stream is there: both kinds are muted, and  *)
(* it is the page's stream.                                                 *)
ShowDefault ==
  /\ enabled' = Applied(Default, Kinds)
  /\ nextStream' = IF mediaStream = Default THEN 0 ELSE Default

(* The last prompt is answered: every startNormal that waits continues, then *)
(* every face detection; the last one's stream and worker are kept.  With    *)
(* nobody signed in the tracks are as the camera gives them, unless the      *)
(* startNormal of a sign-in that is over still waits and mutes them.        *)
AnswerPrompt(k, answer, mounted) ==
  LET p == [prompt EXCEPT ![k] = answer]
      last == IF p["video"] = "ok" THEN queued ELSE 0
  IN /\ prompt[k] = "asked" /\ prompt' = p
     /\ IF Asked(p) THEN UNCHANGED <<queued, nextStream, worker>>
        ELSE /\ queued' = 0
             /\ nextStream' = CASE ~ mounted \/ ~ Ready(p) -> 0
                                [] mounted /\ Ready(p) -> IF last = 0 THEN Default ELSE last
             /\ worker' = IF mounted /\ last # 0 THEN last ELSE worker
     /\ enabled' \in {enabled} \cup
          IF mounted \/ ~ Ready(p) THEN {}
          ELSE {enabled \cup {<<Default, t>> : t \in {kind \in Kinds : p[kind] = "ok"}}}
     /\ UNCHANGED <<browser, faces, mediaStream, held, running, displayed, muted, sent>>

(* The layout is mounted: its effect calls startNormal. *)
MountMedia ==
  /\ IF Ready(prompt) THEN ShowDefault ELSE UNCHANGED <<enabled, nextStream>>
  /\ muted' = Kinds
  /\ UNCHANGED <<browser, prompt, faces, queued, mediaStream, worker, held,
                 running, displayed, sent>>

(* It is unmounted: the clean-up terminates the worker it holds, the peer     *)
(* connection is closed.                                                    *)
UnmountMedia ==
  /\ running' = running \ {held}
  /\ queued' = 0 /\ mediaStream' = 0 /\ nextStream' = 0 /\ worker' = 0 /\ held' = 0
  /\ sent' = 0
  /\ UNCHANGED <<browser, prompt, faces, displayed, muted, enabled>>

StartNormal ==
  /\ Ready(prompt) /\ ShowDefault
  /\ UNCHANGED <<browser, prompt, faces, queued, mediaStream, worker, held,
                 running, displayed, muted, sent>>

(* startFaceDetection: the worker is made first.  The clones of the default  *)
(* stream's tracks are disabled.  Without a video track it fails.           *)
StartFace ==
  LET n == faces + 1
  IN /\ IsChromiumBased /\ faces < MaxStreams
     /\ faces' = n /\ running' = running \cup {n}
     /\ queued' = IF Asked(prompt) THEN n ELSE queued
     /\ IF ~ Asked(prompt) /\ prompt["video"] = "ok"
        THEN nextStream' = n /\ worker' = n
        ELSE UNCHANGED <<nextStream, worker>>
     /\ UNCHANGED <<browser, prompt, mediaStream, held, displayed, muted, enabled, sent>>

(* It is Chrome's only; in another browser it is startNormal. *)
StartFaceDetection == StartFace \/ (~ IsChromiumBased /\ StartNormal)

-----------------------------------------------------------------------------
(* Mutant: the clean-up terminates the worker of the moment. *)
CommitStopsCurrent(onRoom) ==
  /\ nextStream # 0
  /\ mediaStream' = nextStream /\ nextStream' = 0
  /\ displayed' = displayed \cup {nextStream}
  /\ running' = running \ {worker} /\ held' = worker
  /\ worker' = IF held # 0 THEN 0 ELSE worker
  /\ enabled' = Applied(nextStream, muted)
  /\ sent' = IF onRoom THEN Sunk(nextStream) ELSE sent
  /\ UNCHANGED <<browser, prompt, faces, queued, muted>>

(* Mutant: the sink's effect does not depend on the stream. *)
CommitKeepsSending(onRoom) ==
  /\ nextStream # 0
  /\ mediaStream' = nextStream /\ nextStream' = 0
  /\ displayed' = displayed \cup {nextStream}
  /\ running' = running \ {held} /\ held' = worker
  /\ worker' = IF held # 0 THEN 0 ELSE worker
  /\ enabled' = Applied(nextStream, muted)
  /\ UNCHANGED <<browser, prompt, faces, queued, muted, sent>>

(* React commits the stream.  The clean-up of the last one terminates the    *)
(* worker its render saw and resets the state; sinkMediaStream, whose page   *)
(* is a room's, replaces the tracks that are sent; the mutes are applied.   *)
Commit(onRoom) ==
  /\ nextStream # 0
  /\ mediaStream' = nextStream /\ nextStream' = 0
  /\ displayed' = displayed \cup {nextStream}
  /\ running' = running \ {held} /\ held' = worker
  /\ worker' = IF held # 0 THEN 0 ELSE worker
  /\ enabled' = Applied(nextStream, muted)
  /\ sent' = IF onRoom THEN Sunk(nextStream) ELSE sent
  /\ UNCHANGED <<browser, prompt, faces, queued, muted>>

(* A click on a mute button of any size; the effect of ControlsProvider. *)
Flipped(k) == (muted \cup {k}) \ (muted \cap {k})

Toggle(k) ==
  /\ muted' = Flipped(k)
  /\ enabled' = SetMute(enabled, mediaStream, k, k \in Flipped(k))
  /\ UNCHANGED <<browser, prompt, streamVars, sent>>

(* A join ends, and the new peer connection is given the stream. *)
Connect ==
  /\ mediaStream # 0 /\ sent = 0 /\ sent' = mediaStream
  /\ UNCHANGED <<browser, prompt, streamVars, muted, enabled>>

(* A room's page is mounted: sinkMediaStream. *)
EnterPage ==
  /\ sent' = Sunk(mediaStream)
  /\ UNCHANGED <<browser, prompt, streamVars, muted, enabled>>

(* CameraComponent shows the page's stream, and dots while there is none. *)
OnScreen == mediaStream

Controlling == StartNormal \/ StartFaceDetection \/ \E k \in Kinds : Toggle(k)

(* While a face is looked for on the screen its worker runs, and no worker   *)
(* outlives the stream it made, whatever order buttons, prompts, renders and *)
(* clean-ups with their old closures come in.  A worker whose stream is      *)
(* never shown, because its start failed or was overtaken, is left out:      *)
(* nobody terminates it.                                                    *)
WorkerIsShown ==
  /\ OnScreen \in Faces => OnScreen \in running
  /\ running \cap displayed \subseteq {OnScreen}
=============================================================================
