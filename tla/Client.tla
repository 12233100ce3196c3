------------------------------- MODULE Client -------------------------------
(***************************************************************************)
(* The session and the camera of the browser client together: AuthWall shows *)
(* the layout, with the providers of Media, while Session has a token pair.  *)
(* The path that Session's cookies depend on is the page Media's sink is on. *)
(***************************************************************************)
EXTENDS Session, Media

vars == <<sessionVars, mediaVars>>

Init == SessionInit /\ MediaInit

OnRoomPage == Authenticated /\ path = "/r"

(* What the layout does when a step of the session has changed the tokens. *)
FollowSession ==
  CASE ~Authenticated /\ tokenPair' # None -> MountMedia
    [] Authenticated /\ tokenPair' = None -> UnmountMedia
    [] OTHER -> UNCHANGED mediaVars

Signing == SignOut \/ \E u \in Users : SignInOK(u)

Next ==
  \/ Signing /\ FollowSession
  \/ Editing /\ UNCHANGED mediaVars
  \/ Reload /\ ReloadMedia
  \/ Navigate /\ IF Authenticated /\ path = "/" THEN EnterPage ELSE UNCHANGED mediaVars
  \/ \E k \in Kinds, answer \in {"ok", "denied"} :
       AnswerPrompt(k, answer, Authenticated) /\ UNCHANGED sessionVars
  \/ Authenticated /\ Controlling /\ UNCHANGED sessionVars
  \/ Commit(OnRoomPage) /\ UNCHANGED sessionVars
  \/ OnRoomPage /\ Connect /\ UNCHANGED sessionVars

Spec == Init /\ [][Next]_vars

-----------------------------------------------------------------------------
(* What a button says is muted is not sent: on the page of a room no track   *)
(* of a muted kind that the room receives is enabled, through every change   *)
(* of the stream, reload and sign-in.  On the start page the room goes on    *)
(* receiving a stream that the buttons no longer govern.                    *)
MutedMeansSilent ==
  OnRoomPage => \A k \in muted : <<sent, k>> \notin enabled
=============================================================================
