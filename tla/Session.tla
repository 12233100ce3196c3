------------------------------ MODULE Session -------------------------------
(***************************************************************************)
(* The session of the browser client: rtc/AuthProvider.tsx, which keeps the  *)
(* pair of tokens in memory and in cookies, and the sign-in form of          *)
(* AppLayout.tsx with hooks/useForm.ts.  A pair stands for the user it was   *)
(* given to.  The cookies are set and removed without a path, so the browser *)
(* files them under the directory of the page: "/" on the start page, "/r"   *)
(* on the page of a room; the form and the button of sign-out are on both.   *)
(***************************************************************************)
EXTENDS Naturals

CONSTANTS
  Users,
  MaxSignIns     \* bound: sign-in requests

ASSUME SessionAssumption == MaxSignIns \in Nat

Paths == {"/", "/r"}
None == "none"

VARIABLES
  path,       \* the page, as far as cookies care
  tokenPair,  \* of the AuthContextProvider
  cookies,    \* per path
  form,       \* the user whose name and password are in the form, or "invalid"
  messages,   \* what the form says: nothing, the fields are invalid, refused
  requests,   \* sign-in requests without an answer, per user
  signIns

sessionVars == <<path, tokenPair, cookies, form, messages, requests, signIns>>
formVars == <<form, messages, requests, signIns>>

Authenticated == tokenPair # None

(* A cookie of the page's directory hides the one of the root. *)
Cookie(p) == IF p = "/r" /\ cookies["/r"] # None THEN cookies["/r"] ELSE cookies["/"]

SessionInit ==
  /\ path \in Paths
  /\ cookies \in [Paths -> {None}] /\ tokenPair = None
  /\ form = "invalid" /\ messages = "none"
  /\ requests = [u \in Users |-> 0] /\ signIns = 0

(* A page of the router; the form is mounted on both. *)
Navigate ==
  /\ path' \in Paths \ {path}
  /\ UNCHANGED <<tokenPair, cookies, formVars>>

(* The provider is mounted: its effect reads the cookies of the page. *)
Reload ==
  /\ tokenPair' = Cookie(path)
  /\ form' = "invalid" /\ messages' = "none"
  /\ requests' = [u \in Users |-> 0]
  /\ UNCHANGED <<path, cookies, signIns>>

(* onChange *)
Type(u) ==
  /\ ~Authenticated /\ form # u
  /\ form' = u
  /\ UNCHANGED <<path, tokenPair, cookies, messages, requests, signIns>>

(* signInFormSchema: a name of two characters or more, and a password. *)
Valid == form \in Users

(* validate collects the messages of every field that fails. *)
Validated == messages' = IF Valid THEN "none" ELSE "invalid"

(* onSubmit: signIn is given the state that was validated. *)
Submit ==
  /\ ~Authenticated /\ Validated
  /\ IF Valid
     THEN /\ signIns < MaxSignIns /\ signIns' = signIns + 1
          /\ requests' = [requests EXCEPT ![form] = @ + 1]
     ELSE UNCHANGED <<requests, signIns>>
  /\ UNCHANGED <<path, tokenPair, cookies, form>>

Answered(u) == requests[u] > 0 /\ requests' = [requests EXCEPT ![u] = @ - 1]

SetTokenPair(pair) ==
  /\ tokenPair' = pair
  /\ cookies' = [cookies EXCEPT ![path] = pair]

(* signIn returns: the tokens are kept, and AuthWall unmounts the form. *)
SignInOK(u) ==
  /\ Answered(u)
  /\ SetTokenPair(u)
  /\ form' = "invalid" /\ messages' = "none"
  /\ UNCHANGED <<path, signIns>>

(* It throws; the message of the answer appears if the form still does, and  *)
(* nothing does if the request itself failed.                               *)
SignInRefused(u) ==
  /\ Answered(u)
  /\ messages' \in {messages} \cup IF Authenticated THEN {} ELSE {"refused"}
  /\ UNCHANGED <<path, tokenPair, cookies, form, signIns>>

SignOut ==
  /\ Authenticated
  /\ SetTokenPair(None)
  /\ UNCHANGED <<path, formVars>>

(* Steps that leave the layout as it is. *)
Editing ==
  \/ Submit
  \/ \E u \in Users : SignInRefused(u) \/ Type(u)
  \/ Type("invalid")
=============================================================================
