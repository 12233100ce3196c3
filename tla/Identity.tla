------------------------------ MODULE Identity ------------------------------
(***************************************************************************)
(* Accounts, signing keys and tokens of the media server                    *)
(* (internal/identity/): requests that sign up, sign in and verify or renew  *)
(* a token run side by side; between two SQL statements of one, another may  *)
(* run any of its own.  A statement is one step, and so is a commit: a key   *)
(* inserted in a transaction is nobody's until then.                        *)
(*                                                                          *)
(* A key is the number of its creation, a user its name.  A token is what    *)
(* its claims and its header say, and the sign-in it goes back to; time is   *)
(* left out, so any token may have expired.                                 *)
(***************************************************************************)
EXTENDS Naturals

CONSTANTS
  Names,      \* user names
  Requests,   \* requests, each made at most once
  Nobody,     \* the owner of a key that is not committed
  MaxKeys,    \* bound: keys generated
  MaxFaults   \* bound: failures of the database and of signing

ASSUME IdentityAssumption ==
  /\ Nobody \notin Names
  /\ MaxKeys \in Nat /\ MaxFaults \in Nat

VARIABLES
  password,  \* users: what the password column of a name's row holds
  made,      \* keys generated so far
  owner,     \* user_private_keys: the user a key is attached to
  at,        \* where a request is, or how it was answered
  op,        \* its route
  name,      \* its user
  typed,     \* its password
  token,     \* the token of a renewal
  access,    \* the key of its access token
  key,       \* the key it has generated last
  tokens,    \* the tokens handed out
  faults

rows == <<password, made, owner>>
asked == <<op, name, typed, token>>
vars == <<rows, at, asked, access, key, tokens, faults>>

Keys == 1..MaxKeys
Uses == {"access", "refresh"}
Token == [use : Uses, user : Names, kid : Keys, by : Requests]

Places == {"free", "newuser", "getuser", "wall", "user", "accesskey",
           "newaccess", "commitaccess", "newrefresh", "commitrefresh", "sign"}
Answers == {"ok", "verified", "refused", "null", "aborted"}

TypeOK ==
  /\ password \in [Names -> {"no user", "hash", "empty"}]
  /\ made \in 0..MaxKeys
  /\ owner \in [Keys -> Names \cup {Nobody}]
  /\ at \in [Requests -> Places \cup Answers]
  /\ op \in [Requests -> {"none", "sign-up", "sign-in", "token-verify"}]
  /\ name \in [Requests -> Names \cup {Nobody}]
  /\ typed \in [Requests -> {"right", "wrong", "long"}]
  /\ token \in [Requests -> Token \cup {Nobody}]
  /\ access \in [Requests -> 0..MaxKeys] /\ key \in [Requests -> 0..MaxKeys]
  /\ tokens \in SUBSET Token
  /\ faults \in 0..MaxFaults

(* A new database; the account of the migration is not among Names. *)
Init ==
  /\ password = [u \in Names |-> "no user"]
  /\ made = 0 /\ owner = [k \in Keys |-> Nobody]
  /\ at = [r \in Requests |-> "free"] /\ op = [r \in Requests |-> "none"]
  /\ name = [r \in Requests |-> Nobody] /\ typed = [r \in Requests |-> "wrong"]
  /\ token = [r \in Requests |-> Nobody]
  /\ access = [r \in Requests |-> 0] /\ key = [r \in Requests |-> 0]
  /\ tokens = {} /\ faults = 0

Fault == faults < MaxFaults /\ faults' = faults + 1
Goto(r, from, to) == at[r] = from /\ at' = [at EXCEPT ![r] = to]
Renews(r) == op[r] = "token-verify"
KeysOf(u) == {k \in Keys : owner[k] = u}

-----------------------------------------------------------------------------
(* Requests that come in.  Empty fields and headers without a token are     *)
(* refused before anything happens, and left out.                           *)

Ask(r, route, u, p) ==
  /\ op' = [op EXCEPT ![r] = route] /\ name' = [name EXCEPT ![r] = u]
  /\ typed' = [typed EXCEPT ![r] = p]
  /\ UNCHANGED <<rows, access, key, tokens, faults>>

(* bcrypt refuses a long password, and that error is overwritten.           *)
IdentitySignUp(r) ==
  /\ Goto(r, "free", "newuser")
  /\ \E u \in Names, p \in {"right", "long"} : Ask(r, "sign-up", u, p)
  /\ UNCHANGED token

IdentitySignIn(r) ==
  /\ Goto(r, "free", "getuser")
  /\ \E u \in Names, p \in {"right", "wrong"} : Ask(r, "sign-in", u, p)
  /\ UNCHANGED token

IdentityTokenVerify(r) ==
  /\ Goto(r, "free", "wall")
  /\ \E t \in tokens : /\ Ask(r, "token-verify", t.user, "wrong")
                       /\ token' = [token EXCEPT ![r] = t]

-----------------------------------------------------------------------------
(* SignUp and SignIn *)

NewUser(r) ==
  /\ Goto(r, "newuser", "getuser") /\ password[name[r]] = "no user"
  /\ password' = [password EXCEPT ![name[r]] =
                    IF typed[r] = "long" THEN "empty" ELSE "hash"]
  /\ UNCHANGED <<made, owner, asked, access, key, tokens, faults>>

(* The name is taken. *)
NewUserFails(r) ==
  /\ Goto(r, "newuser", "refused") /\ password[name[r]] # "no user"
  /\ UNCHANGED <<rows, asked, access, key, tokens, faults>>

CompareHashAndPassword(r) == password[name[r]] = "hash" /\ typed[r] = "right"

SignIn(r) ==
  /\ Goto(r, "getuser", "accesskey") /\ CompareHashAndPassword(r)
  /\ UNCHANGED <<rows, asked, access, key, tokens, faults>>

SignInRefused(r) ==
  /\ Goto(r, "getuser", "refused") /\ ~ CompareHashAndPassword(r)
  /\ UNCHANGED <<rows, asked, access, key, tokens, faults>>

-----------------------------------------------------------------------------
(* The identity wall and a renewal *)

TokenIdentity(r) ==
  /\ at[r] = "wall" /\ owner[token[r].kid] # Nobody
  /\ at' = [at EXCEPT ![r] = IF token[r].use = "refresh" THEN "user" ELSE "verified"]
  /\ UNCHANGED <<rows, asked, access, key, tokens, faults>>

TokenRefused(r) ==
  /\ Goto(r, "wall", "refused")
  /\ UNCHANGED <<rows, asked, access, key, tokens, faults>>

ActualizeTokenPair(r) ==
  /\ Goto(r, "user", "accesskey") /\ password[name[r]] # "no user"
  /\ UNCHANGED <<rows, asked, access, key, tokens, faults>>

(* A statement before the keys fails. *)
QueryFails(r) ==
  /\ at[r] \in {"newuser", "getuser", "wall", "user"} /\ Fault
  /\ at' = [at EXCEPT ![r] = "refused"]
  /\ UNCHANGED <<rows, asked, access, key, tokens>>

-----------------------------------------------------------------------------
(* Keys *)

AfterAccessKey(r) == IF Renews(r) THEN "sign" ELSE "newrefresh"

(* Mutant: the key of any user. *)
GetAnyPrivateKey(r) ==
  /\ Goto(r, "accesskey", AfterAccessKey(r))
  /\ \E k \in Keys : owner[k] # Nobody /\ access' = [access EXCEPT ![r] = k]
  /\ UNCHANGED <<rows, asked, key, tokens, faults>>

(* LIMIT 1: any key of the user, those of its refresh tokens included. *)
GetUserPrivateKey(r) ==
  /\ Goto(r, "accesskey", AfterAccessKey(r))
  /\ \E k \in KeysOf(name[r]) : access' = [access EXCEPT ![r] = k]
  /\ UNCHANGED <<rows, asked, key, tokens, faults>>

(* Mutant: a key is made without a look. *)
MakesKeyAnyway(r) ==
  /\ Goto(r, "accesskey", "newaccess")
  /\ UNCHANGED <<rows, asked, access, key, tokens, faults>>

NoPrivateKey(r) ==
  /\ Goto(r, "accesskey", "newaccess") /\ KeysOf(name[r]) = {}
  /\ UNCHANGED <<rows, asked, access, key, tokens, faults>>

(* Every error of the query is taken for a missing key. *)
GetUserPrivateKeyFails(r) ==
  /\ Goto(r, "accesskey", "newaccess") /\ Fault
  /\ UNCHANGED <<rows, asked, access, key, tokens>>

InsertKey(r) ==
  /\ made < MaxKeys /\ made' = made + 1
  /\ key' = [key EXCEPT ![r] = made + 1]
  /\ UNCHANGED <<password, owner, asked, access, tokens, faults>>

NewPrivateKey(r) ==
  /\ Goto(r, "newaccess", "commitaccess") \/ Goto(r, "newrefresh", "commitrefresh")
  /\ InsertKey(r)

(* AttachUserPrivateKey and the commit. *)
AttachUserPrivateKey(r) ==
  /\ \/ Goto(r, "commitaccess", AfterAccessKey(r)) /\ access' = [access EXCEPT ![r] = key[r]]
     \/ Goto(r, "commitrefresh", "sign") /\ UNCHANGED access
  /\ owner' = [owner EXCEPT ![key[r]] = name[r]]
  /\ UNCHANGED <<password, made, asked, key, tokens, faults>>

(* Mutant: the caller takes the empty row of a failure that was reported as  *)
(* a success, and goes on to sign with it.                                  *)
SignsWithEmptyRow(r) ==
  /\ Goto(r, "newrefresh", "sign") \/ Goto(r, "commitrefresh", "sign")
  /\ Fault /\ key' = [key EXCEPT ![r] = 0]
  /\ UNCHANGED <<rows, asked, access, tokens>>

(* WithTransaction answers a failure with the result of the rollback: when  *)
(* that succeeds the caller dereferences a nil key and panics.              *)
RollsBack(r) ==
  /\ at[r] \in {"newaccess", "newrefresh", "commitaccess", "commitrefresh"} /\ Fault
  /\ at' = [at EXCEPT ![r] = "aborted"]
  /\ UNCHANGED <<rows, asked, access, key, tokens>>

(* Begin, the rollback, the commit or a signature fails: SignIn answers     *)
(* with no error and no tokens, a renewal with the error.                   *)
PairFails(r) ==
  /\ at[r] \in {"newaccess", "newrefresh", "commitaccess", "commitrefresh", "sign"} /\ Fault
  /\ at' = [at EXCEPT ![r] = IF Renews(r) THEN "refused" ELSE "null"]
  /\ UNCHANGED <<rows, asked, access, key, tokens>>

-----------------------------------------------------------------------------
CreateToken(use, r, k) ==
  [use |-> use, user |-> name[r], kid |-> k, by |-> IF Renews(r) THEN token[r].by ELSE r]

(* Mutant: the access token's key signs the refresh token too. *)
SignsBothWithOne(r) ==
  /\ Goto(r, "sign", "ok")
  /\ tokens' = tokens \cup {CreateToken("access", r, access[r]),
                            CreateToken("refresh", r, access[r])}
  /\ UNCHANGED <<rows, asked, access, key, faults>>

(* CreateAccessToken and CreateRefreshToken: a renewal keeps the key of the *)
(* refresh token it came with.                                              *)
UserNewTokenPair(r) ==
  /\ Goto(r, "sign", "ok")
  /\ tokens' = tokens \cup
       {CreateToken("access", r, access[r]),
        CreateToken("refresh", r, IF Renews(r) THEN token[r].kid ELSE key[r])}
  /\ UNCHANGED <<rows, asked, access, key, faults>>

-----------------------------------------------------------------------------
Handle(r) ==
  \/ IdentitySignUp(r) \/ IdentitySignIn(r) \/ IdentityTokenVerify(r)
  \/ NewUser(r) \/ NewUserFails(r) \/ SignIn(r) \/ SignInRefused(r)
  \/ TokenIdentity(r) \/ TokenRefused(r) \/ ActualizeTokenPair(r) \/ QueryFails(r)
  \/ GetUserPrivateKey(r) \/ NoPrivateKey(r) \/ GetUserPrivateKeyFails(r)
  \/ NewPrivateKey(r) \/ AttachUserPrivateKey(r) \/ RollsBack(r) \/ PairFails(r)
  \/ UserNewTokenPair(r)

Next == \E r \in Requests : Handle(r)

Spec == Init /\ [][Next]_vars

-----------------------------------------------------------------------------
(* Every token handed out names, in its header, a key that is committed and  *)
(* attached to the user its claims name: although the key is made by two     *)
(* transactions and read by a third query, and any of them may fail.        *)
TokenIsOwners == \A t \in tokens : owner[t.kid] = t.user

(* The key of a refresh token belongs to one sign-in and its renewals: two   *)
(* sessions never share one, however their requests interleave.             *)
OneSessionPerRefreshKey ==
  \A t, o \in tokens :
    t.use = "refresh" /\ o.use = "refresh" /\ t.kid = o.kid => t.by = o.by

(* A renewal makes no key: its user has the key of the refresh token, so the *)
(* query finds one, as long as it does not fail.                            *)
RenewalMakesNoKey ==
  \A r \in Requests : op[r] = "token-verify" /\ faults = 0 => at[r] # "newaccess" /\ key[r] = 0
=============================================================================
