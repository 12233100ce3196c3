--------------------------- MODULE IdentityProofs ---------------------------
(***************************************************************************)
(* Theorems about Identity, for any users and requests and every bound.     *)
(*                                                                          *)
(* The invariant follows a key from its creation to the tokens it signs: a   *)
(* key is one request's; it is nobody's until that request commits, and its  *)
(* user's from then on; a request that signs has its keys committed.        *)
(***************************************************************************)
EXTENDS Identity, TLAPS

Committing == {"commitaccess", "commitrefresh"}
HasAccessKey == {"newrefresh", "commitrefresh", "sign"}
Foreign == {"newuser", "getuser", "newrefresh", "commitrefresh"}  \* no place of a renewal
Renewing == {"user", "accesskey", "newaccess", "commitaccess", "sign"}

KeysAreFresh == \A k \in Keys : k > made => owner[k] = Nobody

(* A key belongs to the request that generated it. *)
KeyHasMaker ==
  \A r, q \in Requests :
    /\ key[r] <= made
    /\ at[r] = "free" => key[r] = 0
    /\ r # q /\ key[r] = key[q] => key[r] = 0

CommittingIsNobodys ==
  \A r \in Requests : at[r] \in Committing => key[r] \in Keys /\ owner[key[r]] = Nobody

SignsWithOwn ==
  \A r \in Requests :
    /\ at[r] # "free" => name[r] \in Names
    /\ at[r] \in HasAccessKey => access[r] \in Keys /\ owner[access[r]] = name[r]
    /\ at[r] = "sign" /\ ~ Renews(r) => key[r] \in Keys /\ owner[key[r]] = name[r]

RenewsOwn ==
  \A r \in Requests : Renews(r) =>
    /\ token[r] \in tokens /\ token[r].user = name[r]
    /\ at[r] \in Renewing => token[r].use = "refresh"
    /\ at[r] \notin Foreign
    /\ at[r] \in {"newaccess", "commitaccess"} \/ key[r] # 0 => faults > 0

SessionHasKey ==
  \A t \in tokens : t.use = "refresh" => key[t.by] = t.kid /\ at[t.by] = "ok"

KeyInv ==
  /\ KeysAreFresh /\ KeyHasMaker /\ CommittingIsNobodys /\ SignsWithOwn
  /\ RenewsOwn /\ SessionHasKey /\ TokenIsOwners
-----------------------------------------------------------------------------
LEMMA InitTyped == Init => TypeOK
<1> SUFFICES ASSUME Init PROVE TypeOK  OBVIOUS
<1>1. 0 \in 0..MaxKeys /\ 0 \in 0..MaxFaults  BY IdentityAssumption DEF IdentityAssumption
<1>2. at \in [Requests -> Places \cup Answers]  BY DEF Init, Places, Answers
<1> QED BY <1>1, <1>2 DEF Init, TypeOK

LEMMA InitKeys == Init => KeyInv
<1> SUFFICES ASSUME Init PROVE KeyInv  OBVIOUS
<1>1. KeysAreFresh  BY DEF Init, KeysAreFresh
<1>2. KeyHasMaker
  <2>1. made = 0 /\ \A r \in Requests : key[r] = 0  BY DEF Init
  <2> QED BY <2>1 DEF KeyHasMaker
<1>3. CommittingIsNobodys  BY DEF Init, CommittingIsNobodys, Committing
<1>4. SignsWithOwn  BY DEF Init, SignsWithOwn, HasAccessKey
<1>5. RenewsOwn  BY DEF Init, RenewsOwn, Renews
<1>6. SessionHasKey /\ TokenIsOwners  BY DEF Init, SessionHasKey, TokenIsOwners
<1> QED BY <1>1, <1>2, <1>3, <1>4, <1>5, <1>6 DEF KeyInv

LEMMA FaultTyped ==
  ASSUME faults \in 0..MaxFaults, Fault  PROVE faults' \in 0..MaxFaults
BY IdentityAssumption DEF IdentityAssumption, Fault

LEMMA AskTyped ==
  ASSUME TypeOK, NEW r \in Requests, NEW u \in Names, NEW p \in {"right", "wrong", "long"},
         NEW route \in {"sign-up", "sign-in", "token-verify"}, Ask(r, route, u, p)
  PROVE  /\ op' \in [Requests -> {"none", "sign-up", "sign-in", "token-verify"}]
         /\ name' \in [Requests -> Names \cup {Nobody}]
         /\ typed' \in [Requests -> {"right", "wrong", "long"}]
         /\ UNCHANGED <<rows, access, key, tokens, faults>>
BY DEF TypeOK, Ask

LEMMA InsertTyped ==
  ASSUME TypeOK, NEW r \in Requests, InsertKey(r)
  PROVE  made' \in 0..MaxKeys /\ key' \in [Requests -> 0..MaxKeys] /\ made + 1 \in Keys
<1>1. made \in 0..MaxKeys /\ made < MaxKeys /\ made' = made + 1
  BY DEF TypeOK, InsertKey
<1>2. made + 1 \in Keys /\ made' \in 0..MaxKeys /\ made + 1 \in 0..MaxKeys
  BY <1>1, IdentityAssumption DEF IdentityAssumption, Keys
<1> QED BY <1>2 DEF TypeOK, InsertKey

LEMMA FieldsTyped ==
  ASSUME NEW t \in Token
  PROVE  t.use \in Uses /\ t.user \in Names /\ t.kid \in Keys /\ t.by \in Requests
BY DEF Token

(* The tokens a request is about to hand out. *)
LEMMA PairTyped ==
  ASSUME TypeOK, KeyInv, NEW r \in Requests, at[r] = "sign"
  PROVE  /\ name[r] \in Names /\ access[r] \in Keys
         /\ CreateToken("access", r, access[r]) \in Token
         /\ CreateToken("refresh", r, IF Renews(r) THEN token[r].kid ELSE key[r]) \in Token
<1>1. name[r] \in Names /\ access[r] \in Keys
  BY DEF KeyInv, SignsWithOwn, HasAccessKey
<1>2. CASE Renews(r)
  <2>1. token[r] \in Token  BY <1>2 DEF KeyInv, RenewsOwn, TypeOK
  <2>2. token[r].kid \in Keys /\ token[r].by \in Requests  BY <2>1, FieldsTyped
  <2> QED BY <1>1, <1>2, <2>2 DEF CreateToken, Token, Uses
<1>3. CASE ~ Renews(r)
  <2>1. key[r] \in Keys  BY <1>3 DEF KeyInv, SignsWithOwn
  <2> QED BY <1>1, <1>3, <2>1 DEF CreateToken, Token, Uses
<1> QED BY <1>2, <1>3

(* A step keeps the types. *)
LEMMA TypeStep == ASSUME TypeOK, KeyInv, [Next]_vars PROVE TypeOK'
<1>a. at \in [Requests -> Places \cup Answers]  BY DEF TypeOK
<1>b. faults \in 0..MaxFaults  BY DEF TypeOK
<1> DEFINE AtOK == at' \in [Requests -> Places \cup Answers]
<1>1. ASSUME NEW r \in Requests, IdentitySignUp(r) PROVE TypeOK'
  <2>1. AtOK  BY <1>a, <1>1 DEF IdentitySignUp, Goto, Places, Answers
  <2>2. PICK u \in Names, p \in {"right", "long"} : Ask(r, "sign-up", u, p)  BY <1>1 DEF IdentitySignUp
  <2>3. /\ op' \in [Requests -> {"none", "sign-up", "sign-in", "token-verify"}]
        /\ name' \in [Requests -> Names \cup {Nobody}]
        /\ typed' \in [Requests -> {"right", "wrong", "long"}]
        /\ UNCHANGED <<rows, access, key, tokens, faults>>
    BY <2>2, AskTyped
  <2>4. UNCHANGED token  BY <1>1 DEF IdentitySignUp
  <2> QED BY <2>1, <2>3, <2>4 DEF TypeOK, rows
<1>2. ASSUME NEW r \in Requests, IdentitySignIn(r) PROVE TypeOK'
  <2>1. AtOK  BY <1>a, <1>2 DEF IdentitySignIn, Goto, Places, Answers
  <2>2. PICK u \in Names, p \in {"right", "wrong"} : Ask(r, "sign-in", u, p)  BY <1>2 DEF IdentitySignIn
  <2>3. /\ op' \in [Requests -> {"none", "sign-up", "sign-in", "token-verify"}]
        /\ name' \in [Requests -> Names \cup {Nobody}]
        /\ typed' \in [Requests -> {"right", "wrong", "long"}]
        /\ UNCHANGED <<rows, access, key, tokens, faults>>
    BY <2>2, AskTyped
  <2>4. UNCHANGED token  BY <1>2 DEF IdentitySignIn
  <2> QED BY <2>1, <2>3, <2>4 DEF TypeOK, rows
<1>3. ASSUME NEW r \in Requests, IdentityTokenVerify(r) PROVE TypeOK'
  <2>1. AtOK  BY <1>a, <1>3 DEF IdentityTokenVerify, Goto, Places, Answers
  <2>2. PICK t \in tokens : /\ Ask(r, "token-verify", t.user, "wrong")
                            /\ token' = [token EXCEPT ![r] = t]
    BY <1>3 DEF IdentityTokenVerify
  <2>3. t \in Token  BY DEF TypeOK
  <2>4. t.user \in Names  BY <2>3, FieldsTyped
  <2>5. /\ op' \in [Requests -> {"none", "sign-up", "sign-in", "token-verify"}]
        /\ name' \in [Requests -> Names \cup {Nobody}]
        /\ typed' \in [Requests -> {"right", "wrong", "long"}]
        /\ UNCHANGED <<rows, access, key, tokens, faults>>
    BY <2>2, <2>4, AskTyped
  <2>6. token' \in [Requests -> Token \cup {Nobody}]  BY <2>2, <2>3 DEF TypeOK
  <2> QED BY <2>1, <2>5, <2>6 DEF TypeOK, rows
<1>4. ASSUME NEW r \in Requests, NewUser(r) PROVE TypeOK'
  <2>1. AtOK  BY <1>a, <1>4 DEF NewUser, Goto, Places, Answers
  <2> QED BY <1>4, <2>1 DEF TypeOK, NewUser, rows, asked
<1>5. ASSUME NEW r \in Requests, NewUserFails(r) PROVE TypeOK'
  <2>1. AtOK  BY <1>a, <1>5 DEF NewUserFails, Goto, Places, Answers
  <2> QED BY <1>5, <2>1 DEF TypeOK, NewUserFails, rows, asked
<1>6. ASSUME NEW r \in Requests, SignIn(r) PROVE TypeOK'
  <2>1. AtOK  BY <1>a, <1>6 DEF SignIn, Goto, Places, Answers
  <2> QED BY <1>6, <2>1 DEF TypeOK, SignIn, rows, asked
<1>7. ASSUME NEW r \in Requests, SignInRefused(r) PROVE TypeOK'
  <2>1. AtOK  BY <1>a, <1>7 DEF SignInRefused, Goto, Places, Answers
  <2> QED BY <1>7, <2>1 DEF TypeOK, SignInRefused, rows, asked
<1>8. ASSUME NEW r \in Requests, TokenIdentity(r) PROVE TypeOK'
  <2>1. AtOK  BY <1>a, <1>8 DEF TokenIdentity, Goto, Places, Answers
  <2> QED BY <1>8, <2>1 DEF TypeOK, TokenIdentity, rows, asked
<1>9. ASSUME NEW r \in Requests, TokenRefused(r) PROVE TypeOK'
  <2>1. AtOK  BY <1>a, <1>9 DEF TokenRefused, Goto, Places, Answers
  <2> QED BY <1>9, <2>1 DEF TypeOK, TokenRefused, rows, asked
<1>10. ASSUME NEW r \in Requests, ActualizeTokenPair(r) PROVE TypeOK'
  <2>1. AtOK  BY <1>a, <1>10 DEF ActualizeTokenPair, Goto, Places, Answers
  <2> QED BY <1>10, <2>1 DEF TypeOK, ActualizeTokenPair, rows, asked
<1>11. ASSUME NEW r \in Requests, QueryFails(r) PROVE TypeOK'
  <2>1. AtOK  BY <1>a, <1>11 DEF QueryFails, Goto, Places, Answers
  <2>2. faults' \in 0..MaxFaults  BY <1>b, <1>11, FaultTyped DEF QueryFails
  <2> QED BY <1>11, <2>1, <2>2 DEF TypeOK, QueryFails, rows, asked
<1>12. ASSUME NEW r \in Requests, GetUserPrivateKey(r) PROVE TypeOK'
  <2>1. AtOK  BY <1>a, <1>12 DEF GetUserPrivateKey, AfterAccessKey, Goto, Places, Answers
  <2>2. access' \in [Requests -> 0..MaxKeys]
    <3>1. PICK k \in Keys : access' = [access EXCEPT ![r] = k]
      BY <1>12 DEF GetUserPrivateKey, KeysOf
    <3>2. k \in 0..MaxKeys  BY IdentityAssumption DEF IdentityAssumption, Keys
    <3> QED BY <3>1, <3>2 DEF TypeOK
  <2> QED BY <1>12, <2>1, <2>2 DEF TypeOK, GetUserPrivateKey, rows, asked
<1>13. ASSUME NEW r \in Requests, NoPrivateKey(r) PROVE TypeOK'
  <2>1. AtOK  BY <1>a, <1>13 DEF NoPrivateKey, Goto, Places, Answers
  <2> QED BY <1>13, <2>1 DEF TypeOK, NoPrivateKey, rows, asked
<1>14. ASSUME NEW r \in Requests, GetUserPrivateKeyFails(r) PROVE TypeOK'
  <2>1. AtOK  BY <1>a, <1>14 DEF GetUserPrivateKeyFails, Goto, Places, Answers
  <2>2. faults' \in 0..MaxFaults  BY <1>b, <1>14, FaultTyped DEF GetUserPrivateKeyFails
  <2> QED BY <1>14, <2>1, <2>2 DEF TypeOK, GetUserPrivateKeyFails, rows, asked
<1>15. ASSUME NEW r \in Requests, NewPrivateKey(r) PROVE TypeOK'
  <2>1. AtOK  BY <1>a, <1>15 DEF NewPrivateKey, Goto, Places, Answers
  <2>2. made' \in 0..MaxKeys /\ key' \in [Requests -> 0..MaxKeys]
    BY <1>15, InsertTyped DEF NewPrivateKey
  <2> QED BY <1>15, <2>1, <2>2 DEF TypeOK, NewPrivateKey, InsertKey, asked
<1>16. ASSUME NEW r \in Requests, AttachUserPrivateKey(r) PROVE TypeOK'
  <2>1. AtOK  BY <1>a, <1>16 DEF AttachUserPrivateKey, AfterAccessKey, Goto, Places, Answers
  <2>2. key[r] \in Keys /\ name[r] \in Names
    BY <1>16 DEF AttachUserPrivateKey, Goto, KeyInv, CommittingIsNobodys, Committing, SignsWithOwn
  <2>3. owner' \in [Keys -> Names \cup {Nobody}]
    BY <1>16, <2>2 DEF AttachUserPrivateKey, TypeOK
  <2>4. access' \in [Requests -> 0..MaxKeys]
    BY <1>16 DEF AttachUserPrivateKey, TypeOK
  <2> QED BY <1>16, <2>1, <2>3, <2>4 DEF TypeOK, AttachUserPrivateKey, asked
<1>17. ASSUME NEW r \in Requests, RollsBack(r) PROVE TypeOK'
  <2>1. AtOK  BY <1>a, <1>17 DEF RollsBack, Goto, Places, Answers
  <2>2. faults' \in 0..MaxFaults  BY <1>b, <1>17, FaultTyped DEF RollsBack
  <2> QED BY <1>17, <2>1, <2>2 DEF TypeOK, RollsBack, rows, asked
<1>18. ASSUME NEW r \in Requests, PairFails(r) PROVE TypeOK'
  <2>1. AtOK  BY <1>a, <1>18 DEF PairFails, Goto, Places, Answers
  <2>2. faults' \in 0..MaxFaults  BY <1>b, <1>18, FaultTyped DEF PairFails
  <2> QED BY <1>18, <2>1, <2>2 DEF TypeOK, PairFails, rows, asked
<1>19. ASSUME NEW r \in Requests, UserNewTokenPair(r) PROVE TypeOK'
  <2>1. AtOK  BY <1>a, <1>19 DEF UserNewTokenPair, Goto, Places, Answers
  <2>2. tokens' \in SUBSET Token
    BY <1>19, PairTyped DEF UserNewTokenPair, Goto, TypeOK
  <2> QED BY <1>19, <2>1, <2>2 DEF TypeOK, UserNewTokenPair, rows, asked
<1>20. CASE UNCHANGED vars
  BY <1>20 DEF vars, rows, asked, TypeOK
<1> QED
  BY <1>1, <1>2, <1>3, <1>4, <1>5, <1>6, <1>7, <1>8, <1>9, <1>10,
     <1>11, <1>12, <1>13, <1>14, <1>15, <1>16, <1>17, <1>18, <1>19, <1>20
  DEF Next, Handle

LEMMA TokenFields ==
  ASSUME TypeOK  PROVE \A t \in tokens : t.user \in Names /\ t.kid \in Keys /\ t.by \in Requests
BY FieldsTyped DEF TypeOK

(* A request that only moves on, to a place where it needs no key, keeps    *)
(* what is known of keys.                                                   *)
LEMMA MoveKeeps ==
  ASSUME TypeOK, TypeOK', KeyInv, NEW r \in Requests, NEW to,
         at' = [at EXCEPT ![r] = to], at[r] \notin {"free", "ok"},
         UNCHANGED <<made, owner, asked, access, key, tokens>>, faults' >= faults,
         to \notin {"free"} \cup Committing \cup HasAccessKey,
         Renews(r) => to \notin Foreign,
         Renews(r) /\ to \in Renewing => token[r].use = "refresh",
         Renews(r) /\ to = "newaccess" => faults' > 0
  PROVE  KeyInv'
<1>1. \A q \in Requests : at'[q] = IF q = r THEN to ELSE at[q]  BY DEF TypeOK
<1>2. UNCHANGED <<op, name, token>> /\ UNCHANGED <<made, owner, access, key, tokens>>
  BY DEF asked
<1>3. faults \in Nat /\ faults' \in Nat
  <2>1. faults \in 0..MaxFaults /\ faults' \in 0..MaxFaults  BY DEF TypeOK
  <2> QED BY <2>1, IdentityAssumption DEF IdentityAssumption
<1>4. KeysAreFresh' /\ TokenIsOwners'
  BY <1>2 DEF KeyInv, KeysAreFresh, TokenIsOwners
<1>5. KeyHasMaker'  BY <1>1, <1>2 DEF KeyInv, KeyHasMaker
<1>6. CommittingIsNobodys'  BY <1>1, <1>2 DEF KeyInv, CommittingIsNobodys
<1>7. SignsWithOwn'
  BY <1>1, <1>2 DEF KeyInv, SignsWithOwn, HasAccessKey, Renews
<1>8. RenewsOwn'
  <2> SUFFICES ASSUME NEW q \in Requests, Renews(q)
               PROVE  /\ token[q] \in tokens /\ token[q].user = name[q]
                      /\ at'[q] \in Renewing => token[q].use = "refresh"
                      /\ at'[q] \notin Foreign
                      /\ at'[q] \in {"newaccess", "commitaccess"} \/ key[q] # 0 => faults' > 0
    BY <1>2 DEF RenewsOwn, Renews
  <2>1. faults > 0 => faults' > 0  BY <1>3
  <2>2. token[q] \in tokens /\ token[q].user = name[q]  BY DEF KeyInv, RenewsOwn
  <2>3. CASE q = r  BY <1>1, <2>1, <2>2, <2>3 DEF KeyInv, RenewsOwn, HasAccessKey, Committing, Foreign
  <2>4. CASE q # r  BY <1>1, <2>1, <2>2, <2>4 DEF KeyInv, RenewsOwn
  <2> QED BY <2>3, <2>4
<1>9. SessionHasKey'
  BY <1>1, <1>2, TokenFields DEF KeyInv, SessionHasKey
<1> QED BY <1>4, <1>5, <1>6, <1>7, <1>8, <1>9 DEF KeyInv

(* A request that comes in has no key yet. *)
LEMMA AskKeeps ==
  ASSUME TypeOK, KeyInv, NEW r \in Requests, NEW to \in {"newuser", "getuser", "wall"},
         NEW u \in Names, NEW p, NEW route, Goto(r, "free", to), Ask(r, route, u, p),
         \A q \in Requests : q # r => token'[q] = token[q],
         route = "token-verify" => to = "wall" /\ token'[r] \in tokens /\ token'[r].user = u
  PROVE  KeyInv'
<1>1. \A q \in Requests : /\ at'[q] = IF q = r THEN to ELSE at[q]
                          /\ op'[q] = IF q = r THEN route ELSE op[q]
                          /\ name'[q] = IF q = r THEN u ELSE name[q]
  BY DEF TypeOK, Goto, Ask
<1>2. UNCHANGED <<made, owner, access, key, tokens, faults>> /\ at[r] = "free"
  BY DEF Ask, Goto, rows
<1>3. KeysAreFresh' /\ TokenIsOwners'
  BY <1>2 DEF KeyInv, KeysAreFresh, TokenIsOwners
<1>4. KeyHasMaker' /\ CommittingIsNobodys'
  BY <1>1, <1>2 DEF KeyInv, KeyHasMaker, CommittingIsNobodys, Committing
<1>5. SignsWithOwn'
  BY <1>1, <1>2 DEF KeyInv, SignsWithOwn, HasAccessKey, Renews
<1>6. RenewsOwn'
  <2>1. key[r] = 0  BY <1>2 DEF KeyInv, KeyHasMaker
  <2> SUFFICES ASSUME NEW q \in Requests, Renews(q)'
               PROVE  /\ token'[q] \in tokens /\ token'[q].user = name'[q]
                      /\ at'[q] \in Renewing => token'[q].use = "refresh"
                      /\ at'[q] \notin Foreign
                      /\ at'[q] \in {"newaccess", "commitaccess"} \/ key[q] # 0 => faults > 0
    BY <1>2 DEF RenewsOwn, Renews
  <2>2. CASE q = r  BY <1>1, <2>1, <2>2 DEF Renews, Renewing, Foreign
  <2>3. CASE q # r  BY <1>1, <2>3 DEF Renews, KeyInv, RenewsOwn
  <2> QED BY <2>2, <2>3
<1>7. SessionHasKey'
  BY <1>1, <1>2, TokenFields DEF KeyInv, SessionHasKey
<1> QED BY <1>3, <1>4, <1>5, <1>6, <1>7 DEF KeyInv

LEMMA NumbersTyped ==
  ASSUME TypeOK
  PROVE  /\ faults \in Nat /\ made \in Nat /\ Keys \subseteq Nat \ {0}
         /\ \A q \in Requests : key[q] \in Nat
<1>1. faults \in 0..MaxFaults /\ made \in 0..MaxKeys /\ key \in [Requests -> 0..MaxKeys]
  BY DEF TypeOK
<1>2. 0..MaxFaults \subseteq Nat /\ 0..MaxKeys \subseteq Nat /\ Keys \subseteq Nat \ {0}
  BY IdentityAssumption DEF IdentityAssumption, Keys
<1> QED BY <1>1, <1>2

LEMMA FaultRises == ASSUME TypeOK, Fault PROVE faults' >= faults /\ faults' > 0
<1>1. faults \in Nat  BY NumbersTyped
<1> QED BY <1>1 DEF Fault

(* A step keeps what is known of keys. *)
LEMMA KeyStep == ASSUME TypeOK, TypeOK', KeyInv, [Next]_vars PROVE KeyInv'
<1>0. faults \in Nat  BY NumbersTyped
<1>1. ASSUME NEW r \in Requests, IdentitySignUp(r) PROVE KeyInv'
  <2>1. PICK u \in Names, p \in {"right", "long"} : Ask(r, "sign-up", u, p)
    BY <1>1 DEF IdentitySignUp
  <2>2. Goto(r, "free", "newuser") /\ UNCHANGED token  BY <1>1 DEF IdentitySignUp
  <2> QED BY <2>1, <2>2, AskKeeps
<1>2. ASSUME NEW r \in Requests, IdentitySignIn(r) PROVE KeyInv'
  <2>1. PICK u \in Names, p \in {"right", "wrong"} : Ask(r, "sign-in", u, p)
    BY <1>2 DEF IdentitySignIn
  <2>2. Goto(r, "free", "getuser") /\ UNCHANGED token  BY <1>2 DEF IdentitySignIn
  <2> QED BY <2>1, <2>2, AskKeeps
<1>3. ASSUME NEW r \in Requests, IdentityTokenVerify(r) PROVE KeyInv'
  <2>1. PICK t \in tokens : /\ Ask(r, "token-verify", t.user, "wrong")
                            /\ token' = [token EXCEPT ![r] = t]
    BY <1>3 DEF IdentityTokenVerify
  <2>2. Goto(r, "free", "wall")  BY <1>3 DEF IdentityTokenVerify
  <2>3. \A q \in Requests : token'[q] = IF q = r THEN t ELSE token[q]  BY <2>1 DEF TypeOK
  <2>4. t.user \in Names  BY TokenFields
  <2> QED BY <2>1, <2>2, <2>3, <2>4, AskKeeps
<1>4. ASSUME NEW r \in Requests, NewUser(r) PROVE KeyInv'
  <2>1. /\ at' = [at EXCEPT ![r] = "getuser"] /\ at[r] \notin {"free", "ok"}
        /\ UNCHANGED <<made, owner, asked, access, key, tokens>>
    BY <1>4 DEF NewUser, Goto, rows
  <2>2. faults' >= faults
    <3>1. faults' = faults  BY <1>4 DEF NewUser
    <3> QED BY <1>0, <3>1
  <2>3. ~ Renews(r)  BY <1>4 DEF NewUser, Goto, KeyInv, RenewsOwn, Foreign
  <2> QED BY <2>1, <2>2, <2>3, MoveKeeps DEF Committing, HasAccessKey, Renewing, Foreign
<1>5. ASSUME NEW r \in Requests, NewUserFails(r) PROVE KeyInv'
  <2>1. /\ at' = [at EXCEPT ![r] = "refused"] /\ at[r] \notin {"free", "ok"}
        /\ UNCHANGED <<made, owner, asked, access, key, tokens>>
    BY <1>5 DEF NewUserFails, Goto, rows
  <2>2. faults' >= faults
    <3>1. faults' = faults  BY <1>5 DEF NewUserFails
    <3> QED BY <1>0, <3>1
  <2> QED BY <2>1, <2>2, MoveKeeps DEF Committing, HasAccessKey, Renewing, Foreign
<1>6. ASSUME NEW r \in Requests, SignIn(r) PROVE KeyInv'
  <2>1. /\ at' = [at EXCEPT ![r] = "accesskey"] /\ at[r] \notin {"free", "ok"}
        /\ UNCHANGED <<made, owner, asked, access, key, tokens>>
    BY <1>6 DEF SignIn, Goto, rows
  <2>2. faults' >= faults
    <3>1. faults' = faults  BY <1>6 DEF SignIn
    <3> QED BY <1>0, <3>1
  <2>3. ~ Renews(r)  BY <1>6 DEF SignIn, Goto, KeyInv, RenewsOwn, Foreign
  <2> QED BY <2>1, <2>2, <2>3, MoveKeeps DEF Committing, HasAccessKey, Renewing, Foreign
<1>7. ASSUME NEW r \in Requests, SignInRefused(r) PROVE KeyInv'
  <2>1. /\ at' = [at EXCEPT ![r] = "refused"] /\ at[r] \notin {"free", "ok"}
        /\ UNCHANGED <<made, owner, asked, access, key, tokens>>
    BY <1>7 DEF SignInRefused, Goto, rows
  <2>2. faults' >= faults
    <3>1. faults' = faults  BY <1>7 DEF SignInRefused
    <3> QED BY <1>0, <3>1
  <2> QED BY <2>1, <2>2, MoveKeeps DEF Committing, HasAccessKey, Renewing, Foreign
<1>8. ASSUME NEW r \in Requests, TokenIdentity(r) PROVE KeyInv'
  <2>1. at[r] \notin {"free", "ok"} /\ UNCHANGED <<made, owner, asked, access, key, tokens>>
    BY <1>8 DEF TokenIdentity, rows
  <2>2. faults' >= faults
    <3>1. faults' = faults  BY <1>8 DEF TokenIdentity
    <3> QED BY <1>0, <3>1
  <2>3. CASE token[r].use = "refresh"
    <3>1. at' = [at EXCEPT ![r] = "user"]  BY <1>8, <2>3 DEF TokenIdentity
    <3> QED BY <2>1, <2>2, <2>3, <3>1, MoveKeeps DEF Committing, HasAccessKey, Foreign
  <2>4. CASE token[r].use # "refresh"
    <3>1. at' = [at EXCEPT ![r] = "verified"]  BY <1>8, <2>4 DEF TokenIdentity
    <3> QED BY <2>1, <2>2, <3>1, MoveKeeps DEF Committing, HasAccessKey, Renewing, Foreign
  <2> QED BY <2>3, <2>4
<1>9. ASSUME NEW r \in Requests, TokenRefused(r) PROVE KeyInv'
  <2>1. /\ at' = [at EXCEPT ![r] = "refused"] /\ at[r] \notin {"free", "ok"}
        /\ UNCHANGED <<made, owner, asked, access, key, tokens>>
    BY <1>9 DEF TokenRefused, Goto, rows
  <2>2. faults' >= faults
    <3>1. faults' = faults  BY <1>9 DEF TokenRefused
    <3> QED BY <1>0, <3>1
  <2> QED BY <2>1, <2>2, MoveKeeps DEF Committing, HasAccessKey, Renewing, Foreign
<1>10. ASSUME NEW r \in Requests, ActualizeTokenPair(r) PROVE KeyInv'
  <2>1. /\ at' = [at EXCEPT ![r] = "accesskey"] /\ at[r] \notin {"free", "ok"}
        /\ UNCHANGED <<made, owner, asked, access, key, tokens>>
    BY <1>10 DEF ActualizeTokenPair, Goto, rows
  <2>2. faults' >= faults
    <3>1. faults' = faults  BY <1>10 DEF ActualizeTokenPair
    <3> QED BY <1>0, <3>1
  <2>3. Renews(r) => token[r].use = "refresh"
    BY <1>10 DEF ActualizeTokenPair, Goto, KeyInv, RenewsOwn, Renewing
  <2> QED BY <2>1, <2>2, <2>3, MoveKeeps DEF Committing, HasAccessKey, Renewing, Foreign
<1>11. ASSUME NEW r \in Requests, QueryFails(r) PROVE KeyInv'
  <2>1. /\ at' = [at EXCEPT ![r] = "refused"] /\ at[r] \notin {"free", "ok"}
        /\ UNCHANGED <<made, owner, asked, access, key, tokens>>
    BY <1>11 DEF QueryFails, Goto, rows
  <2>2. faults' >= faults /\ faults' > 0  BY FaultRises, <1>11 DEF QueryFails
  <2> QED BY <2>1, <2>2, MoveKeeps DEF Committing, HasAccessKey, Renewing, Foreign
<1>12. ASSUME NEW r \in Requests, GetUserPrivateKey(r) PROVE KeyInv'
  <2>1. PICK k \in KeysOf(name[r]) : access' = [access EXCEPT ![r] = k]
    BY <1>12 DEF GetUserPrivateKey
  <2>2. at[r] = "accesskey" /\ at' = [at EXCEPT ![r] = AfterAccessKey(r)]
        /\ UNCHANGED <<op, name, token, made, owner, key, tokens, faults>>
    BY <1>12 DEF GetUserPrivateKey, Goto, rows, asked
  <2>3. \A q \in Requests : /\ at'[q] = IF q = r THEN AfterAccessKey(r) ELSE at[q]
                            /\ access'[q] = IF q = r THEN k ELSE access[q]
    BY <2>1, <2>2 DEF TypeOK
  <2>4. k \in Keys /\ owner[k] = name[r]  BY DEF KeysOf
  <2>5. KeysAreFresh' /\ TokenIsOwners'
    BY <2>2 DEF KeyInv, KeysAreFresh, TokenIsOwners
  <2>6. KeyHasMaker'  BY <2>2, <2>3 DEF KeyInv, KeyHasMaker, AfterAccessKey
  <2>7. CommittingIsNobodys'
    BY <2>2, <2>3 DEF KeyInv, CommittingIsNobodys, AfterAccessKey, Committing
  <2>8. SignsWithOwn'
    BY <2>2, <2>3, <2>4 DEF KeyInv, SignsWithOwn, HasAccessKey, AfterAccessKey, Renews
  <2>9. RenewsOwn'
    BY <2>2, <2>3 DEF KeyInv, RenewsOwn, Renewing, Foreign, AfterAccessKey, Renews
  <2>10. SessionHasKey'  BY <2>2, <2>3, TokenFields DEF KeyInv, SessionHasKey
  <2> QED BY <2>5, <2>6, <2>7, <2>8, <2>9, <2>10 DEF KeyInv
<1>13. ASSUME NEW r \in Requests, NoPrivateKey(r) PROVE KeyInv'
  <2>1. /\ at' = [at EXCEPT ![r] = "newaccess"] /\ at[r] \notin {"free", "ok"}
        /\ UNCHANGED <<made, owner, asked, access, key, tokens>>
    BY <1>13 DEF NoPrivateKey, Goto, rows
  <2>2. faults' >= faults
    <3>1. faults' = faults  BY <1>13 DEF NoPrivateKey
    <3> QED BY <1>0, <3>1
  <2>3. ~ Renews(r)
    <3>1. KeysOf(name[r]) = {}  BY <1>13 DEF NoPrivateKey
    <3>2. Renews(r) => token[r].kid \in KeysOf(name[r])
      BY TokenFields DEF KeyInv, RenewsOwn, TokenIsOwners, KeysOf
    <3> QED BY <3>1, <3>2
  <2> QED BY <2>1, <2>2, <2>3, MoveKeeps DEF Committing, HasAccessKey, Renewing, Foreign
<1>14. ASSUME NEW r \in Requests, GetUserPrivateKeyFails(r) PROVE KeyInv'
  <2>1. /\ at' = [at EXCEPT ![r] = "newaccess"] /\ at[r] \notin {"free", "ok"}
        /\ UNCHANGED <<made, owner, asked, access, key, tokens>>
    BY <1>14 DEF GetUserPrivateKeyFails, Goto, rows
  <2>2. faults' >= faults /\ faults' > 0  BY FaultRises, <1>14 DEF GetUserPrivateKeyFails
  <2>3. Renews(r) => token[r].use = "refresh"
    BY <1>14 DEF GetUserPrivateKeyFails, Goto, KeyInv, RenewsOwn, Renewing
  <2> QED BY <2>1, <2>2, <2>3, MoveKeeps DEF Committing, HasAccessKey, Renewing, Foreign
<1>15. ASSUME NEW r \in Requests, NewPrivateKey(r) PROVE KeyInv'
  <2> DEFINE to == IF at[r] = "newaccess" THEN "commitaccess" ELSE "commitrefresh"
  <2>1. /\ at[r] \in {"newaccess", "newrefresh"} /\ at' = [at EXCEPT ![r] = to]
        /\ made' = made + 1 /\ key' = [key EXCEPT ![r] = made + 1]
        /\ UNCHANGED <<op, name, token, owner, access, tokens, faults>>
    BY <1>15 DEF NewPrivateKey, InsertKey, Goto, asked
  <2>2. \A q \in Requests : /\ at'[q] = IF q = r THEN to ELSE at[q]
                            /\ key'[q] = IF q = r THEN made + 1 ELSE key[q]
    BY <2>1 DEF TypeOK
  <2>3. made + 1 \in Keys  BY <1>15, InsertTyped DEF NewPrivateKey
  <2>4. made \in Nat /\ Keys \subseteq Nat \ {0} /\ \A q \in Requests : key[q] \in Nat
    BY NumbersTyped
  <2>5. owner[made + 1] = Nobody
    BY <2>3, <2>4 DEF KeyInv, KeysAreFresh
  <2>6. KeysAreFresh'  BY <2>1, <2>4 DEF KeyInv, KeysAreFresh
  <2>7. TokenIsOwners'  BY <2>1 DEF KeyInv, TokenIsOwners
  <2>8. KeyHasMaker'
    <3>1. \A q \in Requests : key[q] <= made  BY DEF KeyInv, KeyHasMaker
    <3>2. \A q \in Requests : key'[q] <= made'  BY <2>1, <2>2, <2>4, <3>1
    <3>3. \A q \in Requests : at'[q] = "free" => key'[q] = 0
      BY <2>1, <2>2 DEF KeyInv, KeyHasMaker
    <3>4. \A q \in Requests : key[q] # made + 1  BY <2>4, <3>1
    <3>5. \A p, q \in Requests : p # q /\ key'[p] = key'[q] => key'[p] = 0
      BY <2>2, <3>4 DEF KeyInv, KeyHasMaker
    <3> QED BY <3>2, <3>3, <3>5 DEF KeyHasMaker
  <2>9. CommittingIsNobodys'
    BY <2>1, <2>2, <2>3, <2>5 DEF KeyInv, CommittingIsNobodys
  <2>10. SignsWithOwn'
    BY <2>1, <2>2 DEF KeyInv, SignsWithOwn, HasAccessKey, Renews
  <2>11. RenewsOwn'
    BY <2>1, <2>2 DEF KeyInv, RenewsOwn, Renewing, Foreign, Renews
  <2>12. SessionHasKey'  BY <2>1, <2>2, TokenFields DEF KeyInv, SessionHasKey
  <2> QED BY <2>6, <2>7, <2>8, <2>9, <2>10, <2>11, <2>12 DEF KeyInv
<1>16. ASSUME NEW r \in Requests, AttachUserPrivateKey(r) PROVE KeyInv'
  <2> DEFINE to == IF at[r] = "commitaccess" THEN AfterAccessKey(r) ELSE "sign"
  <2>1. /\ at[r] \in Committing /\ at' = [at EXCEPT ![r] = to]
        /\ access' = IF at[r] = "commitaccess" THEN [access EXCEPT ![r] = key[r]] ELSE access
        /\ owner' = [owner EXCEPT ![key[r]] = name[r]]
        /\ UNCHANGED <<op, name, token, made, key, tokens, faults>>
    BY <1>16 DEF AttachUserPrivateKey, Goto, asked, Committing
  <2>2. \A q \in Requests :
          /\ at'[q] = IF q = r THEN to ELSE at[q]
          /\ access'[q] = IF q = r /\ at[r] = "commitaccess" THEN key[r] ELSE access[q]
    BY <2>1 DEF TypeOK
  <2>3. key[r] \in Keys /\ owner[key[r]] = Nobody
    BY <2>1 DEF KeyInv, CommittingIsNobodys
  <2>4. name[r] \in Names /\ Nobody \notin Names
    BY <2>1, IdentityAssumption DEF IdentityAssumption, KeyInv, SignsWithOwn, Committing
  <2>5. \A k \in Keys : owner'[k] = IF k = key[r] THEN name[r] ELSE owner[k]
    BY <2>1 DEF TypeOK
  <2>6. \A k \in Keys : owner[k] # Nobody => owner'[k] = owner[k]  BY <2>3, <2>5
  <2>7. \A q \in Requests : key[q] = key[r] => q = r
    <3>1. key[r] # 0  BY <2>3, IdentityAssumption DEF IdentityAssumption, Keys
    <3> QED BY <3>1 DEF KeyInv, KeyHasMaker
  <2>8. KeysAreFresh'
    <3>1. key[r] <= made  BY DEF KeyInv, KeyHasMaker
    <3>2. made \in Nat /\ Keys \subseteq Nat  BY NumbersTyped
    <3>4. key[r] \in Nat  BY <2>3, <3>2
    <3>3. ~ (key[r] > made)  BY <3>1, <3>2, <3>4
    <3> QED BY <2>1, <2>5, <3>3 DEF KeyInv, KeysAreFresh
  <2>9. TokenIsOwners'
    <3> SUFFICES ASSUME NEW t \in tokens PROVE owner'[t.kid] = t.user
      BY <2>1 DEF TokenIsOwners
    <3>1. owner[t.kid] = t.user /\ t.user \in Names /\ t.kid \in Keys
      BY TokenFields DEF KeyInv, TokenIsOwners
    <3> QED BY <2>4, <2>6, <3>1
  <2>10. KeyHasMaker'
    BY <2>1, <2>2 DEF KeyInv, KeyHasMaker, AfterAccessKey, Committing
  <2>11. CommittingIsNobodys'
    BY <2>1, <2>2, <2>5, <2>7 DEF KeyInv, CommittingIsNobodys, AfterAccessKey, Committing
  <2>12. SignsWithOwn'
    <3> SUFFICES ASSUME NEW q \in Requests
                 PROVE /\ at'[q] # "free" => name[q] \in Names
                       /\ at'[q] \in HasAccessKey => access'[q] \in Keys /\ owner'[access'[q]] = name[q]
                       /\ at'[q] = "sign" /\ ~ Renews(q) => key[q] \in Keys /\ owner'[key[q]] = name[q]
      BY <2>1 DEF SignsWithOwn, Renews
    <3>1. CASE q = r
      <4>1. at[r] = "commitrefresh" => access[r] \in Keys /\ owner[access[r]] = name[r]
        BY DEF KeyInv, SignsWithOwn, HasAccessKey
      <4>2. at'[r] = "sign" /\ at[r] = "commitaccess" => Renews(r)
        BY <2>2 DEF AfterAccessKey
      <4> QED BY <2>1, <2>2, <2>3, <2>4, <2>5, <2>6, <3>1, <4>1, <4>2 DEF Committing
    <3>2. CASE q # r
      <4>1. at'[q] = at[q] /\ access'[q] = access[q]  BY <2>2, <3>2
      <4>2. at[q] # "free" => name[q] \in Names  BY DEF KeyInv, SignsWithOwn
      <4>3. at[q] \in HasAccessKey => access[q] \in Keys /\ owner[access[q]] = name[q]
        BY DEF KeyInv, SignsWithOwn
      <4>4. at[q] = "sign" /\ ~ Renews(q) => key[q] \in Keys /\ owner[key[q]] = name[q]
        BY DEF KeyInv, SignsWithOwn
      <4>5. at[q] \in HasAccessKey => name[q] # Nobody
        BY <2>4, <4>2 DEF HasAccessKey
      <4> QED BY <2>6, <4>1, <4>2, <4>3, <4>4, <4>5 DEF HasAccessKey
    <3> QED BY <3>1, <3>2
  <2>13. RenewsOwn'
    BY <2>1, <2>2 DEF KeyInv, RenewsOwn, Renewing, Foreign, AfterAccessKey, Renews, Committing
  <2>14. SessionHasKey'
    BY <2>1, <2>2, TokenFields DEF KeyInv, SessionHasKey, Committing
  <2> QED BY <2>8, <2>9, <2>10, <2>11, <2>12, <2>13, <2>14 DEF KeyInv
<1>17. ASSUME NEW r \in Requests, RollsBack(r) PROVE KeyInv'
  <2>1. /\ at' = [at EXCEPT ![r] = "aborted"] /\ at[r] \notin {"free", "ok"}
        /\ UNCHANGED <<made, owner, asked, access, key, tokens>>
    BY <1>17 DEF RollsBack, Goto, rows
  <2>2. faults' >= faults /\ faults' > 0  BY FaultRises, <1>17 DEF RollsBack
  <2> QED BY <2>1, <2>2, MoveKeeps DEF Committing, HasAccessKey, Renewing, Foreign
<1>18. ASSUME NEW r \in Requests, PairFails(r) PROVE KeyInv'
  <2>1. PICK to \in {"refused", "null"} : at' = [at EXCEPT ![r] = to]
    BY <1>18 DEF PairFails
  <2>2. at[r] \notin {"free", "ok"} /\ UNCHANGED <<made, owner, asked, access, key, tokens>>
    BY <1>18 DEF PairFails, rows
  <2>3. faults' >= faults /\ faults' > 0  BY FaultRises, <1>18 DEF PairFails
  <2> QED BY <2>1, <2>2, <2>3, MoveKeeps DEF Committing, HasAccessKey, Renewing, Foreign
<1>19. ASSUME NEW r \in Requests, UserNewTokenPair(r) PROVE KeyInv'
  <2> DEFINE a == CreateToken("access", r, access[r])
             f == CreateToken("refresh", r, IF Renews(r) THEN token[r].kid ELSE key[r])
  <2>1. /\ at[r] = "sign" /\ at' = [at EXCEPT ![r] = "ok"] /\ tokens' = tokens \cup {a, f}
        /\ UNCHANGED <<op, name, token, made, owner, access, key, faults>>
    BY <1>19 DEF UserNewTokenPair, Goto, rows, asked
  <2>2. \A q \in Requests : at'[q] = IF q = r THEN "ok" ELSE at[q]  BY <2>1 DEF TypeOK
  <2>3. name[r] \in Names /\ owner[access[r]] = name[r]
    BY <2>1 DEF KeyInv, SignsWithOwn, HasAccessKey
  <2>4. a.use = "access" /\ a.user = name[r] /\ a.kid = access[r]
    BY DEF CreateToken
  <2>5. /\ f.user = name[r]
        /\ f.kid = IF Renews(r) THEN token[r].kid ELSE key[r]
        /\ f.by = IF Renews(r) THEN token[r].by ELSE r
    BY DEF CreateToken
  <2>6. owner[f.kid] = name[r]
    <3>1. Renews(r) => token[r] \in tokens /\ token[r].user = name[r]
      BY DEF KeyInv, RenewsOwn
    <3>2. Renews(r) => owner[token[r].kid] = name[r]
      BY <3>1 DEF KeyInv, TokenIsOwners
    <3>3. ~ Renews(r) => owner[key[r]] = name[r]
      BY <2>1 DEF KeyInv, SignsWithOwn
    <3> QED BY <2>5, <3>2, <3>3
  <2>7. key[f.by] = f.kid /\ at'[f.by] = "ok"
    <3>1. CASE Renews(r)
      <4>1. token[r] \in tokens /\ token[r].use = "refresh"
        BY <2>1, <3>1 DEF KeyInv, RenewsOwn, Renewing
      <4>2. key[token[r].by] = token[r].kid /\ at[token[r].by] = "ok"
        BY <4>1 DEF KeyInv, SessionHasKey
      <4>3. token[r].by \in Requests  BY <4>1, TokenFields
      <4> QED BY <2>2, <2>5, <3>1, <4>2, <4>3
    <3>2. CASE ~ Renews(r)  BY <2>2, <2>5, <3>2
    <3> QED BY <3>1, <3>2
  <2>8. TokenIsOwners'
    BY <2>1, <2>3, <2>4, <2>5, <2>6 DEF KeyInv, TokenIsOwners
  <2>9. SessionHasKey'
    <3> SUFFICES ASSUME NEW t \in tokens', t.use = "refresh"
                 PROVE  key[t.by] = t.kid /\ at'[t.by] = "ok"
      BY <2>1 DEF SessionHasKey
    <3>1. CASE t \in tokens
      BY <2>2, <3>1, TokenFields DEF KeyInv, SessionHasKey
    <3>2. CASE t = f  BY <2>7, <3>2
    <3> QED BY <2>1, <2>4, <3>1, <3>2
  <2>10. KeysAreFresh' /\ KeyHasMaker'
    BY <2>1, <2>2 DEF KeyInv, KeysAreFresh, KeyHasMaker
  <2>11. CommittingIsNobodys'
    BY <2>1, <2>2 DEF KeyInv, CommittingIsNobodys, Committing
  <2>12. SignsWithOwn'
    BY <2>1, <2>2 DEF KeyInv, SignsWithOwn, HasAccessKey, Renews
  <2>13. RenewsOwn'
    BY <2>1, <2>2 DEF KeyInv, RenewsOwn, Renewing, Foreign, Renews
  <2> QED BY <2>8, <2>9, <2>10, <2>11, <2>12, <2>13 DEF KeyInv
<1>20. CASE UNCHANGED vars
  BY <1>20 DEF vars, rows, asked, KeyInv, KeysAreFresh, KeyHasMaker, CommittingIsNobodys, SignsWithOwn, RenewsOwn, SessionHasKey, TokenIsOwners, Renews
<1> QED
  BY <1>1, <1>2, <1>3, <1>4, <1>5, <1>6, <1>7, <1>8, <1>9, <1>10,
     <1>11, <1>12, <1>13, <1>14, <1>15, <1>16, <1>17, <1>18, <1>19, <1>20
  DEF Next, Handle

-----------------------------------------------------------------------------
LEMMA Invariant == Spec => [](TypeOK /\ KeyInv)
<1>1. Init => TypeOK /\ KeyInv  BY InitTyped, InitKeys
<1>2. TypeOK /\ KeyInv /\ [Next]_vars => (TypeOK /\ KeyInv)'  BY TypeStep, KeyStep
<1> QED BY <1>1, <1>2, PTL DEF Spec

(* Every variable of Identity keeps its type. *)
THEOREM TypeCorrect == Spec => []TypeOK
BY Invariant, PTL

(* Every token handed out names a committed key of its own user, through     *)
(* every interleaving and failure of the statements that make keys.         *)
THEOREM TokensCorrect == Spec => []TokenIsOwners
<1>1. TypeOK /\ KeyInv => TokenIsOwners  BY DEF KeyInv
<1> QED BY <1>1, Invariant, PTL

(* Refresh tokens that share a key go back to one sign-in. *)
THEOREM SessionsCorrect == Spec => []OneSessionPerRefreshKey
<1>1. TypeOK /\ KeyInv => OneSessionPerRefreshKey
  <2> SUFFICES ASSUME TypeOK, KeyInv, NEW t \in tokens, NEW o \in tokens,
                      t.use = "refresh", o.use = "refresh", t.kid = o.kid
               PROVE  t.by = o.by
    BY DEF OneSessionPerRefreshKey
  <2>1. key[t.by] = t.kid /\ key[o.by] = t.kid
    BY DEF KeyInv, SessionHasKey
  <2>2. t.by \in Requests /\ o.by \in Requests /\ t.kid \in Keys  BY TokenFields
  <2>3. t.kid # 0  BY <2>2, IdentityAssumption DEF IdentityAssumption, Keys
  <2> QED BY <2>1, <2>2, <2>3 DEF KeyInv, KeyHasMaker
<1> QED BY <1>1, Invariant, PTL

(* As long as nothing fails, a renewal makes no key. *)
THEOREM RenewalsCorrect == Spec => []RenewalMakesNoKey
<1>1. TypeOK /\ KeyInv => RenewalMakesNoKey
  BY DEF KeyInv, RenewsOwn, Renews, RenewalMakesNoKey
<1> QED BY <1>1, Invariant, PTL
=============================================================================
