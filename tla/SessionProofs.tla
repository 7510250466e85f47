--------------------------- MODULE SessionProofs ---------------------------
(***************************************************************************)
(* Proofs about Session for every set of users, tokens and promise chains, *)
(* for every wiring of the form controls, with and without failures.       *)
(***************************************************************************)
EXTENDS Session, TLAPS

(***************************************************************************)
(* The inductive invariant.  A submitted login knows its user, a live      *)
(* token has an owner, and a login answer on its way to the storage        *)
(* carries a token that is live or whose revocation has been excused.      *)
(***************************************************************************)
SentHasUser == \A a \in Logins : login[a].st = "sent" => login[a].user \in Users

LiveIsOwned == \A t \in live : owner[t] \in Users

AnswersLive == \A a \in Logins : \A t \in Tokens :
                   Carries(a, t) => t \in live \cup excused

Safe == SentHasUser /\ LiveIsOwned /\ KeysAreIssued /\ AnswersLive
        /\ DeadKeyExplained

IInv == TypeOK /\ Safe

(***************************************************************************)
(* The initial state satisfies the invariant.                              *)
(***************************************************************************)
LEMMA InitIInv == Init => IInv
<1> SUFFICES ASSUME Init PROVE IInv
  OBVIOUS
<1> USE DEF Init
<1>1. NoAuth \in Auths /\ NoAuth \notin Keys
  BY ConstantsOK DEF NoAuth, Auths, Keys
<1>2. TypeOK
  BY <1>1 DEF TypeOK, IdleLogin, IdleLoad, IdleLogout, LoginChain, LoadChain,
              LogoutChain, ProfileState
<1>3. SentHasUser /\ LiveIsOwned
  BY DEF SentHasUser, LiveIsOwned, IdleLogin
<1>4. KeysAreIssued
  BY <1>1 DEF KeysAreIssued, Issued, IdleLogin
<1>5. AnswersLive
  BY DEF AnswersLive, Carries, IdleLogin
<1>6. DeadKeyExplained
  BY ConstantsOK DEF DeadKeyExplained, Auths
<1> QED
  BY <1>2, <1>3, <1>4, <1>5, <1>6 DEF IInv, Safe

(***************************************************************************)
(* The empty key {} that a refused login stores is a value a key can have, *)
(* and is not a key: both its parts are undefined (Login.js).              *)
(***************************************************************************)
LEMMA NoAuthIsNoKey == /\ NoAuth \in Auths /\ NoAuth \notin Keys
                       /\ NoAuth.id = NoUser /\ NoAuth.token = NoToken
  BY ConstantsOK DEF NoAuth, Auths, Keys

(***************************************************************************)
(* The parts of a value stored under 'auth' are defined exactly when it is *)
(* a key, so a token that is defined comes with its id.                    *)
(***************************************************************************)
LEMMA KeyParts == ASSUME NEW k \in Auths
                  PROVE  /\ k.id \in Users \cup {NoUser}
                         /\ k.token \in Tokens \cup {NoToken}
                         /\ k \in Keys => k.id \in Users /\ k.token \in Tokens
                         /\ k.token \in Tokens => k \in Keys
  BY ConstantsOK DEF NoAuth, Auths, Keys

(***************************************************************************)
(* What getUser reads, JSON.parse(response) || {}, is a key or the empty   *)
(* key, whatever is stored (Profile.js getUser).                           *)
(***************************************************************************)
LEMMA ParseIsAuth == ASSUME NEW v \in Auths \cup {Null}
                     PROVE  Parse(v) \in Auths
  BY NoAuthIsNoKey DEF Parse

(***************************************************************************)
(* A load stays a load when one of its two requests ends (Profile.js       *)
(* getData, getPhoto).                                                     *)
(***************************************************************************)
LEMMA SettleType == ASSUME NEW r \in LoadChain
                    PROVE  /\ Settle([r EXCEPT !.data = FALSE]) \in LoadChain
                           /\ Settle([r EXCEPT !.photo = FALSE]) \in LoadChain
<1>1. IdleLoad \in LoadChain
  BY DEF IdleLoad, LoadChain
<1>2. [r EXCEPT !.data = FALSE] \in LoadChain
  BY DEF LoadChain
<1>3. [r EXCEPT !.photo = FALSE] \in LoadChain
  BY DEF LoadChain
<1> QED
  BY <1>1, <1>2, <1>3 DEF Settle

(***************************************************************************)
(* Every step keeps the types.  Only a submitted login needs more than the *)
(* types: the key the server grants is made from its user.                 *)
(***************************************************************************)
LEMMA TypeStep == TypeOK /\ SentHasUser /\ [Next]_vars => TypeOK'
<1> SUFFICES ASSUME TypeOK, SentHasUser, [Next]_vars PROVE TypeOK'
  OBVIOUS
<1> USE DEF TypeOK
<1>0. /\ NoAuth \in Auths
      /\ IdleLogin \in LoginChain
      /\ IdleLoad \in LoadChain
      /\ [IdleLoad EXCEPT !.st = "reading"] \in LoadChain
      /\ IdleLogout \in LogoutChain
  BY NoAuthIsNoKey DEF IdleLogin, IdleLoad, IdleLogout, LoginChain, LoadChain,
                       LogoutChain
<1>1. ASSUME NEW s \in {"Home", "Login"}, OpenOther(s) PROVE TypeOK'
  BY <1>1 DEF OpenOther
<1>2. ASSUME NEW l \in Loads, MountProfile(l) PROVE TypeOK'
  BY <1>2, <1>0 DEF MountProfile, Start
<1>3. ASSUME OpenProfile PROVE TypeOK'
  BY <1>3 DEF OpenProfile
<1>4. ASSUME NEW l \in Loads, DidFocus(l) PROVE TypeOK'
  BY <1>4, <1>0 DEF DidFocus, Start
<1>5. ASSUME NEW a \in Logins, NEW u \in Users, HandleSubmit(a, u) PROVE TypeOK'
  <2>1. [st |-> "sent", user |-> u, auth |-> NoAuth] \in LoginChain
    BY <1>0 DEF LoginChain
  <2> QED BY <1>5, <2>1 DEF HandleSubmit
<1>6. ASSUME NEW a \in Logins, NEW t \in Tokens, ServerGrants(a, t) PROVE TypeOK'
  <2>1. login[a].user \in Users
    BY <1>6 DEF SentHasUser, ServerGrants
  <2>2. [id |-> login[a].user, token |-> t] \in Auths
    BY <2>1 DEF Auths, Keys
  <2>3. login' \in [Logins -> LoginChain]
    BY <1>6, <2>2 DEF ServerGrants, LoginChain
  <2>4. owner' \in [Tokens -> Users \cup {NoUser}]
    BY <1>6, <2>1 DEF ServerGrants
  <2> QED BY <1>6, <2>3, <2>4 DEF ServerGrants
<1>7. ASSUME NEW a \in Logins, ServerRefuses(a) PROVE TypeOK'
  <2>1. login' \in [Logins -> LoginChain]
    BY <1>7 DEF ServerRefuses, LoginChain
  <2> QED BY <1>7, <2>1 DEF ServerRefuses
<1>8. ASSUME NEW a \in Logins, LoginAccepted(a) PROVE TypeOK'
  <2>1. login' \in [Logins -> LoginChain]
    BY <1>8 DEF LoginAccepted, LoginChain
  <2> QED BY <1>8, <2>1 DEF LoginAccepted
<1>9. ASSUME NEW a \in Logins, LoginRejected(a) PROVE TypeOK'
  <2>1. login' \in [Logins -> LoginChain]
    BY <1>9, <1>0 DEF LoginRejected, LoginChain
  <2> QED BY <1>9, <2>1 DEF LoginRejected
<1>10. ASSUME NEW a \in Logins, StoreAuth(a) PROVE TypeOK'
  <2>1. login[a].auth \in Auths
    BY DEF LoginChain
  <2>2. logout' \in [Logouts -> LogoutChain]
    BY <1>10 DEF StoreAuth, LogoutChain
  <2> QED BY <1>10, <1>0, <2>1, <2>2 DEF StoreAuth
<1>11. ASSUME NEW a \in Logins, LoginFails(a) PROVE TypeOK'
  BY <1>11, <1>0 DEF LoginFails
<1>12. ASSUME NEW l \in Loads, GetUser(l) PROVE TypeOK'
  <2>1. Parse(store) \in Auths
    BY ParseIsAuth
  <2>2. Parse(store).id \in Users \cup {NoUser}
    BY <2>1, KeyParts
  <2>3. profile' \in ProfileState
    BY <1>12, <2>1 DEF GetUser, ProfileState
  <2>4. load' \in [Loads -> LoadChain]
    BY <1>12, <2>2 DEF GetUser, LoadChain
  <2> QED BY <1>12, <2>3, <2>4 DEF GetUser
<1>13. ASSUME NEW l \in Loads, GetUserFails(l) PROVE TypeOK'
  BY <1>13, <1>0 DEF GetUserFails
<1>14. ASSUME NEW l \in Loads, GetData(l) PROVE TypeOK'
  <2>1. Settle([load[l] EXCEPT !.data = FALSE]) \in LoadChain
    BY SettleType
  <2>2. profile' \in ProfileState
    BY <1>14 DEF GetData, ProfileState
  <2> QED BY <1>14, <2>1, <2>2 DEF GetData
<1>15. ASSUME NEW l \in Loads, GetPhoto(l) PROVE TypeOK'
  <2>1. Settle([load[l] EXCEPT !.photo = FALSE]) \in LoadChain
    BY SettleType
  <2>2. load[l].id \in Users \cup {NoUser}
    BY DEF LoadChain
  <2>3. profile' \in ProfileState
    BY <1>15, <2>2 DEF GetPhoto, ProfileState
  <2> QED BY <1>15, <2>1, <2>3 DEF GetPhoto
<1>16. ASSUME NEW l \in Loads, NEW d \in BOOLEAN, GetFails(l, d) PROVE TypeOK'
  <2>1. /\ Settle([load[l] EXCEPT !.data = FALSE]) \in LoadChain
        /\ Settle([load[l] EXCEPT !.photo = FALSE]) \in LoadChain
    BY SettleType
  <2> QED BY <1>16, <2>1 DEF GetFails
<1>17. ASSUME NEW o \in Logouts, Logout(o) PROVE TypeOK'
  <2>1. profile.auth.token \in Tokens \cup {NoToken}
    BY KeyParts DEF ProfileState
  <2>2. logout' \in [Logouts -> LogoutChain]
    <3> DEFINE f == profile.auth = Parse(store)
    <3>1. f \in BOOLEAN
      OBVIOUS
    <3> HIDE DEF f
    <3>2. [st |-> "sent", token |-> profile.auth.token, fresh |-> f]
             \in LogoutChain
      BY <2>1, <3>1 DEF LogoutChain
    <3> USE DEF f
    <3> QED BY <1>17, <3>2 DEF Logout
  <2> QED BY <1>17, <2>2 DEF Logout
<1>18. ASSUME NEW o \in Logouts, ServerRevokes(o) PROVE TypeOK'
  <2>1. logout' \in [Logouts -> LogoutChain]
    BY <1>18 DEF ServerRevokes, LogoutChain
  <2> QED BY <1>18, <2>1 DEF ServerRevokes
<1>19. ASSUME NEW o \in Logouts, LogoutAnswered(o) PROVE TypeOK'
  <2>1. logout' \in [Logouts -> LogoutChain]
    BY <1>19 DEF LogoutAnswered, LogoutChain
  <2> QED BY <1>19, <2>1 DEF LogoutAnswered
<1>20. ASSUME NEW o \in Logouts, RemoveItem(o) PROVE TypeOK'
  <2>1. [IdleLogout EXCEPT !.st = "clearing"] \in LogoutChain
    BY DEF IdleLogout, LogoutChain
  <2> QED BY <1>20, <2>1 DEF RemoveItem
<1>23. ASSUME NEW o \in Logouts, ClearProfile(o) PROVE TypeOK'
  <2>1. profile' \in ProfileState
    BY <1>23, <1>0 DEF ClearProfile, ProfileState
  <2> QED BY <1>23, <1>0, <2>1 DEF ClearProfile
<1>21. ASSUME NEW o \in Logouts, LogoutFails(o) PROVE TypeOK'
  BY <1>21, <1>0 DEF LogoutFails
<1>22. CASE UNCHANGED vars
  BY <1>22 DEF vars
<1> QED
  BY <1>1, <1>2, <1>3, <1>4, <1>5, <1>6, <1>7, <1>8, <1>9, <1>10, <1>11,
     <1>12, <1>13, <1>14, <1>15, <1>16, <1>17, <1>18, <1>19, <1>20, <1>21, <1>22,
     <1>23
  DEF Next, UserNext, LoginNext, LoadNext, LogoutNext, Failures

(***************************************************************************)
(* Every step keeps the rest of the invariant.                             *)
(***************************************************************************)
LEMMA SafeStep == IInv /\ [Next]_vars => Safe'
<1> SUFFICES ASSUME IInv, [Next]_vars PROVE Safe'
  OBVIOUS
<1> USE DEF IInv, Safe
<1>T. TypeOK'
  BY TypeStep
<1>0. ASSUME UNCHANGED <<store, owner, live, login, logout, excused>>,
             profile'.auth = profile.auth
      PROVE  Safe'
  BY <1>0 DEF SentHasUser, LiveIsOwned, KeysAreIssued, AnswersLive, Issued,
              Carries, DeadKeyExplained
<1>1. ASSUME NEW s \in {"Home", "Login"}, OpenOther(s) PROVE Safe'
  BY <1>0, <1>1 DEF OpenOther
<1>2. ASSUME NEW l \in Loads, MountProfile(l) PROVE Safe'
  BY <1>0, <1>2 DEF MountProfile
<1>3. ASSUME OpenProfile PROVE Safe'
  BY <1>0, <1>3 DEF OpenProfile
<1>4. ASSUME NEW l \in Loads, DidFocus(l) PROVE Safe'
  BY <1>0, <1>4 DEF DidFocus
<1>L. ASSUME NEW a \in Logins, NEW r \in LoginChain,
             login' = [login EXCEPT ![a] = r],
             UNCHANGED <<store, owner, live, profile, logout, excused>>,
             r.st = "sent" => r.user \in Users,
             r.auth = login[a].auth \/ r.auth = NoAuth,
             r.st \in {"granted", "storing"} /\ r.auth # NoAuth
                => login[a].st \in {"granted", "storing"}
      PROVE  Safe'
  \* a step of one login chain that takes no new key
  <2>1. SentHasUser'
    BY <1>L DEF SentHasUser, TypeOK
  <2>2. KeysAreIssued'
    BY <1>L, NoAuthIsNoKey DEF KeysAreIssued, Issued, TypeOK
  <2>3. AnswersLive'
    <3> SUFFICES ASSUME NEW b \in Logins, NEW t \in Tokens, Carries(b, t)'
                 PROVE  (t \in live \cup excused)'
      BY DEF AnswersLive
    <3>1. CASE b # a
      BY <1>L, <3>1 DEF AnswersLive, Carries, TypeOK
    <3>2. CASE b = a
      <4>1. login'[a] = r /\ r.auth.token = t
        BY <1>L, <3>2 DEF Carries, TypeOK
      <4>2. r.auth # NoAuth
        BY <4>1, NoAuthIsNoKey, ConstantsOK
      <4>3. Carries(a, t)
        BY <1>L, <3>2, <4>1, <4>2 DEF Carries
      <4> QED BY <1>L, <4>3 DEF AnswersLive
    <3> QED BY <3>1, <3>2
  <2>4. LiveIsOwned' /\ DeadKeyExplained'
    BY <1>L DEF LiveIsOwned, DeadKeyExplained
  <2> QED BY <2>1, <2>2, <2>3, <2>4
<1>5. ASSUME NEW a \in Logins, NEW u \in Users, HandleSubmit(a, u) PROVE Safe'
  <2> DEFINE r == [st |-> "sent", user |-> u, auth |-> NoAuth]
  <2>1. r \in LoginChain
    BY NoAuthIsNoKey DEF LoginChain
  <2> QED BY <1>5, <1>L, <2>1 DEF HandleSubmit
<1>6. ASSUME NEW a \in Logins, NEW t \in Tokens, ServerGrants(a, t) PROVE Safe'
  <2> DEFINE k == [id |-> login[a].user, token |-> t]
  <2>0. login[a].user \in Users /\ k \in Keys /\ k.id = login[a].user /\ k.token = t
    BY <1>6 DEF SentHasUser, ServerGrants, Keys
  <2>1. \A x \in Tokens : x # t => owner'[x] = owner[x]
    BY <1>6 DEF ServerGrants, TypeOK
  <2>2. owner'[t] = login[a].user
    BY <1>6 DEF ServerGrants, TypeOK
  <2>3. \A x \in Auths : Issued(x) => Issued(x)'
    <3> SUFFICES ASSUME NEW x \in Keys, owner[x.token] = x.id
                 PROVE  owner'[x.token] = x.id
      BY DEF Issued
    <3>1. x.id \in Users /\ x.token \in Tokens
      BY DEF Keys
    <3> QED BY <1>6, <2>1, <2>2, <3>1, ConstantsOK DEF ServerGrants
  <2>4. SentHasUser'
    BY <1>6 DEF ServerGrants, SentHasUser, TypeOK
  <2>5. LiveIsOwned'
    BY <1>6, <2>0, <2>1, <2>2 DEF ServerGrants, LiveIsOwned, TypeOK
  <2>6. KeysAreIssued'
    <3>1. (store # Null => Issued(store))' /\ Issued(profile.auth)'
      BY <1>6, <2>3 DEF ServerGrants, KeysAreIssued, TypeOK, ProfileState, Issued
    <3>2. ASSUME NEW b \in Logins PROVE Issued(login[b].auth)'
      <4>1. CASE b = a
        <5>1. login'[a].auth = k
          BY <1>6 DEF ServerGrants, TypeOK, LoginChain
        <5> QED BY <4>1, <5>1, <2>0, <2>2 DEF Issued
      <4>2. CASE b # a
        <5>1. login'[b] = login[b] /\ login[b].auth \in Auths
          BY <1>6, <4>2 DEF ServerGrants, TypeOK, LoginChain
        <5>2. Issued(login[b].auth)'  = (login[b].auth \in Keys => owner'[login[b].auth.token] = login[b].auth.id)
          BY <5>1 DEF Issued
        <5> QED BY <5>1, <5>2, <2>3 DEF KeysAreIssued, Issued
      <4> QED BY <4>1, <4>2
    <3> QED BY <3>1, <3>2 DEF KeysAreIssued
  <2>7. AnswersLive'
    BY <1>6 DEF ServerGrants, AnswersLive, Carries, TypeOK, LoginChain
  <2>8. DeadKeyExplained'
    BY <1>6 DEF ServerGrants, DeadKeyExplained
  <2> QED BY <2>4, <2>5, <2>6, <2>7, <2>8
<1>7. ASSUME NEW a \in Logins, ServerRefuses(a) PROVE Safe'
  <2> DEFINE r == [login[a] EXCEPT !.st = "refused", !.user = NoUser]
  <2>1. /\ r \in LoginChain /\ r.st = "refused" /\ r.auth = login[a].auth
        /\ login' = [login EXCEPT ![a] = r]
    BY <1>7 DEF ServerRefuses, TypeOK, LoginChain
  <2> QED BY <1>7, <1>L, <2>1 DEF ServerRefuses
<1>8. ASSUME NEW a \in Logins, LoginAccepted(a) PROVE Safe'
  <2> DEFINE r == [login[a] EXCEPT !.st = "storing"]
  <2>1. /\ r \in LoginChain /\ r.st = "storing" /\ r.auth = login[a].auth
        /\ login' = [login EXCEPT ![a] = r]
    BY <1>8 DEF LoginAccepted, TypeOK, LoginChain
  <2> QED BY <1>8, <1>L, <2>1 DEF LoginAccepted
<1>9. ASSUME NEW a \in Logins, LoginRejected(a) PROVE Safe'
  <2> DEFINE r == [login[a] EXCEPT !.st = "storing", !.auth = NoAuth]
  <2>1. /\ r \in LoginChain /\ r.st = "storing" /\ r.auth = NoAuth
        /\ login' = [login EXCEPT ![a] = r]
    BY <1>9, NoAuthIsNoKey DEF LoginRejected, TypeOK, LoginChain
  <2> QED BY <1>9, <1>L, <2>1 DEF LoginRejected
<1>10. ASSUME NEW a \in Logins, StoreAuth(a) PROVE Safe'
  <2>0. /\ login[a].auth \in Auths
        /\ \A b \in Logins : login'[b] = IF b = a THEN IdleLogin ELSE login[b]
        /\ store' = login[a].auth
    BY <1>10 DEF StoreAuth, TypeOK, LoginChain
  <2>1. IdleLogin.st = "idle" /\ IdleLogin.auth = NoAuth
    BY DEF IdleLogin
  <2>2. SentHasUser' /\ LiveIsOwned' /\ AnswersLive'
    BY <1>10, <2>0, <2>1 DEF StoreAuth, SentHasUser, LiveIsOwned, AnswersLive,
                             Carries
  <2>3. KeysAreIssued'
    BY <1>10, <2>0, <2>1, NoAuthIsNoKey DEF StoreAuth, KeysAreIssued, Issued
  <2>4. DeadKeyExplained'
    \* the stored key is the one the answer carried
    <3> SUFFICES ASSUME login[a].auth \in Keys, login[a].auth.token \notin live
                 PROVE  login[a].auth.token \in excused
      BY <1>10, <2>0 DEF DeadKeyExplained, StoreAuth
    <3>1. login[a].auth.token \in Tokens /\ Carries(a, login[a].auth.token)
      BY <1>10, KeyParts, <2>0 DEF StoreAuth, Carries
    <3> QED BY <3>1 DEF AnswersLive
  <2> QED BY <2>2, <2>3, <2>4
<1>11. ASSUME NEW a \in Logins, LoginFails(a) PROVE Safe'
  <2>1. IdleLogin \in LoginChain /\ IdleLogin.st = "idle" /\ IdleLogin.auth = NoAuth
    BY NoAuthIsNoKey DEF IdleLogin, LoginChain
  <2> QED BY <1>11, <1>L, <2>1 DEF LoginFails
<1>12. ASSUME NEW l \in Loads, GetUser(l) PROVE Safe'
  <2>1. profile'.auth = Parse(store)
    BY <1>12 DEF GetUser, TypeOK, ProfileState
  <2>2. KeysAreIssued'
    BY <1>12, <2>1, NoAuthIsNoKey DEF GetUser, KeysAreIssued, Issued, Parse
  <2>3. SentHasUser' /\ LiveIsOwned' /\ AnswersLive' /\ DeadKeyExplained'
    BY <1>12 DEF GetUser, SentHasUser, LiveIsOwned, AnswersLive, Carries,
                 DeadKeyExplained
  <2> QED BY <2>2, <2>3
<1>13. ASSUME NEW l \in Loads, GetUserFails(l) PROVE Safe'
  BY <1>0, <1>13 DEF GetUserFails
<1>14. ASSUME NEW l \in Loads, GetData(l) PROVE Safe'
  BY <1>0, <1>14 DEF GetData, TypeOK, ProfileState
<1>15. ASSUME NEW l \in Loads, GetPhoto(l) PROVE Safe'
  BY <1>0, <1>15 DEF GetPhoto, TypeOK, ProfileState
<1>16. ASSUME NEW l \in Loads, NEW d \in BOOLEAN, GetFails(l, d) PROVE Safe'
  BY <1>0, <1>16 DEF GetFails
<1>F. ASSUME UNCHANGED <<store, owner, live, login, profile>>,
             excused \subseteq excused'
      PROVE  SentHasUser' /\ LiveIsOwned' /\ KeysAreIssued' /\ AnswersLive'
  BY <1>F DEF SentHasUser, LiveIsOwned, KeysAreIssued, Issued, AnswersLive,
              Carries
<1>17. ASSUME NEW o \in Logouts, Logout(o) PROVE Safe'
  <2>1. \A p \in Logouts : logout[p].st # "idle" => logout'[p] = logout[p]
    BY <1>17 DEF Logout, TypeOK
  <2>2. DeadKeyExplained'
    BY <1>17, <2>1 DEF Logout, DeadKeyExplained
  <2> QED BY <1>17, <1>F, <2>2 DEF Logout
<1>18. ASSUME NEW o \in Logouts, ServerRevokes(o) PROVE Safe'
  <2>0. /\ logout'[o].st = "answered" /\ logout'[o].token = logout[o].token
        /\ \A p \in Logouts : p # o => logout'[p] = logout[p]
        /\ excused \subseteq excused' /\ live' = live \ {logout[o].token}
    BY <1>18 DEF ServerRevokes, TypeOK, LogoutChain
  <2>1. SentHasUser' /\ LiveIsOwned' /\ KeysAreIssued'
    BY <1>18 DEF ServerRevokes, SentHasUser, LiveIsOwned, KeysAreIssued, Issued
  <2>2. AnswersLive'
    \* an answer that carries the revoked token is excused in this step
    <3> SUFFICES ASSUME NEW a \in Logins, NEW t \in Tokens, Carries(a, t)'
                 PROVE  t \in live' \cup excused'
      BY DEF AnswersLive
    <3>1. Carries(a, t)
      BY <1>18 DEF ServerRevokes, Carries
    <3>2. t \in live \cup excused
      BY <3>1 DEF AnswersLive
    <3>3. CASE t = logout[o].token
      BY <1>18, <3>1, <3>3 DEF ServerRevokes
    <3>4. CASE t # logout[o].token
      BY <2>0, <3>2, <3>4
    <3> QED BY <3>3, <3>4
  <2>3. DeadKeyExplained'
    <3> SUFFICES ASSUME store \in Keys, store.token \notin live'
                 PROVE  \/ store.token \in excused'
                        \/ \E p \in Logouts :
                              /\ logout'[p].st \in {"answered", "removing"}
                              /\ logout'[p].token = store.token
      BY <1>18 DEF ServerRevokes, DeadKeyExplained
    <3>1. CASE store.token = logout[o].token
      BY <2>0, <3>1
    <3>2. CASE store.token # logout[o].token
      <4>1. store.token \notin live
        BY <2>0, <3>2
      <4>2. CASE store.token \in excused
        BY <2>0, <4>2
      <4>3. ASSUME NEW p \in Logouts, logout[p].st \in {"answered", "removing"},
                   logout[p].token = store.token
            PROVE  logout'[p] = logout[p]
        BY <1>18, <2>0, <4>3 DEF ServerRevokes
      <4> QED BY <4>1, <4>2, <4>3 DEF DeadKeyExplained
    <3> QED BY <3>1, <3>2
  <2> QED BY <2>1, <2>2, <2>3
<1>19. ASSUME NEW o \in Logouts, LogoutAnswered(o) PROVE Safe'
  <2>1. /\ logout'[o].st = "removing" /\ logout'[o].token = logout[o].token
        /\ \A p \in Logouts : p # o => logout'[p] = logout[p]
    BY <1>19 DEF LogoutAnswered, TypeOK, LogoutChain
  <2>2. DeadKeyExplained'
    BY <1>19, <2>1 DEF LogoutAnswered, DeadKeyExplained
  <2> QED BY <1>19, <1>F, <2>2 DEF LogoutAnswered
<1>20. ASSUME NEW o \in Logouts, RemoveItem(o) PROVE Safe'
  <2>1. store' = Null
    BY <1>20 DEF RemoveItem
  <2>2. SentHasUser' /\ LiveIsOwned' /\ AnswersLive'
    BY <1>20 DEF RemoveItem, SentHasUser, LiveIsOwned, AnswersLive, Carries
  <2>3. KeysAreIssued'
    BY <1>20, <2>1 DEF RemoveItem, KeysAreIssued, Issued
  <2>4. DeadKeyExplained'
    BY <2>1, ConstantsOK DEF DeadKeyExplained, Auths
  <2> QED BY <2>2, <2>3, <2>4
<1>23. ASSUME NEW o \in Logouts, ClearProfile(o) PROVE Safe'
  <2>1. profile'.auth = NoAuth /\ logout[o].st = "clearing"
    BY <1>23 DEF ClearProfile
  <2>2. SentHasUser' /\ LiveIsOwned' /\ AnswersLive'
    BY <1>23 DEF ClearProfile, SentHasUser, LiveIsOwned, AnswersLive, Carries
  <2>3. KeysAreIssued'
    BY <1>23, <2>1, NoAuthIsNoKey DEF ClearProfile, KeysAreIssued, Issued
  <2>4. \A p \in Logouts : p # o => logout'[p] = logout[p]
    BY <1>23 DEF ClearProfile, TypeOK
  <2>5. DeadKeyExplained'
    BY <1>23, <2>1, <2>4 DEF DeadKeyExplained, ClearProfile
  <2> QED BY <2>2, <2>3, <2>5
<1>21. ASSUME NEW o \in Logouts, LogoutFails(o) PROVE Safe'
  <2>1. \A p \in Logouts : p # o => logout'[p] = logout[p]
    BY <1>21 DEF LogoutFails, TypeOK
  <2>2. /\ excused \subseteq excused'
        /\ logout[o].st \in {"answered", "removing"} /\ logout[o].token \in Tokens
              => logout[o].token \in excused'
    BY <1>21 DEF LogoutFails
  <2>3. DeadKeyExplained'
    <3> SUFFICES ASSUME store \in Keys, store.token \notin live
                 PROVE  \/ store.token \in excused'
                        \/ \E p \in Logouts :
                              /\ logout'[p].st \in {"answered", "removing"}
                              /\ logout'[p].token = store.token
      BY <1>21 DEF LogoutFails, DeadKeyExplained
    <3>1. CASE store.token \in excused
      BY <2>2, <3>1
    <3>2. ASSUME NEW p \in Logouts, logout[p].st \in {"answered", "removing"},
                 logout[p].token = store.token
          PROVE  store.token \in excused' \/ logout'[p] = logout[p]
      <4>1. store.token \in Tokens
        BY DEF Keys
      <4> QED BY <2>1, <2>2, <3>2, <4>1
    <3> QED BY <3>1, <3>2 DEF DeadKeyExplained
  <2> QED BY <1>21, <1>F, <2>2, <2>3 DEF LogoutFails
<1>22. CASE UNCHANGED vars
  BY <1>0, <1>22 DEF vars
<1> QED
  BY <1>1, <1>2, <1>3, <1>4, <1>5, <1>6, <1>7, <1>8, <1>9, <1>10, <1>11,
     <1>12, <1>13, <1>14, <1>15, <1>16, <1>17, <1>18, <1>19, <1>20, <1>21, <1>22,
     <1>23
  DEF Next, UserNext, LoginNext, LoadNext, LogoutNext, Failures

(***************************************************************************)
(* IInv is an invariant of the specification.                              *)
(***************************************************************************)
LEMMA Invariance == Spec => []IInv
<1>1. IInv /\ [Next]_vars => IInv'
  BY TypeStep, SafeStep DEF IInv, Safe
<1> QED
  BY InitIInv, <1>1, PTL DEF Spec

(***************************************************************************)
(* The stored key, the server's sessions, Profile's state and the promise  *)
(* chains of Login.js and Profile.js always have their types.              *)
(***************************************************************************)
THEOREM TypeCorrect == Spec => []TypeOK
<1>1. IInv => TypeOK
  BY DEF IInv
<1> QED
  BY Invariance, <1>1, PTL

(***************************************************************************)
(* However many logins, failed logins, logouts and focus events overlap,   *)
(* the id and the token of a stored, copied or travelling key belong       *)
(* together (Login.js storeAuth, Profile.js getUser).                      *)
(***************************************************************************)
THEOREM KeysNeverMixed == Spec => []KeysAreIssued
<1>1. IInv => KeysAreIssued
  BY DEF IInv, Safe
<1> QED
  BY Invariance, <1>1, PTL

(***************************************************************************)
(* A stored key the server no longer accepts is always explained by a      *)
(* logout still being answered, a failed call or a second login with the   *)
(* same token (Profile.js Logout, removeUser).                             *)
(***************************************************************************)
THEOREM DeadKeysExplained == Spec => []DeadKeyExplained
<1>1. IInv => DeadKeyExplained
  BY DEF IInv, Safe
<1> QED
  BY Invariance, <1>1, PTL

(***************************************************************************)
(* What a logout under way knows.  Its token was issued; once the server   *)
(* has handled it the token is dead for good; and while it is fresh no     *)
(* other key is stored.                                                    *)
(***************************************************************************)
Pending == {"sent", "answered", "removing"}

TokenIssued == \A o \in Logouts : logout[o].token \in Tokens
                                     => owner[logout[o].token] \in Users

DeadOnceHandled == \A o \in Logouts : logout[o].st \in {"answered", "removing"}
                                         => logout[o].token \notin live

FreshIsStored ==
    \A o \in Logouts : logout[o].st \in Pending /\ logout[o].fresh
                            /\ store \in Keys => store.token = logout[o].token

LogoutInv == TokenIssued /\ DeadOnceHandled /\ FreshIsStored

LEMMA LogoutInit == Init => LogoutInv
  BY ConstantsOK DEF Init, LogoutInv, TokenIssued, DeadOnceHandled,
                     FreshIsStored, IdleLogout, Pending

(***************************************************************************)
(* Every step keeps what a logout under way knows (Profile.js Logout       *)
(* against Login.js storeAuth).                                            *)
(***************************************************************************)
LEMMA LogoutStep == IInv /\ LogoutInv /\ [Next]_vars => LogoutInv'
<1> SUFFICES ASSUME IInv, LogoutInv, [Next]_vars PROVE LogoutInv'
  OBVIOUS
<1> USE DEF LogoutInv
<1>t. /\ TypeOK /\ DOMAIN logout = Logouts
      /\ \A o \in Logouts : logout[o] \in LogoutChain
  BY DEF IInv, TypeOK
<1>0. ASSUME UNCHANGED <<store, owner, live, logout>> PROVE LogoutInv'
  BY <1>0 DEF TokenIssued, DeadOnceHandled, FreshIsStored
<1>1. ASSUME NEW a \in Logins, NEW t \in Tokens, ServerGrants(a, t)
      PROVE  LogoutInv'
  <2>0. /\ login[a].user \in Users
        /\ \A x \in Tokens : owner[x] \in Users => owner'[x] \in Users
        /\ live' = live \cup {t} /\ store' = store /\ logout' = logout
    BY <1>1, <1>t DEF ServerGrants, IInv, Safe, SentHasUser, TypeOK
  <2>1. TokenIssued' /\ FreshIsStored'
    BY <2>0 DEF TokenIssued, FreshIsStored
  <2>2. DeadOnceHandled'
    \* a token that was revoked has an owner and is not live: it is not granted
    BY <1>1, <2>0, ConstantsOK DEF DeadOnceHandled, TokenIssued, ServerGrants
  <2> QED BY <2>1, <2>2
<1>2. ASSUME NEW a \in Logins, StoreAuth(a) PROVE LogoutInv'
  <2>1. \A o \in Logouts : /\ logout'[o].st = logout[o].st
                            /\ logout'[o].token = logout[o].token
                            /\ ~logout'[o].fresh
    BY <1>2, <1>t DEF StoreAuth, LogoutChain
  <2>2. UNCHANGED <<owner, live>>
    BY <1>2 DEF StoreAuth
  <2> QED BY <2>1, <2>2 DEF TokenIssued, DeadOnceHandled, FreshIsStored
<1>3. ASSUME NEW o \in Logouts, Logout(o) PROVE LogoutInv'
  <2>0. /\ logout'[o].st = "sent" /\ logout'[o].token = profile.auth.token
        /\ logout'[o].fresh => profile.auth = Parse(store)
        /\ \A p \in Logouts : p # o => logout'[p] = logout[p]
        /\ UNCHANGED <<store, owner, live>>
    BY <1>3, <1>t DEF Logout
  <2>1. profile.auth.token \in Tokens => owner[profile.auth.token] \in Users
    <3>1. profile.auth \in Auths
      BY DEF IInv, TypeOK, ProfileState
    <3> QED BY <3>1, KeyParts DEF IInv, Safe, KeysAreIssued, Issued
  <2>2. TokenIssued'
    BY <2>0, <2>1 DEF TokenIssued
  <2>3. DeadOnceHandled'
    BY <2>0 DEF DeadOnceHandled
  <2>4. FreshIsStored'
    BY <2>0, ConstantsOK DEF FreshIsStored, Parse, Auths
  <2> QED BY <2>2, <2>3, <2>4
<1>4. ASSUME NEW o \in Logouts, ServerRevokes(o) PROVE LogoutInv'
  <2>0. /\ logout[o].st = "sent" /\ logout'[o].st = "answered"
        /\ logout'[o].token = logout[o].token
        /\ logout'[o].fresh = logout[o].fresh
        /\ \A p \in Logouts : p # o => logout'[p] = logout[p]
        /\ live' = live \ {logout[o].token} /\ UNCHANGED <<store, owner>>
    BY <1>4, <1>t DEF ServerRevokes, LogoutChain
  <2> QED BY <2>0 DEF TokenIssued, DeadOnceHandled, FreshIsStored, Pending
<1>5. ASSUME NEW o \in Logouts, LogoutAnswered(o) PROVE LogoutInv'
  <2>0. /\ logout[o].st = "answered" /\ logout'[o].st = "removing"
        /\ logout'[o].token = logout[o].token
        /\ logout'[o].fresh = logout[o].fresh
        /\ \A p \in Logouts : p # o => logout'[p] = logout[p]
        /\ UNCHANGED <<store, owner, live>>
    BY <1>5, <1>t DEF LogoutAnswered, LogoutChain
  <2> QED BY <2>0 DEF TokenIssued, DeadOnceHandled, FreshIsStored, Pending
<1>6. ASSUME NEW o \in Logouts, RemoveItem(o) \/ ClearProfile(o) \/ LogoutFails(o)
      PROVE  LogoutInv'
  <2>0. /\ logout'[o].st \in {"clearing", "idle"} /\ logout'[o].token = NoToken
        /\ \A p \in Logouts : p # o => logout'[p] = logout[p]
        /\ UNCHANGED <<owner, live>> /\ store' \in {store, Null}
    BY <1>6, <1>t DEF RemoveItem, ClearProfile, LogoutFails, IdleLogout
  <2>1. Null \notin Keys /\ NoToken \notin Tokens
    BY ConstantsOK DEF Auths
  <2> QED BY <2>0, <2>1 DEF TokenIssued, DeadOnceHandled, FreshIsStored, Pending
<1>7. \/ UNCHANGED <<store, owner, live, logout>>
      \/ \E a \in Logins : StoreAuth(a) \/ \E t \in Tokens : ServerGrants(a, t)
      \/ \E o \in Logouts : \/ Logout(o) \/ ServerRevokes(o) \/ LogoutAnswered(o)
                            \/ RemoveItem(o) \/ ClearProfile(o) \/ LogoutFails(o)
  BY DEF Next, UserNext, LoginNext, LoadNext, LogoutNext, Failures, vars,
         OpenOther, MountProfile, OpenProfile, DidFocus, HandleSubmit, GetUser,
         GetData, GetPhoto, GetUserFails, GetFails, ServerRefuses, LoginAccepted,
         LoginRejected, LoginFails
<1> QED
  BY <1>0, <1>1, <1>2, <1>3, <1>4, <1>5, <1>6, <1>7

(***************************************************************************)
(* A key that was the copied one at the press, and is still the stored one *)
(* when removeItem takes effect, is never removed from the device while    *)
(* the server accepts it (Profile.js Logout, removeUser).                  *)
(***************************************************************************)
THEOREM RemovedKeysAreDead == Spec => []RemovedKeyIsDead
<1>1. LogoutInv => RemovedKeyIsDead
  BY DEF LogoutInv, DeadOnceHandled, FreshIsStored, RemovedKeyIsDead, Pending
<1> QED
  BY LogoutInit, LogoutStep, Invariance, <1>1, PTL DEF Spec

(***************************************************************************)
(* For the refinement: a login that was refused, or not answered yet,      *)
(* carries the empty key.                                                  *)
(***************************************************************************)
EmptyUntilGranted == \A a \in Logins :
    login[a].st \in {"idle", "sent", "refused"} => login[a].auth = NoAuth

LEMMA EmptyInit == Init => EmptyUntilGranted
  BY DEF Init, EmptyUntilGranted, IdleLogin

LEMMA EmptyStep == TypeOK /\ EmptyUntilGranted /\ [Next]_vars => EmptyUntilGranted'
<1> SUFFICES ASSUME TypeOK, EmptyUntilGranted, [Next]_vars
             PROVE  EmptyUntilGranted'
  OBVIOUS
<1> USE DEF EmptyUntilGranted
<1>1. CASE UNCHANGED login
  BY <1>1
<1>2. ASSUME NEW a \in Logins, NEW u \in Users, HandleSubmit(a, u)
      PROVE  EmptyUntilGranted'
  BY <1>2 DEF HandleSubmit, TypeOK, LoginChain
<1>3. ASSUME NEW a \in Logins, NEW t \in Tokens, ServerGrants(a, t)
      PROVE  EmptyUntilGranted'
  BY <1>3 DEF ServerGrants, TypeOK, LoginChain
<1>4. ASSUME NEW a \in Logins,
             \/ ServerRefuses(a) \/ LoginAccepted(a) \/ LoginRejected(a)
             \/ StoreAuth(a) \/ LoginFails(a)
      PROVE  EmptyUntilGranted'
  BY <1>4 DEF ServerRefuses, LoginAccepted, LoginRejected, StoreAuth, LoginFails,
              IdleLogin, TypeOK, LoginChain
<1>5. \/ UNCHANGED login
      \/ \E a \in Logins : \/ \E u \in Users : HandleSubmit(a, u)
                           \/ \E t \in Tokens : ServerGrants(a, t)
                           \/ ServerRefuses(a) \/ LoginAccepted(a)
                           \/ LoginRejected(a) \/ StoreAuth(a) \/ LoginFails(a)
  BY DEF Next, UserNext, LoginNext, LoadNext, LogoutNext, Failures, vars,
         OpenOther, MountProfile, OpenProfile, DidFocus, Logout, GetUser, GetData,
         GetPhoto, GetUserFails, GetFails, ServerRevokes, LogoutAnswered,
         RemoveItem, ClearProfile, LogoutFails
<1> QED
  BY <1>1, <1>2, <1>3, <1>4, <1>5

(***************************************************************************)
(* What SessionKey sees of a state does not change when the stored value,  *)
(* the copied key, the answers, the logouts under way and the owners stay. *)
(***************************************************************************)
LEMMA Unseen == ASSUME store' = store, profile'.auth = profile.auth,
                       Answers' = Answers, Leaving' = Leaving,
                       Clearing' = Clearing, owner' = owner
                PROVE  UNCHANGED K!vars
  BY DEF K!vars, Parse

(***************************************************************************)
(* When one login chain changes, the answers change at that chain only.    *)
(***************************************************************************)
LEMMA OneAnswer == ASSUME TypeOK, NEW a \in Logins, NEW r,
                          login' = [login EXCEPT ![a] = r]
                   PROVE  Answers' = [Answers EXCEPT ![a] = Answer(r)]
<1>1. DOMAIN login = Logins /\ login'[a] = r
  BY DEF TypeOK
<1>2. \A b \in Logins : b # a => login'[b] = login[b]
  BY <1>1
<1> QED
  BY <1>1, <1>2 DEF Answers

(***************************************************************************)
(* When one logout chain changes, the requests under way and those being   *)
(* cleared change by that one at most.                                     *)
(***************************************************************************)
LEMMA OneLeaving == ASSUME TypeOK, NEW o \in Logouts, NEW r,
                           logout' = [logout EXCEPT ![o] = r]
                    PROVE  /\ Leaving' = IF r.st \in Pending THEN Leaving \cup {o}
                                         ELSE Leaving \ {o}
                           /\ Clearing' = IF r.st = "clearing"
                                          THEN Clearing \cup {o}
                                          ELSE Clearing \ {o}
<1>1. DOMAIN logout = Logouts /\ logout'[o] = r
  BY DEF TypeOK
<1>2. \A p \in Logouts : p # o => logout'[p] = logout[p]
  BY <1>1
<1> QED
  BY <1>1, <1>2 DEF Leaving, Clearing, Pending

(***************************************************************************)
(* A login that is stored changes only a history field of the logouts.     *)
(***************************************************************************)
LEMMA StoredUnseen == ASSUME TypeOK, NEW a \in Logins, StoreAuth(a)
                      PROVE  Leaving' = Leaving /\ Clearing' = Clearing
<1>1. \A o \in Logouts : logout'[o].st = logout[o].st
  BY DEF StoreAuth, TypeOK, LogoutChain
<1> QED
  BY <1>1 DEF Leaving, Clearing

(***************************************************************************)
(* The steps of a login, as SessionKey sees them.                          *)
(***************************************************************************)
LEMMA LoginRefines ==
    ASSUME TypeOK, SentHasUser, EmptyUntilGranted, NEW a \in Logins,
           \/ \E u \in Users : HandleSubmit(a, u)
           \/ LoginNext(a)
           \/ LoginFails(a)
    PROVE  [K!Next]_(K!vars)
<1>0. /\ Answers[a] = Answer(login[a]) /\ DOMAIN Answers = Logins
      /\ login[a] \in LoginChain
  BY DEF Answers, TypeOK
<1>a. login[a].auth \in Auths
  BY <1>0 DEF LoginChain
<1>b. Null \notin Auths /\ NoAuth \in Auths
  BY ConstantsOK, NoAuthIsNoKey
<1>1. ASSUME NEW u \in Users, HandleSubmit(a, u) PROVE UNCHANGED K!vars
  <2> DEFINE r == [st |-> "sent", user |-> u, auth |-> NoAuth]
  <2>0. login' = [login EXCEPT ![a] = r] /\ Answer(r) = Null
    BY <1>1 DEF HandleSubmit, Answer
  <2>1. Answers' = [Answers EXCEPT ![a] = Null]
    BY <2>0, OneAnswer
  <2>2. Answers' = Answers
    BY <1>0, <1>1, <2>1, Zenon DEF HandleSubmit, Answer, Answers
  <2> QED BY <1>1, <2>2, Unseen DEF HandleSubmit, Leaving, Clearing
<1>2. ASSUME NEW t \in Tokens, ServerGrants(a, t) PROVE K!Next
  <2> DEFINE u == login[a].user
  <2>1. u \in Users
    BY <1>2 DEF ServerGrants, SentHasUser
  <2>2. Answers' = [Answers EXCEPT ![a] = [id |-> u, token |-> t]]
    <3> DEFINE r == [login[a] EXCEPT !.st = "granted",
                                     !.auth = [id |-> u, token |-> t]]
    <3>1. login' = [login EXCEPT ![a] = r]
      BY <1>2 DEF ServerGrants, TypeOK
    <3>2. r.st = "granted" /\ r.auth = [id |-> u, token |-> t]
      BY <1>0 DEF LoginChain
    <3>3. Answer(r) = [id |-> u, token |-> t]
      BY <3>2 DEF Answer
    <3> QED BY <3>1, <3>3, OneAnswer
  <2>3. Answers[a] = Null /\ owner[t] \in {NoUser, u}
    BY <1>0, <1>2 DEF ServerGrants, Answer
  <2>4. K!Grant(a, u, t)
    BY <1>2, <2>2, <2>3 DEF K!Grant, ServerGrants, Parse, Leaving, Clearing
  <2> QED BY <2>1, <2>4 DEF K!Next
<1>3. ASSUME ServerRefuses(a) PROVE K!Next
  <2> DEFINE r == [login[a] EXCEPT !.st = "refused", !.user = NoUser]
  <2>1. login' = [login EXCEPT ![a] = r]
    BY <1>3 DEF ServerRefuses, TypeOK
  <2>2. r.st = "refused" /\ r.auth = NoAuth
    BY <1>0, <1>3 DEF LoginChain, EmptyUntilGranted, ServerRefuses
  <2>3. Answer(r) = NoAuth
    BY <2>2 DEF Answer
  <2>4. Answers' = [Answers EXCEPT ![a] = NoAuth]
    BY <2>1, <2>3, OneAnswer
  <2>5. Answers[a] = Null
    BY <1>0, <1>3 DEF ServerRefuses, Answer
  <2>6. K!Refuse(a)
    BY <1>3, <2>4, <2>5 DEF K!Refuse, ServerRefuses, Parse, Leaving, Clearing
  <2> QED BY <2>6 DEF K!Next
<1>4. ASSUME LoginAccepted(a) PROVE UNCHANGED K!vars
  <2> DEFINE r == [login[a] EXCEPT !.st = "storing"]
  <2>1. login' = [login EXCEPT ![a] = r]
    BY <1>4 DEF LoginAccepted, TypeOK
  <2>2. r.st = "storing" /\ r.auth = login[a].auth
    BY <1>0 DEF LoginChain
  <2>3. Answer(r) = Answers[a]
    BY <1>0, <1>4, <2>2 DEF Answer, LoginAccepted
  <2>4. Answers' = [Answers EXCEPT ![a] = Answers[a]]
    BY <2>1, <2>3, OneAnswer
  <2>5. Answers' = Answers
    BY <2>4 DEF Answers
  <2> QED BY <1>4, <2>5, Unseen DEF LoginAccepted, Leaving, Clearing
<1>5. ASSUME LoginRejected(a) PROVE UNCHANGED K!vars
  <2> DEFINE r == [login[a] EXCEPT !.st = "storing", !.auth = NoAuth]
  <2>1. login' = [login EXCEPT ![a] = r]
    BY <1>5 DEF LoginRejected, TypeOK
  <2>2. r.st = "storing" /\ r.auth = NoAuth
    BY <1>0 DEF LoginChain
  <2>3. Answer(r) = Answers[a]
    BY <1>0, <1>5, <2>2 DEF Answer, LoginRejected, EmptyUntilGranted
  <2>4. Answers' = [Answers EXCEPT ![a] = Answers[a]]
    BY <2>1, <2>3, OneAnswer
  <2>5. Answers' = Answers
    BY <2>4 DEF Answers
  <2> QED BY <1>5, <2>5, Unseen DEF LoginRejected, Leaving, Clearing
<1>6. ASSUME StoreAuth(a) PROVE K!Next
  <2>0. login' = [login EXCEPT ![a] = IdleLogin] /\ Answer(IdleLogin) = Null
    BY <1>6 DEF StoreAuth, Answer, IdleLogin
  <2>1. Answers' = [Answers EXCEPT ![a] = Null]
    BY <2>0, OneAnswer
  <2>2. Answers[a] = login[a].auth /\ Answers[a] # Null
    BY <1>0, <1>6, <1>a, <1>b DEF StoreAuth, Answer
  <2>3. Parse(store)' = Answers[a]
    BY <1>6, <2>2 DEF StoreAuth, Parse
  <2>4. K!Adopt(a)
    BY <1>6, <2>1, <2>2, <2>3, StoredUnseen DEF K!Adopt, StoreAuth
  <2> QED BY <2>4 DEF K!Next
<1>7. ASSUME LoginFails(a) PROVE [K!Next]_(K!vars)
  <2>0. login' = [login EXCEPT ![a] = IdleLogin] /\ Answer(IdleLogin) = Null
    BY <1>7 DEF LoginFails, Answer, IdleLogin
  <2>1. Answers' = [Answers EXCEPT ![a] = Null]
    BY <2>0, OneAnswer
  <2>2. CASE Answers[a] = Null
    <3>1. Answers' = Answers
      BY <1>0, <2>1, <2>2, Zenon DEF Answers
    <3> QED BY <1>7, <3>1, Unseen DEF LoginFails, Leaving, Clearing
  <2>3. CASE Answers[a] # Null
    <3>1. K!Drop(a)
      BY <1>7, <2>1, <2>3 DEF K!Drop, LoginFails, Parse, Leaving, Clearing
    <3> QED BY <3>1 DEF K!Next
  <2> QED BY <2>2, <2>3
<1> QED
  BY <1>1, <1>2, <1>3, <1>4, <1>5, <1>6, <1>7 DEF LoginNext

(***************************************************************************)
(* The steps of a logout, as SessionKey sees them.                         *)
(***************************************************************************)
LEMMA LogoutRefines ==
    ASSUME TypeOK, NEW o \in Logouts,
           Logout(o) \/ LogoutNext(o) \/ LogoutFails(o)
    PROVE  [K!Next]_(K!vars)
<1>0. /\ logout[o] \in LogoutChain
      /\ o \in Leaving <=> logout[o].st \in Pending
      /\ o \in Clearing <=> logout[o].st = "clearing"
  BY DEF Leaving, Clearing, Pending, TypeOK
<1>1. ASSUME Logout(o) PROVE K!Next
  <2> DEFINE r == [st |-> "sent", token |-> profile.auth.token,
                   fresh |-> profile.auth = Parse(store)]
  <2>1. logout' = [logout EXCEPT ![o] = r] /\ r.st = "sent"
    BY <1>1 DEF Logout
  <2> HIDE DEF r
  <2>a. logout[o].st = "idle"
    BY <1>1 DEF Logout
  <2>b. /\ Leaving' = IF r.st \in Pending THEN Leaving \cup {o}
                     ELSE Leaving \ {o}
        /\ Clearing' = IF r.st = "clearing" THEN Clearing \cup {o}
                      ELSE Clearing \ {o}
    BY ONLY <2>1, OneLeaving, TypeOK, o \in Logouts
  <2>2. /\ Leaving' = Leaving \cup {o} /\ o \notin Leaving
        /\ Clearing' = Clearing /\ o \notin Clearing
    BY <1>0, <2>1, <2>a, <2>b DEF Pending
  <2>3. K!AskToLeave(o)
    BY <1>1, <2>2 DEF K!AskToLeave, Logout, Parse, Answers
  <2> QED BY <2>3 DEF K!Next
<1>2. ASSUME ServerRevokes(o) PROVE UNCHANGED K!vars
  <2> DEFINE r == [logout[o] EXCEPT !.st = "answered"]
  <2>1. logout' = [logout EXCEPT ![o] = r]
    BY <1>2 DEF ServerRevokes, TypeOK
  <2>2. r.st = "answered" /\ o \in Leaving /\ o \notin Clearing
    BY <1>0, <1>2 DEF LogoutChain, ServerRevokes, Pending
  <2> HIDE DEF r
  <2>b. /\ Leaving' = IF r.st \in Pending THEN Leaving \cup {o}
                     ELSE Leaving \ {o}
        /\ Clearing' = IF r.st = "clearing" THEN Clearing \cup {o}
                      ELSE Clearing \ {o}
    BY ONLY <2>1, OneLeaving, TypeOK, o \in Logouts
  <2>3. Leaving' = Leaving /\ Clearing' = Clearing
    BY <2>1, <2>2, <2>b DEF Pending
  <2> QED BY <1>2, <2>3, Unseen DEF ServerRevokes, Answers
<1>3. ASSUME LogoutAnswered(o) PROVE UNCHANGED K!vars
  <2> DEFINE r == [logout[o] EXCEPT !.st = "removing"]
  <2>1. logout' = [logout EXCEPT ![o] = r]
    BY <1>3 DEF LogoutAnswered, TypeOK
  <2>2. r.st = "removing" /\ o \in Leaving /\ o \notin Clearing
    BY <1>0, <1>3 DEF LogoutChain, LogoutAnswered, Pending
  <2> HIDE DEF r
  <2>b. /\ Leaving' = IF r.st \in Pending THEN Leaving \cup {o}
                     ELSE Leaving \ {o}
        /\ Clearing' = IF r.st = "clearing" THEN Clearing \cup {o}
                      ELSE Clearing \ {o}
    BY ONLY <2>1, OneLeaving, TypeOK, o \in Logouts
  <2>3. Leaving' = Leaving /\ Clearing' = Clearing
    BY <2>1, <2>2, <2>b DEF Pending
  <2> QED BY <1>3, <2>3, Unseen DEF LogoutAnswered, Answers
<1>4. ASSUME RemoveItem(o) PROVE K!Next
  <2> DEFINE r == [IdleLogout EXCEPT !.st = "clearing"]
  <2>1. logout' = [logout EXCEPT ![o] = r] /\ r.st = "clearing"
    BY <1>4 DEF RemoveItem, IdleLogout
  <2> HIDE DEF r
  <2>a. logout[o].st = "removing"
    BY <1>4 DEF RemoveItem
  <2>b. /\ Leaving' = IF r.st \in Pending THEN Leaving \cup {o}
                     ELSE Leaving \ {o}
        /\ Clearing' = IF r.st = "clearing" THEN Clearing \cup {o}
                      ELSE Clearing \ {o}
    BY ONLY <2>1, OneLeaving, TypeOK, o \in Logouts
  <2>2. /\ Leaving' = Leaving \ {o} /\ o \in Leaving
        /\ Clearing' = Clearing \cup {o}
    BY <1>0, <2>1, <2>a, <2>b DEF Pending
  <2>3. Parse(store)' = NoAuth
    BY <1>4 DEF RemoveItem, Parse
  <2>4. K!SignOut(o)
    BY <1>4, <2>2, <2>3 DEF K!SignOut, RemoveItem, Answers
  <2> QED BY <2>4 DEF K!Next
<1>5. ASSUME LogoutFails(o) PROVE K!Next
  <2>1. logout' = [logout EXCEPT ![o] = IdleLogout] /\ IdleLogout.st = "idle"
    BY <1>5 DEF LogoutFails, IdleLogout
  <2>a. logout[o].st \in Pending
    BY <1>5 DEF LogoutFails, Pending
  <2>b. /\ Leaving' = IF IdleLogout.st \in Pending THEN Leaving \cup {o}
                     ELSE Leaving \ {o}
        /\ Clearing' = IF IdleLogout.st = "clearing" THEN Clearing \cup {o}
                      ELSE Clearing \ {o}
    BY ONLY <2>1, OneLeaving, TypeOK, o \in Logouts
  <2>2. /\ Leaving' = Leaving \ {o} /\ o \in Leaving
        /\ Clearing' = Clearing
    BY <1>0, <2>1, <2>a, <2>b DEF Pending
  <2>3. K!StayIn(o)
    BY <1>5, <2>2 DEF K!StayIn, LogoutFails, Parse, Answers
  <2> QED BY <2>3 DEF K!Next
<1>6. ASSUME ClearProfile(o) PROVE K!Next
  <2>1. logout' = [logout EXCEPT ![o] = IdleLogout] /\ IdleLogout.st = "idle"
    BY <1>6 DEF ClearProfile, IdleLogout
  <2>a. logout[o].st = "clearing"
    BY <1>6 DEF ClearProfile
  <2>b. /\ Leaving' = IF IdleLogout.st \in Pending THEN Leaving \cup {o}
                     ELSE Leaving \ {o}
        /\ Clearing' = IF IdleLogout.st = "clearing" THEN Clearing \cup {o}
                      ELSE Clearing \ {o}
    BY ONLY <2>1, OneLeaving, TypeOK, o \in Logouts
  <2>2. /\ Leaving' = Leaving
        /\ Clearing' = Clearing \ {o} /\ o \in Clearing
    BY <1>0, <2>1, <2>a, <2>b DEF Pending
  <2>3. profile'.auth = NoAuth
    BY <1>6 DEF ClearProfile
  <2>4. K!ClearCopy(o)
    BY <1>6, <2>2, <2>3 DEF K!ClearCopy, ClearProfile, Parse, Answers
  <2> QED BY <2>4 DEF K!Next
<1> QED
  BY <1>1, <1>2, <1>3, <1>4, <1>5, <1>6 DEF LogoutNext

(***************************************************************************)
(* The steps of a load, as SessionKey sees them: only getUser shows.       *)
(***************************************************************************)
LEMMA LoadRefines ==
    ASSUME TypeOK, NEW l \in Loads, LoadNext(l)
    PROVE  [K!Next]_(K!vars)
<1>1. ASSUME GetUser(l) PROVE K!Next
  <2>1. profile'.auth = Parse(store)
    BY <1>1 DEF GetUser, TypeOK, ProfileState
  <2>2. K!TakeCopy
    BY <1>1, <2>1 DEF K!TakeCopy, GetUser, Parse, Answers, Leaving, Clearing
  <2> QED BY <2>2 DEF K!Next
<1>2. ASSUME GetData(l) PROVE UNCHANGED K!vars
  <2>1. profile'.auth = profile.auth
    BY <1>2 DEF GetData, TypeOK, ProfileState
  <2> QED BY <1>2, <2>1, Unseen DEF GetData, Answers, Leaving, Clearing
<1>3. ASSUME GetPhoto(l) PROVE UNCHANGED K!vars
  <2>1. profile'.auth = profile.auth
    BY <1>3 DEF GetPhoto, TypeOK, ProfileState
  <2> QED BY <1>3, <2>1, Unseen DEF GetPhoto, Answers, Leaving, Clearing
<1> QED
  BY <1>1, <1>2, <1>3 DEF LoadNext

(***************************************************************************)
(* Login.js and Profile.js implement the register of SessionKey: the       *)
(* initial state is an initial state of the register, and every step is    *)
(* one of its steps or leaves what it sees alone.                          *)
(***************************************************************************)
THEOREM SessionRefines == Spec => ImplementsSessionKey
<1>1. Init => K!Init
  <2> SUFFICES ASSUME Init PROVE K!Init
    OBVIOUS
  <2>1. Parse(store) = NoAuth /\ profile.auth = NoAuth
    BY DEF Init, Parse
  <2>2. Answers = [a \in Logins |-> Null]
    BY DEF Init, Answers, Answer, IdleLogin
  <2>3. Leaving = {} /\ Clearing = {}
    BY DEF Init, Leaving, Clearing, IdleLogout
  <2> QED BY <2>1, <2>2, <2>3 DEF K!Init, Init
<1>2. TypeOK /\ SentHasUser /\ EmptyUntilGranted /\ [Next]_vars
        => [K!Next]_(K!vars)
  <2> SUFFICES ASSUME TypeOK, SentHasUser, EmptyUntilGranted, [Next]_vars
               PROVE  [K!Next]_(K!vars)
    OBVIOUS
  <2>1. ASSUME UNCHANGED <<store, owner, login, profile, logout>>
        PROVE  UNCHANGED K!vars
    BY <2>1, Unseen DEF Answers, Leaving, Clearing
  <2>2. \/ UNCHANGED <<store, owner, login, profile, logout>>
        \/ \E a \in Logins : \/ \E u \in Users : HandleSubmit(a, u)
                             \/ LoginNext(a) \/ LoginFails(a)
        \/ \E l \in Loads : LoadNext(l)
        \/ \E o \in Logouts : Logout(o) \/ LogoutNext(o) \/ LogoutFails(o)
    BY DEF Next, UserNext, Failures, vars, OpenOther, MountProfile,
           OpenProfile, DidFocus, GetUserFails, GetFails
  <2> QED BY <2>1, <2>2, LoginRefines, LoadRefines, LogoutRefines
<1>3. IInv => TypeOK /\ SentHasUser
  BY DEF IInv, Safe
<1>4. Spec => []EmptyUntilGranted
  BY EmptyInit, EmptyStep, TypeCorrect, PTL DEF Spec
<1> QED
  BY <1>1, <1>2, <1>3, <1>4, Invariance, PTL DEF Spec, ImplementsSessionKey, K!Spec

=============================================================================
