------------------------------ MODULE Session ------------------------------
(***************************************************************************)
(* The session key of the app: how screens/Login.js creates it and how     *)
(* screens/Profile.js uses and removes it.                                 *)
(*                                                                         *)
(* The key {id, token} a successful login returns is kept under 'auth' in  *)
(* AsyncStorage.  Every screen copies it into its own React state when it  *)
(* gets the focus, so there are three places that can disagree: the        *)
(* server's live tokens, the stored key and the copies.  Nothing is        *)
(* atomic: a fetch is sent, handled by the server and answered in three    *)
(* steps, and an AsyncStorage call takes effect some time after it was     *)
(* made.  Answers arrive in any order, and a call can fail at any stage.   *)
(*                                                                         *)
(* A promise chain that is under way is a record with a state field; its   *)
(* name (a member of Logins, Loads or Logouts) can be used again when the  *)
(* chain has settled, so the sizes of these sets bound what is in flight   *)
(* at once and not what can happen in all.                                 *)
(***************************************************************************)
EXTENDS Forms

CONSTANTS Users,   \* account ids
          Tokens,  \* the tokens the server can issue
          Logins,  \* names of Login.handleSubmit chains
          Loads,   \* names of Profile.getUser chains
          Logouts, \* names of Profile.Logout chains
          NoUser,  \* an id that is undefined
          NoToken, \* a token that is undefined
          Null,    \* AsyncStorage has no value under 'auth'
          Faulty   \* BOOLEAN: fetches and storage calls may fail

VARIABLES store,   \* AsyncStorage: the value under 'auth'
          owner,   \* server: whom each token was issued to
          live,    \* server: the tokens it accepts
          screen,  \* the drawer's active route
          mounted, \* Profile has been mounted (the drawer mounts it lazily)
          focusing,\* Profile is active and its didFocus event is still due
          login,   \* Login.handleSubmit chains
          profile, \* React state of Profile
          load,    \* Profile.getUser chains
          logout,  \* Profile.Logout chains
          excused  \* history: tokens revoked without the app seeing it

vars == <<store, owner, live, screen, mounted, focusing, login, profile,
          load, logout, excused>>

(***************************************************************************)
(* A key as the app holds it; NoAuth is the empty object {}.               *)
(***************************************************************************)
NoAuth == [id |-> NoUser, token |-> NoToken]
Keys == [id : Users, token : Tokens]
Auths == Keys \cup {NoAuth}

ASSUME ConstantsOK == /\ NoUser \notin Users
                      /\ NoToken \notin Tokens
                      /\ Null \notin Auths
                      /\ Faulty \in BOOLEAN

IdleLogin  == [st |-> "idle", user |-> NoUser, auth |-> NoAuth]
IdleLoad   == [st |-> "idle", id |-> NoUser, data |-> FALSE, photo |-> FALSE]
IdleLogout == [st |-> "idle", token |-> NoToken, fresh |-> FALSE]

Init == /\ store = Null
        /\ owner = [t \in Tokens |-> NoUser]
        /\ live = {}
        /\ screen = "Home"
        /\ mounted = FALSE
        /\ focusing = FALSE
        /\ login = [a \in Logins |-> IdleLogin]
        /\ profile = [auth |-> NoAuth, details |-> NoUser, photo |-> NoUser]
        /\ load = [l \in Loads |-> IdleLoad]
        /\ logout = [o \in Logouts |-> IdleLogout]
        /\ excused = {}

-----------------------------------------------------------------------------
(***************************************************************************)
(* The drawer lists Home, Login and Profile to everyone, logged in or not. *)
(***************************************************************************)
Start(l) == load' = [load EXCEPT ![l] = [IdleLoad EXCEPT !.st = "reading"]]

\* The user picks Home or Login.
OpenOther(s) ==
    /\ s \in {"Home", "Login"} \ {screen}
    /\ screen' = s
    /\ focusing' = FALSE
    /\ UNCHANGED <<store, owner, live, mounted, login, profile, load, logout,
                   excused>>

\* The user picks Profile for the first time: componentDidMount calls getUser.
MountProfile(l) ==
    /\ ~mounted
    /\ screen # "Profile"
    /\ load[l].st = "idle"
    /\ screen' = "Profile"
    /\ mounted' = TRUE
    /\ focusing' = TRUE
    /\ Start(l)
    /\ UNCHANGED <<store, owner, live, login, profile, logout, excused>>

\* The user returns to Profile, which stayed mounted.
OpenProfile ==
    /\ mounted
    /\ screen # "Profile"
    /\ screen' = "Profile"
    /\ focusing' = TRUE
    /\ UNCHANGED <<store, owner, live, mounted, login, profile, load, logout,
                   excused>>

\* <NavigationEvents onDidFocus={() => this.getUser()} />
DidFocus(l) ==
    /\ focusing
    /\ load[l].st = "idle"
    /\ focusing' = FALSE
    /\ Start(l)
    /\ UNCHANGED <<store, owner, live, screen, mounted, login, profile, logout,
                   excused>>

-----------------------------------------------------------------------------
(***************************************************************************)
(* Login.js                                                                *)
(***************************************************************************)
\* The user submits the form: POST /login is sent.
HandleSubmit(a, u) ==
    /\ screen = "Login"
    /\ FormSubmits
    /\ login[a].st = "idle"
    /\ login' = [login EXCEPT ![a] = [st |-> "sent", user |-> u,
                                      auth |-> NoAuth]]
    /\ UNCHANGED <<store, owner, live, screen, mounted, focusing, profile,
                   load, logout, excused>>

\* External server: the credentials are right.  It answers 200 with a token,
\* a new one or one that the account already has.
ServerGrants(a, t) ==
    /\ login[a].st = "sent"
    /\ \/ owner[t] = NoUser
       \/ t \in live /\ owner[t] = login[a].user
    /\ owner' = [owner EXCEPT ![t] = login[a].user]
    /\ live' = live \cup {t}
    /\ login' = [login EXCEPT ![a].st = "granted",
                              ![a].auth = [id |-> login[a].user, token |-> t]]
    /\ UNCHANGED <<store, screen, mounted, focusing, profile, load, logout,
                   excused>>

\* External server: any other status.
ServerRefuses(a) ==
    /\ login[a].st = "sent"
    /\ login' = [login EXCEPT ![a].st = "refused", ![a].user = NoUser]
    /\ UNCHANGED <<store, owner, live, screen, mounted, focusing, profile,
                   load, logout, excused>>

\* A 200 arrives: navigate('Home') first; the body is then read and handed to
\* storeAuth, which shows only when setItem takes effect (StoreAuth).
LoginAccepted(a) ==
    /\ login[a].st = "granted"
    /\ login' = [login EXCEPT ![a].st = "storing"]
    /\ screen' = "Home"
    /\ focusing' = FALSE
    /\ UNCHANGED <<store, owner, live, mounted, profile, load, logout, excused>>

\* Another status arrives: an alert, and the chain goes on with {}, which
\* storeAuth writes over whatever key is stored.
Bug_RejectReturnsNothing(a) ==
    /\ login[a].st = "refused"
    /\ login' = [login EXCEPT ![a].st = "storing", ![a].auth = Null]
    /\ UNCHANGED <<store, owner, live, screen, mounted, focusing, profile,
                   load, logout, excused>>

Bug_ClearAtOnce(a) ==
    /\ login[a].st = "refused"
    /\ store' = NoAuth
    /\ login' = [login EXCEPT ![a].st = "storing", ![a].auth = NoAuth]
    /\ UNCHANGED <<owner, live, screen, mounted, focusing, profile, load,
                   logout, excused>>

LoginRejected(a) ==
    /\ login[a].st = "refused"
    /\ login' = [login EXCEPT ![a].st = "storing", ![a].auth = NoAuth]
    /\ UNCHANGED <<store, owner, live, screen, mounted, focusing, profile,
                   load, logout, excused>>

\* The body has been read, storeAuth('auth', responseJson) has called setItem,
\* and it takes effect.
Bug_StoreOldId(a) ==
    /\ login[a].st = "storing"
    /\ store' = IF store = Null THEN login[a].auth
                ELSE [login[a].auth EXCEPT !.id = store.id]
    /\ login' = [login EXCEPT ![a] = IdleLogin]
    /\ UNCHANGED <<owner, live, screen, mounted, focusing, profile, load,
                   logout, excused>>

Bug_StoreOnlyWhenEmpty(a) ==
    /\ login[a].st = "storing"
    /\ store' = IF store = Null THEN login[a].auth ELSE store
    /\ login' = [login EXCEPT ![a] = IdleLogin]
    /\ UNCHANGED <<owner, live, screen, mounted, focusing, profile, load,
                   logout, excused>>

StoreAuth(a) ==
    /\ login[a].st = "storing"
    /\ store' = login[a].auth
    /\ login' = [login EXCEPT ![a] = IdleLogin]
    /\ logout' = [o \in Logouts |-> [logout[o] EXCEPT !.fresh = FALSE]]
    /\ UNCHANGED <<owner, live, screen, mounted, focusing, profile, load,
                   excused>>

\* The fetch, the reading of the body or setItem is rejected: both catch
\* blocks only log.
LoginFails(a) ==
    /\ Faulty
    /\ login[a].st # "idle"
    /\ login' = [login EXCEPT ![a] = IdleLogin]
    /\ UNCHANGED <<store, owner, live, screen, mounted, focusing, profile,
                   load, logout, excused>>

-----------------------------------------------------------------------------
(***************************************************************************)
(* Profile.js: getUser, getData, getPhoto                                  *)
(***************************************************************************)
\* JSON.parse(response) || {}
Parse(v) == IF v = Null THEN NoAuth ELSE v

\* A load whose two fetches are over has settled.
Settle(r) == IF r.data \/ r.photo THEN r ELSE IdleLoad

\* getItem answers: the key is copied, and both fetches are sent with its id,
\* which is undefined when nobody is logged in.
GetUser(l) ==
    LET auth == Parse(store) IN
    /\ load[l].st = "reading"
    /\ profile' = [profile EXCEPT !.auth = auth]
    /\ load' = [load EXCEPT ![l] = [st |-> "fetching", id |-> auth.id,
                                    data |-> TRUE, photo |-> TRUE]]
    /\ UNCHANGED <<store, owner, live, screen, mounted, focusing, login,
                   logout, excused>>

\* getItem is rejected; nothing catches it and nothing follows.
GetUserFails(l) ==
    /\ Faulty
    /\ load[l].st = "reading"
    /\ load' = [load EXCEPT ![l] = IdleLoad]
    /\ UNCHANGED <<store, owner, live, screen, mounted, focusing, login,
                   profile, logout, excused>>

\* GET /user/<id> answers.  The error text answered for /user/undefined is not
\* JSON, so that chain ends in its catch.
GetData(l) ==
    /\ load[l].st = "fetching" /\ load[l].data
    /\ profile' = [profile EXCEPT !.details = IF load[l].id \in Users
                                              THEN load[l].id ELSE @]
    /\ load' = [load EXCEPT ![l] = Settle([@ EXCEPT !.data = FALSE])]
    /\ UNCHANGED <<store, owner, live, screen, mounted, focusing, login,
                   logout, excused>>

\* GET /user/<id>/photo answers and the blob is read.  The status is not
\* looked at: the answer for /user/undefined/photo is an image of nobody.
GetPhoto(l) ==
    /\ load[l].st = "fetching" /\ load[l].photo
    /\ profile' = [profile EXCEPT !.photo = load[l].id]
    /\ load' = [load EXCEPT ![l] = Settle([@ EXCEPT !.photo = FALSE])]
    /\ UNCHANGED <<store, owner, live, screen, mounted, focusing, login,
                   logout, excused>>

\* One of the two fetches is rejected and logged.
GetFails(l, data) ==
    /\ Faulty
    /\ load[l].st = "fetching"
    /\ IF data THEN load[l].data ELSE load[l].photo
    /\ load' = [load EXCEPT ![l] = Settle(IF data
                                          THEN [@ EXCEPT !.data = FALSE]
                                          ELSE [@ EXCEPT !.photo = FALSE])]
    /\ UNCHANGED <<store, owner, live, screen, mounted, focusing, login,
                   profile, logout, excused>>

-----------------------------------------------------------------------------
(***************************************************************************)
(* Profile.js: Logout, removeUser                                          *)
(***************************************************************************)
\* The Logout button: POST /logout with the token of the copied key.  History:
\* fresh says that the copy was the stored key, and no login has stored one
\* since.
Bug_RemoveAtOnce(o) ==
    /\ screen = "Profile"
    /\ FormButton
    /\ logout[o].st = "idle"
    /\ logout' = [logout EXCEPT ![o] = [st |-> "removing",
                                        token |-> profile.auth.token,
                                        fresh |-> profile.auth = Parse(store)]]
    /\ UNCHANGED <<store, owner, live, screen, mounted, focusing, login,
                   profile, load, excused>>

Logout(o) ==
    /\ screen = "Profile"
    /\ FormButton
    /\ logout[o].st = "idle"
    /\ logout' = [logout EXCEPT ![o] = [st |-> "sent",
                                        token |-> profile.auth.token,
                                        fresh |-> profile.auth = Parse(store)]]
    /\ UNCHANGED <<store, owner, live, screen, mounted, focusing, login,
                   profile, load, excused>>

\* A login answer that carries token t has not reached the storage yet.
Carries(a, t) ==
    /\ login[a].st \in {"granted", "storing"}
    /\ login[a].auth.token = t

\* External server: the token is no longer accepted (an undefined or unknown
\* token changes nothing); it answers either way.
ServerRevokes(o) ==
    /\ logout[o].st = "sent"
    /\ live' = live \ {logout[o].token}
    /\ logout' = [logout EXCEPT ![o].st = "answered"]
    /\ excused' = IF \E a \in Logins : Carries(a, logout[o].token)
                  THEN excused \cup ({logout[o].token} \cap Tokens)
                  ELSE excused
    /\ UNCHANGED <<store, owner, screen, mounted, focusing, login, profile,
                   load>>

\* The answer arrives, whatever its status: removeUser is called and the app
\* navigates to Home while removeItem is still under way.
Bug_LogoutWithoutRemoval(o) ==
    /\ logout[o].st = "answered"
    /\ logout' = [logout EXCEPT ![o] = IdleLogout]
    /\ screen' = "Home"
    /\ focusing' = FALSE
    /\ UNCHANGED <<store, owner, live, mounted, login, profile, load, excused>>

LogoutAnswered(o) ==
    /\ logout[o].st = "answered"
    /\ logout' = [logout EXCEPT ![o].st = "removing"]
    /\ screen' = "Home"
    /\ focusing' = FALSE
    /\ UNCHANGED <<store, owner, live, mounted, login, profile, load, excused>>

\* removeUser: removeItem takes effect.
RemoveItem(o) ==
    /\ logout[o].st = "removing"
    /\ store' = Null
    /\ logout' = [logout EXCEPT ![o] = [IdleLogout EXCEPT !.st = "clearing"]]
    /\ UNCHANGED <<owner, live, screen, mounted, focusing, login, profile, load,
                   excused>>

\* removeUser goes on after the await: what Profile holds by now is cleared.
ClearProfile(o) ==
    /\ logout[o].st = "clearing"
    /\ profile' = [auth |-> NoAuth, details |-> NoUser, photo |-> NoUser]
    /\ logout' = [logout EXCEPT ![o] = IdleLogout]
    /\ UNCHANGED <<store, owner, live, screen, mounted, focusing, login, load,
                   excused>>

\* The fetch or removeItem is rejected and logged.  When the server had
\* already handled the request the app keeps a key the server refuses.
LogoutFails(o) ==
    /\ Faulty
    /\ logout[o].st \in {"sent", "answered", "removing"}
    /\ logout' = [logout EXCEPT ![o] = IdleLogout]
    /\ excused' = IF logout[o].st = "sent" THEN excused
                  ELSE excused \cup ({logout[o].token} \cap Tokens)
    /\ UNCHANGED <<store, owner, live, screen, mounted, focusing, login,
                   profile, load>>

-----------------------------------------------------------------------------
LoginNext(a) ==
    \/ \E t \in Tokens : ServerGrants(a, t)
    \/ ServerRefuses(a)
    \/ LoginAccepted(a)
    \/ LoginRejected(a)
    \/ StoreAuth(a)

LoadNext(l) == GetUser(l) \/ GetData(l) \/ GetPhoto(l)

LogoutNext(o) == \/ ServerRevokes(o) \/ LogoutAnswered(o)
                 \/ RemoveItem(o) \/ ClearProfile(o)

UserNext ==
    \/ \E s \in {"Home", "Login"} : OpenOther(s)
    \/ \E l \in Loads : MountProfile(l)
    \/ OpenProfile
    \/ \E a \in Logins, u \in Users : HandleSubmit(a, u)
    \/ \E o \in Logouts : Logout(o)

Failures ==
    \/ \E a \in Logins : LoginFails(a)
    \/ \E l \in Loads : GetUserFails(l)
    \/ \E l \in Loads, d \in BOOLEAN : GetFails(l, d)
    \/ \E o \in Logouts : LogoutFails(o)

Next == \/ UserNext
        \/ \E l \in Loads : DidFocus(l)
        \/ \E a \in Logins : LoginNext(a)
        \/ \E l \in Loads : LoadNext(l)
        \/ \E o \in Logouts : LogoutNext(o)
        \/ Failures

Spec == Init /\ [][Next]_vars

(***************************************************************************)
(* Fairness: the server answers what reaches it, an answer that arrived is *)
(* handled by the JavaScript event loop, and AsyncStorage completes its    *)
(* calls.  The user is not fair.                                           *)
(***************************************************************************)
Fairness == /\ \A a \in Logins : WF_vars(LoginNext(a))
            /\ \A l \in Loads : WF_vars(LoadNext(l))
            /\ \A o \in Logouts : WF_vars(LogoutNext(o))

FairSpec == Spec /\ Fairness

-----------------------------------------------------------------------------
(***************************************************************************)
(* Properties                                                              *)
(***************************************************************************)
LoginChain == [st : {"idle", "sent", "granted", "refused", "storing"},
               user : Users \cup {NoUser}, auth : Auths]
LoadChain == [st : {"idle", "reading", "fetching"}, id : Users \cup {NoUser},
              data : BOOLEAN, photo : BOOLEAN]
LogoutChain == [st : {"idle", "sent", "answered", "removing", "clearing"},
                token : Tokens \cup {NoToken}, fresh : BOOLEAN]
ProfileState == [auth : Auths, details : Users \cup {NoUser},
                 photo : Users \cup {NoUser}]

\* Type invariant of the stored key, the server's sessions, the screens' state
\* and the promise chains of Login.js and Profile.js.
TypeOK ==
    /\ store \in Auths \cup {Null}
    /\ owner \in [Tokens -> Users \cup {NoUser}]
    /\ live \in SUBSET Tokens
    /\ screen \in {"Home", "Login", "Profile"}
    /\ mounted \in BOOLEAN
    /\ focusing \in BOOLEAN
    /\ login \in [Logins -> LoginChain]
    /\ profile \in ProfileState
    /\ load \in [Loads -> LoadChain]
    /\ logout \in [Logouts -> LogoutChain]
    /\ excused \in SUBSET Tokens

\* The server issued this key: its token belongs to its id.
Issued(k) == k \in Keys => owner[k.token] = k.id

\* The two halves of a key are never mixed: whatever key is stored, copied into
\* Profile's state or on its way to the storage, the server issued that token
\* for that id, although several logins of several accounts, failed logins and
\* logouts overlap and each writes the whole value (Login.js storeAuth,
\* Profile.js getUser).
KeysAreIssued ==
    /\ store # Null => Issued(store)
    /\ Issued(profile.auth)
    /\ \A a \in Logins : Issued(login[a].auth)

\* The app keeps a key the server no longer accepts only while the logout that
\* revoked it is still being answered, or when an answer or removeItem failed,
\* or when a second login was carrying the same token while it was revoked
\* (Profile.js Logout and removeUser against Login.js storeAuth).
DeadKeyExplained ==
    store \in Keys /\ store.token \notin live =>
        \/ store.token \in excused
        \/ \E o \in Logouts : /\ logout[o].st \in {"answered", "removing"}
                              /\ logout[o].token = store.token

\* Logout removes whatever key is stored when its answer is there, and revokes
\* the token that was copied when the screen got the focus.  A session is
\* removed from the device while the server still accepts it only when the two
\* were different at the press, or a login stored its key during the logout,
\* however many loads, logins and logouts were under way (Profile.js Logout,
\* removeUser).
RemovedKeyIsDead ==
    \A o \in Logouts :
        logout[o].st = "removing" /\ logout[o].fresh /\ store \in Keys
            => store.token \notin live

\* Profile.js says of the screen "Requires login": while no key is stored it
\* shows nobody's details and nobody's photo.
RequiresLogin == store = Null => /\ profile.details = NoUser
                                 /\ profile.photo = NoUser

(***************************************************************************)
(* The register, the copy and the answers of SessionKey, seen in this      *)
(* module.  An absent value and a stored {} are both the empty key.        *)
(***************************************************************************)
Answer(r) == IF r.st \in {"idle", "sent"} THEN Null ELSE r.auth
Answers == [a \in Logins |-> Answer(login[a])]
Leaving == {o \in Logouts : logout[o].st \in {"sent", "answered", "removing"}}
Clearing == {o \in Logouts : logout[o].st = "clearing"}

K == INSTANCE SessionKey WITH
         Attempts <- Logins, Leaves <- Logouts, Nobody <- NoUser,
         NoKey <- NoAuth, Nothing <- Null,
         key <- Parse(store), copy <- profile.auth,
         answer <- Answers, leaving <- Leaving, clearing <- Clearing,
         issued <- owner

\* Login, Profile and AsyncStorage together implement one register with a copy
\* (SessionKey): a stored key disappears only because a logout the user asked
\* for is completed or because a login was refused, whose {} is stored over
\* whatever key is there, and Profile's copy is only ever a copy of the
\* register, or cleared after a logout removed the key (Login.js handleSubmit, storeAuth; Profile.js getUser,
\* Logout, removeUser).
ImplementsSessionKey == K!Spec

\* Without failures every login the server granted reaches the storage: at some
\* later moment the stored value is that key (Login.js handleSubmit).
GrantedLoginIsStored ==
    \A a \in Logins : \A k \in Keys :
        login[a].st = "granted" /\ login[a].auth = k ~> store = k

\* Every logout the server handled ends with no key stored, unless the answer
\* or the removal failed (Profile.js Logout, removeUser).
LogoutEndsSession ==
    \A o \in Logouts :
        logout[o].st = "answered" ~> store = Null
=============================================================================
