------------------------------ MODULE PostChit ------------------------------
(***************************************************************************)
(* The composer, screens/PostChit.js: writing, posting and drafting a chit *)
(* with an optional photo and an optional location.                        *)
(*                                                                         *)
(* Three kinds of calls are under way at once.  AsyncStorage works off its *)
(* calls one at a time and calls back in the same order, so they form one  *)
(* queue, and what follows an await is part of the step that takes the     *)
(* call off the queue.  A chit is posted by up to three requests in a row  *)
(* (the chit, the lookup of its id, the photo), each of them sent, handled *)
(* by the server and answered.  A position is found, then decoded.  While  *)
(* they are under way the user goes on using the screen: no button of it   *)
(* is ever disabled.                                                       *)
(*                                                                         *)
(* A key is represented by its account (Session shows that id and token of *)
(* a key always belong together); an address by the coordinates it was     *)
(* decoded from; a list of drafts by the set of its entries, since the     *)
(* screen only filters the list by account or by text and appends to it,   *)
(* so that order and repetitions never matter.  The character counter and  *)
(* the permission dialogue, which no guard of the screen depends on, are   *)
(* left out.                                                               *)
(***************************************************************************)
EXTENDS Naturals, Sequences, FiniteSets

CONSTANTS Accounts,  \* the ids a stored key can have
          Texts,     \* what can be typed
          Images,    \* the photos the camera can take, each one once
          Places,    \* coordinates
          Posts,     \* names of postChit chains
          Positions, \* names of handleLocation chains
          None,      \* null, the empty text, and the id when no key is stored
          MaxQueue,  \* bound on the storage calls under way
          MaxDrafts, \* bound on the drafts of a list
          MaxChits,  \* bound on the chits the server gets
          Faulty     \* BOOLEAN: requests and storage calls may fail

VARIABLES state,       \* this.state of the screen
          storedAuth,  \* AsyncStorage: the account of the key under 'auth',
                       \* None when there is no key
          storedDraft, \* AsyncStorage: the list under 'draft'
          queue,       \* AsyncStorage: the calls under way, oldest first
          screen,      \* where the user is
          mounted,     \* the screen has been mounted
          focusing,    \* its didFocus event is still due
          chits,       \* server: the chits, chit_id is the position
          post,        \* postChit chains with their photo upload
          position,    \* handleLocation chains
          taken,       \* external camera: the photos taken
          listOf,      \* history: whose drafts the list on the screen was
                       \* loaded as
          picked,      \* history: drafts taken out since the list was loaded
          late,        \* history: the last address shown was for a position
                       \* given up by then, or the last one was not found
          failed       \* history: a storage call or a request has failed

storage == <<storedAuth, storedDraft, queue>>
view    == <<screen, mounted, focusing>>
history == <<listOf, picked, late, failed>>
vars    == <<state, storage, view, chits, post, position, taken, history>>

ASSUME ConstantsOK == /\ None \notin Accounts \cup Texts \cup Images \cup Places
                      /\ {MaxQueue, MaxDrafts, MaxChits} \subseteq Nat
                      /\ Faulty \in BOOLEAN

Ids    == Accounts \cup {None}
Drafts == [id : Ids, msg : Texts \cup {None}]

\* null is not a list: the screen tells that it has a list by draft != null.
ASSUME NoneIsNoList == \A list \in SUBSET Drafts : list # None

\* alone (history): since the press no other chit was posted, no photo taken,
\* no other key read and no lookup lost.
IdlePost == [st |-> "idle", user |-> None, text |-> None, coords |-> None,
             image |-> None, chit |-> 0, alone |-> FALSE]

\* moved (history): the coordinates were changed after this position was found.
IdlePosition == [st |-> "idle", coords |-> None, moved |-> FALSE]

Init == /\ state = [auth |-> None, draft |-> None, text |-> None,
                    image |-> None, coords |-> None, location |-> None,
                    chitId |-> 0, isVisible |-> FALSE, showDraft |-> FALSE]
        /\ storedAuth \in Ids
        /\ storedDraft = {}
        /\ queue = <<>>
        /\ screen = "Home"
        /\ mounted = FALSE
        /\ focusing = FALSE
        /\ chits = <<>>
        /\ post = [p \in Posts |-> IdlePost]
        /\ position = [l \in Positions |-> IdlePosition]
        /\ taken = {}
        /\ listOf = None
        /\ picked = {}
        /\ late = FALSE
        /\ failed = FALSE

-----------------------------------------------------------------------------
(***************************************************************************)
(* Helpers                                                                 *)
(***************************************************************************)
\* No overlay covers the composer.
ComposerInReach ==
    /\ screen = "Create"
    /\ ~state.isVisible
    /\ ~state.showDraft

Active(p) == post[p].st # "idle"

\* The chains once another one, a new photo or another key has come between.
Disturbed == [p \in Posts |-> [post[p] EXCEPT !.alone = FALSE]]

\* The positions once the coordinates have been changed.
Moved == [l \in Positions |->
             [position[l] EXCEPT !.moved = (position[l].st = "geocode")]]

\* keeps, out (history): the account whose list was on the screen when Save or
\* Delete was pressed, and the drafts taken out of that list; no account when
\* no list had been loaded or another Save or Delete was still under way.
Call(op, id, list) == [op |-> op, id |-> id, list |-> list,
                       keeps |-> {}, out |-> {}]

Filing == \E i \in 1..Len(queue) : queue[i].op = "setDraft"

WriteDrafts(list) ==
    IF state.draft # None /\ ~Filing
    THEN [Call("setDraft", None, list) EXCEPT !.keeps = {listOf}, !.out = picked]
    ELSE Call("setDraft", None, list)

Enqueue(call) == /\ Len(queue) < MaxQueue
                 /\ queue' = Append(queue, call)

-----------------------------------------------------------------------------
(***************************************************************************)
(* Coming and going                                                        *)
(***************************************************************************)
\* The Create tab, or Back from the camera; componentDidMount, called once,
\* calls getUser.
OpenCreate ==
    /\ screen # "Create"
    /\ screen' = "Create"
    /\ focusing' = TRUE
    /\ mounted' = TRUE
    /\ IF mounted THEN UNCHANGED queue ELSE Enqueue(Call("getAuth", None, {}))
    /\ UNCHANGED <<state, storedAuth, storedDraft, chits, post, position,
                   taken, history>>

\* <NavigationEvents onDidFocus={() => this.getUser()} />
DidFocus ==
    /\ focusing
    /\ focusing' = FALSE
    /\ Enqueue(Call("getAuth", None, {}))
    /\ UNCHANGED <<state, storedAuth, storedDraft, screen, mounted, chits,
                   post, position, taken, history>>

Leave ==
    /\ ComposerInReach \/ screen = "Photo"
    /\ screen' = "Home"
    /\ focusing' = FALSE
    /\ UNCHANGED <<state, storage, mounted, chits, post, position, taken,
                   history>>

\* Elsewhere in the app somebody logs in or (None) out: Login's storeAuth calls
\* setItem, Profile's removeUser removeItem.
ChangeAuth(id) ==
    /\ screen = "Home"
    /\ Enqueue(Call("setAuth", id, {}))
    /\ UNCHANGED <<state, storedAuth, storedDraft, view, chits, post,
                   position, taken, history>>

-----------------------------------------------------------------------------
(***************************************************************************)
(* The storage calls of getUser, Save and Delete                           *)
(***************************************************************************)
\* draft.filter(item => item.id == id)
Bug_AllDrafts(list, id) == list

DraftsOf(list, id) == {d \in list : d.id = id}

\* getItem('auth') answers: the key is copied and getItem('draft') called.
GetAuth ==
    /\ queue # <<>> /\ Head(queue).op = "getAuth"
    /\ state' = [state EXCEPT !.auth = storedAuth]
    /\ queue' = Append(Tail(queue), Call("getDraft", None, {}))
    /\ post' = IF storedAuth # state.auth THEN Disturbed ELSE post
    /\ UNCHANGED <<storedAuth, storedDraft, view, chits, position, taken,
                   history>>

\* getItem('draft') answers: the list is filtered by the key the screen has
\* now, which another getUser may have replaced in the meantime.
GetDraft ==
    /\ queue # <<>> /\ Head(queue).op = "getDraft"
    /\ state' = [state EXCEPT !.draft = DraftsOf(storedDraft, state.auth)]
    /\ queue' = Tail(queue)
    /\ listOf' = state.auth
    /\ picked' = {}
    /\ UNCHANGED <<storedAuth, storedDraft, view, chits, post, position, taken,
                   late, failed>>

\* Another screen's setItem or removeItem of 'auth' takes effect.
SetAuth ==
    /\ queue # <<>> /\ Head(queue).op = "setAuth"
    /\ storedAuth' = Head(queue).id
    /\ queue' = Tail(queue)
    /\ UNCHANGED <<state, storedDraft, view, chits, post, position, taken,
                   history>>

\* resetInOverlay, which also leaves for Home.
Bug_ResetKeepsLocation ==
    /\ state' = [state EXCEPT !.isVisible = FALSE, !.draft = None,
                              !.image = None, !.coords = None, !.text = None]
    /\ position' = Moved
    /\ listOf' = None
    /\ picked' = {}
    /\ late' = FALSE
    /\ screen' = "Home"
    /\ focusing' = FALSE

ResetInOverlay ==
    /\ state' = [state EXCEPT !.isVisible = FALSE, !.draft = None,
                              !.image = None, !.location = None,
                              !.coords = None, !.text = None]
    /\ position' = Moved
    /\ listOf' = None
    /\ picked' = {}
    /\ late' = FALSE
    /\ screen' = "Home"
    /\ focusing' = FALSE

\* setItem('draft', ...) takes effect; Save and Delete go on.
SetDraft ==
    /\ queue # <<>> /\ Head(queue).op = "setDraft"
    /\ storedDraft' = Head(queue).list
    /\ queue' = Tail(queue)
    /\ ResetInOverlay
    /\ UNCHANGED <<storedAuth, mounted, chits, post, taken, failed>>

\* A storage call is rejected.  getUser goes on to its second half; Save and
\* Delete reset the composer as if the list had been written.
StorageFails ==
    /\ Faulty
    /\ queue # <<>>
    /\ queue' = IF Head(queue).op = "getAuth"
                THEN Append(Tail(queue), Call("getDraft", None, {}))
                ELSE Tail(queue)
    /\ IF Head(queue).op = "setDraft"
       THEN ResetInOverlay
       ELSE UNCHANGED <<state, screen, focusing, position, listOf, picked, late>>
    /\ failed' = TRUE
    /\ UNCHANGED <<storedAuth, storedDraft, mounted, chits, post, taken>>

-----------------------------------------------------------------------------
(***************************************************************************)
(* Composing                                                               *)
(***************************************************************************)
\* A user action that only changes this.state.
SetState(new) ==
    /\ state' = new
    /\ UNCHANGED <<storage, view, chits, post, position, taken, history>>

ChangeText(t) ==
    /\ ComposerInReach
    /\ t # state.text
    /\ SetState([state EXCEPT !.text = t])

\* The close icon: the overlay with Save and Delete.
OpenOverlay ==
    /\ ComposerInReach
    /\ SetState([state EXCEPT !.isVisible = TRUE])

CloseOverlay ==
    /\ screen = "Create" /\ state.isVisible
    /\ SetState([state EXCEPT !.isVisible = FALSE])

\* tempList: the list of the screen, or a new one.
TempList == IF state.draft # None THEN state.draft ELSE {}

Delete ==
    /\ screen = "Create" /\ state.isVisible
    /\ Enqueue(WriteDrafts(TempList))
    /\ UNCHANGED <<state, storedAuth, storedDraft, view, chits, post,
                   position, taken, history>>

\* push changes the screen's list in place when there is one.
Bug_SaveOnlyThis ==
    LET item == [id |-> state.auth, msg |-> state.text] IN
    /\ screen = "Create" /\ state.isVisible
    /\ Enqueue(WriteDrafts({item}))
    /\ UNCHANGED <<state, storedAuth, storedDraft, view, chits, post,
                   position, taken, history>>

Save ==
    LET item == [id |-> state.auth, msg |-> state.text] IN
    /\ screen = "Create" /\ state.isVisible
    /\ Cardinality(TempList \cup {item}) <= MaxDrafts
    /\ Enqueue(WriteDrafts(TempList \cup {item}))
    /\ state' = [state EXCEPT !.draft = IF @ # None THEN @ \cup {item} ELSE @]
    /\ UNCHANGED <<storedAuth, storedDraft, view, chits, post, position,
                   taken, history>>

OpenDrafts ==
    /\ ComposerInReach
    /\ state.draft # None
    /\ SetState([state EXCEPT !.showDraft = TRUE])

CloseDrafts ==
    /\ screen = "Create" /\ state.showDraft
    /\ SetState([state EXCEPT !.showDraft = FALSE])

\* A draft is picked: its text moves into the composer and every entry with
\* that text leaves the screen's list (not the stored one).
HandleDraft(msg) ==
    /\ screen = "Create" /\ state.showDraft
    /\ state.draft # None
    /\ \E d \in state.draft : d.msg = msg
    /\ state' = [state EXCEPT !.showDraft = FALSE, !.text = msg,
                              !.draft = {d \in @ : d.msg # msg}]
    /\ picked' = picked \cup {msg}
    /\ UNCHANGED <<storage, view, chits, post, position, taken, listOf, late,
                   failed>>

\* The image icon opens the Photo screen, which is given receivedImage.
HandleImage ==
    /\ ComposerInReach
    /\ screen' = "Photo"
    /\ focusing' = FALSE
    /\ UNCHANGED <<state, storage, mounted, chits, post, position, taken,
                   history>>

\* The camera hands over a photo.
ReceivedImage(i) ==
    /\ screen = "Photo"
    /\ i \notin taken
    /\ taken' = taken \cup {i}
    /\ state' = [state EXCEPT !.image = i]
    /\ post' = Disturbed
    /\ UNCHANGED <<storage, view, chits, position, history>>

RemoveImage ==
    /\ ComposerInReach
    /\ state.image # None
    /\ SetState([state EXCEPT !.image = None])

\* The location chip is closed; the coordinates stay.
RemoveLocation ==
    /\ ComposerInReach
    /\ state.location # None
    /\ state' = [state EXCEPT !.location = None]
    /\ late' = FALSE
    /\ UNCHANGED <<storage, view, chits, post, position, taken, listOf, picked,
                   failed>>

-----------------------------------------------------------------------------
(***************************************************************************)
(* handleLocation                                                          *)
(***************************************************************************)
HandleLocation(l) ==
    /\ ComposerInReach
    /\ position[l].st = "idle"
    /\ position' = [position EXCEPT ![l].st = "position"]
    /\ UNCHANGED <<state, storage, view, chits, post, taken, history>>

GotPosition(l, c) ==
    /\ position[l].st = "position"
    /\ state' = [state EXCEPT !.coords = c]
    /\ position' = [Moved EXCEPT ![l] = [st |-> "geocode", coords |-> c,
                                         moved |-> FALSE]]
    /\ UNCHANGED <<storage, view, chits, post, taken, history>>

Bug_WholeAnswer(l) ==
    /\ position[l].st = "geocode"
    /\ state' = [state EXCEPT !.location = position[l]]
    /\ position' = [position EXCEPT ![l] = IdlePosition]
    /\ late' = position[l].moved
    /\ UNCHANGED <<storage, view, chits, post, taken, listOf, picked, failed>>

GotAddress(l) ==
    /\ position[l].st = "geocode"
    /\ state' = [state EXCEPT !.location = position[l].coords]
    /\ position' = [position EXCEPT ![l] = IdlePosition]
    /\ late' = position[l].moved
    /\ UNCHANGED <<storage, view, chits, post, taken, listOf, picked, failed>>

\* No position (an alert) or no address (logged).
LocationFails(l) ==
    /\ position[l].st # "idle"
    /\ position' = [position EXCEPT ![l] = IdlePosition]
    /\ late' = (late \/ position[l].st = "geocode")
    /\ UNCHANGED <<state, storage, view, chits, post, taken, listOf, picked,
                   failed>>

-----------------------------------------------------------------------------
(***************************************************************************)
(* postChit, uploadPhoto, getChitId, postPhoto                             *)
(***************************************************************************)
\* A step of chain p that leaves everything but the chain itself alone.
OnlyPost(p, new) ==
    /\ post' = [post EXCEPT ![p] = new]
    /\ UNCHANGED <<state, storage, view, chits, position, taken, history>>

\* A request of chain p is rejected, and the chain is over.
Lost(p) ==
    /\ Faulty
    /\ post' = [post EXCEPT ![p] = IdlePost]
    /\ failed' = TRUE
    /\ UNCHANGED <<state, storage, view, chits, position, taken, listOf, picked,
                   late>>

\* The Chit button.  The image is not part of the request; it is recorded
\* here because it is what the user sees attached.
PostChit(p) ==
    /\ ComposerInReach
    /\ post[p].st = "idle"
    /\ LET alone == ~\E q \in Posts : Active(q)
           new == [st |-> "sent", user |-> state.auth, text |-> state.text,
                   coords |-> state.coords, image |-> state.image,
                   chit |-> 0, alone |-> alone]
       IN  post' = [(IF alone THEN post ELSE Disturbed) EXCEPT ![p] = new]
    /\ UNCHANGED <<state, storage, view, chits, position, taken, history>>

\* External server: 201, for a request with an accepted token.  History: what
\* was attached at the press (attached), the photos that are out of the
\* composer by now (gone), and whether the photo came with a chain that was
\* not alone (astray).
ServerCreates(p) ==
    /\ post[p].st = "sent"
    /\ post[p].user # None
    /\ Len(chits) < MaxChits
    /\ chits' = Append(chits, [author |-> post[p].user, text |-> post[p].text,
                               coords |-> post[p].coords, photo |-> None,
                               attached |-> post[p].image,
                               gone |-> taken \ {state.image},
                               astray |-> FALSE])
    /\ post' = [post EXCEPT ![p].st = "created"]
    /\ UNCHANGED <<state, storage, view, position, taken, history>>

\* External server: any other status.
ServerRefuses(p) ==
    /\ post[p].st = "sent"
    /\ OnlyPost(p, [post[p] EXCEPT !.st = "refused"])

\* 201 arrives: uploadPhoto starts if an image is attached by now, and what is
\* in the composer by now is cleared, except the image.
Posted(p) ==
    /\ post[p].st = "created"
    /\ post' = [post EXCEPT ![p] =
                    IF state.image # None
                    THEN [IdlePost EXCEPT !.st = "lookup", !.user = state.auth,
                                          !.image = post[p].image,
                                          !.alone = post[p].alone]
                    ELSE IdlePost]
    /\ state' = [state EXCEPT !.text = None, !.coords = None, !.location = None]
    /\ position' = Moved
    /\ late' = FALSE
    /\ UNCHANGED <<storage, view, chits, taken, listOf, picked, failed>>

\* Another status arrives: an alert.
Bug_RefusedClears(p) ==
    /\ post[p].st = "refused"
    /\ post' = [post EXCEPT ![p] = IdlePost]
    /\ state' = [state EXCEPT !.text = None, !.coords = None, !.location = None]
    /\ UNCHANGED <<storage, view, chits, position, taken, history>>

PostRefused(p) ==
    /\ post[p].st = "refused"
    /\ OnlyPost(p, IdlePost)

\* The request is rejected; nothing catches it.
PostFails(p) ==
    /\ post[p].st \in {"sent", "created", "refused"}
    /\ Lost(p)

\* External server: GET /user/<id> with the newest chit first.
Bug_OldestChit(p) ==
    LET own == {c \in 1..Len(chits) : chits[c].author = post[p].user}
    IN  /\ post[p].st = "lookup"
        /\ \E c \in own \cup {0} :
               /\ own # {} => c # 0 /\ \A d \in own : c <= d
               /\ OnlyPost(p, [post[p] EXCEPT !.st = "found", !.chit = c])

ServerLooksUp(p) ==
    LET own == {c \in 1..Len(chits) : chits[c].author = post[p].user}
    IN  /\ post[p].st = "lookup"
        /\ \E c \in own \cup {0} :
               /\ \A d \in own : d <= c
               /\ OnlyPost(p, [post[p] EXCEPT !.st = "found", !.chit = c])

\* getChitId is over, with an id or (0) without: the catch logs, and the id
\* of an earlier upload stays.  postPhoto sends what is attached by now.
Bug_UploadsImageOfPress(p, id) ==
    LET chitId == IF id # 0 THEN id ELSE state.chitId
    IN  /\ state' = [state EXCEPT !.chitId = chitId]
        /\ post' = [post EXCEPT ![p] = [post[p] EXCEPT !.st = "photo",
                        !.user = state.auth, !.chit = chitId,
                        !.alone = post[p].alone /\ id # 0]]
        /\ UNCHANGED <<storage, view, chits, position, taken, listOf, picked, late>>

UploadPhoto(p, id) ==
    LET chitId == IF id # 0 THEN id ELSE state.chitId
    IN  /\ state' = [state EXCEPT !.chitId = chitId]
        /\ post' = [post EXCEPT ![p] = [post[p] EXCEPT !.st = "photo",
                        !.user = state.auth, !.chit = chitId,
                        !.image = state.image, !.alone = post[p].alone /\ id # 0]]
        /\ UNCHANGED <<storage, view, chits, position, taken, listOf, picked, late>>

GetChitId(p) ==
    /\ post[p].st = "found"
    /\ UploadPhoto(p, post[p].chit)
    /\ UNCHANGED failed

GetChitIdFails(p) ==
    /\ Faulty
    /\ post[p].st \in {"lookup", "found"}
    /\ UploadPhoto(p, 0)
    /\ failed' = TRUE

\* External server: the photo of a chit is set by its author only.
ServerAttaches(p) ==
    LET r == post[p] IN
    /\ r.st = "photo"
    /\ post' = [post EXCEPT ![p] = [IdlePost EXCEPT !.st = "attached"]]
    /\ chits' = IF r.chit # 0 /\ chits[r.chit].author = r.user /\ r.image # None
                THEN [chits EXCEPT ![r.chit].photo = r.image,
                                   ![r.chit].astray = ~r.alone]
                ELSE chits
    /\ UNCHANGED <<state, storage, view, position, taken, history>>

\* postPhoto's answer arrives, whatever its status.
Bug_PhotoStays(p) ==
    /\ post[p].st = "attached"
    /\ post' = [post EXCEPT ![p] = IdlePost]
    /\ UNCHANGED <<state, storage, view, chits, position, taken, history>>

PostPhoto(p) ==
    /\ post[p].st = "attached"
    /\ post' = [post EXCEPT ![p] = IdlePost]
    /\ state' = [state EXCEPT !.image = None]
    /\ UNCHANGED <<storage, view, chits, position, taken, history>>

\* The request with the photo is rejected and logged; the image stays.
PostPhotoFails(p) ==
    /\ post[p].st \in {"photo", "attached"}
    /\ Lost(p)

-----------------------------------------------------------------------------
StorageNext == GetAuth \/ GetDraft \/ SetAuth \/ SetDraft

PostNext(p) ==
    \/ ServerCreates(p) \/ ServerRefuses(p)
    \/ Posted(p) \/ PostRefused(p)
    \/ ServerLooksUp(p) \/ GetChitId(p)
    \/ ServerAttaches(p) \/ PostPhoto(p)

PositionNext(l) ==
    \/ \E c \in Places : GotPosition(l, c)
    \/ GotAddress(l)
    \/ LocationFails(l)

UserNext ==
    \/ OpenCreate \/ Leave
    \/ \E id \in Ids : ChangeAuth(id)
    \/ \E t \in Texts \cup {None} : ChangeText(t)
    \/ OpenOverlay \/ CloseOverlay \/ Save \/ Delete
    \/ OpenDrafts \/ CloseDrafts
    \/ \E t \in Texts \cup {None} : HandleDraft(t)
    \/ HandleImage \/ RemoveImage \/ RemoveLocation
    \/ \E i \in Images : ReceivedImage(i)
    \/ \E l \in Positions : HandleLocation(l)
    \/ \E p \in Posts : PostChit(p)

Failures ==
    \/ StorageFails
    \/ \E p \in Posts : PostFails(p) \/ GetChitIdFails(p) \/ PostPhotoFails(p)

Next == \/ UserNext
        \/ DidFocus
        \/ StorageNext
        \/ \E p \in Posts : PostNext(p)
        \/ \E l \in Positions : PositionNext(l)
        \/ Failures

Spec == Init /\ [][Next]_vars

(***************************************************************************)
(* Fairness: AsyncStorage completes its calls, the server answers, and the *)
(* event loop handles what arrived.  The user owes nothing.                *)
(***************************************************************************)
FairSpec == /\ Spec
            /\ WF_vars(StorageNext)
            /\ WF_vars(DidFocus)
            /\ \A p \in Posts : WF_vars(PostNext(p))
            /\ \A l \in Positions : WF_vars(PositionNext(l))

-----------------------------------------------------------------------------
(***************************************************************************)
(* Properties                                                              *)
(***************************************************************************)
DraftLists == SUBSET Drafts

\* Type invariant of the composer's state, the stored values, the calls under
\* way and the server's chits.
TypeOK ==
    /\ state \in [auth : Ids, draft : DraftLists \cup {None},
                  text : Texts \cup {None}, image : Images \cup {None},
                  coords : Places \cup {None}, location : Places \cup {None},
                  chitId : 0..MaxChits, isVisible : BOOLEAN,
                  showDraft : BOOLEAN]
    /\ storedAuth \in Ids
    /\ storedDraft \in DraftLists
    /\ Len(queue) <= MaxQueue
    /\ queue \in Seq([op : {"getAuth", "getDraft", "setAuth", "setDraft"},
                      id : Ids, list : DraftLists, keeps : SUBSET Ids,
                      out : SUBSET (Texts \cup {None})])
    /\ screen \in {"Home", "Create", "Photo"}
    /\ {mounted, focusing} \subseteq BOOLEAN
    /\ Len(chits) <= MaxChits
    /\ chits \in Seq([author : Accounts, text : Texts \cup {None},
                      coords : Places \cup {None}, photo : Images \cup {None},
                      attached : Images \cup {None}, gone : SUBSET Images,
                      astray : BOOLEAN])
    /\ post \in [Posts -> [st : {"idle", "sent", "created", "refused",
                                 "lookup", "found", "photo", "attached"},
                           user : Ids, text : Texts \cup {None},
                           coords : Places \cup {None},
                           image : Images \cup {None}, chit : 0..MaxChits,
                           alone : BOOLEAN]]
    /\ position \in [Positions -> [st : {"idle", "position", "geocode"},
                                   coords : Places \cup {None},
                                   moved : BOOLEAN]]
    /\ taken \subseteq Images
    /\ listOf \in Ids
    /\ picked \subseteq Texts \cup {None}
    /\ {late, failed} \subseteq BOOLEAN

\* As long as nothing failed the list of drafts on the screen never shows
\* another account's drafts once the loads under way have ended, although
\* several getUser calls overlap, the key changes between their two halves and
\* Save changes the list in place: the filter uses the key the screen has when
\* the list arrives (PostChit.js getUser).
DraftsAreMine ==
    \/ failed
    \/ state.draft = None
    \/ \E i \in 1..Len(queue) : queue[i].op = "getDraft"
    \/ \A d \in state.draft : d.id = state.auth

\* README: "Users can ... post/draft chits": a draft saved by an account stays
\* stored until its user takes it out of the list.  A Save or Delete pressed
\* with a loaded list and no other one under way writes back every stored draft
\* of the accounts except the ones that were taken out of that list
\* (PostChit.js Save, Delete, handleDraft).
DraftsKept ==
    [][\A d \in storedDraft \ storedDraft' :
           d.id # None /\ Head(queue).keeps # {} => d.msg \in Head(queue).out]_storedDraft

\* What is true of it: such a Save or Delete loses no draft of the account
\* whose list was loaded, whatever key is stored or read between the press and
\* the write, while loads, posts and failures overlap, and also when nobody is
\* logged in (PostChit.js getUser, Save, Delete, handleDraft).
OwnDraftsKept ==
    [][\A d \in storedDraft \ storedDraft' :
           d.id \in Head(queue).keeps => d.msg \in Head(queue).out]_storedDraft

\* The composer is a desk (module Desk) for a user who never waits, logged in or
\* out: whatever is typed, posted, saved and answered at the same time, the
\* app takes a text out of the composer only when a chit that was asked for
\* has been created and confirmed, never after a refusal or a lost answer, or
\* with a Save or Delete that was pressed; and what is sent are the texts that
\* were in the composer when Chit was pressed, each of them once (PostChit.js
\* postChit, Save, Delete, handleDraft, resetInOverlay).
AskOf(p) ==
    [st   |-> CASE post[p].st \in {"sent", "refused"} -> "asked"
                [] post[p].st = "created" -> "sent"
                [] OTHER -> "none",
     text |-> IF post[p].st \in {"sent", "refused", "created"} THEN post[p].text
              ELSE None]

D == INSTANCE Desk WITH Sheets <- Texts, Blank <- None, Asks <- Posts,
                        sheet  <- state.text,
                        ask    <- [p \in Posts |-> AskOf(p)],
                        sent   <- [c \in 1..Len(chits) |-> chits[c].text],
                        filing <- Filing

ImplementsDesk == D!Spec

\* The photo of a chit is the one that was attached when its Chit button was
\* pressed, although it is uploaded two requests later to the newest chit that
\* is found, unless something came between: another chit posted, a photo
\* taken or another key read while the chain was under way, or a lost lookup
\* (PostChit.js uploadPhoto, getChitId, postPhoto).
PhotoOnItsChit ==
    \A c \in 1..Len(chits) :
        chits[c].photo \in {None, chits[c].attached} \/ chits[c].astray

\* A photo that was taken once is on two chits only if something came between
\* as above on one of them, or a failure left it in the composer: a chain that
\* is alone takes it out before another chit can be posted (PostChit.js
\* uploadPhoto, postPhoto).
PhotoOnOneChit ==
    failed \/ \A c, d \in 1..Len(chits) :
                  chits[c].photo = chits[d].photo /\ chits[c].photo # None
                      => c = d \/ chits[c].astray \/ chits[d].astray

\* A photo that was taken out of the composer before the server created a chit
\* never gets on that chit, however many chits are posted at once, whichever
\* ids the lookups find and whatever fails: what is uploaded is what is
\* attached after the chit was found (PostChit.js uploadPhoto, postPhoto).
RemovedPhotoStaysOff ==
    \A c \in 1..Len(chits) : chits[c].photo \notin chits[c].gone

\* The location shown under the composer is where the next chit will be posted
\* from, once no address is being looked up, unless the last address arrived
\* after its position had been given up (by a newer position, a posted chit, a
\* Save or Delete) or could not be found: posting, saving, deleting and closing
\* the chip never leave a location whose coordinates are gone (PostChit.js
\* handleLocation, postChit, resetInOverlay).
ChipFitsCoords ==
    \/ state.location \in {None, state.coords}
    \/ \E l \in Positions : position[l].st = "geocode"
    \/ late

\* An attached photo is off the composer some time after its chit was created,
\* unless a request or a storage call failed (PostChit.js uploadPhoto,
\* postPhoto).
PhotoLeavesComposer ==
    \A p \in Posts : post[p].st = "created" /\ state.image # None
                         ~> state.image = None \/ failed
=============================================================================
