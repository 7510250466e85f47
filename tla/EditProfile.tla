---------------------------- MODULE EditProfile ----------------------------
(***************************************************************************)
(* The editor of the profile: screens/EditProfile.js on top of Profile on  *)
(* the UserStack.                                                          *)
(*                                                                         *)
(* The key is copied once, when the editor is mounted.  The form is filled *)
(* when getData answers (Formik's enableReinitialize), whatever had been   *)
(* typed by then, and Save sends the whole form to the copied account.     *)
(* Meanwhile the stored key can change: another login or logout takes      *)
(* effect while the editor stays mounted in the drawer.                    *)
(*                                                                         *)
(* Details are represented by the account they belong to.  A form that was *)
(* never filled holds only what the user typed, who types the details of   *)
(* the account the editor is for.                                          *)
(***************************************************************************)
EXTENDS Drawer, Forms

CONSTANTS Accounts,
          None,      \* no account, no details
          Saves,     \* names of EditProfile.handleSubmit chains
          EditFaulty \* BOOLEAN: requests and storage calls may fail

VARIABLES storedAuth, \* AsyncStorage: the account of the key under 'auth'
          details,    \* server: the account whose details each profile has
          userTop,    \* the top of the UserStack
          edit,       \* state of the editor and of its form
          editLoad,   \* the editor's getUser chain
          save        \* handleSubmit chains

editVars == <<storedAuth, details, userTop, edit, editLoad, save>>

ASSUME EditConstantsOK == None \notin Accounts /\ EditFaulty \in BOOLEAN

Ids == Accounts \cup {None}

\* auth: the copied key; base: whose details fill the form; photo: whose photo
\* is shown; typed: the user has filled in the rest, the password at least.
EmptyEdit == [auth |-> None, base |-> None, photo |-> None, typed |-> FALSE]
IdleEditLoad == [st |-> "idle", id |-> None, data |-> FALSE, photo |-> FALSE]
IdleSave == [st |-> "idle", id |-> None, base |-> None]

EditInit == /\ storedAuth \in Ids
            /\ details = [u \in Accounts |-> u]
            /\ userTop = "Profile"
            /\ edit = EmptyEdit
            /\ editLoad = IdleEditLoad
            /\ save = [s \in Saves |-> IdleSave]

-----------------------------------------------------------------------------
\* A login or a logout takes effect in the storage, at any time after its
\* button was pressed.
ChangeAuth(id) ==
    /\ id # storedAuth
    /\ storedAuth' = id
    /\ UNCHANGED <<details, userTop, edit, editLoad, save>>

\* Profile's Edit button mounts the editor: componentDidMount calls getUser.
OpenEditor ==
    /\ screen = "Profile" /\ userTop = "Profile"
    /\ FormButton
    /\ userTop' = "EditProfile"
    /\ edit' = EmptyEdit
    /\ editLoad' = [IdleEditLoad EXCEPT !.st = "reading"]
    /\ UNCHANGED <<storedAuth, details, save>>

\* Back to Profile: the editor is unmounted, later answers find nobody.
LeaveEditor ==
    /\ screen = "Profile" /\ userTop = "EditProfile"
    /\ userTop' = "Profile"
    /\ edit' = EmptyEdit
    /\ editLoad' = IdleEditLoad
    /\ UNCHANGED <<storedAuth, details, save>>

\* A load whose two requests are over has settled.
SettleEdit(r) == IF r.data \/ r.photo THEN r ELSE IdleEditLoad

\* getItem('auth') answers: the key is copied and both requests are sent.
GetUser ==
    /\ editLoad.st = "reading"
    /\ edit' = [edit EXCEPT !.auth = storedAuth]
    /\ editLoad' = [st |-> "fetching", id |-> storedAuth,
                    data |-> TRUE, photo |-> TRUE]
    /\ UNCHANGED <<storedAuth, details, userTop, save>>

\* GET /user/<id> answers: the form is reset to the details.  What is answered
\* for /user/undefined is not JSON and only logged.
GetData ==
    /\ editLoad.st = "fetching" /\ editLoad.data
    /\ edit' = IF editLoad.id = None THEN edit
               ELSE [edit EXCEPT !.base = details[editLoad.id],
                                 !.typed = FALSE]
    /\ editLoad' = SettleEdit([editLoad EXCEPT !.data = FALSE])
    /\ UNCHANGED <<storedAuth, details, userTop, save>>

\* GET /user/<id>/photo answers and the photo is shown.
Bug_PhotoResetsForm ==
    /\ editLoad.st = "fetching" /\ editLoad.photo
    /\ edit' = [edit EXCEPT !.photo = editLoad.id, !.typed = FALSE]
    /\ editLoad' = SettleEdit([editLoad EXCEPT !.photo = FALSE])
    /\ UNCHANGED <<storedAuth, details, userTop, save>>

Bug_PhotoIsWholeAnswer ==
    /\ editLoad.st = "fetching" /\ editLoad.photo
    /\ edit' = [edit EXCEPT !.photo = editLoad]
    /\ editLoad' = SettleEdit([editLoad EXCEPT !.photo = FALSE])
    /\ UNCHANGED <<storedAuth, details, userTop, save>>

GetPhoto ==
    /\ editLoad.st = "fetching" /\ editLoad.photo
    /\ edit' = [edit EXCEPT !.photo = editLoad.id]
    /\ editLoad' = SettleEdit([editLoad EXCEPT !.photo = FALSE])
    /\ UNCHANGED <<storedAuth, details, userTop, save>>

\* getItem or one of the requests is rejected and logged.
EditLoadFails(which) ==
    /\ EditFaulty
    /\ \/ which = "key" /\ editLoad.st = "reading"
          /\ editLoad' = IdleEditLoad
       \/ which = "data" /\ editLoad.data
          /\ editLoad' = SettleEdit([editLoad EXCEPT !.data = FALSE])
       \/ which = "photo" /\ editLoad.photo
          /\ editLoad' = SettleEdit([editLoad EXCEPT !.photo = FALSE])
    /\ UNCHANGED <<storedAuth, details, userTop, edit, save>>

-----------------------------------------------------------------------------
EditorInReach == screen = "Profile" /\ userTop = "EditProfile"

\* The user fills in what the form still needs.
ChangeForm ==
    /\ EditorInReach
    /\ FormInput
    /\ ~edit.typed
    /\ edit' = [edit EXCEPT !.typed = TRUE]
    /\ UNCHANGED <<storedAuth, details, userTop, editLoad, save>>

\* The Save button: the password is required and never loaded, so something
\* must have been typed.  PATCH /user/<id> is sent with the whole form.
Bug_SaveWithStoredKey(s) ==
    /\ EditorInReach
    /\ FormSubmits
    /\ edit.typed
    /\ save[s].st = "idle"
    /\ save' = [save EXCEPT ![s] = [st |-> "sent", id |-> storedAuth,
                                    base |-> edit.base]]
    /\ UNCHANGED <<storedAuth, details, userTop, edit, editLoad>>

Save(s) ==
    /\ EditorInReach
    /\ FormSubmits
    /\ edit.typed
    /\ save[s].st = "idle"
    /\ save' = [save EXCEPT ![s] = [st |-> "sent", id |-> edit.auth,
                                    base |-> edit.base]]
    /\ UNCHANGED <<storedAuth, details, userTop, edit, editLoad>>

\* External server: the profile gets the details sent; /user/undefined and a
\* token that is not accepted are refused.
ServerEdits(s) ==
    /\ save[s].st = "sent"
    /\ \/ /\ save[s].id # None
          /\ details' = [details EXCEPT ![save[s].id] =
                            IF save[s].base = None THEN save[s].id
                            ELSE save[s].base]
       \/ UNCHANGED details
    /\ save' = [save EXCEPT ![s].st = "answered"]
    /\ UNCHANGED <<storedAuth, userTop, edit, editLoad>>

\* The answer arrives, or the request is rejected: an alert or a log entry.
\* The form stays as it is.
SaveEnds(s) ==
    /\ save[s].st = "answered" \/ (EditFaulty /\ save[s].st = "sent")
    /\ save' = [save EXCEPT ![s] = IdleSave]
    /\ UNCHANGED <<storedAuth, details, userTop, edit, editLoad>>

-----------------------------------------------------------------------------
EditNext == \/ \E id \in Ids : ChangeAuth(id)
            \/ OpenEditor \/ LeaveEditor
            \/ GetUser \/ GetData \/ GetPhoto
            \/ \E which \in {"key", "data", "photo"} : EditLoadFails(which)
            \/ ChangeForm
            \/ \E s \in Saves : Save(s) \/ ServerEdits(s) \/ SaveEnds(s)

-----------------------------------------------------------------------------
(***************************************************************************)
(* Properties                                                              *)
(***************************************************************************)
\* Type invariant of the editor, the stored key, the profiles and the requests.
EditTypeOK ==
    /\ storedAuth \in Ids
    /\ details \in [Accounts -> Accounts]
    /\ userTop \in {"Profile", "EditProfile"}
    /\ edit \in [auth : Ids, base : Ids, photo : Ids, typed : BOOLEAN]
    /\ editLoad \in [st : {"idle", "reading", "fetching"}, id : Ids,
                     data : BOOLEAN, photo : BOOLEAN]
    /\ save \in [Saves -> [st : {"idle", "sent", "answered"}, id : Ids,
                           base : Ids]]

\* No account's profile ever gets the details of another account, although the
\* stored key changes while an editor is open, its answers come late and its
\* saves overlap and outlive it: the form is filled for, and saved to, the
\* account whose key was copied when the editor was mounted (EditProfile.js
\* getUser, getData, handleSubmit).
ProfileKeepsItsOwner == \A u \in Accounts : details[u] = u

\* What the user typed is taken away at most once, when the form is first
\* filled: from then on it stays until the editor is left, whatever answers
\* come late (EditProfile.js enableReinitialize, getData, getPhoto).
TypedSurvives ==
    [][edit.base # None /\ edit.typed =>
           edit'.typed \/ userTop' = "Profile"]_edit
=============================================================================
