---------------------------- MODULE AccountProofs ----------------------------
(***************************************************************************)
(* Proofs about registration and the editor of the profile for every set   *)
(* of accounts and of requests under way, with failures, crashes and a     *)
(* stored key that changes at any time.                                    *)
(***************************************************************************)
EXTENDS Account, TLAPS

RegChain == [st : {"idle", "sent", "created", "refused", "timer"},
             mine : BOOLEAN]

(***************************************************************************)
(* Registration.  The explanation of a submitted form is inductive once    *)
(* the types are known.                                                    *)
(***************************************************************************)
SignUpInv == SignUpTypeOK /\ DeadFormExplained

LEMMA SignUpInitInv == DrawerInit /\ SignUpInit => SignUpInv
<1> SUFFICES ASSUME DrawerInit, SignUpInit PROVE SignUpInv
  OBVIOUS
<1>1. IdleReg \in RegChain
  BY DEF IdleReg, RegChain
<1>2. SignUpTypeOK
  BY <1>1 DEF DrawerInit, SignUpInit, SignUpTypeOK, RegChain
<1>3. DeadFormExplained
  BY DEF SignUpInit, DeadFormExplained
<1> QED
  BY <1>2, <1>3 DEF SignUpInv

(***************************************************************************)
(* When a form is unmounted its chains are still chains.                   *)
(***************************************************************************)
LEMMA DisownedType == ASSUME NEW chains \in [Regs -> RegChain]
                      PROVE  Disowned(chains) \in [Regs -> RegChain]
<1>1. \A r \in Regs : [chains[r] EXCEPT !.mine = FALSE] \in RegChain
  BY DEF RegChain
<1> QED
  BY <1>1 DEF Disowned

LEMMA SignUpStep == SignUpInv /\ SignUpNext => SignUpInv'
<1> SUFFICES ASSUME SignUpInv, SignUpNext PROVE SignUpInv'
  OBVIOUS
<1>0. /\ SignUpTypeOK /\ DeadFormExplained
      /\ reg \in [Regs -> RegChain] /\ IdleReg \in RegChain
  BY DEF SignUpInv, SignUpTypeOK, RegChain, IdleReg
<1>1. CASE GoToSignup
  BY <1>0, <1>1 DEF GoToSignup, SignUpInv, SignUpTypeOK, DeadFormExplained
<1>2. CASE LeaveSignUp
  <2>1. reg' \in [Regs -> RegChain]
    BY <1>0, <1>2, DisownedType DEF LeaveSignUp
  <2> QED BY <1>0, <1>2, <2>1 DEF LeaveSignUp, Unmount, SignUpInv, SignUpTypeOK,
                                  DeadFormExplained, RegChain
<1>3. ASSUME NEW r \in Regs, HandleSubmit(r) PROVE SignUpInv'
  <2>1. /\ reg' \in [Regs -> RegChain]
        /\ reg'[r].mine /\ reg'[r].st # "idle"
    BY <1>0, <1>3 DEF HandleSubmit, RegChain
  <2> QED BY <1>0, <1>3, <2>1 DEF HandleSubmit, SignUpInv, SignUpTypeOK,
                                  DeadFormExplained, RegChain
<1>4. ASSUME NEW r \in Regs, NEW x \in {"created", "refused", "timer"},
             reg' = [reg EXCEPT ![r].st = x],
             UNCHANGED <<loginTop, submitting, stuck>>, UNCHANGED screen
      PROVE  SignUpInv'
  <2>1. /\ reg' \in [Regs -> RegChain]
        /\ \A q \in Regs : /\ reg'[q].mine = reg[q].mine
                           /\ reg[q].st # "idle" => reg'[q].st # "idle"
    BY <1>0, <1>4 DEF RegChain
  <2>2. DeadFormExplained'
    BY <1>0, <1>4, <2>1 DEF DeadFormExplained
  <2> QED BY <1>0, <1>4, <2>1, <2>2 DEF SignUpInv, SignUpTypeOK, RegChain
<1>5. ASSUME NEW r \in Regs, TimerNavigates(r) PROVE SignUpInv'
  <2> DEFINE rest == [reg EXCEPT ![r] = IdleReg]
  <2>1. /\ rest \in [Regs -> RegChain]
        /\ \A q \in Regs \ {r} : rest[q] = reg[q]
    BY <1>0
  <2>2. CASE screen = "Login"
    <3>1. /\ screen' = "Login" /\ loginTop' = "Login" /\ submitting' = FALSE
          /\ stuck' = FALSE /\ reg' = Disowned(rest)
      BY <1>5, <2>2 DEF TimerNavigates, Unmount
    <3>2. reg' \in [Regs -> RegChain]
      BY <2>1, <3>1, DisownedType
    <3> QED BY <3>1, <3>2 DEF SignUpInv, SignUpTypeOK, DeadFormExplained, RegChain
  <2>3. CASE screen # "Login"
    <3>1. /\ screen' = "Login" /\ UNCHANGED <<loginTop, submitting>>
          /\ stuck' = (stuck \/ reg[r].mine) /\ reg' = rest
      BY <1>5, <2>3 DEF TimerNavigates, Unmount
    <3>2. DeadFormExplained'
      BY <1>0, <2>1, <3>1 DEF DeadFormExplained
    <3>3. stuck' \in BOOLEAN
      BY <1>0, <3>1 DEF RegChain, SignUpTypeOK
    <3> QED BY <1>0, <2>1, <3>1, <3>2, <3>3 DEF SignUpInv, SignUpTypeOK, RegChain
  <2> QED BY <2>2, <2>3
<1>6. ASSUME NEW r \in Regs, SignUpFails(r) PROVE SignUpInv'
  <2>1. /\ reg' \in [Regs -> RegChain]
        /\ \A q \in Regs \ {r} : reg'[q] = reg[q]
        /\ stuck' = (stuck \/ reg[r].mine)
        /\ UNCHANGED <<screen, loginTop, submitting>>
    BY <1>0, <1>6 DEF SignUpFails
  <2>2. DeadFormExplained'
    BY <1>0, <2>1 DEF DeadFormExplained
  <2>3. stuck' \in BOOLEAN
    BY <1>0, <2>1 DEF RegChain, SignUpTypeOK
  <2> QED BY <1>0, <2>1, <2>2, <2>3 DEF SignUpInv, SignUpTypeOK, RegChain
<1> QED
  BY <1>1, <1>2, <1>3, <1>4, <1>5, <1>6
  DEF SignUpNext, RegNext, ServerRegisters, AccountCreated, CreationFailed

(***************************************************************************)
(* The editor.  The form is filled, and saved, for the account whose key   *)
(* was copied (FormFits, SavesFit); it is filled while the request for the *)
(* details is under way and not again (FilledOnce); an editor that is not  *)
(* mounted has no state and no requests (ClosedEmpty).                     *)
(***************************************************************************)
FormFits == /\ edit.base \in {None, edit.auth}
            /\ editLoad.st = "fetching" => editLoad.id = edit.auth

SavesFit == \A s \in Saves : save[s].base \in {None, save[s].id}

FilledOnce == /\ editLoad.st = "reading" => edit.base = None
              /\ editLoad.st = "fetching" /\ editLoad.data => edit.base = None

FlagsMeanFetching == editLoad.data \/ editLoad.photo => editLoad.st = "fetching"

ClosedEmpty == userTop = "Profile" => edit = EmptyEdit /\ editLoad.st = "idle"

EditInv == EditTypeOK /\ ProfileKeepsItsOwner /\ FormFits /\ SavesFit
           /\ FilledOnce /\ FlagsMeanFetching /\ ClosedEmpty

EditState == [auth : Ids, base : Ids, photo : Ids, typed : BOOLEAN]
LoadChain == [st : {"idle", "reading", "fetching"}, id : Ids,
              data : BOOLEAN, photo : BOOLEAN]
SaveChain == [st : {"idle", "sent", "answered"}, id : Ids, base : Ids]

LEMMA EditInitInv == EditInit => EditInv
  BY DEF EditInit, EditInv, EditTypeOK, ProfileKeepsItsOwner, FormFits, SavesFit,
         FilledOnce, FlagsMeanFetching, ClosedEmpty, EmptyEdit, IdleEditLoad, IdleSave, Ids

(***************************************************************************)
(* A load stays a load of the same account when one of its requests ends,  *)
(* and never starts another.                                               *)
(***************************************************************************)
LEMMA SettleEditType ==
    ASSUME NEW r \in LoadChain, r.st = "fetching"
    PROVE  LET d == SettleEdit([r EXCEPT !.data = FALSE])
               p == SettleEdit([r EXCEPT !.photo = FALSE])
           IN  /\ d \in LoadChain /\ p \in LoadChain
               /\ \/ d = IdleEditLoad
                  \/ d.st = "fetching" /\ d.id = r.id /\ ~d.data
               /\ \/ p = IdleEditLoad
                  \/ p.st = "fetching" /\ p.id = r.id /\ p.data = r.data
<1> DEFINE rd == [r EXCEPT !.data = FALSE]
           rp == [r EXCEPT !.photo = FALSE]
<1>1. /\ rd \in LoadChain /\ rp \in LoadChain
      /\ rd.st = "fetching" /\ rd.id = r.id /\ rd.data = FALSE
      /\ rp.st = "fetching" /\ rp.id = r.id /\ rp.data = r.data
  BY DEF LoadChain
<1>2. IdleEditLoad \in LoadChain /\ IdleEditLoad.st = "idle"
  BY DEF LoadChain, IdleEditLoad, Ids
<1> HIDE DEF rd, rp
<1>3. SettleEdit(rd) \in {rd, IdleEditLoad} /\ SettleEdit(rp) \in {rp, IdleEditLoad}
  BY DEF SettleEdit
<1> QED
  BY <1>1, <1>2, <1>3 DEF rd, rp

LEMMA EditStep == EditInv /\ EditNext => EditInv'
<1> SUFFICES ASSUME EditInv, EditNext PROVE EditInv'
  OBVIOUS
<1>0. /\ EditTypeOK /\ ProfileKeepsItsOwner /\ FormFits /\ SavesFit
      /\ FilledOnce /\ FlagsMeanFetching /\ ClosedEmpty
  BY DEF EditInv
<1>T. /\ edit \in EditState /\ editLoad \in LoadChain
      /\ save \in [Saves -> SaveChain] /\ storedAuth \in Ids
      /\ EmptyEdit \in EditState /\ IdleEditLoad \in LoadChain
      /\ IdleSave \in SaveChain /\ None \in Ids
  BY <1>0 DEF EditTypeOK, EditState, LoadChain, SaveChain, EmptyEdit,
              IdleEditLoad, IdleSave, Ids
<1>I. /\ IdleEditLoad.st = "idle"
      /\ ~IdleEditLoad.data /\ ~IdleEditLoad.photo
  BY DEF IdleEditLoad
<1>1. ASSUME NEW id \in Ids, ChangeAuth(id) PROVE EditInv'
  BY <1>0, <1>1 DEF ChangeAuth, EditInv, EditTypeOK, ProfileKeepsItsOwner,
                    FormFits, SavesFit, FilledOnce, FlagsMeanFetching, ClosedEmpty
<1>2. CASE OpenEditor
  <2>1. /\ edit' = EmptyEdit /\ userTop' = "EditProfile"
        /\ editLoad' = [IdleEditLoad EXCEPT !.st = "reading"]
        /\ UNCHANGED <<storedAuth, details, save>>
    BY <1>2 DEF OpenEditor
  <2>2. /\ editLoad' \in LoadChain /\ editLoad'.st = "reading"
        /\ ~editLoad'.data /\ ~editLoad'.photo
    BY <1>T, <2>1 DEF LoadChain, IdleEditLoad
  <2>3. edit'.base = None
    BY <2>1 DEF EmptyEdit
  <2> QED BY <1>0, <1>T, <2>1, <2>2, <2>3
          DEF EditInv, EditTypeOK, ProfileKeepsItsOwner, FormFits, SavesFit,
              FilledOnce, FlagsMeanFetching, ClosedEmpty, EditState, LoadChain
<1>3. CASE LeaveEditor
  <2>1. /\ edit' = EmptyEdit /\ userTop' = "Profile" /\ editLoad' = IdleEditLoad
        /\ UNCHANGED <<storedAuth, details, save>>
    BY <1>3 DEF LeaveEditor
  <2>2. /\ edit'.base = None /\ editLoad'.st = "idle"
        /\ ~editLoad'.data /\ ~editLoad'.photo
    BY <2>1 DEF EmptyEdit, IdleEditLoad
  <2> QED BY <1>0, <1>T, <2>1, <2>2
          DEF EditInv, EditTypeOK, ProfileKeepsItsOwner, FormFits, SavesFit,
              FilledOnce, FlagsMeanFetching, ClosedEmpty, EditState, LoadChain
<1>4. CASE GetUser
  <2>1. /\ editLoad.st = "reading"
        /\ edit' = [edit EXCEPT !.auth = storedAuth]
        /\ editLoad' = [st |-> "fetching", id |-> storedAuth,
                        data |-> TRUE, photo |-> TRUE]
        /\ UNCHANGED <<storedAuth, details, userTop, save>>
    BY <1>4 DEF GetUser
  <2>2. /\ edit' \in EditState /\ edit'.auth = storedAuth
        /\ edit'.base = None
    BY <1>0, <1>T, <2>1 DEF EditState, FilledOnce
  <2>3. editLoad' \in LoadChain /\ editLoad'.id = storedAuth
    BY <1>T, <2>1 DEF LoadChain
  <2> QED BY <1>0, <1>T, <2>1, <2>2, <2>3
          DEF EditInv, EditTypeOK, ProfileKeepsItsOwner, FormFits, SavesFit,
              FilledOnce, FlagsMeanFetching, ClosedEmpty, EditState, LoadChain
<1>5. CASE GetData
  <2>1. /\ editLoad.st = "fetching" /\ editLoad.data
        /\ edit' = IF editLoad.id = None THEN edit
                   ELSE [edit EXCEPT !.base = details[editLoad.id],
                                     !.typed = FALSE]
        /\ editLoad' = SettleEdit([editLoad EXCEPT !.data = FALSE])
        /\ UNCHANGED <<storedAuth, details, userTop, save>>
    BY <1>5 DEF GetData
  <2>2. /\ editLoad' \in LoadChain
        /\ editLoad' = IdleEditLoad
              \/ (/\ editLoad'.st = "fetching" /\ editLoad'.id = editLoad.id
                  /\ ~editLoad'.data)
    BY <1>T, <2>1, SettleEditType
  <2>3. userTop = "EditProfile" /\ editLoad.id = edit.auth
    BY <1>0, <2>1 DEF ClosedEmpty, EditTypeOK, FormFits
  <2>4. CASE editLoad.id = None
    BY <1>0, <1>T, <1>I, <2>1, <2>2, <2>3, <2>4
    DEF EditInv, EditTypeOK, ProfileKeepsItsOwner, FormFits, SavesFit,
              FilledOnce, FlagsMeanFetching, ClosedEmpty, EditState, LoadChain
  <2>5. CASE editLoad.id # None
    <3>1. editLoad.id \in Accounts /\ details[editLoad.id] = edit.auth
      BY <1>0, <1>T, <2>3, <2>5 DEF LoadChain, Ids, ProfileKeepsItsOwner
    <3>2. /\ edit' \in EditState /\ edit'.auth = edit.auth
          /\ edit'.base = edit.auth
      BY <1>T, <2>1, <2>5, <3>1 DEF EditState, Ids
    <3> QED BY <1>0, <1>T, <1>I, <2>1, <2>2, <2>3, <3>2
        DEF EditInv, EditTypeOK, ProfileKeepsItsOwner, FormFits, SavesFit,
              FilledOnce, FlagsMeanFetching, ClosedEmpty, EditState, LoadChain
  <2> QED BY <2>4, <2>5
<1>6. CASE GetPhoto
  <2>1. /\ editLoad.st = "fetching"
        /\ edit' = [edit EXCEPT !.photo = editLoad.id]
        /\ editLoad' = SettleEdit([editLoad EXCEPT !.photo = FALSE])
        /\ UNCHANGED <<storedAuth, details, userTop, save>>
    BY <1>6 DEF GetPhoto
  <2>2. /\ editLoad' \in LoadChain
        /\ editLoad' = IdleEditLoad
              \/ (/\ editLoad'.st = "fetching" /\ editLoad'.id = editLoad.id
                  /\ editLoad'.data = editLoad.data)
    BY <1>T, <2>1, SettleEditType
  <2>3. userTop = "EditProfile"
    BY <1>0, <2>1 DEF ClosedEmpty, EditTypeOK
  <2>4. /\ edit' \in EditState /\ edit'.auth = edit.auth
        /\ edit'.base = edit.base
    BY <1>T, <2>1 DEF EditState, LoadChain
  <2> QED BY <1>0, <1>T, <1>I, <2>1, <2>2, <2>3, <2>4
      DEF EditInv, EditTypeOK, ProfileKeepsItsOwner, FormFits, SavesFit,
              FilledOnce, FlagsMeanFetching, ClosedEmpty, EditState, LoadChain
<1>7. ASSUME NEW which \in {"key", "data", "photo"}, EditLoadFails(which)
      PROVE  EditInv'
  <2>1. UNCHANGED <<storedAuth, details, userTop, edit, save>>
    BY <1>7 DEF EditLoadFails
  <2>2. \/ editLoad' = IdleEditLoad
        \/ /\ editLoad.st = "fetching"
           /\ \/ editLoad' = SettleEdit([editLoad EXCEPT !.data = FALSE])
              \/ editLoad' = SettleEdit([editLoad EXCEPT !.photo = FALSE])
    BY <1>7, <1>0 DEF EditLoadFails, FlagsMeanFetching
  <2>3. /\ editLoad' \in LoadChain
        /\ editLoad' = IdleEditLoad
              \/ (/\ editLoad'.st = "fetching" /\ editLoad'.id = editLoad.id
                  /\ editLoad.st = "fetching"
                  /\ editLoad'.data => editLoad.data)
    BY <1>T, <2>2, SettleEditType
  <2> QED BY <1>0, <1>T, <1>I, <2>1, <2>3
      DEF EditInv, EditTypeOK, ProfileKeepsItsOwner, FormFits, SavesFit,
              FilledOnce, FlagsMeanFetching, ClosedEmpty, EditState, LoadChain
<1>8. CASE ChangeForm
  <2>1. /\ edit' = [edit EXCEPT !.typed = TRUE] /\ userTop = "EditProfile"
        /\ UNCHANGED <<storedAuth, details, userTop, editLoad, save>>
    BY <1>8 DEF ChangeForm, EditorInReach
  <2>2. /\ edit' \in EditState /\ edit'.auth = edit.auth
        /\ edit'.base = edit.base
    BY <1>T, <2>1 DEF EditState
  <2> QED BY <1>0, <1>T, <2>1, <2>2
      DEF EditInv, EditTypeOK, ProfileKeepsItsOwner, FormFits, SavesFit,
              FilledOnce, FlagsMeanFetching, ClosedEmpty, EditState, LoadChain
<1>9. ASSUME NEW s \in Saves, Save(s) PROVE EditInv'
  <2> DEFINE new == [st |-> "sent", id |-> edit.auth, base |-> edit.base]
  <2>1. /\ save' = [save EXCEPT ![s] = new]
        /\ UNCHANGED <<storedAuth, details, userTop, edit, editLoad>>
    BY <1>9 DEF Save
  <2>2. new \in SaveChain /\ new.base \in {None, new.id}
    BY <1>0, <1>T DEF SaveChain, EditState, FormFits
  <2>3. save' \in [Saves -> SaveChain] /\ SavesFit'
    BY <1>0, <1>T, <2>1, <2>2 DEF SavesFit
  <2> QED BY <1>0, <1>T, <2>1, <2>3
      DEF EditInv, EditTypeOK, ProfileKeepsItsOwner, FormFits, FilledOnce,
          FlagsMeanFetching, ClosedEmpty, SaveChain
<1>10. ASSUME NEW s \in Saves, ServerEdits(s) PROVE EditInv'
  <2> DEFINE new == [save[s] EXCEPT !.st = "answered"]
  <2>1. /\ save' = [save EXCEPT ![s] = new]
        /\ UNCHANGED <<storedAuth, userTop, edit, editLoad>>
        /\ \/ /\ save[s].id # None
              /\ details' = [details EXCEPT ![save[s].id] =
                                IF save[s].base = None THEN save[s].id
                                ELSE save[s].base]
           \/ UNCHANGED details
    BY <1>10, <1>T DEF ServerEdits
  <2>2. /\ new \in SaveChain /\ new.id = save[s].id
        /\ new.base = save[s].base
    BY <1>T DEF SaveChain
  <2>3. save' \in [Saves -> SaveChain] /\ SavesFit'
    BY <1>0, <1>T, <2>1, <2>2 DEF SavesFit
  <2>4. (IF save[s].base = None THEN save[s].id ELSE save[s].base) = save[s].id
    BY <1>0 DEF SavesFit
  <2>5. save[s].id \in Ids
    BY <1>T DEF SaveChain
  <2>6. details' \in [Accounts -> Accounts] /\ ProfileKeepsItsOwner'
    BY <1>0, <2>1, <2>4, <2>5 DEF EditTypeOK, ProfileKeepsItsOwner, Ids
  <2> QED BY <1>0, <1>T, <2>1, <2>3, <2>6
      DEF EditInv, EditTypeOK, FormFits, FilledOnce, FlagsMeanFetching, ClosedEmpty, SaveChain
<1>11. ASSUME NEW s \in Saves, SaveEnds(s) PROVE EditInv'
  <2>1. /\ save' = [save EXCEPT ![s] = IdleSave]
        /\ UNCHANGED <<storedAuth, details, userTop, edit, editLoad>>
    BY <1>11 DEF SaveEnds
  <2>2. save' \in [Saves -> SaveChain] /\ SavesFit'
    BY <1>0, <1>T, <2>1 DEF SavesFit, IdleSave
  <2> QED BY <1>0, <1>T, <2>1, <2>2
      DEF EditInv, EditTypeOK, ProfileKeepsItsOwner, FormFits, FilledOnce,
          FlagsMeanFetching, ClosedEmpty, SaveChain
<1> QED
  BY <1>1, <1>2, <1>3, <1>4, <1>5, <1>6, <1>7, <1>8, <1>9, <1>10, <1>11
  DEF EditNext

(***************************************************************************)
(* The whole: registration, editor, drawer and the restart after a crash.  *)
(***************************************************************************)
AccountInv == SignUpInv /\ EditInv

LEMMA AccountInitInv == AccountInit => AccountInv
  BY SignUpInitInv, EditInitInv DEF AccountInit, AccountInv

LEMMA AccountStep == AccountInv /\ [AccountNext]_accountVars => AccountInv'
<1> SUFFICES ASSUME AccountInv, [AccountNext]_accountVars PROVE AccountInv'
  OBVIOUS
<1>0. SignUpInv /\ EditInv
  BY DEF AccountInv
<1>1. ASSUME UNCHANGED editVars PROVE EditInv'
  BY <1>0, <1>1 DEF editVars, EditInv, EditTypeOK, ProfileKeepsItsOwner,
                    FormFits, SavesFit, FilledOnce, FlagsMeanFetching, ClosedEmpty, FlagsMeanFetching
<1>2. ASSUME UNCHANGED signUpVars, screen' \in {"Home", "Login", "Profile"}
      PROVE  SignUpInv'
  BY <1>0, <1>2 DEF signUpVars, SignUpInv, SignUpTypeOK, DeadFormExplained
<1>3. CASE Drawing
  BY <1>1, <1>2, <1>3 DEF Drawing, PickFromDrawer, AccountInv
<1>4. CASE Registering
  BY <1>0, <1>1, <1>4, SignUpStep DEF Registering, AccountInv
<1>5. CASE Editing
  <2>1. screen' \in {"Home", "Login", "Profile"}
    BY <1>0, <1>5 DEF Editing, SignUpInv, SignUpTypeOK
  <2> QED BY <1>0, <1>2, <1>5, <2>1, EditStep DEF Editing, AccountInv
<1>6. CASE ImagePressed
  <2>1. SignUpInv'
    BY <1>6 DEF ImagePressed, SignUpInv, SignUpTypeOK, DeadFormExplained, IdleReg
  <2>2. /\ edit' = EmptyEdit /\ editLoad' = IdleEditLoad /\ userTop' = "Profile"
        /\ UNCHANGED <<storedAuth, details>>
        /\ save' = [s \in Saves |-> IF save[s].st = "sent" THEN save[s]
                                     ELSE IdleSave]
    BY <1>6 DEF ImagePressed
  <2>3. save' \in [Saves -> SaveChain] /\ SavesFit'
    BY <1>0, <2>2 DEF EditInv, EditTypeOK, SavesFit, SaveChain, IdleSave, Ids
  <2>4. EditInv'
    BY <1>0, <2>2, <2>3 DEF EditInv, EditTypeOK, ProfileKeepsItsOwner, FormFits,
       FilledOnce, FlagsMeanFetching, ClosedEmpty, FlagsMeanFetching, EmptyEdit, IdleEditLoad, Ids,
       SaveChain
  <2> QED BY <2>1, <2>4 DEF AccountInv
<1>7. CASE UNCHANGED accountVars
  <2>1. screen' \in {"Home", "Login", "Profile"}
    BY <1>0, <1>7 DEF accountVars, SignUpInv, SignUpTypeOK
  <2> QED BY <1>1, <1>2, <1>7, <2>1 DEF accountVars, AccountInv
<1> QED
  BY <1>3, <1>4, <1>5, <1>6, <1>7 DEF AccountNext

LEMMA AccountInvariance == AccountSpec => []AccountInv
  BY AccountInitInv, AccountStep, PTL DEF AccountSpec

(***************************************************************************)
(* The drawer, the registration and the editor keep their types.           *)
(***************************************************************************)
THEOREM AccountTypeCorrect == AccountSpec => []AccountTypeOK
<1>1. AccountInv => AccountTypeOK
  BY DEF AccountInv, SignUpInv, EditInv, AccountTypeOK
<1> QED
  BY <1>1, AccountInvariance, PTL

(***************************************************************************)
(* However many registrations overlap, a form whose button is disabled has *)
(* its answer or its timer to come, or got stuck for one of the two        *)
(* reasons named (SignUp.js handleSubmit).                                 *)
(***************************************************************************)
THEOREM SubmittedFormsExplained == AccountSpec => []DeadFormExplained
<1>1. AccountInv => DeadFormExplained
  BY DEF AccountInv, SignUpInv
<1> QED
  BY <1>1, AccountInvariance, PTL

(***************************************************************************)
(* No account's profile gets the details of another account, for every     *)
(* number of accounts and overlapping saves, every moment at which the     *)
(* stored key changes, with failures and crashes (EditProfile.js).         *)
(***************************************************************************)
THEOREM OwnerKept == AccountSpec => []ProfileKeepsItsOwner
<1>1. AccountInv => ProfileKeepsItsOwner
  BY DEF AccountInv, EditInv
<1> QED
  BY <1>1, AccountInvariance, PTL

(***************************************************************************)
(* What is typed into a form that has been filled stays in it until the    *)
(* editor is left (EditProfile.js enableReinitialize, getData, getPhoto).  *)
(***************************************************************************)
THEOREM TypedKept == AccountSpec => TypedSurvives
<1> DEFINE Kept == edit.base # None /\ edit.typed =>
                       edit'.typed \/ userTop' = "Profile"
<1>1. AccountInv /\ [AccountNext]_accountVars => [Kept]_edit
  <2> SUFFICES ASSUME AccountInv, [AccountNext]_accountVars,
                      edit' # edit, edit.base # None, edit.typed
               PROVE  edit'.typed \/ userTop' = "Profile"
    OBVIOUS
  <2>0. EditTypeOK /\ FilledOnce /\ ClosedEmpty
    BY DEF AccountInv, EditInv
  <2>1. EditNext \/ ImagePressed
    BY DEF AccountNext, accountVars, Drawing, Registering, Editing, editVars
  <2>2. CASE ImagePressed
    BY <2>2 DEF ImagePressed
  <2>3. ~OpenEditor
    BY <2>0 DEF OpenEditor, ClosedEmpty, EmptyEdit
  <2>4. ~GetData
    BY <2>0 DEF GetData, FilledOnce
  <2>5. CASE GetUser \/ GetPhoto \/ ChangeForm
    BY <2>0, <2>5 DEF GetUser, GetPhoto, ChangeForm, EditTypeOK
  <2>6. CASE LeaveEditor
    BY <2>6 DEF LeaveEditor
  <2>7. EditNext => \/ OpenEditor \/ GetData \/ LeaveEditor
                    \/ GetUser \/ GetPhoto \/ ChangeForm
    BY DEF EditNext, ChangeAuth, EditLoadFails, Save, ServerEdits, SaveEnds
  <2> QED BY <2>1, <2>2, <2>3, <2>4, <2>5, <2>6, <2>7
<1> QED
  BY <1>1, AccountInvariance, PTL DEF AccountSpec, TypedSurvives
=============================================================================
