------------------------------- MODULE Account -------------------------------
(***************************************************************************)
(* Registration and the editor of the profile in one drawer, with the      *)
(* crash the photo of a profile leads to.                                  *)
(*                                                                         *)
(* Both Profile and EditProfile open screens/EditPhoto.js when the photo   *)
(* is pressed.  Its render binds this.takePicture, which the class does    *)
(* not have, so it throws, nothing catches it, and the app is started      *)
(* again: screens, forms and timers are gone, AsyncStorage and what has    *)
(* reached the server stay.                                                *)
(***************************************************************************)
EXTENDS SignUp, EditProfile

accountVars == <<screen, signUpVars, editVars>>

AccountInit == DrawerInit /\ SignUpInit /\ EditInit

Drawing == /\ \E s \in {"Home", "Login", "Profile"} : PickFromDrawer(s)
           /\ UNCHANGED <<signUpVars, editVars>>

Registering == SignUpNext /\ UNCHANGED editVars

Editing == EditNext /\ UNCHANGED <<screen, signUpVars>>

\* imagePressed, and the restart that follows.  A save the server has not
\* handled yet may still be handled.
ImagePressed ==
    /\ screen = "Profile"
    /\ screen' = "Home"
    /\ loginTop' = "Login"
    /\ submitting' = FALSE
    /\ stuck' = FALSE
    /\ reg' = [r \in Regs |-> IdleReg]
    /\ userTop' = "Profile"
    /\ edit' = EmptyEdit
    /\ editLoad' = IdleEditLoad
    /\ save' = [s \in Saves |-> IF save[s].st = "sent" THEN save[s]
                                ELSE IdleSave]
    /\ UNCHANGED <<storedAuth, details>>

AccountNext == Drawing \/ Registering \/ Editing \/ ImagePressed

AccountSpec == AccountInit /\ [][AccountNext]_accountVars

(***************************************************************************)
(* Fairness: the server answers a registration, the answer is handled and  *)
(* the timer fires.  The user owes nothing, and may press the photo.       *)
(***************************************************************************)
FairAccountSpec ==
    /\ AccountSpec
    /\ \A r \in Regs : WF_accountVars(RegNext(r) /\ UNCHANGED editVars)

\* Type invariant of the drawer, the registration and the editor.
AccountTypeOK == SignUpTypeOK /\ EditTypeOK
=============================================================================
