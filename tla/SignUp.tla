------------------------------- MODULE SignUp -------------------------------
(***************************************************************************)
(* Registration: screens/SignUp.js on top of Login on the LoginStack.      *)
(*                                                                         *)
(* handleSubmit's promise is not handed to Formik, so isSubmitting stays   *)
(* true, and the button disabled, until the form is unmounted.  What is to *)
(* unmount it is a timer that navigates to Login three seconds after any   *)
(* answer.  The timer is never cleared: it fires wherever the user is by   *)
(* then, and on whichever form is on top by then.                          *)
(***************************************************************************)
EXTENDS Drawer, Forms

CONSTANTS Regs,        \* names of SignUp.handleSubmit chains
          SignUpFaulty \* BOOLEAN: requests may fail

VARIABLES loginTop,   \* the top of the LoginStack
          submitting, \* Formik: isSubmitting of the mounted form
          reg,        \* handleSubmit chains, to the end of their timer
          stuck       \* history: nothing will unmount the submitted form

signUpVars == <<loginTop, submitting, reg, stuck>>

ASSUME SignUpConstantsOK == SignUpFaulty \in BOOLEAN

\* mine: the chain was started by the form that is mounted.
IdleReg == [st |-> "idle", mine |-> FALSE]

SignUpInit == /\ loginTop = "Login"
              /\ submitting = FALSE
              /\ reg = [r \in Regs |-> IdleReg]
              /\ stuck = FALSE

\* The form is unmounted; its chains and their timers go on.
Unmount == /\ loginTop' = "Login"
           /\ submitting' = FALSE
           /\ stuck' = FALSE

Disowned(chains) == [r \in Regs |-> [chains[r] EXCEPT !.mine = FALSE]]

-----------------------------------------------------------------------------
\* Login's Sign Up button.
GoToSignup ==
    /\ screen = "Login" /\ loginTop = "Login"
    /\ loginTop' = "SignUp"
    /\ UNCHANGED <<screen, submitting, reg, stuck>>

\* Back to Login.
LeaveSignUp ==
    /\ screen = "Login" /\ loginTop = "SignUp"
    /\ Unmount
    /\ reg' = Disowned(reg)
    /\ UNCHANGED screen

\* The Sign Up button of the form: POST /user/ is sent.
HandleSubmit(r) ==
    /\ screen = "Login" /\ loginTop = "SignUp"
    /\ FormSubmits
    /\ "disabled" \in FormButtonProps => ~submitting
    /\ reg[r].st = "idle"
    /\ reg' = [reg EXCEPT ![r] = [st |-> "sent", mine |-> TRUE]]
    /\ submitting' = TRUE
    /\ UNCHANGED <<screen, loginTop, stuck>>

\* External server: 201, or any other status.
ServerRegisters(r, answer) ==
    /\ reg[r].st = "sent"
    /\ answer \in {"created", "refused"}
    /\ reg' = [reg EXCEPT ![r].st = answer]
    /\ UNCHANGED <<screen, loginTop, submitting, stuck>>

\* "Account created": the timer is started.
AccountCreated(r) ==
    /\ reg[r].st = "created"
    /\ reg' = [reg EXCEPT ![r].st = "timer"]
    /\ UNCHANGED <<screen, loginTop, submitting, stuck>>

\* "Account creation failed": the timer is started all the same.
Bug_NoTimerAfterRefusal(r) ==
    /\ reg[r].st = "refused"
    /\ reg' = [reg EXCEPT ![r] = IdleReg]
    /\ UNCHANGED <<screen, loginTop, submitting, stuck>>

CreationFailed(r) ==
    /\ reg[r].st = "refused"
    /\ reg' = [reg EXCEPT ![r].st = "timer"]
    /\ UNCHANGED <<screen, loginTop, submitting, stuck>>

\* The timer: navigate('Login').  The active stack is asked first, so inside
\* the LoginStack the form on top is popped; elsewhere 'Login' is the drawer's
\* route, and its stack is shown as it is.
Bug_TimerOnlySwitches(r) ==
    /\ reg[r].st = "timer"
    /\ reg' = [reg EXCEPT ![r] = IdleReg]
    /\ screen' = "Login"
    /\ UNCHANGED <<loginTop, submitting, stuck>>

TimerNavigates(r) ==
    LET rest == [reg EXCEPT ![r] = IdleReg] IN
    /\ reg[r].st = "timer"
    /\ screen' = "Login"
    /\ \/ /\ screen = "Login"
          /\ Unmount
          /\ reg' = Disowned(rest)
       \/ /\ screen # "Login"
          /\ reg' = rest
          /\ stuck' = (stuck \/ reg[r].mine)
          /\ UNCHANGED <<loginTop, submitting>>

\* The request is rejected and logged: no timer.
SignUpFails(r) ==
    /\ SignUpFaulty
    /\ reg[r].st \in {"sent", "created", "refused"}
    /\ reg' = [reg EXCEPT ![r] = IdleReg]
    /\ stuck' = (stuck \/ reg[r].mine)
    /\ UNCHANGED <<screen, loginTop, submitting>>

-----------------------------------------------------------------------------
RegNext(r) == \/ \E answer \in {"created", "refused"} : ServerRegisters(r, answer)
              \/ AccountCreated(r) \/ CreationFailed(r)
              \/ TimerNavigates(r)

SignUpNext == \/ GoToSignup \/ LeaveSignUp
              \/ \E r \in Regs : HandleSubmit(r) \/ RegNext(r) \/ SignUpFails(r)

-----------------------------------------------------------------------------
(***************************************************************************)
(* Properties                                                              *)
(***************************************************************************)
\* Type invariant of the LoginStack, its form and the registrations.
SignUpTypeOK ==
    /\ screen \in {"Home", "Login", "Profile"}
    /\ loginTop \in {"Login", "SignUp"}
    /\ {submitting, stuck} \subseteq BOOLEAN
    /\ reg \in [Regs -> [st : {"idle", "sent", "created", "refused", "timer"},
                         mine : BOOLEAN]]

\* A form whose button is disabled because it was submitted has its own answer
\* or timer still to come, which will take the user to Login, unless its
\* request failed or its timer fired while the user was in another stack: then
\* only Back leads out of it (SignUp.js handleSubmit, the Formik form of
\* render, and navigators.js LoginStack).
DeadFormExplained ==
    submitting => \/ stuck
                  \/ \E r \in Regs : reg[r].mine /\ reg[r].st # "idle"

\* A submitted form is left at last, whether the account was created or not,
\* unless it got stuck (SignUp.js handleSubmit).
SubmittedFormIsLeft == submitting ~> (~submitting \/ stuck)
=============================================================================
