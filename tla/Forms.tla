------------------------------- MODULE Forms -------------------------------
(***************************************************************************)
(* The form controls shared by every screen (components/*.js).             *)
(*                                                                         *)
(* FormButton and FormInput are function components that destructure the   *)
(* properties they use and drop the rest, so a property a screen passes    *)
(* reaches the underlying control only when the destructuring names it.    *)
(* The two constants are those lists of names.  The committed lists are    *)
(*   FormButton  {title, buttonType, buttonColor}                          *)
(*   FormInput   {iconName, iconColor, name, placeholder}                  *)
(* (CommittedButtonProps, CommittedInputProps).  The screens are written   *)
(* for controls that also forward "onPress" and "onChangeText"; what is    *)
(* checked of the handlers behind a form is checked for such lists.        *)
(***************************************************************************)
CONSTANTS FormButtonProps, \* names FormButton takes from its properties
          FormInputProps   \* names FormInput takes from its properties

(***************************************************************************)
(* The lists of the committed components.                                  *)
(***************************************************************************)
CommittedButtonProps == {"title", "buttonType", "buttonColor"}
CommittedInputProps  == {"iconName", "iconColor", "name", "placeholder"}

(***************************************************************************)
(* FormButton: a press reaches the handler the screen passed as onPress.   *)
(***************************************************************************)
FormButton == "onPress" \in FormButtonProps

(***************************************************************************)
(* FormInput: a keystroke reaches the form's handleChange, so the value    *)
(* can leave its initial ''.                                               *)
(***************************************************************************)
FormInput == "onChangeText" \in FormInputProps

(***************************************************************************)
(* A Formik form with required text fields calls onSubmit: the button must *)
(* fire, and the fields must be fillable, because the validation schemas   *)
(* reject the initial '' of every field before onSubmit is called.         *)
(***************************************************************************)
FormSubmits == FormButton /\ FormInput
=============================================================================
