----------------------------- MODULE MCAccount -----------------------------
(***************************************************************************)
(* A small instance of Account for TLC.                                    *)
(***************************************************************************)
EXTENDS Account

\* The controls the screens are written for: handlers are forwarded.
WiredButtonProps == CommittedButtonProps \cup {"onPress", "disabled"}
WiredInputProps  == CommittedInputProps \cup {"onChangeText", "value"}
=============================================================================
