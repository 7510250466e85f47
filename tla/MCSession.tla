----------------------------- MODULE MCSession -----------------------------
(***************************************************************************)
(* Small instances of Session for TLC.                                     *)
(***************************************************************************)
EXTENDS Session, TLC

\* The controls the screens are written for: handlers are forwarded.
WiredButtonProps == CommittedButtonProps \cup {"onPress", "disabled"}
WiredInputProps  == CommittedInputProps \cup {"onChangeText", "value"}

\* Accounts and tokens are only compared with each other.
SessionSymmetry == Permutations(Users) \cup Permutations(Tokens)
                   \cup Permutations(Loads) \cup Permutations(Logins)
=============================================================================
