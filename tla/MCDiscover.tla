----------------------------- MODULE MCDiscover -----------------------------
(***************************************************************************)
(* A small instance of Discover for TLC.                                   *)
(***************************************************************************)
EXTENDS Discover, TLC

CONSTANTS ann, bob, amp, \* three texts; amp is "ann&...", which is cut
          u1, u2,        \* users
          qAnn, qBob     \* what the server reads

\* The button the screen is written for: onPress is forwarded.
WiredButtonProps == CommittedButtonProps \cup {"onPress"}
WiredInputProps  == CommittedInputProps \cup {"onChangeText"}

AllTexts   == {ann, bob, amp}
AllQueries == {qAnn, qBob}
AllUsers   == {u1, u2}
ReadAs     == (ann :> qAnn) @@ (amp :> qAnn) @@ (bob :> qBob)
Finds      == (qAnn :> {u1, u2}) @@ (qBob :> {u2})

\* Chains and presses are only told apart by their names.
DiscoverSymmetry == Permutations(Searches) \cup Permutations(Presses)
=============================================================================
