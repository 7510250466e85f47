------------------------------- MODULE Drawer -------------------------------
(***************************************************************************)
(* The drawer of screens/navigators.js, as the registration and the editor *)
(* of the profile see it: three stacks that stay mounted, one of them      *)
(* active.                                                                 *)
(***************************************************************************)
VARIABLE screen \* the active stack

DrawerInit == screen = "Home"

\* The user picks another entry of the drawer.
PickFromDrawer(s) == /\ s \in {"Home", "Login", "Profile"} \ {screen}
                     /\ screen' = s
=============================================================================
