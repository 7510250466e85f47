------------------------------ MODULE Discover ------------------------------
(***************************************************************************)
(* The search screen and the profile that is opened from its list, one     *)
(* above the other on the OtherUserStack: Search composed with Follow.     *)
(*                                                                         *)
(* Only the top screen is in reach of the user: a text can be typed while  *)
(* the profile is closed, the follow button pressed while it is open.  The *)
(* search screen stays mounted below the profile, and its answers go on    *)
(* arriving; the list must show the user (Other) for the profile to be     *)
(* opened.  How the tapped id gets to the profile is Browse's subject.     *)
(***************************************************************************)
EXTENDS Search, Follow

CONSTANT Other \* the user whose profile Follow is about

ASSUME OtherOK == Other \in Users

DiscoverVars == <<searchVars, vars>>

DiscoverInit == SearchInit /\ Init

\* The user types.
Type == /\ ~open
        /\ Typing
        /\ UNCHANGED vars

SearchGoesOn == Answering /\ UNCHANGED vars

\* moreDetails: a tap on the user's entry opens the profile.
MoreDetails == /\ Other \in userListData
               /\ Open
               /\ UNCHANGED searchVars

ProfileGoesOn == (OnProfile \/ Leave) /\ UNCHANGED searchVars

DiscoverNext == Type \/ SearchGoesOn \/ MoreDetails \/ ProfileGoesOn

DiscoverSpec == DiscoverInit /\ [][DiscoverNext]_DiscoverVars

-----------------------------------------------------------------------------
\* Type invariant of the two screens.
DiscoverTypeOK == SearchTypeOK /\ TypeOK
=============================================================================
