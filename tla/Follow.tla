------------------------------- MODULE Follow -------------------------------
(***************************************************************************)
(* The Follow/Following button of screens/OtherProfile.js and the relation *)
(* the server keeps.                                                       *)
(*                                                                         *)
(* isFollowing is set by two kinds of answers: getFollowers, which only    *)
(* ever sets it, and the answers to the presses of the button, which are   *)
(* followed only when their status is 200.  The button is never disabled:  *)
(* the user presses it as often as he likes, before and after the answers  *)
(* come.  Requests reach the server in any order, and their answers arrive *)
(* in any order.  The module follows one account and one other user's      *)
(* profile; opening it mounts a new screen, whose state and answers are    *)
(* gone when it is left.                                                   *)
(***************************************************************************)
EXTENDS Forms

CONSTANTS Presses, \* names of follow() chains
          Faulty   \* BOOLEAN: requests may fail

VARIABLES open,        \* the profile is mounted
          auth,        \* the key the screen read
          follows,     \* server: the account follows this user
          isFollowing, \* state of the screen
          isLoading,   \* state of the screen
          followers,   \* getFollowers: its progress and the server's answer
          following,   \* getFollowing is under way
          press,       \* follow() chains
          news         \* history: where the news of the relation are

vars == <<open, auth, follows, isFollowing, isLoading, followers, following,
          press, news>>

ASSUME ConstantsOK == Faulty \in BOOLEAN

\* The key: none stored, one with a token the server has dropped, or a good one.
Keys == {"none", "stale", "good"}

(***************************************************************************)
(* The history variable says where the title gets the server's current     *)
(* relation from: the list of followers that was asked for at the mount,   *)
(* the answer of the press that changed the relation last, or nowhere any  *)
(* more: it is shown.  It stays wrong when that answer was lost, when an   *)
(* older answer overtook it, or when a press of an earlier mount, whose    *)
(* answer nobody receives, has changed the relation.                       *)
(***************************************************************************)
Sources == {"list", "press", "shown"}
Causes  == {"lost", "overtaken", "stray"}

\* newest (history): the server has not changed the relation since it handled
\* this request.
IdlePress  == [st |-> "idle", follow |-> FALSE, ok |-> FALSE,
               mounted |-> FALSE, newest |-> FALSE]
NoList     == [st |-> "done", has |-> FALSE, newest |-> FALSE]
AskForList == [NoList EXCEPT !.st = "sent"]

Init == /\ open = FALSE
        /\ auth \in Keys
        /\ follows \in BOOLEAN
        /\ isFollowing = FALSE
        /\ isLoading = TRUE
        /\ followers = NoList
        /\ following = FALSE
        /\ press = [p \in Presses |-> IdlePress]
        /\ news = "list"

Quiet == /\ followers.st = "done"
         /\ ~following
         /\ \A p \in Presses : press[p].st = "idle"

-----------------------------------------------------------------------------
\* The button, which is shown when the screen is not loading: DELETE when the
\* screen believes that the user follows, POST otherwise, with the token of the
\* key the screen read (ok: the server accepts it).
FollowButton(p) ==
    /\ open
    /\ ~isLoading
    /\ FormButton
    /\ press[p].st = "idle"
    /\ press' = [press EXCEPT ![p] = [st |-> "sent", follow |-> ~isFollowing,
                                      ok |-> auth = "good", mounted |-> TRUE,
                                      newest |-> FALSE]]
    /\ UNCHANGED <<open, auth, follows, isFollowing, isLoading, followers,
                   following, news>>

\* External server: nothing to do, the token is refused or the relation is
\* already as asked.
ServerRefuses(p) ==
    /\ press[p].st = "sent"
    /\ press[p].ok => follows = press[p].follow
    /\ press' = [press EXCEPT ![p].st = "handled", ![p].ok = FALSE]
    /\ UNCHANGED <<open, auth, follows, isFollowing, isLoading, followers,
                   following, news>>

\* External server: 200, the relation changes.  The list of followers reports
\* the press of an earlier mount when it is still to be made.
ServerFollows(p) ==
    /\ press[p].st = "sent"
    /\ press[p].ok
    /\ follows # press[p].follow
    /\ follows' = press[p].follow
    /\ press' = [q \in Presses |->
                     [press[q] EXCEPT !.newest = (q = p),
                                      !.st = IF q = p THEN "handled" ELSE @]]
    /\ followers' = [followers EXCEPT !.newest = FALSE]
    /\ news' = IF press[p].mounted THEN "press"
               ELSE IF news = "list" /\ followers.st = "sent" THEN "list"
               ELSE "stray"
    /\ UNCHANGED <<open, auth, isFollowing, isLoading, following>>

\* The answer arrives; a screen that was left ignores it.
Applied(p) == press[p].ok /\ press[p].mounted

Bug_NeverSettles(p) ==
    /\ press[p].st = "handled"
    /\ isFollowing' = IF Applied(p) THEN press[p].follow ELSE isFollowing
    /\ news' = news
    /\ press' = [press EXCEPT ![p].st = "done"]
    /\ UNCHANGED <<open, auth, follows, isLoading, followers, following>>

Bug_IgnoresStatus(p) ==
    /\ press[p].st = "handled"
    /\ isFollowing' = IF press[p].mounted THEN press[p].follow ELSE isFollowing
    /\ news' = IF ~Applied(p) THEN news
               ELSE IF press[p].newest THEN "shown"
               ELSE IF news = "shown" THEN "overtaken" ELSE news
    /\ press' = [press EXCEPT ![p] = IdlePress]
    /\ UNCHANGED <<open, auth, follows, isLoading, followers, following>>

FollowAnswer(p) ==
    /\ press[p].st = "handled"
    /\ isFollowing' = IF Applied(p) THEN press[p].follow ELSE isFollowing
    /\ news' = IF ~Applied(p) THEN news
               ELSE IF press[p].newest THEN "shown"
               ELSE IF news = "shown" THEN "overtaken" ELSE news
    /\ press' = [press EXCEPT ![p] = IdlePress]
    /\ UNCHANGED <<open, auth, follows, isLoading, followers, following>>

\* The request is rejected and logged, before or after the server handled it.
FollowFails(p) ==
    /\ Faulty
    /\ press[p].st # "idle"
    /\ press' = [press EXCEPT ![p] = IdlePress]
    /\ news' = IF Applied(p) /\ press[p].newest THEN "lost" ELSE news
    /\ UNCHANGED <<open, auth, follows, isFollowing, isLoading, followers,
                   following>>

-----------------------------------------------------------------------------
\* External server: GET /user/<id>/followers, which needs no token; has says
\* whether one entry has the id of the key the screen read.
ServerListsFollowers ==
    /\ followers.st = "sent"
    /\ followers' = [st |-> "handled", has |-> auth # "none" /\ follows,
                     newest |-> TRUE]
    /\ UNCHANGED <<open, auth, follows, isFollowing, isLoading, following,
                   press, news>>

\* The list arrives: isFollowing is set, and never cleared.
GetFollowers ==
    /\ followers.st = "handled"
    /\ isFollowing' = (isFollowing \/ followers.has)
    /\ news' = IF news = "list" THEN "shown"
               ELSE IF news = "shown" /\ followers.has /\ ~followers.newest
                    THEN "overtaken" ELSE news
    /\ followers' = NoList
    /\ UNCHANGED <<open, auth, follows, isLoading, following, press>>

GetFollowersFails ==
    /\ Faulty
    /\ followers.st # "done"
    /\ followers' = NoList
    /\ news' = IF news = "list" THEN "lost" ELSE news
    /\ UNCHANGED <<open, auth, follows, isFollowing, isLoading, following,
                   press>>

\* getFollowing ends the loading.
GetFollowing ==
    /\ following
    /\ following' = FALSE
    /\ isLoading' = FALSE
    /\ UNCHANGED <<open, auth, follows, isFollowing, followers, press, news>>

\* When it fails the screen stays loading.
GetFollowingFails ==
    /\ Faulty
    /\ following
    /\ following' = FALSE
    /\ UNCHANGED <<open, auth, follows, isFollowing, isLoading, followers,
                   press, news>>

\* The profile is opened: a new screen with the constructor's state, which
\* sends its two requests.  By now the user may have logged in or out.
Open ==
    /\ ~open
    /\ open' = TRUE
    /\ auth' \in Keys
    /\ isFollowing' = FALSE
    /\ isLoading' = TRUE
    /\ followers' = AskForList
    /\ following' = TRUE
    /\ news' = "list"
    /\ UNCHANGED <<follows, press>>

\* Back: the screen is unmounted; the presses under way still reach the
\* server, but no answer is applied any more.
Leave ==
    /\ open
    /\ open' = FALSE
    /\ followers' = NoList
    /\ following' = FALSE
    /\ press' = [p \in Presses |-> [press[p] EXCEPT !.mounted = FALSE]]
    /\ UNCHANGED <<auth, follows, isFollowing, isLoading, news>>

-----------------------------------------------------------------------------
\* What happens on the profile while it is open, and to its requests.
OnProfile ==
    \/ \E p \in Presses : \/ FollowButton(p)
                          \/ ServerRefuses(p) \/ ServerFollows(p)
                          \/ FollowAnswer(p) \/ FollowFails(p)
    \/ ServerListsFollowers \/ GetFollowers \/ GetFollowersFails
    \/ GetFollowing \/ GetFollowingFails

Next == OnProfile \/ Open \/ Leave

Spec == Init /\ [][Next]_vars

-----------------------------------------------------------------------------
(***************************************************************************)
(* Properties                                                              *)
(***************************************************************************)
\* Type invariant of the button, the server's relation and the requests.
TypeOK ==
    /\ open \in BOOLEAN
    /\ auth \in Keys
    /\ follows \in BOOLEAN
    /\ isFollowing \in BOOLEAN
    /\ isLoading \in BOOLEAN
    /\ following \in BOOLEAN
    /\ news \in Sources \cup Causes
    /\ followers \in [st : {"sent", "handled", "done"}, has : BOOLEAN,
                      newest : BOOLEAN]
    /\ press \in [Presses -> [st : {"idle", "sent", "handled"},
                              follow : BOOLEAN, ok : BOOLEAN,
                              mounted : BOOLEAN, newest : BOOLEAN]]

\* What the title should say: 'Following' exactly when the account whose key
\* the screen read follows this user.
RightTitle == isFollowing = (auth # "none" /\ follows)

\* The user presses whenever he likes, ahead of the list of followers and of
\* the answers of earlier presses, logged in, logged out or with a token the
\* server refuses, and leaves and opens the profile again at any time.  Once
\* nothing is under way, a wrong title has one of three causes since the last
\* change of the relation: its answer was lost; an older answer was applied
\* after it; or the change was made by a press of an earlier mount and the
\* list had been made by then.  Neither a refused press nor a failure of any
\* other request makes it wrong, and opening the profile again mends it
\* although getFollowers can only ever set isFollowing (OtherProfile.js
\* follow, getFollowers).
TitleExplained == open /\ Quiet => RightTitle \/ news \in Causes
=============================================================================
