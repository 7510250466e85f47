------------------------------- MODULE Browse -------------------------------
(***************************************************************************)
(* Looking at other users: Search, OtherProfile, Followers and Following   *)
(* on the stack OtherUserStack (screens/navigators.js).                    *)
(*                                                                         *)
(* The screens do not pass the user to show as a parameter: moreDetails    *)
(* writes it under 'id' in AsyncStorage and navigates, and the new screen  *)
(* reads 'id' when it is mounted.  All screens of the stack share that one *)
(* value, and neither the write nor the navigation waits for the other.    *)
(*                                                                         *)
(* AsyncStorage works off its calls one at a time and calls back in the    *)
(* same order (queue).  A screen on the stack is a record with a key of    *)
(* its own; what arrives for a screen that was left is dropped, as React   *)
(* drops setState on an unmounted component.                               *)
(***************************************************************************)
EXTENDS Naturals, Sequences, FiniteSets, SequencesExt

CONSTANTS Users,    \* user ids
          Keys,     \* names of mounted screens
          None,     \* no id
          MaxDepth, \* bound on the depth of the stack
          MaxQueue, \* bound on the storage calls under way
          Faulty,   \* BOOLEAN: requests and storage calls may fail
          Patient   \* BOOLEAN: the user waits until nothing is under way

VARIABLES stack,    \* OtherUserStack, bottom first
          storedId, \* AsyncStorage: the value under 'id'
          queue     \* AsyncStorage: the calls under way, oldest first

vars == <<stack, storedId, queue>>

ASSUME ConstantsOK == /\ None \notin Users \cup Keys
                      /\ MaxDepth \in Nat \ {0} /\ MaxQueue \in Nat
                      /\ {Faulty, Patient} \subseteq BOOLEAN

(***************************************************************************)
(* What a screen requests once it knows the id: OtherProfile three parts   *)
(* (getData, getFollowers, getFollowing), a list one.                      *)
(***************************************************************************)
Lists == {"Followers", "Following"}
Parts == {"data", "followers", "following"}
Requests(route) == IF route = "OtherProfile" THEN Parts ELSE {"list"}

\* The answer that brings the content: OtherProfile shows nothing but the
\* spinner until getFollowing answers, the only one that clears isLoading.
Shows(part) == part \in {"following", "list"}

(***************************************************************************)
(* A screen: its route, the user it was opened for (asked, history), the   *)
(* id it read (None until then), the requests it waits for, whether it     *)
(* shows its content, and its mishaps (history): "lost" when a call its    *)
(* content depends on failed, "raced" when another entry was tapped while  *)
(* it was loading.                                                         *)
(***************************************************************************)
Screen(k, route, u) == [key |-> k, route |-> route, asked |-> u, id |-> None,
                        pending |-> {}, shown |-> route = "Search",
                        mishaps |-> {}]

Mark(s, k, mishap) ==
    [i \in DOMAIN s |-> IF s[i].key # k THEN s[i]
                        ELSE [s[i] EXCEPT !.mishaps = @ \cup {mishap}]]

Init == /\ stack = <<Screen(None, "Search", None)>>
        /\ storedId \in Users \cup {None}
        /\ queue = <<>>

Top == Last(stack)

-----------------------------------------------------------------------------
(***************************************************************************)
(* Who may act                                                             *)
(***************************************************************************)
Quiet == /\ queue = <<>>
         /\ \A i \in 1..Len(stack) : stack[i].pending = {}

UserMayAct == Patient => Quiet

Call(op, k, id) == [op |-> op, key |-> k, id |-> id]

Enqueue(calls) == /\ Len(queue) + Len(calls) <= MaxQueue
                  /\ queue' = queue \o calls

\* componentDidMount: OtherProfile's getUser reads 'auth' first, the lists
\* read 'id' at once.
Mounting(k, route) ==
    <<Call(IF route = "OtherProfile" THEN "getAuth" ELSE "getId", k, None)>>

\* Keys no screen and no storage call has; the next screen is given one of
\* them.  Which one does not matter: keys are only compared.
FreeKeys == {k \in Keys : /\ \A i \in 1..Len(stack) : stack[i].key # k
                          /\ \A i \in 1..Len(queue) : queue[i].key # k}
NewKey == CHOOSE k \in FreeKeys : TRUE

\* A new screen on top of stack s.
Push(s, route, u) ==
    /\ FreeKeys # {}
    /\ Len(s) < MaxDepth
    /\ stack' = Append(s, Screen(NewKey, route, u))

-----------------------------------------------------------------------------
(***************************************************************************)
(* The user                                                                *)
(***************************************************************************)
\* An entry of Search or of a list is tapped: storeId(id), then the
\* navigation.  From Search navigate finds no OtherProfile on the stack, and
\* from a list push does not look for one.
Bug_StoreFirstOnly(u) ==
    /\ UserMayAct
    /\ Top.route # "OtherProfile" /\ Top.shown
    /\ Push(stack, "OtherProfile", u)
    /\ Enqueue((IF storedId = None THEN <<Call("setId", NewKey, u)>> ELSE <<>>)
                   \o Mounting(NewKey, "OtherProfile"))
    /\ UNCHANGED storedId

MoreDetails(u) ==
    /\ UserMayAct
    /\ Top.route # "OtherProfile" /\ Top.shown
    /\ Push(stack, "OtherProfile", u)
    /\ Enqueue(<<Call("setId", NewKey, u)>> \o Mounting(NewKey, "OtherProfile"))
    /\ UNCHANGED storedId

\* A second entry is tapped while the profile of the first slides in and is
\* still loading.  On Search the id is stored and navigate finds the profile on
\* the stack; on a list a second profile is pushed.  The key of a setId call
\* is history, the screen it was made for.
TapAgain(u) ==
    /\ UserMayAct
    /\ Top.route = "OtherProfile" /\ ~Top.shown
    /\ stack[Len(stack) - 1].route # "OtherProfile"
    /\ IF Len(stack) = 2
       THEN /\ stack' = Mark([stack EXCEPT ![2].asked = u], Top.key, "raced")
            /\ Enqueue(<<Call("setId", Top.key, u)>>)
       ELSE /\ Push(Mark(stack, Top.key, "raced"), "OtherProfile", u)
            /\ Enqueue(<<Call("setId", NewKey, u)>>
                           \o Mounting(NewKey, "OtherProfile"))
    /\ UNCHANGED storedId

\* goToFollowers, goToFollowing: navigate(route) mounts a new screen only when
\* the stack has none of that route; otherwise it goes back to the first one.
GoTo(route) ==
    LET on == {i \in 1..Len(stack) : stack[i].route = route} IN
    /\ UserMayAct
    /\ Top.route = "OtherProfile" /\ Top.shown
    /\ IF on = {}
       THEN /\ Push(stack, route, Top.asked)
            /\ Enqueue(Mounting(NewKey, route))
       ELSE \E i \in on :
                /\ \A j \in on : i <= j
                /\ stack' = [SubSeq(stack, 1, i) EXCEPT ![i].asked = Top.asked]
                /\ UNCHANGED queue
    /\ UNCHANGED storedId

Bug_BackAlways ==
    /\ UserMayAct
    /\ stack' = Front(stack)
    /\ UNCHANGED <<storedId, queue>>

Back ==
    /\ UserMayAct
    /\ Len(stack) > 1
    /\ stack' = Front(stack)
    /\ UNCHANGED <<storedId, queue>>

-----------------------------------------------------------------------------
(***************************************************************************)
(* AsyncStorage and the requests                                           *)
(***************************************************************************)
SetId ==
    /\ queue # <<>> /\ Head(queue).op = "setId"
    /\ storedId' = Head(queue).id
    /\ queue' = Tail(queue)
    /\ UNCHANGED stack

\* OtherProfile.getUser has the key and asks for the id.
GetAuth ==
    /\ queue # <<>> /\ Head(queue).op = "getAuth"
    /\ queue' = Append(Tail(queue), Call("getId", Head(queue).key, None))
    /\ UNCHANGED <<stack, storedId>>

\* The id arrives and the requests are sent with it.
GetId ==
    /\ queue # <<>> /\ Head(queue).op = "getId"
    /\ stack' = [i \in DOMAIN stack |->
                    IF stack[i].key # Head(queue).key THEN stack[i]
                    ELSE [stack[i] EXCEPT !.id = storedId,
                                          !.pending = Requests(stack[i].route)]]
    /\ queue' = Tail(queue)
    /\ UNCHANGED storedId

\* A request of screen k is over, in any order; shows tells whether its answer
\* brings the content.  The error text answered for /user/null is not JSON and
\* ends in the catch.
Settle(k, part, shows, mishaps) ==
    /\ \E i \in 1..Len(stack) :
           /\ stack[i].key = k
           /\ part \in stack[i].pending
           /\ stack' = [stack EXCEPT ![i].pending = @ \ {part},
                                     ![i].shown = @ \/ (shows /\ stack[i].id # None),
                                     ![i].mishaps = @ \cup mishaps]
    /\ UNCHANGED <<storedId, queue>>

Bug_FollowingTooEarly(k, part) ==
    Settle(k, part, Shows(part) /\ \A i \in 1..Len(stack) :
                        stack[i].key = k => "followers" \notin stack[i].pending, {})

Answer(k, part) == Settle(k, part, Shows(part), {})

\* A request is rejected and logged.
AnswerFails(k, part) ==
    /\ Faulty
    /\ Settle(k, part, FALSE, IF Shows(part) THEN {"lost"} ELSE {})

\* A storage call is rejected: the id is not stored, or the screen that read
\* it gives up.
StorageFails ==
    /\ Faulty
    /\ queue # <<>>
    /\ queue' = Tail(queue)
    /\ stack' = Mark(stack, Head(queue).key, "lost")
    /\ UNCHANGED storedId

-----------------------------------------------------------------------------
StorageNext == SetId \/ GetAuth \/ GetId

AnswerNext == \E k \in Keys, part \in Parts \cup {"list"} : Answer(k, part)

UserNext ==
    \/ \E u \in Users : MoreDetails(u) \/ TapAgain(u)
    \/ \E r \in Lists : GoTo(r)
    \/ Back

Failures ==
    \/ StorageFails
    \/ \E k \in Keys, part \in Parts \cup {"list"} : AnswerFails(k, part)

Next == UserNext \/ StorageNext \/ AnswerNext \/ Failures

Spec == Init /\ [][Next]_vars

(***************************************************************************)
(* Fairness: AsyncStorage completes its calls, and every request of a      *)
(* screen is answered.                                                     *)
(***************************************************************************)
FairSpec == /\ Spec
            /\ WF_vars(StorageNext)
            /\ \A k \in Keys, part \in Parts \cup {"list"} :
                   WF_vars(Answer(k, part))

-----------------------------------------------------------------------------
(***************************************************************************)
(* Properties                                                              *)
(***************************************************************************)
Screens == [key : Keys \cup {None},
            route : Lists \cup {"Search", "OtherProfile"},
            asked : Users \cup {None}, id : Users \cup {None},
            pending : SUBSET (Parts \cup {"list"}),
            shown : BOOLEAN,
            mishaps : SUBSET {"lost", "raced"}]

\* Type invariant of the stack, the stored id and the storage calls; the bottom
\* of the stack is always Search.
TypeOK ==
    /\ stack \in Seq(Screens)
    /\ Len(stack) \in 1..MaxDepth
    /\ stack[1].route = "Search"
    /\ storedId \in Users \cup {None}
    /\ queue \in Seq([op : {"setId", "getAuth", "getId"},
                      key : Keys \cup {None}, id : Users \cup {None}])
    /\ Len(queue) <= MaxQueue

\* A profile shows the user whose entry was tapped to open it, and keeps showing
\* that user while other profiles are opened on top of it and left again,
\* although the id travels through the one stored value every screen overwrites,
\* however hasty the user is: only a second tap while it was loading or a lost
\* storage call can make it show somebody else (moreDetails and storeId of
\* Search.js, Followers.js and Following.js, getUser of OtherProfile.js).
ProfileShowsTapped ==
    \A i \in 1..Len(stack) :
        stack[i].route = "OtherProfile" /\ stack[i].mishaps = {} =>
            stack[i].id \in {None, stack[i].asked}

\* OtherProfile.js calls its buttons "go to followers button" and "go to
\* following button": the list a button opens is the list of the profile it was
\* pressed on.
ListOfItsProfile ==
    Top.route \in Lists /\ Top.shown => Top.id = Top.asked

\* A profile that stays open stops showing the spinner, in whatever order its
\* three answers arrive, whether or not the other two fail and however often
\* other entries are tapped meanwhile, unless a storage call made for it or the
\* one request that clears isLoading fails; a list likewise (OtherProfile.js
\* getUser, getFollowing, Followers.js getFollowers).
LoadingEnds ==
    \A k \in Keys :
        (\E i \in 1..Len(stack) : stack[i].key = k /\ ~stack[i].shown)
            ~> (\A i \in 1..Len(stack) :
                    stack[i].key = k =>
                        stack[i].shown \/ "lost" \in stack[i].mishaps)
=============================================================================
