---------------------------- MODULE FollowProofs ----------------------------
(***************************************************************************)
(* Proofs about Follow for every number of presses of the button, under    *)
(* way together or one after the other, with and without failures.         *)
(***************************************************************************)
EXTENDS Follow, TLAPS

PressChain == [st : {"idle", "sent", "handled"}, follow : BOOLEAN,
               ok : BOOLEAN, mounted : BOOLEAN, newest : BOOLEAN]

(***************************************************************************)
(* The inductive invariant.  The answers that are still applied were asked *)
(* for by the mounted screen with its own key (Mounts).  A request marked  *)
(* as newest carries the relation as it is (Newest, Lists).  Where the     *)
(* history says the news are, they are: on the way with the list, the      *)
(* title being in its initial state (ByList); on the way with a press      *)
(* (ByPress); or in the title (Shown).                                     *)
(***************************************************************************)
Mounts == \A p \in Presses :
    press[p].mounted => open /\ (press[p].ok => auth = "good")

Newest == \A p \in Presses :
    press[p].newest => /\ press[p].st = "handled" /\ press[p].ok
                       /\ follows = press[p].follow

Lists ==
    followers.st = "handled" =>
        /\ followers.has => auth # "none"
        /\ followers.newest => followers.has = (auth # "none" /\ follows)

ByList ==
    open /\ news = "list" =>
        /\ ~isFollowing
        /\ followers.st # "done"
        /\ followers.st = "handled" => followers.newest
        /\ \A p \in Presses : press[p].st = "handled" => ~Applied(p)

ByPress ==
    open /\ news = "press" =>
        \E p \in Presses : press[p].newest /\ press[p].mounted

Shown == open /\ news = "shown" => RightTitle

Settling == Mounts /\ Newest /\ Lists /\ ByList /\ ByPress /\ Shown

IInv == TypeOK /\ Settling

(***************************************************************************)
(* A request of the server that changes the relation: what becomes of the  *)
(* chains.                                                                 *)
(***************************************************************************)
LEMMA ServerFollowsChains ==
    ASSUME TypeOK, NEW p \in Presses, ServerFollows(p)
    PROVE  /\ press' \in [Presses -> PressChain]
           /\ press'[p].st = "handled"
           /\ \A q \in Presses :
                 /\ press'[q].newest = (q = p)
                 /\ press'[q].ok = press[q].ok
                 /\ press'[q].follow = press[q].follow
                 /\ press'[q].mounted = press[q].mounted
                 /\ q # p => press'[q].st = press[q].st
           /\ followers' \in [st : {"sent", "handled", "done"}, has : BOOLEAN,
                              newest : BOOLEAN]
           /\ followers'.st = followers.st
           /\ followers'.has = followers.has
           /\ followers'.newest = FALSE
<1> DEFINE new(q) == [press[q] EXCEPT !.newest = (q = p),
                                      !.st = IF q = p THEN "handled" ELSE @]
<1>1. press' = [q \in Presses |-> new(q)]
  BY DEF ServerFollows
<1>2. \A q \in Presses : press[q] \in PressChain
  BY DEF TypeOK, PressChain
<1>3. \A q \in Presses : /\ new(q) \in PressChain
                         /\ new(q).newest = (q = p)
                         /\ new(q).ok = press[q].ok
                         /\ new(q).follow = press[q].follow
                         /\ new(q).mounted = press[q].mounted
                         /\ q # p => new(q).st = press[q].st
  <2> TAKE q \in Presses
  <2> DEFINE n == (q = p)
             s == IF q = p THEN "handled" ELSE press[q].st
  <2>1. n \in BOOLEAN /\ s \in {"idle", "sent", "handled"} /\ (q # p => s = press[q].st)
    BY <1>2 DEF PressChain
  <2>2. new(q) = [press[q] EXCEPT !.newest = n, !.st = s]
    OBVIOUS
  <2>3. n = (q = p)
    OBVIOUS
  <2> HIDE DEF n, s, new
  <2>4. /\ new(q) \in PressChain /\ new(q).newest = n /\ new(q).st = s
        /\ new(q).ok = press[q].ok /\ new(q).follow = press[q].follow
        /\ new(q).mounted = press[q].mounted
    BY <1>2, <2>1, <2>2 DEF PressChain
  <2> QED BY <2>1, <2>3, <2>4
<1>4. new(p).st = "handled"
  BY <1>2 DEF PressChain
<1> HIDE DEF new
<1>5. /\ press' \in [Presses -> PressChain]
      /\ \A q \in Presses : press'[q] = new(q)
  BY <1>1, <1>3
<1>6. /\ followers' = [followers EXCEPT !.newest = FALSE]
      /\ followers \in [st : {"sent", "handled", "done"}, has : BOOLEAN,
                        newest : BOOLEAN]
  BY DEF ServerFollows, TypeOK
<1>7. /\ followers' \in [st : {"sent", "handled", "done"}, has : BOOLEAN,
                         newest : BOOLEAN]
      /\ followers'.st = followers.st
      /\ followers'.has = followers.has
      /\ followers'.newest = FALSE
  BY <1>6
<1>8. /\ press'[p].st = "handled"
      /\ \A q \in Presses : /\ press'[q].newest = (q = p)
                            /\ press'[q].ok = press[q].ok
                            /\ press'[q].follow = press[q].follow
                            /\ press'[q].mounted = press[q].mounted
                            /\ q # p => press'[q].st = press[q].st
  BY <1>3, <1>4, <1>5
<1> QED
  BY <1>5, <1>7, <1>8

(***************************************************************************)
(* The screen is left: its presses are not its own any more.               *)
(***************************************************************************)
LEMMA LeaveChains ==
    ASSUME TypeOK, Leave
    PROVE  /\ press' \in [Presses -> PressChain]
           /\ \A q \in Presses : /\ press'[q].st = press[q].st
                                 /\ press'[q].ok = press[q].ok
                                 /\ press'[q].follow = press[q].follow
                                 /\ press'[q].newest = press[q].newest
                                 /\ press'[q].mounted = FALSE
<1>1. press' = [q \in Presses |-> [press[q] EXCEPT !.mounted = FALSE]]
  BY DEF Leave
<1>2. \A q \in Presses : press[q] \in PressChain
  BY DEF TypeOK, PressChain
<1>3. \A q \in Presses : press'[q] = [press[q] EXCEPT !.mounted = FALSE]
  BY <1>1
<1>4. \A q \in Presses : /\ press'[q] \in PressChain
                         /\ press'[q].st = press[q].st
                         /\ press'[q].ok = press[q].ok
                         /\ press'[q].follow = press[q].follow
                         /\ press'[q].newest = press[q].newest
                         /\ press'[q].mounted = FALSE
  BY <1>2, <1>3 DEF PressChain
<1> QED
  BY <1>1, <1>4

(***************************************************************************)
(* Every step keeps the types.                                             *)
(***************************************************************************)
LEMMA TypeStep == TypeOK /\ [Next]_vars => TypeOK'
<1> SUFFICES ASSUME TypeOK, [Next]_vars PROVE TypeOK'
  OBVIOUS
<1>T. /\ press \in [Presses -> PressChain] /\ IdlePress \in PressChain
      /\ NoList \in [st : {"sent", "handled", "done"}, has : BOOLEAN, newest : BOOLEAN]
  BY DEF TypeOK, PressChain, IdlePress, NoList
<1>1. ASSUME NEW p \in Presses, FollowButton(p) PROVE TypeOK'
  <2> DEFINE ok == auth = "good"
             new == [st |-> "sent", follow |-> ~isFollowing, ok |-> ok,
                     mounted |-> TRUE, newest |-> FALSE]
  <2>1. new \in PressChain
    BY DEF PressChain, TypeOK
  <2>2. press' = [press EXCEPT ![p] = new]
    BY <1>1 DEF FollowButton
  <2> HIDE DEF new
  <2>3. press' \in [Presses -> PressChain]
    BY <1>T, <2>1, <2>2
  <2> QED BY <1>1, <2>3 DEF FollowButton, TypeOK, PressChain
<1>2. ASSUME NEW p \in Presses, ServerRefuses(p) PROVE TypeOK'
  <2>1. press' = [press EXCEPT ![p].st = "handled", ![p].ok = FALSE]
    BY <1>2 DEF ServerRefuses
  <2>2. press' \in [Presses -> PressChain]
    BY <1>T, <2>1 DEF PressChain
  <2> QED BY <1>2, <2>2 DEF ServerRefuses, TypeOK, PressChain
<1>3. ASSUME NEW p \in Presses, ServerFollows(p) PROVE TypeOK'
  <2>1. follows' \in BOOLEAN /\ news' \in Sources \cup Causes
    BY <1>3 DEF ServerFollows, TypeOK, Sources, Causes
  <2>2. UNCHANGED <<open, auth, isFollowing, isLoading, following>>
    BY <1>3 DEF ServerFollows
  <2> QED BY <1>3, <2>1, <2>2, ServerFollowsChains DEF TypeOK, PressChain
<1>4. ASSUME NEW p \in Presses, FollowAnswer(p) PROVE TypeOK'
  <2>1. press' \in [Presses -> PressChain]
    BY <1>T, <1>4 DEF FollowAnswer
  <2>2. isFollowing' \in BOOLEAN /\ news' \in Sources \cup Causes
    BY <1>4 DEF FollowAnswer, TypeOK, Sources, Causes
  <2> QED BY <1>4, <2>1, <2>2 DEF FollowAnswer, TypeOK, PressChain
<1>5. ASSUME NEW p \in Presses, FollowFails(p) PROVE TypeOK'
  <2>1. press' \in [Presses -> PressChain]
    BY <1>T, <1>5 DEF FollowFails
  <2>2. news' \in Sources \cup Causes
    BY <1>5 DEF FollowFails, TypeOK, Sources, Causes
  <2> QED BY <1>5, <2>1, <2>2 DEF FollowFails, TypeOK, PressChain
<1>6. CASE ServerListsFollowers
  BY <1>6 DEF ServerListsFollowers, TypeOK
<1>7. CASE GetFollowers
  BY <1>7, <1>T DEF GetFollowers, TypeOK, Sources, Causes
<1>8. CASE GetFollowersFails
  BY <1>8, <1>T DEF GetFollowersFails, TypeOK, Sources, Causes
<1>9. CASE GetFollowing
  BY <1>9 DEF GetFollowing, TypeOK
<1>10. CASE GetFollowingFails
  BY <1>10 DEF GetFollowingFails, TypeOK
<1>11. CASE Open
  <2>1. AskForList \in [st : {"sent", "handled", "done"}, has : BOOLEAN, newest : BOOLEAN]
    BY DEF AskForList, NoList
  <2> QED BY <1>11, <2>1 DEF Open, TypeOK, Sources
<1>12. CASE Leave
  BY <1>12, <1>T, LeaveChains DEF Leave, TypeOK, PressChain
<1>13. CASE UNCHANGED vars
  BY <1>13 DEF vars, TypeOK
<1> QED
  BY <1>1, <1>2, <1>3, <1>4, <1>5, <1>6, <1>7, <1>8, <1>9, <1>10, <1>11, <1>12, <1>13
  DEF Next, OnProfile

(***************************************************************************)
(* The initial state, before the profile is opened, satisfies the          *)
(* invariant.                                                              *)
(***************************************************************************)
LEMMA InitIInv == Init => IInv
<1> SUFFICES ASSUME Init PROVE IInv
  OBVIOUS
<1> USE DEF Init, IdlePress, NoList
<1>1. TypeOK
  BY DEF TypeOK, Sources
<1>2. Settling
  BY DEF Settling, Mounts, Newest, Lists, ByList, ByPress, Shown
<1> QED
  BY <1>1, <1>2 DEF IInv

(***************************************************************************)
(* Every step keeps the rest of the invariant.                             *)
(***************************************************************************)
LEMMA SafeStep == ASSUME IInv, [Next]_vars PROVE Settling'
<1>0. TypeOK /\ TypeOK' /\ Mounts /\ Newest /\ Lists /\ ByList /\ ByPress /\ Shown
  BY TypeStep DEF IInv, Settling
<1>T. press \in [Presses -> PressChain] /\ press' \in [Presses -> PressChain]
  BY <1>0 DEF TypeOK, PressChain
<1>1. ASSUME NEW p \in Presses, FollowButton(p) PROVE Settling'
  <2> DEFINE ok == auth = "good"
             new == [st |-> "sent", follow |-> ~isFollowing, ok |-> ok,
                     mounted |-> TRUE, newest |-> FALSE]
  <2>1. /\ UNCHANGED <<open, auth, follows, isFollowing, followers, news>>
        /\ press' = [press EXCEPT ![p] = new]
        /\ open /\ press[p].st = "idle"
    BY <1>1 DEF FollowButton
  <2>2. /\ new.st = "sent" /\ new.mounted = TRUE /\ new.newest = FALSE
        /\ new.ok => auth = "good"
    OBVIOUS
  <2> HIDE DEF new
  <2>3. \A q \in Presses : press'[q] = IF q = p THEN new ELSE press[q]
    BY <1>T, <2>1
  <2>4. ~press[p].newest
    BY <1>0, <2>1 DEF Newest
  <2>5. Mounts' /\ Newest'
    BY <1>0, <2>1, <2>2, <2>3 DEF Mounts, Newest
  <2>6. Lists' /\ Shown'
    BY <1>0, <2>1 DEF Lists, Shown, RightTitle
  <2>7. ByList'
    BY <1>0, <2>1, <2>2, <2>3 DEF ByList, Applied
  <2>8. ByPress'
    BY <1>0, <2>1, <2>3, <2>4 DEF ByPress
  <2> QED BY <2>5, <2>6, <2>7, <2>8 DEF Settling
<1>2. ASSUME NEW p \in Presses, ServerRefuses(p) PROVE Settling'
  <2> DEFINE new == [press[p] EXCEPT !.st = "handled", !.ok = FALSE]
  <2>1. /\ UNCHANGED <<open, auth, follows, isFollowing, followers, news>>
        /\ press' = [press EXCEPT ![p] = new]
        /\ press[p].st = "sent"
    BY <1>2, <1>T DEF ServerRefuses
  <2>2. /\ new.st = "handled" /\ new.mounted = press[p].mounted
        /\ new.newest = press[p].newest /\ new.ok = FALSE
    BY <1>T DEF PressChain
  <2> HIDE DEF new
  <2>3. \A q \in Presses : press'[q] = IF q = p THEN new ELSE press[q]
    BY <1>T, <2>1
  <2>4. ~press[p].newest
    BY <1>0, <2>1 DEF Newest
  <2>5. Mounts' /\ Newest'
    BY <1>0, <2>1, <2>2, <2>3, <2>4 DEF Mounts, Newest
  <2>6. Lists' /\ Shown'
    BY <1>0, <2>1 DEF Lists, Shown, RightTitle
  <2>7. ByList'
    BY <1>0, <2>1, <2>2, <2>3 DEF ByList, Applied
  <2>8. ByPress'
    BY <1>0, <2>1, <2>3, <2>4 DEF ByPress
  <2> QED BY <2>5, <2>6, <2>7, <2>8 DEF Settling
<1>3. ASSUME NEW p \in Presses, ServerFollows(p) PROVE Settling'
  <2>1. /\ UNCHANGED <<open, auth, isFollowing>>
        /\ press[p].ok
        /\ follows' = press[p].follow
        /\ news' = IF press[p].mounted THEN "press"
                   ELSE IF news = "list" /\ followers.st = "sent" THEN "list"
                   ELSE "stray"
    BY <1>3 DEF ServerFollows
  <2>2. /\ press'[p].st = "handled"
        /\ \A q \in Presses :
              /\ press'[q].newest = (q = p)
              /\ press'[q].ok = press[q].ok
              /\ press'[q].follow = press[q].follow
              /\ press'[q].mounted = press[q].mounted
              /\ q # p => press'[q].st = press[q].st
    BY <1>0, <1>3, ServerFollowsChains
  <2>3. /\ followers'.st = followers.st
        /\ followers'.has = followers.has
        /\ followers'.newest = FALSE
    BY <1>0, <1>3, ServerFollowsChains
  <2>4. Mounts'
    BY <1>0, <2>1, <2>2 DEF Mounts
  <2>5. Newest'
    BY <2>1, <2>2 DEF Newest
  <2>6. Lists'
    BY <1>0, <2>1, <2>3 DEF Lists
  <2>7. ByList'
    <3>1. CASE news' = "list"
      <4>1. ~press[p].mounted /\ news = "list" /\ followers.st = "sent"
        BY <2>1, <3>1
      <4> QED BY <1>0, <2>1, <2>2, <2>3, <4>1 DEF ByList, Applied
    <3> QED BY <3>1 DEF ByList
  <2>8. ByPress' /\ Shown'
    BY <2>1, <2>2 DEF ByPress, Shown
  <2> QED BY <2>4, <2>5, <2>6, <2>7, <2>8 DEF Settling
<1>4. ASSUME NEW p \in Presses, FollowAnswer(p) PROVE Settling'
  <2>1. /\ UNCHANGED <<open, auth, follows, followers>>
        /\ press' = [press EXCEPT ![p] = IdlePress]
        /\ press[p].st = "handled"
        /\ isFollowing' = IF Applied(p) THEN press[p].follow ELSE isFollowing
        /\ news' = IF ~Applied(p) THEN news
                   ELSE IF press[p].newest THEN "shown"
                   ELSE IF news = "shown" THEN "overtaken" ELSE news
    BY <1>4 DEF FollowAnswer
  <2>2. \A q \in Presses : press'[q] = IF q = p THEN IdlePress ELSE press[q]
    BY <1>T, <2>1
  <2>3. /\ IdlePress.st = "idle" /\ IdlePress.ok = FALSE
        /\ IdlePress.newest = FALSE /\ IdlePress.mounted = FALSE
    BY DEF IdlePress
  <2>4. Mounts' /\ Newest' /\ Lists'
    BY <1>0, <2>1, <2>2, <2>3 DEF Mounts, Newest, Lists
  <2>5. ByList'
    <3>1. CASE open' /\ news' = "list"
      <4>1. news = "list" /\ open
        BY <2>1, <3>1
      <4>2. ~Applied(p)
        BY <1>0, <2>1, <4>1 DEF ByList
      <4> QED BY <1>0, <2>1, <2>2, <2>3, <4>1, <4>2 DEF ByList, Applied
    <3> QED BY <3>1 DEF ByList
  <2>6. ByPress'
    <3>1. CASE open' /\ news' = "press"
      <4>1. news = "press" /\ open /\ ~(Applied(p) /\ press[p].newest)
        BY <2>1, <3>1
      <4>2. ~(press[p].newest /\ press[p].mounted)
        BY <1>0, <4>1 DEF Applied, Newest
      <4> QED BY <1>0, <2>2, <4>1, <4>2 DEF ByPress
    <3> QED BY <3>1 DEF ByPress
  <2>7. Shown'
    <3>1. CASE ~Applied(p)
      BY <1>0, <2>1, <3>1 DEF Shown, RightTitle
    <3>2. CASE Applied(p) /\ press[p].newest
      <4>1. auth = "good" /\ follows = press[p].follow
        BY <1>0, <3>2 DEF Mounts, Newest, Applied
      <4> QED BY <1>0, <2>1, <3>2, <4>1 DEF Shown, RightTitle, TypeOK
    <3>3. CASE Applied(p) /\ ~press[p].newest
      BY <2>1, <3>3 DEF Shown
    <3> QED BY <3>1, <3>2, <3>3
  <2> QED BY <2>4, <2>5, <2>6, <2>7 DEF Settling
<1>5. ASSUME NEW p \in Presses, FollowFails(p) PROVE Settling'
  <2>1. /\ UNCHANGED <<open, auth, follows, isFollowing, followers>>
        /\ press' = [press EXCEPT ![p] = IdlePress]
        /\ news' = IF Applied(p) /\ press[p].newest THEN "lost" ELSE news
    BY <1>5 DEF FollowFails
  <2>2. \A q \in Presses : press'[q] = IF q = p THEN IdlePress ELSE press[q]
    BY <1>T, <2>1
  <2>3. /\ IdlePress.st = "idle" /\ IdlePress.ok = FALSE
        /\ IdlePress.newest = FALSE /\ IdlePress.mounted = FALSE
    BY DEF IdlePress
  <2>4. Mounts' /\ Newest' /\ Lists' /\ Shown'
    BY <1>0, <2>1, <2>2, <2>3 DEF Mounts, Newest, Lists, Shown, RightTitle
  <2>5. ByList'
    BY <1>0, <2>1, <2>2, <2>3 DEF ByList, Applied
  <2>6. ByPress'
    <3>1. CASE open' /\ news' = "press"
      <4>1. news = "press" /\ open /\ ~(Applied(p) /\ press[p].newest)
        BY <2>1, <3>1
      <4>2. ~(press[p].newest /\ press[p].mounted)
        BY <1>0, <4>1 DEF Applied, Newest
      <4> QED BY <1>0, <2>2, <4>1, <4>2 DEF ByPress
    <3> QED BY <3>1 DEF ByPress
  <2> QED BY <2>4, <2>5, <2>6 DEF Settling
<1>6. CASE ServerListsFollowers
  <2>1. /\ UNCHANGED <<open, auth, follows, isFollowing, press, news>>
        /\ followers'.st = "handled" /\ followers'.newest = TRUE
        /\ followers'.has = (auth # "none" /\ follows)
    BY <1>6 DEF ServerListsFollowers
  <2>2. Lists'
    BY <1>0, <2>1 DEF Lists, TypeOK
  <2>3. ByList'
    BY <1>0, <2>1 DEF ByList, Applied
  <2>4. Mounts' /\ Newest' /\ ByPress' /\ Shown'
    BY <1>0, <2>1 DEF Mounts, Newest, ByPress, Shown, RightTitle
  <2> QED BY <2>2, <2>3, <2>4 DEF Settling
<1>7. CASE GetFollowers
  <2>1. /\ UNCHANGED <<open, auth, follows, press>>
        /\ followers.st = "handled" /\ followers'.st = "done"
        /\ isFollowing' = (isFollowing \/ followers.has)
        /\ news' = IF news = "list" THEN "shown"
                   ELSE IF news = "shown" /\ followers.has /\ ~followers.newest
                        THEN "overtaken" ELSE news
    BY <1>7 DEF GetFollowers, NoList
  <2>2. Mounts' /\ Newest' /\ ByPress' /\ Lists'
    BY <1>0, <2>1 DEF Mounts, Newest, ByPress, Lists
  <2>3. ByList'
    BY <2>1 DEF ByList
  <2>4. Shown'
    <3>1. CASE open /\ news = "list"
      BY <1>0, <2>1, <3>1 DEF ByList, Lists, Shown, RightTitle, TypeOK
    <3>2. CASE open /\ news = "shown" /\ ~followers.has
      BY <1>0, <2>1, <3>2 DEF Shown, RightTitle, TypeOK
    <3>3. CASE open /\ news = "shown" /\ followers.has /\ followers.newest
      BY <1>0, <2>1, <3>3 DEF Lists, Shown, RightTitle, TypeOK
    <3>4. CASE open /\ news = "shown" /\ followers.has /\ ~followers.newest
      BY <2>1, <3>4 DEF Shown
    <3>5. CASE ~open \/ news \notin {"list", "shown"}
      BY <2>1, <3>5 DEF Shown
    <3> QED BY <3>1, <3>2, <3>3, <3>4, <3>5
  <2> QED BY <2>2, <2>3, <2>4 DEF Settling
<1>8. CASE GetFollowersFails
  <2>1. /\ UNCHANGED <<open, auth, follows, isFollowing, press>>
        /\ followers'.st = "done"
        /\ news' = IF news = "list" THEN "lost" ELSE news
    BY <1>8 DEF GetFollowersFails, NoList
  <2>2. Mounts' /\ Newest' /\ ByPress' /\ Lists' /\ Shown' /\ ByList'
    BY <1>0, <2>1 DEF Mounts, Newest, ByPress, Lists, Shown, ByList, RightTitle
  <2> QED BY <2>2 DEF Settling
<1>9. CASE GetFollowing \/ GetFollowingFails \/ UNCHANGED vars
  <2>1. UNCHANGED <<open, auth, follows, isFollowing, followers, press, news>>
    BY <1>9 DEF GetFollowing, GetFollowingFails, vars
  <2> QED
    BY <1>0, <2>1 DEF Settling, Mounts, Newest, Lists, ByList, ByPress, Shown,
                      RightTitle, Applied
<1>10. CASE Open
  <2>1. /\ ~open /\ ~isFollowing' /\ news' = "list" /\ followers'.st = "sent"
        /\ UNCHANGED <<follows, press>>
    BY <1>10 DEF Open, AskForList, NoList
  <2>2. \A p \in Presses : ~press[p].mounted
    BY <1>0, <2>1 DEF Mounts
  <2> QED BY <1>0, <2>1, <2>2
    DEF Settling, Mounts, Newest, Lists, ByList, ByPress, Shown, Applied
<1>11. CASE Leave
  <2>1. ~open' /\ followers'.st = "done" /\ UNCHANGED follows
    BY <1>11 DEF Leave, NoList
  <2>2. \A q \in Presses : /\ press'[q].st = press[q].st
                           /\ press'[q].ok = press[q].ok
                           /\ press'[q].follow = press[q].follow
                           /\ press'[q].newest = press[q].newest
                           /\ press'[q].mounted = FALSE
    BY <1>0, <1>11, LeaveChains
  <2>3. Mounts' /\ Newest'
    BY <1>0, <2>1, <2>2 DEF Mounts, Newest
  <2> QED BY <2>1, <2>3 DEF Settling, Lists, ByList, ByPress, Shown
<1> QED
  BY <1>1, <1>2, <1>3, <1>4, <1>5, <1>6, <1>7, <1>8, <1>9, <1>10, <1>11
  DEF Next, OnProfile

LEMMA IInvStep == IInv /\ [Next]_vars => IInv'
  BY TypeStep, SafeStep DEF IInv

LEMMA Explained == IInv => TitleExplained
<1> SUFFICES ASSUME IInv, open, Quiet, news \notin Causes PROVE RightTitle
  BY DEF TitleExplained
<1>1. news \in {"list", "press", "shown"}
  BY DEF IInv, TypeOK, Sources
<1>2. news # "list"
  BY DEF IInv, Settling, ByList, Quiet
<1>3. news # "press"
  BY DEF IInv, Settling, ByPress, Newest, Quiet
<1> QED
  BY <1>1, <1>2, <1>3 DEF IInv, Settling, Shown

(***************************************************************************)
(* The button, the server's relation and the requests keep their types: a  *)
(* press that was answered or failed is over (OtherProfile.js follow).     *)
(***************************************************************************)
THEOREM TypeCorrect == Spec => []TypeOK
<1>1. Init => TypeOK
  BY InitIInv DEF IInv
<1> QED
  BY <1>1, TypeStep, PTL DEF Spec

(***************************************************************************)
(* Whenever nothing is under way, a wrong title of the follow/following    *)
(* button is due to the loss of the answer that carried the relation, to   *)
(* an older answer that overtook it, or to a press of an earlier mount:    *)
(* for every number of presses, made at any time and handled and answered  *)
(* in any order, with every key, and however often requests fail and the   *)
(* profile is left and opened again (OtherProfile.js follow, getFollowers).*)
(***************************************************************************)
THEOREM WrongTitleExplained == Spec => []TitleExplained
  BY InitIInv, IInvStep, Explained, PTL DEF Spec
=============================================================================
