---------------------------- MODULE BrowseProofs ----------------------------
(***************************************************************************)
(* Proofs about browsing for every set of users, every depth of the stack  *)
(* and every number of storage calls under way, for hasty and for patient  *)
(* users, with and without failures.                                       *)
(***************************************************************************)
EXTENDS Browse, SequenceTheorems, TLAPS

CallT == [op : {"setId", "getAuth", "getId"}, key : Keys \cup {None},
          id : Users \cup {None}]

StackOK == /\ stack \in Seq(Screens)
           /\ Len(stack) \in 1..MaxDepth
           /\ stack[1].route = "Search"

QueueOK == queue \in Seq(CallT) /\ Len(queue) <= MaxQueue

LEMMA Parted == TypeOK <=> StackOK /\ QueueOK /\ storedId \in Users \cup {None}
  BY DEF TypeOK, StackOK, QueueOK, CallT

LEMMA PartedNext ==
    ASSUME StackOK', QueueOK', storedId' \in Users \cup {None}
    PROVE  TypeOK'
  BY DEF TypeOK, StackOK, QueueOK, CallT

LEMMA Bounds == MaxDepth \in Nat /\ MaxDepth > 0 /\ MaxQueue \in Nat
  BY ConstantsOK

-----------------------------------------------------------------------------
(***************************************************************************)
(* Sequences: adding at the end, adding two, taking away at the end, at    *)
(* the front, and changing entries.                                        *)
(***************************************************************************)
LEMMA Appended ==
    ASSUME NEW S, NEW q \in Seq(S), NEW c \in S
    PROVE  /\ Append(q, c) \in Seq(S)
           /\ Len(Append(q, c)) = Len(q) + 1 /\ Len(q) \in Nat
           /\ \A i \in 1..(Len(q) + 1) :
                  Append(q, c)[i] = IF i <= Len(q) THEN q[i] ELSE c
  OBVIOUS

LEMMA Joined ==
    ASSUME NEW S, NEW q \in Seq(S), NEW a \in S, NEW b \in S
    PROVE  /\ <<a>> \o <<b>> \in Seq(S) /\ Len(<<a>> \o <<b>>) = 2
           /\ q \o (<<a>> \o <<b>>) \in Seq(S)
           /\ Len(q \o (<<a>> \o <<b>>)) = Len(q) + 2 /\ Len(q) \in Nat
           /\ \A i \in 1..(Len(q) + 2) :
                  (q \o (<<a>> \o <<b>>))[i] =
                      IF i <= Len(q) THEN q[i]
                      ELSE IF i = Len(q) + 1 THEN a ELSE b
<1> DEFINE p == <<a>> \o <<b>>
<1>1. p \in Seq(S) /\ Len(p) = 2 /\ p[1] = a /\ p[2] = b
  OBVIOUS
<1> HIDE DEF p
<1>2. /\ q \o p \in Seq(S) /\ Len(q \o p) = Len(q) + Len(p)
      /\ \A i \in 1 .. Len(q) + Len(p) :
             (q \o p)[i] = IF i <= Len(q) THEN q[i] ELSE p[i - Len(q)]
  BY <1>1, ConcatProperties, Zenon
<1>4. Len(q) \in Nat
  OBVIOUS
<1>3. \A i \in 1..(Len(q) + 2) :
          (q \o p)[i] = IF i <= Len(q) THEN q[i]
                        ELSE IF i = Len(q) + 1 THEN a ELSE b
  BY <1>1, <1>2, <1>4
<1>5. Len(q \o p) = Len(q) + 2
  BY ONLY <1>1, <1>2
<1> QED
  BY <1>1, <1>2, <1>3, <1>4, <1>5 DEF p

LEMMA JoinedOne ==
    ASSUME NEW S, NEW q \in Seq(S), NEW a \in S
    PROVE  q \o <<a>> = Append(q, a) /\ Len(<<a>>) = 1
  OBVIOUS

LEMMA TailOf ==
    ASSUME NEW S, NEW q \in Seq(S), q # <<>>
    PROVE  /\ Tail(q) \in Seq(S) /\ Len(Tail(q)) = Len(q) - 1
           /\ Len(q) \in Nat /\ Len(q) > 0
           /\ \A i \in 1..(Len(q) - 1) : Tail(q)[i] = q[i + 1]
           /\ Head(q) = q[1] /\ Head(q) \in S
  OBVIOUS

LEMMA Cut ==
    ASSUME NEW S, NEW s \in Seq(S), NEW n \in 1..Len(s)
    PROVE  /\ SubSeq(s, 1, n) \in Seq(S) /\ Len(SubSeq(s, 1, n)) = n
           /\ \A i \in 1..n : SubSeq(s, 1, n)[i] = s[i]
  OBVIOUS

-----------------------------------------------------------------------------
(***************************************************************************)
(* The operators of the model.                                             *)
(***************************************************************************)
LEMMA NewKeyIsFree ==
    ASSUME FreeKeys # {}
    PROVE  /\ NewKey \in Keys
           /\ \A i \in 1..Len(stack) : stack[i].key # NewKey
           /\ \A i \in 1..Len(queue) : queue[i].key # NewKey
<1>1. NewKey \in FreeKeys
  BY DEF NewKey
<1> QED
  BY <1>1 DEF FreeKeys

LEMMA ScreenTyped ==
    ASSUME NEW k \in Keys, NEW r \in Lists \cup {"OtherProfile"},
           NEW u \in Users \cup {None}
    PROVE  /\ Screen(k, r, u) \in Screens
           /\ Screen(k, r, u).key = k /\ Screen(k, r, u).route = r
           /\ Screen(k, r, u).asked = u /\ Screen(k, r, u).id = None
           /\ Screen(k, r, u).pending = {} /\ Screen(k, r, u).shown = FALSE
           /\ Screen(k, r, u).mishaps = {}
  BY DEF Screen, Screens, Lists

\* Marking a screen changes nothing but its mishaps, and leaves none unmarked
\* that has the key.
LEMMA Marked ==
    ASSUME NEW s \in Seq(Screens), NEW k, NEW m \in {"lost", "raced"}
    PROVE  /\ Mark(s, k, m) \in Seq(Screens) /\ Len(Mark(s, k, m)) = Len(s)
           /\ \A i \in 1..Len(s) :
                  /\ Mark(s, k, m)[i].key = s[i].key
                  /\ Mark(s, k, m)[i].route = s[i].route
                  /\ Mark(s, k, m)[i].asked = s[i].asked
                  /\ Mark(s, k, m)[i].id = s[i].id
                  /\ Mark(s, k, m)[i].pending = s[i].pending
                  /\ Mark(s, k, m)[i].shown = s[i].shown
                  /\ Mark(s, k, m)[i].mishaps = {} =>
                         s[i].mishaps = {} /\ s[i].key # k
<1> DEFINE t == Mark(s, k, m)
<1>1. DOMAIN s = 1..Len(s) /\ Len(s) \in Nat
  OBVIOUS
<1>2. ASSUME NEW i \in 1..Len(s)
      PROVE  /\ t[i] \in Screens
             /\ t[i].key = s[i].key /\ t[i].route = s[i].route
             /\ t[i].asked = s[i].asked /\ t[i].id = s[i].id
             /\ t[i].pending = s[i].pending /\ t[i].shown = s[i].shown
             /\ t[i].mishaps = {} => s[i].mishaps = {} /\ s[i].key # k
  <2>1. s[i] \in Screens
    OBVIOUS
  <2>2. t[i] = IF s[i].key # k THEN s[i]
               ELSE [s[i] EXCEPT !.mishaps = @ \cup {m}]
    BY <1>1 DEF Mark
  <2> DEFINE x == s[i]
             y == [x EXCEPT !.mishaps = @ \cup {m}]
  <2>3. /\ y \in Screens /\ y.key = x.key /\ y.route = x.route
        /\ y.asked = x.asked /\ y.id = x.id /\ y.pending = x.pending
        /\ y.shown = x.shown /\ y.mishaps = x.mishaps \cup {m}
    <3>1. x \in Screens
      BY <2>1
    <3> HIDE DEF x
    <3> QED BY <3>1 DEF Screens
  <2>4. t[i] = IF x.key # k THEN x ELSE y
    BY <2>2
  <2> HIDE DEF x, y, t
  <2>5. /\ t[i] \in Screens
        /\ t[i].key = x.key /\ t[i].route = x.route /\ t[i].asked = x.asked
        /\ t[i].id = x.id /\ t[i].pending = x.pending /\ t[i].shown = x.shown
        /\ t[i].mishaps = {} => x.mishaps = {} /\ x.key # k
    BY <2>1, <2>3, <2>4 DEF x
  <2> QED BY <2>5 DEF x
<1>3. t = [i \in 1..Len(s) |-> t[i]]
  BY <1>1 DEF Mark
<1> HIDE DEF t
<1>4. t \in Seq(Screens) /\ Len(t) = Len(s)
  BY <1>1, <1>2, <1>3
<1> QED
  BY <1>2, <1>4 DEF t

\* The calls a new screen makes.
LEMMA MountingCall ==
    ASSUME NEW k, NEW r
    PROVE  Mounting(k, r) =
               <<Call(IF r = "OtherProfile" THEN "getAuth" ELSE "getId", k, None)>>
  BY DEF Mounting

LEMMA CallsTyped ==
    ASSUME NEW k \in Keys \cup {None}, NEW u \in Users \cup {None},
           NEW op \in {"setId", "getAuth", "getId"}
    PROVE  /\ Call(op, k, u) \in CallT
           /\ Call(op, k, u).op = op /\ Call(op, k, u).key = k
           /\ Call(op, k, u).id = u
  BY DEF Call, CallT

\* The top of the stack.
LEMMA TopOfStack ==
    ASSUME StackOK
    PROVE  /\ Len(stack) \in 1..Len(stack) /\ Len(stack) \in Nat
           /\ Top = stack[Len(stack)] /\ Top \in Screens
           /\ Top.route # "Search" => Len(stack) > 1
  BY DEF StackOK, Top, Last

-----------------------------------------------------------------------------
(***************************************************************************)
(* What the user's steps do to the stack and to the calls.                 *)
(***************************************************************************)
\* A new profile is pushed on a stack like this one, and its two calls made.
Opened(s, u) ==
    /\ FreeKeys # {}
    /\ Len(s) < MaxDepth
    /\ stack' = Append(s, Screen(NewKey, "OtherProfile", u))
    /\ Len(queue) + 2 <= MaxQueue
    /\ queue' = queue \o (<<Call("setId", NewKey, u)>>
                              \o <<Call("getAuth", NewKey, None)>>)
    /\ storedId' = storedId

LEMMA OpeningCalls ==
    ASSUME QueueOK, NEW k \in Keys, NEW u \in Users,
           Enqueue(<<Call("setId", k, u)>> \o Mounting(k, "OtherProfile"))
    PROVE  /\ Len(queue) + 2 <= MaxQueue
           /\ queue' = queue \o (<<Call("setId", k, u)>>
                                    \o <<Call("getAuth", k, None)>>)
<1>1. Mounting(k, "OtherProfile") = <<Call("getAuth", k, None)>>
  BY DEF Mounting
<1>2. Call("setId", k, u) \in CallT /\ Call("getAuth", k, None) \in CallT
  BY CallsTyped
<1> DEFINE p == <<Call("setId", k, u)>> \o <<Call("getAuth", k, None)>>
<1>3. Len(p) = 2
  BY <1>2, Joined DEF QueueOK
<1> HIDE DEF p
<1>4. Enqueue(p)
  BY <1>1 DEF p
<1>5. Len(queue) + 2 <= MaxQueue /\ queue' = queue \o p
  BY <1>3, <1>4 DEF Enqueue
<1> QED
  BY <1>5 DEF p

LEMMA MoreDetailsOpens ==
    ASSUME TypeOK, NEW u \in Users, MoreDetails(u)
    PROVE  Opened(stack, u)
<1>1. /\ Push(stack, "OtherProfile", u) /\ storedId' = storedId
      /\ Enqueue(<<Call("setId", NewKey, u)>> \o Mounting(NewKey, "OtherProfile"))
  BY DEF MoreDetails
<1>2. NewKey \in Keys
  BY <1>1, NewKeyIsFree DEF Push
<1> QED
  BY <1>1, <1>2, OpeningCalls, Parted DEF Opened, Push

\* A second tap above Search, and one above a list.
Retapped(u) ==
    /\ Len(stack) = 2 /\ stack[2].route = "OtherProfile"
    /\ stack' = Mark([stack EXCEPT ![2].asked = u], stack[2].key, "raced")
    /\ Len(queue) + 1 <= MaxQueue
    /\ queue' = Append(queue, Call("setId", stack[2].key, u))
    /\ storedId' = storedId

LEMMA TapAgainEffect ==
    ASSUME TypeOK, NEW u \in Users, TapAgain(u)
    PROVE  Retapped(u) \/ Opened(Mark(stack, Top.key, "raced"), u)
<1>1. CASE Len(stack) = 2
  <2>1. /\ stack' = Mark([stack EXCEPT ![2].asked = u], Top.key, "raced")
        /\ Enqueue(<<Call("setId", Top.key, u)>>) /\ storedId' = storedId
        /\ Top.route = "OtherProfile"
    BY <1>1 DEF TapAgain
  <2>2. Top = stack[2] /\ Top \in Screens
    BY <1>1, TopOfStack, Parted
  <2>3. Call("setId", Top.key, u) \in CallT
    BY <2>2, CallsTyped DEF Screens
  <2> DEFINE c == Call("setId", Top.key, u)
  <2>4. queue \o <<c>> = Append(queue, c) /\ Len(<<c>>) = 1
    BY <2>3, JoinedOne, Parted DEF QueueOK
  <2>5. Len(queue) + 1 <= MaxQueue /\ queue' = Append(queue, c)
    BY <2>1, <2>4 DEF Enqueue
  <2> QED BY <1>1, <2>1, <2>2, <2>5 DEF Retapped
<1>2. CASE Len(stack) # 2
  <2>1. /\ Push(Mark(stack, Top.key, "raced"), "OtherProfile", u)
        /\ storedId' = storedId
        /\ Enqueue(<<Call("setId", NewKey, u)>> \o Mounting(NewKey, "OtherProfile"))
    BY <1>2 DEF TapAgain
  <2>2. NewKey \in Keys
    BY <2>1, NewKeyIsFree DEF Push
  <2> QED BY <2>1, <2>2, OpeningCalls, Parted DEF Opened, Push
<1> QED
  BY <1>1, <1>2

\* A list is opened, or gone back to.
Listed(r, u) ==
    /\ FreeKeys # {}
    /\ Len(stack) < MaxDepth
    /\ stack' = Append(stack, Screen(NewKey, r, u))
    /\ Len(queue) + 1 <= MaxQueue
    /\ queue' = Append(queue, Call("getId", NewKey, None))
    /\ storedId' = storedId

WentBack(r, u) ==
    /\ \E i \in 1..Len(stack) :
           /\ i < Len(stack) /\ stack[i].route = r
           /\ stack' = [SubSeq(stack, 1, i) EXCEPT ![i].asked = u]
    /\ UNCHANGED <<queue, storedId>>

LEMMA GoToEffect ==
    ASSUME TypeOK, NEW r \in Lists, GoTo(r)
    PROVE  /\ Top.route = "OtherProfile" /\ Top.shown
           /\ Top.asked \in Users \cup {None}
           /\ Listed(r, Top.asked) \/ WentBack(r, Top.asked)
<1> DEFINE on == {i \in 1..Len(stack) : stack[i].route = r}
<1>1. Top.route = "OtherProfile" /\ Top.shown /\ Top = stack[Len(stack)]
      /\ Top \in Screens /\ storedId' = storedId /\ Len(stack) \in Nat
  BY TopOfStack, Parted DEF GoTo
<1>2. Top.asked \in Users \cup {None}
  BY <1>1 DEF Screens
<1>3. CASE on = {}
  <2>1. Push(stack, r, Top.asked) /\ Enqueue(Mounting(NewKey, r))
    BY <1>3 DEF GoTo
  <2>2. NewKey \in Keys
    BY <2>1, NewKeyIsFree DEF Push
  <2> DEFINE c == Call("getId", NewKey, None)
  <2>3. c \in CallT /\ Mounting(NewKey, r) = <<c>>
    BY <2>2, CallsTyped DEF Mounting, Lists
  <2>4. queue \o <<c>> = Append(queue, c) /\ Len(<<c>>) = 1
    BY <2>3, JoinedOne, Parted DEF QueueOK
  <2> HIDE DEF c
  <2>5. Len(queue) + 1 <= MaxQueue /\ queue' = Append(queue, c)
    BY <2>1, <2>3, <2>4 DEF Enqueue
  <2>6. Listed(r, Top.asked)
    BY <1>1, <2>1, <2>5 DEF Listed, Push, c
  <2> QED BY <1>1, <1>2, <2>6
<1>4. CASE on # {}
  <2>1. PICK i \in on :
            /\ stack' = [SubSeq(stack, 1, i) EXCEPT ![i].asked = Top.asked]
            /\ queue' = queue
    BY <1>4 DEF GoTo
  <2>2. i < Len(stack)
    BY <1>1 DEF Lists
  <2> QED BY <1>1, <1>2, <2>1, <2>2 DEF WentBack
<1> QED
  BY <1>3, <1>4

-----------------------------------------------------------------------------
(***************************************************************************)
(* What answers and storage calls do to the screens.  They change no key   *)
(* and no route and take no mishap away.                                   *)
(***************************************************************************)
Alike(s, t) ==
    /\ t \in Seq(Screens) /\ Len(t) = Len(s)
    /\ \A i \in 1..Len(s) :
           /\ t[i].key = s[i].key /\ t[i].route = s[i].route
           /\ t[i].mishaps = {} => s[i].mishaps = {} /\ t[i].asked = s[i].asked

Settled(i) ==
    /\ stack[i].pending # {}
    /\ stack'[i].id = stack[i].id
    /\ \A j \in 1..Len(stack) : j # i => stack'[j] = stack[j]
    /\ Alike(stack, stack')
    /\ UNCHANGED <<storedId, queue>>

LEMMA SettleEffect ==
    ASSUME StackOK, NEW k, NEW part \in Parts \cup {"list"},
           \/ Answer(k, part) \/ AnswerFails(k, part)
    PROVE  \E i \in 1..Len(stack) : Settled(i)
<1>1. PICK shows \in BOOLEAN, m \in SUBSET {"lost", "raced"} :
          Settle(k, part, shows, m)
  <2>1. CASE Answer(k, part)
    <3>1. Settle(k, part, Shows(part), {}) /\ Shows(part) \in BOOLEAN
      BY <2>1 DEF Answer, Shows
    <3> HIDE DEF Settle
    <3> QED BY <3>1, Zenon
  <2>2. CASE AnswerFails(k, part)
    <3> DEFINE m == IF Shows(part) THEN {"lost"} ELSE {}
    <3>1. Settle(k, part, FALSE, m) /\ m \in SUBSET {"lost", "raced"}
      BY <2>2 DEF AnswerFails
    <3> HIDE DEF m
    <3> QED BY <3>1, Zenon
  <2> QED BY <2>1, <2>2
<1>2. PICK i \in 1..Len(stack) :
          /\ part \in stack[i].pending
          /\ stack' = [stack EXCEPT
                           ![i].pending = @ \ {part},
                           ![i].shown = @ \/ (shows /\ stack[i].id # None),
                           ![i].mishaps = @ \cup m]
  BY <1>1 DEF Settle
<1>3. UNCHANGED <<storedId, queue>>
  BY <1>1 DEF Settle
<1> DEFINE x == stack[i]
           y == [x EXCEPT !.pending = @ \ {part},
                          !.shown = @ \/ (shows /\ x.id # None),
                          !.mishaps = @ \cup m]
<1>4. stack \in Seq(Screens) /\ Len(stack) \in Nat /\ x \in Screens
  BY DEF StackOK
<1>5. /\ y \in Screens /\ y.key = x.key /\ y.route = x.route /\ y.id = x.id
      /\ y.asked = x.asked /\ y.mishaps = x.mishaps \cup m
  <2> HIDE DEF x
  <2> QED BY <1>4 DEF Screens
<1>6. stack' = [stack EXCEPT ![i] = y]
  BY <1>2, <1>4
<1> HIDE DEF y
<1>7. /\ stack' \in Seq(Screens) /\ Len(stack') = Len(stack) /\ stack'[i] = y
      /\ \A j \in 1..Len(stack) : j # i => stack'[j] = stack[j]
  BY <1>4, <1>5, <1>6
<1>8. Alike(stack, stack')
  BY <1>5, <1>7 DEF Alike
<1> QED
  BY <1>2, <1>3, <1>5, <1>7, <1>8 DEF Settled

\* The id that was read is the stored one.
LEMMA GetIdEffect ==
    ASSUME TypeOK, GetId
    PROVE  /\ Alike(stack, stack')
           /\ \A i \in 1..Len(stack) :
                  IF stack[i].key # Head(queue).key
                  THEN stack'[i] = stack[i]
                  ELSE /\ stack'[i].id = storedId /\ stack'[i].asked = stack[i].asked
                       /\ stack'[i].mishaps = stack[i].mishaps
<1>1. stack \in Seq(Screens) /\ DOMAIN stack = 1..Len(stack) /\ Len(stack) \in Nat
  BY Parted DEF StackOK
<1>2. storedId \in Users \cup {None}
  BY Parted
<1>3. ASSUME NEW i \in 1..Len(stack)
      PROVE  /\ stack'[i] \in Screens
             /\ stack'[i].key = stack[i].key /\ stack'[i].route = stack[i].route
             /\ stack'[i].mishaps = stack[i].mishaps
             /\ stack'[i].asked = stack[i].asked
             /\ IF stack[i].key # Head(queue).key THEN stack'[i] = stack[i]
                ELSE stack'[i].id = storedId
  <2> DEFINE x == stack[i]
             y == [x EXCEPT !.id = storedId, !.pending = Requests(x.route)]
  <2>1. x \in Screens
    BY <1>1
  <2>2. stack'[i] = IF x.key # Head(queue).key THEN x ELSE y
    BY <1>1 DEF GetId
  <2>3. Requests(x.route) \in SUBSET (Parts \cup {"list"})
    BY DEF Requests
  <2>4. /\ y \in Screens /\ y.key = x.key /\ y.route = x.route
        /\ y.mishaps = x.mishaps /\ y.asked = x.asked /\ y.id = storedId
    <3> HIDE DEF x
    <3> QED BY <1>2, <2>1, <2>3 DEF Screens
  <2> HIDE DEF y
  <2> QED BY <2>1, <2>2, <2>4
<1>4. stack' = [i \in 1..Len(stack) |-> stack'[i]]
  BY <1>1 DEF GetId
<1>5. stack' \in Seq(Screens) /\ Len(stack') = Len(stack)
  BY <1>1, <1>3, <1>4
<1> QED
  BY <1>3, <1>5 DEF Alike

LEMMA MarkedAlike ==
    ASSUME NEW s \in Seq(Screens), NEW k, NEW m \in {"lost", "raced"}
    PROVE  Alike(s, Mark(s, k, m))
  BY Marked DEF Alike

\* A second tap above Search gives the profile another user, and marks it.
LEMMA RetappedAlike ==
    ASSUME TypeOK, NEW u \in Users, Retapped(u)
    PROVE  /\ Alike(stack, stack') /\ stack'[2].mishaps # {}
           /\ \A i \in 1..Len(stack) :
                  /\ stack'[i].shown = stack[i].shown
                  /\ stack'[i].pending = stack[i].pending
                  /\ stack'[i].id = stack[i].id
<1> DEFINE s == [stack EXCEPT ![2].asked = u]
           x == stack[2]
           y == [x EXCEPT !.asked = u]
<1>1. stack \in Seq(Screens) /\ Len(stack) = 2 /\ x \in Screens
  BY Parted DEF StackOK, Retapped
<1>2. /\ y \in Screens /\ y.key = x.key /\ y.route = x.route
      /\ y.mishaps = x.mishaps /\ y.shown = x.shown /\ y.pending = x.pending
      /\ y.id = x.id
  <2> HIDE DEF x
  <2> QED BY <1>1 DEF Screens
<1>3. s = [stack EXCEPT ![2] = y]
  BY <1>1
<1>4. stack' = Mark(s, x.key, "raced")
  BY DEF Retapped
<1> HIDE DEF s, y
<1> HIDE DEF x
<1>5. s \in Seq(Screens) /\ Len(s) = 2 /\ s[1] = stack[1] /\ s[2] = y
  <2>1. 2 \in 1..Len(stack) /\ 1 \in 1..Len(stack)
    BY <1>1
  <2>2. PICK n \in 1..Len(stack) : n = 2
    BY <2>1
  <2>3. s = [stack EXCEPT ![n] = y]
    BY <1>3, <2>2
  <2>4. /\ s \in Seq(Screens) /\ Len(s) = Len(stack)
        /\ \A j \in 1..Len(stack) : s[j] = IF j = n THEN y ELSE stack[j]
    <3>1. stack \in Seq(Screens) /\ y \in Screens
      BY <1>1, <1>2
    <3> QED BY ONLY <2>3, <3>1, n \in 1..Len(stack)
  <2> QED BY ONLY <1>1, <2>1, <2>2, <2>4
<1>6. /\ stack' \in Seq(Screens) /\ Len(stack') = 2
      /\ \A i \in 1..2 :
             /\ stack'[i].key = s[i].key /\ stack'[i].route = s[i].route
             /\ stack'[i].asked = s[i].asked /\ stack'[i].id = s[i].id
             /\ stack'[i].pending = s[i].pending /\ stack'[i].shown = s[i].shown
             /\ stack'[i].mishaps = {} => s[i].mishaps = {} /\ s[i].key # x.key
  BY <1>4, <1>5, Marked
<1>7. stack'[2].mishaps # {}
  BY <1>2, <1>5, <1>6
<1>8. \A i \in 1..2 : i = 1 \/ i = 2
  OBVIOUS
<1>9. Alike(stack, stack')
  BY <1>1, <1>2, <1>5, <1>6, <1>7, <1>8 DEF Alike, x
<1> QED
  BY <1>1, <1>2, <1>5, <1>6, <1>7, <1>8, <1>9 DEF x

-----------------------------------------------------------------------------
(***************************************************************************)
(* Types.                                                                  *)
(***************************************************************************)
LEMMA AlikeTyped ==
    ASSUME StackOK, Alike(stack, stack')
    PROVE  StackOK'
<1>1. 1 \in 1..Len(stack)
  BY DEF StackOK
<1> QED
  BY <1>1 DEF StackOK, Alike

\* A screen is pushed on a stack like this one.
LEMMA PushedTyped ==
    ASSUME StackOK, NEW s \in Seq(Screens), Alike(stack, s), NEW x \in Screens,
           Len(s) < MaxDepth, stack' = Append(s, x)
    PROVE  /\ StackOK' /\ Len(stack') = Len(stack) + 1 /\ Len(stack) \in Nat
           /\ stack'[Len(stack) + 1] = x
           /\ \A i \in 1..Len(stack) : stack'[i] = s[i]
<1>1. Len(s) = Len(stack) /\ Len(stack) \in 1..MaxDepth /\ s[1].route = "Search"
  <2>1. 1 \in 1..Len(stack)
    BY DEF StackOK
  <2> QED BY <2>1 DEF StackOK, Alike
<1>2. /\ stack' \in Seq(Screens) /\ Len(stack') = Len(s) + 1
      /\ \A i \in 1..(Len(s) + 1) : stack'[i] = IF i <= Len(s) THEN s[i] ELSE x
  BY Appended
<1>3. Len(stack) + 1 \in 1..MaxDepth /\ 1 \in 1..Len(stack)
  BY <1>1, Bounds
<1>4. \A i \in 1..Len(stack) : stack'[i] = s[i]
  BY <1>1, <1>2
<1>5. stack'[Len(stack) + 1] = x
  BY <1>1, <1>2
<1> QED
  BY <1>1, <1>2, <1>3, <1>4, <1>5 DEF StackOK

LEMMA OpenedTyped ==
    ASSUME TypeOK, NEW u \in Users, NEW s \in Seq(Screens), Alike(stack, s),
           Opened(s, u)
    PROVE  TypeOK'
<1>1. NewKey \in Keys
  BY NewKeyIsFree DEF Opened
<1>2. StackOK'
  BY <1>1, Parted, ScreenTyped, PushedTyped DEF Opened
<1>3. Call("setId", NewKey, u) \in CallT /\ Call("getAuth", NewKey, None) \in CallT
  BY <1>1, CallsTyped
<1>4. queue' \in Seq(CallT) /\ Len(queue') = Len(queue) + 2
  BY <1>3, Parted, Joined DEF Opened, QueueOK
<1>5. QueueOK'
  BY <1>4 DEF QueueOK, Opened
<1> QED
  BY <1>2, <1>5, Parted, PartedNext DEF Opened

LEMMA EnqueuedTyped ==
    ASSUME QueueOK, NEW c \in CallT, queue' = Append(queue, c),
           Len(queue) + 1 <= MaxQueue
    PROVE  QueueOK'
  BY Appended DEF QueueOK

LEMMA DequeuedTyped ==
    ASSUME QueueOK, queue # <<>>
    PROVE  /\ Tail(queue) \in Seq(CallT) /\ Len(Tail(queue)) = Len(queue) - 1
           /\ Len(Tail(queue)) + 1 <= MaxQueue
           /\ Head(queue) \in CallT
  BY TailOf, Bounds DEF QueueOK

LEMMA DequeuedOK ==
    ASSUME QueueOK, queue # <<>>, queue' = Tail(queue)
    PROVE  QueueOK'
<1>1. queue' \in Seq(CallT) /\ Len(queue') = Len(queue) - 1 /\ Len(queue) \in Nat
  BY TailOf DEF QueueOK
<1> QED
  BY <1>1, Bounds DEF QueueOK

LEMMA BackEffect ==
    ASSUME TypeOK, Back
    PROVE  /\ StackOK' /\ Len(stack') = Len(stack) - 1
           /\ \A i \in 1..Len(stack') : i \in 1..Len(stack) /\ stack'[i] = stack[i]
           /\ UNCHANGED <<storedId, queue>>
<1> DEFINE n == Len(stack) - 1
<1>1. stack \in Seq(Screens) /\ n \in 1..Len(stack) /\ n \in 1..MaxDepth
  <2>1. stack \in Seq(Screens) /\ Len(stack) \in 1..MaxDepth /\ Len(stack) > 1
    BY Parted DEF StackOK, Back
  <2> QED BY <2>1, Bounds
<1>2. stack' = SubSeq(stack, 1, n)
  BY DEF Back, Front
<1> HIDE DEF n
<1>3. /\ stack' \in Seq(Screens) /\ Len(stack') = n
      /\ \A i \in 1..n : stack'[i] = stack[i]
  BY <1>1, <1>2, Cut
<1>4. stack'[1].route = "Search"
  BY <1>1, <1>3, Parted DEF StackOK
<1> QED
  BY <1>1, <1>3, <1>4 DEF StackOK, n, Back

LEMMA WentBackEffect ==
    ASSUME TypeOK, NEW r \in Lists, NEW u \in Users \cup {None}, WentBack(r, u)
    PROVE  /\ StackOK' /\ Len(stack') < Len(stack)
           /\ \A i \in 1..Len(stack') :
                  /\ i \in 1..Len(stack)
                  /\ stack'[i].route = "OtherProfile" => stack'[i] = stack[i]
<1>1. PICK n \in 1..Len(stack) :
          /\ n < Len(stack) /\ stack[n].route = r
          /\ stack' = [SubSeq(stack, 1, n) EXCEPT ![n].asked = u]
  BY DEF WentBack
<1> DEFINE s == SubSeq(stack, 1, n)
           x == stack[n]
           y == [x EXCEPT !.asked = u]
<1>2. stack \in Seq(Screens) /\ Len(stack) \in 1..MaxDepth /\ x \in Screens
  BY Parted DEF StackOK
<1>3. y \in Screens /\ y.route = r
  <2>1. x.route = r
    BY <1>1
  <2> HIDE DEF x
  <2> QED BY <1>2, <2>1 DEF Screens
<1>4. s \in Seq(Screens) /\ Len(s) = n /\ \A i \in 1..n : s[i] = stack[i]
  BY <1>2, Cut
<1>5. stack' = [s EXCEPT ![n] = y]
  <2>1. s[n] = x
    BY <1>4
  <2>2. stack' = [s EXCEPT ![n] = [s[n] EXCEPT !.asked = u]]
    <3>1. stack' = [s EXCEPT ![n].asked = u]
      BY <1>1
    <3> HIDE DEF s
    <3> QED BY <3>1, Zenon
  <2> QED BY <2>1, <2>2
<1> HIDE DEF s, y
<1>6. /\ stack' \in Seq(Screens) /\ Len(stack') = n
      /\ \A i \in 1..n : stack'[i] = IF i = n THEN y ELSE stack[i]
  BY <1>3, <1>4, <1>5
<1>7. r \notin {"Search", "OtherProfile"}
  BY DEF Lists
<1>8. stack'[1].route = "Search"
  <2>1. stack[1].route = "Search" /\ 1 \in 1..n
    BY <1>1, Parted DEF StackOK
  <2>2. n # 1
    BY <1>1, <1>7, <2>1
  <2> QED BY <1>6, <2>1, <2>2
<1>9. n \in 1..MaxDepth
  BY <1>1, <1>2, Bounds
<1>10. StackOK'
  BY <1>6, <1>8, <1>9 DEF StackOK
<1>11. \A i \in 1..n : i \in 1..Len(stack)
  BY <1>1, <1>2
<1> QED
  BY <1>1, <1>3, <1>6, <1>7, <1>10, <1>11

LEMMA TypeStep == TypeOK /\ [Next]_vars => TypeOK'
<1> SUFFICES ASSUME TypeOK, [Next]_vars PROVE TypeOK'
  OBVIOUS
<1>0. /\ stack \in Seq(Screens) /\ Alike(stack, stack)
      /\ StackOK /\ QueueOK /\ storedId \in Users \cup {None}
  BY Parted DEF StackOK, Alike
<1> USE <1>0, PartedNext
<1>1. ASSUME NEW u \in Users, MoreDetails(u)
      PROVE  TypeOK'
  BY <1>1, MoreDetailsOpens, OpenedTyped
<1>2. ASSUME NEW u \in Users, TapAgain(u)
      PROVE  TypeOK'
  <2>1. CASE Opened(Mark(stack, Top.key, "raced"), u)
    BY <2>1, OpenedTyped, MarkedAlike, Marked
  <2>2. CASE Retapped(u)
    <3>1. StackOK'
      BY <2>2, RetappedAlike, AlikeTyped
    <3>2. stack[2].key \in Keys \cup {None}
      <4>1. stack[2] \in Screens
        BY <2>2 DEF Retapped
      <4> QED BY <4>1 DEF Screens
    <3>3. QueueOK'
      BY <2>2, <3>2, CallsTyped, EnqueuedTyped DEF Retapped
    <3> QED BY <2>2, <3>1, <3>3 DEF Retapped
  <2> QED BY <1>2, <2>1, <2>2, TapAgainEffect
<1>3. ASSUME NEW r \in Lists, GoTo(r)
      PROVE  TypeOK'
  <2> DEFINE u == Top.asked
  <2>1. u \in Users \cup {None} /\ (Listed(r, u) \/ WentBack(r, u))
    BY <1>3, GoToEffect
  <2> HIDE DEF u
  <2>2. CASE Listed(r, u)
    <3>1. NewKey \in Keys
      BY <2>2, NewKeyIsFree DEF Listed
    <3>2. StackOK'
      BY <2>1, <2>2, <3>1, ScreenTyped, PushedTyped DEF Listed
    <3>3. QueueOK'
      BY <2>2, <3>1, CallsTyped, EnqueuedTyped DEF Listed
    <3> QED BY <2>2, <3>2, <3>3 DEF Listed
  <2>3. CASE WentBack(r, u)
    BY <2>1, <2>3, WentBackEffect DEF WentBack, QueueOK
  <2> QED BY <2>1, <2>2, <2>3
<1>4. CASE Back
  BY <1>4, BackEffect DEF QueueOK
<1>5. CASE SetId
  <2>1. Head(queue).id \in Users \cup {None}
    BY <1>5, DequeuedTyped DEF SetId, CallT
  <2>2. QueueOK'
    BY <1>5, DequeuedOK DEF SetId
  <2> QED BY <1>5, <2>1, <2>2 DEF SetId, StackOK
<1>6. CASE GetAuth
  <2> DEFINE t == Tail(queue)
             c == Call("getId", Head(queue).key, None)
  <2>1. t \in Seq(CallT) /\ Len(t) + 1 <= MaxQueue /\ Head(queue) \in CallT
    BY <1>6, DequeuedTyped DEF GetAuth
  <2>2. c \in CallT
    BY <2>1, CallsTyped DEF CallT
  <2>3. queue' = Append(t, c)
    BY <1>6 DEF GetAuth
  <2> HIDE DEF t, c
  <2>4. QueueOK'
    BY <2>1, <2>2, <2>3, Appended DEF QueueOK
  <2> QED BY <1>6, <2>4 DEF GetAuth, StackOK
<1>7. CASE GetId
  <2>1. QueueOK'
    BY <1>7, DequeuedOK DEF GetId
  <2> QED BY <1>7, <2>1, GetIdEffect, AlikeTyped DEF GetId
<1>8. ASSUME NEW k \in Keys, NEW part \in Parts \cup {"list"},
             Answer(k, part) \/ AnswerFails(k, part)
      PROVE  TypeOK'
  BY <1>8, SettleEffect, AlikeTyped DEF Settled, QueueOK
<1>9. CASE StorageFails
  <2>1. QueueOK'
    BY <1>9, DequeuedOK DEF StorageFails
  <2>2. StackOK'
    BY <1>9, MarkedAlike, AlikeTyped DEF StorageFails
  <2> QED BY <1>9, <2>1, <2>2 DEF StorageFails
<1>10. CASE UNCHANGED vars
  BY <1>10 DEF vars, StackOK, QueueOK
<1> QED
  BY <1>1, <1>2, <1>3, <1>4, <1>5, <1>6, <1>7, <1>8, <1>9, <1>10
  DEF Next, UserNext, StorageNext, AnswerNext, Failures

LEMMA InitTyped == Init => TypeOK
<1> SUFFICES ASSUME Init PROVE TypeOK
  OBVIOUS
<1>1. Screen(None, "Search", None) \in Screens
  BY DEF Screen, Screens
<1>2. StackOK
  BY <1>1, Bounds DEF Init, StackOK, Screen
<1>3. QueueOK
  BY Bounds DEF Init, QueueOK
<1> QED
  BY <1>2, <1>3, Parted DEF Init

\* Screens, stored id and storage calls keep their types, no bound is exceeded,
\* and Search stays at the bottom of the stack however the user goes forth and
\* back (navigators.js OtherUserStack).
THEOREM TypeCorrect == Spec => []TypeOK
  BY InitTyped, TypeStep, PTL DEF Spec

-----------------------------------------------------------------------------
(***************************************************************************)
(* A profile shows whom the user tapped.  ProfileShowsTapped is not        *)
(* inductive: it says nothing of a profile that has yet to read the id.    *)
(*                                                                         *)
(* Waits(i, g): call g of the queue is the one by which profile i gets its *)
(* id.  There is one at most (OneRead), and until it is answered the       *)
(* profile requests and shows nothing (Blank), so that the user cannot go  *)
(* on from it to another screen.  Path: nothing was opened on top of it    *)
(* then, the id it is to read is the last one on its way to the storage,   *)
(* or has arrived there, and everything that is to be stored is ahead of   *)
(* its call, unless a call was lost or another entry tapped.               *)
(***************************************************************************)
IsRead(c) == c.op # "setId"

Waits(i, g) == /\ stack[i].route = "OtherProfile"
               /\ IsRead(queue[g]) /\ queue[g].key = stack[i].key

OneRead ==
    \A g, h \in 1..Len(queue) :
        IsRead(queue[g]) /\ IsRead(queue[h]) /\ queue[g].key = queue[h].key
            => g = h

Blank ==
    \A i \in 1..Len(stack), g \in 1..Len(queue) :
        Waits(i, g) => ~stack[i].shown /\ stack[i].pending = {}

WritesAhead(g) == \A s \in 1..Len(queue) : ~IsRead(queue[s]) => s < g

Arrived(u) == /\ \A s \in 1..Len(queue) : IsRead(queue[s])
              /\ storedId = u

OnItsWay(k, u) ==
    \E s \in 1..Len(queue) :
        /\ ~IsRead(queue[s]) /\ queue[s].key = k /\ queue[s].id = u
        /\ \A r \in 1..Len(queue) : ~IsRead(queue[r]) => r <= s

Found(i, g) ==
    /\ i = Len(stack)
    /\ WritesAhead(g)
    /\ Arrived(stack[i].asked) \/ OnItsWay(stack[i].key, stack[i].asked)

Path ==
    \A i \in 1..Len(stack), g \in 1..Len(queue) :
        Waits(i, g) /\ stack[i].mishaps = {} => Found(i, g)

BrowseInv == OneRead /\ Blank /\ Path /\ ProfileShowsTapped

\* The oldest call leaves the queue; the first half of a profile's read is
\* followed by the second at the end.
Shifted ==
    /\ Len(queue) \in Nat /\ Len(queue) > 0 /\ Len(queue') \in Nat
    /\ Len(queue') = Len(queue) - 1 \/ (Len(queue') = Len(queue) /\ IsRead(queue[1]))
    /\ \A j \in 1..Len(queue') :
           IF j < Len(queue) THEN queue'[j] = queue[j + 1]
           ELSE IsRead(queue'[j]) /\ queue'[j].key = queue[1].key

LEMMA DequeueShifts ==
    ASSUME QueueOK, queue # <<>>, queue' = Tail(queue)
    PROVE  Shifted /\ Head(queue) = queue[1]
<1>1. /\ Len(queue') = Len(queue) - 1 /\ Len(queue) \in Nat /\ Len(queue) > 0
      /\ \A i \in 1..(Len(queue) - 1) : queue'[i] = queue[i + 1]
      /\ Head(queue) = queue[1]
  BY TailOf DEF QueueOK
<1>2. ASSUME NEW j \in 1..Len(queue')
      PROVE  j < Len(queue) /\ queue'[j] = queue[j + 1]
  BY ONLY <1>1, j \in 1..Len(queue')
<1> QED
  BY ONLY <1>1, <1>2 DEF Shifted

LEMMA RequeueShifts ==
    ASSUME QueueOK, GetAuth
    PROVE  Shifted /\ Head(queue) = queue[1]
<1> DEFINE t == Tail(queue)
           c == Call("getId", Head(queue).key, None)
<1>1. /\ t \in Seq(CallT) /\ Len(t) = Len(queue) - 1 /\ Len(queue) \in Nat
      /\ Len(queue) > 0
      /\ \A i \in 1..(Len(queue) - 1) : t[i] = queue[i + 1]
      /\ Head(queue) = queue[1] /\ Head(queue) \in CallT
  BY TailOf DEF QueueOK, GetAuth
<1>2. c \in CallT /\ c.op = "getId" /\ c.key = queue[1].key
  BY <1>1, CallsTyped DEF CallT
<1>3. queue' = Append(t, c) /\ IsRead(queue[1])
  BY <1>1 DEF GetAuth, IsRead
<1> HIDE DEF t, c
<1>4. /\ Len(queue') = Len(t) + 1
      /\ \A i \in 1..(Len(t) + 1) : queue'[i] = IF i <= Len(t) THEN t[i] ELSE c
  BY <1>1, <1>2, <1>3, Appended
<1>5. Len(queue') = Len(queue)
  BY <1>1, <1>4
<1>6. ASSUME NEW j \in 1..Len(queue')
      PROVE  IF j < Len(queue) THEN queue'[j] = queue[j + 1]
             ELSE IsRead(queue'[j]) /\ queue'[j].key = queue[1].key
  BY <1>1, <1>2, <1>4, <1>5 DEF IsRead
<1> QED
  BY <1>1, <1>3, <1>5, <1>6 DEF Shifted

\* Where a call stood before.
LEMMA Before ==
    ASSUME Shifted, NEW g \in 1..Len(queue')
    PROVE  \E h \in 1..Len(queue) :
               /\ h = g + 1 \/ (h = 1 /\ g = Len(queue) /\ IsRead(queue[1]))
               /\ IsRead(queue'[g]) = IsRead(queue[h])
               /\ queue'[g].key = queue[h].key
<1>1. CASE g < Len(queue)
  <2>1. g + 1 \in 1..Len(queue) /\ queue'[g] = queue[g + 1]
    BY <1>1 DEF Shifted
  <2> QED BY <2>1
<1>2. CASE ~(g < Len(queue))
  <2>1. g = Len(queue) /\ 1 \in 1..Len(queue) /\ IsRead(queue[1])
    BY <1>2 DEF Shifted
  <2>2. IsRead(queue'[g]) /\ queue'[g].key = queue[1].key
    BY <1>2 DEF Shifted
  <2> QED BY <2>1, <2>2
<1> QED
  BY <1>1, <1>2

LEMMA ShiftedOneRead ==
    ASSUME Shifted, OneRead
    PROVE  OneRead'
<1> SUFFICES ASSUME NEW g \in 1..Len(queue'), NEW h \in 1..Len(queue'),
                    IsRead(queue'[g]), IsRead(queue'[h]),
                    queue'[g].key = queue'[h].key
             PROVE  g = h
  BY DEF OneRead, IsRead
<1>1. PICK a \in 1..Len(queue) :
          /\ a = g + 1 \/ (a = 1 /\ g = Len(queue) /\ IsRead(queue[1]))
          /\ IsRead(queue'[g]) = IsRead(queue[a]) /\ queue'[g].key = queue[a].key
  BY Before
<1>2. PICK b \in 1..Len(queue) :
          /\ b = h + 1 \/ (b = 1 /\ h = Len(queue) /\ IsRead(queue[1]))
          /\ IsRead(queue'[h]) = IsRead(queue[b]) /\ queue'[h].key = queue[b].key
  BY Before
<1>3. a = b
  BY <1>1, <1>2 DEF OneRead
<1> QED
  BY <1>1, <1>2, <1>3 DEF Shifted

\* A profile that waits has waited before.
LEMMA WaitedBefore ==
    ASSUME Shifted, Alike(stack, stack'), NEW i \in 1..Len(stack),
           NEW g \in 1..Len(queue'), Waits(i, g)'
    PROVE  \E h \in 1..Len(queue) :
               /\ Waits(i, h)
               /\ h = g + 1 \/ (h = 1 /\ g = Len(queue) /\ IsRead(queue[1]))
<1>1. PICK h \in 1..Len(queue) :
          /\ h = g + 1 \/ (h = 1 /\ g = Len(queue) /\ IsRead(queue[1]))
          /\ IsRead(queue'[g]) = IsRead(queue[h]) /\ queue'[g].key = queue[h].key
  BY Before
<1>2. stack'[i].key = stack[i].key /\ stack'[i].route = stack[i].route
  BY DEF Alike
<1>3. /\ stack'[i].route = "OtherProfile" /\ IsRead(queue'[g])
      /\ queue'[g].key = stack'[i].key
  BY DEF Waits, IsRead
<1>4. Waits(i, h)
  BY <1>1, <1>2, <1>3 DEF Waits
<1> QED
  BY <1>1, <1>4

\* What is on its way to the storage comes nearer, or arrives.
LEMMA FoundMovesUp ==
    ASSUME Shifted, NEW i \in 1..Len(stack), NEW g \in 1..Len(queue'),
           NEW h \in 1..Len(queue), Found(i, h),
           h = g + 1 \/ (h = 1 /\ g = Len(queue) /\ IsRead(queue[1])),
           Len(stack') = Len(stack), stack'[i].key = stack[i].key,
           stack'[i].asked = stack[i].asked,
           \/ storedId' = storedId
              /\ (IsRead(queue[1]) \/ queue[1].key # stack[i].key)
           \/ storedId' = queue[1].id /\ ~IsRead(queue[1])
    PROVE  Found(i, g)'
<1>1. i = Len(stack')
  BY DEF Found
<1>2. /\ Len(queue) \in Nat /\ Len(queue') \in Nat
      /\ \A j \in 1..Len(queue') : ~IsRead(queue'[j]) =>
             j < Len(queue) /\ j + 1 \in 1..Len(queue) /\ queue'[j] = queue[j + 1]
  BY DEF Shifted
<1>3. \A j \in 1..Len(queue) : j # 1 => j - 1 \in 1..Len(queue')
                                        /\ queue'[j - 1] = queue[j]
  BY DEF Shifted
<1>4. ASSUME NEW j \in 1..Len(queue'), ~IsRead(queue'[j])
      PROVE  j < g
  <2>1. j + 1 \in 1..Len(queue) /\ ~IsRead(queue[j + 1]) /\ j < Len(queue)
    BY <1>2, <1>4
  <2>2. j + 1 < h
    BY <2>1 DEF Found, WritesAhead
  <2> QED BY <1>2, <2>1, <2>2
<1>5. WritesAhead(g)'
  BY <1>4 DEF WritesAhead, IsRead
<1>6. CASE Arrived(stack[i].asked)
  <2>1. \A j \in 1..Len(queue') : IsRead(queue'[j])
    BY <1>2, <1>6 DEF Arrived
  <2>2. 1 \in 1..Len(queue)
    BY DEF Shifted
  <2>3. storedId' = stack[i].asked
    BY <1>6, <2>2 DEF Arrived
  <2>4. Arrived(stack[i].asked)'
    BY <2>1, <2>3 DEF Arrived, IsRead
  <2> QED BY <1>1, <1>5, <2>4 DEF Found
<1>7. CASE OnItsWay(stack[i].key, stack[i].asked)
  <2>1. PICK s \in 1..Len(queue) :
            /\ ~IsRead(queue[s]) /\ queue[s].key = stack[i].key
            /\ queue[s].id = stack[i].asked
            /\ \A r \in 1..Len(queue) : ~IsRead(queue[r]) => r <= s
    BY <1>7 DEF OnItsWay
  <2>2. CASE s = 1
    <3>1. storedId' = stack[i].asked
      BY <2>1, <2>2
    <3>2. ASSUME NEW j \in 1..Len(queue') PROVE IsRead(queue'[j])
      <4>1. SUFFICES ASSUME ~IsRead(queue'[j]) PROVE FALSE
        OBVIOUS
      <4>2. j + 1 \in 1..Len(queue) /\ ~IsRead(queue[j + 1])
        BY <1>2, <4>1
      <4>3. j + 1 <= 1
        BY <2>1, <2>2, <4>2
      <4> QED BY <4>3
    <3>3. Arrived(stack[i].asked)'
      BY <3>1, <3>2 DEF Arrived, IsRead
    <3> QED BY <1>1, <1>5, <3>3 DEF Found
  <2>3. CASE s # 1
    <3>1. s - 1 \in 1..Len(queue') /\ queue'[s - 1] = queue[s]
      BY <1>3, <2>3
    <3>2. ASSUME NEW r \in 1..Len(queue'), ~IsRead(queue'[r]) PROVE r <= s - 1
      <4>1. r + 1 \in 1..Len(queue) /\ ~IsRead(queue[r + 1])
        BY <1>2, <3>2
      <4>2. r + 1 <= s
        BY <2>1, <4>1
      <4> QED BY <4>2, <1>2
    <3>3. OnItsWay(stack[i].key, stack[i].asked)'
      BY <2>1, <3>1, <3>2 DEF OnItsWay, IsRead
    <3> QED BY <1>1, <1>5, <3>3 DEF Found
  <2> QED BY <2>2, <2>3
<1> QED
  BY <1>6, <1>7 DEF Found

\* Every storage call preserves the path.
LEMMA StoragePath ==
    ASSUME TypeOK, BrowseInv, SetId \/ GetAuth \/ GetId \/ StorageFails
    PROVE  BrowseInv'
<1>0. StackOK /\ QueueOK
  BY Parted
<1>1. Shifted /\ Head(queue) = queue[1]
  BY <1>0, DequeueShifts, RequeueShifts DEF SetId, GetId, StorageFails
<1>2. OneRead'
  BY <1>1, ShiftedOneRead DEF BrowseInv
<1>3. Alike(stack, stack') /\ Len(stack') = Len(stack)
  <2>0. SUFFICES Alike(stack, stack')
    BY DEF Alike
  <2>1. stack \in Seq(Screens) /\ Alike(stack, stack)
    BY <1>0 DEF StackOK, Alike
  <2>2. CASE SetId \/ GetAuth
    BY <2>1, <2>2 DEF SetId, GetAuth
  <2>3. CASE StorageFails
    BY <2>1, <2>3, MarkedAlike DEF StorageFails
  <2>4. CASE GetId
    BY <2>4, GetIdEffect
  <2> QED BY <2>2, <2>3, <2>4
\* A profile that still waits is as it was, or has lost a call.
<1>4. ASSUME NEW i \in 1..Len(stack), NEW h \in 1..Len(queue), Waits(i, h),
             IsRead(queue[1]) => h # 1 \/ GetAuth
      PROVE  /\ stack'[i].shown = stack[i].shown
             /\ stack'[i].pending = stack[i].pending
             /\ \/ stack'[i].mishaps # {}
                \/ storedId' = storedId
                   /\ (IsRead(queue[1]) \/ queue[1].key # stack[i].key)
                \/ storedId' = queue[1].id /\ ~IsRead(queue[1])
  <2>1. CASE SetId \/ GetAuth
    <3>1. stack' = stack
      BY <2>1 DEF SetId, GetAuth
    <3>2. \/ storedId' = queue[1].id /\ queue[1].op = "setId"
          \/ storedId' = storedId /\ queue[1].op = "getAuth"
      BY <1>1, <2>1 DEF SetId, GetAuth
    <3> QED BY <3>1, <3>2 DEF IsRead
  <2>2. CASE GetId
    <3>1. queue[1].op = "getId" /\ storedId' = storedId
      BY <1>1, <2>2 DEF GetId
    <3>2. ~GetAuth
      BY <1>1, <3>1 DEF GetAuth
    <3>3. IsRead(queue[1]) /\ h # 1
      BY <1>4, <3>1, <3>2 DEF IsRead
    <3>4. queue[1].key # stack[i].key
      <4>1. 1 \in 1..Len(queue)
        BY <1>1 DEF Shifted
      <4> QED BY <1>4, <3>3, <4>1 DEF Waits, OneRead, BrowseInv
    <3>5. stack'[i] = stack[i]
      BY <1>1, <2>2, <3>4, GetIdEffect
    <3> QED BY <3>1, <3>3, <3>5
  <2>3. CASE StorageFails
    <3>1. stack' = Mark(stack, queue[1].key, "lost") /\ storedId' = storedId
      BY <1>1, <2>3 DEF StorageFails
    <3>2. stack \in Seq(Screens)
      BY <1>0 DEF StackOK
    <3>3. /\ stack'[i].shown = stack[i].shown
          /\ stack'[i].pending = stack[i].pending
          /\ stack'[i].mishaps = {} => stack[i].key # queue[1].key
      BY <3>1, <3>2, Marked
    <3> QED BY <3>1, <3>3
  <2> QED BY <2>1, <2>2, <2>3
<1>5. ASSUME NEW i \in 1..Len(stack'), NEW g \in 1..Len(queue'), Waits(i, g)'
      PROVE  /\ ~stack'[i].shown /\ stack'[i].pending = {}
             /\ stack'[i].mishaps = {} => Found(i, g)'
  <2>1. i \in 1..Len(stack)
    BY <1>3
  <2>2. PICK h \in 1..Len(queue) :
            /\ Waits(i, h)
            /\ h = g + 1 \/ (h = 1 /\ g = Len(queue) /\ IsRead(queue[1]))
    BY <1>1, <1>3, <1>5, <2>1, WaitedBefore
  <2>3. IsRead(queue[1]) => h # 1 \/ GetAuth
    <3>1. CASE h = g + 1
      BY <3>1
    <3>2. CASE g = Len(queue)
      <4>1. Len(queue') = Len(queue)
        BY <1>1, <3>2 DEF Shifted
      <4>2. ~(queue' = Tail(queue) /\ queue # <<>>)
        BY <1>0, <4>1, TailOf DEF QueueOK
      <4> QED BY <4>2 DEF SetId, GetId, StorageFails
    <3> QED BY <2>2, <3>1, <3>2
  <2>4. /\ stack'[i].shown = stack[i].shown
        /\ stack'[i].pending = stack[i].pending
        /\ \/ stack'[i].mishaps # {}
           \/ storedId' = storedId
              /\ (IsRead(queue[1]) \/ queue[1].key # stack[i].key)
           \/ storedId' = queue[1].id /\ ~IsRead(queue[1])
    BY <1>4, <2>1, <2>2, <2>3
  <2>5. ~stack[i].shown /\ stack[i].pending = {}
    BY <2>1, <2>2 DEF BrowseInv, Blank
  <2>6. ASSUME stack'[i].mishaps = {} PROVE Found(i, g)'
    <3>1. /\ stack[i].mishaps = {} /\ stack'[i].asked = stack[i].asked
          /\ stack'[i].key = stack[i].key
      BY <1>3, <2>1, <2>6 DEF Alike
    <3>2. Found(i, h)
      BY <2>1, <2>2, <3>1 DEF BrowseInv, Path
    <3>3. \/ storedId' = storedId
             /\ (IsRead(queue[1]) \/ queue[1].key # stack[i].key)
          \/ storedId' = queue[1].id /\ ~IsRead(queue[1])
      BY <2>4, <2>6
    <3> QED BY <1>1, <1>3, <2>1, <2>2, <3>1, <3>2, <3>3, FoundMovesUp
  <2> QED BY <2>4, <2>5, <2>6
<1>6. Blank' /\ Path'
  <2>1. Blank'
    BY <1>5 DEF Blank
  <2>2. Path'
    BY <1>5 DEF Path
  <2> QED BY <2>1, <2>2
<1>7. ASSUME NEW i \in 1..Len(stack'), stack'[i].route = "OtherProfile",
             stack'[i].mishaps = {}
      PROVE  stack'[i].id \in {None, stack'[i].asked}
  <2>1. /\ i \in 1..Len(stack) /\ stack[i].route = "OtherProfile"
        /\ stack[i].mishaps = {} /\ stack'[i].asked = stack[i].asked
    BY <1>3, <1>7 DEF Alike
  <2>2. stack[i].id \in {None, stack[i].asked}
    BY <2>1 DEF BrowseInv, ProfileShowsTapped
  <2>3. CASE SetId \/ GetAuth
    BY <2>2, <2>3 DEF SetId, GetAuth
  <2>4. CASE StorageFails
    BY <1>0, <2>1, <2>2, <2>4, Marked DEF StorageFails, StackOK
  <2>5. CASE GetId
    <3>1. CASE stack[i].key # Head(queue).key
      BY <2>1, <2>2, <2>5, <3>1, GetIdEffect
    <3>2. CASE stack[i].key = Head(queue).key
      <4>1. stack'[i].id = storedId
        BY <2>1, <2>5, <3>2, GetIdEffect
      <4>2. 1 \in 1..Len(queue) /\ Waits(i, 1) /\ IsRead(queue[1])
        <5>1. queue[1].op = "getId" /\ queue[1].key = stack[i].key
          BY <1>1, <2>5, <3>2 DEF GetId
        <5>2. 1 \in 1..Len(queue)
          BY <1>1 DEF Shifted
        <5> QED BY <2>1, <5>1, <5>2 DEF Waits, IsRead
      <4>3. Found(i, 1)
        BY <2>1, <4>2 DEF BrowseInv, Path
      <4>4. \A s \in 1..Len(queue) : IsRead(queue[s])
        BY <4>3 DEF Found, WritesAhead
      <4>5. storedId = stack[i].asked
        BY <4>3, <4>4 DEF Found, Arrived, OnItsWay
      <4> QED BY <2>1, <4>1, <4>5
    <3> QED BY <3>1, <3>2
  <2> QED BY <2>3, <2>4, <2>5
<1>8. ProfileShowsTapped'
  BY <1>7 DEF ProfileShowsTapped
<1> QED
  BY <1>2, <1>6, <1>8 DEF BrowseInv

\* An answer reaches a screen that requested something, and so does not wait.
LEMMA AnswerPath ==
    ASSUME TypeOK, BrowseInv, NEW n \in 1..Len(stack), Settled(n)
    PROVE  BrowseInv'
<1>1. /\ queue' = queue /\ storedId' = storedId
      /\ stack[n].pending # {} /\ stack'[n].id = stack[n].id
      /\ Len(stack') = Len(stack)
      /\ \A i \in 1..Len(stack) : i # n => stack'[i] = stack[i]
      /\ \A i \in 1..Len(stack) :
             /\ stack'[i].key = stack[i].key /\ stack'[i].route = stack[i].route
             /\ stack'[i].mishaps = {} =>
                    stack[i].mishaps = {} /\ stack'[i].asked = stack[i].asked
  BY DEF Settled, Alike
<1>2. OneRead'
  BY <1>1 DEF BrowseInv, OneRead, IsRead
<1>3. ASSUME NEW i \in 1..Len(stack'), NEW g \in 1..Len(queue'), Waits(i, g)'
      PROVE  i \in 1..Len(stack) /\ Waits(i, g) /\ stack'[i] = stack[i]
  <2>1. i \in 1..Len(stack) /\ Waits(i, g)
    BY <1>1, <1>3 DEF Waits, IsRead
  <2>2. i # n
    BY <1>1, <2>1 DEF BrowseInv, Blank
  <2> QED BY <1>1, <2>1, <2>2
<1>4. Blank'
  <2> SUFFICES ASSUME NEW i \in 1..Len(stack'), NEW g \in 1..Len(queue'), Waits(i, g)'
               PROVE  ~stack'[i].shown /\ stack'[i].pending = {}
    BY DEF Blank
  <2> QED BY <1>1, <1>3 DEF BrowseInv, Blank
<1>5. Path'
  <2> SUFFICES ASSUME NEW i \in 1..Len(stack'), NEW g \in 1..Len(queue'),
                      Waits(i, g)', stack'[i].mishaps = {}
               PROVE  Found(i, g)'
    BY DEF Path
  <2>1. Found(i, g) /\ stack'[i] = stack[i]
    BY <1>1, <1>3 DEF BrowseInv, Path
  <2> QED BY <1>1, <2>1 DEF Found, WritesAhead, Arrived, OnItsWay, IsRead
<1>6. ProfileShowsTapped'
  BY <1>1 DEF BrowseInv, ProfileShowsTapped
<1> QED
  BY <1>2, <1>4, <1>5, <1>6 DEF BrowseInv

\* The screens below a new one are as they were, up to their mishaps, and none
\* of them still waits without one.
Below(s) ==
    /\ Alike(stack, s)
    /\ \A i \in 1..Len(stack) :
           /\ s[i].shown = stack[i].shown /\ s[i].pending = stack[i].pending
           /\ s[i].id = stack[i].id
           /\ s[i].mishaps = {} => \A g \in 1..Len(queue) : ~Waits(i, g)

\* A profile that is opened has its id on the way, ahead of its own call.
LEMMA OpenPath ==
    ASSUME TypeOK, BrowseInv, NEW u \in Users, NEW s \in Seq(Screens), Below(s),
           Opened(s, u)
    PROVE  BrowseInv'
<1>n. PICK n : n = Len(queue)
  OBVIOUS
<1>m. PICK m : m = Len(stack)
  OBVIOUS
<1>k. PICK k : k = NewKey
  OBVIOUS
<1> DEFINE x == Screen(k, "OtherProfile", u)
           a == Call("setId", k, u)
           b == Call("getAuth", k, None)
<1>1. /\ k \in Keys /\ \A i \in 1..m : stack[i].key # k
      /\ \A i \in 1..n : queue[i].key # k
  BY <1>n, <1>m, <1>k, NewKeyIsFree DEF Opened
<1>2. /\ x \in Screens /\ x.key = k /\ x.route = "OtherProfile" /\ x.asked = u
      /\ x.id = None /\ x.pending = {} /\ x.shown = FALSE
  <2>1. k \in Keys /\ u \in Users \cup {None}
    BY <1>1
  <2> QED BY <2>1 DEF Screen, Screens
<1>3. /\ m \in Nat /\ Len(stack') = m + 1 /\ stack'[m + 1] = x
      /\ \A i \in 1..m : stack'[i] = s[i]
  BY <1>2, <1>m, <1>k, PushedTyped, Parted DEF Opened, Below
<1>4. /\ a \in CallT /\ ~IsRead(a) /\ a.key = k /\ a.id = u
      /\ b \in CallT /\ IsRead(b) /\ b.key = k
  BY <1>1, CallsTyped DEF IsRead
<1>5. /\ n \in Nat /\ Len(queue') = n + 2
      /\ \A j \in 1..(n + 2) :
             queue'[j] = IF j <= n THEN queue[j] ELSE IF j = n + 1 THEN a ELSE b
  <2>1. queue \in Seq(CallT) /\ queue' = queue \o (<<a>> \o <<b>>)
    BY <1>k, Parted DEF QueueOK, Opened
  <2> HIDE DEF a, b
  <2> QED BY <1>4, <1>n, <2>1, Joined
<1>6. storedId' = storedId
  BY DEF Opened
<1>7. /\ \A j \in 1..n : j \in 1..(n + 2) /\ queue'[j] = queue[j]
      /\ queue'[n + 1] = a /\ queue'[n + 2] = b
      /\ \A j \in 1..(n + 2) : j \in 1..n \/ j = n + 1 \/ j = n + 2
      /\ \A i \in 1..(m + 1) : i \in 1..m \/ i = m + 1
      /\ n + 1 \in 1..(n + 2)
  BY <1>3, <1>5
<1> HIDE DEF x, a, b
<1>8. \A i \in 1..m :
          /\ stack'[i].key = stack[i].key /\ stack'[i].route = stack[i].route
          /\ stack'[i].shown = stack[i].shown /\ stack'[i].pending = stack[i].pending
          /\ stack'[i].id = stack[i].id
          /\ stack'[i].mishaps = {} =>
                 /\ stack[i].mishaps = {} /\ stack'[i].asked = stack[i].asked
                 /\ \A g \in 1..n : ~Waits(i, g)
  BY <1>3, <1>m, <1>n DEF Below, Alike
<1>9. OneRead'
  <2> SUFFICES ASSUME NEW g \in 1..(n + 2), NEW h \in 1..(n + 2), IsRead(queue'[g]),
                      IsRead(queue'[h]), queue'[g].key = queue'[h].key
               PROVE  g = h
    BY <1>5 DEF OneRead, IsRead
  <2>1. CASE g \in 1..n /\ h \in 1..n
    BY <1>7, <2>1, <1>n DEF BrowseInv, OneRead
  <2>2. \A j \in 1..(n + 2) : j \in 1..n => queue'[j].key # k
    BY <1>1, <1>7
  <2>3. \A j \in 1..(n + 2) : j \notin 1..n /\ IsRead(queue'[j]) =>
            j = n + 2 /\ queue'[j].key = k
    BY <1>4, <1>7
  <2> QED BY <2>1, <2>2, <2>3
<1>10. ASSUME NEW i \in 1..(m + 1), NEW g \in 1..(n + 2), Waits(i, g)'
       PROVE  \/ i \in 1..m /\ g \in 1..n /\ Waits(i, g)
              \/ i = m + 1 /\ g = n + 2
  <2>1. /\ stack'[i].route = "OtherProfile" /\ IsRead(queue'[g])
        /\ queue'[g].key = stack'[i].key
    BY <1>10 DEF Waits, IsRead
  <2>2. CASE g \in 1..n
    <3>1. queue'[g] = queue[g] /\ queue[g].key # k
      BY <1>1, <1>7, <2>2
    <3>2. i \in 1..m
      BY <1>2, <1>3, <1>7, <2>1, <3>1
    <3> QED BY <1>8, <2>1, <2>2, <3>1, <3>2 DEF Waits
  <2>3. CASE g \notin 1..n
    <3>1. g = n + 2 /\ queue'[g].key = k
      BY <1>4, <1>7, <2>1, <2>3
    <3>2. i \notin 1..m
      BY <1>1, <1>8, <2>1, <3>1
    <3> QED BY <1>7, <3>1, <3>2
  <2> QED BY <2>2, <2>3
<1>11. Blank'
  <2> SUFFICES ASSUME NEW i \in 1..(m + 1), NEW g \in 1..(n + 2), Waits(i, g)'
               PROVE  ~stack'[i].shown /\ stack'[i].pending = {}
    BY <1>3, <1>5 DEF Blank
  <2>1. CASE i \in 1..m /\ g \in 1..n /\ Waits(i, g)
    BY <1>8, <2>1, <1>m, <1>n DEF BrowseInv, Blank
  <2>2. CASE i = m + 1
    BY <1>2, <1>3, <2>2
  <2> QED BY <1>10, <2>1, <2>2
<1>12. Found(m + 1, n + 2)'
  <2>1. WritesAhead(n + 2)'
    <3> SUFFICES ASSUME NEW j \in 1..(n + 2), ~IsRead(queue'[j]) PROVE j < n + 2
      BY <1>5 DEF WritesAhead, IsRead
    <3>1. j # n + 2
      BY <1>4, <1>7
    <3> QED BY <1>5, <3>1
  <2>2. OnItsWay(k, u)'
    <3>1. \A r \in 1..(n + 2) : ~IsRead(queue'[r]) => r <= n + 1
      <4>1. \A r \in 1..(n + 2) : r = n + 2 \/ r <= n + 1
        BY <1>5
      <4> QED BY <1>4, <1>7, <4>1
    <3>2. n + 1 \in 1..Len(queue') /\ queue'[n + 1] = a
      BY <1>5, <1>7
    <3> QED BY <1>4, <1>5, <3>1, <3>2 DEF OnItsWay, IsRead
  <2>3. stack'[m + 1].key = k /\ stack'[m + 1].asked = u /\ m + 1 = Len(stack')
    BY <1>2, <1>3
  <2> QED BY <2>1, <2>2, <2>3 DEF Found, OnItsWay, IsRead
<1>13. Path'
  <2> SUFFICES ASSUME NEW i \in 1..(m + 1), NEW g \in 1..(n + 2), Waits(i, g)',
                      stack'[i].mishaps = {}
               PROVE  Found(i, g)'
    BY <1>3, <1>5 DEF Path
  <2>1. i = m + 1 /\ g = n + 2
    BY <1>8, <1>10
  <2> QED BY <1>12, <2>1
<1>14. ProfileShowsTapped'
  <2> SUFFICES ASSUME NEW i \in 1..(m + 1), stack'[i].route = "OtherProfile",
                      stack'[i].mishaps = {}
               PROVE  stack'[i].id \in {None, stack'[i].asked}
    BY <1>3 DEF ProfileShowsTapped
  <2>1. CASE i \in 1..m
    BY <1>8, <2>1, <1>m DEF BrowseInv, ProfileShowsTapped
  <2>2. CASE i = m + 1
    BY <1>2, <1>3, <2>2
  <2> QED BY <1>7, <2>1, <2>2
<1> QED
  BY <1>9, <1>11, <1>13, <1>14 DEF BrowseInv

\* Nothing is stored by what a list or a way back does, and above a profile that
\* waits without a mishap there is no way to either but back.
LEMMA ListPath ==
    ASSUME TypeOK, BrowseInv, NEW r \in Lists, NEW u \in Users \cup {None},
           Top.shown, Listed(r, u)
    PROVE  BrowseInv'
<1>n. PICK n : n = Len(queue)
  OBVIOUS
<1>m. PICK m : m = Len(stack)
  OBVIOUS
<1>k. PICK k : k = NewKey
  OBVIOUS
<1> DEFINE x == Screen(k, r, u)
           c == Call("getId", k, None)
<1>1. /\ k \in Keys /\ \A i \in 1..m : stack[i].key # k
      /\ \A i \in 1..n : queue[i].key # k
  BY <1>n, <1>m, <1>k, NewKeyIsFree DEF Listed
<1>2. x \in Screens /\ x.route # "OtherProfile"
  <2>1. k \in Keys /\ r \in Lists /\ u \in Users \cup {None}
    BY <1>1
  <2>2. x \in Screens /\ x.route = r
    BY <2>1 DEF Screen, Screens
  <2> QED BY <2>2 DEF Lists
<1>3. /\ m \in Nat /\ Len(stack') = m + 1 /\ stack'[m + 1] = x
      /\ \A i \in 1..m : stack'[i] = stack[i]
  <2>1. stack \in Seq(Screens) /\ Alike(stack, stack)
    BY Parted DEF StackOK, Alike
  <2> QED BY <1>2, <1>m, <1>k, <2>1, PushedTyped, Parted DEF Listed
<1>4. c \in CallT /\ IsRead(c) /\ c.key = k
  BY <1>1, CallsTyped DEF IsRead
<1>5. /\ n \in Nat /\ Len(queue') = n + 1
      /\ \A j \in 1..(n + 1) : queue'[j] = IF j <= n THEN queue[j] ELSE c
  <2>1. queue \in Seq(CallT) /\ queue' = Append(queue, c)
    BY <1>k, Parted DEF QueueOK, Listed
  <2> HIDE DEF c
  <2> QED BY <1>4, <1>n, <2>1, Appended
<1>6. Top = stack[m]
  BY <1>m, TopOfStack, Parted
<1>7. /\ \A j \in 1..n : j \in 1..(n + 1) /\ queue'[j] = queue[j]
      /\ queue'[n + 1] = c
      /\ \A j \in 1..(n + 1) : j \in 1..n \/ j = n + 1
      /\ \A i \in 1..(m + 1) : i \in 1..m \/ i = m + 1
  BY <1>3, <1>5
<1> HIDE DEF x, c
<1>8. OneRead'
  <2> SUFFICES ASSUME NEW g \in 1..(n + 1), NEW h \in 1..(n + 1), IsRead(queue'[g]),
                      IsRead(queue'[h]), queue'[g].key = queue'[h].key
               PROVE  g = h
    BY <1>5 DEF OneRead, IsRead
  <2>1. CASE g \in 1..n /\ h \in 1..n
    BY <1>7, <2>1, <1>n DEF BrowseInv, OneRead
  <2>2. \A j \in 1..(n + 1) : IF j \in 1..n THEN queue'[j].key # k
                              ELSE j = n + 1 /\ queue'[j].key = k
    BY <1>1, <1>4, <1>7
  <2> QED BY <2>1, <2>2
<1>9. ASSUME NEW i \in 1..(m + 1), NEW g \in 1..(n + 1), Waits(i, g)'
      PROVE  /\ i \in 1..m /\ stack'[i] = stack[i] /\ ~stack[i].shown
             /\ stack[i].pending = {} /\ stack[i].mishaps # {}
  <2>1. /\ stack'[i].route = "OtherProfile" /\ IsRead(queue'[g])
        /\ queue'[g].key = stack'[i].key
    BY <1>9 DEF Waits, IsRead
  <2>2. i \in 1..m /\ stack'[i] = stack[i]
    BY <1>2, <1>3, <1>7, <2>1
  <2>3. g \in 1..n /\ queue'[g] = queue[g]
    BY <1>1, <1>4, <1>7, <2>1, <2>2
  <2>4. Waits(i, g)
    BY <2>1, <2>2, <2>3 DEF Waits
  <2>5. ~stack[i].shown /\ stack[i].pending = {}
    BY <2>2, <2>3, <2>4, <1>m, <1>n DEF BrowseInv, Blank
  <2>6. stack[i].mishaps # {}
    BY <1>6, <2>2, <2>3, <2>4, <2>5, <1>m, <1>n DEF BrowseInv, Path, Found
  <2> QED BY <2>2, <2>5, <2>6
<1>10. Blank' /\ Path'
  <2>1. Blank'
    BY <1>3, <1>5, <1>9 DEF Blank
  <2>2. Path'
    BY <1>3, <1>5, <1>9 DEF Path
  <2> QED BY <2>1, <2>2
<1>11. ProfileShowsTapped'
  <2> SUFFICES ASSUME NEW i \in 1..(m + 1), stack'[i].route = "OtherProfile",
                      stack'[i].mishaps = {}
               PROVE  stack'[i].id \in {None, stack'[i].asked}
    BY <1>3 DEF ProfileShowsTapped
  <2>1. i \in 1..m
    BY <1>2, <1>3, <1>7
  <2> QED BY <1>3, <2>1, <1>m DEF BrowseInv, ProfileShowsTapped
<1> QED
  BY <1>8, <1>10, <1>11 DEF BrowseInv

LEMMA BackPath ==
    ASSUME TypeOK, BrowseInv, Len(stack') < Len(stack), queue' = queue,
           \A i \in 1..Len(stack') :
               /\ i \in 1..Len(stack)
               /\ stack'[i].route = "OtherProfile" => stack'[i] = stack[i]
    PROVE  BrowseInv'
<1>0. Len(stack) \in Nat
  BY TopOfStack, Parted
<1>1. OneRead'
  BY DEF BrowseInv, OneRead, IsRead
<1>2. ASSUME NEW i \in 1..Len(stack'), NEW g \in 1..Len(queue'), Waits(i, g)'
      PROVE  i \in 1..Len(stack) /\ stack'[i] = stack[i] /\ Waits(i, g)
             /\ stack[i].mishaps # {}
  <2>1. i \in 1..Len(stack) /\ stack'[i] = stack[i] /\ Waits(i, g)
    BY <1>2 DEF Waits, IsRead
  <2>2. i # Len(stack)
    BY <1>0
  <2> QED BY <2>1, <2>2 DEF BrowseInv, Path, Found
<1>3. Blank'
  BY <1>2 DEF BrowseInv, Blank
<1>4. Path'
  BY <1>2 DEF Path
<1>5. ProfileShowsTapped'
  BY DEF BrowseInv, ProfileShowsTapped
<1> QED
  BY <1>1, <1>3, <1>4, <1>5 DEF BrowseInv

LEMMA RetapPath ==
    ASSUME TypeOK, BrowseInv, NEW u \in Users, Retapped(u)
    PROVE  BrowseInv'
<1> DEFINE n == Len(queue)
           c == Call("setId", stack[2].key, u)
<1>1. stack[2].key \in Keys \cup {None}
  <2>1. stack[2] \in Screens
    BY Parted DEF StackOK, Retapped
  <2> QED BY <2>1 DEF Screens
<1>2. c \in CallT /\ ~IsRead(c)
  BY <1>1, CallsTyped DEF IsRead
<1>3. /\ n \in Nat /\ Len(queue') = n + 1
      /\ \A j \in 1..(n + 1) : queue'[j] = IF j <= n THEN queue[j] ELSE c
  <2>1. queue \in Seq(CallT) /\ queue' = Append(queue, c)
    BY Parted DEF QueueOK, Retapped
  <2> HIDE DEF c
  <2> QED BY <1>2, <2>1, Appended
<1>4. \A j \in 1..(n + 1) : IsRead(queue'[j]) => j \in 1..n /\ queue'[j] = queue[j]
  <2> HIDE DEF c
  <2> QED BY <1>2, <1>3
<1>5. /\ Len(stack) = 2 /\ Len(stack') = 2 /\ stack'[2].mishaps # {}
      /\ \A i \in 1..Len(stack) :
             /\ stack'[i].key = stack[i].key /\ stack'[i].route = stack[i].route
             /\ stack'[i].mishaps = {} =>
                    stack[i].mishaps = {} /\ stack'[i].asked = stack[i].asked
             /\ stack'[i].shown = stack[i].shown
             /\ stack'[i].pending = stack[i].pending
             /\ stack'[i].id = stack[i].id
  BY RetappedAlike DEF Alike, Retapped
<1> HIDE DEF n, c
<1>6. OneRead'
  BY <1>3, <1>4 DEF BrowseInv, OneRead, IsRead, n
<1>7. ASSUME NEW i \in 1..Len(stack'), NEW g \in 1..Len(queue'), Waits(i, g)'
      PROVE  i \in 1..Len(stack) /\ g \in 1..Len(queue) /\ Waits(i, g)
  BY <1>3, <1>4, <1>5, <1>7 DEF Waits, IsRead, n
<1>8. Blank'
  BY <1>5, <1>7 DEF BrowseInv, Blank
<1>9. Path'
  <2> SUFFICES ASSUME NEW i \in 1..Len(stack'), NEW g \in 1..Len(queue'),
                      Waits(i, g)', stack'[i].mishaps = {}
               PROVE  FALSE
    BY DEF Path
  <2>1. Found(i, g)
    BY <1>5, <1>7 DEF BrowseInv, Path
  <2> QED BY <1>5, <2>1 DEF Found
<1>10. ProfileShowsTapped'
  BY <1>5 DEF BrowseInv, ProfileShowsTapped
<1> QED
  BY <1>6, <1>8, <1>9, <1>10 DEF BrowseInv

LEMMA BrowseStep == TypeOK /\ BrowseInv /\ [Next]_vars => BrowseInv'
<1> SUFFICES ASSUME TypeOK, BrowseInv, [Next]_vars PROVE BrowseInv'
  OBVIOUS
<1>0. /\ StackOK /\ stack \in Seq(Screens) /\ Alike(stack, stack)
      /\ Top = stack[Len(stack)]
  BY Parted, TopOfStack DEF StackOK, Alike
<1>1. ASSUME NEW u \in Users, MoreDetails(u)
      PROVE  BrowseInv'
  <2>1. Top.route # "OtherProfile"
    BY <1>1 DEF MoreDetails
  <2>2. Below(stack)
    BY <1>0, <2>1 DEF Below, BrowseInv, Path, Found, Waits
  <2> QED BY <1>0, <1>1, <2>2, MoreDetailsOpens, OpenPath
<1>2. ASSUME NEW u \in Users, TapAgain(u)
      PROVE  BrowseInv'
  <2> DEFINE s == Mark(stack, Top.key, "raced")
  <2>1. s \in Seq(Screens) /\ Alike(stack, s)
    BY <1>0, Marked, MarkedAlike
  <2>2. \A i \in 1..Len(stack) :
            /\ s[i].shown = stack[i].shown /\ s[i].pending = stack[i].pending
            /\ s[i].id = stack[i].id
            /\ s[i].mishaps = {} => stack[i].mishaps = {} /\ stack[i].key # Top.key
    BY <1>0, Marked
  <2> HIDE DEF s
  <2>3. \A i \in 1..Len(stack) : s[i].mishaps = {} =>
            \A g \in 1..Len(queue) : ~Waits(i, g)
    BY <1>0, <2>2 DEF BrowseInv, Path, Found
  <2>4. Below(s)
    BY <2>1, <2>2, <2>3 DEF Below
  <2>5. CASE Opened(s, u)
    BY <2>1, <2>4, <2>5, OpenPath
  <2>6. CASE Retapped(u)
    BY <2>6, RetapPath
  <2> QED BY <1>2, <2>5, <2>6, TapAgainEffect DEF s
<1>3. ASSUME NEW r \in Lists, GoTo(r)
      PROVE  BrowseInv'
  <2> DEFINE u == Top.asked
  <2>1. /\ u \in Users \cup {None} /\ Top.shown
        /\ Listed(r, u) \/ WentBack(r, u)
    BY <1>3, GoToEffect
  <2> HIDE DEF u
  <2>2. CASE Listed(r, u)
    BY <2>1, <2>2, ListPath
  <2>3. CASE WentBack(r, u)
    BY <2>1, <2>3, WentBackEffect, BackPath DEF WentBack
  <2> QED BY <2>1, <2>2, <2>3
<1>4. CASE Back
  <2>1. Len(stack') < Len(stack)
    BY <1>0, <1>4, BackEffect DEF StackOK
  <2> QED BY <1>4, <2>1, BackEffect, BackPath
<1>5. CASE SetId \/ GetAuth \/ GetId \/ StorageFails
  BY <1>5, StoragePath
<1>6. ASSUME NEW k \in Keys, NEW part \in Parts \cup {"list"},
             Answer(k, part) \/ AnswerFails(k, part)
      PROVE  BrowseInv'
  BY <1>0, <1>6, SettleEffect, AnswerPath
<1>7. CASE UNCHANGED vars
  BY <1>7 DEF vars, BrowseInv, OneRead, Blank, Path, Found, WritesAhead, Arrived,
     OnItsWay, Waits, IsRead, ProfileShowsTapped
<1> QED
  BY <1>1, <1>2, <1>3, <1>4, <1>5, <1>6, <1>7
  DEF Next, UserNext, StorageNext, AnswerNext, Failures

\* For hasty users, any depth of the stack and any number of storage calls under
\* way: a profile shows the user whose entry was tapped, unless another one was
\* tapped while it was loading or a storage call was lost (Search.js, Followers.js
\* and Following.js moreDetails and storeId, OtherProfile.js getUser).
THEOREM ShowsTapped == Spec => []ProfileShowsTapped
<1>1. Init => BrowseInv
  <2> SUFFICES ASSUME Init PROVE BrowseInv
    OBVIOUS
  <2>1. Len(queue) = 0 /\ Len(stack) = 1 /\ stack[1].route = "Search"
    BY DEF Init, Screen
  <2> QED BY <2>1 DEF BrowseInv, OneRead, Blank, Path, ProfileShowsTapped
<1>2. BrowseInv => ProfileShowsTapped
  BY DEF BrowseInv
<1> QED
  BY <1>1, <1>2, TypeCorrect, BrowseStep, PTL DEF Spec
=============================================================================
