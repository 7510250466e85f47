--------------------------- MODULE PostChitProofs ---------------------------
(***************************************************************************)
(* Proofs about the composer for every set of accounts, texts, photos,     *)
(* places and chains and every bound, logged in or out, with and without   *)
(* failures.                                                               *)
(***************************************************************************)
EXTENDS PostChit, TLAPS

StateT == [auth : Ids, draft : DraftLists \cup {None},
           text : Texts \cup {None}, image : Images \cup {None},
           coords : Places \cup {None}, location : Places \cup {None},
           chitId : 0..MaxChits, isVisible : BOOLEAN, showDraft : BOOLEAN]
CallT == [op : {"getAuth", "getDraft", "setAuth", "setDraft"}, id : Ids,
          list : DraftLists, keeps : SUBSET Ids,
          out : SUBSET (Texts \cup {None})]
ChitT == [author : Accounts, text : Texts \cup {None},
          coords : Places \cup {None}, photo : Images \cup {None},
          attached : Images \cup {None}, gone : SUBSET Images,
          astray : BOOLEAN]
PostT == [st : {"idle", "sent", "created", "refused", "lookup", "found",
                "photo", "attached"},
          user : Ids, text : Texts \cup {None}, coords : Places \cup {None},
          image : Images \cup {None}, chit : 0..MaxChits, alone : BOOLEAN]
PositionT == [st : {"idle", "position", "geocode"}, coords : Places \cup {None},
              moved : BOOLEAN]

(***************************************************************************)
(* The types by variable.                                                  *)
(***************************************************************************)
QueueOK == queue \in Seq(CallT) /\ Len(queue) <= MaxQueue

ViewOK == /\ screen \in {"Home", "Create", "Photo"}
          /\ mounted \in BOOLEAN /\ focusing \in BOOLEAN

ChitsOK == chits \in Seq(ChitT) /\ Len(chits) <= MaxChits

PostOK == post \in [Posts -> PostT]

StorageOK == storedAuth \in Ids /\ storedDraft \in DraftLists /\ QueueOK

RestOK == /\ position \in [Positions -> PositionT]
          /\ taken \subseteq Images
          /\ listOf \in Ids
          /\ picked \subseteq Texts \cup {None}
          /\ late \in BOOLEAN /\ failed \in BOOLEAN

TypeInv == state \in StateT /\ StorageOK /\ ViewOK /\ ChitsOK /\ PostOK /\ RestOK

LEMMA TypeInvOK == TypeInv => TypeOK
  BY DEF TypeInv, TypeOK, StateT, CallT, ChitT, PostT, PositionT, QueueOK,
         ViewOK, ChitsOK, PostOK, StorageOK, RestOK

LEMMA Bounds == MaxChits \in Nat /\ MaxQueue \in Nat /\ 0 \in 0..MaxChits
  BY ConstantsOK

LEMMA InitTypeInv == Init => TypeInv
<1> SUFFICES ASSUME Init PROVE TypeInv
  OBVIOUS
<1> USE DEF Init
<1>1. state \in StateT
  BY Bounds DEF StateT, Ids
<1>2. StorageOK
  BY Bounds DEF StorageOK, QueueOK, DraftLists
<1>3. ViewOK
  BY DEF ViewOK
<1>5. ChitsOK
  BY Bounds DEF ChitsOK
<1>4. PostOK /\ RestOK
  BY Bounds DEF PostOK, RestOK, IdlePost, IdlePosition, PostT, PositionT, Ids
<1> QED
  BY <1>1, <1>2, <1>3, <1>4, <1>5 DEF TypeInv

(***************************************************************************)
(* The queue of storage calls.  A call is added at the end, and the oldest *)
(* one leaves; whatever is true of every call stays true.                  *)
(***************************************************************************)
LEMMA Appended ==
    ASSUME NEW S, NEW q \in Seq(S), NEW c \in S
    PROVE  /\ Append(q, c) \in Seq(S)
           /\ Len(Append(q, c)) = Len(q) + 1 /\ Len(q) \in Nat
           /\ \A i \in 1..(Len(q) + 1) :
                  Append(q, c)[i] = IF i <= Len(q) THEN q[i] ELSE c
  OBVIOUS

LEMMA EnqueueOK ==
    ASSUME QueueOK, NEW c \in CallT, Enqueue(c)
    PROVE  QueueOK'
<1>1. queue' = Append(queue, c) /\ Len(queue) < MaxQueue
  BY DEF Enqueue
<1>2. queue' \in Seq(CallT) /\ Len(queue') = Len(queue) + 1
  BY <1>1, Appended DEF QueueOK
<1>3. Len(queue') <= MaxQueue
  BY <1>1, <1>2, Bounds DEF QueueOK
<1> QED
  BY <1>2, <1>3 DEF QueueOK

LEMMA TailOK ==
    ASSUME QueueOK, queue # <<>>
    PROVE  /\ Tail(queue) \in Seq(CallT) /\ Len(Tail(queue)) = Len(queue) - 1
           /\ \A i \in 1..Len(Tail(queue)) : Tail(queue)[i] = queue[i + 1]
           /\ \A i \in 1..Len(queue) :
                  i = 1 \/ (i - 1 \in 1..Len(Tail(queue))
                            /\ Tail(queue)[i - 1] = queue[i])
           /\ Head(queue) = queue[1] /\ Head(queue) \in CallT
           /\ Len(queue) \in Nat /\ Len(queue) > 0
  BY DEF QueueOK

LEMMA DequeueOK ==
    ASSUME QueueOK, queue # <<>>, queue' = Tail(queue)
    PROVE  QueueOK'
<1>1. Len(queue') <= MaxQueue
  BY TailOK, Bounds DEF QueueOK
<1> QED
  BY <1>1, TailOK DEF QueueOK

LEMMA RequeueOK ==
    ASSUME QueueOK, queue # <<>>,
           NEW c \in CallT, queue' = Append(Tail(queue), c)
    PROVE  QueueOK'
<1> DEFINE t == Tail(queue)
<1>1. t \in Seq(CallT) /\ Len(t) = Len(queue) - 1 /\ Len(queue) \in Nat
  BY TailOK
<1>2. queue' = Append(t, c)
  OBVIOUS
<1> HIDE DEF t
<1>3. queue' \in Seq(CallT) /\ Len(queue') = Len(t) + 1
  <2>1. Append(t, c) \in Seq(CallT) /\ Len(Append(t, c)) = Len(t) + 1
    BY <1>1, Appended
  <2> QED BY ONLY <1>2, <2>1
<1>4. Len(queue') = Len(queue)
  BY <1>1, <1>3
<1> QED
  BY <1>3, <1>4 DEF QueueOK

(***************************************************************************)
(* Every step keeps the types.  One lemma per group of actions.            *)
(***************************************************************************)
LEMMA Unpacked ==
    ASSUME TypeInv
    PROVE  /\ state \in StateT /\ storedAuth \in Ids
           /\ storedDraft \in DraftLists /\ QueueOK /\ ViewOK /\ ChitsOK
           /\ PostOK /\ RestOK
  BY DEF TypeInv, StorageOK

LEMMA StateTyped ==
    ASSUME TypeInv
    PROVE  /\ state.auth \in Ids /\ state.draft \in DraftLists \cup {None}
           /\ state.text \in Texts \cup {None}
           /\ state.image \in Images \cup {None}
           /\ state.coords \in Places \cup {None}
           /\ state.chitId \in 0..MaxChits
  BY Unpacked DEF StateT

\* The histories of the chains and of the positions keep the types.
LEMMA DisturbedTyped ==
    ASSUME TypeInv
    PROVE  /\ Disturbed \in [Posts -> PostT]
           /\ \A p \in Posts :
                  /\ Disturbed[p].st = post[p].st
                  /\ Disturbed[p].user = post[p].user
                  /\ Disturbed[p].text = post[p].text
                  /\ Disturbed[p].image = post[p].image
                  /\ Disturbed[p].chit = post[p].chit
                  /\ Disturbed[p].alone = FALSE
<1>1. \A p \in Posts : /\ Disturbed[p] = [post[p] EXCEPT !.alone = FALSE]
                       /\ post[p] \in PostT
  BY Unpacked DEF Disturbed, PostOK
<1>2. ASSUME NEW r \in PostT
      PROVE  [r EXCEPT !.alone = FALSE] \in PostT
  BY DEF PostT
<1>4. Disturbed \in [Posts -> PostT]
  BY <1>1, <1>2 DEF Disturbed
<1>5. ASSUME NEW p \in Posts
      PROVE  /\ Disturbed[p].st = post[p].st /\ Disturbed[p].user = post[p].user
             /\ Disturbed[p].text = post[p].text
             /\ Disturbed[p].image = post[p].image
             /\ Disturbed[p].chit = post[p].chit /\ Disturbed[p].alone = FALSE
  <2>1. Disturbed[p] = [post[p] EXCEPT !.alone = FALSE] /\ post[p] \in PostT
    BY <1>1
  <2> QED BY ONLY <2>1, SMT DEF PostT
<1> QED
  BY <1>4, <1>5

LEMMA MovedTyped ==
    ASSUME TypeInv
    PROVE  /\ Moved \in [Positions -> PositionT]
           /\ \A l \in Positions :
                  /\ Moved[l].st = position[l].st
                  /\ Moved[l].moved = (position[l].st = "geocode")
<1>1. \A l \in Positions :
          /\ Moved[l] = [position[l] EXCEPT !.moved = (position[l].st = "geocode")]
          /\ position[l] \in PositionT
  BY Unpacked DEF Moved, RestOK
<1>2. ASSUME NEW r \in PositionT, NEW b \in BOOLEAN,
             NEW n, n = [r EXCEPT !.moved = b]
      PROVE  n \in PositionT /\ n.st = r.st /\ n.moved = b
  BY <1>2 DEF PositionT
<1>3. \A l \in Positions : /\ Moved[l] \in PositionT
                           /\ Moved[l].st = position[l].st
                           /\ Moved[l].moved = (position[l].st = "geocode")
  <2> TAKE l \in Positions
  <2> DEFINE b == (position[l].st = "geocode")
  <2>1. b \in BOOLEAN
    OBVIOUS
  <2>2. Moved[l] = [position[l] EXCEPT !.moved = b] /\ position[l] \in PositionT
    BY <1>1
  <2> HIDE DEF b
  <2>3. Moved[l] \in PositionT /\ Moved[l].st = position[l].st /\ Moved[l].moved = b
    BY <1>2, <2>1, <2>2
  <2> QED BY <2>3 DEF b
<1> QED
  BY <1>3 DEF Moved

\* Actions that change this.state and nothing else.
LEMMA SetStateTyped ==
    ASSUME TypeInv, NEW s \in StateT, SetState(s)
    PROVE  TypeInv'
  BY Unpacked DEF SetState, storage, view, history, TypeInv, StorageOK, QueueOK,
     ViewOK, ChitsOK, PostOK, RestOK

LEMMA ScreenSteps ==
    ASSUME TypeInv,
           \/ Leave \/ HandleImage \/ OpenOverlay \/ CloseOverlay \/ OpenDrafts
           \/ CloseDrafts \/ RemoveImage \/ RemoveLocation
           \/ \E t \in Texts \cup {None} : ChangeText(t)
    PROVE  TypeInv'
<1>1. CASE Leave \/ HandleImage
  BY <1>1, Unpacked DEF Leave, HandleImage, storage, history, TypeInv, StorageOK,
     QueueOK, ViewOK, ChitsOK, PostOK, RestOK
<1>2. CASE OpenOverlay \/ CloseOverlay
  <2>1. \A b \in BOOLEAN : [state EXCEPT !.isVisible = b] \in StateT
    BY Unpacked DEF StateT
  <2> QED BY <1>2, <2>1, SetStateTyped DEF OpenOverlay, CloseOverlay
<1>3. CASE OpenDrafts \/ CloseDrafts
  <2>1. \A b \in BOOLEAN : [state EXCEPT !.showDraft = b] \in StateT
    BY Unpacked DEF StateT
  <2> QED BY <1>3, <2>1, SetStateTyped DEF OpenDrafts, CloseDrafts
<1>4. CASE RemoveImage
  <2>1. [state EXCEPT !.image = None] \in StateT
    BY Unpacked DEF StateT
  <2> QED BY <1>4, <2>1, SetStateTyped DEF RemoveImage
<1>5. CASE RemoveLocation
  <2>1. [state EXCEPT !.location = None] \in StateT
    BY Unpacked DEF StateT
  <2> QED BY <1>5, <2>1, Unpacked DEF RemoveLocation, storage, view, TypeInv,
          StorageOK, QueueOK, ViewOK, ChitsOK, PostOK, RestOK
<1>6. CASE \E t \in Texts \cup {None} : ChangeText(t)
  <2>1. \A t \in Texts \cup {None} : [state EXCEPT !.text = t] \in StateT
    BY Unpacked DEF StateT
  <2> QED BY <1>6, <2>1, SetStateTyped DEF ChangeText
<1> QED
  BY <1>1, <1>2, <1>3, <1>4, <1>5, <1>6

\* The calls that are made have the types of calls.
LEMMA CallsTyped ==
    /\ Call("getAuth", None, {}) \in CallT /\ Call("getDraft", None, {}) \in CallT
    /\ \A list \in DraftLists : Call("setDraft", None, list) \in CallT
    /\ \A id \in Ids : Call("setAuth", id, {}) \in CallT
  BY DEF Call, CallT, Ids, DraftLists

\* What Save and Delete write, and its histories.
LEMMA WriteTyped ==
    ASSUME TypeInv, NEW list \in DraftLists
    PROVE  /\ WriteDrafts(list) \in CallT
           /\ WriteDrafts(list).op = "setDraft" /\ WriteDrafts(list).list = list
           /\ \/ WriteDrafts(list).keeps = {}
              \/ /\ state.draft # None /\ ~Filing
                 /\ WriteDrafts(list).keeps = {listOf}
                 /\ WriteDrafts(list).out = picked
<1> DEFINE c == Call("setDraft", None, list)
<1>1. c \in CallT /\ c.op = "setDraft" /\ c.list = list /\ c.keeps = {}
  BY CallsTyped DEF Call
<1>2. listOf \in Ids /\ picked \in SUBSET (Texts \cup {None})
  BY Unpacked DEF RestOK
<1>3. \/ WriteDrafts(list) = c
      \/ /\ state.draft # None /\ ~Filing
         /\ WriteDrafts(list) = [c EXCEPT !.keeps = {listOf}, !.out = picked]
  BY DEF WriteDrafts
<1> HIDE DEF c
<1>4. /\ [c EXCEPT !.keeps = {listOf}, !.out = picked] \in CallT
      /\ [c EXCEPT !.keeps = {listOf}, !.out = picked].op = c.op
      /\ [c EXCEPT !.keeps = {listOf}, !.out = picked].list = c.list
      /\ [c EXCEPT !.keeps = {listOf}, !.out = picked].keeps = {listOf}
      /\ [c EXCEPT !.keeps = {listOf}, !.out = picked].out = picked
  BY <1>1, <1>2 DEF CallT
<1> QED
  BY <1>1, <1>3, <1>4

LEMMA TempListTyped ==
    ASSUME TypeInv
    PROVE  /\ TempList \in DraftLists
           /\ [id |-> state.auth, msg |-> state.text] \in Drafts
  BY StateTyped DEF TempList, DraftLists, Drafts, Ids

LEMMA CallingSteps ==
    ASSUME TypeInv,
           \/ OpenCreate \/ DidFocus \/ Delete \/ Save
           \/ \E id \in Ids : ChangeAuth(id)
    PROVE  TypeInv'
<1> USE Unpacked DEF view, history, TypeInv, StorageOK, ViewOK, ChitsOK, PostOK,
    RestOK
<1>1. CASE OpenCreate
  <2>1. CASE mounted
    BY <1>1, <2>1 DEF OpenCreate, QueueOK
  <2>2. CASE ~mounted
    <3>1. QueueOK'
      BY <1>1, <2>2, EnqueueOK, CallsTyped DEF OpenCreate
    <3> QED BY <1>1, <3>1 DEF OpenCreate
  <2> QED BY <2>1, <2>2
<1>2. CASE DidFocus
  <2>1. QueueOK'
    BY <1>2, EnqueueOK, CallsTyped DEF DidFocus
  <2> QED BY <1>2, <2>1 DEF DidFocus
<1>3. CASE Delete
  <2>1. QueueOK'
    BY <1>3, EnqueueOK, WriteTyped, TempListTyped DEF Delete
  <2> QED BY <1>3, <2>1 DEF Delete
<1>4. CASE Save
  <2> DEFINE item == [id |-> state.auth, msg |-> state.text]
  <2>1. item \in Drafts /\ TempList \cup {item} \in DraftLists
    BY TempListTyped DEF DraftLists
  <2> HIDE DEF item
  <2>2. QueueOK'
    BY <1>4, <2>1, EnqueueOK, WriteTyped DEF Save, item
  <2>3. state' \in StateT
    <3>1. state' = [state EXCEPT !.draft =
                        IF @ # None THEN @ \cup {item} ELSE @]
      BY <1>4 DEF Save, item
    <3>2. (IF state.draft # None THEN state.draft \cup {item} ELSE state.draft)
              \in DraftLists \cup {None}
      BY <2>1, StateTyped DEF DraftLists
    <3> QED BY <3>1, <3>2 DEF StateT
  <2> QED BY <1>4, <2>2, <2>3 DEF Save
<1>5. ASSUME NEW id \in Ids, ChangeAuth(id)
      PROVE  TypeInv'
  <2>1. QueueOK'
    BY <1>5, EnqueueOK, CallsTyped DEF ChangeAuth
  <2> QED BY <1>5, <2>1 DEF ChangeAuth
<1> QED
  BY <1>1, <1>2, <1>3, <1>4, <1>5

LEMMA ResetTyped ==
    ASSUME TypeInv, ResetInOverlay
    PROVE  /\ state' \in StateT /\ screen' = "Home" /\ focusing' = FALSE
           /\ position' \in [Positions -> PositionT] /\ listOf' \in Ids
           /\ picked' = {} /\ late' = FALSE
<1>1. state' \in StateT
  BY Unpacked DEF ResetInOverlay, StateT
<1> QED
  BY <1>1, MovedTyped DEF ResetInOverlay, Ids

LEMMA DraftsOfTyped ==
    ASSUME NEW list \in DraftLists, NEW id
    PROVE  DraftsOf(list, id) \in DraftLists
  BY DEF DraftsOf, DraftLists

LEMMA StorageSteps ==
    ASSUME TypeInv, StorageNext \/ StorageFails
    PROVE  TypeInv'
<1> USE Unpacked DEF view, history, TypeInv, StorageOK, ViewOK, ChitsOK, PostOK,
    RestOK
<1>1. CASE GetAuth
  <2>1. QueueOK'
    BY <1>1, RequeueOK, CallsTyped DEF GetAuth
  <2>2. state' \in StateT
    BY <1>1 DEF GetAuth, StateT
  <2>3. post' \in [Posts -> PostT]
    BY <1>1, DisturbedTyped DEF GetAuth
  <2> QED BY <1>1, <2>1, <2>2, <2>3 DEF GetAuth
<1>2. CASE GetDraft
  <2>1. QueueOK'
    BY <1>2, DequeueOK DEF GetDraft
  <2>2. state' \in StateT
    BY <1>2, DraftsOfTyped DEF GetDraft, StateT
  <2> QED BY <1>2, <2>1, <2>2, StateTyped DEF GetDraft
<1>3. CASE SetAuth
  <2>1. QueueOK'
    BY <1>3, DequeueOK DEF SetAuth
  <2>2. storedAuth' \in Ids
    BY <1>3, TailOK DEF SetAuth, CallT
  <2> QED BY <1>3, <2>1, <2>2 DEF SetAuth
<1>4. CASE SetDraft
  <2>1. QueueOK'
    BY <1>4, DequeueOK DEF SetDraft
  <2>2. storedDraft' \in DraftLists
    BY <1>4, TailOK DEF SetDraft, CallT
  <2> QED BY <1>4, <2>1, <2>2, ResetTyped DEF SetDraft
<1>5. CASE StorageFails
  <2>1. QueueOK'
    <3>1. CASE Head(queue).op = "getAuth"
      BY <1>5, <3>1, RequeueOK, CallsTyped DEF StorageFails
    <3>2. CASE Head(queue).op # "getAuth"
      BY <1>5, <3>2, DequeueOK DEF StorageFails
    <3> QED BY <3>1, <3>2
  <2>2. /\ state' \in StateT /\ ViewOK'
        /\ position' \in [Positions -> PositionT] /\ listOf' \in Ids
        /\ picked' \subseteq Texts \cup {None} /\ late' \in BOOLEAN
    BY <1>5, ResetTyped DEF StorageFails
  <2> QED BY <1>5, <2>1, <2>2 DEF StorageFails
<1> QED
  BY <1>1, <1>2, <1>3, <1>4, <1>5 DEF StorageNext

LEMMA HandOverSteps ==
    ASSUME TypeInv,
           \/ \E t \in Texts \cup {None} : HandleDraft(t)
           \/ \E i \in Images : ReceivedImage(i)
    PROVE  TypeInv'
<1> USE Unpacked DEF storage, view, history, TypeInv, StorageOK, QueueOK, ViewOK,
    ChitsOK, PostOK, RestOK
<1>1. ASSUME NEW t \in Texts \cup {None}, HandleDraft(t)
      PROVE  TypeInv'
  <2>1. {d \in state.draft : d.msg # t} \in DraftLists
    BY <1>1, StateTyped DEF HandleDraft, DraftLists
  <2>2. state' \in StateT
    BY <1>1, <2>1 DEF HandleDraft, StateT
  <2> QED BY <1>1, <2>2 DEF HandleDraft
<1>2. ASSUME NEW i \in Images, ReceivedImage(i)
      PROVE  TypeInv'
  <2>1. state' \in StateT
    BY <1>2 DEF ReceivedImage, StateT
  <2>2. post' \in [Posts -> PostT]
    BY <1>2, DisturbedTyped DEF ReceivedImage
  <2> QED BY <1>2, <2>1, <2>2 DEF ReceivedImage
<1> QED
  BY <1>1, <1>2

LEMMA LocationSteps ==
    ASSUME TypeInv, NEW l \in Positions, HandleLocation(l) \/ PositionNext(l)
    PROVE  TypeInv'
<1> USE Unpacked DEF storage, view, history, TypeInv, StorageOK, QueueOK, ViewOK,
    ChitsOK, PostOK, RestOK
<1>1. CASE HandleLocation(l)
  BY <1>1 DEF HandleLocation, PositionT
<1>2. ASSUME NEW c \in Places, GotPosition(l, c)
      PROVE  TypeInv'
  <2>1. state' \in StateT
    BY <1>2 DEF GotPosition, StateT
  <2>2. [st |-> "geocode", coords |-> c, moved |-> FALSE] \in PositionT
    BY DEF PositionT
  <2>3. position' \in [Positions -> PositionT]
    BY <1>2, <2>2, MovedTyped DEF GotPosition
  <2> QED BY <1>2, <2>1, <2>3 DEF GotPosition
<1>3. CASE GotAddress(l)
  <2>1. state' \in StateT
    BY <1>3 DEF GotAddress, StateT, PositionT
  <2> QED BY <1>3, <2>1 DEF GotAddress, PositionT, IdlePosition
<1>4. CASE LocationFails(l)
  BY <1>4 DEF LocationFails, PositionT, IdlePosition
<1> QED
  BY <1>1, <1>2, <1>3, <1>4 DEF PositionNext

\* A step of a posting chain that leaves everything else alone.
LEMMA OnlyPostTyped ==
    ASSUME TypeInv, NEW p \in Posts, NEW r \in PostT, OnlyPost(p, r)
    PROVE  TypeInv'
  BY Unpacked DEF OnlyPost, storage, view, history, TypeInv, StorageOK, QueueOK,
     ViewOK, ChitsOK, PostOK, RestOK

LEMMA PostTyped ==
    ASSUME TypeInv, NEW p \in Posts
    PROVE  /\ post[p] \in PostT /\ post[p].user \in Ids
           /\ post[p].chit \in 0..MaxChits /\ IdlePost \in PostT
           /\ \A st \in {"sent", "created", "refused", "lookup", "found", "photo",
                         "attached"} : [post[p] EXCEPT !.st = st] \in PostT
  BY Unpacked, Bounds DEF PostOK, PostT, IdlePost, Ids

LEMMA PostFields ==
    ASSUME TypeInv, NEW p \in Posts
    PROVE  /\ post[p] \in PostT
           /\ post[p].st \in {"idle", "sent", "created", "refused", "lookup",
                              "found", "photo", "attached"}
           /\ post[p].user \in Ids /\ post[p].text \in Texts \cup {None}
           /\ post[p].image \in Images \cup {None}
           /\ post[p].chit \in 0..MaxChits /\ post[p].alone \in BOOLEAN
<1>1. post[p] \in PostT
  BY Unpacked DEF PostOK
<1> QED
  BY <1>1 DEF PostT

LEMMA FoundTyped ==
    ASSUME NEW r \in PostT, NEW c \in 0..MaxChits
    PROVE  [r EXCEPT !.st = "found", !.chit = c] \in PostT
  BY DEF PostT

LEMMA UploadTyped ==
    ASSUME NEW r \in PostT, NEW user \in Ids, NEW c \in 0..MaxChits,
           NEW image \in Images \cup {None}, NEW b \in BOOLEAN
    PROVE  [r EXCEPT !.st = "photo", !.user = user, !.chit = c,
                     !.image = image, !.alone = b] \in PostT
  BY DEF PostT

LEMMA IdleTyped == IdlePost \in PostT
  BY Bounds DEF PostT, IdlePost, Ids

LEMMA LookupTyped ==
    ASSUME NEW user \in Ids, NEW image \in Images \cup {None}, NEW b \in BOOLEAN
    PROVE  [IdlePost EXCEPT !.st = "lookup", !.user = user, !.image = image,
                            !.alone = b] \in PostT
  BY IdleTyped DEF PostT

LEMMA AttachedTyped == [IdlePost EXCEPT !.st = "attached"] \in PostT
  BY IdleTyped DEF PostT

\* The server's list of chits grows by one chit, or gets a photo.
LEMMA ChitCreated ==
    ASSUME ChitsOK, NEW c \in ChitT, Len(chits) < MaxChits,
           chits' = Append(chits, c)
    PROVE  ChitsOK'
  BY Appended, Bounds DEF ChitsOK

LEMMA PhotoAttached ==
    ASSUME ChitsOK, NEW n \in 0..MaxChits, NEW i \in Images, NEW b \in BOOLEAN,
           chits' = [chits EXCEPT ![n].photo = i, ![n].astray = b]
    PROVE  ChitsOK'
<1>1. CASE n \in 1..Len(chits)
  <2>1. chits[n] \in ChitT
    BY <1>1 DEF ChitsOK
  <2>2. [chits[n] EXCEPT !.photo = i, !.astray = b] \in ChitT
    BY <2>1 DEF ChitT
  <2>3. chits' = [chits EXCEPT ![n] = [chits[n] EXCEPT !.photo = i, !.astray = b]]
    BY <1>1 DEF ChitsOK
  <2>4. chits' \in Seq(ChitT) /\ Len(chits') = Len(chits)
    BY <1>1, <2>2, <2>3 DEF ChitsOK
  <2> QED BY <2>4 DEF ChitsOK
<1>2. CASE n \notin 1..Len(chits)
  <2>1. chits' = chits
    BY <1>2 DEF ChitsOK
  <2> QED BY <2>1 DEF ChitsOK
<1> QED
  BY <1>1, <1>2

LEMMA PostingSteps ==
    ASSUME TypeInv, NEW p \in Posts,
           \/ PostChit(p) \/ PostNext(p)
           \/ PostFails(p) \/ GetChitIdFails(p) \/ PostPhotoFails(p)
    PROVE  TypeInv'
<1> USE DEF storage, view, history, TypeInv, StorageOK, QueueOK, ViewOK, PostOK,
    RestOK
<1>1. CASE PostChit(p)
  <2> DEFINE a == ~\E q \in Posts : Active(q)
             n == [st |-> "sent", user |-> state.auth, text |-> state.text,
                   coords |-> state.coords, image |-> state.image, chit |-> 0,
                   alone |-> a]
  <2>1. a \in BOOLEAN
    OBVIOUS
  <2> HIDE DEF a
  <2>2. n \in PostT
    BY <2>1, StateTyped, Bounds DEF PostT
  <2> HIDE DEF n
  <2>3. post' = [(IF a THEN post ELSE Disturbed) EXCEPT ![p] = n]
    BY <1>1 DEF PostChit, n, a
  <2>4. post' \in [Posts -> PostT]
    BY <2>2, <2>3, DisturbedTyped, Unpacked
  <2> QED BY <1>1, <2>4 DEF PostChit, ChitsOK
<1>2. CASE ServerCreates(p)
  <2> DEFINE c == [author |-> post[p].user, text |-> post[p].text,
                   coords |-> post[p].coords, photo |-> None,
                   attached |-> post[p].image,
                   gone |-> taken \ {state.image}, astray |-> FALSE]
  <2>1. c \in ChitT
    BY <1>2, PostTyped DEF ServerCreates, PostT, ChitT, Ids
  <2>2. chits' = Append(chits, c) /\ Len(chits) < MaxChits
    BY <1>2 DEF ServerCreates
  <2> HIDE DEF c
  <2>3. ChitsOK'
    BY <2>1, <2>2, ChitCreated, Unpacked
  <2>4. post' \in [Posts -> PostT]
    BY <1>2, PostTyped, Unpacked DEF ServerCreates
  <2> QED BY <1>2, <2>3, <2>4 DEF ServerCreates
<1>3. CASE ServerRefuses(p)
  BY <1>3, PostTyped, OnlyPostTyped DEF ServerRefuses
<1>4. CASE Posted(p)
  <2>1. state' \in StateT
    BY <1>4, Unpacked DEF Posted, StateT
  <2> DEFINE i == post[p].image
             b == post[p].alone
             n == [IdlePost EXCEPT !.st = "lookup", !.user = state.auth,
                                   !.image = i, !.alone = b]
  <2>2. i \in Images \cup {None} /\ b \in BOOLEAN
    BY PostFields
  <2>3. post' = [post EXCEPT ![p] = IF state.image # None THEN n ELSE IdlePost]
    BY <1>4 DEF Posted
  <2> HIDE DEF i, b
  <2>4. n \in PostT
    <3>1. state.auth \in Ids
      BY StateTyped
    <3> QED BY <2>2, <3>1, LookupTyped
  <2> HIDE DEF n
  <2>5. post' \in [Posts -> PostT]
    BY <2>3, <2>4, PostTyped, Unpacked
  <2>6. position' \in [Positions -> PositionT] /\ late' = FALSE
    BY <1>4, MovedTyped DEF Posted
  <2> QED BY <1>4, <2>1, <2>5, <2>6 DEF Posted, ChitsOK
<1>5. CASE PostRefused(p)
  BY <1>5, PostTyped, OnlyPostTyped DEF PostRefused
<1>6. CASE ServerLooksUp(p)
  <2>1. \A c \in 0..MaxChits : [post[p] EXCEPT !.st = "found", !.chit = c] \in PostT
    BY PostFields, FoundTyped
  <2>2. PICK c \in {d \in 1..Len(chits) : chits[d].author = post[p].user} \cup {0} :
            OnlyPost(p, [post[p] EXCEPT !.st = "found", !.chit = c])
    BY <1>6 DEF ServerLooksUp
  <2>3. c \in 0..MaxChits
    BY Unpacked, Bounds DEF ChitsOK
  <2> QED BY <2>1, <2>2, <2>3, OnlyPostTyped
<1>7. ASSUME NEW id \in 0..MaxChits, UploadPhoto(p, id), failed' \in BOOLEAN
      PROVE  TypeInv'
  <2> DEFINE chitId == IF id # 0 THEN id ELSE state.chitId
             b == post[p].alone /\ id # 0
  <2>1. chitId \in 0..MaxChits
    BY StateTyped
  <2>2. /\ state' = [state EXCEPT !.chitId = chitId]
        /\ post' = [post EXCEPT ![p] = [@ EXCEPT !.st = "photo",
                        !.user = state.auth, !.chit = chitId,
                        !.image = state.image, !.alone = b]]
        /\ b \in BOOLEAN
    <3>1. post' = [post EXCEPT ![p] = [post[p] EXCEPT !.st = "photo",
                        !.user = state.auth, !.chit = chitId,
                        !.image = state.image, !.alone = post[p].alone /\ id # 0]]
      BY <1>7 DEF UploadPhoto
    <3> QED BY <1>7, <3>1 DEF UploadPhoto
  <2> HIDE DEF chitId, b
  <2>3. state' \in StateT
    BY <2>1, <2>2, Unpacked DEF StateT
  <2>4. [post[p] EXCEPT !.st = "photo", !.user = state.auth, !.chit = chitId,
                        !.image = state.image, !.alone = b] \in PostT
    <3>1. post[p] \in PostT /\ state.auth \in Ids /\ state.image \in Images \cup {None}
      BY PostTyped, StateTyped
    <3> QED BY <2>1, <2>2, <3>1, UploadTyped
  <2>5. post' \in [Posts -> PostT]
    BY <2>2, <2>4, Unpacked
  <2> QED BY <1>7, <2>3, <2>5 DEF UploadPhoto, ChitsOK
<1>8. CASE GetChitId(p)
  BY <1>8, <1>7, PostTyped DEF GetChitId
<1>9. CASE GetChitIdFails(p)
  BY <1>9, <1>7, Bounds DEF GetChitIdFails
<1>10. CASE ServerAttaches(p)
  <2>1. ChitsOK'
    <3>1. CASE chits' = chits
      BY <3>1 DEF ChitsOK
    <3>2. CASE chits' # chits
      <4>1. post[p].image \in Images
        BY <1>10, <3>2, PostTyped DEF ServerAttaches, PostT
      <4>2. chits' = [chits EXCEPT ![post[p].chit].photo = post[p].image,
                                   ![post[p].chit].astray = ~post[p].alone]
        BY <1>10, <3>2 DEF ServerAttaches
      <4> QED BY <4>1, <4>2, PostTyped, PhotoAttached
    <3> QED BY <3>1, <3>2
  <2>2. post' \in [Posts -> PostT]
    BY <1>10, AttachedTyped, Unpacked DEF ServerAttaches
  <2> QED BY <1>10, <2>1, <2>2 DEF ServerAttaches
<1>11. CASE PostPhoto(p)
  <2>1. state' \in StateT
    BY <1>11, Unpacked DEF PostPhoto, StateT
  <2>2. post' \in [Posts -> PostT]
    BY <1>11, PostTyped, Unpacked DEF PostPhoto
  <2> QED BY <1>11, <2>1, <2>2 DEF PostPhoto, ChitsOK
<1>12. CASE PostFails(p) \/ PostPhotoFails(p)
  <2>1. Lost(p)
    BY <1>12 DEF PostFails, PostPhotoFails
  <2>2. post' \in [Posts -> PostT]
    BY <2>1, PostTyped, Unpacked DEF Lost
  <2> QED BY <2>1, <2>2 DEF Lost, ChitsOK
<1> QED
  BY <1>1, <1>2, <1>3, <1>4, <1>5, <1>6, <1>8, <1>9, <1>10, <1>11, <1>12
  DEF PostNext

LEMMA TypeStep == TypeInv /\ [Next]_vars => TypeInv'
<1> SUFFICES ASSUME TypeInv, [Next]_vars PROVE TypeInv'
  OBVIOUS
<1>1. CASE UserNext
  BY <1>1, ScreenSteps, CallingSteps, HandOverSteps, LocationSteps, PostingSteps
  DEF UserNext
<1>2. CASE DidFocus
  BY <1>2, CallingSteps
<1>3. CASE StorageNext
  BY <1>3, StorageSteps
<1>4. CASE \E p \in Posts : PostNext(p)
  BY <1>4, PostingSteps
<1>5. CASE \E l \in Positions : PositionNext(l)
  BY <1>5, LocationSteps
<1>6. CASE Failures
  BY <1>6, StorageSteps, PostingSteps DEF Failures
<1>7. CASE UNCHANGED vars
  BY <1>7, Unpacked DEF vars, storage, view, history, TypeInv, StorageOK, QueueOK,
     ViewOK, ChitsOK, PostOK, RestOK
<1> QED
  BY <1>1, <1>2, <1>3, <1>4, <1>5, <1>6, <1>7 DEF Next

LEMMA TypeInvariant == Spec => []TypeInv
  BY InitTypeInv, TypeStep, PTL DEF Spec

\* The composer's state, the stored values, the calls and chains under way and
\* the server's chits keep their types (PostChit.js).
THEOREM TypeCorrect == Spec => []TypeOK
  BY TypeInvariant, TypeInvOK, PTL

-----------------------------------------------------------------------------
(***************************************************************************)
(* The drafts shown are the current account's.  A load under way excuses   *)
(* the list; it is never forgotten before it has answered.                 *)
(***************************************************************************)
Loading == \E i \in 1..Len(queue) : queue[i].op = "getDraft"

\* Calls are added behind a load, and others leave in front of it.
LEMMA LoadStays ==
    ASSUME QueueOK, Loading,
           \/ \E c \in CallT : Enqueue(c)
           \/ queue # <<>> /\ Head(queue).op # "getDraft" /\ queue' = Tail(queue)
    PROVE  Loading'
<1>1. PICK i \in 1..Len(queue) : queue[i].op = "getDraft"
  BY DEF Loading
<1>2. ASSUME NEW c \in CallT, Enqueue(c)
      PROVE  Loading'
  <2>1. queue' = Append(queue, c)
    BY <1>2 DEF Enqueue
  <2>2. i \in 1..Len(queue') /\ queue'[i] = queue[i]
    BY <1>1, <2>1, Appended DEF QueueOK
  <2> QED BY <1>1, <2>2 DEF Loading
<1>3. CASE queue # <<>> /\ Head(queue).op # "getDraft" /\ queue' = Tail(queue)
  <2>1. i # 1
    BY <1>1, <1>3, TailOK
  <2>2. i - 1 \in 1..Len(queue') /\ queue'[i - 1] = queue[i]
    BY <1>3, <2>1, TailOK
  <2> QED BY <1>1, <2>2 DEF Loading
<1> QED
  BY <1>2, <1>3

\* What leaves the list, the key and the calls alone leaves the claim alone.
LEMMA MineUntouched ==
    ASSUME DraftsAreMine, state'.draft = state.draft, state'.auth = state.auth,
           failed' = failed, Loading => Loading'
    PROVE  DraftsAreMine'
  BY DEF DraftsAreMine, Loading

LEMMA MineStep == TypeInv /\ DraftsAreMine /\ [Next]_vars => DraftsAreMine'
<1> SUFFICES ASSUME TypeInv, DraftsAreMine, [Next]_vars PROVE DraftsAreMine'
  OBVIOUS
<1> USE DEF storage, view, history
<1>1. CASE OpenCreate \/ DidFocus \/ Delete \/ \E id \in Ids : ChangeAuth(id)
  <2>1. /\ state' = state /\ failed' = failed
        /\ queue' = queue \/ \E c \in CallT : Enqueue(c)
    BY <1>1, CallsTyped, WriteTyped, TempListTyped DEF OpenCreate, DidFocus, Delete,
       ChangeAuth
  <2>2. Loading => Loading'
    BY <2>1, LoadStays, Unpacked DEF Loading
  <2> QED BY <2>1, <2>2, MineUntouched
<1>2. CASE Save
  <2> DEFINE item == [id |-> state.auth, msg |-> state.text]
  <2>1. TempList \cup {item} \in DraftLists
    BY TempListTyped DEF DraftLists
  <2>2. \E c \in CallT : Enqueue(c)
    BY <1>2, <2>1, WriteTyped DEF Save
  <2>3. Loading => Loading'
    BY <2>2, LoadStays, Unpacked
  <2>4. /\ state'.auth = state.auth
        /\ state'.draft = IF state.draft # None THEN state.draft \cup {item}
                                                ELSE state.draft
        /\ failed' = failed
    BY <1>2, Unpacked DEF Save, StateT
  <2>5. item.id = state.auth
    OBVIOUS
  <2> HIDE DEF item
  <2> QED BY <2>3, <2>4, <2>5 DEF DraftsAreMine, Loading
<1>3. CASE GetAuth
  <2>1. Len(queue) \in Nat /\ Len(queue) > 0
        /\ Tail(queue) \in Seq(CallT) /\ Len(Tail(queue)) = Len(queue) - 1
    BY <1>3, TailOK, Unpacked DEF GetAuth
  <2>2. /\ Len(queue) \in 1..Len(queue')
        /\ queue'[Len(queue)] = Call("getDraft", None, {})
    <3> DEFINE t == Tail(queue)
               c == Call("getDraft", None, {})
    <3>1. t \in Seq(CallT) /\ c \in CallT /\ queue' = Append(t, c)
      BY <1>3, <2>1, CallsTyped DEF GetAuth
    <3>2. Len(t) + 1 = Len(queue)
      BY <2>1
    <3> HIDE DEF t, c
    <3>3. Len(queue') = Len(t) + 1 /\ queue'[Len(t) + 1] = c /\ Len(t) \in Nat
      BY <3>1, Appended
    <3> QED BY <3>2, <3>3 DEF c
  <2>3. Loading'
    BY <2>2 DEF Loading, Call
  <2> QED BY <2>3 DEF DraftsAreMine, Loading
<1>4. CASE GetDraft
  <2>1. state'.draft = DraftsOf(storedDraft, state.auth) /\ state'.auth = state.auth
    BY <1>4, Unpacked DEF GetDraft, StateT
  <2> QED BY <2>1 DEF DraftsAreMine, DraftsOf
<1>5. CASE SetAuth
  <2>1. Loading => Loading'
    BY <1>5, LoadStays, Unpacked DEF SetAuth
  <2> QED BY <1>5, <2>1, MineUntouched DEF SetAuth
<1>6. CASE SetDraft
  <2>1. state'.draft = None
    BY <1>6, Unpacked DEF SetDraft, ResetInOverlay, StateT
  <2> QED BY <2>1 DEF DraftsAreMine
<1>7. ASSUME NEW t \in Texts \cup {None}, HandleDraft(t)
      PROVE  DraftsAreMine'
  <2>1. /\ state.draft # None /\ state'.draft = {d \in state.draft : d.msg # t}
        /\ state'.auth = state.auth /\ queue' = queue /\ failed' = failed
    BY <1>7, Unpacked DEF HandleDraft, StateT
  <2> QED BY <2>1 DEF DraftsAreMine
<1>8. CASE Failures
  BY <1>8 DEF Failures, StorageFails, PostFails, GetChitIdFails, PostPhotoFails,
     Lost, DraftsAreMine
<1>9. ASSUME /\ queue' = queue /\ failed' = failed
             /\ state'.draft = state.draft /\ state'.auth = state.auth
      PROVE  DraftsAreMine'
  BY <1>9, MineUntouched DEF Loading
<1>10. CASE \/ Leave \/ HandleImage \/ OpenOverlay \/ CloseOverlay \/ OpenDrafts
            \/ CloseDrafts \/ RemoveImage \/ RemoveLocation
            \/ (\E t \in Texts \cup {None} : ChangeText(t))
            \/ (\E i \in Images : ReceivedImage(i))
  BY <1>10, <1>9, Unpacked DEF Leave, HandleImage, OpenOverlay, CloseOverlay,
     OpenDrafts, CloseDrafts, RemoveImage, RemoveLocation, ChangeText,
     ReceivedImage, SetState, StateT
<1>11. ASSUME NEW l \in Positions, HandleLocation(l) \/ PositionNext(l)
       PROVE  DraftsAreMine'
  BY <1>11, <1>9, Unpacked DEF HandleLocation, PositionNext, GotPosition,
     GotAddress, LocationFails, StateT
<1>12. ASSUME NEW p \in Posts, PostChit(p) \/ PostNext(p)
       PROVE  DraftsAreMine'
  BY <1>12, <1>9, Unpacked DEF PostChit, PostNext, ServerCreates, ServerRefuses,
     Posted, PostRefused, ServerLooksUp, GetChitId, UploadPhoto, ServerAttaches,
     PostPhoto, OnlyPost, StateT
<1>13. CASE UNCHANGED vars
  BY <1>13, <1>9 DEF vars
<1> QED
  BY <1>1, <1>2, <1>3, <1>4, <1>5, <1>6, <1>7, <1>8, <1>10, <1>11, <1>12, <1>13
  DEF Next, UserNext, StorageNext

\* For any number of accounts and of overlapping loads, keys that change between
\* the two halves of a load, and logouts: the list of drafts on the screen is
\* the current account's until a call fails (PostChit.js getUser).
THEOREM DraftsShownAreMine == Spec => []DraftsAreMine
<1>1. Init => DraftsAreMine
  BY DEF Init, DraftsAreMine
<1> QED
  BY <1>1, TypeInvariant, MineStep, PTL DEF Spec


-----------------------------------------------------------------------------
(***************************************************************************)
(* The location chip.  An address that is still on its way for a position  *)
(* that was not given up is the one of the composer's coordinates; that is *)
(* what makes the chip right when the address arrives.                     *)
(***************************************************************************)
AddressToCome ==
    \A l \in Positions : position[l].st = "geocode" /\ ~position[l].moved
                            => position[l].coords = state.coords

ChipInv == AddressToCome /\ ChipFitsCoords

LEMMA ChipUntouched ==
    ASSUME ChipInv, position' = position, late' = late,
           state'.coords = state.coords, state'.location = state.location
    PROVE  ChipInv'
  BY DEF ChipInv, AddressToCome, ChipFitsCoords

\* A posted chit, Save and Delete clear chip and coordinates.
LEMMA ChipCleared ==
    ASSUME TypeInv, position' = Moved, state'.location = None
    PROVE  ChipInv'
<1>1. \A l \in Positions : position[l].st = "geocode" => position'[l].moved
  BY MovedTyped
<1>2. \A l \in Positions : position'[l].st = position[l].st
  BY MovedTyped
<1>3. AddressToCome'
  BY <1>1, <1>2 DEF AddressToCome
<1>4. ChipFitsCoords'
  BY DEF ChipFitsCoords
<1> QED
  BY <1>3, <1>4 DEF ChipInv

LEMMA ChipLocation ==
    ASSUME TypeInv, ChipInv, NEW l \in Positions,
           HandleLocation(l) \/ PositionNext(l)
    PROVE  ChipInv'
<1>1. position \in [Positions -> PositionT] /\ state \in StateT
  BY Unpacked DEF RestOK
<1>2. CASE HandleLocation(l)
  <2>1. /\ position[l].st = "idle" /\ state' = state /\ late' = late
        /\ position' = [position EXCEPT ![l].st = "position"]
    BY <1>2 DEF HandleLocation, history
  <2>2. /\ \A m \in Positions : m # l => position'[m] = position[m]
        /\ position'[l].st = "position"
    BY <1>1, <2>1 DEF PositionT
  <2> QED BY <2>1, <2>2 DEF ChipInv, AddressToCome, ChipFitsCoords
<1>3. ASSUME NEW c \in Places, GotPosition(l, c)
      PROVE  ChipInv'
  <2> DEFINE new == [st |-> "geocode", coords |-> c, moved |-> FALSE]
  <2>1. position' = [Moved EXCEPT ![l] = new] /\ state' = [state EXCEPT !.coords = c]
    BY <1>3 DEF GotPosition
  <2>2. new.st = "geocode" /\ new.coords = c
    OBVIOUS
  <2> HIDE DEF new
  <2>3. /\ position'[l] = new
        /\ \A m \in Positions : m # l => position'[m] = Moved[m]
    BY <2>1, MovedTyped
  <2>4. state'.coords = c
    BY <1>1, <2>1 DEF StateT
  <2>5. \A m \in Positions : m # l /\ position'[m].st = "geocode"
                                => position'[m].moved
    BY <2>3, MovedTyped
  <2>6. AddressToCome'
    BY <2>2, <2>3, <2>4, <2>5 DEF AddressToCome
  <2>7. ChipFitsCoords'
    BY <2>2, <2>3 DEF ChipFitsCoords
  <2> QED BY <2>6, <2>7 DEF ChipInv
<1>4. CASE GotAddress(l)
  <2>1. /\ position[l].st = "geocode" /\ late' = position[l].moved
        /\ position' = [position EXCEPT ![l] = IdlePosition]
    BY <1>4 DEF GotAddress
  <2>2. /\ state'.coords = state.coords
        /\ state'.location = position[l].coords
    BY <1>1, <1>4 DEF GotAddress, StateT
  <2>3. /\ \A m \in Positions : m # l => position'[m] = position[m]
        /\ position'[l].st = "idle"
    BY <1>1, <2>1 DEF IdlePosition
  <2>4. AddressToCome'
    BY <2>2, <2>3 DEF ChipInv, AddressToCome
  <2>5. late' \/ state'.location = state'.coords
    BY <2>1, <2>2 DEF ChipInv, AddressToCome
  <2> QED BY <2>4, <2>5 DEF ChipInv, ChipFitsCoords
<1>5. CASE LocationFails(l)
  <2>1. /\ position' = [position EXCEPT ![l] = IdlePosition] /\ state' = state
        /\ late' = (late \/ position[l].st = "geocode")
    BY <1>5 DEF LocationFails
  <2>2. /\ \A m \in Positions : m # l => position'[m] = position[m]
        /\ position'[l].st = "idle"
    BY <1>1, <2>1 DEF IdlePosition
  <2>3. AddressToCome'
    BY <2>1, <2>2 DEF ChipInv, AddressToCome
  <2>4. ChipFitsCoords'
    BY <2>1, <2>2 DEF ChipInv, ChipFitsCoords
  <2> QED BY <2>3, <2>4 DEF ChipInv
<1> QED
  BY <1>2, <1>3, <1>4, <1>5 DEF PositionNext

LEMMA ChipStep == TypeInv /\ ChipInv /\ [Next]_vars => ChipInv'
<1> SUFFICES ASSUME TypeInv, ChipInv, [Next]_vars PROVE ChipInv'
  OBVIOUS
<1> USE DEF storage, view, history
<1>1. state \in StateT
  BY Unpacked
<1>2. CASE \/ OpenCreate \/ DidFocus \/ Leave \/ HandleImage \/ Delete
           \/ SetAuth \/ \E id \in Ids : ChangeAuth(id)
  BY <1>2, ChipUntouched DEF OpenCreate, DidFocus, Leave, HandleImage, Delete,
     SetAuth, ChangeAuth
<1>3. CASE \/ OpenOverlay \/ CloseOverlay \/ OpenDrafts \/ CloseDrafts \/ RemoveImage
           \/ \E t \in Texts \cup {None} : ChangeText(t)
  BY <1>1, <1>3, ChipUntouched DEF OpenOverlay, CloseOverlay, OpenDrafts,
     CloseDrafts, RemoveImage, ChangeText, SetState, StateT
<1>4. CASE \/ Save \/ GetAuth \/ GetDraft
           \/ \E t \in Texts \cup {None} : HandleDraft(t)
           \/ \E i \in Images : ReceivedImage(i)
  BY <1>1, <1>4, ChipUntouched DEF Save, GetAuth, GetDraft, HandleDraft,
     ReceivedImage, StateT
<1>5. CASE RemoveLocation
  <2>1. /\ state'.location = None /\ state'.coords = state.coords
        /\ position' = position
    BY <1>1, <1>5 DEF RemoveLocation, StateT
  <2> QED BY <2>1 DEF ChipInv, AddressToCome, ChipFitsCoords
<1>6. CASE SetDraft \/ StorageFails
  <2>1. CASE ResetInOverlay
    <3>1. state'.location = None /\ position' = Moved
      BY <1>1, <2>1 DEF ResetInOverlay, StateT
    <3> QED BY <3>1, ChipCleared
  <2>2. CASE ~ResetInOverlay
    BY <1>6, <2>2, ChipUntouched DEF SetDraft, StorageFails
  <2> QED BY <2>1, <2>2
<1>7. ASSUME NEW l \in Positions, HandleLocation(l) \/ PositionNext(l)
      PROVE  ChipInv'
  BY <1>7, ChipLocation
<1>8. ASSUME NEW p \in Posts,
             \/ PostChit(p) \/ ServerCreates(p) \/ ServerRefuses(p)
             \/ PostRefused(p) \/ ServerLooksUp(p) \/ ServerAttaches(p)
             \/ PostFails(p) \/ PostPhotoFails(p)
      PROVE  ChipInv'
  BY <1>8, ChipUntouched DEF PostChit, ServerCreates, ServerRefuses, PostRefused,
     ServerLooksUp, ServerAttaches, PostFails, PostPhotoFails, Lost, OnlyPost
<1>9. ASSUME NEW p \in Posts,
             GetChitId(p) \/ GetChitIdFails(p) \/ PostPhoto(p)
      PROVE  ChipInv'
  BY <1>1, <1>9, ChipUntouched DEF GetChitId, GetChitIdFails, UploadPhoto,
     PostPhoto, StateT
<1>10. ASSUME NEW p \in Posts, Posted(p)
       PROVE  ChipInv'
  <2>1. state'.location = None /\ position' = Moved
    BY <1>1, <1>10 DEF Posted, StateT
  <2> QED BY <2>1, ChipCleared
<1>11. CASE UNCHANGED vars
  BY <1>11, ChipUntouched DEF vars
<1> QED
  BY <1>2, <1>3, <1>4, <1>5, <1>6, <1>7, <1>8, <1>9, <1>10, <1>11
  DEF Next, UserNext, StorageNext, PostNext, Failures

\* For any number of positions, posts, saves and deletes that overlap, logged in
\* or out and with failures: the location under the composer is that of the
\* coordinates the next chit gets, once no address is being looked up, unless
\* the last address came for a position given up by then or was not found
\* (PostChit.js handleLocation, postChit, resetInOverlay).
THEOREM ChipFits == Spec => []ChipFitsCoords
<1>1. Init => ChipInv
  BY DEF Init, IdlePosition, ChipInv, AddressToCome, ChipFitsCoords
<1>2. ChipInv => ChipFitsCoords
  BY DEF ChipInv
<1> QED
  BY <1>1, <1>2, TypeInvariant, ChipStep, PTL DEF Spec
=============================================================================
