--------------------------- MODULE ComposerProofs ---------------------------
(***************************************************************************)
(* Proofs about drafts, texts and photos in the composer, for every set of *)
(* accounts, texts, photos, places and chains and every bound, for a user  *)
(* who never waits, logged in or out, with and without failures: a Save or *)
(* Delete keeps the drafts of the account whose list was loaded, the       *)
(* composer implements Desk, and photos end on their chit, on one only,    *)
(* and stay off a chit they were removed from.                             *)
(***************************************************************************)
EXTENDS PostChitProofs, SequenceTheorems

\* Steps that make no storage call, take none off the queue and leave the list
\* of drafts alone.
Unlisted ==
    \/ Leave
    \/ \E t \in Texts \cup {None} : ChangeText(t)
    \/ OpenOverlay \/ CloseOverlay \/ OpenDrafts \/ CloseDrafts
    \/ HandleImage \/ RemoveImage \/ RemoveLocation
    \/ \E i \in Images : ReceivedImage(i)
    \/ \E l \in Positions : HandleLocation(l) \/ PositionNext(l)
    \/ \E p \in Posts : PostChit(p) \/ PostNext(p)
    \/ \E p \in Posts : PostFails(p) \/ GetChitIdFails(p) \/ PostPhotoFails(p)

LEMMA Steps ==
    ASSUME [Next]_vars
    PROVE  \/ Unlisted
           \/ OpenCreate \/ DidFocus \/ Save \/ Delete
           \/ \E id \in Ids : ChangeAuth(id)
           \/ \E t \in Texts \cup {None} : HandleDraft(t)
           \/ GetAuth \/ GetDraft \/ SetAuth \/ SetDraft \/ StorageFails
           \/ UNCHANGED vars
  BY DEF Next, UserNext, StorageNext, Failures, Unlisted

LEMMA UnlistedSteps ==
    ASSUME TypeInv, Unlisted
    PROVE  /\ state'.draft = state.draft
           /\ UNCHANGED <<queue, storedAuth, storedDraft, listOf, picked>>
<1> USE DEF storage, view, history
<1>1. UNCHANGED <<queue, storedAuth, storedDraft, listOf, picked>>
  BY DEF Unlisted, Leave, ChangeText, OpenOverlay, CloseOverlay, OpenDrafts,
     CloseDrafts, HandleImage, RemoveImage, RemoveLocation, ReceivedImage,
     HandleLocation, PositionNext, GotPosition, GotAddress, LocationFails, PostChit,
     PostNext, ServerCreates, ServerRefuses, Posted, PostRefused, ServerLooksUp,
     GetChitId, ServerAttaches, PostPhoto, PostFails, GetChitIdFails,
     PostPhotoFails, OnlyPost, UploadPhoto, Lost, SetState
<1>2. state'.draft = state.draft
  <2>1. state \in StateT
    BY Unpacked
  <2> QED
    BY <2>1 DEF Unlisted, Leave, ChangeText, OpenOverlay, CloseOverlay, OpenDrafts,
       CloseDrafts, HandleImage, RemoveImage, RemoveLocation, ReceivedImage,
       HandleLocation, PositionNext, GotPosition, GotAddress, LocationFails, PostChit,
       PostNext, ServerCreates, ServerRefuses, Posted, PostRefused, ServerLooksUp,
       GetChitId, ServerAttaches, PostPhoto, PostFails, GetChitIdFails,
       PostPhotoFails, OnlyPost, UploadPhoto, Lost, SetState, StateT
<1> QED
  BY <1>1, <1>2

-----------------------------------------------------------------------------
(***************************************************************************)
(* The queue.  A call that was added is the last one, a call that leaves   *)
(* moves the others up.                                                    *)
(***************************************************************************)
LEMMA Enqueued ==
    ASSUME QueueOK, NEW c \in CallT, queue' = Append(queue, c)
    PROVE  /\ Len(queue) \in Nat /\ Len(queue') = Len(queue) + 1
           /\ \A i \in 1..Len(queue) : i \in 1..Len(queue') /\ queue'[i] = queue[i]
           /\ \A i \in 1..Len(queue') : \/ i \in 1..Len(queue) /\ queue'[i] = queue[i]
                                        \/ i = Len(queue) + 1 /\ queue'[i] = c
<1>1. /\ Len(queue') = Len(queue) + 1 /\ Len(queue) \in Nat
      /\ \A i \in 1..(Len(queue) + 1) :
             queue'[i] = IF i <= Len(queue) THEN queue[i] ELSE c
  BY Appended DEF QueueOK
<1> QED
  BY <1>1

LEMMA Dequeued ==
    ASSUME QueueOK, queue # <<>>, queue' = Tail(queue)
    PROVE  /\ Len(queue) \in Nat /\ 1 \in 1..Len(queue) /\ Head(queue) = queue[1]
           /\ \A i \in 1..Len(queue') :
                  i \in Nat /\ i + 1 \in 1..Len(queue) /\ queue'[i] = queue[i + 1]
           /\ \A i \in 1..Len(queue) :
                  i = 1 \/ (i - 1 \in 1..Len(queue') /\ queue'[i - 1] = queue[i])
  BY TailOK

LEMMA Requeued ==
    ASSUME QueueOK, queue # <<>>, NEW c \in CallT, queue' = Append(Tail(queue), c)
    PROVE  /\ Len(queue) \in Nat /\ 1 \in 1..Len(queue) /\ Head(queue) = queue[1]
           /\ \A i \in 1..Len(queue') : i \in Nat /\
                  (\/ i + 1 \in 1..Len(queue) /\ queue'[i] = queue[i + 1]
                   \/ queue'[i] = c)
           /\ \A i \in 1..Len(queue) :
                  i = 1 \/ (i - 1 \in 1..Len(queue') /\ queue'[i - 1] = queue[i])
<1> DEFINE t == Tail(queue)
<1>1. /\ t \in Seq(CallT)
      /\ Len(t) = Len(queue) - 1 /\ Len(queue) \in Nat /\ Len(queue) > 0
      /\ \A i \in 1..Len(t) : t[i] = queue[i + 1]
      /\ \A i \in 1..Len(queue) : i = 1 \/ (i - 1 \in 1..Len(t)
                                            /\ t[i - 1] = queue[i])
      /\ Head(queue) = queue[1]
  BY TailOK
<1> HIDE DEF t
<1>2. /\ Len(queue') = Len(t) + 1
      /\ \A i \in 1..(Len(t) + 1) :
             queue'[i] = IF i <= Len(t) THEN t[i] ELSE c
  <2>1. queue' = Append(t, c)
    BY DEF t
  <2> QED BY <1>1, <2>1, Appended
<1>3. \A i \in 1..Len(queue') : i \in Nat /\
          (\/ i + 1 \in 1..Len(queue) /\ queue'[i] = queue[i + 1]
           \/ queue'[i] = c)
  BY <1>1, <1>2
<1>4. \A i \in 1..Len(queue) :
          i = 1 \/ (i - 1 \in 1..Len(queue') /\ queue'[i - 1] = queue[i])
  BY <1>1, <1>2
<1> QED
  BY <1>1, <1>3, <1>4

-----------------------------------------------------------------------------
(***************************************************************************)
(* Drafts.  The list on the screen holds every stored draft of the account *)
(* it was loaded for, except the ones taken out (Shown); so does the list  *)
(* of a Save or Delete under way, which is the first one that will be      *)
(* written, so that nothing is stored before it (Written).                 *)
(***************************************************************************)
Shown == state.draft # None =>
             \A d \in storedDraft : d.id = listOf /\ d.msg \notin picked
                                        => d \in state.draft

Keeps(i) == queue[i].op = "setDraft" /\ queue[i].keeps # {}

Written == \A i \in 1..Len(queue) : Keeps(i) =>
               /\ \A j \in 1..Len(queue) : j < i => queue[j].op # "setDraft"
               /\ \A d \in storedDraft :
                      d.id \in queue[i].keeps /\ d.msg \notin queue[i].out
                          => d \in queue[i].list

ListInv == Shown /\ Written

\* A call that is no Save or Delete is added, or another than such leaves.
LEMMA WrittenEnqueued ==
    ASSUME QueueOK, Written, NEW c \in CallT, c.op # "setDraft",
           queue' = Append(queue, c), storedDraft' = storedDraft
    PROVE  Written'
<1>1. /\ \A i \in 1..Len(queue) : i \in 1..Len(queue') /\ queue'[i] = queue[i]
      /\ \A i \in 1..Len(queue') : \/ i \in 1..Len(queue) /\ queue'[i] = queue[i]
                                   \/ queue'[i] = c
  BY Enqueued
<1> SUFFICES ASSUME NEW i \in 1..Len(queue'), Keeps(i)'
             PROVE  /\ \A j \in 1..Len(queue') : j < i => queue'[j].op # "setDraft"
                    /\ \A d \in storedDraft :
                          d.id \in queue'[i].keeps /\ d.msg \notin queue'[i].out
                              => d \in queue'[i].list
  BY DEF Written
<1>2. i \in 1..Len(queue) /\ queue'[i] = queue[i] /\ Keeps(i)
  BY <1>1 DEF Keeps
<1> QED
  BY <1>1, <1>2 DEF Written

LEMMA WrittenLeft ==
    ASSUME QueueOK, Written, queue # <<>>,
           \/ queue' = Tail(queue)
           \/ \E c \in CallT : c.op # "setDraft" /\ queue' = Append(Tail(queue), c),
           storedDraft' = storedDraft \/ Head(queue).op = "setDraft"
    PROVE  Written'
<1>1. PICK c : /\ c.op # "setDraft"
               /\ \A i \in 1..Len(queue') : i \in Nat /\
                      (\/ i + 1 \in 1..Len(queue) /\ queue'[i] = queue[i + 1]
                       \/ queue'[i] = c)
               /\ Len(queue) \in Nat /\ 1 \in 1..Len(queue) /\ Head(queue) = queue[1]
  <2>1. CASE queue' = Tail(queue)
    <3>1. Call("getAuth", None, {}).op # "setDraft"
      BY DEF Call
    <3> QED BY <2>1, <3>1, Dequeued
  <2>2. ASSUME NEW c \in CallT, c.op # "setDraft", queue' = Append(Tail(queue), c)
        PROVE  \E e : /\ e.op # "setDraft"
                      /\ \A i \in 1..Len(queue') : i \in Nat /\
                            (\/ i + 1 \in 1..Len(queue) /\ queue'[i] = queue[i + 1]
                             \/ queue'[i] = e)
                      /\ Len(queue) \in Nat /\ 1 \in 1..Len(queue)
                      /\ Head(queue) = queue[1]
    BY <2>2, Requeued
  <2> QED BY <2>1, <2>2
<1> SUFFICES ASSUME NEW i \in 1..Len(queue'), Keeps(i)'
             PROVE  /\ \A j \in 1..Len(queue') : j < i => queue'[j].op # "setDraft"
                    /\ \A d \in storedDraft' :
                          d.id \in queue'[i].keeps /\ d.msg \notin queue'[i].out
                              => d \in queue'[i].list
  BY DEF Written
<1>2. i \in Nat /\ i + 1 \in 1..Len(queue) /\ queue'[i] = queue[i + 1]
  BY <1>1 DEF Keeps
<1>3. Keeps(i + 1)
  BY <1>2 DEF Keeps
<1>4. \A j \in 1..Len(queue) : j < i + 1 => queue[j].op # "setDraft"
  BY <1>2, <1>3 DEF Written
<1>5. storedDraft' = storedDraft
  BY <1>1, <1>2, <1>4
<1>6. \A j \in 1..Len(queue') : j < i => queue'[j].op # "setDraft"
  BY <1>1, <1>2, <1>4
<1> QED
  BY <1>2, <1>3, <1>5, <1>6 DEF Written

\* A Save or Delete is added; nothing that is stored changes.
LEMMA WrittenBack ==
    ASSUME TypeInv, ListInv, NEW list \in DraftLists, TempList \subseteq list,
           queue' = Append(queue, WriteDrafts(list)), storedDraft' = storedDraft
    PROVE  Written'
<1> DEFINE c == WriteDrafts(list)
<1>1. /\ c \in CallT /\ c.list = list
      /\ \/ c.keeps = {}
         \/ /\ state.draft # None /\ ~Filing
            /\ c.keeps = {listOf} /\ c.out = picked
  BY WriteTyped
<1> HIDE DEF c
<1>2. /\ Len(queue) \in Nat
      /\ \A i \in 1..Len(queue) : i \in 1..Len(queue') /\ queue'[i] = queue[i]
      /\ \A i \in 1..Len(queue') : \/ i \in 1..Len(queue) /\ queue'[i] = queue[i]
                                   \/ i = Len(queue) + 1 /\ queue'[i] = c
  <2>1. queue' = Append(queue, c)
    BY DEF c
  <2> QED BY <1>1, <2>1, Enqueued, Unpacked
<1> SUFFICES ASSUME NEW i \in 1..Len(queue'), Keeps(i)'
             PROVE  /\ \A j \in 1..Len(queue') : j < i => queue'[j].op # "setDraft"
                    /\ \A d \in storedDraft :
                          d.id \in queue'[i].keeps /\ d.msg \notin queue'[i].out
                              => d \in queue'[i].list
  BY DEF Written
<1>3. CASE i \in 1..Len(queue) /\ queue'[i] = queue[i]
  <2>1. Keeps(i)
    BY <1>3 DEF Keeps
  <2>2. \A j \in 1..Len(queue') : j < i => j \in 1..Len(queue)
    BY <1>2, <1>3
  <2> QED BY <1>2, <1>3, <2>1, <2>2 DEF ListInv, Written
<1>4. CASE i = Len(queue) + 1 /\ queue'[i] = c
  <2>1. /\ state.draft # None /\ ~Filing
        /\ c.keeps = {listOf} /\ c.out = picked
    BY <1>1, <1>4 DEF Keeps
  <2>2. \A j \in 1..Len(queue') : j < i => queue'[j].op # "setDraft"
    BY <1>2, <1>4, <2>1 DEF Filing
  <2>3. \A d \in storedDraft : d.id = listOf /\ d.msg \notin picked => d \in list
    BY <2>1 DEF ListInv, Shown, TempList
  <2> QED BY <1>1, <1>4, <2>1, <2>2, <2>3
<1> QED
  BY <1>2, <1>3, <1>4

LEMMA ListStep == TypeInv /\ ListInv /\ [Next]_vars => ListInv'
<1> SUFFICES ASSUME TypeInv, ListInv, [Next]_vars PROVE ListInv'
  OBVIOUS
<1> USE DEF storage, view, history
<1>0. state \in StateT /\ QueueOK /\ Shown /\ Written
  BY Unpacked DEF ListInv
<1>a. /\ Call("getAuth", None, {}) \in CallT /\ Call("getDraft", None, {}) \in CallT
      /\ \A id \in Ids : Call("setAuth", id, {}) \in CallT
      /\ \A op, id : Call(op, id, {}).op = op
  BY CallsTyped DEF Call
<1>1. CASE Unlisted \/ UNCHANGED vars
  <2>1. /\ state'.draft = state.draft
        /\ UNCHANGED <<queue, storedDraft, listOf, picked>>
    BY <1>1, UnlistedSteps DEF vars
  <2> QED BY <1>0, <2>1 DEF ListInv, Shown, Written, Keeps
<1>2. CASE OpenCreate \/ DidFocus \/ \E id \in Ids : ChangeAuth(id)
  <2>1. UNCHANGED <<state, storedDraft, listOf, picked>>
    BY <1>2 DEF OpenCreate, DidFocus, ChangeAuth
  <2>2. \/ queue' = queue
        \/ \E c \in CallT : c.op # "setDraft" /\ queue' = Append(queue, c)
    BY <1>2, <1>a DEF OpenCreate, DidFocus, ChangeAuth, Enqueue
  <2>3. Shown'
    BY <1>0, <2>1 DEF Shown
  <2>4. Written'
    <3>1. CASE queue' = queue
      BY <1>0, <2>1, <3>1 DEF Written, Keeps
    <3> QED BY <1>0, <2>1, <2>2, <3>1, WrittenEnqueued
  <2> QED BY <2>3, <2>4 DEF ListInv
<1>3. CASE Delete
  <2>1. /\ UNCHANGED <<state, storedDraft, listOf, picked>>
        /\ queue' = Append(queue, WriteDrafts(TempList))
    BY <1>3 DEF Delete, Enqueue
  <2>2. Written'
    BY <2>1, WrittenBack, TempListTyped
  <2> QED BY <1>0, <2>1, <2>2 DEF ListInv, Shown
<1>4. CASE Save
  <2> DEFINE item == [id |-> state.auth, msg |-> state.text]
  <2>1. /\ UNCHANGED <<storedDraft, listOf, picked>>
        /\ queue' = Append(queue, WriteDrafts(TempList \cup {item}))
        /\ state' = [state EXCEPT !.draft = IF @ # None THEN @ \cup {item} ELSE @]
    BY <1>4 DEF Save, Enqueue
  <2>2. TempList \cup {item} \in DraftLists
    BY TempListTyped DEF DraftLists
  <2> HIDE DEF item
  <2>3. Written'
    BY <2>1, <2>2, WrittenBack
  <2>4. state'.draft = IF state.draft # None THEN state.draft \cup {item}
                                             ELSE state.draft
    BY <1>0, <2>1 DEF StateT
  <2> QED BY <1>0, <2>1, <2>3, <2>4 DEF ListInv, Shown
<1>5. ASSUME NEW t \in Texts \cup {None}, HandleDraft(t) PROVE ListInv'
  <2>1. /\ state.draft # None /\ state'.draft = {d \in state.draft : d.msg # t}
        /\ picked' = picked \cup {t} /\ UNCHANGED <<queue, storedDraft, listOf>>
    BY <1>0, <1>5 DEF HandleDraft, StateT
  <2>2. Shown'
    BY <1>0, <2>1 DEF Shown
  <2>3. Written'
    BY <1>0, <2>1 DEF Written, Keeps
  <2> QED BY <2>2, <2>3 DEF ListInv
<1>6. CASE GetAuth
  <2>1. /\ state'.draft = state.draft /\ UNCHANGED <<storedDraft, listOf, picked>>
    BY <1>0, <1>6 DEF GetAuth, StateT
  <2>2. Written'
    BY <1>0, <1>6, <1>a, <2>1, WrittenLeft DEF GetAuth
  <2> QED BY <1>0, <2>1, <2>2 DEF ListInv, Shown
<1>7. CASE GetDraft
  <2>1. /\ state'.draft = DraftsOf(storedDraft, state.auth) /\ listOf' = state.auth
        /\ storedDraft' = storedDraft
    BY <1>0, <1>7 DEF GetDraft, StateT
  <2>2. Written'
    BY <1>0, <1>7, <2>1, WrittenLeft DEF GetDraft
  <2>3. Shown'
    BY <2>1 DEF Shown, DraftsOf
  <2> QED BY <2>2, <2>3 DEF ListInv
<1>8. CASE SetAuth
  <2>1. UNCHANGED <<state, storedDraft, listOf, picked>>
    BY <1>8 DEF SetAuth
  <2>2. Written'
    BY <1>0, <1>8, <2>1, WrittenLeft DEF SetAuth
  <2> QED BY <1>0, <2>1, <2>2 DEF ListInv, Shown
<1>9. CASE SetDraft \/ StorageFails
  <2>1. Written'
    BY <1>0, <1>9, <1>a, WrittenLeft DEF SetDraft, StorageFails
  <2>2. Shown'
    <3>1. CASE ResetInOverlay
      <4>1. state'.draft = None
        BY <1>0, <3>1 DEF ResetInOverlay, StateT
      <4> QED BY <4>1 DEF Shown
    <3>2. CASE ~ResetInOverlay
      <4>1. UNCHANGED <<state, storedDraft, listOf, picked>>
        BY <1>9, <3>2 DEF SetDraft, StorageFails
      <4> QED BY <1>0, <4>1 DEF Shown
    <3> QED BY <3>1, <3>2
  <2> QED BY <2>1, <2>2 DEF ListInv
<1> QED
  BY <1>1, <1>2, <1>3, <1>4, <1>5, <1>6, <1>7, <1>8, <1>9, Steps

LEMMA ListInvariant == Spec => []ListInv
<1>1. Init => ListInv
  BY DEF Init, ListInv, Shown, Written
<1> QED
  BY <1>1, TypeInvariant, ListStep, PTL DEF Spec

\* For any number of accounts, drafts and calls under way, logged in or out and
\* with failures: a Save or Delete that was pressed with a loaded list and no
\* other one under way writes back every stored draft of the account whose list
\* it is, except the ones taken out of that list (PostChit.js getUser, Save,
\* Delete, handleDraft).
THEOREM OwnDraftsAreKept == Spec => OwnDraftsKept
<1>1. ASSUME TypeInv, ListInv, [Next]_vars, NEW d \in storedDraft \ storedDraft',
             d.id \in Head(queue).keeps
      PROVE  d.msg \in Head(queue).out
  <2>1. SetDraft
    <3>1. storedDraft' # storedDraft
      OBVIOUS
    <3>2. ~Unlisted
      BY <1>1, <3>1, UnlistedSteps
    <3> QED
      BY <1>1, <3>1, <3>2, Steps DEF OpenCreate, DidFocus, Save, Delete, ChangeAuth,
         HandleDraft, GetAuth, GetDraft, SetAuth, StorageFails, vars, storage
  <2>2. /\ 1 \in 1..Len(queue) /\ Head(queue) = queue[1]
        /\ queue[1].op = "setDraft" /\ storedDraft' = queue[1].list
    BY <1>1, <2>1, Dequeued, Unpacked DEF SetDraft
  <2> QED BY <1>1, <2>2 DEF ListInv, Written, Keeps
<1>2. TypeInv /\ ListInv /\ [Next]_vars
        => [\A d \in storedDraft \ storedDraft' :
               d.id \in Head(queue).keeps => d.msg \in Head(queue).out]_storedDraft
  BY <1>1
<1> QED
  BY <1>2, TypeInvariant, ListInvariant, PTL DEF Spec, OwnDraftsKept
-----------------------------------------------------------------------------
(***************************************************************************)
(* What the steps of a chain do, field by field.                           *)
(***************************************************************************)
LEMMA ChitsTyped ==
    ASSUME TypeInv
    PROVE  /\ chits \in Seq(ChitT) /\ Len(chits) \in Nat /\ Len(chits) <= MaxChits
           /\ \A c \in 1..Len(chits) :
                  /\ chits[c] \in ChitT
                  /\ chits[c].text \in Texts \cup {None}
                  /\ chits[c].photo \in Images \cup {None}
                  /\ chits[c].astray \in BOOLEAN
<1>1. chits \in Seq(ChitT) /\ Len(chits) \in Nat /\ Len(chits) <= MaxChits
  BY Unpacked DEF ChitsOK
<1>2. \A c \in 1..Len(chits) : chits[c] \in ChitT
  BY <1>1
<1>3. \A x \in ChitT : /\ x.text \in Texts \cup {None}
                       /\ x.photo \in Images \cup {None} /\ x.astray \in BOOLEAN
  BY DEF ChitT
<1> QED
  BY <1>1, <1>2, <1>3

LEMMA PressedFields ==
    ASSUME TypeInv, NEW p \in Posts, PostChit(p)
    PROVE  /\ UNCHANGED <<state, storage, view, chits, position, taken, history>>
           /\ post[p].st = "idle" /\ post'[p].st = "sent"
           /\ post'[p].user = state.auth /\ post'[p].text = state.text
           /\ post'[p].image = state.image /\ post'[p].chit = 0
           /\ \A q \in Posts \ {p} :
                  /\ post'[q].st = post[q].st /\ post'[q].user = post[q].user
                  /\ post'[q].text = post[q].text /\ post'[q].image = post[q].image
                  /\ post'[q].chit = post[q].chit
           /\ \/ \A q \in Posts : post[q].st = "idle" /\ (q # p => post'[q] = post[q])
              \/ \A q \in Posts : post'[q].alone = FALSE
<1> DEFINE a == ~\E q \in Posts : Active(q)
           n == [st |-> "sent", user |-> state.auth, text |-> state.text,
                 coords |-> state.coords, image |-> state.image, chit |-> 0,
                 alone |-> a]
<1>1. /\ n.st = "sent" /\ n.user = state.auth /\ n.text = state.text
      /\ n.image = state.image /\ n.chit = 0 /\ n.alone = a
  OBVIOUS
<1>2. /\ post' = [(IF a THEN post ELSE Disturbed) EXCEPT ![p] = n]
      /\ post[p].st = "idle"
      /\ UNCHANGED <<state, storage, view, chits, position, taken, history>>
  BY DEF PostChit
<1>3. a \in BOOLEAN /\ (a => \A q \in Posts : post[q].st = "idle")
  BY DEF Active
<1> HIDE DEF n, a
<1>4. post \in [Posts -> PostT] /\ Disturbed \in [Posts -> PostT]
  BY Unpacked, DisturbedTyped DEF PostOK
<1>5. CASE a
  <2>1. post'[p] = n /\ \A q \in Posts : q # p => post'[q] = post[q]
    BY <1>2, <1>4, <1>5
  <2> QED BY <1>1, <1>2, <1>3, <1>5, <2>1
<1>6. CASE ~a
  <2>1. post'[p] = n /\ \A q \in Posts : q # p => post'[q] = Disturbed[q]
    BY <1>2, <1>4, <1>6
  <2>2. n.alone = FALSE
    BY <1>1, <1>3, <1>6
  <2> QED BY <1>1, <1>2, <2>1, <2>2, DisturbedTyped
<1> QED
  BY <1>5, <1>6

LEMMA CreatedFields ==
    ASSUME TypeInv, NEW p \in Posts, ServerCreates(p)
    PROVE  /\ UNCHANGED <<state, storage, view, position, taken, history>>
           /\ post[p].st = "sent" /\ post'[p].st = "created"
           /\ post'[p].text = post[p].text /\ post'[p].alone = post[p].alone
           /\ post'[p].chit = post[p].chit
           /\ \A q \in Posts \ {p} : post'[q] = post[q]
           /\ Len(chits) \in Nat /\ Len(chits') = Len(chits) + 1
           /\ \A c \in 1..Len(chits) : chits'[c] = chits[c]
           /\ chits'[Len(chits) + 1].author = post[p].user
           /\ chits'[Len(chits) + 1].text = post[p].text
           /\ chits'[Len(chits) + 1].photo = None
           /\ chits'[Len(chits) + 1].attached = post[p].image
           /\ chits'[Len(chits) + 1].gone = taken \ {state.image}
           /\ chits'[Len(chits) + 1].astray = FALSE
<1> DEFINE n == Len(chits)
           new == [author |-> post[p].user, text |-> post[p].text,
                   coords |-> post[p].coords, photo |-> None,
                   attached |-> post[p].image,
                   gone |-> taken \ {state.image}, astray |-> FALSE]
<1>1. post[p] \in PostT /\ post \in [Posts -> PostT] /\ taken \subseteq Images
  BY PostFields, Unpacked DEF PostOK, RestOK
<1>2. new \in ChitT
  BY <1>1 DEF ServerCreates, PostT, ChitT, Ids
<1>3. n \in Nat /\ chits \in Seq(ChitT) /\ chits' = Append(chits, new)
  BY ChitsTyped DEF ServerCreates
<1>4. /\ new.author = post[p].user /\ new.text = post[p].text /\ new.photo = None
      /\ new.attached = post[p].image /\ new.gone = taken \ {state.image}
      /\ new.astray = FALSE
  OBVIOUS
<1> HIDE DEF new
<1>5. /\ Len(chits') = n + 1
      /\ \A c \in 1..(n + 1) : chits'[c] = IF c <= n THEN chits[c] ELSE new
  BY <1>2, <1>3, Appended
<1>6. /\ \A c \in 1..n : chits'[c] = chits[c]
      /\ chits'[n + 1] = new
  BY <1>3, <1>5
<1>7. /\ post'[p] = [post[p] EXCEPT !.st = "created"]
      /\ \A q \in Posts \ {p} : post'[q] = post[q]
  BY <1>1 DEF ServerCreates
<1>8. /\ post'[p].st = "created" /\ post'[p].text = post[p].text
      /\ post'[p].alone = post[p].alone /\ post'[p].chit = post[p].chit
  BY ONLY <1>1, <1>7, SMT DEF PostT
<1>9. /\ post[p].st = "sent"
      /\ UNCHANGED <<state, storage, view, position, taken, history>>
  BY DEF ServerCreates
<1> QED
  BY <1>3, <1>4, <1>5, <1>6, <1>7, <1>8, <1>9

LEMMA AttachedFields ==
    ASSUME TypeInv, NEW p \in Posts, ServerAttaches(p)
    PROVE  /\ UNCHANGED <<state, storage, view, position, taken, history>>
           /\ post[p].st = "photo" /\ post'[p].st = "attached"
           /\ post'[p].chit = 0 /\ post'[p].alone = FALSE
           /\ \A q \in Posts \ {p} : post'[q] = post[q]
           /\ Len(chits) \in Nat /\ Len(chits') = Len(chits)
           /\ \A c \in 1..Len(chits) :
                  /\ chits'[c].author = chits[c].author
                  /\ chits'[c].text = chits[c].text
                  /\ chits'[c].attached = chits[c].attached
                  /\ chits'[c].gone = chits[c].gone
                  /\ \/ chits'[c] = chits[c]
                     \/ /\ c = post[p].chit
                        /\ post[p].image # None /\ chits'[c].photo = post[p].image
                        /\ chits'[c].astray = ~post[p].alone
<1> DEFINE r == post[p]
<1>1. r \in PostT /\ post \in [Posts -> PostT]
  BY PostFields, Unpacked DEF PostOK
<1>2. /\ post'[p] = [IdlePost EXCEPT !.st = "attached"]
      /\ \A q \in Posts \ {p} : post'[q] = post[q]
  BY <1>1 DEF ServerAttaches
<1>3. post'[p].st = "attached" /\ post'[p].chit = 0 /\ post'[p].alone = FALSE
  BY <1>2 DEF IdlePost
<1>4. /\ r.st = "photo"
      /\ UNCHANGED <<state, storage, view, position, taken, history>>
  BY DEF ServerAttaches
<1>5. chits \in Seq(ChitT) /\ Len(chits) \in Nat
  BY ChitsTyped
<1>6. CASE chits' = chits
  BY <1>2, <1>3, <1>4, <1>5, <1>6
<1>7. CASE chits' # chits
  <2> DEFINE b == ~r.alone
             i == r.image
  <2>1. /\ chits' = [chits EXCEPT ![r.chit].photo = i, ![r.chit].astray = b]
        /\ i # None
    BY <1>7 DEF ServerAttaches
  <2>2. b \in BOOLEAN /\ i \in Images
    BY <2>1, PostFields
  <2>3. PICK n \in 1..Len(chits) : n = r.chit
    BY <1>5, <1>7, <2>1
  <2> DEFINE x == chits[n]
             y == [x EXCEPT !.photo = i, !.astray = b]
  <2>4. x \in ChitT
    BY <1>5
  <2> HIDE DEF b, i, x
  <2>5. /\ y \in ChitT /\ y.author = x.author /\ y.text = x.text
        /\ y.attached = x.attached /\ y.gone = x.gone
        /\ y.photo = i /\ y.astray = b
    BY <2>2, <2>4 DEF ChitT
  <2>6. chits' = [chits EXCEPT ![n] = y]
    BY <1>5, <2>1, <2>3 DEF x
  <2> HIDE DEF y
  <2>7. /\ Len(chits') = Len(chits)
        /\ \A c \in 1..Len(chits) : chits'[c] = IF c = n THEN y ELSE chits[c]
    BY <1>5, <2>6
  <2>8. ASSUME NEW c \in 1..Len(chits)
        PROVE  /\ chits'[c].author = chits[c].author
               /\ chits'[c].text = chits[c].text
               /\ chits'[c].attached = chits[c].attached
               /\ chits'[c].gone = chits[c].gone
               /\ \/ chits'[c] = chits[c]
                  \/ c = n /\ chits'[c].photo = i /\ chits'[c].astray = b
    BY <2>5, <2>7 DEF x
  <2>9. ASSUME NEW c \in 1..Len(chits), chits'[c] # chits[c]
        PROVE  /\ c = r.chit /\ r.image # None
               /\ chits'[c].photo = r.image /\ chits'[c].astray = ~r.alone
    BY <2>1, <2>3, <2>8, <2>9 DEF b, i
  <2> QED BY <1>2, <1>3, <1>4, <1>5, <2>7, <2>8, <2>9
<1> QED
  BY <1>6, <1>7

LEMMA PostedFields ==
    ASSUME TypeInv, NEW p \in Posts, Posted(p)
    PROVE  /\ UNCHANGED <<storage, view, chits, taken, failed>>
           /\ state'.auth = state.auth /\ state'.image = state.image
           /\ state'.chitId = state.chitId /\ state'.text = None
           /\ post[p].st = "created" /\ post'[p].chit = 0
           /\ \/ post'[p].st = "idle" /\ post'[p].alone = FALSE
              \/ /\ post'[p].st = "lookup" /\ post'[p].user = state.auth
                 /\ post'[p].alone = post[p].alone
           /\ \A q \in Posts \ {p} : post'[q] = post[q]
<1> DEFINE i == post[p].image
           b == post[p].alone
           n == [IdlePost EXCEPT !.st = "lookup", !.user = state.auth,
                                 !.image = i, !.alone = b]
<1>1. /\ post' = [post EXCEPT ![p] = IF state.image # None THEN n ELSE IdlePost]
      /\ post[p].st = "created"
      /\ UNCHANGED <<storage, view, chits, taken, failed>>
  BY DEF Posted
<1>2. b \in BOOLEAN /\ post \in [Posts -> PostT] /\ state \in StateT
  BY PostFields, Unpacked DEF PostOK
<1>3. /\ state'.auth = state.auth /\ state'.image = state.image
      /\ state'.chitId = state.chitId /\ state'.text = None
  BY <1>2 DEF Posted, StateT
<1> HIDE DEF i, b
<1>4. /\ n.st = "lookup" /\ n.user = state.auth /\ n.chit = 0 /\ n.alone = b
      /\ IdlePost.st = "idle" /\ IdlePost.chit = 0 /\ IdlePost.alone = FALSE
  BY DEF IdlePost
<1> HIDE DEF n
<1>5. post'[p] \in {n, IdlePost} /\ \A q \in Posts \ {p} : post'[q] = post[q]
  BY <1>1, <1>2
<1> QED
  BY <1>1, <1>3, <1>4, <1>5 DEF b

\* A chain is refused or ends, and nothing else happens but perhaps a failure.
LEMMA EndedFields ==
    ASSUME TypeInv, NEW p \in Posts,
           \/ ServerRefuses(p) \/ PostRefused(p) \/ PostFails(p) \/ PostPhotoFails(p)
    PROVE  /\ UNCHANGED <<state, storage, view, chits, position, taken>>
           /\ failed' = failed \/ failed'
           /\ \/ /\ post[p].st = "sent" /\ post'[p].st = "refused"
                 /\ post'[p].text = post[p].text /\ post'[p].chit = post[p].chit
                 /\ post'[p].alone = post[p].alone
              \/ /\ post[p].st # "idle" /\ post'[p] = IdlePost
                 /\ post[p].st = "attached" => failed'
           /\ \A q \in Posts \ {p} : post'[q] = post[q]
<1>1. post[p] \in PostT /\ post \in [Posts -> PostT]
  BY PostFields, Unpacked DEF PostOK
<1>2. UNCHANGED <<state, storage, view, chits, position, taken>>
  BY DEF ServerRefuses, PostRefused, PostFails, PostPhotoFails, OnlyPost, Lost
<1>3. \A q \in Posts \ {p} : post'[q] = post[q]
  BY <1>1 DEF ServerRefuses, PostRefused, PostFails, PostPhotoFails, OnlyPost, Lost
<1>4. failed' = failed \/ failed'
  BY DEF ServerRefuses, PostRefused, PostFails, PostPhotoFails, OnlyPost, Lost, history
<1>5. CASE ServerRefuses(p)
  <2>1. /\ post[p].st = "sent"
        /\ post'[p] = [post[p] EXCEPT !.st = "refused"]
    BY <1>1, <1>5 DEF ServerRefuses, OnlyPost
  <2>2. /\ post'[p].st = "refused" /\ post'[p].text = post[p].text
        /\ post'[p].chit = post[p].chit /\ post'[p].alone = post[p].alone
    BY ONLY <1>1, <2>1, SMT DEF PostT
  <2> QED BY <1>2, <1>3, <1>4, <2>1, <2>2
<1>6. CASE PostRefused(p) \/ PostFails(p) \/ PostPhotoFails(p)
  <2>1. /\ post[p].st # "idle" /\ post'[p] = IdlePost
        /\ post[p].st = "attached" => failed'
    BY <1>1, <1>6 DEF PostRefused, PostFails, PostPhotoFails, OnlyPost, Lost
  <2> QED BY <1>2, <1>3, <1>4, <2>1
<1> QED
  BY <1>5, <1>6

LEMMA FoundFields ==
    ASSUME TypeInv, NEW p \in Posts, ServerLooksUp(p)
    PROVE  /\ UNCHANGED <<state, storage, view, chits, position, taken, history>>
           /\ post[p].st = "lookup" /\ post'[p].st = "found"
           /\ post'[p].alone = post[p].alone
           /\ post'[p].chit \in 0..Len(chits)
           /\ \A d \in 1..Len(chits) : chits[d].author = post[p].user
                                           => d <= post'[p].chit
           /\ \A q \in Posts \ {p} : post'[q] = post[q]
<1> DEFINE own == {c \in 1..Len(chits) : chits[c].author = post[p].user}
<1>1. post[p] \in PostT /\ post \in [Posts -> PostT] /\ Len(chits) \in Nat
  BY PostFields, ChitsTyped, Unpacked DEF PostOK
<1>2. PICK c \in own \cup {0} :
          /\ \A d \in own : d <= c
          /\ OnlyPost(p, [post[p] EXCEPT !.st = "found", !.chit = c])
  BY DEF ServerLooksUp
<1>3. /\ post'[p] = [post[p] EXCEPT !.st = "found", !.chit = c]
      /\ \A q \in Posts \ {p} : post'[q] = post[q]
      /\ UNCHANGED <<state, storage, view, chits, position, taken, history>>
  BY <1>1, <1>2 DEF OnlyPost
<1>4. /\ post'[p].st = "found" /\ post'[p].chit = c
      /\ post'[p].alone = post[p].alone
  BY ONLY <1>1, <1>3, SMT DEF PostT
<1>5. c \in 0..Len(chits) /\ post[p].st = "lookup"
  BY <1>1, <1>2 DEF ServerLooksUp
<1> QED
  BY <1>2, <1>3, <1>4, <1>5

LEMMA UploadFields ==
    ASSUME TypeInv, NEW p \in Posts, NEW id \in 0..MaxChits, UploadPhoto(p, id)
    PROVE  /\ UNCHANGED <<storage, view, chits, position, taken>>
           /\ state'.auth = state.auth /\ state'.image = state.image
           /\ state'.text = state.text
           /\ state'.chitId = IF id # 0 THEN id ELSE state.chitId
           /\ post'[p].st = "photo" /\ post'[p].chit = state'.chitId
           /\ post'[p].image = state.image
           /\ post'[p].alone = (post[p].alone /\ id # 0)
           /\ \A q \in Posts \ {p} : post'[q] = post[q]
<1> DEFINE n == IF id # 0 THEN id ELSE state.chitId
           b == post[p].alone /\ id # 0
<1>1. post[p] \in PostT /\ post \in [Posts -> PostT] /\ state \in StateT
  BY PostFields, Unpacked DEF PostOK
<1>2. b \in BOOLEAN
  OBVIOUS
<1>3. /\ state' = [state EXCEPT !.chitId = n]
      /\ post' = [post EXCEPT ![p] = [post[p] EXCEPT !.st = "photo",
                      !.user = state.auth, !.chit = n,
                      !.image = state.image, !.alone = b]]
      /\ UNCHANGED <<storage, view, chits, position, taken>>
  BY DEF UploadPhoto
<1> HIDE DEF n, b
<1>4. /\ state'.auth = state.auth /\ state'.image = state.image
      /\ state'.text = state.text /\ state'.chitId = n
  BY <1>1, <1>3 DEF StateT
<1>5. /\ post'[p] = [post[p] EXCEPT !.st = "photo", !.user = state.auth,
                                    !.chit = n, !.image = state.image, !.alone = b]
      /\ \A q \in Posts \ {p} : post'[q] = post[q]
  BY <1>1, <1>3
<1>6. /\ post'[p].st = "photo" /\ post'[p].chit = n
      /\ post'[p].image = state.image /\ post'[p].alone = b
  BY ONLY <1>1, <1>5, SMT DEF PostT
<1> QED
  BY <1>3, <1>4, <1>5, <1>6 DEF n, b

LEMMA PhotoEnds ==
    ASSUME TypeInv, NEW p \in Posts, PostPhoto(p)
    PROVE  /\ UNCHANGED <<storage, view, chits, position, taken, history>>
           /\ state'.auth = state.auth /\ state'.image = None
           /\ state'.text = state.text /\ state'.chitId = state.chitId
           /\ post[p].st = "attached" /\ post'[p] = IdlePost
           /\ \A q \in Posts \ {p} : post'[q] = post[q]
<1>1. post \in [Posts -> PostT] /\ state \in StateT
  BY Unpacked DEF PostOK
<1>2. post'[p] = IdlePost /\ \A q \in Posts \ {p} : post'[q] = post[q]
  BY <1>1 DEF PostPhoto
<1>3. /\ state'.auth = state.auth /\ state'.image = None
      /\ state'.text = state.text /\ state'.chitId = state.chitId
  BY <1>1 DEF PostPhoto, StateT
<1> QED
  BY <1>2, <1>3 DEF PostPhoto
-----------------------------------------------------------------------------
(***************************************************************************)
(* The composer implements Desk, step by step.  No invariant is needed but *)
(* the types: an order of the desk is a chain up to the answer to its      *)
(* first request, and the sheet is to be put away as long as a Save or     *)
(* Delete is in the queue.                                                 *)
(***************************************************************************)
Orders == [p \in Posts |-> AskOf(p)]
SentTexts == [c \in 1..Len(chits) |-> chits[c].text]

\* The desk's order of a chain depends on the chain's stage and text only.
LEMMA OrderStays ==
    ASSUME NEW p \in Posts, post'[p].st = post[p].st, post'[p].text = post[p].text
    PROVE  AskOf(p)' = AskOf(p)
  BY DEF AskOf

LEMMA NoOrder ==
    ASSUME NEW p \in Posts
    PROVE  /\ post[p].st \notin {"sent", "refused", "created"}
                  => AskOf(p) = [st |-> "none", text |-> None]
           /\ post[p].st \in {"sent", "refused"}
                  => AskOf(p) = [st |-> "asked", text |-> post[p].text]
           /\ post[p].st = "created"
                  => AskOf(p) = [st |-> "sent", text |-> post[p].text]
  BY DEF AskOf

LEMMA OrderChanges ==
    ASSUME NEW p \in Posts, \A q \in Posts \ {p} : AskOf(q)' = AskOf(q),
           NEW n, AskOf(p)' = n
    PROVE  Orders' = [Orders EXCEPT ![p] = n]
  BY DEF Orders

LEMMA OrdersStay ==
    ASSUME \A q \in Posts : AskOf(q)' = AskOf(q)
    PROVE  Orders' = Orders
  BY DEF Orders

\* The texts sent: unchanged with the chits, or one more.
LEMMA TextsStay ==
    ASSUME Len(chits') = Len(chits),
           \A c \in 1..Len(chits) : chits'[c].text = chits[c].text
    PROVE  SentTexts' = SentTexts
  BY DEF SentTexts

LEMMA TextsGrow ==
    ASSUME TypeInv, NEW p \in Posts, ServerCreates(p)
    PROVE  SentTexts' = Append(SentTexts, post[p].text)
<1> DEFINE n == Len(chits)
           T == Texts \cup {None}
           t == post[p].text
           s == [c \in 1..n |-> chits[c].text]
           u == [c \in 1..(n + 1) |-> chits'[c].text]
<1>1. /\ n \in Nat /\ Len(chits') = n + 1 /\ t \in T
      /\ \A c \in 1..n : chits'[c] = chits[c] /\ chits[c].text \in T
      /\ chits'[n + 1].text = t
  BY CreatedFields, PostFields, ChitsTyped
<1>2. SentTexts = s /\ SentTexts' = u
  BY <1>1 DEF SentTexts
<1>3. s \in Seq(T) /\ Len(s) = n /\ \A c \in 1..n : s[c] = chits[c].text
  BY <1>1
<1>4. \A c \in 1..(n + 1) : chits'[c].text \in T
  BY <1>1
<1>5. u \in Seq(T) /\ Len(u) = n + 1 /\ \A c \in 1..(n + 1) : u[c] = chits'[c].text
  BY <1>1, <1>4
<1> HIDE DEF s, u, T, t, n
<1>6. /\ Append(s, t) \in Seq(T) /\ Len(Append(s, t)) = n + 1
      /\ \A c \in 1..(n + 1) : Append(s, t)[c] = IF c <= n THEN s[c] ELSE t
  BY <1>1, <1>3, Appended
<1>7. \A c \in 1..(n + 1) : u[c] = Append(s, t)[c]
  BY <1>1, <1>3, <1>5, <1>6
<1>8. u = Append(s, t)
  BY <1>5, <1>6, <1>7, SeqEqual
<1> QED
  BY <1>2, <1>8 DEF t

\* A step that the desk does not show.
LEMMA Unseen ==
    ASSUME state'.text = state.text, Orders' = Orders, SentTexts' = SentTexts,
           Filing' = Filing
    PROVE  [D!Next]_(D!vars)
  BY DEF D!vars, Orders, SentTexts

LEMMA SeenWrite ==
    ASSUME NEW t \in Texts \cup {None}, state'.text = t, Orders' = Orders,
           SentTexts' = SentTexts, Filing' = Filing
    PROVE  [D!Next]_(D!vars)
<1>1. D!Write(t)
  BY DEF D!Write, Orders, SentTexts
<1> QED
  BY <1>1 DEF D!Next

LEMMA SeenPutAway ==
    ASSUME state'.text = None, Orders' = Orders, SentTexts' = SentTexts, Filing
    PROVE  [D!Next]_(D!vars)
<1>1. Filing' \in BOOLEAN
  BY DEF Filing
<1>2. D!PutAway
  BY <1>1 DEF D!PutAway, Orders, SentTexts
<1> QED
  BY <1>2 DEF D!Next

LEMMA SeenFile ==
    ASSUME state'.text = state.text, Orders' = Orders, SentTexts' = SentTexts,
           Filing'
    PROVE  [D!Next]_(D!vars)
<1>1. Filing' = TRUE
  BY DEF Filing
<1>2. D!File
  BY <1>1 DEF D!File, Orders, SentTexts
<1> QED
  BY <1>2 DEF D!Next
LEMMA RestOrders ==
    ASSUME TypeInv, post' = post \/ post' = Disturbed, chits' = chits
    PROVE  Orders' = Orders /\ SentTexts' = SentTexts
<1>1. \A q \in Posts : post'[q].st = post[q].st /\ post'[q].text = post[q].text
  BY DisturbedTyped
<1> QED
  BY <1>1, OrderStays, OrdersStay, TextsStay

\* Calls that are no Save or Delete come and go unseen.
LEMMA FilingStays ==
    ASSUME QueueOK,
           \/ queue' = queue
           \/ \E c \in CallT : c.op # "setDraft" /\ queue' = Append(queue, c)
           \/ /\ queue # <<>> /\ Head(queue).op # "setDraft"
              /\ \/ queue' = Tail(queue)
                 \/ \E c \in CallT : /\ c.op # "setDraft"
                                     /\ queue' = Append(Tail(queue), c)
    PROVE  Filing' = Filing
<1>1. CASE queue' = queue
  BY <1>1 DEF Filing
<1>2. ASSUME NEW c \in CallT, c.op # "setDraft", queue' = Append(queue, c)
      PROVE  Filing' = Filing
  <2>1. /\ \A i \in 1..Len(queue) : i \in 1..Len(queue') /\ queue'[i] = queue[i]
        /\ \A i \in 1..Len(queue') : \/ i \in 1..Len(queue) /\ queue'[i] = queue[i]
                                     \/ queue'[i] = c
    BY <1>2, Enqueued
  <2>2. (\E i \in 1..Len(queue) : queue[i].op = "setDraft")
            <=> (\E i \in 1..Len(queue') : queue'[i].op = "setDraft")
    BY <1>2, <2>1
  <2> QED BY <2>2 DEF Filing
<1>3. CASE queue # <<>> /\ Head(queue).op # "setDraft" /\ queue' = Tail(queue)
  <2>1. /\ Head(queue) = queue[1]
        /\ \A i \in 1..Len(queue') :
               i + 1 \in 1..Len(queue) /\ queue'[i] = queue[i + 1]
        /\ \A i \in 1..Len(queue) :
               i = 1 \/ (i - 1 \in 1..Len(queue') /\ queue'[i - 1] = queue[i])
    BY <1>3, Dequeued
  <2>2. (\E i \in 1..Len(queue) : queue[i].op = "setDraft")
            <=> (\E i \in 1..Len(queue') : queue'[i].op = "setDraft")
    BY <1>3, <2>1
  <2> QED BY <2>2 DEF Filing
<1>4. ASSUME NEW c \in CallT, c.op # "setDraft", queue # <<>>,
             Head(queue).op # "setDraft", queue' = Append(Tail(queue), c)
      PROVE  Filing' = Filing
  <2>1. /\ Head(queue) = queue[1]
        /\ \A i \in 1..Len(queue') :
               \/ i + 1 \in 1..Len(queue) /\ queue'[i] = queue[i + 1]
               \/ queue'[i] = c
        /\ \A i \in 1..Len(queue) :
               i = 1 \/ (i - 1 \in 1..Len(queue') /\ queue'[i - 1] = queue[i])
    BY <1>4, Requeued
  <2>2. (\E i \in 1..Len(queue) : queue[i].op = "setDraft")
            <=> (\E i \in 1..Len(queue') : queue'[i].op = "setDraft")
    BY <1>4, <2>1
  <2> QED BY <2>2 DEF Filing
<1> QED
  BY <1>1, <1>2, <1>3, <1>4

LEMMA StorageRefines ==
    ASSUME TypeInv,
           \/ OpenCreate \/ DidFocus \/ Save \/ Delete
           \/ \E id \in Ids : ChangeAuth(id)
           \/ \E t \in Texts \cup {None} : HandleDraft(t)
           \/ GetAuth \/ GetDraft \/ SetAuth \/ SetDraft \/ StorageFails
    PROVE  [D!Next]_(D!vars)
<1> USE DEF storage, view, history
<1>0. state \in StateT /\ QueueOK
  BY Unpacked
<1>a. /\ Call("getAuth", None, {}) \in CallT /\ Call("getDraft", None, {}) \in CallT
      /\ \A id \in Ids : Call("setAuth", id, {}) \in CallT
      /\ \A op, id : Call(op, id, {}).op = op
  BY CallsTyped DEF Call
<1>b. Orders' = Orders /\ SentTexts' = SentTexts
  <2>1. (post' = post \/ post' = Disturbed) /\ chits' = chits
    BY DEF OpenCreate, DidFocus, Save, Delete, ChangeAuth, HandleDraft, GetAuth,
       GetDraft, SetAuth, SetDraft, StorageFails
  <2> QED BY <2>1, RestOrders
<1>1. CASE OpenCreate \/ DidFocus \/ (\E id \in Ids : ChangeAuth(id)) \/ GetAuth
           \/ GetDraft \/ SetAuth \/ (StorageFails /\ Head(queue).op # "setDraft")
  <2>1. state'.text = state.text
    BY <1>0, <1>1 DEF OpenCreate, DidFocus, ChangeAuth, GetAuth, GetDraft, SetAuth,
       StorageFails, StateT
  <2>2. Filing' = Filing
    BY <1>0, <1>1, <1>a, FilingStays DEF OpenCreate, DidFocus, ChangeAuth, GetAuth,
       GetDraft, SetAuth, StorageFails, Enqueue
  <2> QED BY <1>b, <2>1, <2>2, Unseen
<1>2. CASE Save \/ Delete
  <2>1. state'.text = state.text
    BY <1>0, <1>2 DEF Save, Delete, StateT
  <2> DEFINE item == [id |-> state.auth, msg |-> state.text]
  <2>2. TempList \in DraftLists /\ TempList \cup {item} \in DraftLists
    BY TempListTyped DEF DraftLists
  <2>3. PICK list \in DraftLists : queue' = Append(queue, WriteDrafts(list))
    BY <1>2, <2>2 DEF Save, Delete, Enqueue
  <2>4. WriteDrafts(list) \in CallT /\ WriteDrafts(list).op = "setDraft"
    BY WriteTyped
  <2>5. /\ Len(queue) + 1 \in 1..Len(queue')
        /\ queue'[Len(queue) + 1] = WriteDrafts(list)
    BY <1>0, <2>3, <2>4, Enqueued
  <2>6. Filing'
    BY <2>4, <2>5 DEF Filing
  <2> QED BY <1>b, <2>1, <2>6, SeenFile
<1>3. ASSUME NEW t \in Texts \cup {None}, HandleDraft(t) PROVE [D!Next]_(D!vars)
  <2>1. state'.text = t /\ queue' = queue
    BY <1>0, <1>3 DEF HandleDraft, StateT
  <2>2. Filing' = Filing
    BY <1>0, <2>1, FilingStays
  <2> QED BY <1>b, <2>1, <2>2, SeenWrite
<1>4. CASE SetDraft \/ (StorageFails /\ Head(queue).op = "setDraft")
  <2>1. state'.text = None
    BY <1>0, <1>4 DEF SetDraft, StorageFails, ResetInOverlay, StateT
  <2>2. 1 \in 1..Len(queue) /\ queue[1].op = "setDraft"
    BY <1>0, <1>4, TailOK DEF SetDraft, StorageFails
  <2>3. Filing
    BY <2>2 DEF Filing
  <2> QED BY <1>b, <2>1, <2>3, SeenPutAway
<1> QED
  BY <1>1, <1>2, <1>3, <1>4

LEMMA ScreenRefines ==
    ASSUME TypeInv,
           \/ Leave
           \/ \E t \in Texts \cup {None} : ChangeText(t)
           \/ OpenOverlay \/ CloseOverlay \/ OpenDrafts \/ CloseDrafts
           \/ HandleImage \/ RemoveImage \/ RemoveLocation
           \/ \E i \in Images : ReceivedImage(i)
           \/ \E l \in Positions : HandleLocation(l) \/ PositionNext(l)
    PROVE  [D!Next]_(D!vars)
<1> USE DEF storage, view, history
<1>0. state \in StateT /\ QueueOK
  BY Unpacked
<1>1. Orders' = Orders /\ SentTexts' = SentTexts
  <2>1. (post' = post \/ post' = Disturbed) /\ chits' = chits
    BY DEF Leave, ChangeText, OpenOverlay, CloseOverlay, OpenDrafts, CloseDrafts,
       HandleImage, RemoveImage, RemoveLocation, ReceivedImage, HandleLocation,
       PositionNext, GotPosition, GotAddress, LocationFails, SetState
  <2> QED BY <2>1, RestOrders
<1>2. queue' = queue
  BY DEF Leave, ChangeText, OpenOverlay, CloseOverlay, OpenDrafts, CloseDrafts,
     HandleImage, RemoveImage, RemoveLocation, ReceivedImage, HandleLocation,
     PositionNext, GotPosition, GotAddress, LocationFails, SetState
<1>3. Filing' = Filing
  BY <1>0, <1>2, FilingStays
<1>4. ASSUME NEW t \in Texts \cup {None}, ChangeText(t) PROVE [D!Next]_(D!vars)
  <2>1. state'.text = t
    BY <1>0, <1>4 DEF ChangeText, SetState, StateT
  <2> QED BY <1>1, <1>3, <2>1, SeenWrite
<1>5. CASE ~\E t \in Texts \cup {None} : ChangeText(t)
  <2>1. state'.text = state.text
    BY <1>0, <1>5 DEF Leave, OpenOverlay, CloseOverlay, OpenDrafts, CloseDrafts,
       HandleImage, RemoveImage, RemoveLocation, ReceivedImage, HandleLocation,
       PositionNext, GotPosition, GotAddress, LocationFails, SetState, StateT
  <2> QED BY <1>1, <1>3, <2>1, Unseen
<1> QED
  BY <1>4, <1>5

\* The four steps of an order, and the steps of a chain after it.
LEMMA ChainRefines ==
    ASSUME TypeInv, NEW p \in Posts,
           \/ PostChit(p) \/ PostNext(p)
           \/ PostFails(p) \/ GetChitIdFails(p) \/ PostPhotoFails(p)
    PROVE  [D!Next]_(D!vars)
<1> USE DEF storage, view, history
<1>0. QueueOK /\ IdlePost.st = "idle" /\ IdlePost.text = None
  BY Unpacked DEF IdlePost
<1>a. Filing' = Filing
  <2>1. queue' = queue
    BY DEF PostChit, PostNext, ServerCreates, ServerRefuses, Posted, PostRefused,
       ServerLooksUp, GetChitId, ServerAttaches, PostPhoto, PostFails,
       GetChitIdFails, PostPhotoFails, OnlyPost, UploadPhoto, Lost
  <2> QED BY <1>0, <2>1, FilingStays
<1>1. CASE PostChit(p)
  <2>1. /\ state' = state /\ chits' = chits
        /\ post[p].st = "idle" /\ post'[p].st = "sent" /\ post'[p].text = state.text
        /\ \A q \in Posts \ {p} :
               post'[q].st = post[q].st /\ post'[q].text = post[q].text
    BY <1>1, PressedFields
  <2>2. /\ AskOf(p)' = [st |-> "asked", text |-> state.text]
        /\ AskOf(p) = [st |-> "none", text |-> None]
    BY <2>1, NoOrder DEF AskOf
  <2>3. \A q \in Posts \ {p} : AskOf(q)' = AskOf(q)
    BY <2>1, OrderStays
  <2>4. Orders' = [Orders EXCEPT ![p] = [st |-> "asked", text |-> state.text]]
    BY <2>2, <2>3, OrderChanges
  <2>5. Orders[p].st = "none"
    BY <2>2 DEF Orders
  <2>6. SentTexts' = SentTexts
    BY <2>1, TextsStay
  <2>7. D!Ask(p)
    BY <1>a, <2>1, <2>4, <2>5, <2>6 DEF D!Ask, Orders, SentTexts
  <2> QED BY <2>7 DEF D!Next
<1>2. CASE ServerCreates(p)
  <2>1. /\ state' = state
        /\ post[p].st = "sent" /\ post'[p].st = "created"
        /\ post'[p].text = post[p].text
        /\ \A q \in Posts \ {p} : post'[q] = post[q]
    BY <1>2, CreatedFields
  <2>2. /\ AskOf(p) = [st |-> "asked", text |-> post[p].text]
        /\ AskOf(p)' = [st |-> "sent", text |-> post[p].text]
    BY <2>1 DEF AskOf
  <2>3. \A q \in Posts \ {p} : AskOf(q)' = AskOf(q)
    BY <2>1, OrderStays
  <2>4. Orders' = [Orders EXCEPT ![p] = [st |-> "sent", text |-> post[p].text]]
    BY <2>2, <2>3, OrderChanges
  <2>5. Orders[p] = [st |-> "asked", text |-> post[p].text]
    BY <2>2 DEF Orders
  <2>6. /\ Orders' = [Orders EXCEPT ![p].st = "sent"]
        /\ Orders[p].st = "asked" /\ Orders[p].text = post[p].text
    <3> DEFINE t == post[p].text
               o == [st |-> "asked", text |-> t]
    <3>1. [o EXCEPT !.st = "sent"] = [st |-> "sent", text |-> t]
      OBVIOUS
    <3>2. o.st = "asked" /\ o.text = t
      OBVIOUS
    <3>3. Orders[p] = o /\ Orders' = [Orders EXCEPT ![p] = [o EXCEPT !.st = "sent"]]
      BY <2>4, <2>5, <3>1
    <3> HIDE DEF o
    <3>4. Orders' = [Orders EXCEPT ![p].st = "sent"]
      BY <3>3
    <3> QED BY <3>2, <3>3, <3>4
  <2>7. SentTexts' = Append(SentTexts, Orders[p].text)
    BY <1>2, <2>6, TextsGrow
  <2>8. D!Send(p)
    BY <1>a, <2>1, <2>6, <2>7 DEF D!Send, Orders, SentTexts
  <2> QED BY <2>8 DEF D!Next
<1>3. CASE Posted(p)
  <2>1. /\ state'.text = None /\ chits' = chits
        /\ post[p].st = "created" /\ post'[p].st \in {"idle", "lookup"}
        /\ \A q \in Posts \ {p} : post'[q] = post[q]
    BY <1>3, PostedFields
  <2>2. /\ AskOf(p)' = [st |-> "none", text |-> None]
        /\ AskOf(p) = [st |-> "sent", text |-> post[p].text]
    BY <2>1 DEF AskOf
  <2>3. \A q \in Posts \ {p} : AskOf(q)' = AskOf(q)
    BY <2>1, OrderStays
  <2>4. Orders' = [Orders EXCEPT ![p] = [st |-> "none", text |-> None]]
    BY <2>2, <2>3, OrderChanges
  <2>5. Orders[p].st = "sent"
    BY <2>2 DEF Orders
  <2>6. SentTexts' = SentTexts
    BY <2>1, TextsStay
  <2>7. D!Confirm(p)
    BY <1>a, <2>1, <2>4, <2>5, <2>6 DEF D!Confirm, D!NoAsk, Orders, SentTexts
  <2> QED BY <2>7 DEF D!Next
<1>4. CASE ServerRefuses(p) \/ PostRefused(p) \/ PostFails(p) \/ PostPhotoFails(p)
  <2>1. /\ state' = state /\ chits' = chits
        /\ \A q \in Posts \ {p} : post'[q] = post[q]
        /\ \/ /\ post[p].st = "sent" /\ post'[p].st = "refused"
              /\ post'[p].text = post[p].text
           \/ post[p].st # "idle" /\ post'[p] = IdlePost
    BY <1>4, EndedFields
  <2>2. SentTexts' = SentTexts
    BY <2>1, TextsStay
  <2>3. \A q \in Posts \ {p} : AskOf(q)' = AskOf(q)
    BY <2>1, OrderStays
  <2>4. CASE AskOf(p)' = AskOf(p)
    <3>1. Orders' = Orders
      BY <2>3, <2>4, OrdersStay
    <3> QED BY <1>a, <2>1, <2>2, <3>1, Unseen
  <2>5. CASE AskOf(p)' # AskOf(p)
    <3>1. /\ AskOf(p)' = [st |-> "none", text |-> None]
          /\ AskOf(p).st # "none"
      BY <1>0, <2>1, <2>5 DEF AskOf
    <3>2. Orders' = [Orders EXCEPT ![p] = [st |-> "none", text |-> None]]
      BY <2>3, <3>1, OrderChanges
    <3>3. Orders[p].st # "none"
      BY <3>1 DEF Orders
    <3>4. D!Drop(p)
      BY <1>a, <2>1, <2>2, <3>2, <3>3 DEF D!Drop, D!NoAsk, Orders, SentTexts
    <3> QED BY <3>4 DEF D!Next
  <2> QED BY <2>4, <2>5
<1>5. CASE \/ ServerLooksUp(p) \/ GetChitId(p) \/ GetChitIdFails(p)
           \/ ServerAttaches(p) \/ PostPhoto(p)
  <2>1. /\ state'.text = state.text
        /\ post[p].st \in {"lookup", "found", "photo", "attached"}
        /\ post'[p].st \in {"idle", "found", "photo", "attached"}
        /\ \A q \in Posts \ {p} : post'[q] = post[q]
        /\ Len(chits') = Len(chits)
        /\ \A c \in 1..Len(chits) : chits'[c].text = chits[c].text
    <3>1. CASE ServerLooksUp(p)
      BY <3>1, FoundFields
    <3>2. CASE GetChitId(p)
      <4>1. post[p].st = "found" /\ UploadPhoto(p, post[p].chit)
        BY <3>2 DEF GetChitId
      <4> QED BY <4>1, UploadFields, PostFields
    <3>3. CASE GetChitIdFails(p)
      <4>1. post[p].st \in {"lookup", "found"} /\ UploadPhoto(p, 0)
        BY <3>3 DEF GetChitIdFails
      <4> QED BY <4>1, UploadFields, Bounds
    <3>4. CASE ServerAttaches(p)
      BY <3>4, AttachedFields
    <3>5. CASE PostPhoto(p)
      BY <1>0, <3>5, PhotoEnds
    <3> QED BY <1>5, <3>1, <3>2, <3>3, <3>4, <3>5
  <2>2. AskOf(p)' = AskOf(p)
    BY <2>1 DEF AskOf
  <2>3. \A q \in Posts : AskOf(q)' = AskOf(q)
    BY <2>1, <2>2, OrderStays
  <2> QED BY <1>a, <2>1, <2>3, OrdersStay, TextsStay, Unseen
<1> QED
  BY <1>1, <1>2, <1>3, <1>4, <1>5 DEF PostNext

\* For any number of accounts, texts, chits under way, drafts, photos and
\* positions, logged in or out and with failures: the composer is a desk that
\* clears the sheet only when a sent text is confirmed or after a Save or Delete,
\* and sends what was on the sheet when that was asked for (PostChit.js postChit,
\* Save, Delete, handleDraft, resetInOverlay).
THEOREM ComposerRefines == Spec => ImplementsDesk
<1>1. Init => D!Init
  <2> SUFFICES ASSUME Init PROVE D!Init
    OBVIOUS
  <2>1. Filing = FALSE
    BY DEF Init, Filing
  <2>2. \A p \in Posts : AskOf(p) = [st |-> "none", text |-> None]
    BY DEF Init, IdlePost, AskOf
  <2>3. [p \in Posts |-> AskOf(p)] = [p \in Posts |-> [st |-> "none", text |-> None]]
    BY <2>2
  <2>4. [c \in 1..Len(chits) |-> chits[c].text] = <<>>
    BY DEF Init
  <2> QED BY <2>1, <2>3, <2>4 DEF Init, D!Init, D!NoAsk
<1>2. TypeInv /\ [Next]_vars => [D!Next]_(D!vars)
  <2> SUFFICES ASSUME TypeInv, [Next]_vars PROVE [D!Next]_(D!vars)
    OBVIOUS
  <2>1. CASE UNCHANGED vars
    <3>1. state'.text = state.text /\ queue' = queue /\ post' = post /\ chits' = chits
      BY <2>1 DEF vars, storage
    <3>2. Filing' = Filing
      BY <3>1 DEF Filing
    <3> QED BY <3>1, <3>2, RestOrders, Unseen
  <2> QED BY <2>1, Steps, StorageRefines, ScreenRefines, ChainRefines DEF Unlisted
<1> QED
  BY <1>1, <1>2, TypeInvariant, PTL DEF Spec, ImplementsDesk, D!Spec
-----------------------------------------------------------------------------
(***************************************************************************)
(* Photos.  Every photo was taken (Taken), every chit id is one of a chit  *)
(* (Known), and what left the composer before a chit was created is not on *)
(* its way to it (Gone).  A chain that is alone is the only one, and what  *)
(* it reads from the composer late is what was there at the press, or      *)
(* nothing: the chit it created is the newest one, and the lookup finds    *)
(* that one (Stage).  A photo in the composer is on no chit it came to     *)
(* undisturbed, except between its upload and the answer (Free).           *)
(***************************************************************************)
Taken ==
    /\ state.image \in taken \cup {None}
    /\ \A c \in 1..Len(chits) : /\ chits[c].photo \in taken \cup {None}
                                /\ chits[c].gone \subseteq taken
    /\ \A p \in Posts : post[p].st = "photo" => post[p].image \in taken \cup {None}

Known == /\ state.chitId <= Len(chits)
         /\ \A p \in Posts : post[p].chit <= Len(chits)

Gone == /\ \A c \in 1..Len(chits) : /\ state.image \notin chits[c].gone
                                    /\ chits[c].photo \notin chits[c].gone
        /\ \A p \in Posts : \A c \in 1..Len(chits) :
               post[p].st = "photo" /\ post[p].chit = c
                   => post[p].image \notin chits[c].gone

Newest == /\ Len(chits) > 0
          /\ chits[Len(chits)].author = state.auth
          /\ state.image \in {chits[Len(chits)].attached, None}

Stage(p) ==
    /\ post[p].st # "idle"
    /\ \A q \in Posts \ {p} : post[q].st = "idle"
    /\ post[p].st = "sent" =>
           post[p].user = state.auth /\ state.image \in {post[p].image, None}
    /\ post[p].st \in {"created", "lookup", "found"} => Newest
    /\ post[p].st = "lookup" => post[p].user = state.auth
    /\ post[p].st = "found" => post[p].chit = Len(chits)
    /\ post[p].st = "photo" =>
           /\ Len(chits) > 0 /\ post[p].chit = Len(chits)
           /\ post[p].image \in {chits[Len(chits)].attached, None}

AloneInv == \A p \in Posts : post[p].alone => Stage(p)

\* A photo is on no chit that it came to undisturbed.
Fresh(i) == \A c \in 1..Len(chits) : chits[c].photo = i => chits[c].astray

Free == \/ failed
        \/ /\ \/ state.image = None
              \/ \E p \in Posts : post[p].st = "attached"
              \/ Fresh(state.image)
           /\ \A p \in Posts : post[p].alone /\ post[p].st = "photo"
                                   => post[p].image = None \/ Fresh(post[p].image)

PhotoInv == /\ Taken /\ Known /\ Gone
            /\ AloneInv /\ PhotoOnItsChit
            /\ Free /\ PhotoOnOneChit

LEMMA NoneIsNoPhoto ==
    ASSUME TypeInv, Taken
    PROVE  /\ None \notin taken
           /\ \A c \in 1..Len(chits) : None \notin chits[c].gone
<1>1. taken \subseteq Images
  BY Unpacked DEF RestOK
<1> QED
  BY <1>1, ConstantsOK DEF Taken

\* Steps that leave chains and chits alone, except that they may disturb a chain.
LEMMA CalmPhotos ==
    ASSUME TypeInv, PhotoInv, chits' = chits, failed => failed',
           \/ taken' = taken /\ state'.image \in {state.image, None}
           \/ \E i \in Images \ taken : taken' = taken \cup {i} /\ state'.image = i,
           state'.chitId = state.chitId,
           \A p \in Posts :
               /\ post'[p].st = post[p].st /\ post'[p].user = post[p].user
               /\ post'[p].image = post[p].image /\ post'[p].chit = post[p].chit
               /\ post'[p].alone => /\ post[p].alone /\ state'.auth = state.auth
                                    /\ state'.image \in {state.image, None}
    PROVE  PhotoInv'
<1>1. Taken /\ Known /\ Gone /\ AloneInv /\ PhotoOnItsChit /\ Free /\ PhotoOnOneChit
  BY DEF PhotoInv
<1>2. /\ None \notin taken /\ None \notin Images
      /\ \A c \in 1..Len(chits) : None \notin chits[c].gone
  BY <1>1, NoneIsNoPhoto, ConstantsOK
<1>3. Taken'
  BY <1>1 DEF Taken
<1>4. Known'
  BY <1>1 DEF Known
<1>5. Gone'
  BY <1>1, <1>2 DEF Gone, Taken
<1>6. AloneInv'
  <2> SUFFICES ASSUME NEW p \in Posts, post'[p].alone PROVE Stage(p)'
    BY DEF AloneInv
  <2>1. /\ Stage(p) /\ state'.auth = state.auth
        /\ state'.image \in {state.image, None}
    BY <1>1 DEF AloneInv
  <2> QED BY <2>1 DEF Stage, Newest
<1>7. PhotoOnItsChit' /\ PhotoOnOneChit'
  BY <1>1 DEF PhotoOnItsChit, PhotoOnOneChit
<1>8. Free'
  <2>1. CASE failed
    BY <2>1 DEF Free
  <2>2. CASE ~failed
    <3>1. \A p \in Posts : post'[p].alone /\ post'[p].st = "photo"
                              => post'[p].image = None \/ Fresh(post[p].image)'
      BY <1>1, <2>2 DEF Free, Fresh
    <3>2. CASE taken' = taken /\ state'.image \in {state.image, None}
      <4>1. \/ state'.image = None
            \/ \E p \in Posts : post'[p].st = "attached"
            \/ Fresh(state.image)'
        BY <1>1, <2>2, <3>2 DEF Free, Fresh
      <4> QED BY <3>1, <4>1 DEF Free
    <3>3. ASSUME NEW i \in Images \ taken, state'.image = i
          PROVE  Fresh(state.image)'
      BY <1>1, <1>2, <3>3 DEF Fresh, Taken
    <3> QED BY <3>1, <3>2, <3>3 DEF Free
  <2> QED BY <2>1, <2>2
<1> QED
  BY <1>3, <1>4, <1>5, <1>6, <1>7, <1>8 DEF PhotoInv

LEMMA PressPhotos ==
    ASSUME TypeInv, PhotoInv, NEW p \in Posts, PostChit(p)
    PROVE  PhotoInv'
<1>1. Taken /\ Known /\ Gone /\ AloneInv /\ PhotoOnItsChit /\ Free /\ PhotoOnOneChit
  BY DEF PhotoInv
<1>2. /\ UNCHANGED <<state, chits, taken, failed>>
      /\ post[p].st = "idle" /\ post'[p].st = "sent"
      /\ post'[p].user = state.auth /\ post'[p].image = state.image
      /\ post'[p].chit = 0
      /\ \A q \in Posts \ {p} :
             /\ post'[q].st = post[q].st /\ post'[q].user = post[q].user
             /\ post'[q].image = post[q].image /\ post'[q].chit = post[q].chit
      /\ \/ \A q \in Posts : post[q].st = "idle" /\ (q # p => post'[q] = post[q])
         \/ \A q \in Posts : post'[q].alone = FALSE
  BY PressedFields DEF history
<1>3. Taken'
  BY <1>1, <1>2 DEF Taken
<1>4. Known'
  BY <1>1, <1>2, ChitsTyped DEF Known
<1>5. Gone'
  BY <1>1, <1>2 DEF Gone
<1>6. AloneInv'
  <2> SUFFICES ASSUME NEW q \in Posts, post'[q].alone PROVE Stage(q)'
    BY DEF AloneInv
  <2>1. \A r \in Posts : post[r].st = "idle" /\ (r # p => post'[r] = post[r])
    BY <1>2
  <2>2. q = p
    BY <1>1, <2>1 DEF AloneInv, Stage
  <2> QED BY <1>2, <2>1, <2>2 DEF Stage
<1>7. PhotoOnItsChit' /\ PhotoOnOneChit'
  BY <1>1, <1>2 DEF PhotoOnItsChit, PhotoOnOneChit
<1>8. Free'
  <2>1. \A q \in Posts : post'[q].alone => post'[q].st # "photo"
    BY <1>2
  <2>2. \A q \in Posts : post[q].st = "attached" => post'[q].st = "attached"
    BY <1>2
  <2> QED BY <1>1, <1>2, <2>1, <2>2 DEF Free, Fresh
<1> QED
  BY <1>3, <1>4, <1>5, <1>6, <1>7, <1>8 DEF PhotoInv

LEMMA CreatesPhotos ==
    ASSUME TypeInv, PhotoInv, NEW p \in Posts, ServerCreates(p)
    PROVE  PhotoInv'
<1> DEFINE n == Len(chits)
<1>1. Taken /\ Known /\ Gone /\ AloneInv /\ PhotoOnItsChit /\ Free /\ PhotoOnOneChit
  BY DEF PhotoInv
<1>2. /\ UNCHANGED <<state, taken, failed>>
      /\ post[p].st = "sent" /\ post'[p].st = "created"
      /\ post'[p].alone = post[p].alone /\ post'[p].chit = post[p].chit
      /\ \A q \in Posts \ {p} : post'[q] = post[q]
  BY CreatedFields DEF history
<1>3. /\ n \in Nat /\ Len(chits') = n + 1
      /\ \A c \in 1..n : chits'[c] = chits[c]
      /\ chits'[n + 1].author = post[p].user
      /\ chits'[n + 1].photo = None /\ chits'[n + 1].attached = post[p].image
      /\ chits'[n + 1].gone = taken \ {state.image}
      /\ chits'[n + 1].astray = FALSE
  BY CreatedFields
<1>4. \A c \in 1..Len(chits') : c \in 1..n \/ c = n + 1
  BY <1>3
<1>5. /\ None \notin taken
      /\ \A q \in Posts : post[q].chit \in Nat
      /\ state.chitId \in Nat
  BY <1>1, NoneIsNoPhoto, PostFields, StateTyped, Bounds
<1> HIDE DEF n
<1>6. Taken'
  BY <1>1, <1>2, <1>3, <1>4 DEF Taken, n
<1>7. Known'
  BY <1>1, <1>2, <1>3, <1>5 DEF Known, n
<1>8. Gone'
  <2>1. \A c \in 1..Len(chits') : /\ state'.image \notin chits'[c].gone
                                  /\ chits'[c].photo \notin chits'[c].gone
    BY <1>1, <1>2, <1>3, <1>4, <1>5 DEF Gone, n
  <2>2. ASSUME NEW q \in Posts, NEW c \in 1..Len(chits'), post'[q].st = "photo",
               post'[q].chit = c
        PROVE  post'[q].image \notin chits'[c].gone
    <3>1. q # p /\ post'[q] = post[q]
      BY <1>2, <2>2
    <3>2. c <= n
      BY <1>1, <2>2, <3>1 DEF Known, n
    <3>3. c \in 1..n
      BY <1>3, <1>4, <3>2
    <3> QED BY <1>1, <1>3, <2>2, <3>1, <3>3 DEF Gone, n
  <2> QED BY <2>1, <2>2 DEF Gone
<1>9. AloneInv'
  <2> SUFFICES ASSUME NEW q \in Posts, post'[q].alone PROVE Stage(q)'
    BY DEF AloneInv
  <2>1. q = p
    BY <1>1, <1>2 DEF AloneInv, Stage
  <2>2. /\ post[p].user = state.auth /\ state.image \in {post[p].image, None}
        /\ \A r \in Posts \ {p} : post[r].st = "idle"
    BY <1>1, <1>2, <2>1 DEF AloneInv, Stage
  <2>3. Newest'
    BY <1>2, <1>3, <2>2 DEF Newest
  <2> QED BY <1>2, <2>1, <2>2, <2>3 DEF Stage
<1>10. PhotoOnItsChit'
  BY <1>1, <1>3, <1>4 DEF PhotoOnItsChit, n
<1>11. PhotoOnOneChit'
  BY <1>1, <1>2, <1>3, <1>4 DEF PhotoOnOneChit, n
<1>12. \A i : i # None /\ Fresh(i) => Fresh(i)'
  BY <1>3, <1>4 DEF Fresh, n
<1>13. Free'
  <2>1. \A q \in Posts : post[q].st = "attached" => post'[q].st = "attached"
    BY <1>2
  <2>2. \A q \in Posts : post'[q].alone /\ post'[q].st = "photo"
                            => q # p /\ post'[q] = post[q]
    BY <1>2
  <2> QED BY <1>1, <1>2, <1>12, <2>1, <2>2 DEF Free
<1> QED
  BY <1>6, <1>7, <1>8, <1>9, <1>10, <1>11, <1>13 DEF PhotoInv

\* The photo of a chain that is alone goes to the newest chit, which is the one
\* it was attached to.
LEMMA AttachesPhotos ==
    ASSUME TypeInv, PhotoInv, NEW p \in Posts, ServerAttaches(p)
    PROVE  PhotoInv'
<1> DEFINE n == Len(chits)
           r == post[p]
<1>1. Taken /\ Known /\ Gone /\ AloneInv /\ PhotoOnItsChit /\ Free /\ PhotoOnOneChit
  BY DEF PhotoInv
<1>2. /\ UNCHANGED <<state, taken, failed>>
      /\ r.st = "photo" /\ post'[p].st = "attached"
      /\ post'[p].chit = 0 /\ post'[p].alone = FALSE
      /\ \A q \in Posts \ {p} : post'[q] = post[q]
  BY AttachedFields DEF history
<1>3. /\ n \in Nat /\ Len(chits') = n
      /\ \A c \in 1..n :
             /\ chits'[c].author = chits[c].author
             /\ chits'[c].attached = chits[c].attached
             /\ chits'[c].gone = chits[c].gone
             /\ \/ chits'[c] = chits[c]
                \/ /\ c = r.chit
                   /\ r.image # None /\ chits'[c].photo = r.image
                   /\ chits'[c].astray = ~r.alone
  BY AttachedFields
<1>4. r.alone \in BOOLEAN
  BY PostFields
<1>5. r.alone => /\ Len(chits) > 0 /\ r.chit = Len(chits)
                 /\ r.image \in {chits[Len(chits)].attached, None}
                 /\ \A q \in Posts \ {p} : post[q].st = "idle"
  BY <1>1, <1>2 DEF AloneInv, Stage
<1>6. Taken'
  BY <1>1, <1>2, <1>3 DEF Taken
<1>7. Known'
  BY <1>1, <1>2, <1>3 DEF Known
<1>8. Gone'
  <2>1. \A c \in 1..Len(chits') : /\ state'.image \notin chits'[c].gone
                                  /\ chits'[c].photo \notin chits'[c].gone
    BY <1>1, <1>2, <1>3 DEF Gone
  <2>2. \A q \in Posts : \A c \in 1..Len(chits') :
            post'[q].st = "photo" /\ post'[q].chit = c
                => post'[q].image \notin chits'[c].gone
    BY <1>1, <1>2, <1>3 DEF Gone
  <2> QED BY <2>1, <2>2 DEF Gone
<1>9. AloneInv'
  <2> SUFFICES ASSUME NEW q \in Posts, post'[q].alone PROVE FALSE
    BY DEF AloneInv
  <2>1. q # p /\ post'[q] = post[q]
    BY <1>2
  <2> QED BY <1>1, <1>2, <2>1 DEF AloneInv, Stage
<1>10. PhotoOnItsChit'
  <2> SUFFICES ASSUME NEW c \in 1..n
               PROVE  \/ chits'[c].photo \in {None, chits'[c].attached}
                      \/ chits'[c].astray
    BY <1>3 DEF PhotoOnItsChit
  <2>1. CASE chits'[c] = chits[c]
    BY <1>1, <2>1 DEF PhotoOnItsChit
  <2>2. CASE chits'[c] # chits[c] /\ r.alone
    BY <1>3, <1>5, <2>2
  <2>3. CASE chits'[c] # chits[c] /\ ~r.alone
    BY <1>3, <2>3
  <2> QED BY <2>1, <2>2, <2>3
<1>11. PhotoOnOneChit'
  <2> SUFFICES ASSUME ~failed, NEW c \in 1..n, NEW d \in 1..n,
                      chits'[c].photo = chits'[d].photo, chits'[c].photo # None,
                      c # d
               PROVE  chits'[c].astray \/ chits'[d].astray
    BY <1>2, <1>3 DEF PhotoOnOneChit
  <2>1. r.alone /\ r.image # None => Fresh(r.image)
    BY <1>1, <1>2 DEF Free
  <2>2. CASE chits'[c] = chits[c] /\ chits'[d] = chits[d]
    BY <1>1, <2>2 DEF PhotoOnOneChit
  <2>3. CASE chits'[c] # chits[c]
    <3>1. chits'[d] = chits[d] /\ chits'[c].photo = r.image /\ r.image # None
          /\ chits'[c].astray = ~r.alone
      BY <1>3, <2>3
    <3> QED BY <2>1, <3>1 DEF Fresh
  <2>4. CASE chits'[d] # chits[d]
    <3>1. chits'[c] = chits[c] /\ chits'[d].photo = r.image /\ r.image # None
          /\ chits'[d].astray = ~r.alone
      BY <1>3, <2>4
    <3> QED BY <2>1, <3>1 DEF Fresh
  <2> QED BY <2>2, <2>3, <2>4
<1>12. Free'
  <2>1. \E q \in Posts : post'[q].st = "attached"
    BY <1>2
  <2>2. \A q \in Posts : ~post'[q].alone
    BY <1>9, <1>1, <1>2 DEF AloneInv, Stage
  <2> QED BY <2>1, <2>2 DEF Free
<1> QED
  BY <1>6, <1>7, <1>8, <1>9, <1>10, <1>11, <1>12 DEF PhotoInv

\* The other steps of a chain change no chit.
LEMMA ChainPhotos ==
    ASSUME TypeInv, PhotoInv, NEW p \in Posts, post[p].st # "idle",
           chits' = chits, taken' = taken, failed => failed',
           state'.auth = state.auth, state'.image \in {state.image, None},
           state'.chitId <= Len(chits), post'[p].chit <= Len(chits),
           \A q \in Posts \ {p} : post'[q] = post[q],
           post'[p].st = "photo" => post'[p].image = state.image,
           post'[p].alone => post[p].alone /\ Stage(p)',
           post[p].st = "attached" => state'.image = None \/ failed',
           post'[p].alone /\ post'[p].st = "photo" => post[p].st = "found"
    PROVE  PhotoInv'
<1>1. Taken /\ Known /\ Gone /\ AloneInv /\ PhotoOnItsChit /\ Free /\ PhotoOnOneChit
  BY DEF PhotoInv
<1>2. \A c \in 1..Len(chits) : None \notin chits[c].gone
  BY <1>1, NoneIsNoPhoto
<1>3. Taken'
  BY <1>1 DEF Taken
<1>4. Known'
  BY <1>1 DEF Known
<1>5. Gone'
  <2>1. \A c \in 1..Len(chits') : /\ state'.image \notin chits'[c].gone
                                  /\ chits'[c].photo \notin chits'[c].gone
    BY <1>1, <1>2 DEF Gone
  <2>2. ASSUME NEW q \in Posts, NEW c \in 1..Len(chits'), post'[q].st = "photo",
               post'[q].chit = c
        PROVE  post'[q].image \notin chits'[c].gone
    <3>1. CASE q = p
      BY <1>1, <2>2, <3>1 DEF Gone
    <3>2. CASE q # p
      BY <1>1, <2>2, <3>2 DEF Gone
    <3> QED BY <3>1, <3>2
  <2> QED BY <2>1, <2>2 DEF Gone
<1>6. AloneInv'
  <2> SUFFICES ASSUME NEW q \in Posts, post'[q].alone PROVE Stage(q)'
    BY DEF AloneInv
  <2>1. CASE q = p
    BY <2>1
  <2>2. CASE q # p
    BY <1>1, <2>2 DEF AloneInv, Stage
  <2> QED BY <2>1, <2>2
<1>7. PhotoOnItsChit' /\ PhotoOnOneChit'
  BY <1>1 DEF PhotoOnItsChit, PhotoOnOneChit
<1>8. Free'
  <2> SUFFICES ASSUME ~failed' PROVE Free'
    BY DEF Free
  <2>1. /\ ~failed
        /\ \/ state.image = None
           \/ \E q \in Posts : post[q].st = "attached"
           \/ Fresh(state.image)
    BY <1>1 DEF Free
  <2>2. \/ state'.image = None
        \/ \E q \in Posts : post'[q].st = "attached"
        \/ Fresh(state.image)'
    <3>1. \A i : Fresh(i)' = Fresh(i)
      BY DEF Fresh
    <3> QED BY <2>1, <3>1
  <2>3. ASSUME NEW q \in Posts, post'[q].alone, post'[q].st = "photo",
               post'[q].image # None
        PROVE  Fresh(post[q].image)'
    <3>1. CASE q # p
      BY <1>1, <2>1, <2>3, <3>1 DEF Free, Fresh
    <3>2. CASE q = p
      <4>1. post[p].alone /\ post[p].st = "found" /\ post'[p].image = state.image
        BY <2>3, <3>2
      <4>2. \A s \in Posts : post[s].st # "attached"
        BY <1>1, <4>1 DEF AloneInv, Stage
      <4> QED BY <2>1, <2>3, <3>2, <4>1, <4>2 DEF Fresh
    <3> QED BY <3>1, <3>2
  <2> QED BY <2>2, <2>3 DEF Free
<1> QED
  BY <1>3, <1>4, <1>5, <1>6, <1>7, <1>8 DEF PhotoInv

LEMMA EndsPhotos ==
    ASSUME TypeInv, PhotoInv, failed => failed', NEW p \in Posts,
           \/ ServerRefuses(p) \/ PostRefused(p) \/ PostFails(p) \/ PostPhotoFails(p)
    PROVE  PhotoInv'
<1>1. Known /\ AloneInv /\ Len(chits) \in Nat
  BY ChitsTyped DEF PhotoInv
<1>2. IdlePost.st = "idle" /\ IdlePost.chit = 0 /\ IdlePost.alone = FALSE
  BY DEF IdlePost
<1>3. /\ UNCHANGED <<state, chits, taken>>
      /\ \/ /\ post[p].st = "sent" /\ post'[p].st = "refused"
            /\ post'[p].chit = post[p].chit /\ post'[p].alone = post[p].alone
         \/ /\ post[p].st # "idle" /\ post'[p] = IdlePost
            /\ post[p].st = "attached" => failed'
      /\ \A q \in Posts \ {p} : post'[q] = post[q]
  BY EndedFields
<1>4. post'[p].alone => post[p].alone /\ Stage(p)'
  <2> SUFFICES ASSUME post'[p].alone PROVE post[p].alone /\ Stage(p)'
    OBVIOUS
  <2>1. post'[p].st = "refused" /\ post[p].alone
    BY <1>2, <1>3
  <2>2. \A q \in Posts \ {p} : post'[q].st = "idle"
    BY <1>1, <1>3, <2>1 DEF AloneInv, Stage
  <2> QED BY <2>1, <2>2 DEF Stage
<1>5. state'.chitId <= Len(chits) /\ post'[p].chit <= Len(chits)
  BY <1>1, <1>2, <1>3 DEF Known
<1>6. post'[p].st # "photo" /\ (post[p].st = "attached" => failed')
  BY <1>2, <1>3
<1> QED
  BY <1>2, <1>3, <1>4, <1>5, <1>6, ChainPhotos

LEMMA PostedPhotos ==
    ASSUME TypeInv, PhotoInv, NEW p \in Posts, Posted(p)
    PROVE  PhotoInv'
<1>1. Known /\ AloneInv /\ Len(chits) \in Nat
  BY ChitsTyped DEF PhotoInv
<1>2. /\ UNCHANGED <<chits, taken, failed>>
      /\ state'.auth = state.auth /\ state'.image = state.image
      /\ state'.chitId = state.chitId
      /\ post[p].st = "created" /\ post'[p].chit = 0
      /\ \/ post'[p].st = "idle" /\ post'[p].alone = FALSE
         \/ /\ post'[p].st = "lookup" /\ post'[p].user = state.auth
            /\ post'[p].alone = post[p].alone
      /\ \A q \in Posts \ {p} : post'[q] = post[q]
  BY PostedFields
<1>3. post'[p].alone => post[p].alone /\ Stage(p)'
  <2> SUFFICES ASSUME post'[p].alone PROVE post[p].alone /\ Stage(p)'
    OBVIOUS
  <2>1. /\ post'[p].st = "lookup" /\ post[p].alone
        /\ post'[p].user = state'.auth
    BY <1>2
  <2>2. Newest /\ \A q \in Posts \ {p} : post'[q].st = "idle"
    BY <1>1, <1>2, <2>1 DEF AloneInv, Stage
  <2>3. Newest'
    BY <1>2, <2>2 DEF Newest
  <2> QED BY <2>1, <2>2, <2>3 DEF Stage
<1>4. state'.chitId <= Len(chits) /\ post'[p].chit <= Len(chits)
  BY <1>1, <1>2 DEF Known
<1> QED
  BY <1>2, <1>3, <1>4, ChainPhotos

\* The lookup of a chain that is alone finds the newest chit.
LEMMA LookupPhotos ==
    ASSUME TypeInv, PhotoInv, NEW p \in Posts, ServerLooksUp(p)
    PROVE  PhotoInv'
<1>1. Known /\ AloneInv /\ Len(chits) \in Nat
  BY ChitsTyped DEF PhotoInv
<1>2. /\ UNCHANGED <<state, chits, taken, failed>>
      /\ post[p].st = "lookup" /\ post'[p].st = "found"
      /\ post'[p].alone = post[p].alone
      /\ post'[p].chit \in 0..Len(chits)
      /\ \A d \in 1..Len(chits) : chits[d].author = post[p].user
                                      => d <= post'[p].chit
      /\ \A q \in Posts \ {p} : post'[q] = post[q]
  BY FoundFields DEF history
<1>3. post'[p].alone => post[p].alone /\ Stage(p)'
  <2> SUFFICES ASSUME post'[p].alone PROVE post[p].alone /\ Stage(p)'
    OBVIOUS
  <2>1. /\ post[p].alone /\ Newest /\ post[p].user = state.auth
        /\ \A q \in Posts \ {p} : post'[q].st = "idle"
    BY <1>1, <1>2 DEF AloneInv, Stage
  <2>2. Len(chits) \in 1..Len(chits) /\ chits[Len(chits)].author = post[p].user
    BY <1>1, <2>1 DEF Newest
  <2>3. post'[p].chit = Len(chits')
    BY <1>1, <1>2, <2>2
  <2>4. Newest'
    BY <1>2, <2>1 DEF Newest
  <2> QED BY <1>2, <2>1, <2>3, <2>4 DEF Stage
<1>4. state'.chitId <= Len(chits) /\ post'[p].chit <= Len(chits)
  BY <1>1, <1>2 DEF Known
<1> QED
  BY <1>2, <1>3, <1>4, ChainPhotos

LEMMA UploadsPhotos ==
    ASSUME TypeInv, PhotoInv, failed => failed', NEW p \in Posts,
           GetChitId(p) \/ GetChitIdFails(p)
    PROVE  PhotoInv'
<1>1. Known /\ AloneInv /\ Len(chits) \in Nat
  BY ChitsTyped DEF PhotoInv
<1>2. PICK id \in 0..MaxChits :
          /\ UploadPhoto(p, id) /\ post[p].st \in {"lookup", "found"}
          /\ id = 0 \/ (id = post[p].chit /\ post[p].st = "found")
  BY PostFields, Bounds DEF GetChitId, GetChitIdFails
<1>3. /\ UNCHANGED <<chits, taken>>
      /\ state'.auth = state.auth /\ state'.image = state.image
      /\ state'.chitId = IF id # 0 THEN id ELSE state.chitId
      /\ post'[p].st = "photo" /\ post'[p].chit = state'.chitId
      /\ post'[p].image = state.image
      /\ post'[p].alone = (post[p].alone /\ id # 0)
      /\ \A q \in Posts \ {p} : post'[q] = post[q]
  BY <1>2, UploadFields
<1>4. post'[p].alone => post[p].alone /\ post[p].st = "found" /\ Stage(p)'
  <2> SUFFICES ASSUME post'[p].alone
               PROVE  post[p].alone /\ post[p].st = "found" /\ Stage(p)'
    OBVIOUS
  <2>1. post[p].alone /\ id # 0 /\ post[p].st = "found" /\ id = post[p].chit
    BY <1>2, <1>3
  <2>2. /\ Newest /\ post[p].chit = Len(chits)
        /\ \A q \in Posts \ {p} : post'[q].st = "idle"
    BY <1>1, <1>3, <2>1 DEF AloneInv, Stage
  <2>3. /\ Len(chits') > 0 /\ post'[p].chit = Len(chits')
        /\ post'[p].image \in {chits'[Len(chits')].attached, None}
    BY <1>3, <2>1, <2>2 DEF Newest
  <2> QED BY <1>3, <2>1, <2>2, <2>3 DEF Stage
<1>5. state'.chitId <= Len(chits) /\ post'[p].chit <= Len(chits)
  BY <1>1, <1>2, <1>3 DEF Known
<1> QED
  BY <1>2, <1>3, <1>4, <1>5, ChainPhotos

LEMMA PhotoEndsPhotos ==
    ASSUME TypeInv, PhotoInv, NEW p \in Posts, PostPhoto(p)
    PROVE  PhotoInv'
<1>1. Known /\ Len(chits) \in Nat
  BY ChitsTyped DEF PhotoInv
<1>2. IdlePost.st = "idle" /\ IdlePost.chit = 0 /\ IdlePost.alone = FALSE
  BY DEF IdlePost
<1>3. /\ UNCHANGED <<chits, taken, failed>>
      /\ state'.auth = state.auth /\ state'.image = None
      /\ state'.chitId = state.chitId
      /\ post[p].st = "attached" /\ post'[p] = IdlePost
      /\ \A q \in Posts \ {p} : post'[q] = post[q]
  BY PhotoEnds DEF history
<1>4. state'.chitId <= Len(chits) /\ post'[p].chit <= Len(chits)
  BY <1>1, <1>2, <1>3 DEF Known
<1>5. post'[p].st # "photo" /\ ~post'[p].alone
  BY <1>2, <1>3
<1> QED
  BY <1>3, <1>4, <1>5, ChainPhotos

\* Everything that is no step of a chain.
LEMMA RestingPhotos ==
    ASSUME TypeInv, PhotoInv, failed => failed',
           \/ OpenCreate \/ Leave \/ DidFocus
           \/ \E id \in Ids : ChangeAuth(id)
           \/ \E t \in Texts \cup {None} : ChangeText(t) \/ HandleDraft(t)
           \/ OpenOverlay \/ CloseOverlay \/ Save \/ Delete
           \/ OpenDrafts \/ CloseDrafts
           \/ HandleImage \/ RemoveImage \/ RemoveLocation
           \/ \E i \in Images : ReceivedImage(i)
           \/ \E l \in Positions : HandleLocation(l) \/ PositionNext(l)
           \/ StorageNext \/ StorageFails
           \/ UNCHANGED vars
    PROVE  PhotoInv'
<1> USE DEF storage, view, history
<1>1. state \in StateT
  BY Unpacked
<1>2. ASSUME NEW i \in Images, ReceivedImage(i) PROVE PhotoInv'
  <2>1. /\ i \in Images \ taken /\ taken' = taken \cup {i} /\ state'.image = i
        /\ chits' = chits /\ post' = Disturbed /\ state'.chitId = state.chitId
    BY <1>1, <1>2 DEF ReceivedImage, StateT
  <2>2. \A p \in Posts :
            /\ post'[p].st = post[p].st /\ post'[p].user = post[p].user
            /\ post'[p].image = post[p].image /\ post'[p].chit = post[p].chit
            /\ post'[p].alone = FALSE
    BY <2>1, DisturbedTyped
  <2> QED BY <2>1, <2>2, CalmPhotos
<1>3. CASE GetAuth
  <2>1. /\ chits' = chits /\ taken' = taken /\ state'.image = state.image
        /\ state'.chitId = state.chitId /\ state'.auth = storedAuth
        /\ IF storedAuth # state.auth THEN post' = Disturbed ELSE post' = post
    BY <1>1, <1>3 DEF GetAuth, StateT
  <2>2. \A p \in Posts :
            /\ post'[p].st = post[p].st /\ post'[p].user = post[p].user
            /\ post'[p].image = post[p].image /\ post'[p].chit = post[p].chit
            /\ post'[p].alone => post[p].alone /\ state'.auth = state.auth
    BY <2>1, DisturbedTyped
  <2> QED BY <2>1, <2>2, CalmPhotos
<1>4. CASE ~GetAuth /\ ~\E i \in Images : ReceivedImage(i)
  <2>1. UNCHANGED <<chits, taken, post>>
    BY <1>4 DEF OpenCreate, Leave, DidFocus, ChangeAuth, ChangeText, HandleDraft,
       OpenOverlay, CloseOverlay, Save, Delete, OpenDrafts, CloseDrafts, HandleImage,
       RemoveImage, RemoveLocation, HandleLocation, PositionNext, GotPosition,
       GotAddress, LocationFails, StorageNext, GetDraft, SetAuth, SetDraft,
       StorageFails, SetState, vars
  <2>2. /\ state'.image \in {state.image, None} /\ state'.auth = state.auth
        /\ state'.chitId = state.chitId
    BY <1>1, <1>4 DEF OpenCreate, Leave, DidFocus, ChangeAuth, ChangeText,
       HandleDraft, OpenOverlay, CloseOverlay, Save, Delete, OpenDrafts, CloseDrafts,
       HandleImage, RemoveImage, RemoveLocation, HandleLocation, PositionNext,
       GotPosition, GotAddress, LocationFails, StorageNext, GetDraft, SetAuth,
       SetDraft, StorageFails, ResetInOverlay, SetState, StateT, vars
  <2> QED BY <2>1, <2>2, CalmPhotos
<1> QED
  BY <1>2, <1>3, <1>4

LEMMA FailedForGood ==
    ASSUME [Next]_vars, failed
    PROVE  failed'
  BY DEF Next, UserNext, StorageNext, Failures, OpenCreate, Leave, ChangeAuth,
     ChangeText, OpenOverlay, CloseOverlay, Save, Delete, OpenDrafts, CloseDrafts,
     HandleDraft, HandleImage, RemoveImage, RemoveLocation, ReceivedImage,
     HandleLocation, PostChit, SetState, DidFocus, GetAuth, GetDraft, SetAuth,
     SetDraft, StorageFails, PostNext, ServerCreates, ServerRefuses, Posted,
     PostRefused, ServerLooksUp, GetChitId, ServerAttaches, PostPhoto, PostFails,
     GetChitIdFails, PostPhotoFails, OnlyPost, UploadPhoto, Lost, PositionNext,
     GotPosition, GotAddress, LocationFails, vars, history

LEMMA PhotoInvariant == Spec => []PhotoInv
<1>1. Init => PhotoInv
  <2> SUFFICES ASSUME Init PROVE PhotoInv
    OBVIOUS
  <2>1. /\ Len(chits) = 0 /\ state.image = None /\ state.chitId = 0
        /\ \A p \in Posts : /\ post[p].st = "idle" /\ post[p].chit = 0
                            /\ post[p].alone = FALSE
    BY DEF Init, IdlePost
  <2>2. Taken /\ Known /\ Gone
    BY <2>1 DEF Taken, Known, Gone
  <2>3. AloneInv /\ PhotoOnItsChit /\ Free /\ PhotoOnOneChit
    BY <2>1 DEF AloneInv, PhotoOnItsChit, Free, PhotoOnOneChit
  <2> QED BY <2>2, <2>3 DEF PhotoInv
<1>2. TypeInv /\ PhotoInv /\ [Next]_vars => PhotoInv'
  <2> SUFFICES ASSUME TypeInv, PhotoInv, [Next]_vars PROVE PhotoInv'
    OBVIOUS
  <2>1. failed => failed'
    BY FailedForGood
  <2>2. ASSUME NEW p \in Posts,
               \/ PostChit(p) \/ PostNext(p)
               \/ PostFails(p) \/ GetChitIdFails(p) \/ PostPhotoFails(p)
        PROVE  PhotoInv'
    BY <2>1, <2>2, PressPhotos, CreatesPhotos, AttachesPhotos, EndsPhotos,
       PostedPhotos, LookupPhotos, UploadsPhotos, PhotoEndsPhotos DEF PostNext
  <2> QED BY <2>1, <2>2, RestingPhotos DEF Next, UserNext, Failures
<1> QED
  BY <1>1, <1>2, TypeInvariant, PTL DEF Spec

\* For any number of accounts, photos and chits posted at once, with failures: a
\* chit has no photo but the one attached when its Chit button was pressed, unless
\* another chit, photo or key came between or the lookup failed (PostChit.js
\* uploadPhoto, getChitId, postPhoto).
THEOREM PhotoEndsOnItsChit == Spec => []PhotoOnItsChit
<1>1. PhotoInv => PhotoOnItsChit
  BY DEF PhotoInv
<1> QED
  BY <1>1, PhotoInvariant, PTL

\* For any number of accounts, photos and chits posted at once: until a call fails
\* no photo is on two chits, unless something came between on one of them
\* (PostChit.js uploadPhoto, postPhoto).
THEOREM PhotoEndsOnOneChit == Spec => []PhotoOnOneChit
<1>1. PhotoInv => PhotoOnOneChit
  BY DEF PhotoInv
<1> QED
  BY <1>1, PhotoInvariant, PTL

\* For any number of accounts, photos and chits posted at once, whichever ids the
\* lookups find and whatever fails: a photo that was out of the composer when a
\* chit was created never gets on that chit (PostChit.js uploadPhoto, postPhoto).
THEOREM RemovedPhotosStayOff == Spec => []RemovedPhotoStaysOff
<1>1. PhotoInv => RemovedPhotoStaysOff
  BY DEF PhotoInv, Gone, RemovedPhotoStaysOff
<1> QED
  BY <1>1, PhotoInvariant, PTL
=============================================================================
