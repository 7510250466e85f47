----------------------------- MODULE FeedProofs -----------------------------
(***************************************************************************)
(* Proofs about Feed for every number of chits and of overlapping chains,  *)
(* with and without failures.                                              *)
(***************************************************************************)
EXTENDS Feed, Integers, TLAPS

\* Entries belong to the chit they are filed under, and no chit has two
\* addresses.
Matching(images, locations) ==
    /\ \A p \in images : p.image = p.id
    /\ \A l \in locations : l.location \in {l.id, 0}
    /\ \A l, m \in locations : l.id = m.id => l = m

(***************************************************************************)
(* The inductive invariant: while a chain is in its loop it stands at a    *)
(* chit of the list it started with, reads that chit's photo and has       *)
(* addresses of earlier chits only; and what it has collected so far is    *)
(* matched as well as what the screen shows.                               *)
(***************************************************************************)
InLoop == {"photo", "file", "place"}

OnList ==
    \A c \in Chains :
        /\ chain[c].st \in InLoop => /\ chain[c].at \in 1..chain[c].list
                                    /\ \A l \in chain[c].list1 : l.id < chain[c].at
        /\ chain[c].st \notin InLoop => chain[c].at = 0 /\ chain[c].list1 = {}
        /\ chain[c].st = "file" => chain[c].data = chain[c].at

Collected == \A c \in Chains : Matching(chain[c].list0, chain[c].list1)

Matched == Matching(photoList, locationList)

IInv == TypeOK /\ OnList /\ Collected /\ Matched

\* A chain's record that may go on: its parts have their types and match.
Fit(r) == r \in ChainState /\ Matching(r.list0, r.list1)

(***************************************************************************)
(* Whether the loop goes on or ends, it stays on the list, and what it     *)
(* hands to the screen is matched (HomeScreen.js getApiData).              *)
(***************************************************************************)
LEMMA LoopStep ==
    ASSUME IInv, NEW c \in Chains, NEW r, Fit(r), LoopOn(c, r),
           \A l \in r.list1 : l.id <= r.at
    PROVE  /\ chain' \in [Chains -> ChainState]
           /\ \A d \in Chains : chain'[d].at <= chain'[d].list
           /\ photoList' \in SUBSET Images
           /\ locationList' \in SUBSET Locations
           /\ isLoading' \in BOOLEAN
           /\ last' \in [list : 0..MaxChits, due : SUBSET Ids]
           /\ OnList' /\ Collected' /\ Matched'
<1> USE ConstantsOK DEF IInv, TypeOK, Fit
<1>1. CASE r.at < r.list
  <2> DEFINE n == [r EXCEPT !.st = "photo", !.at = @ + 1]
  <2>1. /\ n \in ChainState /\ n.st = "photo"
        /\ n.at \in 1..n.list /\ n.at <= n.list
        /\ n.list0 = r.list0 /\ n.list1 = r.list1
        /\ \A l \in n.list1 : l.id < n.at
    <3>1. r.at \in 0..MaxChits /\ r.list \in 0..MaxChits
      BY DEF ChainState
    <3>2. r.at + 1 \in 0..MaxChits /\ r.at + 1 \in 1..r.list
      BY <1>1, <3>1
    <3>3. \A l \in r.list1 : l.id \in Nat
      BY DEF ChainState, Locations, Ids
    <3>4. n \in ChainState /\ n.st = "photo" /\ n.at = r.at + 1 /\ n.list = r.list
          /\ n.list0 = r.list0 /\ n.list1 = r.list1
      BY <3>2 DEF ChainState
    <3> HIDE DEF n
    <3>5. \A l \in n.list1 : l.id < n.at
      BY <3>1, <3>3, <3>4
    <3>6. n.at <= n.list
      BY <1>1, <3>1, <3>4
    <3> QED BY <3>2, <3>4, <3>5, <3>6
  <2>2. /\ chain' = [chain EXCEPT ![c] = n]
        /\ UNCHANGED <<photoList, locationList, isLoading, last>>
    BY <1>1 DEF LoopOn
  <2> HIDE DEF n
  <2>3. \A d \in Chains : chain'[d] = IF d = c THEN n ELSE chain[d]
    BY <2>2
  <2>4. OnList'
    BY <2>1, <2>3 DEF OnList, InLoop
  <2>5. Collected' /\ Matched'
    BY <2>1, <2>2, <2>3 DEF Collected, Matched
  <2> QED
    BY <2>1, <2>2, <2>3, <2>4, <2>5
<1>2. CASE ~(r.at < r.list)
  <2>1. /\ IdleChain \in ChainState
        /\ IdleChain.st = "idle" /\ IdleChain.at = 0 /\ IdleChain.list = 0
        /\ IdleChain.list1 = {}
        /\ Matching(IdleChain.list0, IdleChain.list1)
    BY DEF IdleChain, ChainState, Matching
  <2>2. /\ chain' = [chain EXCEPT ![c] = IdleChain]
        /\ photoList' = r.list0
        /\ locationList' = r.list1
        /\ isLoading' = FALSE
        /\ last' = [list |-> r.list, due |-> r.due]
    BY <1>2 DEF LoopOn
  <2>3. \A d \in Chains : chain'[d] = IF d = c THEN IdleChain ELSE chain[d]
    BY <2>2
  <2>4. OnList'
    BY <2>1, <2>3 DEF OnList, InLoop
  <2>5. Collected' /\ Matched'
    BY <2>1, <2>2, <2>3 DEF Collected, Matched
  <2>6. /\ photoList' \in SUBSET Images /\ locationList' \in SUBSET Locations
        /\ last' \in [list : 0..MaxChits, due : SUBSET Ids]
    BY <2>2 DEF ChainState
  <2>7. chain' \in [Chains -> ChainState]
    BY <2>1, <2>2
  <2>8. \A d \in Chains : chain'[d].at <= chain'[d].list
    BY <2>1, <2>3
  <2> QED
    BY <2>2, <2>4, <2>5, <2>6, <2>7, <2>8
<1> QED
  BY <1>1, <1>2

(***************************************************************************)
(* The same for the step that leaves a chit's photo behind, in which the   *)
(* chain may turn to the chit's place first (HomeScreen.js getApiData).    *)
(***************************************************************************)
LEMMA PhotoStep ==
    ASSUME IInv, NEW c \in Chains, NEW r, Fit(r), PhotoDone(c, r),
           r.at \in 1..r.list, \A l \in r.list1 : l.id < r.at
    PROVE  /\ chain' \in [Chains -> ChainState]
           /\ \A d \in Chains : chain'[d].at <= chain'[d].list
           /\ photoList' \in SUBSET Images
           /\ locationList' \in SUBSET Locations
           /\ isLoading' \in BOOLEAN
           /\ last' \in [list : 0..MaxChits, due : SUBSET Ids]
           /\ OnList' /\ Collected' /\ Matched'
<1>1. CASE r.at \in places
  <2> DEFINE n == [r EXCEPT !.st = "place"]
  <2>1. /\ n \in ChainState /\ n.st = "place" /\ n.list = r.list
        /\ n.at = r.at
        /\ n.list0 = r.list0 /\ n.list1 = r.list1
    BY DEF ChainState, Fit
  <2>2. /\ chain' = [chain EXCEPT ![c] = n]
        /\ UNCHANGED <<photoList, locationList, isLoading, last>>
    BY <1>1 DEF PhotoDone
  <2> HIDE DEF n
  <2>3. \A d \in Chains : chain'[d] = IF d = c THEN n ELSE chain[d]
    BY <2>2 DEF IInv, TypeOK
  <2>4. OnList'
    BY <2>1, <2>3 DEF OnList, InLoop, IInv
  <2>5. Collected' /\ Matched'
    BY <2>1, <2>2, <2>3 DEF Collected, Matched, IInv, Fit
  <2>6. n.at <= n.list
    BY <2>1 DEF Fit, ChainState
  <2> QED
    BY <2>1, <2>2, <2>3, <2>4, <2>5, <2>6 DEF IInv, TypeOK
<1>2. CASE r.at \notin places
  <2>1. \A l \in r.list1 : l.id <= r.at
    BY DEF Fit, ChainState, Locations, Ids
  <2> QED
    BY <1>2, <2>1, LoopStep DEF PhotoDone
<1> QED
  BY <1>1, <1>2

(***************************************************************************)
(* The records of an idle chain and of one that has just started           *)
(* (HomeScreen.js componentDidMount, handleRefresh).                       *)
(***************************************************************************)
LEMMA FreshChains ==
    ASSUME photos \in SUBSET Ids
    PROVE  /\ IdleChain \in ChainState
           /\ IdleChain.st = "idle" /\ IdleChain.list = 0 /\ IdleChain.at = 0
           /\ IdleChain.list0 = {} /\ IdleChain.list1 = {}
           /\ IdleChain.due = {}
           /\ Started \in ChainState
           /\ Started.st = "sent" /\ Started.list = 0 /\ Started.at = 0
           /\ Started.list0 = {} /\ Started.list1 = {}
           /\ Started.due = photos
<1>1. 0 \in 0..MaxChits
  BY ConstantsOK
<1>2. /\ IdleChain \in ChainState
      /\ IdleChain.st = "idle" /\ IdleChain.list = 0 /\ IdleChain.at = 0
      /\ IdleChain.list0 = {} /\ IdleChain.list1 = {}
      /\ IdleChain.due = {}
  BY <1>1 DEF IdleChain, ChainState
<1>3. /\ Started \in ChainState
      /\ Started.st = "sent" /\ Started.list = 0 /\ Started.at = 0
      /\ Started.list0 = {} /\ Started.list1 = {}
      /\ Started.due = photos
  BY <1>1 DEF Started, IdleChain, ChainState
<1> QED
  BY <1>2, <1>3

(***************************************************************************)
(* A freshly mounted screen satisfies the invariant.                       *)
(***************************************************************************)
LEMMA InitIInv == Init => IInv
<1> SUFFICES ASSUME Init PROVE IInv
  OBVIOUS
<1> USE ConstantsOK DEF Init
<1>1. PICK c \in Chains : chain = [d \in Chains |->
          IF d = c THEN Started ELSE IdleChain]
  OBVIOUS
<1>0. 1..posted \subseteq Ids
  BY DEF Ids
<1>2. /\ IdleChain \in ChainState /\ IdleChain.st = "idle"
      /\ Started \in ChainState /\ Started.st = "sent"
      /\ IdleChain.at = 0 /\ IdleChain.list = 0
      /\ Started.at = 0 /\ Started.list = 0
      /\ Started.list0 = {} /\ Started.list1 = {}
      /\ IdleChain.list0 = {} /\ IdleChain.list1 = {}
  BY <1>0, FreshChains
<1>3. TypeOK
  <2>1. /\ chain \in [Chains -> ChainState]
        /\ \A d \in Chains : chain[d].at <= chain[d].list
    BY <1>1, <1>2
  <2>3. /\ photos \in SUBSET Ids /\ places \in SUBSET Ids
        /\ last \in [list : 0..MaxChits, due : SUBSET Ids]
    BY <1>0
  <2>4. /\ posted \in 0..MaxChits /\ chitListData \in 0..MaxChits
    OBVIOUS
  <2>5. /\ photoList \in SUBSET Images /\ locationList \in SUBSET Locations
        /\ isLoading \in BOOLEAN
    OBVIOUS
  <2> QED BY Zenon, <2>1, <2>3, <2>4, <2>5 DEF TypeOK
<1>4. OnList /\ Collected /\ Matched
  BY <1>1, <1>2 DEF OnList, InLoop, Collected, Matched, Matching
<1> QED
  BY <1>3, <1>4 DEF IInv

(***************************************************************************)
(* Every step keeps the invariant.                                         *)
(***************************************************************************)
LEMMA NextIInv == IInv /\ [Next]_vars => IInv'
<1> SUFFICES ASSUME IInv, [Next]_vars PROVE IInv'
  OBVIOUS
<1> USE ConstantsOK
<1>0. \A c \in Chains : Fit(chain[c])
  BY DEF IInv, TypeOK, Collected, Fit
<1>1. ASSUME NEW b \in BOOLEAN, ServerGetsChit(b) PROVE IInv'
  <2>1. posted' \in 0..MaxChits /\ places' \in SUBSET Ids
    BY <1>1 DEF ServerGetsChit, IInv, TypeOK, Ids
  <2> QED
    BY <1>1, <2>1 DEF ServerGetsChit, IInv, TypeOK, OnList, Collected,
                      Matched
<1>2. ASSUME NEW i \in Ids, ServerGetsPhoto(i) PROVE IInv'
  BY <1>2 DEF ServerGetsPhoto, IInv, TypeOK, OnList, Collected, Matched
<1>3. ASSUME NEW c \in Chains, ServerLists(c) PROVE IInv'
  <2> DEFINE n == [chain[c] EXCEPT !.st = "listed", !.list = posted]
  <2>1. chain' = [chain EXCEPT ![c] = n]
    BY <1>3 DEF ServerLists, IInv, TypeOK
  <2>2. /\ n \in ChainState /\ n.st = "listed"
        /\ n.list0 = chain[c].list0 /\ n.list1 = chain[c].list1
    BY <1>0 DEF IInv, TypeOK, Fit, ChainState
  <2>3. chain[c].st = "sent" /\ chain[c].at = 0 /\ chain[c].list1 = {}
    BY <1>3 DEF ServerLists, IInv, OnList, InLoop
  <2>4. n.at = 0 /\ n.list = posted /\ 0 <= posted
    BY <1>0, <2>3 DEF Fit, ChainState, IInv, TypeOK
  <2> HIDE DEF n
  <2>5. \A d \in Chains : chain'[d] = IF d = c THEN n ELSE chain[d]
    BY <2>1 DEF IInv, TypeOK
  <2>a. OnList'
    BY <2>2, <2>3, <2>4, <2>5 DEF IInv, OnList, InLoop
  <2>6. OnList' /\ Collected' /\ Matched'
    BY <1>3, <2>2, <2>5, <2>a DEF ServerLists, IInv, Collected, Matched
  <2>7. TypeOK'
    BY <1>3, <2>1, <2>2, <2>4, <2>5 DEF ServerLists, IInv, TypeOK
  <2> QED
    BY <2>6, <2>7 DEF IInv
<1>4. ASSUME NEW c \in Chains, HandleRefresh(c) PROVE IInv'
  <2>1. /\ Started \in ChainState /\ Started.st = "sent" /\ Started.at = 0
        /\ Started.list = 0 /\ Started.list1 = {}
        /\ Matching(Started.list0, Started.list1)
    BY FreshChains DEF Matching, IInv, TypeOK
  <2>2. \A d \in Chains : chain'[d] = IF d = c THEN Started ELSE chain[d]
    BY <1>4 DEF HandleRefresh, IInv, TypeOK
  <2>3. OnList' /\ Collected' /\ Matched'
    BY <1>4, <2>1, <2>2
       DEF HandleRefresh, IInv, OnList, InLoop, Collected, Matched
  <2>4. TypeOK'
    BY <1>4, <2>1, <2>2 DEF HandleRefresh, IInv, TypeOK
  <2> QED
    BY <2>3, <2>4 DEF IInv
<1>5. ASSUME NEW c \in Chains, GetData(c) PROVE IInv'
  <2>1. chitListData' \in 0..MaxChits
    BY <1>5, <1>0 DEF GetData, Fit, ChainState
  <2>2. chain[c].list1 = {}
    BY <1>5 DEF GetData, IInv, OnList, InLoop
  <2> QED
    BY <1>5, <1>0, <2>1, <2>2, LoopStep DEF GetData, IInv, TypeOK
<1>6. ASSUME NEW c \in Chains, GetDataFails(c) PROVE IInv'
  <2> DEFINE n == [chain[c] EXCEPT !.list = chitListData,
                                   !.due = @ \cap 1..chitListData]
  <2>1. Fit(n)
    BY <1>0 DEF IInv, TypeOK, Fit, ChainState
  <2>2. LoopOn(c, n) /\ UNCHANGED <<posted, photos, places, chitListData>>
    BY <1>6 DEF GetDataFails
  <2>3. n.list1 = {}
    BY <1>0, <1>6 DEF GetDataFails, IInv, OnList, InLoop, Fit, ChainState
  <2> HIDE DEF n
  <2> QED
    BY <2>1, <2>2, <2>3, LoopStep DEF IInv, TypeOK
<1>7. ASSUME NEW c \in Chains, GetPhoto(c) PROVE IInv'
  <2> DEFINE r == chain[c]
             n == [r EXCEPT !.st = "file", !.data = r.at]
  <2>1. /\ r.st = "photo" /\ r.at \in 1..r.list /\ Fit(r)
        /\ \A l \in r.list1 : l.id < r.at
        /\ UNCHANGED <<posted, photos, places, chitListData>>
    BY <1>7, <1>0 DEF GetPhoto, OnList, InLoop, IInv
  <2>2. CASE r.at \in photos
    <3>1. /\ chain' = [chain EXCEPT ![c] = n]
          /\ UNCHANGED <<photoList, locationList, isLoading, last>>
      BY <1>7, <2>2 DEF GetPhoto, IInv, TypeOK
    <3>2. /\ n \in ChainState /\ n.st = "file" /\ n.data = r.at /\ n.at = r.at
          /\ n.list = r.list /\ n.list0 = r.list0 /\ n.list1 = r.list1
      BY <2>1 DEF Fit, ChainState
    <3> HIDE DEF n
    <3>3. \A d \in Chains : chain'[d] = IF d = c THEN n ELSE chain[d]
      BY <3>1 DEF IInv, TypeOK
    <3>4. OnList'
      BY <2>1, <3>2, <3>3 DEF IInv, OnList, InLoop
    <3>5. Collected' /\ Matched'
      BY <3>1, <3>2, <3>3 DEF IInv, Collected, Matched
    <3>6. TypeOK'
      BY <2>1, <3>1, <3>2, <3>3 DEF IInv, TypeOK
    <3> QED BY <3>4, <3>5, <3>6 DEF IInv
  <2>3. CASE r.at \notin photos
    <3>1. PhotoDone(c, r)
      BY <1>7, <2>3 DEF GetPhoto
    <3> QED
      BY <2>1, <3>1, PhotoStep DEF IInv, TypeOK
  <2> QED BY <2>2, <2>3
<1>13. ASSUME NEW c \in Chains, ReadFile(c) PROVE IInv'
  <2> DEFINE r == chain[c]
             e == [id |-> r.at, image |-> r.data]
             n == [r EXCEPT !.data = 0, !.list0 = @ \cup {e}]
  <2>1. /\ r.st = "file" /\ r.at \in 1..r.list /\ Fit(r) /\ r.data = r.at
        /\ \A l \in r.list1 : l.id < r.at
    BY <1>13, <1>0 DEF ReadFile, OnList, InLoop, IInv
  <2>2. e \in Images /\ e.image = e.id
    BY <2>1 DEF Fit, ChainState, Images, Ids
  <2>a. r \in ChainState /\ Matching(r.list0, r.list1) /\ 0 \in 0..MaxChits
    BY <2>1 DEF Fit
  <2> HIDE DEF e, r
  <2>b. n \in ChainState
    BY <2>2, <2>a DEF ChainState
  <2>c. /\ n.at = r.at /\ n.list = r.list /\ n.list1 = r.list1
        /\ n.list0 = r.list0 \cup {e}
    BY <2>a DEF ChainState
  <2> HIDE DEF n
  <2>3. /\ Fit(n) /\ n.at = r.at /\ n.list = r.list /\ n.list1 = r.list1
    BY <2>2, <2>a, <2>b, <2>c DEF Fit, Matching
  <2> USE DEF e, r, n
  <2>4. PhotoDone(c, n) /\ UNCHANGED <<posted, photos, places, chitListData>>
    BY <1>13 DEF ReadFile
  <2> HIDE DEF n
  <2> QED
    BY <2>1, <2>3, <2>4, PhotoStep DEF IInv, TypeOK
<1>8. ASSUME NEW c \in Chains, GetPhotoFails(c) PROVE IInv'
  <2> DEFINE n == [chain[c] EXCEPT !.data = 0, !.due = @ \ {chain[c].at}]
  <2>1. chain[c].at \in 1..chain[c].list /\ \A l \in chain[c].list1 : l.id < chain[c].at
    BY <1>8 DEF GetPhotoFails, OnList, InLoop, IInv
  <2>a. chain[c] \in ChainState /\ 0 \in 0..MaxChits
    BY <1>0 DEF Fit
  <2>b. n \in ChainState
    BY <2>a DEF ChainState
  <2>c. /\ n.at = chain[c].at /\ n.list = chain[c].list
        /\ n.list1 = chain[c].list1 /\ n.list0 = chain[c].list0
    BY <2>a DEF ChainState
  <2> HIDE DEF n
  <2>2. Fit(n) /\ n.at = chain[c].at /\ n.list = chain[c].list
        /\ n.list1 = chain[c].list1
    BY <1>0, <2>b, <2>c DEF Fit
  <2> USE DEF n
  <2>3. PhotoDone(c, n) /\ UNCHANGED <<posted, photos, places, chitListData>>
    BY <1>8 DEF GetPhotoFails
  <2> HIDE DEF n
  <2> QED
    BY <2>1, <2>2, <2>3, PhotoStep DEF IInv, TypeOK
<1>9. ASSUME NEW c \in Chains, NEW a \in {0, chain[c].at},
             chain[c].st = "place",
             LoopOn(c, [chain[c] EXCEPT !.list1 = @ \cup
                           {[id |-> chain[c].at, location |-> a]}]),
             UNCHANGED <<posted, photos, places, chitListData>>
      PROVE  IInv'
  <2> DEFINE r == chain[c]
             e == [id |-> r.at, location |-> a]
             n == [r EXCEPT !.list1 = @ \cup {e}]
  <2>1. r.at \in 1..r.list /\ Fit(r) /\ \A l \in r.list1 : l.id < r.at
    BY <1>9, <1>0 DEF OnList, InLoop, IInv
  <2>2. e \in Locations /\ e.location \in {e.id, 0} /\ e.id = r.at
    BY <2>1, <1>9 DEF Fit, ChainState, Locations, Ids
  <2>3. /\ n \in ChainState /\ n.at = r.at /\ n.list0 = r.list0
        /\ n.list1 = r.list1 \cup {e}
    BY <2>1, <2>2 DEF Fit, ChainState
  <2>4. LoopOn(c, n)
    BY <1>9
  <2> HIDE DEF n
  <2>5. r.at \in Nat /\ \A l \in r.list1 : l.id \in Nat
    BY <2>1 DEF Fit, ChainState, Locations, Ids
  <2> HIDE DEF e
  <2>6. \A l \in n.list1 : l.id <= n.at
    BY <2>1, <2>2, <2>3, <2>5
  <2>7. Matching(n.list0, n.list1)
    BY <2>1, <2>2, <2>3, <2>5 DEF Fit, Matching
  <2> QED
    BY <1>9, <2>3, <2>4, <2>6, <2>7, LoopStep DEF IInv, TypeOK, Fit
<1>10. ASSUME NEW c \in Chains, GetLocation(c) PROVE IInv'
  BY <1>9, <1>10 DEF GetLocation
<1>11. ASSUME NEW c \in Chains, GetLocationFails(c) PROVE IInv'
  BY <1>9, <1>11 DEF GetLocationFails
<1>12. CASE UNCHANGED vars
  BY <1>12 DEF vars, IInv, TypeOK, OnList, Collected, Matched
<1> QED
  BY <1>1, <1>2, <1>3, <1>4, <1>5, <1>6, <1>7, <1>8, <1>10, <1>11, <1>12,
     <1>13 DEF Next, ChainNext, Failures

(***************************************************************************)
(* The server's chits, the screen's lists and the chains always have their *)
(* types; in particular no chain runs past the end of its list.            *)
(***************************************************************************)
THEOREM TypeCorrect == Spec => []TypeOK
<1>1. IInv => TypeOK
  BY DEF IInv
<1> QED
  BY InitIInv, NextIInv, <1>1, PTL DEF Spec

-----------------------------------------------------------------------------
(***************************************************************************)
(* For completeness the invariant says how far the loop of a chain is: the *)
(* photos that are due are collected up to the chit before the one it is   *)
(* at (in "place" up to that one), the places up to the chit before it.    *)
(* What is due is on the list, because the server never forgets a chit.    *)
(***************************************************************************)
Collects(r, n0, n1) ==
    /\ \A i \in r.due : i <= n0 => \E p \in r.list0 : p.id = i
    /\ \A i \in places : i <= n1 => \E l \in r.list1 : l.id = i

Progress(r) ==
    /\ r.due \subseteq photos
    /\ r.list <= posted
    /\ r.st \in {"sent", "listed"} => r.at = 0
    /\ r.st \in {"listed", "photo", "file", "place"} => r.due \subseteq 1..r.list
    /\ r.st \in {"photo", "file"} => Collects(r, r.at - 1, r.at - 1)
    /\ r.st = "place" => Collects(r, r.at, r.at - 1)

\* Everything that is due has an entry.
Found == /\ \A i \in last.due : \E p \in photoList : p.id = i
         /\ \A i \in places \cap 1..last.list : \E l \in locationList : l.id = i

Numbered == /\ photos \subseteq 1..posted
            /\ places \subseteq 1..posted
            /\ chitListData <= posted
            /\ last.list <= posted

CInv == /\ IInv
        /\ Numbered
        /\ \A c \in Chains : Progress(chain[c])
        /\ Found

(***************************************************************************)
(* When everything up to chit r.at has been collected, the loop may go on, *)
(* and if it ends what it hands to the screen is complete (HomeScreen.js   *)
(* getApiData).                                                            *)
(***************************************************************************)
LEMMA LoopCompletes ==
    ASSUME CInv, NEW c \in Chains, NEW r, Fit(r), LoopOn(c, r),
           r.due \subseteq photos, r.list <= posted, r.due \subseteq 1..r.list,
           Collects(r, r.at, r.at),
           UNCHANGED <<posted, photos, places>>
    PROVE  /\ \A d \in Chains : Progress(chain[d])'
           /\ Found'
           /\ last'.list <= posted
<1> USE ConstantsOK DEF CInv, IInv, TypeOK, Fit
<1>0. r.at \in Nat /\ r.list \in Nat /\ posted \in Nat
  BY DEF ChainState
<1>1. CASE r.at < r.list
  <2> DEFINE n == [r EXCEPT !.st = "photo", !.at = @ + 1]
  <2>1. /\ n.st = "photo" /\ n.at - 1 = r.at
        /\ n.list0 = r.list0 /\ n.list1 = r.list1
        /\ n.due = r.due /\ n.list = r.list
    BY <1>0 DEF ChainState
  <2>2. /\ chain' = [chain EXCEPT ![c] = n]
        /\ UNCHANGED <<photoList, locationList, isLoading, last>>
    BY <1>1 DEF LoopOn
  <2> HIDE DEF n
  <2>3. Progress(n)
    BY <2>1 DEF Progress, Collects
  <2>4. ASSUME NEW d \in Chains PROVE Progress(chain'[d])
    BY <2>2, <2>3
  <2>5. \A d \in Chains : Progress(chain[d])'
    BY <2>4 DEF Progress, Collects
  <2> QED
    BY <2>2, <2>5 DEF Found, Numbered
<1>2. CASE ~(r.at < r.list)
  <2>1. /\ chain' = [chain EXCEPT ![c] = IdleChain]
        /\ photoList' = r.list0
        /\ locationList' = r.list1
        /\ last' = [list |-> r.list, due |-> r.due]
    BY <1>2 DEF LoopOn
  <2>2. Progress(IdleChain)
    BY <1>0, FreshChains DEF Progress
  <2>3. ASSUME NEW d \in Chains PROVE Progress(chain'[d])
    BY <2>1, <2>2
  <2>4. \A d \in Chains : Progress(chain[d])'
    BY <2>3 DEF Progress, Collects
  <2>5. /\ \A i \in r.due : i <= r.at
        /\ \A i \in places \cap 1..r.list : i <= r.at
    BY <1>0, <1>2
  <2>6. Found'
    BY <2>1, <2>5 DEF Found, Collects
  <2> QED
    BY <2>1, <2>4, <2>6
<1> QED
  BY <1>1, <1>2

(***************************************************************************)
(* The same for the step that leaves a chit's photo behind (HomeScreen.js  *)
(* getApiData).                                                            *)
(***************************************************************************)
LEMMA PhotoCompletes ==
    ASSUME CInv, NEW c \in Chains, NEW r, Fit(r), PhotoDone(c, r),
           r.due \subseteq photos, r.list <= posted, r.due \subseteq 1..r.list,
           Collects(r, r.at, r.at - 1),
           UNCHANGED <<posted, photos, places>>
    PROVE  /\ \A d \in Chains : Progress(chain[d])'
           /\ Found'
           /\ last'.list <= posted
<1>1. CASE r.at \in places
  <2> DEFINE n == [r EXCEPT !.st = "place"]
  <2>1. /\ n.st = "place" /\ n.at = r.at
        /\ n.list0 = r.list0 /\ n.list1 = r.list1
        /\ n.due = r.due /\ n.list = r.list
    BY DEF ChainState, Fit
  <2>2. /\ chain' = [chain EXCEPT ![c] = n]
        /\ UNCHANGED <<photoList, locationList, isLoading, last>>
    BY <1>1 DEF PhotoDone
  <2> HIDE DEF n
  <2>3. Progress(n)
    BY <2>1 DEF Progress, Collects
  <2>4. ASSUME NEW d \in Chains PROVE Progress(chain'[d])
    BY <2>2, <2>3 DEF CInv, IInv, TypeOK
  <2>5. \A d \in Chains : Progress(chain[d])'
    BY <2>4 DEF Progress, Collects
  <2> QED
    BY <2>2, <2>5 DEF Found, Numbered, CInv
<1>2. CASE r.at \notin places
  <2>1. ASSUME NEW i \in places, i <= r.at PROVE i <= r.at - 1
    BY <1>2, <2>1 DEF Fit, ChainState, CInv, IInv, TypeOK, Ids
  <2>2. Collects(r, r.at, r.at)
    BY <2>1 DEF Collects
  <2> QED
    BY <1>2, <2>2, LoopCompletes DEF PhotoDone
<1> QED
  BY <1>1, <1>2

(***************************************************************************)
(* A freshly mounted screen has nothing to show and owes nothing yet.      *)
(***************************************************************************)
LEMMA InitCInv == Init => CInv
<1> SUFFICES ASSUME Init PROVE CInv
  OBVIOUS
<1> USE ConstantsOK
<1>1. IInv
  BY InitIInv
<1>2. PICK c \in Chains : chain = [d \in Chains |->
          IF d = c THEN Started ELSE IdleChain]
  BY DEF Init
<1>3. photos \in SUBSET Ids /\ posted \in Nat
  BY <1>1 DEF IInv, TypeOK
<1>4. Progress(Started) /\ Progress(IdleChain)
  BY <1>3, FreshChains DEF Progress
<1>5. \A d \in Chains : Progress(chain[d])
  BY <1>2, <1>4
<1>6. Numbered /\ Found
  BY DEF Init, Numbered, Found
<1> QED
  BY <1>1, <1>5, <1>6 DEF CInv

(***************************************************************************)
(* Every step keeps the progress of every chain and the completeness of    *)
(* what is shown.                                                          *)
(***************************************************************************)
LEMMA NextCInv == CInv /\ [Next]_vars => CInv'
<1> SUFFICES ASSUME CInv, [Next]_vars PROVE CInv'
  OBVIOUS
<1> USE ConstantsOK
<1>0. IInv'
  BY NextIInv DEF CInv
<1>a. \A c \in Chains : Fit(chain[c]) /\ Progress(chain[c])
  BY DEF CInv, IInv, TypeOK, Collected, Fit
<1>b. posted \in Nat /\ chitListData \in Nat /\ last.list \in Nat
  BY DEF CInv, IInv, TypeOK
<1>1. ASSUME NEW b \in BOOLEAN, ServerGetsChit(b) PROVE CInv'
  <2>1. /\ posted' = posted + 1 /\ photos' = photos
        /\ places' \subseteq places \cup {posted + 1}
        /\ UNCHANGED <<chitListData, photoList, locationList, chain, last>>
    BY <1>1 DEF ServerGetsChit
  <2>2. Numbered'
    BY <1>b, <2>1 DEF CInv, Numbered
  <2>3. ASSUME NEW c \in Chains PROVE Progress(chain[c])'
    <3> DEFINE r == chain[c]
    <3>1. r.at \in Nat /\ r.list \in Nat /\ r.due \subseteq Nat
      BY <1>a DEF Fit, ChainState, Ids
    <3>2. r.st \in InLoop => r.at - 1 < posted + 1
      BY <1>a, <1>b, <3>1 DEF CInv, IInv, OnList, Progress
    <3>3. \A n \in Int : n < posted + 1 =>
              \A m \in Int : Collects(r, m, n) => Collects(r, m, n)'
      BY <1>b, <2>1 DEF Collects
    <3>4. r.at \in Int /\ r.at - 1 \in Int
      BY <3>1
    <3> QED
      BY <1>a, <1>b, <2>1, <3>1, <3>2, <3>3, <3>4 DEF Progress, InLoop
  <2>4. Found'
    BY <1>b, <2>1 DEF CInv, Numbered, Found
  <2> QED
    BY <1>0, <2>2, <2>3, <2>4 DEF CInv
<1>2. ASSUME NEW i \in Ids, ServerGetsPhoto(i) PROVE CInv'
  <2>1. /\ photos' = photos \cup {i} /\ i \in 1..posted
        /\ UNCHANGED <<posted, places, chitListData, photoList, locationList,
                       chain, last>>
    BY <1>2 DEF ServerGetsPhoto
  <2> QED
    BY <1>0, <2>1 DEF CInv, Numbered, Progress, Collects, Found
<1>3. ASSUME NEW c \in Chains, ServerLists(c) PROVE CInv'
  <2> DEFINE n == [chain[c] EXCEPT !.st = "listed", !.list = posted]
  <2>1. /\ chain' = [chain EXCEPT ![c] = n]
        /\ UNCHANGED <<posted, photos, places, chitListData, photoList,
                       locationList, last>>
        /\ chain[c].st = "sent"
    BY <1>3 DEF ServerLists, CInv, IInv, TypeOK
  <2>2. /\ n.st = "listed" /\ n.list = posted
        /\ n.at = chain[c].at /\ n.due = chain[c].due
    BY <1>a DEF Fit, ChainState
  <2> HIDE DEF n
  <2>3. Progress(n)
    <3>1. chain[c].due \subseteq photos /\ chain[c].at = 0
      BY <1>a, <2>1 DEF Progress
    <3>2. n.due \subseteq photos /\ n.due \subseteq 1..n.list /\ n.at = 0
      BY <2>2, <3>1 DEF CInv, Numbered
    <3> QED
      BY <1>b, <2>2, <3>2 DEF Progress
  <2>4. ASSUME NEW d \in Chains PROVE Progress(chain'[d])
    BY <1>a, <2>1, <2>3 DEF CInv, IInv, TypeOK
  <2>5. \A d \in Chains : Progress(chain[d])'
    BY <2>1, <2>4 DEF Progress, Collects
  <2> QED
    BY <1>0, <2>1, <2>5 DEF CInv, Numbered, Found
<1>4. ASSUME NEW c \in Chains, HandleRefresh(c) PROVE CInv'
  <2>1. /\ chain' = [chain EXCEPT ![c] = Started]
        /\ UNCHANGED <<posted, photos, places, chitListData, photoList,
                       locationList, last>>
    BY <1>4 DEF HandleRefresh
  <2>2. Progress(Started)
    BY <1>b, FreshChains DEF Progress, CInv, IInv, TypeOK
  <2>3. ASSUME NEW d \in Chains PROVE Progress(chain'[d])
    BY <1>a, <2>1, <2>2 DEF CInv, IInv, TypeOK
  <2>4. \A d \in Chains : Progress(chain[d])'
    BY <2>1, <2>3 DEF Progress, Collects
  <2> QED
    BY <1>0, <2>1, <2>4 DEF CInv, Numbered, Found
<1>c. ASSUME NEW c \in Chains, NEW r, r.at = 0,
             Fit(r), r.due \subseteq 1..r.list
      PROVE  Collects(r, r.at, r.at)
  <2>1. \A i \in places : ~(i <= 0)
    BY <1>b DEF CInv, Numbered
  <2>2. r.list \in Nat
    BY <1>c DEF Fit, ChainState
  <2> QED BY <1>c, <2>1, <2>2 DEF Collects
<1>5. ASSUME NEW c \in Chains, GetData(c) PROVE CInv'
  <2> DEFINE r == chain[c]
  <2>1. /\ r.st = "listed" /\ chitListData' = r.list /\ LoopOn(c, r)
        /\ UNCHANGED <<posted, photos, places>>
    BY <1>5 DEF GetData
  <2>2. /\ Fit(r) /\ r.due \subseteq photos /\ r.list <= posted
        /\ r.due \subseteq 1..r.list /\ r.at = 0
    BY <1>a, <2>1 DEF Progress
  <2>3. Collects(r, r.at, r.at)
    BY <1>c, <2>2
  <2> HIDE DEF r
  <2> QED
    BY <1>0, <2>1, <2>2, <2>3, LoopCompletes DEF CInv, Numbered
<1>6. ASSUME NEW c \in Chains, GetDataFails(c) PROVE CInv'
  <2> DEFINE r == [chain[c] EXCEPT !.list = chitListData,
                                   !.due = @ \cap 1..chitListData]
  <2>1. /\ chain[c].st \in {"sent", "listed"} /\ LoopOn(c, r)
        /\ UNCHANGED <<posted, photos, places, chitListData>>
    BY <1>6 DEF GetDataFails
  <2>2. /\ Fit(r) /\ r.list = chitListData /\ r.at = chain[c].at
        /\ r.due = chain[c].due \cap 1..chitListData
    BY <1>a DEF Fit, ChainState, CInv, IInv, TypeOK
  <2> HIDE DEF r
  <2>3. /\ r.due \subseteq photos /\ r.list <= posted
        /\ r.due \subseteq 1..r.list /\ r.at = 0
    BY <1>a, <2>1, <2>2 DEF Progress, CInv, Numbered
  <2>4. Collects(r, r.at, r.at)
    BY <1>c, <2>2, <2>3
  <2> QED
    BY <1>0, <2>1, <2>2, <2>3, <2>4, LoopCompletes DEF CInv, Numbered
<1>d. ASSUME NEW c \in Chains, chain[c].st \in {"photo", "file"}
      PROVE  \A i \in chain[c].due :
                 i <= chain[c].at /\ i # chain[c].at => i <= chain[c].at - 1
  BY <1>a DEF Fit, ChainState, Ids
<1>e. ASSUME NEW c \in Chains, chain[c].st \in {"photo", "file"}
      PROVE  /\ Collects(chain[c], chain[c].at - 1, chain[c].at - 1)
             /\ chain[c].due \subseteq photos /\ chain[c].list <= posted
             /\ chain[c].due \subseteq 1..chain[c].list
  BY <1>a, <1>e DEF Progress
<1>7. ASSUME NEW c \in Chains, GetPhoto(c) PROVE CInv'
  <2> DEFINE r == chain[c]
             n == [r EXCEPT !.st = "file", !.data = r.at]
  <2>1. /\ r.st = "photo" /\ UNCHANGED <<posted, photos, places, chitListData>>
    BY <1>7 DEF GetPhoto
  <2>2. CASE r.at \in photos
    <3>1. /\ chain' = [chain EXCEPT ![c] = n]
          /\ UNCHANGED <<photoList, locationList, isLoading, last>>
      BY <1>7, <2>2 DEF GetPhoto, CInv, IInv, TypeOK
    <3>2. /\ n.st = "file" /\ n.at = r.at /\ n.due = r.due
          /\ n.list = r.list /\ n.list0 = r.list0 /\ n.list1 = r.list1
      BY <1>a DEF Fit, ChainState
    <3> HIDE DEF n
    <3>3. Progress(n)
      BY <1>e, <2>1, <3>2 DEF Progress, Collects
    <3>4. ASSUME NEW d \in Chains PROVE Progress(chain'[d])
      BY <1>a, <3>1, <3>3 DEF CInv, IInv, TypeOK
    <3>5. \A d \in Chains : Progress(chain[d])'
      BY <2>1, <3>4 DEF Progress, Collects
    <3> QED
      BY <1>0, <2>1, <3>1, <3>5 DEF CInv, Numbered, Found
  <2>3. CASE r.at \notin photos
    <3>1. PhotoDone(c, r)
      BY <1>7, <2>3 DEF GetPhoto
    <3>2. Collects(r, r.at, r.at - 1)
      BY <1>d, <1>e, <2>1, <2>3 DEF Collects
    <3> HIDE DEF r
    <3>3. Fit(r) /\ r.due \subseteq photos /\ r.list <= posted
          /\ r.due \subseteq 1..r.list
      BY <1>a, <1>e, <2>1 DEF r
    <3> QED
      BY <1>0, <2>1, <3>1, <3>2, <3>3, PhotoCompletes DEF CInv, Numbered
  <2> QED BY <2>2, <2>3
<1>13. ASSUME NEW c \in Chains, ReadFile(c) PROVE CInv'
  <2> DEFINE r == chain[c]
             e == [id |-> r.at, image |-> r.data]
             n == [r EXCEPT !.data = 0, !.list0 = @ \cup {e}]
  <2>1. /\ r.st = "file" /\ PhotoDone(c, n)
        /\ UNCHANGED <<posted, photos, places, chitListData>>
    BY <1>13 DEF ReadFile
  <2>a. r.at \in 1..r.list /\ r.data = r.at
    BY <2>1 DEF CInv, IInv, OnList, InLoop
  <2>2. /\ n.list = r.list /\ n.at = r.at /\ n.due = r.due
        /\ n.list1 = r.list1 /\ n.list0 = r.list0 \cup {e}
    BY <1>a DEF Fit, ChainState
  <2>3. e \in Images /\ e.image = e.id /\ e.id = r.at
    BY <1>a, <2>a DEF Fit, ChainState, Images, Ids
  <2>b. r \in ChainState /\ Matching(r.list0, r.list1) /\ 0 \in 0..MaxChits
    BY <1>a DEF Fit
  <2> HIDE DEF e, r
  <2>c. n \in ChainState
    BY <2>3, <2>b DEF ChainState
  <2> HIDE DEF n
  <2>4. Fit(n)
    BY <2>2, <2>3, <2>b, <2>c DEF Fit, Matching
  <2> USE DEF r, n
  <2>5. /\ Collects(r, r.at - 1, r.at - 1) /\ r.due \subseteq photos
        /\ r.list <= posted /\ r.due \subseteq 1..r.list
    BY <1>e, <2>1
  <2> HIDE DEF e
  <2>6. Collects(n, n.at, n.at - 1)
    BY <1>d, <2>1, <2>2, <2>3, <2>5 DEF Collects
  <2> HIDE DEF n
  <2> QED
    BY <1>0, <2>1, <2>2, <2>4, <2>5, <2>6, PhotoCompletes DEF CInv, Numbered
<1>8. ASSUME NEW c \in Chains, GetPhotoFails(c) PROVE CInv'
  <2> DEFINE r == chain[c]
             n == [r EXCEPT !.data = 0, !.due = @ \ {r.at}]
  <2>1. /\ r.st \in {"photo", "file"} /\ PhotoDone(c, n)
        /\ UNCHANGED <<posted, photos, places, chitListData>>
    BY <1>8 DEF GetPhotoFails
  <2>a. r \in ChainState /\ Matching(r.list0, r.list1) /\ 0 \in 0..MaxChits
    BY <1>a DEF Fit
  <2> HIDE DEF r
  <2>b. n \in ChainState
    BY <2>a DEF ChainState
  <2>c. /\ n.list = r.list /\ n.at = r.at
        /\ n.due = r.due \ {r.at} /\ n.list0 = r.list0 /\ n.list1 = r.list1
    BY <2>a DEF ChainState
  <2> HIDE DEF n
  <2>2. /\ Fit(n) /\ n.list = r.list /\ n.at = r.at
        /\ n.due = r.due \ {r.at} /\ n.list0 = r.list0 /\ n.list1 = r.list1
    BY <2>a, <2>b, <2>c DEF Fit
  <2> USE DEF r
  <2>3. /\ Collects(r, r.at - 1, r.at - 1) /\ r.due \subseteq photos
        /\ r.list <= posted /\ r.due \subseteq 1..r.list
    BY <1>e, <2>1
  <2> HIDE DEF n
  <2>4. Collects(n, n.at, n.at - 1)
    BY <1>d, <2>1, <2>2, <2>3 DEF Collects
  <2> QED
    BY <1>0, <2>1, <2>2, <2>3, <2>4, PhotoCompletes DEF CInv, Numbered
<1>9. ASSUME NEW c \in Chains, NEW a \in {0, chain[c].at},
             chain[c].st = "place",
             LoopOn(c, [chain[c] EXCEPT !.list1 = @ \cup
                           {[id |-> chain[c].at, location |-> a]}]),
             UNCHANGED <<posted, photos, places, chitListData>>
      PROVE  CInv'
  <2> DEFINE r == chain[c]
             e == [id |-> r.at, location |-> a]
             n == [r EXCEPT !.list1 = @ \cup {e}]
  <2>1. /\ r.at \in 1..r.list /\ Fit(r) /\ r.due \subseteq photos
        /\ r.list <= posted /\ r.due \subseteq 1..r.list
        /\ Collects(r, r.at, r.at - 1)
        /\ \A l \in r.list1 : l.id < r.at
    BY <1>9, <1>a DEF OnList, InLoop, IInv, CInv, Progress
  <2>2. e \in Locations /\ e.location \in {e.id, 0} /\ e.id = r.at
    BY <2>1, <1>9 DEF Fit, ChainState, Locations, Ids
  <2>3. /\ n \in ChainState /\ n.at = r.at /\ n.list = r.list /\ n.due = r.due
        /\ n.list0 = r.list0 /\ n.list1 = r.list1 \cup {e}
    BY <2>1, <2>2 DEF Fit, ChainState
  <2>4. LoopOn(c, n)
    BY <1>9
  <2> HIDE DEF n
  <2>a. r.at \in Nat /\ \A l \in r.list1 : l.id \in Nat
    BY <2>1 DEF Fit, ChainState, Locations, Ids
  <2> HIDE DEF e
  <2>b. Fit(n)
    BY <2>1, <2>2, <2>3, <2>a DEF Fit, Matching
  <2>5. \A i \in places : i <= r.at => i = r.at \/ i <= r.at - 1
    BY <2>1 DEF Fit, ChainState, CInv, IInv, TypeOK, Ids
  <2>6. Collects(n, n.at, n.at)
    BY <2>1, <2>2, <2>3, <2>5 DEF Collects
  <2> QED
    BY <1>0, <1>9, <2>1, <2>3, <2>4, <2>6, <2>b, LoopCompletes DEF CInv, Numbered
<1>10. ASSUME NEW c \in Chains, GetLocation(c) PROVE CInv'
  BY <1>9, <1>10 DEF GetLocation
<1>11. ASSUME NEW c \in Chains, GetLocationFails(c) PROVE CInv'
  BY <1>9, <1>11 DEF GetLocationFails
<1>12. CASE UNCHANGED vars
  BY <1>0, <1>12 DEF vars, CInv, Numbered, Progress, Collects,
                     Found
<1> QED
  BY <1>1, <1>2, <1>3, <1>4, <1>5, <1>6, <1>7, <1>8, <1>10, <1>11, <1>12,
     <1>13 DEF Next, ChainNext, Failures

(***************************************************************************)
(* What the screen shows is always complete and right with respect to the  *)
(* refresh that ended last, for any number of chits and overlapping        *)
(* refreshes (HomeScreen.js getApiData, showImage, showLocation).          *)
(***************************************************************************)
THEOREM AlwaysComplete == Spec => []RefreshIsComplete
<1>1. CInv => RefreshIsComplete
  <2> SUFFICES ASSUME CInv PROVE RefreshIsComplete
    OBVIOUS
  <2>0. Matched /\ Found
    BY DEF CInv, IInv
  <2>1. ASSUME NEW i \in last.due PROVE ShowImage(i) = {i}
    <3>1. PICK p \in photoList : p.id = i
      BY <2>0 DEF Found
    <3>2. \A q \in photoList : q.id = i => q.image = i
      BY <2>0 DEF Matched, Matching
    <3> QED BY <3>1, <3>2 DEF ShowImage
  <2>2. ASSUME NEW i \in places \cap 1..last.list
        PROVE  ShowLocation(i) \in {{i}, {0}}
    <3>1. PICK l \in locationList : l.id = i
      BY <2>0 DEF Found
    <3>2. \A q \in locationList : q.id = i => q = l
      BY <2>0, <3>1 DEF Matched, Matching
    <3>3. ShowLocation(i) = {l.location}
      BY <3>1, <3>2 DEF ShowLocation
    <3>4. l.location \in {i, 0}
      BY <2>0, <3>1 DEF Matched, Matching
    <3> QED BY <3>3, <3>4
  <2> QED BY <2>1, <2>2 DEF RefreshIsComplete
<1> QED
  BY InitCInv, NextCInv, <1>1, PTL DEF Spec
=============================================================================
