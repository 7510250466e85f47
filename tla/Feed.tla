-------------------------------- MODULE Feed --------------------------------
(***************************************************************************)
(* The list of chits, screens/HomeScreen.js.                               *)
(*                                                                         *)
(* componentDidMount and every refresh run the same chain: the list is     *)
(* fetched and shown, then a loop fetches the photo and decodes the place  *)
(* of one chit after the other, and at its end both results replace the    *)
(* ones on the screen.  A refresh does not wait for the chain before it,   *)
(* so chains that started with different lists end in any order.           *)
(*                                                                         *)
(* The server numbers the chits 1, 2, ... and lists all of them; the photo *)
(* of a chit and the address of its place are represented by its number.   *)
(***************************************************************************)
EXTENDS Naturals, FiniteSets

CONSTANTS Chains,   \* names of getApiData chains
          MaxChits, \* bound on the chits the server gets
          Faulty    \* BOOLEAN: requests may fail

VARIABLES posted,       \* server: how many chits it has
          photos,       \* server: the chits that have a photo
          places,       \* server: the chits that have a location
          chitListData, \* state of the screen: how many chits it shows
          photoList,    \* state of the screen: records {id, image}
          locationList, \* state of the screen: records {id, location}
          isLoading,    \* state of the screen
          chain,        \* getApiData chains
          last          \* history: list and due of the chain that ended last

vars == <<posted, photos, places, chitListData, photoList, locationList,
          isLoading, chain, last>>

ASSUME ConstantsOK == /\ MaxChits \in Nat
                      /\ Faulty \in BOOLEAN

Ids == 1..MaxChits

\* 0 stands for an address that could not be decoded.
Images    == [id : Ids, image : Ids]
Locations == [id : Ids, location : 0..MaxChits]

(***************************************************************************)
(* A chain: where it is, the list it works on, the chit it is at, the      *)
(* photo it is reading (0: none) and what it has collected.  Its field due *)
(* is history: the chits that had a photo when it started, without the     *)
(* photos it could not fetch.                                              *)
(***************************************************************************)
IdleChain == [st |-> "idle", list |-> 0, at |-> 0, data |-> 0, list0 |-> {},
              list1 |-> {}, due |-> {}]

\* A chain that has sent GET /chits.
Started == [IdleChain EXCEPT !.st = "sent", !.due = photos]

\* The screen is mounted: componentDidMount has sent its first request, and
\* the constructor's "isLodaing" left isLoading undefined.
Init == /\ posted \in 0..MaxChits
        /\ photos \in SUBSET (1..posted)
        /\ places \in SUBSET (1..posted)
        /\ chitListData = 0
        /\ photoList = {}
        /\ locationList = {}
        /\ isLoading = FALSE
        /\ \E c \in Chains : chain = [d \in Chains |->
               IF d = c THEN Started ELSE IdleChain]
        /\ last = [list |-> 0, due |-> {}]

-----------------------------------------------------------------------------
(***************************************************************************)
(* External server: chits and their photos arrive at any time.             *)
(***************************************************************************)
ServerGetsChit(place) ==
    /\ posted < MaxChits
    /\ posted' = posted + 1
    /\ places' = IF place THEN places \cup {posted + 1} ELSE places
    /\ UNCHANGED <<photos, chitListData, photoList, locationList, isLoading,
                   chain, last>>

ServerGetsPhoto(i) ==
    /\ i \in (1..posted) \ photos
    /\ photos' = photos \cup {i}
    /\ UNCHANGED <<posted, places, chitListData, photoList, locationList,
                   isLoading, chain, last>>

\* GET /chits is handled.
ServerLists(c) ==
    /\ chain[c].st = "sent"
    /\ chain' = [chain EXCEPT ![c].st = "listed", ![c].list = posted]
    /\ UNCHANGED <<posted, photos, places, chitListData, photoList,
                   locationList, isLoading, last>>

-----------------------------------------------------------------------------
(***************************************************************************)
(* HomeScreen                                                              *)
(***************************************************************************)
\* The list is pulled down.  handleRefresh sets isFetching, which nothing
\* reads, so the list accepts the gesture while a chain is under way.
HandleRefresh(c) ==
    /\ chain[c].st = "idle"
    /\ chain' = [chain EXCEPT ![c] = Started]
    /\ UNCHANGED <<posted, photos, places, chitListData, photoList,
                   locationList, isLoading, last>>

Bug_LoopPastEnd(c, r) ==
    IF r.at <= r.list
    THEN /\ chain' = [chain EXCEPT ![c] = [r EXCEPT !.st = "photo",
                                                    !.at = @ + 1]]
         /\ UNCHANGED <<photoList, locationList, isLoading, last>>
    ELSE /\ chain' = [chain EXCEPT ![c] = IdleChain]
         /\ photoList' = r.list0
         /\ locationList' = r.list1
         /\ isLoading' = FALSE
         /\ last' = [list |-> r.list, due |-> r.due]

\* The loop of chain c, with record r, goes on to the next chit or ends.
LoopOn(c, r) ==
    IF r.at < r.list
    THEN /\ chain' = [chain EXCEPT ![c] = [r EXCEPT !.st = "photo",
                                                    !.at = @ + 1]]
         /\ UNCHANGED <<photoList, locationList, isLoading, last>>
    ELSE /\ chain' = [chain EXCEPT ![c] = IdleChain]
         /\ photoList' = r.list0
         /\ locationList' = r.list1
         /\ isLoading' = FALSE
         /\ last' = [list |-> r.list, due |-> r.due]

\* The list arrives, is shown, and the loop over it starts.
GetData(c) ==
    /\ chain[c].st = "listed"
    /\ chitListData' = chain[c].list
    /\ LoopOn(c, chain[c])
    /\ UNCHANGED <<posted, photos, places>>

\* The list does not arrive: logged, and the loop runs over the list that is
\* on the screen.
GetDataFails(c) ==
    /\ Faulty
    /\ chain[c].st \in {"sent", "listed"}
    /\ LoopOn(c, [chain[c] EXCEPT !.list = chitListData,
                                  !.due = @ \cap 1..chitListData])
    /\ UNCHANGED <<posted, photos, places, chitListData>>

\* The chit's photo has been dealt with: its place is next, if it has one.
PhotoDone(c, r) ==
    IF r.at \in places
    THEN /\ chain' = [chain EXCEPT ![c] = [r EXCEPT !.st = "place"]]
         /\ UNCHANGED <<photoList, locationList, isLoading, last>>
    ELSE LoopOn(c, r)

\* getPhoto returns: the image, which readFileAsync starts to read, or, for
\* another status, null, for which readFileAsync throws and the loop goes on.
Bug_MissingPhotoEnds(c) ==
    LET r == chain[c] IN
    /\ r.st = "photo"
    /\ IF r.at \in photos
       THEN /\ chain' = [chain EXCEPT ![c].st = "file", ![c].data = r.at]
            /\ UNCHANGED <<photoList, locationList, isLoading, last>>
       ELSE PhotoDone(c, [r EXCEPT !.at = r.list])
    /\ UNCHANGED <<posted, photos, places, chitListData>>

Bug_WaitsForPhoto(c) ==
    /\ chain[c].st = "photo"
    /\ chain[c].at \in photos
    /\ chain' = [chain EXCEPT ![c].st = "file", ![c].data = chain[c].at]
    /\ UNCHANGED <<posted, photos, places, chitListData, photoList, locationList,
                   isLoading, last>>

GetPhoto(c) ==
    LET r == chain[c] IN
    /\ r.st = "photo"
    /\ IF r.at \in photos
       THEN /\ chain' = [chain EXCEPT ![c].st = "file", ![c].data = r.at]
            /\ UNCHANGED <<photoList, locationList, isLoading, last>>
       ELSE PhotoDone(c, r)
    /\ UNCHANGED <<posted, photos, places, chitListData>>

\* readFileAsync resolves, and the result is pushed.
ReadFile(c) ==
    LET r == chain[c] IN
    /\ r.st = "file"
    /\ PhotoDone(c, [r EXCEPT !.data = 0, !.list0 = @ \cup
                                  {[id |-> r.at, image |-> r.data]}])
    /\ UNCHANGED <<posted, photos, places, chitListData>>

\* The request or the reading of the file is rejected: logged.
GetPhotoFails(c) ==
    /\ Faulty
    /\ chain[c].st \in {"photo", "file"}
    /\ PhotoDone(c, [chain[c] EXCEPT !.data = 0, !.due = @ \ {chain[c].at}])
    /\ UNCHANGED <<posted, photos, places, chitListData>>

\* The geocoder answers.
GetLocation(c) ==
    LET r == chain[c] IN
    /\ r.st = "place"
    /\ LoopOn(c, [r EXCEPT !.list1 = @ \cup {[id |-> r.at, location |-> r.at]}])
    /\ UNCHANGED <<posted, photos, places, chitListData>>

\* It fails: getLocation returns undefined, which is added all the same.
GetLocationFails(c) ==
    LET r == chain[c] IN
    /\ Faulty
    /\ r.st = "place"
    /\ LoopOn(c, [r EXCEPT !.list1 = @ \cup {[id |-> r.at, location |-> 0]}])
    /\ UNCHANGED <<posted, photos, places, chitListData>>

-----------------------------------------------------------------------------
ChainNext(c) == \/ ServerLists(c) \/ GetData(c)
                \/ GetPhoto(c) \/ ReadFile(c) \/ GetLocation(c)

Failures(c) == \/ GetDataFails(c) \/ GetPhotoFails(c) \/ GetLocationFails(c)

Next == \/ \E b \in BOOLEAN : ServerGetsChit(b)
        \/ \E i \in Ids : ServerGetsPhoto(i)
        \/ \E c \in Chains : HandleRefresh(c) \/ ChainNext(c) \/ Failures(c)

Spec == Init /\ [][Next]_vars

(***************************************************************************)
(* Fairness: every request is answered and its answer handled.             *)
(***************************************************************************)
FairSpec == Spec /\ \A c \in Chains : WF_vars(ChainNext(c))

-----------------------------------------------------------------------------
(***************************************************************************)
(* Properties                                                              *)
(***************************************************************************)
ChainState == [st : {"idle", "sent", "listed", "photo", "file", "place"},
               list : 0..MaxChits, at : 0..MaxChits, data : 0..MaxChits,
               list0 : SUBSET Images, list1 : SUBSET Locations,
               due : SUBSET Ids]

\* Type invariant of the server's chits, the screen's lists and the chains; no
\* chain is past the end of its own list, although others replace the list on
\* the screen while its loop runs.
TypeOK ==
    /\ posted \in 0..MaxChits
    /\ photos \in SUBSET Ids
    /\ places \in SUBSET Ids
    /\ chitListData \in 0..MaxChits
    /\ photoList \in SUBSET Images
    /\ locationList \in SUBSET Locations
    /\ isLoading \in BOOLEAN
    /\ chain \in [Chains -> ChainState]
    /\ \A c \in Chains : chain[c].at <= chain[c].list
    /\ last \in [list : 0..MaxChits, due : SUBSET Ids]

\* What showImage and showLocation find for a chit: at most one entry, since
\* a loop passes every chit once.
ShowImage(i) == {p.image : p \in {q \in photoList : q.id = i}}
ShowLocation(i) == {l.location : l \in {q \in locationList : q.id = i}}

\* What is shown with the chits is complete and right: with respect to the
\* refresh that ended last, every chit that had a photo when that refresh
\* began is shown with its own photo, unless its request failed, and every
\* chit of its list that has a location with its own address or none, although
\* other refreshes overlap it and replace the list while its loop runs
\* (HomeScreen.js getApiData, showImage, showLocation).
RefreshIsComplete ==
    /\ \A i \in last.due : ShowImage(i) = {i}
    /\ \A i \in places \cap 1..last.list : ShowLocation(i) \in {{i}, {0}}

\* Every refresh ends, however many refreshes overlap, whichever requests fail
\* and although chits and photos keep arriving: the loop is over the list it
\* started with
\* (HomeScreen.js getApiData).
RefreshEnds == \A c \in Chains : chain[c].st # "idle" ~> chain[c].st = "idle"
=============================================================================
