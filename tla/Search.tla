------------------------------- MODULE Search -------------------------------
(***************************************************************************)
(* The search of screens/Search.js: every change of the text sends a       *)
(* request of its own, and every answer replaces the list, whichever text  *)
(* it was sent for.  The user never waits.                                 *)
(*                                                                         *)
(* The text is put into the URL as it is, so the server reads as q only    *)
(* what comes before a reserved character: QueryOf.  What the server finds *)
(* for a query does not change while the user searches.                    *)
(***************************************************************************)
CONSTANTS Texts,    \* what can be typed, '' (Empty) excepted
          Empty,
          Queries,  \* what the server can read as q
          QueryOf,  \* [Texts -> Queries]
          Found,    \* [Queries -> SUBSET Users]: what the server finds
          Users,
          Searches, \* names of updateSearch chains
          SearchFaulty  \* BOOLEAN: requests may fail

VARIABLES search,       \* state of the screen: the text in the search bar
          userListData, \* state of the screen: the list
          query,        \* updateSearch chains
          seen,         \* history: the list has had the results of that text
          lost          \* history: the request of that text has failed

searchVars == <<search, userListData, query, seen, lost>>

ASSUME SearchConstantsOK == /\ Empty \notin Texts
                            /\ QueryOf \in [Texts -> Queries]
                            /\ Found \in [Queries -> SUBSET Users]
                            /\ SearchFaulty \in BOOLEAN

\* A chain: the query as the server reads it, the answer, and whether the text
\* has not been changed since (newest, history).
IdleQuery == [st |-> "idle", text |-> Empty, users |-> {}, newest |-> FALSE]

\* What the list should be for a text.
ResultsFor(t) == IF t = Empty THEN {} ELSE Found[QueryOf[t]]

SearchInit == /\ search = Empty
              /\ userListData = {}
              /\ query = [c \in Searches |-> IdleQuery]
              /\ seen = TRUE
              /\ lost = FALSE

\* The chains once the text has been changed.
Superseded == [c \in Searches |-> [query[c] EXCEPT !.newest = FALSE]]

-----------------------------------------------------------------------------
\* The text is deleted: the list is cleared at once.
ClearSearch ==
    /\ search # Empty
    /\ search' = Empty
    /\ userListData' = {}
    /\ query' = Superseded
    /\ seen' = TRUE
    /\ lost' = FALSE

\* Any other text: GET /search_user?q=<text> is sent.  The list stays.
Bug_OneRequestAtATime(c, t) ==
    /\ query[c].st = "idle"
    /\ t # search
    /\ search' = t
    /\ query' = IF \A d \in Searches : query[d].st = "idle"
                THEN [query EXCEPT ![c] = [st |-> "sent", text |-> t,
                                           users |-> {}, newest |-> TRUE]]
                ELSE Superseded
    /\ seen' = (userListData = ResultsFor(t))
    /\ lost' = FALSE
    /\ UNCHANGED userListData

UpdateSearch(c, t) ==
    /\ query[c].st = "idle"
    /\ t # search
    /\ search' = t
    /\ query' = [Superseded EXCEPT ![c] = [st |-> "sent", text |-> t,
                                           users |-> {}, newest |-> TRUE]]
    /\ seen' = (userListData = ResultsFor(t))
    /\ lost' = FALSE
    /\ UNCHANGED userListData

\* External server: the users found for what it reads as q.
ServerSearches(c) ==
    /\ query[c].st = "sent"
    /\ query' = [query EXCEPT ![c].st = "answered",
                              ![c].users = Found[QueryOf[query[c].text]]]
    /\ UNCHANGED <<search, userListData, seen, lost>>

\* An answer arrives and becomes the list.
SearchAnswer(c) ==
    /\ query[c].st = "answered"
    /\ userListData' = query[c].users
    /\ query' = [query EXCEPT ![c] = IdleQuery]
    /\ seen' = (seen \/ query[c].users = ResultsFor(search))
    /\ UNCHANGED <<search, lost>>

\* The request is rejected, or its answer is not JSON: logged, the list stays.
SearchFails(c) ==
    /\ SearchFaulty
    /\ query[c].st # "idle"
    /\ query' = [query EXCEPT ![c] = IdleQuery]
    /\ lost' = (lost \/ query[c].newest)
    /\ UNCHANGED <<search, userListData, seen>>

-----------------------------------------------------------------------------
Typing == ClearSearch \/ \E c \in Searches, t \in Texts : UpdateSearch(c, t)

Answering == \E c \in Searches :
                 ServerSearches(c) \/ SearchAnswer(c) \/ SearchFails(c)

SearchNext == Typing \/ Answering

SearchSpec == SearchInit /\ [][SearchNext]_searchVars

-----------------------------------------------------------------------------
(***************************************************************************)
(* Properties                                                              *)
(***************************************************************************)
\* Type invariant of the search screen and its requests.
SearchTypeOK ==
    /\ search \in Texts \cup {Empty}
    /\ userListData \in SUBSET Users
    /\ query \in [Searches -> [st : {"idle", "sent", "answered"},
                               text : Texts \cup {Empty},
                               users : SUBSET Users, newest : BOOLEAN]]
    /\ seen \in BOOLEAN
    /\ lost \in BOOLEAN

\* No text in the bar is forgotten: its results have been in the list, or a
\* request sent for it has failed, or one is still under way, whatever was
\* typed, cleared and answered before it (Search.js updateSearch).
ResultsOnTheWay ==
    seen \/ lost \/ \E c \in Searches : /\ query[c].st # "idle"
                                        /\ query[c].text = search
=============================================================================
