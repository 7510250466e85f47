--------------------------- MODULE DiscoverProofs ---------------------------
(***************************************************************************)
(* Proofs about the search, and about search and profile together, for     *)
(* every set of texts, users, queries and requests under way.              *)
(***************************************************************************)
EXTENDS Discover, FollowProofs

(***************************************************************************)
(* The inductive invariant of the search.  An answer on its way is the one *)
(* for the text it was sent for (AnswersFit).  A request marked as newest  *)
(* was sent for the text in the bar, and unless the results of that text   *)
(* have been shown or its request has failed there is one (NewestFits).    *)
(***************************************************************************)
UnderWay(c) == query[c].st # "idle"

AnswersFit == \A c \in Searches :
    /\ UnderWay(c) => query[c].text \in Texts
    /\ query[c].st = "answered" => query[c].users = Found[QueryOf[query[c].text]]

NewestFits ==
    /\ \A c \in Searches : UnderWay(c) /\ query[c].newest => query[c].text = search
    /\ seen \/ lost \/ \E c \in Searches : UnderWay(c) /\ query[c].newest

SearchInv == SearchTypeOK /\ AnswersFit /\ NewestFits

QueryChain == [st : {"idle", "sent", "answered"}, text : Texts \cup {Empty},
               users : SUBSET Users, newest : BOOLEAN]

LEMMA SearchInitInv == SearchInit => SearchInv
<1> SUFFICES ASSUME SearchInit PROVE SearchInv
  OBVIOUS
<1>1. \A c \in Searches : query[c].st = "idle"
  BY DEF SearchInit, IdleQuery
<1>2. SearchTypeOK
  BY DEF SearchInit, SearchTypeOK, IdleQuery
<1>3. AnswersFit /\ NewestFits
  BY <1>1 DEF AnswersFit, NewestFits, UnderWay, SearchInit
<1> QED
  BY <1>2, <1>3 DEF SearchInv

(***************************************************************************)
(* Changing the text leaves the chains under way alone, except that none   *)
(* of them is the newest any more.                                         *)
(***************************************************************************)
LEMMA SupersededChains ==
    ASSUME SearchTypeOK
    PROVE  /\ Superseded \in [Searches -> QueryChain]
           /\ \A c \in Searches : /\ Superseded[c].st = query[c].st
                                  /\ Superseded[c].text = query[c].text
                                  /\ Superseded[c].users = query[c].users
                                  /\ Superseded[c].newest = FALSE
<1>1. \A c \in Searches : query[c] \in QueryChain
  BY DEF SearchTypeOK, QueryChain
<1>2. \A c \in Searches : Superseded[c] = [query[c] EXCEPT !.newest = FALSE]
  BY DEF Superseded
<1>3. \A c \in Searches : /\ Superseded[c] \in QueryChain
                          /\ Superseded[c].st = query[c].st
                          /\ Superseded[c].text = query[c].text
                          /\ Superseded[c].users = query[c].users
                          /\ Superseded[c].newest = FALSE
  BY <1>1, <1>2 DEF QueryChain
<1>4. Superseded \in [Searches -> QueryChain]
  BY <1>3 DEF Superseded
<1> QED
  BY <1>3, <1>4

(***************************************************************************)
(* Every step of the search keeps its invariant.                           *)
(***************************************************************************)
LEMMA SearchStep == SearchInv /\ [SearchNext]_searchVars => SearchInv'
<1> SUFFICES ASSUME SearchInv, [SearchNext]_searchVars PROVE SearchInv'
  OBVIOUS
<1> USE DEF UnderWay
<1>0. SearchTypeOK /\ AnswersFit /\ NewestFits
  BY DEF SearchInv
<1>T. query \in [Searches -> QueryChain] /\ IdleQuery \in QueryChain
  BY <1>0 DEF SearchTypeOK, QueryChain, IdleQuery
<1>1. CASE ClearSearch
  <2>1. /\ search' = Empty /\ userListData' = {} /\ seen' = TRUE /\ lost' = FALSE
        /\ query' = Superseded
    BY <1>1 DEF ClearSearch
  <2>2. SearchTypeOK'
    BY <1>0, <2>1, SupersededChains DEF SearchTypeOK, QueryChain
  <2>3. AnswersFit'
    BY <1>0, <2>1, SupersededChains DEF AnswersFit
  <2>4. NewestFits'
    BY <1>0, <2>1, SupersededChains DEF NewestFits
  <2> QED BY <2>2, <2>3, <2>4 DEF SearchInv
<1>2. ASSUME NEW c \in Searches, NEW t \in Texts, UpdateSearch(c, t)
      PROVE  SearchInv'
  <2> DEFINE new == [st |-> "sent", text |-> t, users |-> {}, newest |-> TRUE]
  <2>1. /\ search' = t /\ userListData' = userListData /\ lost' = FALSE
        /\ query' = [Superseded EXCEPT ![c] = new]
        /\ seen' = (userListData = ResultsFor(t))
    BY <1>2 DEF UpdateSearch
  <2>2. new \in QueryChain
    BY DEF QueryChain
  <2>3. /\ query' \in [Searches -> QueryChain]
        /\ query'[c] = new
        /\ \A d \in Searches \ {c} : query'[d] = Superseded[d]
    BY <1>0, <2>1, <2>2, SupersededChains
  <2>4. SearchTypeOK'
    <3>1. seen' \in BOOLEAN
      BY <2>1
    <3> QED BY <1>0, <2>1, <2>3, <3>1 DEF SearchTypeOK, QueryChain
  <2>5. AnswersFit'
    <3>1. query'[c].text \in Texts /\ query'[c].st = "sent"
      BY <2>3
    <3>2. \A d \in Searches \ {c} : /\ query'[d].st = query[d].st
                                     /\ query'[d].text = query[d].text
                                     /\ query'[d].users = query[d].users
      BY <1>0, <2>3, SupersededChains
    <3> QED BY <1>0, <3>1, <3>2 DEF AnswersFit
  <2>6. NewestFits'
    <3>1. query'[c].st = "sent" /\ query'[c].newest /\ query'[c].text = search'
      BY <2>1, <2>3
    <3>2. \A d \in Searches \ {c} : ~query'[d].newest
      BY <1>0, <2>3, SupersededChains
    <3> QED BY <3>1, <3>2 DEF NewestFits
  <2> QED BY <2>4, <2>5, <2>6 DEF SearchInv
<1>3. ASSUME NEW c \in Searches, ServerSearches(c) PROVE SearchInv'
  <2> DEFINE new == [query[c] EXCEPT !.st = "answered",
                                     !.users = Found[QueryOf[query[c].text]]]
  <2>1. /\ UNCHANGED <<search, userListData, seen, lost>> /\ query[c].st = "sent"
        /\ query' = [query EXCEPT ![c] = new]
    BY <1>3, <1>T DEF ServerSearches
  <2>2. query[c].text \in Texts
    BY <1>0, <2>1 DEF AnswersFit
  <2>3. Found[QueryOf[query[c].text]] \in SUBSET Users
    BY <2>2, SearchConstantsOK
  <2>4. /\ new \in QueryChain /\ new.st = "answered"
        /\ new.text = query[c].text /\ new.newest = query[c].newest
        /\ new.users = Found[QueryOf[query[c].text]]
    BY <1>T, <2>3 DEF QueryChain
  <2> HIDE DEF new
  <2>5. /\ query' \in [Searches -> QueryChain]
        /\ query'[c] = new
        /\ \A d \in Searches \ {c} : query'[d] = query[d]
    BY <1>T, <2>1, <2>4
  <2>6. SearchTypeOK'
    BY <1>0, <2>1, <2>5 DEF SearchTypeOK, QueryChain
  <2>7. AnswersFit'
    BY <1>0, <2>2, <2>4, <2>5 DEF AnswersFit
  <2>8. NewestFits'
    BY <1>0, <2>1, <2>4, <2>5 DEF NewestFits
  <2> QED BY <2>6, <2>7, <2>8 DEF SearchInv
<1>4. ASSUME NEW c \in Searches, SearchAnswer(c) PROVE SearchInv'
  <2>1. /\ UNCHANGED <<search, lost>> /\ userListData' = query[c].users
        /\ query[c].st = "answered"
        /\ query' = [query EXCEPT ![c] = IdleQuery]
        /\ seen' = (seen \/ query[c].users = ResultsFor(search))
    BY <1>4 DEF SearchAnswer
  <2>2. /\ query' \in [Searches -> QueryChain]
        /\ query'[c].st = "idle"
        /\ \A d \in Searches \ {c} : query'[d] = query[d]
    BY <1>T, <2>1 DEF IdleQuery
  <2>3. userListData' \in SUBSET Users
    BY <1>T, <2>1 DEF QueryChain
  <2>4. SearchTypeOK'
    <3>1. seen' \in BOOLEAN
      BY <2>1
    <3> QED BY <1>0, <2>1, <2>2, <2>3, <3>1 DEF SearchTypeOK, QueryChain
  <2>5. AnswersFit'
    BY <1>0, <2>2 DEF AnswersFit
  <2>6. query[c].newest => seen'
    <3>1. query[c].text \in Texts /\ query[c].users = Found[QueryOf[query[c].text]]
      BY <1>0, <2>1 DEF AnswersFit
    <3>2. query[c].newest => query[c].text = search
      BY <1>0, <2>1 DEF NewestFits
    <3>3. query[c].newest => query[c].users = ResultsFor(search)
      BY <3>1, <3>2, SearchConstantsOK DEF ResultsFor
    <3> QED BY <2>1, <3>3
  <2>7. NewestFits'
    BY <1>0, <2>1, <2>2, <2>6 DEF NewestFits
  <2> QED BY <2>4, <2>5, <2>7 DEF SearchInv
<1>5. ASSUME NEW c \in Searches, SearchFails(c) PROVE SearchInv'
  <2>1. /\ UNCHANGED <<search, userListData, seen>> /\ query[c].st # "idle"
        /\ query' = [query EXCEPT ![c] = IdleQuery]
        /\ lost' = (lost \/ query[c].newest)
    BY <1>5 DEF SearchFails
  <2>2. /\ query' \in [Searches -> QueryChain]
        /\ query'[c].st = "idle"
        /\ \A d \in Searches \ {c} : query'[d] = query[d]
    BY <1>T, <2>1 DEF IdleQuery
  <2>3. SearchTypeOK'
    <3>1. lost' \in BOOLEAN
      BY <2>1
    <3> QED BY <1>0, <2>1, <2>2, <3>1 DEF SearchTypeOK, QueryChain
  <2>4. AnswersFit'
    BY <1>0, <2>2 DEF AnswersFit
  <2>5. NewestFits'
    BY <1>0, <2>1, <2>2 DEF NewestFits
  <2> QED BY <2>3, <2>4, <2>5 DEF SearchInv
<1>6. CASE UNCHANGED searchVars
  BY <1>0, <1>6 DEF searchVars, SearchInv, SearchTypeOK, AnswersFit, NewestFits
<1> QED
  BY <1>1, <1>2, <1>3, <1>4, <1>5, <1>6 DEF SearchNext, Typing, Answering

LEMMA SearchInvOnTheWay == SearchInv => ResultsOnTheWay
  BY DEF SearchInv, NewestFits, ResultsOnTheWay, UnderWay

(***************************************************************************)
(* Search and profile side by side take the steps each takes alone.        *)
(***************************************************************************)
LEMMA DiscoverSteps ==
    ASSUME [DiscoverNext]_DiscoverVars
    PROVE  [SearchNext]_searchVars /\ [Next]_vars
  BY DEF DiscoverNext, DiscoverVars, Type, SearchGoesOn, MoreDetails,
         ProfileGoesOn, SearchNext, Next

(***************************************************************************)
(* Both screens keep their types, whatever the user of either does.        *)
(***************************************************************************)
THEOREM DiscoverTypeCorrect == DiscoverSpec => []DiscoverTypeOK
<1>1. DiscoverInit => SearchInv /\ TypeOK
  BY SearchInitInv, InitIInv DEF DiscoverInit, IInv
<1>2. SearchInv /\ TypeOK /\ [DiscoverNext]_DiscoverVars
        => (SearchInv /\ TypeOK)'
  BY DiscoverSteps, SearchStep, TypeStep
<1>3. SearchInv /\ TypeOK => DiscoverTypeOK
  BY DEF SearchInv, DiscoverTypeOK
<1> QED
  BY <1>1, <1>2, <1>3, PTL DEF DiscoverSpec

(***************************************************************************)
(* No text in the search bar is forgotten: its results have been shown, or *)
(* a request for it failed, or one is under way, for every number of texts *)
(* typed ahead and every order of the answers, also while a profile is     *)
(* open above the search (Search.js updateSearch).                         *)
(***************************************************************************)
THEOREM NoTextForgotten == DiscoverSpec => []ResultsOnTheWay
<1>1. DiscoverInit => SearchInv
  BY SearchInitInv DEF DiscoverInit
<1>2. SearchInv /\ [DiscoverNext]_DiscoverVars => SearchInv'
  BY DiscoverSteps, SearchStep
<1> QED
  BY <1>1, <1>2, SearchInvOnTheWay, PTL DEF DiscoverSpec

(***************************************************************************)
(* What is proved of the title of the follow button holds of a profile     *)
(* that is opened from the list of a search (OtherProfile.js follow,       *)
(* getFollowers).                                                          *)
(***************************************************************************)
THEOREM WrongTitleExplainedInDiscover == DiscoverSpec => []TitleExplained
<1>1. DiscoverSpec => Spec
  <2>1. DiscoverInit => Init
    BY DEF DiscoverInit
  <2>2. [DiscoverNext]_DiscoverVars => [Next]_vars
    BY DiscoverSteps
  <2> QED BY <2>1, <2>2, PTL DEF DiscoverSpec, Spec
<1> QED
  BY <1>1, WrongTitleExplained, PTL
=============================================================================
