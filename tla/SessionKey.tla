----------------------------- MODULE SessionKey -----------------------------
(***************************************************************************)
(* What the login, the profile and the storage of the app promise          *)
(* together, without screens, requests and storage calls: one register     *)
(* with the session key, one copy of it, answers to attempts that are on   *)
(* their way to the register, and requests to sign out.                    *)
(*                                                                         *)
(* The register changes in two ways only.  An answer that is on its way    *)
(* reaches it and replaces it as a whole; the answer to a refused attempt  *)
(* is the empty key, so it signs the device out.  Or a request to sign out *)
(* is completed, which empties the register and, some time later, the copy *)
(* (by then perhaps a copy of the next key).  The copy is otherwise always *)
(* a copy of the register, and a token is issued to one account only.      *)
(* Answers and requests can get lost.                                      *)
(***************************************************************************)
CONSTANTS Users, Tokens,
          Attempts,  \* names of attempts to sign in
          Leaves,    \* names of requests to sign out
          Nobody,    \* the owner of a token that was not issued
          NoKey,     \* the empty key
          Nothing    \* no answer

VARIABLES key,     \* the register
          copy,    \* the copy
          answer,  \* the answer of each attempt that is on its way
          leaving, \* the requests to sign out that are under way
          clearing,\* the requests completed except for the copy
          issued   \* whom each token was issued to

vars == <<key, copy, answer, leaving, clearing, issued>>

Init == /\ key = NoKey
        /\ copy = NoKey
        /\ answer = [a \in Attempts |-> Nothing]
        /\ leaving = {}
        /\ clearing = {}
        /\ issued = [t \in Tokens |-> Nobody]

\* An attempt is granted a token that is new or the account's own.
Grant(a, u, t) ==
    /\ answer[a] = Nothing
    /\ issued[t] \in {Nobody, u}
    /\ issued' = [issued EXCEPT ![t] = u]
    /\ answer' = [answer EXCEPT ![a] = [id |-> u, token |-> t]]
    /\ UNCHANGED <<key, copy, leaving, clearing>>

Refuse(a) == /\ answer[a] = Nothing
             /\ answer' = [answer EXCEPT ![a] = NoKey]
             /\ UNCHANGED <<key, copy, leaving, clearing, issued>>

\* The answer reaches the register, whatever is in it.
Adopt(a) == /\ answer[a] # Nothing
            /\ key' = answer[a]
            /\ answer' = [answer EXCEPT ![a] = Nothing]
            /\ UNCHANGED <<copy, leaving, clearing, issued>>

\* The answer gets lost.
Drop(a) == /\ answer[a] # Nothing
           /\ answer' = [answer EXCEPT ![a] = Nothing]
           /\ UNCHANGED <<key, copy, leaving, clearing, issued>>

TakeCopy == /\ copy' = key
            /\ UNCHANGED <<key, answer, leaving, clearing, issued>>

AskToLeave(o) == /\ o \notin leaving \cup clearing
                 /\ leaving' = leaving \cup {o}
                 /\ UNCHANGED <<key, copy, answer, clearing, issued>>

SignOut(o) == /\ o \in leaving
              /\ leaving' = leaving \ {o}
              /\ clearing' = clearing \cup {o}
              /\ key' = NoKey
              /\ UNCHANGED <<copy, answer, issued>>

ClearCopy(o) == /\ o \in clearing
                /\ clearing' = clearing \ {o}
                /\ copy' = NoKey
                /\ UNCHANGED <<key, answer, leaving, issued>>

\* The request gets lost.
StayIn(o) == /\ o \in leaving
             /\ leaving' = leaving \ {o}
             /\ UNCHANGED <<key, copy, answer, clearing, issued>>

Next == \/ \E a \in Attempts : \/ \E u \in Users, t \in Tokens : Grant(a, u, t)
                               \/ Refuse(a) \/ Adopt(a) \/ Drop(a)
        \/ TakeCopy
        \/ \E o \in Leaves : \/ AskToLeave(o) \/ StayIn(o)
                             \/ SignOut(o) \/ ClearCopy(o)

Spec == Init /\ [][Next]_vars
=============================================================================
