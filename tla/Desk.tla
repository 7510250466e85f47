-------------------------------- MODULE Desk --------------------------------
(***************************************************************************)
(* What the composer promises its user, without screens, requests and      *)
(* storage calls: a desk with one sheet (the text being written), a number *)
(* of orders to send what is on the sheet, and the texts that were sent.   *)
(* The user never waits: he writes, orders and puts the sheet away at any  *)
(* time, and everything he asked for is carried out later, in any order.   *)
(*                                                                         *)
(* The desk clears the sheet on two occasions only, whatever is on it by   *)
(* then: when a text that was sent is confirmed, and when the sheet is put *)
(* away after the user asked for that.  An order that comes to nothing     *)
(* leaves the sheet alone, and what is sent is the text of the order.      *)
(***************************************************************************)
EXTENDS Sequences

CONSTANTS Sheets, \* what can be written
          Blank,  \* nothing written
          Asks    \* names of orders to send the sheet

VARIABLES sheet,  \* the text being written
          ask,    \* the orders: st is none, asked or sent, and the text
          sent,   \* the texts that were sent, oldest first
          filing  \* the sheet is to be put away

vars == <<sheet, ask, sent, filing>>

NoAsk == [st |-> "none", text |-> Blank]

Init == /\ sheet = Blank
        /\ ask = [a \in Asks |-> NoAsk]
        /\ sent = <<>>
        /\ filing = FALSE

-----------------------------------------------------------------------------
(***************************************************************************)
(* The user                                                                *)
(***************************************************************************)
Write(t) == /\ sheet' = t
            /\ UNCHANGED <<ask, sent, filing>>

Ask(a) == /\ ask[a].st = "none"
          /\ ask' = [ask EXCEPT ![a] = [st |-> "asked", text |-> sheet]]
          /\ UNCHANGED <<sheet, sent, filing>>

\* Save or Delete.
File == /\ filing' = TRUE
        /\ UNCHANGED <<sheet, ask, sent>>

-----------------------------------------------------------------------------
(***************************************************************************)
(* The desk                                                                *)
(***************************************************************************)
Send(a) == /\ ask[a].st = "asked"
           /\ ask' = [ask EXCEPT ![a].st = "sent"]
           /\ sent' = Append(sent, ask[a].text)
           /\ UNCHANGED <<sheet, filing>>

Confirm(a) == /\ ask[a].st = "sent"
              /\ ask' = [ask EXCEPT ![a] = NoAsk]
              /\ sheet' = Blank
              /\ UNCHANGED <<sent, filing>>

\* Refused, or the answer is lost.
Drop(a) == /\ ask[a].st # "none"
           /\ ask' = [ask EXCEPT ![a] = NoAsk]
           /\ UNCHANGED <<sheet, sent, filing>>

\* The sheet is put away; it may have been asked for more than once.
PutAway == /\ filing
           /\ filing' \in BOOLEAN
           /\ sheet' = Blank
           /\ UNCHANGED <<ask, sent>>

Next == \/ \E t \in Sheets \cup {Blank} : Write(t)
        \/ \E a \in Asks : Ask(a) \/ Send(a) \/ Confirm(a) \/ Drop(a)
        \/ File \/ PutAway

Spec == Init /\ [][Next]_vars
=============================================================================
