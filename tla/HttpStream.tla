------------------------------ MODULE HttpStream ------------------------------
(***************************************************************************)
(* What one connection promises its client: responses come one after the   *)
(* other, each to a request of its own, and a response begins only when    *)
(* the body the one before it announced is complete.  A request may be     *)
(* dropped unanswered, and the connection may be closed at any time.  Only *)
(* the transfer of a file that is disturbed may break off or run over.     *)
(* Conn443 is the handler of src/src/fws.c that implements it.             *)
(***************************************************************************)
EXTENDS Naturals

CONSTANTS MaxLen \* longest body, in chunks

VARIABLES
  asked,     \* requests the client sent
  dropped,   \* requests that will get no answer
  heads,     \* response heads sent
  due,       \* length the last head announced
  sent,      \* how much of that body was sent
  disturbed, \* the served file was not what its size promised
  open       \* the connection is open

vars == <<asked, dropped, heads, due, sent, disturbed, open>>

Init ==
  /\ asked = 0 /\ dropped = 0
  /\ heads = 0 /\ due = 0 /\ sent = 0
  /\ disturbed \in BOOLEAN
  /\ open = TRUE

Outstanding == asked - dropped - heads

\* One record of the client may carry several requests.
Ask ==
  /\ open
  /\ asked' \in {asked + 1, asked + 2}
  /\ UNCHANGED <<dropped, heads, due, sent, disturbed, open>>

\* A request is only dropped together with one that is answered.
Drop ==
  /\ open
  /\ Outstanding >= 2
  /\ dropped' = dropped + 1
  /\ UNCHANGED <<asked, heads, due, sent, disturbed, open>>

Respond ==
  /\ open
  /\ Outstanding > 0
  /\ sent = due \/ disturbed
  /\ heads' = heads + 1
  /\ due' \in 0 .. MaxLen
  /\ sent' = 0
  /\ open' \in BOOLEAN
  /\ UNCHANGED <<asked, dropped, disturbed>>

Send ==
  /\ open
  /\ heads > 0
  /\ sent < due \/ disturbed
  /\ sent' = sent + 1
  /\ open' \in BOOLEAN
  /\ UNCHANGED <<asked, dropped, heads, due, disturbed>>

Disturb ==
  /\ disturbed' = TRUE
  /\ UNCHANGED <<asked, dropped, heads, due, sent, open>>

Close ==
  /\ open' = FALSE
  /\ UNCHANGED <<asked, dropped, heads, due, sent, disturbed>>

Next == Ask \/ Drop \/ Respond \/ Send \/ Disturb \/ Close

Spec == Init /\ [][Next]_vars
==============================================================================
