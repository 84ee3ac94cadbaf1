----------------------------- MODULE RecencyView -----------------------------
(***************************************************************************)
(* What RecentContacts promises to those who read the lists, without Kafka,  *)
(* Redis commands or steps: one list at a time is hidden, and it comes back  *)
(* with one contact moved to its head, the oldest falling off the end.  A    *)
(* failure or the end of the process leaves a hidden list empty for good.    *)
(***************************************************************************)
EXTENDS RedisList

CONSTANTS ListKey, Contact, MaxBuffer

VARIABLES
  view,   \* view[k]: what is read of list k
  kept,   \* kept[k]: what it is made of, hidden or not
  faults

vars == <<view, kept, faults>>

Init ==
  /\ view = [k \in ListKey |-> <<>>]
  /\ kept = view
  /\ faults = 0

Hide(k) ==
  /\ kept = view
  /\ view' = [view EXCEPT ![k] = <<>>]
  /\ UNCHANGED <<kept, faults>>

Show(k, c) ==
  /\ view[k] = <<>>
  /\ kept' = [kept EXCEPT ![k] = LTrim(MoveToFront(@, c), MaxBuffer)]
  /\ view' = kept'
  /\ UNCHANGED faults

\* A fault costs the list that is hidden, if there is one.
Fault ==
  /\ faults' = faults + 1
  /\ kept' = view
  /\ UNCHANGED view

Next ==
  \/ \E k \in ListKey : Hide(k) \/ \E c \in Contact : Show(k, c)
  \/ Fault

Spec == Init /\ [][Next]_vars
=============================================================================
