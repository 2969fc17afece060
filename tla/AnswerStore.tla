----------------------------- MODULE AnswerStore -----------------------------
(***************************************************************************)
(* What the catalogue and the result tables promise their users together:  *)
(* a dictionary from minerule names to answers.  Looking a name up yields  *)
(* Nothing or the whole answer of one text; a name gets an answer only     *)
(* when it has none, loses it only as a whole, and no program changes two  *)
(* names in one step.                                                      *)
(***************************************************************************)
CONSTANTS Names, Texts, Nothing

VARIABLE store

TypeOK == store \in [Names -> Texts \cup {Nothing}]

Init == store = [n \in Names |-> Nothing]

Publish(n, t) ==
  /\ store[n] = Nothing
  /\ store' = [store EXCEPT ![n] = t]

Withdraw(n) ==
  /\ store[n] # Nothing
  /\ store' = [store EXCEPT ![n] = Nothing]

Next == \E n \in Names : Withdraw(n) \/ \E t \in Texts : Publish(n, t)

Spec == Init /\ [][Next]_store
=============================================================================
