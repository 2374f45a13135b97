----------------------------- MODULE AtMostOnce -----------------------------
(***************************************************************************)
(* What handling the events of the chain promises: an event's transaction  *)
(* is accepted once, and then each write its handler makes to the database *)
(* is applied once or never, in any order the handler likes.  An accepted  *)
(* transaction may stop half applied, or not applied at all.               *)
(***************************************************************************)
EXTENDS Naturals

CONSTANTS Transactions, Writes

VARIABLES accepted, applied

Init ==
  /\ accepted = {}
  /\ applied = [tw \in Transactions \X Writes |-> 0]

Accept(t) ==
  /\ t \notin accepted
  /\ accepted' = accepted \cup {t}
  /\ UNCHANGED applied

Apply(t, w) ==
  /\ t \in accepted
  /\ applied[<<t, w>>] = 0
  /\ applied' = [applied EXCEPT ![<<t, w>>] = 1]
  /\ UNCHANGED accepted

Next == \E t \in Transactions : Accept(t) \/ \E w \in Writes : Apply(t, w)

Spec == Init /\ [][Next]_<<accepted, applied>>
=============================================================================
