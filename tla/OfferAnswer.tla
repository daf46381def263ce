----------------------------- MODULE OfferAnswer ----------------------------
(***************************************************************************)
(* What the exchange of session descriptions between two nodes promises,   *)
(* whoever offers and however often: one offer is accepted, and never      *)
(* another one after it.  Peering implements it.                           *)
(***************************************************************************)
CONSTANT Node

VARIABLE accepted   \* the nodes whose offer the other one has accepted

Init == accepted = {}

Accept(n) == accepted = {} /\ accepted' = {n}

Next == \E n \in Node : Accept(n)

Spec == Init /\ [][Next]_accepted

=============================================================================
