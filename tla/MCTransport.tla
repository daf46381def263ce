----------------------------- MODULE MCTransport ----------------------------
(***************************************************************************)
(* Instances of Transport: nodes a, b and c linked in a triangle, and d    *)
(* that only c is linked to.                                               *)
(***************************************************************************)
EXTENDS Transport, TLC

CONSTANTS a, b, c, d, t1, t2

Triangle == {<<m, n>> \in {a, b, c} \X {a, b, c} : m # n}
Paw == Triangle \cup {<<c, d>>, <<d, c>>}

ASSUME LinksConnect == Connected

OneSource(messages) == [n \in Node |-> IF n = a THEN messages ELSE 0]
TwoMessages == OneSource(2)
ThreeMessages == OneSource(3)

(* The numbers of a source that sends wrap around, or do not.              *)
Starts == [n \in Node |-> IF Budget[n] > 0 THEN {0, SeqMod - 1} ELSE {0}]

=============================================================================
