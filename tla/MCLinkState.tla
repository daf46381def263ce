----------------------------- MODULE MCLinkState ----------------------------
(* Small networks of WebSockets and data channels.                         *)
EXTENDS LinkState, TLC

CONSTANTS a, b, c, k1, k2, k3

Trio == {a, b, c}
Pair == {a, b}

(* A triangle: a and c dial b, and a dials c as well.                      *)
TriangleChan == {k1, k2, k3}
TriangleDialer == k1 :> a @@ k2 :> c @@ k3 :> a
TriangleAcceptor == k1 :> b @@ k2 :> b @@ k3 :> c

(* A node dials another, which opens a peering to it.                      *)
PeeringChan == {k1, k2}
PeeringDialer == k1 :> a @@ k2 :> b
PeeringAcceptor == k1 :> b @@ k2 :> a

=============================================================================
