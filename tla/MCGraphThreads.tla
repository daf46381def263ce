--------------------------- MODULE MCGraphThreads ---------------------------
(* A node with a few channels that gets neighbours and first states: two   *)
(* channels to one node, and perhaps one to another.                       *)
EXTENDS GraphThreads, TLC

CONSTANTS c1, c2, c3, a, b, x, y

PeerOfTwo == c1 :> a @@ c2 :> a
PeerOfThree == c1 :> a @@ c2 :> a @@ c3 :> b
Symmetric == Permutations({c1, c2})

=============================================================================
