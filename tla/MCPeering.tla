----------------------------- MODULE MCPeering -----------------------------
(* Two nodes, of which a may connect anew and b has all its peerings.      *)
EXTENDS Peering, TLC

CONSTANTS a, b

Twice == a :> 2 @@ b :> 1
Full == a :> targetPeeringCount - 1 @@ b :> targetPeeringCount
Descriptions == [from : Node, type : {"offer"}] \cup [from : {a}, type : {"answer"}]

=============================================================================
