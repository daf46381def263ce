------------------------- MODULE MCRouteComputation -------------------------
(* Every directed graph over three vertices, self-loops included.          *)
EXTENDS RouteComputation

CONSTANTS a, b, c

MCNode == {a, b, c}
=============================================================================
