------------------------------ MODULE MCServer ------------------------------
(* A server with every configuration of a few ports and host names.        *)
EXTENDS Server, TLC

CONSTANTS h1, h2, local

=============================================================================
