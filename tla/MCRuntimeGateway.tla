-------------------------- MODULE MCRuntimeGateway --------------------------
(* Instances of RuntimeGateway for TLC. *)
EXTENDS RuntimeGateway

CONSTANTS c1, c2, c3, o1, none
=============================================================================
