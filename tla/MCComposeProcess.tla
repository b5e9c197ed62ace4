--------------------------- MODULE MCComposeProcess ---------------------------
(* Instances of ComposeProcess for TLC. *)
EXTENDS ComposeProcess

CONSTANTS m1, m2, docker
=============================================================================
