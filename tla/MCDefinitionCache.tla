-------------------------- MODULE MCDefinitionCache --------------------------
(* Instances of DefinitionCache for TLC. *)
EXTENDS DefinitionCache, TLC

CONSTANTS c1, c2, p1, p2, none

Interchangeable == Permutations({c1, c2}) \cup Permutations({p1, p2})
=============================================================================
