-------------------------- MODULE MCProfileRegistry --------------------------
(* Instances of ProfileRegistry for TLC. *)
EXTENDS ProfileRegistry, TLC

CONSTANTS t1, t2, t3, i1, i2, p1, p2, p3, d1, d2, none, corrupt, legacy1, malformed

\* Two tasks, each of an instance of its own.
TwoHomes == [t \in {t1, t2} |-> IF t = t1 THEN i1 ELSE i2]

\* The tasks change places with their instances.
Swapped == t1 :> t2 @@ t2 :> t1 @@ i1 :> i2 @@ i2 :> i1
Interchangeable == Permutations({p1, p2, p3}) \cup Permutations({d1, d2}) \cup {Swapped}
=============================================================================
