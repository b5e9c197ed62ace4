-------------------------- MODULE MCOperationLocks --------------------------
(***************************************************************************)
(* Small instances of OperationLocks.  Model values stand for tasks,       *)
(* instances, profiles and containers.                                     *)
(***************************************************************************)
EXTENDS OperationLocks

CONSTANTS c1, c2, c3, i1, i2, p1, k1, none

\* Two tasks of one instance, and one of another.
TwoAndOne == [c \in {c1, c2, c3} |-> IF c = c3 THEN i2 ELSE i1]
=============================================================================
