------------------------- MODULE OperationExclusion -------------------------
(***************************************************************************)
(* What the operation locks of colui promise, with no lock in sight: which *)
(* guards may be held at the same time.  A guard is the RAII value         *)
(* returned by OperationLockManager (crates/colui-app/src/operations.rs);  *)
(* an instance is one running copy of the application.                     *)
(*                                                                         *)
(*  - a recovery guard is held alone, over all instances;                  *)
(*  - inside an instance a profile has at most one lifecycle or definition *)
(*    guard, and a container at most one container guard;                  *)
(*  - everything else may run side by side.                                *)
(***************************************************************************)
CONSTANTS Clients,     \* tasks that ask for guards
          Instances,   \* running copies of the application
          InstanceOf,  \* the instance a client is a task of
          Profiles,    \* profile identifiers
          Containers,  \* Docker container identifiers
          None         \* "no operation", "no lease holder"

Operations ==
    [kind : {"lifecycle", "definition"}, subject : Profiles]
        \cup [kind : {"container"}, subject : Containers]
        \cup [kind : {"mutation", "recovery"}, subject : {None}]

\* Two guards of one instance about the same profile or the same container.
SameSubject(o, p) ==
    /\ o.subject = p.subject
    /\ \/ {o.kind, p.kind} \subseteq {"lifecycle", "definition"}
       \/ o.kind = "container" /\ p.kind = "container"

Compatible(c, o, d, p) ==
    /\ o.kind # "recovery"
    /\ p.kind # "recovery"
    /\ InstanceOf[c] = InstanceOf[d] => ~SameSubject(o, p)

VARIABLE granted   \* the operation whose guard a client holds, or None

TypeOK == granted \in [Clients -> Operations \cup {None}]

Init == granted = [c \in Clients |-> None]

Grant(c, o) ==
    /\ granted[c] = None
    /\ \A d \in Clients \ {c} : 
          granted[d] # None => Compatible(c, o, d, granted[d])
    /\ granted' = [granted EXCEPT ![c] = o]

\* Guards are dropped: one by its owner, or all of an instance that dies.
Revoke(S) == granted' = [c \in Clients |-> IF c \in S THEN None ELSE granted[c]]

Next ==
    \/ \E c \in Clients, o \in Operations : Grant(c, o)
    \/ \E c \in Clients : granted[c] # None /\ Revoke({c})
    \/ \E i \in Instances : Revoke({c \in Clients : InstanceOf[c] = i})

Spec == Init /\ [][Next]_granted
=============================================================================
