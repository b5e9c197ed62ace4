--------------------------- MODULE OperationLocks ---------------------------
(***************************************************************************)
(* OperationLockManager, crates/colui-adapters/src/operations.rs.          *)
(*                                                                         *)
(* Every instance of the application has a table of profile leases         *)
(* (`profiles`, one mutex) and a barrier (`shared`, `recovering`,          *)
(* `containers`, another mutex).  All instances share one advisory file    *)
(* lock, registry.recovery.lock.  A client is a task that performs one     *)
(* operation at a time; an action is what it does under one mutex or in    *)
(* one file-lock call, so every point where another task or another        *)
(* instance can get in between is a state here.                            *)
(*                                                                         *)
(* next_token makes each lease's token unique; a client has one live lease *)
(* at most and each guard releases once (ReleaseOnce), so the client       *)
(* itself is its token.  Refusals that change nothing are not steps.       *)
(***************************************************************************)
EXTENDS Naturals, FiniteSets

CONSTANTS Clients, Instances, InstanceOf, Profiles, Containers, None,
          GenerationLimit   \* projection_generation wraps here (2^64 in the code)

NoOperation == [kind |-> "none", subject |-> None]
SharedOperations ==
    [kind : {"lifecycle", "definition"}, subject : Profiles]
        \cup [kind : {"container"}, subject : Containers]
        \cup [kind : {"mutation"}, subject : {None}]
Recovery == [kind |-> "recovery", subject |-> None]

ASSUME PlacementAssumption == InstanceOf \in [Clients -> Instances]
ASSUME NoneAssumption == None \notin Clients /\ None \notin Profiles
                            /\ None \notin Containers
ASSUME NoneIsNoOperation == None \notin SharedOperations \cup {Recovery}
ASSUME ClientsAssumption == IsFiniteSet(Clients)
ASSUME LimitAssumption == GenerationLimit \in Nat \ {0, 1}

VARIABLES
    pc,            \* where each client is in its operation
    op,            \* the operation it performs, or NoOperation
    leases,        \* LockState.profiles: per instance and profile
    shared,        \* BarrierState.shared
    recovering,    \* BarrierState.recovering
    containers,    \* BarrierState.containers: the holder of each container, or None
    generation,    \* LockState.projection_generation
    sharers,       \* clients whose open file holds the shared advisory lock
    excluder       \* clients whose open file holds the exclusive advisory lock

table == <<leases, containers, generation>>
barrier == <<shared, recovering>>
file == <<sharers, excluder>>
vars == <<pc, op, leases, shared, recovering, containers, generation, sharers, excluder>>

(***************************************************************************)
(* Next to an operator stands, where a property is about it, a faulty      *)
(* variant of it that a slip in the code could produce (AdvanceNever       *)
(* for Advance); no action uses these, they show what the properties see.  *)
(***************************************************************************)

(***************************************************************************)
(* The stages of an operation.                                             *)
(*   counted    barrier counted it, the file is not locked yet             *)
(*   shared     it holds the shared file lock, the table is unread         *)
(*   pending    its lifecycle lease is Pending and its future is runnable  *)
(*   checked    it saw a definition lease and is about to await `notify`   *)
(*   waiting    it awaits `notify`; woken: notified, not yet polled        *)
(*   held       the caller has the guard                                   *)
(*   releasing  the guard's drop unlocked the file, its lease remains      *)
(*   abandoning the same for a reservation dropped before promotion        *)
(*   leaving    only its mark on the barrier remains                       *)
(*   refused    the table refused it, its open file is not closed yet      *)
(*   flagged    recovery: `recovering` is set, the file is not locked yet  *)
(***************************************************************************)
Stages == {"idle", "counted", "shared", "pending", "checked", "waiting", "woken",
           "held", "releasing", "abandoning", "leaving", "refused", "flagged"}

\* An idle profile has no entry in the map; a new entry is ProfileState::new().
IdleProfile == [lifecycle |-> None, active |-> FALSE, definition |-> None, permit |-> FALSE]
ProfileStates == [lifecycle : Clients \cup {None},   \* holder of the lifecycle lease
                  active : BOOLEAN,                  \* Active rather than Pending
                  definition : Clients \cup {None},  \* holder of the definition lease
                  permit : BOOLEAN]                  \* `notify` stores a permit

TypeOK ==
    /\ pc \in [Clients -> Stages]
    /\ op \in [Clients -> SharedOperations \cup {Recovery, NoOperation}]
    /\ leases \in [Instances -> [Profiles -> ProfileStates]]
    /\ shared \in [Instances -> Nat]
    /\ recovering \in [Instances -> BOOLEAN]
    /\ containers \in [Instances -> [Containers -> Clients \cup {None}]]
    /\ generation \in [Instances -> 0 .. GenerationLimit - 1]
    /\ sharers \in SUBSET Clients
    /\ excluder \in SUBSET Clients

Init ==
    /\ pc = [c \in Clients |-> "idle"]
    /\ op = [c \in Clients |-> NoOperation]
    /\ leases = [i \in Instances |-> [p \in Profiles |-> IdleProfile]]
    /\ shared = [i \in Instances |-> 0]
    /\ recovering = [i \in Instances |-> FALSE]
    /\ containers = [i \in Instances |-> [k \in Containers |-> None]]
    /\ generation = [i \in Instances |-> 0]
    /\ sharers = {}
    /\ excluder = {}

-----------------------------------------------------------------------------
Home(c) == InstanceOf[c]
At(c, stage, kind) == pc[c] = stage /\ op[c].kind = kind
Lease(c) == leases[Home(c)][op[c].subject]
SetLease(c, state) == leases' = [leases EXCEPT ![Home(c)][op[c].subject] = state]
Goto(c, stage) == pc' = [pc EXCEPT ![c] = stage]

\* The client has nothing left to do: its operation is over.
Finish(c) == /\ pc' = [pc EXCEPT ![c] = "idle"]
             /\ op' = [op EXCEPT ![c] = NoOperation]

Count(c) == shared' = [shared EXCEPT ![Home(c)] = @ + 1]
\* release_shared saturates at zero.
Uncount(c) == shared' = [shared EXCEPT ![Home(c)] = IF @ = 0 THEN 0 ELSE @ - 1]
AdvanceNever(c) == UNCHANGED generation
Advance(c) == generation' = [generation EXCEPT ![Home(c)] = (@ + 1) % GenerationLimit]

RemoveIfUndefined(state) == IF state.definition = None THEN IdleProfile ELSE state
\* remove_if_idle: an entry without leases leaves the map.
RemoveIfIdle(state) ==
    IF state.lifecycle = None /\ state.definition = None THEN IdleProfile ELSE state

\* The reservation registered on the `notify` of c's profile, if any.
Waiters(c) == {w \in Clients : /\ pc[w] = "waiting"
                               /\ Home(w) = Home(c)
                               /\ op[w].subject = op[c].subject}

\* notify_one: wakes the waiter, or leaves a permit when there is none.
NotifyOne(c, state) ==
    RemoveIfIdle([state EXCEPT !.permit = @ \/ Waiters(c) = {}])
WakeNobody(c, stage) == Goto(c, stage)
Wake(c, stage) ==
    pc' = [w \in Clients |-> IF w = c THEN stage
                             ELSE IF w \in Waiters(c) THEN "woken" ELSE pc[w]]

-----------------------------------------------------------------------------
(* acquire_shared, release_shared and the advisory lock.                   *)

RequestShared(c, o) ==
    /\ pc[c] = "idle"
    /\ ~recovering[Home(c)]
    /\ op' = [op EXCEPT ![c] = o]
    /\ Goto(c, "counted")
    /\ Count(c)
    /\ UNCHANGED <<table, recovering, file>>

\* try_lock_shared succeeds; acquire_mutation has no table to consult.
LockShared(c) ==
    /\ pc[c] = "counted"
    /\ excluder = {}
    /\ sharers' = sharers \cup {c}
    /\ Goto(c, IF op[c].kind = "mutation" THEN "held" ELSE "shared")
    /\ UNCHANGED <<op, table, barrier, excluder>>

\* try_lock_shared would block, or opening the file fails.
LockSharedFails(c) ==
    /\ pc[c] = "counted"
    /\ Goto(c, "leaving")
    /\ UNCHANGED <<op, table, barrier, file>>

ReleaseShared(c) ==
    /\ pc[c] = "leaving"
    /\ op[c].kind # "recovery"
    /\ Uncount(c)
    /\ Finish(c)
    /\ UNCHANGED <<table, recovering, file>>

LeakRefused(c) ==
    pc[c] = "refused" /\ Finish(c) /\ UNCHANGED <<table, barrier, file>>

\* The refusing call returns; dropping the open file unlocks it.
CloseRefused(c) ==
    /\ pc[c] = "refused"
    /\ sharers' = sharers \ {c}
    /\ Finish(c)
    /\ UNCHANGED <<table, barrier, excluder>>

RefuseCounted(c) == Goto(c, "refused") /\ UNCHANGED <<op, table, barrier, file>>

\* A refusal gives the count back while the table is still locked.
Refuse(c) ==
    /\ Uncount(c)
    /\ Goto(c, "refused")
    /\ UNCHANGED <<op, table, recovering, file>>

\* The first step of every guard's drop.
UnlockFile(c) ==
    /\ pc[c] = "held"
    /\ sharers' = sharers \ {c}
    /\ excluder' = excluder \ {c}
    /\ Goto(c, IF op[c].kind \in {"mutation", "recovery"} THEN "leaving" ELSE "releasing")
    /\ UNCHANGED <<op, table, barrier>>

-----------------------------------------------------------------------------
(* Lifecycle leases: reserve_lifecycle, wait_for_definition, the drops.    *)

ReserveLifecycle(c) ==
    /\ At(c, "shared", "lifecycle")
    /\ Lease(c).lifecycle = None
    /\ SetLease(c, [Lease(c) EXCEPT !.lifecycle = c, !.active = FALSE])
    /\ Advance(c)
    /\ Goto(c, "pending")
    /\ UNCHANGED <<op, containers, barrier, file>>

RefuseLifecycle(c) ==
    /\ At(c, "shared", "lifecycle")
    /\ Lease(c).lifecycle # None
    /\ Refuse(c)

FindDefinition(c) ==
    /\ pc[c] \in {"pending", "woken"}
    /\ Lease(c).definition # None
    /\ Goto(c, "checked")
    /\ UNCHANGED <<op, table, barrier, file>>

Promote(c) ==
    /\ pc[c] \in {"pending", "woken"}
    /\ Lease(c).lifecycle = c
    /\ ~Lease(c).active
    /\ Lease(c).definition = None
    /\ SetLease(c, [Lease(c) EXCEPT !.active = TRUE])
    /\ Advance(c)
    /\ Goto(c, "held")
    /\ UNCHANGED <<op, containers, barrier, file>>

AwaitWithoutPermit(c) ==
    pc[c] = "checked" /\ Goto(c, "waiting") /\ UNCHANGED <<op, table, barrier, file>>

\* notified().await takes a stored permit at once.
Await(c) ==
    /\ pc[c] = "checked"
    /\ Goto(c, IF Lease(c).permit THEN "pending" ELSE "waiting")
    /\ SetLease(c, [Lease(c) EXCEPT !.permit = FALSE])
    /\ UNCHANGED <<op, containers, generation, barrier, file>>

\* The future of a pending acquisition is dropped.  A notification that it
\* received and did not use goes back to `notify`; the file is unlocked.
Abandon(c) ==
    /\ pc[c] \in {"pending", "checked", "waiting", "woken"}
    /\ SetLease(c, [Lease(c) EXCEPT !.permit = @ \/ pc[c] = "woken"])
    /\ sharers' = sharers \ {c}
    /\ Goto(c, "abandoning")
    /\ UNCHANGED <<op, containers, generation, barrier, excluder>>

ReleasePending(c) ==
    /\ pc[c] = "abandoning"
    /\ IF Lease(c).lifecycle = c /\ ~Lease(c).active
       THEN /\ SetLease(c, NotifyOne(c, [Lease(c) EXCEPT !.lifecycle = None]))
            /\ Wake(c, "leaving")
       ELSE /\ Goto(c, "leaving")
            /\ UNCHANGED leases
    /\ Advance(c)
    /\ UNCHANGED <<op, containers, barrier, file>>

ReleaseLifecycle(c) ==
    /\ At(c, "releasing", "lifecycle")
    /\ IF Lease(c).lifecycle = c /\ Lease(c).active
       THEN /\ SetLease(c, NotifyOne(c, [Lease(c) EXCEPT !.lifecycle = None,
                                                          !.active = FALSE]))
            /\ Wake(c, "leaving")
       ELSE /\ Goto(c, "leaving")
            /\ UNCHANGED leases
    /\ Advance(c)
    /\ UNCHANGED <<op, containers, barrier, file>>

-----------------------------------------------------------------------------
(* Definition leases.                                                      *)

AcquireUnderLifecycle(c) ==
    /\ At(c, "shared", "definition") /\ Lease(c).definition = None
    /\ SetLease(c, [Lease(c) EXCEPT !.definition = c]) /\ Advance(c)
    /\ Goto(c, "held") /\ UNCHANGED <<op, containers, barrier, file>>

AcquireDefinition(c) ==
    /\ At(c, "shared", "definition")
    /\ Lease(c).lifecycle = None
    /\ Lease(c).definition = None
    /\ SetLease(c, [Lease(c) EXCEPT !.definition = c])
    /\ Advance(c)
    /\ Goto(c, "held")
    /\ UNCHANGED <<op, containers, barrier, file>>

RefuseDefinition(c) ==
    /\ At(c, "shared", "definition")
    /\ Lease(c).lifecycle # None \/ Lease(c).definition # None
    /\ Refuse(c)

ReleaseDefinition(c) ==
    /\ At(c, "releasing", "definition")
    /\ IF Lease(c).definition = c
       THEN /\ SetLease(c, NotifyOne(c, [Lease(c) EXCEPT !.definition = None]))
            /\ Wake(c, "leaving")
       ELSE /\ Goto(c, "leaving")
            /\ UNCHANGED leases
    /\ Advance(c)
    /\ UNCHANGED <<op, containers, barrier, file>>

-----------------------------------------------------------------------------
(* Container leases live in the barrier and end with the count in one step. *)

Holder(c) == containers[Home(c)][op[c].subject]
SetHolder(c, h) == containers' = [containers EXCEPT ![Home(c)][op[c].subject] = h]

AcquireContainer(c) ==
    /\ At(c, "shared", "container")
    /\ Holder(c) = None
    /\ SetHolder(c, c)
    /\ Advance(c)
    /\ Goto(c, "held")
    /\ UNCHANGED <<op, leases, barrier, file>>

RefuseContainer(c) ==
    /\ At(c, "shared", "container")
    /\ Holder(c) # None
    /\ Refuse(c)

ReleaseContainer(c) ==
    /\ At(c, "releasing", "container")
    /\ SetHolder(c, None)
    /\ Uncount(c)
    /\ Advance(c)
    /\ Finish(c)
    /\ UNCHANGED <<leases, recovering, file>>

-----------------------------------------------------------------------------
(* acquire_recovery and its guard.                                         *)

RequestRecovery(c) ==
    /\ pc[c] = "idle"
    /\ ~recovering[Home(c)]
    /\ shared[Home(c)] = 0
    /\ recovering' = [recovering EXCEPT ![Home(c)] = TRUE]
    /\ op' = [op EXCEPT ![c] = Recovery]
    /\ Goto(c, "flagged")
    /\ UNCHANGED <<table, shared, file>>

LockExclusive(c) ==
    /\ pc[c] = "flagged"
    /\ sharers = {}
    /\ excluder = {}
    /\ excluder' = {c}
    /\ Goto(c, "held")
    /\ UNCHANGED <<op, table, barrier, sharers>>

LockExclusiveFailsFlagged(c) ==
    pc[c] = "flagged" /\ Finish(c) /\ UNCHANGED <<table, barrier, file>>

LockExclusiveFails(c) ==
    /\ pc[c] = "flagged"
    /\ Goto(c, "leaving")
    /\ UNCHANGED <<op, table, barrier, file>>

EndRecovery(c) ==
    /\ At(c, "leaving", "recovery")
    /\ recovering' = [recovering EXCEPT ![Home(c)] = FALSE]
    /\ Finish(c)
    /\ UNCHANGED <<table, shared, file>>

-----------------------------------------------------------------------------
(* An instance dies and starts again: its memory is new and the operating  *)
(* system has closed its files.                                            *)

Restart(i) ==
    LET lost == {c \in Clients : Home(c) = i}
    IN /\ pc' = [c \in Clients |-> IF c \in lost THEN "idle" ELSE pc[c]]
       /\ op' = [c \in Clients |-> IF c \in lost THEN NoOperation ELSE op[c]]
       /\ leases' = [leases EXCEPT ![i] = [p \in Profiles |-> IdleProfile]]
       /\ containers' = [containers EXCEPT ![i] = [k \in Containers |-> None]]
       /\ shared' = [shared EXCEPT ![i] = 0]
       /\ recovering' = [recovering EXCEPT ![i] = FALSE]
       /\ generation' = [generation EXCEPT ![i] = 0]
       /\ sharers' = sharers \ lost
       /\ excluder' = excluder \ lost

-----------------------------------------------------------------------------
\* What the code does by itself once an operation has begun.
Proceed(c) ==
    \/ LockShared(c) \/ LockSharedFails(c) \/ ReleaseShared(c) \/ CloseRefused(c)
    \/ ReserveLifecycle(c) \/ RefuseLifecycle(c) \/ FindDefinition(c)
    \/ Promote(c) \/ Await(c) \/ ReleasePending(c) \/ ReleaseLifecycle(c)
    \/ AcquireDefinition(c) \/ RefuseDefinition(c) \/ ReleaseDefinition(c)
    \/ AcquireContainer(c) \/ RefuseContainer(c) \/ ReleaseContainer(c)
    \/ LockExclusive(c) \/ LockExclusiveFails(c) \/ EndRecovery(c)

\* What its caller decides.
Request(c) == (\E o \in SharedOperations : RequestShared(c, o)) \/ RequestRecovery(c)

Next ==
    \/ \E c \in Clients : Request(c) \/ Proceed(c) \/ Abandon(c) \/ UnlockFile(c)
    \/ \E i \in Instances : Restart(i)

Spec == Init /\ [][Next]_vars

(***************************************************************************)
(* Tasks that can run do run, and every guard is dropped in the end: the   *)
(* Compose calls under lifecycle and definition guards have deadlines.     *)
(* Nobody has to ask for a guard, to cancel, or to restart.                *)
(***************************************************************************)
FairSpec == Spec /\ \A c \in Clients : WF_vars(Proceed(c)) /\ WF_vars(UnlockFile(c))
-----------------------------------------------------------------------------
(* Safety.                                                                 *)

Counted == {"counted", "shared", "pending", "checked", "waiting", "woken",
            "held", "releasing", "abandoning", "leaving"}
Reserved == {"pending", "checked", "waiting", "woken", "abandoning"}
Sharing == {"shared", "pending", "checked", "waiting", "woken", "held", "refused"}

Recovers(c) == op[c].kind = "recovery"
Members(i) == {c \in Clients : Home(c) = i}

\* The barrier's counter is exactly the number of operations between
\* acquire_shared and release_shared, over every refusal, failure, drop and
\* cancellation, so recovery is neither let in early nor locked out for ever;
\* `recovering` is set exactly while one recovery is under way.
BarrierExact ==
    \A i \in Instances :
        /\ shared[i] = Cardinality({c \in Members(i) : pc[c] \in Counted /\ ~Recovers(c)})
        /\ recovering[i] <=> \E c \in Members(i) : Recovers(c)
        /\ \A c, d \in Members(i) : Recovers(c) /\ Recovers(d) => c = d

\* Every reservation and every guard keeps its own lease until its own release
\* takes it away, whatever other tasks release meanwhile: nobody is robbed of a
\* profile or a container, and the "lifecycle reservation lost its profile
\* state" panic of wait_for_definition is unreachable.
LeaseKept ==
    \A c \in Clients :
        /\ pc[c] \in Reserved => Lease(c).lifecycle = c /\ ~Lease(c).active
        /\ pc[c] \in {"held", "releasing"} =>
              CASE op[c].kind = "lifecycle" -> Lease(c).lifecycle = c /\ Lease(c).active
                [] op[c].kind = "definition" -> Lease(c).definition = c
                [] op[c].kind = "container" -> Holder(c) = c
                [] OTHER -> TRUE

\* No wakeup is lost between wait_for_definition's look at the table and its
\* await: whoever waits has a definition lease in front of it, whose release
\* notifies; whoever is about to wait has that lease or a stored permit.
WakeupKept ==
    \A c \in Clients :
        /\ pc[c] = "waiting" => Lease(c).definition # None
        /\ pc[c] = "checked" => Lease(c).definition # None \/ Lease(c).permit

\* The advisory file lock is held by exactly the operations that need it.
FileOwned ==
    /\ sharers = {c \in Clients : pc[c] \in Sharing /\ ~Recovers(c)}
    /\ excluder = {c \in Clients : At(c, "held", "recovery")}
    /\ sharers = {} \/ excluder = {}

\* Which operations the stages belong to.
StagesFit ==
    \A c \in Clients :
        /\ pc[c] = "idle" <=> op[c].kind = "none"
        /\ pc[c] = "flagged" => op[c].kind = "recovery"
        /\ pc[c] \in Reserved => op[c].kind = "lifecycle"
        /\ pc[c] \in {"counted", "shared", "refused"} => op[c].kind \notin {"recovery", "none"}

\* The inductive invariant behind LeaseKept, FileOwned and ImplementsExclusion.
IInv == TypeOK /\ StagesFit /\ FileOwned /\ LeaseKept

\* What the guards promise: OperationExclusion.
Exclusion == INSTANCE OperationExclusion
                 WITH granted <- [c \in Clients |-> IF pc[c] = "held" THEN op[c] ELSE None]
ImplementsExclusion == Exclusion!Spec

(***************************************************************************)
(* What diagnostics shows of an instance: operation_projection's list.     *)
(***************************************************************************)
Projection(i) ==
    [profiles |-> [p \in Profiles |-> [lifecycle |-> leases[i][p].lifecycle,
                                      active |-> leases[i][p].active,
                                      definition |-> leases[i][p].definition]],
     containers |-> containers[i]]

\* Two projections of a running instance with the same generation show the
\* same operations: no change of the list goes without a new generation.
ProjectionVersioned ==
    [][\A i \in Instances :
          Projection(i)' # Projection(i) =>
             generation'[i] # generation[i] \/ Restart(i)]_vars

(***************************************************************************)
(* Liveness.                                                               *)
(***************************************************************************)
\* A lifecycle operation that reserved its profile gets its guard, unless it
\* is cancelled or its process dies: definition loads cannot starve it.
ReservationServed ==
    \A c \in Clients :
        pc[c] \in Reserved ~> pc[c] \in {"held", "abandoning", "idle"}

\* Recovery never shuts an instance for good.
RecoveryEnds == \A i \in Instances : recovering[i] ~> ~recovering[i]
=============================================================================
