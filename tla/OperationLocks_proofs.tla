------------------------ MODULE OperationLocks_proofs ------------------------
(***************************************************************************)
(* Proofs about OperationLocks, for any set of tasks, instances, profiles  *)
(* and containers.                                                         *)
(***************************************************************************)
EXTENDS OperationLocks, FiniteSetTheorems, TLAPS

USE PlacementAssumption, NoneAssumption, LimitAssumption

(***************************************************************************)
(* What the auxiliary actions do to one variable each.                     *)
(***************************************************************************)
\* A lease update touches the entry of the caller's profile and no other.
LEMMA LeaseUpdate ==
    ASSUME TypeOK, NEW c \in Clients, NEW s \in ProfileStates,
           op[c].subject \in Profiles, SetLease(c, s)
    PROVE  /\ leases' \in [Instances -> [Profiles -> ProfileStates]]
           /\ \A i \in Instances, p \in Profiles :
                leases'[i][p] = IF i = Home(c) /\ p = op[c].subject
                                THEN s ELSE leases[i][p]
  BY DEF TypeOK, SetLease, Home

\* The operations of the lifecycle and definition kinds name a profile.
LEMMA Subjects ==
    ASSUME TypeOK, NEW c \in Clients
    PROVE  /\ op[c].kind \in {"lifecycle", "definition"} => op[c].subject \in Profiles
           /\ op[c].kind = "container" => op[c].subject \in Containers
           /\ op[c].kind \in {"none", "lifecycle", "definition", "container",
                              "mutation", "recovery"}
           /\ Home(c) \in Instances
  BY DEF TypeOK, SharedOperations, Recovery, NoOperation, Home

\* A notification wakes only reservations, and leaves them reservations.
LEMMA WakeUpdate ==
    ASSUME TypeOK, NEW c \in Clients, NEW stage \in Stages, Wake(c, stage)
    PROVE  /\ pc' \in [Clients -> Stages]
           /\ pc'[c] = stage
           /\ \A d \in Clients \ {c} :
                pc'[d] = pc[d] \/ (pc[d] = "waiting" /\ pc'[d] = "woken")
  BY DEF TypeOK, Wake, Waiters, Stages

\* A released entry keeps the leases that were not released.
LEMMA NotifyUpdate ==
    ASSUME NEW c \in Clients, NEW s \in ProfileStates
    PROVE  /\ NotifyOne(c, s) \in ProfileStates
           /\ NotifyOne(c, s).lifecycle = s.lifecycle
           /\ NotifyOne(c, s).definition = s.definition
           /\ s.lifecycle # None => NotifyOne(c, s).active = s.active
  BY DEF NotifyOne, RemoveIfIdle, ProfileStates, IdleProfile

LEMMA GenerationUpdate ==
    ASSUME TypeOK, NEW c \in Clients, Advance(c)
    PROVE  generation' \in [Instances -> 0 .. GenerationLimit - 1]
  BY DEF TypeOK, Advance, Home

(***************************************************************************)
(* The invariant.                                                          *)
(***************************************************************************)
LEMMA InvInit == Init => IInv
  BY DEF Init, IInv, TypeOK, StagesFit, FileOwned, LeaseKept, Stages, NoOperation,
         IdleProfile, ProfileStates, At, Recovers, Sharing, Reserved

\* c goes to stage s with operation o, and nobody else moves; c has the file lock that
\* its stage stands for.
Moves(c, s, o) ==
    /\ pc' = [pc EXCEPT ![c] = s]
    /\ op' = [op EXCEPT ![c] = o]
    /\ sharers' = IF s \in Sharing /\ o.kind # "recovery" THEN sharers \cup {c} ELSE sharers \ {c}
    /\ excluder' = IF s = "held" /\ o.kind = "recovery" THEN excluder \cup {c} ELSE excluder \ {c}

\* A stage and its operation belong together, and need no lease that c has not got.
Fits(c, s, o) ==
    /\ s = "idle" <=> o.kind = "none"
    /\ s = "flagged" => o.kind = "recovery"
    /\ s \in Reserved => o = op[c] /\ o.kind = "lifecycle" /\ pc[c] \in Reserved
    /\ s \in {"counted", "shared", "refused"} => o.kind \notin {"recovery", "none"}
    /\ s \in {"held", "releasing"} =>
          o.kind \in {"mutation", "recovery"} \/ (o = op[c] /\ pc[c] = "held")

\* A step of c that changes neither the leases nor the containers.
LEMMA PlainStep ==
    ASSUME IInv, NEW c \in Clients, NEW s \in Stages,
           NEW o \in SharedOperations \cup {Recovery, NoOperation},
           Moves(c, s, o), Fits(c, s, o), UNCHANGED table,
           shared' \in [Instances -> Nat], recovering' \in [Instances -> BOOLEAN],
           sharers' = {} \/ excluder' = {}
    PROVE  IInv'
  <1>1. /\ pc'[c] = s /\ op'[c] = o
        /\ \A d \in Clients \ {c} : pc'[d] = pc[d] /\ op'[d] = op[d]
    BY DEF IInv, TypeOK, Moves
  <1>2. TypeOK'
    BY DEF IInv, TypeOK, Moves, table
  <1>3. StagesFit'
    BY <1>1 DEF IInv, StagesFit, Fits
  <1>4. FileOwned'
    <2>1. sharers' = {d \in Clients : pc'[d] \in Sharing /\ ~Recovers(d)'}
      BY <1>1 DEF IInv, FileOwned, Moves, Recovers
    <2>2. excluder' = {d \in Clients : At(d, "held", "recovery")'}
      BY <1>1 DEF IInv, FileOwned, Moves, At
    <2> QED BY <2>1, <2>2 DEF FileOwned
  <1>5. LeaseKept'
    <2>1. ASSUME NEW d \in Clients, op'[d] = op[d]
          PROVE  Lease(d)' = Lease(d) /\ Holder(d)' = Holder(d)
      BY <2>1 DEF table, Lease, Holder, Home
    <2>2. ASSUME NEW d \in Clients, d # c
          PROVE  /\ pc'[d] \in Reserved => (Lease(d).lifecycle = d /\ ~Lease(d).active)'
                 /\ pc'[d] \in {"held", "releasing"} =>
                      CASE op'[d].kind = "lifecycle" -> (Lease(d).lifecycle = d /\ Lease(d).active)'
                        [] op'[d].kind = "definition" -> (Lease(d).definition = d)'
                        [] op'[d].kind = "container" -> (Holder(d) = d)'
                        [] OTHER -> TRUE
      BY <1>1, <2>1, <2>2 DEF IInv, LeaseKept
    <2>3. s \in Reserved => (Lease(c).lifecycle = c /\ ~Lease(c).active)'
      BY <1>1, <2>1 DEF IInv, LeaseKept, Fits
    <2>4. s \in {"held", "releasing"} =>
            CASE o.kind = "lifecycle" -> (Lease(c).lifecycle = c /\ Lease(c).active)'
              [] o.kind = "definition" -> (Lease(c).definition = c)'
              [] o.kind = "container" -> (Holder(c) = c)'
              [] OTHER -> TRUE
      BY <1>1, <2>1 DEF IInv, LeaseKept, Fits
    <2> QED BY <1>1, <2>2, <2>3, <2>4 DEF LeaseKept
  <1> QED BY <1>2, <1>3, <1>4, <1>5 DEF IInv

\* What the file lock is held by, and what a step leaves of the two counters.
LEMMA FileFacts ==
    ASSUME IInv, NEW c \in Clients
    PROVE  /\ c \in sharers <=> pc[c] \in Sharing /\ op[c].kind # "recovery"
           /\ c \in excluder <=> pc[c] = "held" /\ op[c].kind = "recovery"
           /\ sharers = {} \/ excluder = {}
           /\ op = [op EXCEPT ![c] = op[c]]
           /\ op[c] \in SharedOperations \cup {Recovery, NoOperation}
           /\ shared \in [Instances -> Nat] /\ recovering \in [Instances -> BOOLEAN]
  BY DEF IInv, TypeOK, FileOwned, At, Recovers

LEMMA CountFacts ==
    ASSUME IInv, NEW c \in Clients
    PROVE  /\ Count(c) => shared' \in [Instances -> Nat]
           /\ Uncount(c) => shared' \in [Instances -> Nat]
  <1>1. shared \in [Instances -> Nat] /\ Home(c) \in Instances
    BY DEF IInv, TypeOK, Home
  <1>2. \A n \in Nat : n + 1 \in Nat /\ (IF n = 0 THEN 0 ELSE n - 1) \in Nat
    OBVIOUS
  <1> QED BY ONLY <1>1, <1>2 DEF Count, Uncount

LEMMA PlainSteps ==
    ASSUME IInv, NEW c \in Clients,
           \/ \E o \in SharedOperations : RequestShared(c, o)
           \/ LockShared(c) \/ LockSharedFails(c) \/ ReleaseShared(c) \/ CloseRefused(c)
           \/ RefuseLifecycle(c) \/ RefuseDefinition(c) \/ RefuseContainer(c)
           \/ UnlockFile(c) \/ FindDefinition(c)
           \/ RequestRecovery(c) \/ LockExclusive(c) \/ LockExclusiveFails(c) \/ EndRecovery(c)
    PROVE  IInv'
  <1> USE DEF Moves, Fits, Stages, Sharing, Reserved, Goto, Finish, barrier, file
  <1>0. /\ pc[c] = "idle" <=> op[c].kind = "none"
        /\ pc[c] = "flagged" => op[c].kind = "recovery"
        /\ pc[c] \in Reserved => op[c].kind = "lifecycle"
        /\ pc[c] \in {"counted", "shared", "refused"} => op[c].kind \notin {"recovery", "none"}
    BY DEF IInv, StagesFit
  <1>1. /\ \A o \in SharedOperations : o.kind \notin {"none", "recovery"}
        /\ Recovery.kind = "recovery" /\ NoOperation.kind = "none"
    BY DEF SharedOperations, Recovery, NoOperation
  <1>2. ASSUME NEW o \in SharedOperations, RequestShared(c, o) PROVE IInv'
    <2>1. Moves(c, "counted", o) /\ Fits(c, "counted", o) /\ UNCHANGED <<table, recovering, file>>
      BY <1>0, <1>1, <1>2, FileFacts DEF RequestShared
    <2>2. "counted" \in Stages /\ Count(c)
      BY <1>2 DEF RequestShared
    <2> HIDE DEF Moves, Fits, Stages
    <2> QED BY <2>1, <2>2, FileFacts, CountFacts, PlainStep
  <1>3. CASE LockShared(c)
    <2> DEFINE s == IF op[c].kind = "mutation" THEN "held" ELSE "shared"
    <2>1. /\ Moves(c, s, op[c]) /\ Fits(c, s, op[c]) /\ UNCHANGED <<table, barrier>> /\ excluder' = {}
          /\ s \in Stages
      BY <1>0, <1>3, FileFacts DEF LockShared
    <2> HIDE DEF s, Moves, Fits, Stages
    <2> QED BY <2>1, FileFacts, PlainStep
  <1>4. CASE LockSharedFails(c)
    <2>1. /\ Moves(c, "leaving", op[c]) /\ Fits(c, "leaving", op[c])
          /\ UNCHANGED <<table, barrier, file>>
      BY <1>0, <1>4, FileFacts DEF LockSharedFails
    <2> QED BY <2>1, FileFacts, PlainStep
  <1>5. CASE ReleaseShared(c)
    <2>1. /\ Moves(c, "idle", NoOperation) /\ Fits(c, "idle", NoOperation)
          /\ UNCHANGED <<table, recovering, file>> /\ Uncount(c)
      BY <1>1, <1>5, FileFacts DEF ReleaseShared
    <2> QED BY <2>1, FileFacts, CountFacts, PlainStep
  <1>6. CASE CloseRefused(c)
    <2>1. /\ Moves(c, "idle", NoOperation) /\ Fits(c, "idle", NoOperation)
          /\ UNCHANGED <<table, barrier, excluder>> /\ sharers' \subseteq sharers
      BY <1>1, <1>6, FileFacts DEF CloseRefused
    <2>2. "idle" \in Stages
      OBVIOUS
    <2> HIDE DEF Moves, Fits, Stages
    <2> QED BY <2>1, <2>2, FileFacts, PlainStep
  <1>7. CASE RefuseLifecycle(c) \/ RefuseDefinition(c) \/ RefuseContainer(c)
    <2>1. pc[c] = "shared" /\ Refuse(c)
      BY <1>7 DEF RefuseLifecycle, RefuseDefinition, RefuseContainer, At
    <2>2. /\ Moves(c, "refused", op[c]) /\ Fits(c, "refused", op[c])
          /\ UNCHANGED <<table, recovering, file>> /\ Uncount(c)
      BY <1>0, <2>1, FileFacts DEF Refuse
    <2> QED BY <2>2, FileFacts, CountFacts, PlainStep
  <1>8. CASE UnlockFile(c)
    <2> DEFINE s == IF op[c].kind \in {"mutation", "recovery"} THEN "leaving" ELSE "releasing"
    <2>1. /\ Moves(c, s, op[c]) /\ Fits(c, s, op[c]) /\ UNCHANGED <<table, barrier>>
          /\ sharers' \subseteq sharers /\ excluder' \subseteq excluder /\ s \in Stages
      BY <1>0, <1>8, FileFacts DEF UnlockFile
    <2> HIDE DEF s, Moves, Fits, Stages
    <2> QED BY <2>1, FileFacts, PlainStep
  <1>9. CASE FindDefinition(c)
    <2>1. /\ Moves(c, "checked", op[c]) /\ Fits(c, "checked", op[c])
          /\ UNCHANGED <<table, barrier, file>>
      BY <1>0, <1>9, FileFacts DEF FindDefinition
    <2> QED BY <2>1, FileFacts, PlainStep
  <1>10. CASE RequestRecovery(c)
    <2>1. /\ Moves(c, "flagged", Recovery) /\ Fits(c, "flagged", Recovery)
          /\ UNCHANGED <<table, shared, file>>
      BY <1>0, <1>1, <1>10, FileFacts DEF RequestRecovery
    <2>2. recovering' \in [Instances -> BOOLEAN]
      BY <1>10, FileFacts DEF RequestRecovery
    <2> QED BY <2>1, <2>2, FileFacts, PlainStep
  <1>11. CASE LockExclusive(c)
    <2>1. /\ Moves(c, "held", op[c]) /\ Fits(c, "held", op[c])
          /\ UNCHANGED <<table, barrier>> /\ sharers' = {}
      BY <1>0, <1>11, FileFacts DEF LockExclusive
    <2> QED BY <2>1, FileFacts, PlainStep
  <1>12. CASE LockExclusiveFails(c)
    <2>1. /\ Moves(c, "leaving", op[c]) /\ Fits(c, "leaving", op[c])
          /\ UNCHANGED <<table, barrier, file>>
      BY <1>0, <1>12, FileFacts DEF LockExclusiveFails
    <2> QED BY <2>1, FileFacts, PlainStep
  <1>13. CASE EndRecovery(c)
    <2>1. /\ Moves(c, "idle", NoOperation) /\ Fits(c, "idle", NoOperation)
          /\ UNCHANGED <<table, shared, file>>
      BY <1>1, <1>13, FileFacts DEF EndRecovery, At
    <2>2. recovering' \in [Instances -> BOOLEAN]
      BY <1>13, FileFacts DEF EndRecovery
    <2> QED BY <2>1, <2>2, FileFacts, PlainStep
  <1> QED BY <1>2, <1>3, <1>4, <1>5, <1>6, <1>7, <1>8, <1>9, <1>10, <1>11, <1>12, <1>13

\* What an update of c's entry means for the entries that operations look at.
LEMMA LeaseFrame ==
    ASSUME TypeOK, NEW c \in Clients, op[c].kind \in {"lifecycle", "definition"},
           NEW s \in ProfileStates, SetLease(c, s), UNCHANGED op
    PROVE  /\ leases' \in [Instances -> [Profiles -> ProfileStates]]
           /\ Lease(c)' = s
           /\ \A d \in Clients : op[d].kind \in {"lifecycle", "definition"} =>
                 IF Home(d) = Home(c) /\ op[d].subject = op[c].subject
                 THEN Lease(d)' = s /\ Lease(d) = Lease(c)
                 ELSE Lease(d)' = Lease(d)
  <1>1. op[c].subject \in Profiles /\ Home(c) \in Instances
    BY Subjects
  <1>2. \A d \in Clients : op[d].kind \in {"lifecycle", "definition"} =>
           op[d].subject \in Profiles /\ Home(d) \in Instances
    BY Subjects
  <1> QED BY <1>1, <1>2, LeaseUpdate DEF Lease, Home

LEMMA LeaseType ==
    ASSUME TypeOK, NEW c \in Clients, op[c].kind \in {"lifecycle", "definition"}
    PROVE  Lease(c) \in ProfileStates
  BY Subjects DEF TypeOK, Lease


\* reserve_lifecycle writes a Pending lease into a profile without one.
LEMMA ReserveLifecycleStep ==
    ASSUME IInv, NEW c \in Clients, ReserveLifecycle(c)
    PROVE  IInv'
  <1> DEFINE s == [Lease(c) EXCEPT !.lifecycle = c, !.active = FALSE]
  <1>1. TypeOK /\ op[c].kind \in {"lifecycle", "definition"} /\ Lease(c) \in ProfileStates
    BY LeaseType DEF IInv, ReserveLifecycle, StagesFit, At, Reserved
  <1>0. At(c, "shared", "lifecycle") /\ Lease(c).lifecycle = None /\ UNCHANGED file
    BY <1>1 DEF IInv, LeaseKept, ReserveLifecycle, At, Reserved, file
  <1>2. /\ s \in ProfileStates
        /\ s.lifecycle = c
        /\ ~s.active
        /\ s.definition = Lease(c).definition
    BY <1>1 DEF ProfileStates
  <1>3. SetLease(c, s) /\ UNCHANGED op
    BY DEF ReserveLifecycle
  <1> HIDE DEF s
  <1>4. /\ pc' \in [Clients -> Stages]
        /\ \A d \in Clients \ {c} : pc'[d] = pc[d]
    BY <1>1 DEF ReserveLifecycle, Goto, TypeOK, Stages
  <1>5. TypeOK'
    BY <1>1, <1>2, <1>3, <1>4, LeaseFrame, GenerationUpdate
       DEF TypeOK, ReserveLifecycle, barrier, file
  <1>6. StagesFit'
    BY <1>0, <1>1, <1>3, <1>4 DEF IInv, StagesFit, At, Reserved, ReserveLifecycle, Goto, TypeOK
  <1>7. FileOwned'
    BY <1>0, <1>1, <1>3, <1>4 DEF IInv, FileOwned, StagesFit, At, Recovers, Sharing, Reserved,
           ReserveLifecycle, Goto, TypeOK, file
  <1>8. LeaseKept'
    <2>1. ASSUME NEW d \in Clients \ {c}, op[d].kind \in {"lifecycle", "definition"}
          PROVE  /\ Lease(d).lifecycle = d => Lease(d)'.lifecycle = d /\ Lease(d)'.active = Lease(d).active
                 /\ Lease(d).definition = d => Lease(d)'.definition = d
      <3>1. IF Home(d) = Home(c) /\ op[d].subject = op[c].subject
            THEN Lease(d)' = s /\ Lease(d) = Lease(c)
            ELSE Lease(d)' = Lease(d)
        BY <1>1, <1>2, <1>3, <2>1, LeaseFrame
      <3> QED BY <1>0, <1>2, <2>1, <3>1
    <2>2. Lease(c)' = s
      BY <1>1, <1>2, <1>3, LeaseFrame
    <2>3. \A d \in Clients : op[d].kind = "container" => Holder(d)' = Holder(d)
      BY <1>3 DEF Holder, ReserveLifecycle, Home
    <2> QED BY <1>0, <1>1, <1>2, <1>3, <1>4, <2>1, <2>2, <2>3
            DEF IInv, LeaseKept, StagesFit, At, Reserved, ReserveLifecycle, Goto, TypeOK
  <1> QED BY <1>5, <1>6, <1>7, <1>8 DEF IInv

\* wait_for_definition turns its own Pending lease into an Active one.
LEMMA PromoteStep ==
    ASSUME IInv, NEW c \in Clients, Promote(c)
    PROVE  IInv'
  <1> DEFINE s == [Lease(c) EXCEPT !.active = TRUE]
  <1>1. TypeOK /\ op[c].kind \in {"lifecycle", "definition"} /\ Lease(c) \in ProfileStates
    BY LeaseType DEF IInv, Promote, StagesFit, At, Reserved
  <1>0. pc[c] \in {"pending", "woken"} /\ Lease(c).lifecycle = c /\ Lease(c).definition = None /\ UNCHANGED file
    BY <1>1 DEF IInv, LeaseKept, Promote, At, Reserved, file
  <1>2. /\ s \in ProfileStates
        /\ s.lifecycle = Lease(c).lifecycle
        /\ s.active
        /\ s.definition = Lease(c).definition
    BY <1>1 DEF ProfileStates
  <1>3. SetLease(c, s) /\ UNCHANGED op
    BY DEF Promote
  <1> HIDE DEF s
  <1>4. /\ pc' \in [Clients -> Stages]
        /\ \A d \in Clients \ {c} : pc'[d] = pc[d]
    BY <1>1 DEF Promote, Goto, TypeOK, Stages
  <1>5. TypeOK'
    BY <1>1, <1>2, <1>3, <1>4, LeaseFrame, GenerationUpdate
       DEF TypeOK, Promote, barrier, file
  <1>6. StagesFit'
    BY <1>0, <1>1, <1>3, <1>4 DEF IInv, StagesFit, At, Reserved, Promote, Goto, TypeOK
  <1>7. FileOwned'
    BY <1>0, <1>1, <1>3, <1>4 DEF IInv, FileOwned, StagesFit, At, Recovers, Sharing, Reserved,
           Promote, Goto, TypeOK, file
  <1>8. LeaseKept'
    <2>1. ASSUME NEW d \in Clients \ {c}, op[d].kind \in {"lifecycle", "definition"}
          PROVE  /\ Lease(d).lifecycle = d => Lease(d)'.lifecycle = d /\ Lease(d)'.active = Lease(d).active
                 /\ Lease(d).definition = d => Lease(d)'.definition = d
      <3>1. IF Home(d) = Home(c) /\ op[d].subject = op[c].subject
            THEN Lease(d)' = s /\ Lease(d) = Lease(c)
            ELSE Lease(d)' = Lease(d)
        BY <1>1, <1>2, <1>3, <2>1, LeaseFrame
      <3> QED BY <1>0, <1>2, <2>1, <3>1
    <2>2. Lease(c)' = s
      BY <1>1, <1>2, <1>3, LeaseFrame
    <2>3. \A d \in Clients : op[d].kind = "container" => Holder(d)' = Holder(d)
      BY <1>3 DEF Holder, Promote, Home
    <2> QED BY <1>0, <1>1, <1>2, <1>3, <1>4, <2>1, <2>2, <2>3
            DEF IInv, LeaseKept, StagesFit, At, Reserved, Promote, Goto, TypeOK
  <1> QED BY <1>5, <1>6, <1>7, <1>8 DEF IInv

\* Consuming a permit leaves the leases alone.
LEMMA AwaitStep ==
    ASSUME IInv, NEW c \in Clients, Await(c)
    PROVE  IInv'
  <1> DEFINE s == [Lease(c) EXCEPT !.permit = FALSE]
  <1>1. TypeOK /\ op[c].kind \in {"lifecycle", "definition"} /\ Lease(c) \in ProfileStates
    BY LeaseType DEF IInv, Await, StagesFit, At, Reserved
  <1>0. pc[c] = "checked" /\ UNCHANGED file
    BY <1>1 DEF IInv, LeaseKept, Await, At, Reserved, file
  <1>2. /\ s \in ProfileStates
        /\ s.lifecycle = Lease(c).lifecycle
        /\ s.active = Lease(c).active
        /\ s.definition = Lease(c).definition
    BY <1>1 DEF ProfileStates
  <1>3. SetLease(c, s) /\ UNCHANGED op
    BY DEF Await
  <1> HIDE DEF s
  <1>4. /\ pc' \in [Clients -> Stages]
        /\ \A d \in Clients \ {c} : pc'[d] = pc[d]
    BY <1>1 DEF Await, Goto, TypeOK, Stages
  <1>5. TypeOK'
    BY <1>1, <1>2, <1>3, <1>4, LeaseFrame
       DEF TypeOK, Await, barrier, file
  <1>6. StagesFit'
    BY <1>0, <1>1, <1>3, <1>4 DEF IInv, StagesFit, At, Reserved, Await, Goto, TypeOK
  <1>7. FileOwned'
    BY <1>0, <1>1, <1>3, <1>4 DEF IInv, FileOwned, StagesFit, At, Recovers, Sharing, Reserved,
           Await, Goto, TypeOK, file
  <1>8. LeaseKept'
    <2>1. ASSUME NEW d \in Clients \ {c}, op[d].kind \in {"lifecycle", "definition"}
          PROVE  /\ Lease(d).lifecycle = d => Lease(d)'.lifecycle = d /\ Lease(d)'.active = Lease(d).active
                 /\ Lease(d).definition = d => Lease(d)'.definition = d
      <3>1. IF Home(d) = Home(c) /\ op[d].subject = op[c].subject
            THEN Lease(d)' = s /\ Lease(d) = Lease(c)
            ELSE Lease(d)' = Lease(d)
        BY <1>1, <1>2, <1>3, <2>1, LeaseFrame
      <3> QED BY <1>0, <1>2, <2>1, <3>1
    <2>2. Lease(c)' = s
      BY <1>1, <1>2, <1>3, LeaseFrame
    <2>3. \A d \in Clients : op[d].kind = "container" => Holder(d)' = Holder(d)
      BY <1>3 DEF Holder, Await, Home
    <2> QED BY <1>0, <1>1, <1>2, <1>3, <1>4, <2>1, <2>2, <2>3
            DEF IInv, LeaseKept, StagesFit, At, Reserved, Await, Goto, TypeOK
  <1> QED BY <1>5, <1>6, <1>7, <1>8 DEF IInv

\* So does giving a notification back.
LEMMA AbandonStep ==
    ASSUME IInv, NEW c \in Clients, Abandon(c)
    PROVE  IInv'
  <1> DEFINE s == [Lease(c) EXCEPT !.permit = @ \/ pc[c] = "woken"]
  <1>1. TypeOK /\ op[c].kind \in {"lifecycle", "definition"} /\ Lease(c) \in ProfileStates
    BY LeaseType DEF IInv, Abandon, StagesFit, At, Reserved
  <1>0. pc[c] \in {"pending", "checked", "waiting", "woken"}
        /\ sharers' = sharers \ {c} /\ excluder' = excluder
    BY <1>1 DEF IInv, LeaseKept, Abandon, At, Reserved, file
  <1>2. /\ s \in ProfileStates
        /\ s.lifecycle = Lease(c).lifecycle
        /\ s.active = Lease(c).active
        /\ s.definition = Lease(c).definition
    BY <1>1 DEF ProfileStates
  <1>3. SetLease(c, s) /\ UNCHANGED op
    BY DEF Abandon
  <1> HIDE DEF s
  <1>4. /\ pc' \in [Clients -> Stages]
        /\ \A d \in Clients \ {c} : pc'[d] = pc[d]
    BY <1>1 DEF Abandon, Goto, TypeOK, Stages
  <1>5. TypeOK'
    BY <1>1, <1>2, <1>3, <1>4, LeaseFrame
       DEF TypeOK, Abandon, barrier, file
  <1>6. StagesFit'
    BY <1>0, <1>1, <1>3, <1>4 DEF IInv, StagesFit, At, Reserved, Abandon, Goto, TypeOK
  <1>7. FileOwned'
    BY <1>0, <1>1, <1>3, <1>4 DEF IInv, FileOwned, StagesFit, At, Recovers, Sharing, Reserved,
           Abandon, Goto, TypeOK, file
  <1>8. LeaseKept'
    <2>1. ASSUME NEW d \in Clients \ {c}, op[d].kind \in {"lifecycle", "definition"}
          PROVE  /\ Lease(d).lifecycle = d => Lease(d)'.lifecycle = d /\ Lease(d)'.active = Lease(d).active
                 /\ Lease(d).definition = d => Lease(d)'.definition = d
      <3>1. IF Home(d) = Home(c) /\ op[d].subject = op[c].subject
            THEN Lease(d)' = s /\ Lease(d) = Lease(c)
            ELSE Lease(d)' = Lease(d)
        BY <1>1, <1>2, <1>3, <2>1, LeaseFrame
      <3> QED BY <1>0, <1>2, <2>1, <3>1
    <2>2. Lease(c)' = s
      BY <1>1, <1>2, <1>3, LeaseFrame
    <2>3. \A d \in Clients : op[d].kind = "container" => Holder(d)' = Holder(d)
      BY <1>3 DEF Holder, Abandon, Home
    <2> QED BY <1>0, <1>1, <1>2, <1>3, <1>4, <2>1, <2>2, <2>3
            DEF IInv, LeaseKept, StagesFit, At, Reserved, Abandon, Goto, TypeOK
  <1> QED BY <1>5, <1>6, <1>7, <1>8 DEF IInv

\* acquire_definition writes a lease into an idle profile.
LEMMA AcquireDefinitionStep ==
    ASSUME IInv, NEW c \in Clients, AcquireDefinition(c)
    PROVE  IInv'
  <1> DEFINE s == [Lease(c) EXCEPT !.definition = c]
  <1>1. TypeOK /\ op[c].kind \in {"lifecycle", "definition"} /\ Lease(c) \in ProfileStates
    BY LeaseType DEF IInv, AcquireDefinition, StagesFit, At, Reserved
  <1>0. At(c, "shared", "definition") /\ Lease(c).lifecycle = None /\ Lease(c).definition = None
        /\ UNCHANGED file
    BY <1>1 DEF IInv, LeaseKept, AcquireDefinition, At, Reserved, file
  <1>2. /\ s \in ProfileStates
        /\ s.lifecycle = Lease(c).lifecycle
        /\ s.active = Lease(c).active
        /\ s.definition = c
    BY <1>1 DEF ProfileStates
  <1>3. SetLease(c, s) /\ UNCHANGED op
    BY DEF AcquireDefinition
  <1> HIDE DEF s
  <1>4. /\ pc' \in [Clients -> Stages]
        /\ \A d \in Clients \ {c} : pc'[d] = pc[d]
    BY <1>1 DEF AcquireDefinition, Goto, TypeOK, Stages
  <1>5. TypeOK'
    BY <1>1, <1>2, <1>3, <1>4, LeaseFrame, GenerationUpdate
       DEF TypeOK, AcquireDefinition, barrier, file
  <1>6. StagesFit'
    BY <1>0, <1>1, <1>3, <1>4 DEF IInv, StagesFit, At, Reserved, AcquireDefinition, Goto, TypeOK
  <1>7. FileOwned'
    BY <1>0, <1>1, <1>3, <1>4 DEF IInv, FileOwned, StagesFit, At, Recovers, Sharing, Reserved,
           AcquireDefinition, Goto, TypeOK, file
  <1>8. LeaseKept'
    <2>1. ASSUME NEW d \in Clients \ {c}, op[d].kind \in {"lifecycle", "definition"}
          PROVE  /\ Lease(d).lifecycle = d => Lease(d)'.lifecycle = d /\ Lease(d)'.active = Lease(d).active
                 /\ Lease(d).definition = d => Lease(d)'.definition = d
      <3>1. IF Home(d) = Home(c) /\ op[d].subject = op[c].subject
            THEN Lease(d)' = s /\ Lease(d) = Lease(c)
            ELSE Lease(d)' = Lease(d)
        BY <1>1, <1>2, <1>3, <2>1, LeaseFrame
      <3> QED BY <1>0, <1>2, <2>1, <3>1
    <2>2. Lease(c)' = s
      BY <1>1, <1>2, <1>3, LeaseFrame
    <2>3. \A d \in Clients : op[d].kind = "container" => Holder(d)' = Holder(d)
      BY <1>3 DEF Holder, AcquireDefinition, Home
    <2> QED BY <1>0, <1>1, <1>2, <1>3, <1>4, <2>1, <2>2, <2>3
            DEF IInv, LeaseKept, StagesFit, At, Reserved, AcquireDefinition, Goto, TypeOK
  <1> QED BY <1>5, <1>6, <1>7, <1>8 DEF IInv

\* release_pending takes the reservation's own lease and nothing else.
LEMMA ReleasePendingStep ==
    ASSUME IInv, NEW c \in Clients, ReleasePending(c)
    PROVE  IInv'
  <1>1. TypeOK /\ op[c].kind \in {"lifecycle", "definition"} /\ Lease(c) \in ProfileStates
    BY LeaseType DEF IInv, ReleasePending, StagesFit, At, Reserved
  <1>0. pc[c] = "abandoning" /\ Lease(c).lifecycle = c /\ ~Lease(c).active /\ UNCHANGED file
    BY <1>1 DEF IInv, LeaseKept, ReleasePending, At, Reserved, file
  <1> DEFINE r == [Lease(c) EXCEPT !.lifecycle = None]
  <1>r. /\ r \in ProfileStates
        /\ r.lifecycle = None
        /\ r.definition = Lease(c).definition
    BY <1>1 DEF ProfileStates
  <1> HIDE DEF r
  <1> DEFINE s == NotifyOne(c, r)
  <1>2. /\ s \in ProfileStates
        /\ s.lifecycle = None
        /\ s.definition = Lease(c).definition
    BY NotifyUpdate, <1>1, <1>r DEF ProfileStates
  <1>3. SetLease(c, s) /\ Wake(c, "leaving") /\ UNCHANGED op
    BY <1>0 DEF ReleasePending, r
  <1> HIDE DEF s
  <1>4. /\ pc' \in [Clients -> Stages]
        /\ pc'[c] = "leaving"
        /\ \A d \in Clients \ {c} :
             pc'[d] = pc[d] \/ (pc[d] = "waiting" /\ pc'[d] = "woken")
    BY <1>1, <1>3, WakeUpdate DEF Stages
  <1>5. TypeOK'
    BY <1>1, <1>2, <1>3, <1>4, LeaseFrame, GenerationUpdate
       DEF TypeOK, ReleasePending, barrier, file
  <1>6. StagesFit'
    BY <1>0, <1>1, <1>3, <1>4 DEF IInv, StagesFit, At, Reserved, TypeOK
  <1>7. FileOwned'
    <2>1. \A d \in Clients :
            /\ pc'[d] \in Sharing <=> pc[d] \in Sharing
            /\ pc'[d] = "held" <=> pc[d] = "held"
      BY <1>0, <1>4 DEF Sharing, At
    <2>2. /\ {d \in Clients : pc'[d] \in Sharing /\ ~(op[d].kind = "recovery")}
               = {d \in Clients : pc[d] \in Sharing /\ ~(op[d].kind = "recovery")}
          /\ {d \in Clients : pc'[d] = "held" /\ op[d].kind = "recovery"}
               = {d \in Clients : pc[d] = "held" /\ op[d].kind = "recovery"}
      BY <2>1
    <2>3. op' = op /\ sharers' = sharers /\ excluder' = excluder
      BY <1>0, <1>3 DEF file
    <2> QED BY <2>2, <2>3, Zenon DEF IInv, FileOwned, At, Recovers
  <1>8. LeaseKept'
    <2>1. ASSUME NEW d \in Clients \ {c}, op[d].kind \in {"lifecycle", "definition"}
          PROVE  /\ Lease(d).lifecycle = d => Lease(d)'.lifecycle = d /\ Lease(d)'.active = Lease(d).active
                 /\ Lease(d).definition = d => Lease(d)'.definition = d
      <3>1. IF Home(d) = Home(c) /\ op[d].subject = op[c].subject
            THEN Lease(d)' = s /\ Lease(d) = Lease(c)
            ELSE Lease(d)' = Lease(d)
        BY <1>1, <1>2, <1>3, <2>1, LeaseFrame
      <3> QED BY <1>0, <1>2, <2>1, <3>1
    <2>3. \A d \in Clients : op[d].kind = "container" => Holder(d)' = Holder(d)
      BY <1>3 DEF Holder, ReleasePending, Home
    <2>4. /\ pc'[c] \notin Reserved \cup {"held", "releasing"}
          /\ \A d \in Clients \ {c} :
               /\ pc'[d] \in Reserved <=> pc[d] \in Reserved
               /\ pc'[d] \in {"held", "releasing"} <=> pc[d] \in {"held", "releasing"}
      BY <1>4 DEF Reserved
    <2> QED BY <1>3, <2>1, <2>3, <2>4 DEF IInv, LeaseKept, StagesFit
  <1> QED BY <1>5, <1>6, <1>7, <1>8 DEF IInv

\* release_lifecycle takes the guard's own lease and nothing else.
LEMMA ReleaseLifecycleStep ==
    ASSUME IInv, NEW c \in Clients, ReleaseLifecycle(c)
    PROVE  IInv'
  <1>1. TypeOK /\ op[c].kind \in {"lifecycle", "definition"} /\ Lease(c) \in ProfileStates
    BY LeaseType DEF IInv, ReleaseLifecycle, StagesFit, At, Reserved
  <1>0. At(c, "releasing", "lifecycle") /\ Lease(c).lifecycle = c /\ Lease(c).active /\ UNCHANGED file
    BY <1>1 DEF IInv, LeaseKept, ReleaseLifecycle, At, Reserved, file
  <1> DEFINE r == [Lease(c) EXCEPT !.lifecycle = None, !.active = FALSE]
  <1>r. /\ r \in ProfileStates
        /\ r.lifecycle = None
        /\ r.definition = Lease(c).definition
    BY <1>1 DEF ProfileStates
  <1> HIDE DEF r
  <1> DEFINE s == NotifyOne(c, r)
  <1>2. /\ s \in ProfileStates
        /\ s.lifecycle = None
        /\ s.definition = Lease(c).definition
    BY NotifyUpdate, <1>1, <1>r DEF ProfileStates
  <1>3. SetLease(c, s) /\ Wake(c, "leaving") /\ UNCHANGED op
    BY <1>0 DEF ReleaseLifecycle, r
  <1> HIDE DEF s
  <1>4. /\ pc' \in [Clients -> Stages]
        /\ pc'[c] = "leaving"
        /\ \A d \in Clients \ {c} :
             pc'[d] = pc[d] \/ (pc[d] = "waiting" /\ pc'[d] = "woken")
    BY <1>1, <1>3, WakeUpdate DEF Stages
  <1>5. TypeOK'
    BY <1>1, <1>2, <1>3, <1>4, LeaseFrame, GenerationUpdate
       DEF TypeOK, ReleaseLifecycle, barrier, file
  <1>6. StagesFit'
    BY <1>0, <1>1, <1>3, <1>4 DEF IInv, StagesFit, At, Reserved, TypeOK
  <1>7. FileOwned'
    <2>1. \A d \in Clients :
            /\ pc'[d] \in Sharing <=> pc[d] \in Sharing
            /\ pc'[d] = "held" <=> pc[d] = "held"
      BY <1>0, <1>4 DEF Sharing, At
    <2>2. /\ {d \in Clients : pc'[d] \in Sharing /\ ~(op[d].kind = "recovery")}
               = {d \in Clients : pc[d] \in Sharing /\ ~(op[d].kind = "recovery")}
          /\ {d \in Clients : pc'[d] = "held" /\ op[d].kind = "recovery"}
               = {d \in Clients : pc[d] = "held" /\ op[d].kind = "recovery"}
      BY <2>1
    <2>3. op' = op /\ sharers' = sharers /\ excluder' = excluder
      BY <1>0, <1>3 DEF file
    <2> QED BY <2>2, <2>3, Zenon DEF IInv, FileOwned, At, Recovers
  <1>8. LeaseKept'
    <2>1. ASSUME NEW d \in Clients \ {c}, op[d].kind \in {"lifecycle", "definition"}
          PROVE  /\ Lease(d).lifecycle = d => Lease(d)'.lifecycle = d /\ Lease(d)'.active = Lease(d).active
                 /\ Lease(d).definition = d => Lease(d)'.definition = d
      <3>1. IF Home(d) = Home(c) /\ op[d].subject = op[c].subject
            THEN Lease(d)' = s /\ Lease(d) = Lease(c)
            ELSE Lease(d)' = Lease(d)
        BY <1>1, <1>2, <1>3, <2>1, LeaseFrame
      <3> QED BY <1>0, <1>2, <2>1, <3>1
    <2>3. \A d \in Clients : op[d].kind = "container" => Holder(d)' = Holder(d)
      BY <1>3 DEF Holder, ReleaseLifecycle, Home
    <2>4. /\ pc'[c] \notin Reserved \cup {"held", "releasing"}
          /\ \A d \in Clients \ {c} :
               /\ pc'[d] \in Reserved <=> pc[d] \in Reserved
               /\ pc'[d] \in {"held", "releasing"} <=> pc[d] \in {"held", "releasing"}
      BY <1>4 DEF Reserved
    <2> QED BY <1>3, <2>1, <2>3, <2>4 DEF IInv, LeaseKept, StagesFit
  <1> QED BY <1>5, <1>6, <1>7, <1>8 DEF IInv

\* release_definition takes the guard's own lease; a reservation on the
\* same profile keeps the entry.
LEMMA ReleaseDefinitionStep ==
    ASSUME IInv, NEW c \in Clients, ReleaseDefinition(c)
    PROVE  IInv'
  <1>1. TypeOK /\ op[c].kind \in {"lifecycle", "definition"} /\ Lease(c) \in ProfileStates
    BY LeaseType DEF IInv, ReleaseDefinition, StagesFit, At, Reserved
  <1>0. At(c, "releasing", "definition") /\ Lease(c).definition = c /\ UNCHANGED file
    BY <1>1 DEF IInv, LeaseKept, ReleaseDefinition, At, Reserved, file
  <1> DEFINE r == [Lease(c) EXCEPT !.definition = None]
  <1>r. /\ r \in ProfileStates
        /\ r.lifecycle = Lease(c).lifecycle
        /\ r.definition = None
        /\ r.active = Lease(c).active
    BY <1>1 DEF ProfileStates
  <1> HIDE DEF r
  <1> DEFINE s == NotifyOne(c, r)
  <1>2. /\ s \in ProfileStates
        /\ s.definition = None
        /\ s.lifecycle = Lease(c).lifecycle
        /\ s.lifecycle # None => s.active = Lease(c).active
    BY NotifyUpdate, <1>1, <1>r DEF ProfileStates
  <1>3. SetLease(c, s) /\ Wake(c, "leaving") /\ UNCHANGED op
    BY <1>0 DEF ReleaseDefinition, r
  <1> HIDE DEF s
  <1>4. /\ pc' \in [Clients -> Stages]
        /\ pc'[c] = "leaving"
        /\ \A d \in Clients \ {c} :
             pc'[d] = pc[d] \/ (pc[d] = "waiting" /\ pc'[d] = "woken")
    BY <1>1, <1>3, WakeUpdate DEF Stages
  <1>5. TypeOK'
    BY <1>1, <1>2, <1>3, <1>4, LeaseFrame, GenerationUpdate
       DEF TypeOK, ReleaseDefinition, barrier, file
  <1>6. StagesFit'
    BY <1>0, <1>1, <1>3, <1>4 DEF IInv, StagesFit, At, Reserved, TypeOK
  <1>7. FileOwned'
    <2>1. \A d \in Clients :
            /\ pc'[d] \in Sharing <=> pc[d] \in Sharing
            /\ pc'[d] = "held" <=> pc[d] = "held"
      BY <1>0, <1>4 DEF Sharing, At
    <2>2. /\ {d \in Clients : pc'[d] \in Sharing /\ ~(op[d].kind = "recovery")}
               = {d \in Clients : pc[d] \in Sharing /\ ~(op[d].kind = "recovery")}
          /\ {d \in Clients : pc'[d] = "held" /\ op[d].kind = "recovery"}
               = {d \in Clients : pc[d] = "held" /\ op[d].kind = "recovery"}
      BY <2>1
    <2>3. op' = op /\ sharers' = sharers /\ excluder' = excluder
      BY <1>0, <1>3 DEF file
    <2> QED BY <2>2, <2>3, Zenon DEF IInv, FileOwned, At, Recovers
  <1>8. LeaseKept'
    <2>1. ASSUME NEW d \in Clients \ {c}, op[d].kind \in {"lifecycle", "definition"}
          PROVE  /\ Lease(d).lifecycle = d => Lease(d)'.lifecycle = d /\ Lease(d)'.active = Lease(d).active
                 /\ Lease(d).definition = d => Lease(d)'.definition = d
      <3>1. IF Home(d) = Home(c) /\ op[d].subject = op[c].subject
            THEN Lease(d)' = s /\ Lease(d) = Lease(c)
            ELSE Lease(d)' = Lease(d)
        BY <1>1, <1>2, <1>3, <2>1, LeaseFrame
      <3> QED BY <1>0, <1>2, <2>1, <3>1
    <2>3. \A d \in Clients : op[d].kind = "container" => Holder(d)' = Holder(d)
      BY <1>3 DEF Holder, ReleaseDefinition, Home
    <2>4. /\ pc'[c] \notin Reserved \cup {"held", "releasing"}
          /\ \A d \in Clients \ {c} :
               /\ pc'[d] \in Reserved <=> pc[d] \in Reserved
               /\ pc'[d] \in {"held", "releasing"} <=> pc[d] \in {"held", "releasing"}
      BY <1>4 DEF Reserved
    <2> QED BY <1>3, <2>1, <2>3, <2>4 DEF IInv, LeaseKept, StagesFit
  <1> QED BY <1>5, <1>6, <1>7, <1>8 DEF IInv

\* Container leases: the barrier's map changes at the caller's container only.
LEMMA ContainerSteps ==
    ASSUME IInv, NEW c \in Clients, AcquireContainer(c) \/ ReleaseContainer(c)
    PROVE  IInv'
  <1>0. /\ TypeOK /\ op[c].kind = "container" /\ op[c].subject \in Containers
        /\ Home(c) \in Instances
    BY Subjects DEF IInv, AcquireContainer, ReleaseContainer, At
  <1>1. \A d \in Clients : op[d].kind = "container" =>
           op[d].subject \in Containers /\ Home(d) \in Instances
    BY <1>0, Subjects
  <1>2. CASE AcquireContainer(c)
    <2>1. TypeOK'
      BY <1>0, <1>2, GenerationUpdate
         DEF TypeOK, AcquireContainer, SetHolder, Goto, Stages, barrier, file
    <2>2. StagesFit' /\ FileOwned'
      BY <1>0, <1>2 DEF IInv, StagesFit, FileOwned, AcquireContainer, At, Goto, Reserved,
                        Recovers, Sharing, TypeOK, file
    <2>3. \A d \in Clients : Lease(d)' = Lease(d)
      BY <1>2 DEF AcquireContainer, Lease, Home
    <2>4. /\ Holder(c)' = c
          /\ \A d \in Clients \ {c} : op[d].kind = "container" /\ Holder(d) = d => Holder(d)' = d
      BY <1>0, <1>1, <1>2 DEF AcquireContainer, Holder, SetHolder, TypeOK
    <2>5. op' = op /\ \A d \in Clients : pc'[d] = IF d = c THEN "held" ELSE pc[d]
      BY <1>0, <1>2 DEF AcquireContainer, Goto, TypeOK
    <2>6. LeaseKept'
      BY <1>0, <2>3, <2>4, <2>5 DEF IInv, LeaseKept, Reserved
    <2> QED BY <2>1, <2>2, <2>6 DEF IInv
  <1>3. CASE ReleaseContainer(c)
    <2>0. pc[c] = "releasing" /\ Holder(c) = c
      BY <1>3 DEF IInv, LeaseKept, ReleaseContainer, At
    <2>1. TypeOK'
      BY <1>0, <1>3, GenerationUpdate
         DEF TypeOK, ReleaseContainer, SetHolder, Uncount, Finish, Stages, NoOperation, file
    <2>2. StagesFit' /\ FileOwned'
      BY <1>0, <1>3 DEF IInv, StagesFit, FileOwned, ReleaseContainer, At, Finish, Reserved,
                        Recovers, Sharing, TypeOK, NoOperation, file
    <2>3. /\ \A d \in Clients : pc'[d] = IF d = c THEN "idle" ELSE pc[d]
          /\ \A d \in Clients \ {c} : op'[d] = op[d]
      BY <1>0, <1>3 DEF ReleaseContainer, Finish, TypeOK
    <2>4. \A d \in Clients \ {c} : Lease(d)' = Lease(d)
      BY <1>3, <2>3 DEF ReleaseContainer, Lease, Home
    <2>5. \A d \in Clients \ {c} : op[d].kind = "container" /\ Holder(d) = d => Holder(d)' = d
      BY <1>0, <1>1, <1>3, <2>0, <2>3 DEF ReleaseContainer, Holder, SetHolder, TypeOK
    <2>6. LeaseKept'
      BY <1>0, <2>3, <2>4, <2>5 DEF IInv, LeaseKept, Reserved
    <2> QED BY <2>1, <2>2, <2>6 DEF IInv
  <1> QED BY <1>2, <1>3

\* A restart forgets the tasks of one instance and leaves the others alone.
LEMMA RestartStep ==
    ASSUME IInv, NEW i \in Instances, Restart(i)
    PROVE  IInv'
  <1>1. TypeOK'
    BY DEF IInv, TypeOK, Restart, Stages, IdleProfile, ProfileStates, NoOperation
  <1>2. \A d \in Clients :
           IF Home(d) = i THEN pc'[d] = "idle" /\ op'[d] = NoOperation
                          ELSE pc'[d] = pc[d] /\ op'[d] = op[d]
    BY DEF IInv, TypeOK, Restart
  <1>3. StagesFit'
    BY <1>2 DEF IInv, StagesFit, Reserved, NoOperation
  <1>4. FileOwned'
    BY <1>2 DEF IInv, FileOwned, Restart, Sharing, At, Recovers, NoOperation
  <1>5. \A d \in Clients : Home(d) # i =>
           /\ op[d].kind \in {"lifecycle", "definition"} => Lease(d)' = Lease(d)
           /\ op[d].kind = "container" => Holder(d)' = Holder(d)
    <2>1. \A d \in Clients : Home(d) \in Instances /\ Home(d)' = Home(d)
      BY Subjects DEF IInv, Home
    <2> QED BY <1>2, <2>1 DEF IInv, TypeOK, Restart, Lease, Holder
  <1>6. LeaseKept'
    BY <1>2, <1>5 DEF IInv, LeaseKept, StagesFit, Reserved
  <1> QED BY <1>1, <1>3, <1>4, <1>6 DEF IInv

LEMMA InvStep == IInv /\ [Next]_vars => IInv'
  <1> SUFFICES ASSUME IInv, [Next]_vars PROVE IInv'
    OBVIOUS
  <1>1. ASSUME NEW c \in Clients, Request(c) \/ Proceed(c) \/ Abandon(c) \/ UnlockFile(c)
        PROVE  IInv'
    BY <1>1, PlainSteps, ReserveLifecycleStep, PromoteStep, AwaitStep, AbandonStep,
       AcquireDefinitionStep, ReleasePendingStep, ReleaseLifecycleStep,
       ReleaseDefinitionStep, ContainerSteps
       DEF Request, Proceed
  <1>2. ASSUME NEW i \in Instances, Restart(i)
        PROVE  IInv'
    BY <1>2, RestartStep
  <1>3. CASE UNCHANGED vars
    BY <1>3 DEF vars, IInv, TypeOK, StagesFit, FileOwned, LeaseKept, At, Recovers, Lease,
                Holder, Home
  <1> QED BY <1>1, <1>2, <1>3 DEF Next

LEMMA Invariance == Spec => []IInv
  BY InvInit, InvStep, PTL DEF Spec

(***************************************************************************)
(* The theorems.                                                           *)
(***************************************************************************)
\* The lock manager's tables, counters and file locks stay well typed.
THEOREM TypeCorrect == Spec => []TypeOK
  BY Invariance, PTL DEF IInv

\* The advisory lock on registry.recovery.lock is held by exactly the tasks
\* that are between acquire_file and the unlock, and never by a recovery and
\* another task at once, in any number of instances and over their restarts.
THEOREM FileOwnership == Spec => []FileOwned
  BY Invariance, PTL DEF IInv

\* No reservation and no guard ever loses its lease to another task, and
\* wait_for_definition never panics.
THEOREM LeaseKeeping == Spec => []LeaseKept
  BY Invariance, PTL DEF IInv

(***************************************************************************)
(* The lock manager implements OperationExclusion.                         *)
(***************************************************************************)
Granted == [c \in Clients |-> IF pc[c] = "held" THEN op[c] ELSE None]

\* A step that neither hands out nor takes back a guard is invisible.
LEMMA Invisible ==
    ASSUME \A d \in Clients :
              /\ pc'[d] = "held" <=> pc[d] = "held"
              /\ pc[d] = "held" => op'[d] = op[d]
    PROVE  Granted' = Granted
  BY DEF Granted

\* An operation under way is one of the abstract operations.
LEMMA OperationsAgree ==
    ASSUME IInv, NEW c \in Clients, pc[c] # "idle"
    PROVE  op[c] \in Exclusion!Operations /\ op[c] # None
  <1>1. op[c] \in SharedOperations \cup {Recovery}
    BY DEF IInv, TypeOK, StagesFit, NoOperation
  <1>2. op[c] \in Exclusion!Operations
    BY <1>1 DEF SharedOperations, Recovery, Exclusion!Operations
  <1> QED BY <1>1, <1>2, NoneIsNoOperation

\* A step that hands c its guard is a Grant when nothing held stands against it.
LEMMA GrantStep ==
    ASSUME IInv, NEW c \in Clients, NEW o, o = op[c], pc[c] \notin {"idle", "held"},
           pc' = [pc EXCEPT ![c] = "held"], op' = op,
           \A d \in Clients \ {c} : pc[d] = "held" =>
               Exclusion!Compatible(c, o, d, op[d])
    PROVE  Exclusion!Grant(c, o)
  <1>1. /\ Granted[c] = None
        /\ \A d \in Clients : Granted[d] # None => pc[d] = "held" /\ Granted[d] = op[d]
    BY DEF Granted
  <1>2. Granted' = [Granted EXCEPT ![c] = o]
    BY DEF Granted, IInv, TypeOK
  <1> QED BY <1>1, <1>2 DEF Granted, Exclusion!Grant

\* A guard holder owns the file lock that goes with its guard.
LEMMA HoldersShare ==
    ASSUME IInv, NEW d \in Clients, pc[d] = "held"
    PROVE  IF op[d].kind = "recovery" THEN d \in excluder ELSE d \in sharers
  BY DEF IInv, FileOwned, At, Recovers, Sharing

\* Two leases of one instance on one profile belong to one operation.
LEMMA GrantsCompatible ==
    ASSUME IInv, NEW c \in Clients,
           \/ Promote(c) \/ AcquireDefinition(c) \/ AcquireContainer(c)
           \/ LockExclusive(c) \/ (LockShared(c) /\ op[c].kind = "mutation"),
           NEW d \in Clients \ {c}, pc[d] = "held"
    PROVE  Exclusion!Compatible(c, op[c], d, op[d])
  <1>1. CASE LockExclusive(c)
    BY <1>1, HoldersShare DEF LockExclusive
  <1>2. CASE LockShared(c) /\ op[c].kind = "mutation"
    <2>1. op[d].kind # "recovery"
      BY <1>2, HoldersShare DEF LockShared
    <2> QED BY <1>2, <2>1 DEF Exclusion!Compatible, Exclusion!SameSubject
  <1>3. CASE Promote(c) \/ AcquireDefinition(c) \/ AcquireContainer(c)
    <2>1. /\ pc[c] \in Sharing /\ op[c].kind # "recovery"
          /\ ~Recovers(c)
      BY <1>3 DEF Promote, AcquireDefinition, AcquireContainer, At, Sharing, IInv, StagesFit,
                  Reserved, Recovers
    <2>2. op[d].kind # "recovery"
      BY <2>1, HoldersShare DEF IInv, FileOwned
    <2>3. ASSUME Home(c) = Home(d), Exclusion!SameSubject(op[c], op[d]) PROVE FALSE
      <3>1. op[c].subject = op[d].subject
        BY <2>3 DEF Exclusion!SameSubject
      <3>2. Lease(c) = Lease(d) /\ Holder(c) = Holder(d)
        BY <2>3, <3>1 DEF Lease, Holder
      <3>3. /\ op[d].kind = "lifecycle" => Lease(d).lifecycle = d
            /\ op[d].kind = "definition" => Lease(d).definition = d
            /\ op[d].kind = "container" => Holder(d) = d
        BY DEF IInv, LeaseKept
      <3>4. CASE Promote(c)
        BY <2>3, <3>2, <3>3, <3>4
           DEF Promote, Exclusion!SameSubject, IInv, StagesFit, Reserved
      <3>5. CASE AcquireDefinition(c)
        BY <2>3, <3>2, <3>3, <3>5 DEF AcquireDefinition, At, Exclusion!SameSubject
      <3>6. CASE AcquireContainer(c)
        BY <2>3, <3>2, <3>3, <3>6 DEF AcquireContainer, At, Exclusion!SameSubject
      <3> QED BY <1>3, <3>4, <3>5, <3>6
    <2> QED BY <2>1, <2>2, <2>3 DEF Exclusion!Compatible, Home
  <1> QED BY <1>1, <1>2, <1>3

LEMMA StepSimulation ==
    ASSUME IInv, [Next]_vars
    PROVE  Exclusion!Next \/ Granted' = Granted
  <1>1. ASSUME NEW c \in Clients,
               \/ Promote(c) \/ AcquireDefinition(c) \/ AcquireContainer(c)
               \/ LockExclusive(c) \/ (LockShared(c) /\ op[c].kind = "mutation")
        PROVE  Exclusion!Next
    <2>1. /\ pc[c] \notin {"idle", "held"}
          /\ pc' = [pc EXCEPT ![c] = "held"] /\ op' = op
      BY <1>1 DEF Promote, AcquireDefinition, AcquireContainer, LockExclusive, LockShared,
                  At, Goto
    <2>2. PICK o \in Exclusion!Operations : o = op[c]
      BY <2>1, OperationsAgree
    <2>3. Exclusion!Grant(c, o)
      BY <1>1, <2>1, <2>2, GrantsCompatible, GrantStep
    <2> QED BY <2>3 DEF Exclusion!Next
  <1>2. ASSUME NEW c \in Clients, UnlockFile(c)
        PROVE  Exclusion!Next
    <2>1. /\ pc[c] = "held" /\ op' = op /\ pc'[c] # "held"
          /\ \A d \in Clients \ {c} : pc'[d] = pc[d]
      BY <1>2 DEF UnlockFile, Goto, IInv, TypeOK
    <2>2. Granted[c] # None
      BY <2>1, OperationsAgree DEF Granted
    <2>3. Granted' = [d \in Clients |-> IF d \in {c} THEN None ELSE Granted[d]]
      BY <2>1 DEF Granted
    <2> QED BY <2>2, <2>3 DEF Exclusion!Next, Exclusion!Revoke, Granted
  <1>3. ASSUME NEW i \in Instances, Restart(i)
        PROVE  Exclusion!Next
    <2>1. \A d \in Clients : /\ Home(d) = i => pc'[d] = "idle"
                             /\ Home(d) # i => pc'[d] = pc[d] /\ op'[d] = op[d]
      BY <1>3 DEF Restart
    <2>2. Granted' = [d \in Clients |-> IF d \in {e \in Clients : InstanceOf[e] = i}
                                        THEN None ELSE Granted[d]]
      BY <2>1 DEF Granted, Home
    <2> QED BY <2>2 DEF Exclusion!Next, Exclusion!Revoke, Granted
  <1>4. ASSUME NEW c \in Clients,
               \/ ReleasePending(c) \/ ReleaseLifecycle(c) \/ ReleaseDefinition(c)
        PROVE  Granted' = Granted
    <2>1. /\ op' = op /\ pc[c] # "held"
          /\ Wake(c, "leaving") \/ Goto(c, "leaving")
      BY <1>4 DEF ReleasePending, ReleaseLifecycle, ReleaseDefinition, At
    <2>2. \A d \in Clients : pc'[d] = "held" <=> pc[d] = "held"
      BY <2>1 DEF Wake, Goto, Waiters, IInv, TypeOK
    <2> QED BY <2>1, <2>2, Invisible
  <1>5. ASSUME NEW c \in Clients,
               \/ Request(c) \/ (LockShared(c) /\ op[c].kind # "mutation")
               \/ LockSharedFails(c) \/ ReleaseShared(c) \/ CloseRefused(c)
               \/ ReserveLifecycle(c) \/ RefuseLifecycle(c) \/ FindDefinition(c) \/ Await(c)
               \/ Abandon(c) \/ RefuseDefinition(c) \/ RefuseContainer(c)
               \/ ReleaseContainer(c) \/ LockExclusiveFails(c) \/ EndRecovery(c)
        PROVE  Granted' = Granted
    <2>1. /\ pc[c] # "held"
          /\ \E stage \in Stages \ {"held"} : pc' = [pc EXCEPT ![c] = stage]
          /\ op' = op \/ \E o : op' = [op EXCEPT ![c] = o]
      BY <1>5 DEF Request, RequestShared, RequestRecovery, LockShared, LockSharedFails,
                  ReleaseShared, CloseRefused, ReserveLifecycle, RefuseLifecycle,
                  FindDefinition, Await, Abandon, RefuseDefinition, RefuseContainer, Refuse,
                  ReleaseContainer, LockExclusiveFails, EndRecovery, At, Goto, Finish, Stages
    <2>2. \A d \in Clients :
            /\ pc'[d] = "held" <=> pc[d] = "held"
            /\ pc[d] = "held" => op'[d] = op[d]
      BY <2>1 DEF IInv, TypeOK
    <2> QED BY <2>2, Invisible
  <1>6. CASE UNCHANGED vars
    BY <1>6 DEF vars, Granted
  <1>7. ASSUME NEW c \in Clients, Request(c) \/ Proceed(c) \/ Abandon(c) \/ UnlockFile(c)
        PROVE  Exclusion!Next \/ Granted' = Granted
    <2>1. CASE LockShared(c)
      <3>1. CASE op[c].kind = "mutation"
        BY <1>1, <2>1, <3>1, Zenon
      <3>2. CASE op[c].kind # "mutation"
        BY <1>5, <2>1, <3>2, Zenon
      <3> QED BY <3>1, <3>2
    <2>2. CASE Promote(c) \/ AcquireDefinition(c) \/ AcquireContainer(c) \/ LockExclusive(c)
      BY <1>1, <2>2
    <2>3. CASE UnlockFile(c)
      BY <1>2, <2>3
    <2>4. CASE ReleasePending(c) \/ ReleaseLifecycle(c) \/ ReleaseDefinition(c)
      BY <1>4, <2>4
    <2>5. CASE \/ Request(c) \/ LockSharedFails(c) \/ ReleaseShared(c) \/ CloseRefused(c)
               \/ ReserveLifecycle(c) \/ RefuseLifecycle(c) \/ FindDefinition(c) \/ Await(c)
               \/ Abandon(c) \/ RefuseDefinition(c) \/ RefuseContainer(c)
               \/ ReleaseContainer(c) \/ LockExclusiveFails(c) \/ EndRecovery(c)
      BY <1>5, <2>5
    <2> QED BY <1>7, <2>1, <2>2, <2>3, <2>4, <2>5 DEF Proceed
  <1> QED BY <1>3, <1>6, <1>7, Zenon DEF Next

\* Guards are handed out only side by side with compatible guards, whatever
\* the interleaving of tasks, instances, cancellations and restarts: the lock
\* manager refines the readers-writer specification OperationExclusion.
THEOREM Refinement == Spec => ImplementsExclusion
  <1>1. Init => Exclusion!Init
    BY DEF Init, Exclusion!Init
  <1>2. IInv /\ [Next]_vars => [Exclusion!Next]_Granted
    BY StepSimulation
  <1> QED BY <1>1, <1>2, Invariance, PTL DEF Spec, ImplementsExclusion, Exclusion!Spec, Granted

(***************************************************************************)
(* No wakeup is lost.                                                      *)
(***************************************************************************)
SameProfile(c, d) == Home(d) = Home(c) /\ op[d].subject = op[c].subject

\* A profile has one reservation at most.
LEMMA OneReservation ==
    ASSUME IInv, NEW c \in Clients, NEW d \in Clients \ {c},
           pc[d] \in Reserved, SameProfile(c, d)
    PROVE  Lease(d) = Lease(c) /\ Lease(c).lifecycle = d /\ pc[c] \notin Reserved
  BY DEF IInv, LeaseKept, SameProfile, Lease

\* Steps that leave the leases alone.
LEMMA PlainWakeups ==
    ASSUME WakeupKept, leases' = leases,
           \A d \in Clients : pc'[d] \in {"waiting", "checked"} =>
               op'[d] = op[d] /\ (pc[d] = pc'[d] \/ Lease(d).definition # None)
    PROVE  WakeupKept'
  BY DEF WakeupKept, Lease, Home

\* Steps that update the entry of c's profile: what they leave there must do for
\* another task that waits, or is about to wait, for that profile.
LEMMA LeaseWakeups ==
    ASSUME IInv, WakeupKept, NEW c \in Clients, op[c].kind \in {"lifecycle", "definition"},
           NEW s \in ProfileStates, SetLease(c, s), UNCHANGED op,
           pc'[c] = "waiting" => s.definition # None,
           pc'[c] # "checked",
           \A d \in Clients \ {c} :
              /\ pc'[d] \in {"waiting", "checked"} => pc[d] = pc'[d]
              /\ SameProfile(c, d) /\ pc'[d] = "waiting" => s.definition # None
              /\ SameProfile(c, d) /\ pc'[d] = "checked" => s.definition # None \/ s.permit
    PROVE  WakeupKept'
  <1> SUFFICES ASSUME NEW d \in Clients, pc'[d] \in {"waiting", "checked"}
               PROVE  /\ pc'[d] = "waiting" => Lease(d)'.definition # None
                      /\ pc'[d] = "checked" => Lease(d)'.definition # None \/ Lease(d)'.permit
    BY DEF WakeupKept
  <1>1. TypeOK
    BY DEF IInv
  <1>2. Lease(c)' = s
    BY <1>1, LeaseFrame
  <1>3. CASE d = c
    BY <1>2, <1>3
  <1>4. CASE d # c
    <2>1. pc[d] = pc'[d]
      BY <1>4
    <2>2. op[d].kind \in {"lifecycle", "definition"}
      BY <2>1 DEF IInv, StagesFit, Reserved
    <2>3. \/ Lease(d)' = s /\ SameProfile(c, d)
          \/ Lease(d)' = Lease(d)
      BY <1>1, <2>2, LeaseFrame DEF SameProfile
    <2> QED BY <1>4, <2>1, <2>3 DEF WakeupKept
  <1> QED BY <1>3, <1>4

\* Updates by whoever holds the lifecycle lease, or finds none: nobody else waits there.
LEMMA OwnWakeups ==
    ASSUME IInv, WakeupKept, NEW c \in Clients,
           \/ ReserveLifecycle(c) \/ Promote(c) \/ Await(c) \/ Abandon(c)
           \/ ReleasePending(c) \/ ReleaseLifecycle(c) \/ AcquireDefinition(c)
    PROVE  WakeupKept'
  <1>1. /\ TypeOK /\ op[c].kind \in {"lifecycle", "definition"} /\ op' = op
        /\ Lease(c) \in ProfileStates
        /\ pc[c] \notin Reserved => Lease(c).lifecycle \in {None, c}
    BY LeaseType DEF IInv, StagesFit, LeaseKept, Reserved, ReserveLifecycle, Promote, Await, Abandon,
       ReleasePending, ReleaseLifecycle, AcquireDefinition, At
  <1>2. ASSUME NEW d \in Clients \ {c}, pc[d] \in {"waiting", "checked"}
        PROVE  ~SameProfile(c, d)
    <2>1. pc[d] \in Reserved /\ d # None
      BY <1>2 DEF Reserved
    <2> QED BY <1>1, <2>1, OneReservation
  <1>3. \A d \in Clients \ {c} : pc'[d] \in {"waiting", "checked"} => pc[d] = pc'[d]
    BY DEF IInv, TypeOK, ReserveLifecycle, Promote, Await, Abandon, ReleasePending,
           ReleaseLifecycle, AcquireDefinition, Goto, Wake
  <1>4. ASSUME NEW s \in ProfileStates, SetLease(c, s), pc'[c] # "checked",
               pc'[c] = "waiting" => s.definition # None
        PROVE  WakeupKept'
    BY <1>1, <1>2, <1>3, <1>4, LeaseWakeups
  <1>5. CASE leases' = leases
    <2>1. pc'[c] \notin {"waiting", "checked"}
          \/ (pc'[c] = "waiting" /\ Lease(c).definition # None)
      BY <1>5
      DEF IInv, TypeOK, WakeupKept, ReserveLifecycle, Promote, Await, Abandon, ReleasePending,
          ReleaseLifecycle, AcquireDefinition, Goto, Wake, At
    <2> QED BY <1>1, <1>3, <1>5, <2>1, PlainWakeups
  <1>6. CASE ReserveLifecycle(c)
    <2> DEFINE s == [Lease(c) EXCEPT !.lifecycle = c, !.active = FALSE]
    <2>1. SetLease(c, s) /\ pc'[c] = "pending"
      BY <1>6 DEF ReserveLifecycle, Goto, IInv, TypeOK
    <2>2. s \in ProfileStates
      BY <1>1 DEF ProfileStates
    <2> HIDE DEF s
    <2> QED BY <1>4, <2>1, <2>2
  <1>7. CASE Promote(c)
    <2> DEFINE s == [Lease(c) EXCEPT !.active = TRUE]
    <2>1. SetLease(c, s) /\ pc'[c] = "held"
      BY <1>7 DEF Promote, Goto, IInv, TypeOK
    <2>2. s \in ProfileStates
      BY <1>1 DEF ProfileStates
    <2> HIDE DEF s
    <2> QED BY <1>4, <2>1, <2>2
  <1>8. CASE Await(c)
    <2> DEFINE s == [Lease(c) EXCEPT !.permit = FALSE]
    <2>1. SetLease(c, s) /\ pc'[c] = (IF Lease(c).permit THEN "pending" ELSE "waiting")
          /\ pc[c] = "checked"
      BY <1>8 DEF Await, Goto, IInv, TypeOK
    <2>2. s \in ProfileStates /\ s.definition = Lease(c).definition
      BY <1>1 DEF ProfileStates
    <2> HIDE DEF s
    <2>3. pc'[c] = "waiting" => s.definition # None
      BY <2>1, <2>2 DEF WakeupKept
    <2> QED BY <1>4, <2>1, <2>2, <2>3
  <1>9. CASE Abandon(c)
    <2> DEFINE s == [Lease(c) EXCEPT !.permit = @ \/ pc[c] = "woken"]
    <2>1. SetLease(c, s) /\ pc'[c] = "abandoning"
      BY <1>9 DEF Abandon, Goto, IInv, TypeOK
    <2>2. s \in ProfileStates
      BY <1>1 DEF ProfileStates
    <2> HIDE DEF s
    <2> QED BY <1>4, <2>1, <2>2
  <1>10. CASE ReleasePending(c)
    <2>1. pc'[c] = "leaving"
      BY <1>10 DEF ReleasePending, Goto, Wake, IInv, TypeOK
    <2>2. CASE UNCHANGED leases
      BY <1>5, <2>2
    <2> DEFINE r == [Lease(c) EXCEPT !.lifecycle = None]
    <2>3. r \in ProfileStates
      BY <1>1 DEF ProfileStates
    <2>4. CASE SetLease(c, NotifyOne(c, r))
      BY <1>4, <2>1, <2>3, <2>4, NotifyUpdate
    <2> QED BY <1>10, <2>2, <2>4 DEF ReleasePending
  <1>11. CASE ReleaseLifecycle(c)
    <2>1. pc'[c] = "leaving"
      BY <1>11 DEF ReleaseLifecycle, Goto, Wake, IInv, TypeOK
    <2>2. CASE UNCHANGED leases
      BY <1>5, <2>2
    <2> DEFINE r == [Lease(c) EXCEPT !.lifecycle = None, !.active = FALSE]
    <2>3. r \in ProfileStates
      BY <1>1 DEF ProfileStates
    <2>4. CASE SetLease(c, NotifyOne(c, r))
      <3> HIDE DEF r
      <3> QED BY <1>4, <2>1, <2>3, <2>4, NotifyUpdate
    <2>5. SetLease(c, NotifyOne(c, r)) \/ UNCHANGED leases
      BY <1>11, Zenon DEF ReleaseLifecycle
    <2> QED BY <2>2, <2>4, <2>5
  <1>12. CASE AcquireDefinition(c)
    <2> DEFINE s == [Lease(c) EXCEPT !.definition = c]
    <2>1. SetLease(c, s) /\ pc'[c] = "held"
      BY <1>12 DEF AcquireDefinition, Goto, IInv, TypeOK
    <2>2. s \in ProfileStates
      BY <1>1 DEF ProfileStates
    <2> HIDE DEF s
    <2> QED BY <1>4, <2>1, <2>2
  <1> QED BY <1>6, <1>7, <1>8, <1>9, <1>10, <1>11, <1>12

\* The release of a definition lease wakes the reservation that waits for it, or
\* leaves a permit to the one that is about to wait.
LEMMA ReleaseWakeups ==
    ASSUME IInv, WakeupKept, NEW c \in Clients, ReleaseDefinition(c)
    PROVE  WakeupKept'
  <1>1. /\ TypeOK /\ op[c].kind = "definition" /\ op' = op /\ pc[c] = "releasing"
        /\ Lease(c) \in ProfileStates /\ Lease(c).definition = c
    BY LeaseType DEF IInv, LeaseKept, ReleaseDefinition, At
  <1> DEFINE r == [Lease(c) EXCEPT !.definition = None]
             s == NotifyOne(c, r)
  <1>2. SetLease(c, s) /\ Wake(c, "leaving")
    BY <1>1 DEF ReleaseDefinition
  <1>3. /\ r \in ProfileStates /\ r.lifecycle = Lease(c).lifecycle /\ r.definition = None
    BY <1>1 DEF ProfileStates
  <1>4. s \in ProfileStates
    BY <1>3, NotifyUpdate
  <1>5. pc'[c] = "leaving" /\ \A d \in Clients \ {c} :
           pc'[d] = IF d \in Waiters(c) THEN "woken" ELSE pc[d]
    BY <1>2 DEF Wake
  <1>6. ASSUME NEW d \in Clients \ {c}, pc'[d] \in {"waiting", "checked"}, SameProfile(c, d)
        PROVE  pc'[d] = "checked" /\ s.permit
    <2>1. pc[d] = pc'[d] /\ d \notin Waiters(c)
      BY <1>5, <1>6
    <2>2. pc[d] \in Reserved
      BY <1>6, <2>1 DEF Reserved
    <2>3. Lease(c).lifecycle = d /\ d # None
      BY <1>6, <2>2, OneReservation
    <2>4. \A w \in Waiters(c) : w = d
      <3> SUFFICES ASSUME NEW w \in Waiters(c) PROVE w = d
        OBVIOUS
      <3>1. w \in Clients /\ pc[w] = "waiting" /\ Home(w) = Home(c) /\ op[w].subject = op[c].subject
        BY DEF Waiters
      <3>2. SameProfile(c, w) /\ w # c
        BY <1>1, <3>1 DEF SameProfile
      <3> QED BY <2>3, <3>1, <3>2, OneReservation DEF Reserved
    <2>5. Waiters(c) = {}
      BY <2>1, <2>4
    <2>6. s.permit
      BY <1>3, <2>3, <2>5 DEF NotifyOne, RemoveIfIdle, ProfileStates
    <2>7. pc[d] # "waiting"
      BY <1>6, <2>1 DEF Waiters, SameProfile
    <2> QED BY <1>6, <2>1, <2>6, <2>7
  <1> QED BY <1>1, <1>2, <1>4, <1>5, <1>6, LeaseWakeups

LEMMA WakeupStep == IInv /\ WakeupKept /\ [Next]_vars => WakeupKept'
  <1> SUFFICES ASSUME IInv, WakeupKept, [Next]_vars PROVE WakeupKept'
    OBVIOUS
  <1>1. ASSUME NEW c \in Clients,
               \/ Request(c) \/ LockShared(c) \/ LockSharedFails(c) \/ ReleaseShared(c)
               \/ CloseRefused(c) \/ RefuseLifecycle(c) \/ RefuseDefinition(c)
               \/ RefuseContainer(c) \/ AcquireContainer(c) \/ ReleaseContainer(c)
               \/ LockExclusive(c) \/ LockExclusiveFails(c) \/ EndRecovery(c) \/ UnlockFile(c)
        PROVE  WakeupKept'
    <2>1. /\ leases' = leases
          /\ \E stage \in Stages \ {"waiting", "checked"} : pc' = [pc EXCEPT ![c] = stage]
          /\ op' = op \/ \E o : op' = [op EXCEPT ![c] = o]
      BY <1>1 DEF Request, RequestShared, RequestRecovery, LockShared, LockSharedFails,
                  ReleaseShared, CloseRefused, RefuseLifecycle, RefuseDefinition,
                  RefuseContainer, Refuse, AcquireContainer, ReleaseContainer, LockExclusive,
                  LockExclusiveFails, EndRecovery, UnlockFile, Goto, Finish, Stages, table
    <2>2. \A d \in Clients : pc'[d] \in {"waiting", "checked"} =>
             op'[d] = op[d] /\ pc[d] = pc'[d]
      BY <2>1 DEF IInv, TypeOK
    <2> QED BY <2>1, <2>2, PlainWakeups
  <1>2. ASSUME NEW c \in Clients, FindDefinition(c)
        PROVE  WakeupKept'
    <2>1. \A d \in Clients : pc'[d] \in {"waiting", "checked"} =>
             op'[d] = op[d] /\ (pc[d] = pc'[d] \/ Lease(d).definition # None)
      BY <1>2 DEF FindDefinition, Goto, IInv, TypeOK
    <2> QED BY <1>2, <2>1, PlainWakeups DEF FindDefinition, table
  <1>3. ASSUME NEW i \in Instances, Restart(i)
        PROVE  WakeupKept'
    <2>1. \A d \in Clients :
             IF Home(d) = i THEN pc'[d] = "idle" ELSE pc'[d] = pc[d] /\ op'[d] = op[d]
      BY <1>3 DEF Restart
    <2>2. \A d \in Clients : Home(d) # i => Lease(d)' = Lease(d)
      BY <1>3, <2>1, Subjects DEF IInv, TypeOK, Restart, Lease, Home
    <2> QED BY <2>1, <2>2 DEF WakeupKept
  <1>4. CASE UNCHANGED vars
    BY <1>4 DEF vars, WakeupKept, Lease, Home
  <1>5. ASSUME NEW c \in Clients, Request(c) \/ Proceed(c) \/ Abandon(c) \/ UnlockFile(c)
        PROVE  WakeupKept'
    BY <1>1, <1>2, <1>5, OwnWakeups, ReleaseWakeups DEF Proceed
  <1> QED BY <1>3, <1>4, <1>5 DEF Next

\* A lifecycle operation that looked at the table, found a definition lease and
\* is about to await `notify` cannot miss the release of that lease, in any
\* interleaving with loads, cancellations, other instances and restarts.
THEOREM NoWakeupLost == Spec => []WakeupKept
  <1>1. Init => WakeupKept
    BY DEF Init, WakeupKept
  <1> QED BY <1>1, WakeupStep, Invariance, PTL DEF Spec

(***************************************************************************)
(* The barrier's counter.                                                  *)
(***************************************************************************)
IsCounted(c) == pc[c] \in Counted /\ ~Recovers(c)
CountedAt(i) == {c \in Members(i) : IsCounted(c)}
CountFits == \A i \in Instances : shared[i] = Cardinality(CountedAt(i))
RecoveryFits ==
    \A i \in Instances :
        /\ recovering[i] <=> \E c \in Members(i) : Recovers(c)
        /\ \A c, d \in Members(i) : Recovers(c) /\ Recovers(d) => c = d

LEMMA BarrierParts == BarrierExact <=> CountFits /\ RecoveryFits
  BY DEF BarrierExact, CountFits, RecoveryFits, CountedAt, IsCounted

LEMMA CountFinite ==
    ASSUME NEW i
    PROVE  IsFiniteSet(CountedAt(i)) /\ Cardinality(CountedAt(i)) \in Nat
  <1>1. CountedAt(i) \subseteq Clients
    BY DEF CountedAt, Members
  <1> QED BY <1>1, ClientsAssumption, FS_Subset, FS_CardinalityType

\* Steps that nobody enters or leaves the count with.
LEMMA CountStays ==
    ASSUME CountFits, shared' = shared,
           \A d \in Clients : IsCounted(d)' <=> IsCounted(d)
    PROVE  CountFits'
  <1>1. \A i \in Instances : CountedAt(i)' = CountedAt(i)
    BY DEF CountedAt, Members, Home
  <1> QED BY <1>1 DEF CountFits

\* Where the entry of one client moves, only its own instance's set moves.
LEMMA CountElsewhere ==
    ASSUME NEW c \in Clients, NEW i \in Instances, i # Home(c),
           \A d \in Clients \ {c} : IsCounted(d)' <=> IsCounted(d)
    PROVE  CountedAt(i)' = CountedAt(i)
  BY DEF CountedAt, Members, Home

\* A client is counted in.
LEMMA CountEnters ==
    ASSUME TypeOK, CountFits, NEW c \in Clients, Count(c), ~IsCounted(c), IsCounted(c)',
           \A d \in Clients \ {c} : IsCounted(d)' <=> IsCounted(d)
    PROVE  CountFits'
  <1>1. Home(c) \in Instances /\ Home(c)' = Home(c)
    BY DEF Home
  <1>2. CountedAt(Home(c))' = CountedAt(Home(c)) \cup {c} /\ c \notin CountedAt(Home(c))
    BY DEF CountedAt, Members, Home
  <1>3. Cardinality(CountedAt(Home(c)) \cup {c}) = Cardinality(CountedAt(Home(c))) + 1
    BY <1>2, CountFinite, FS_AddElement
  <1>4. \A i \in Instances : shared'[i] = IF i = Home(c) THEN shared[i] + 1 ELSE shared[i]
    BY <1>1 DEF Count, TypeOK
  <1>5. \A i \in Instances \ {Home(c)} : CountedAt(i)' = CountedAt(i)
    BY CountElsewhere
  <1> SUFFICES ASSUME NEW i \in Instances PROVE shared'[i] = Cardinality(CountedAt(i)')
    BY DEF CountFits
  <1>6. CASE i = Home(c)
    BY <1>2, <1>3, <1>4, <1>6 DEF CountFits
  <1>7. CASE i # Home(c)
    BY <1>4, <1>5, <1>7 DEF CountFits
  <1> QED BY <1>6, <1>7

\* A client is counted out; release_shared never has to saturate.
LEMMA CountLeaves ==
    ASSUME TypeOK, CountFits, NEW c \in Clients, Uncount(c), IsCounted(c), ~IsCounted(c)',
           \A d \in Clients \ {c} : IsCounted(d)' <=> IsCounted(d)
    PROVE  CountFits'
  <1>1. Home(c) \in Instances /\ Home(c)' = Home(c)
    BY DEF Home
  <1>2. CountedAt(Home(c))' = CountedAt(Home(c)) \ {c} /\ c \in CountedAt(Home(c))
    BY DEF CountedAt, Members, Home
  <1>3. /\ Cardinality(CountedAt(Home(c)) \ {c}) = Cardinality(CountedAt(Home(c))) - 1
        /\ Cardinality(CountedAt(Home(c)) \ {c}) \in Nat
    BY <1>2, CountFinite, FS_RemoveElement, FS_CardinalityType
  <1>4. \A i \in Instances : shared'[i] = IF i = Home(c) THEN shared[i] - 1 ELSE shared[i]
    <2>1. shared[Home(c)] # 0
      BY <1>1, <1>3, CountFinite DEF CountFits
    <2> QED BY <1>1, <2>1 DEF Uncount, TypeOK
  <1>5. \A i \in Instances \ {Home(c)} : CountedAt(i)' = CountedAt(i)
    BY CountElsewhere
  <1> SUFFICES ASSUME NEW i \in Instances PROVE shared'[i] = Cardinality(CountedAt(i)')
    BY DEF CountFits
  <1>6. CASE i = Home(c)
    BY <1>2, <1>3, <1>4, <1>6 DEF CountFits
  <1>7. CASE i # Home(c)
    BY <1>4, <1>5, <1>7 DEF CountFits
  <1> QED BY <1>6, <1>7

\* Who is counted and who recovers follows from the stages and the operations.
LEMMA CountStep ==
    ASSUME IInv, BarrierExact, NEW c \in Clients,
           Request(c) \/ Proceed(c) \/ Abandon(c) \/ UnlockFile(c)
    PROVE  CountFits'
  <1>0. TypeOK /\ CountFits
    BY BarrierParts DEF IInv
  <1>1. ASSUME NEW o \in SharedOperations, RequestShared(c, o)
        PROVE  CountFits'
    <2>1. /\ Count(c) /\ ~IsCounted(c)
          /\ \A d \in Clients : pc'[d] = IF d = c THEN "counted" ELSE pc[d]
          /\ \A d \in Clients : op'[d] = IF d = c THEN o ELSE op[d]
          /\ o.kind # "recovery"
      BY <1>0, <1>1 DEF RequestShared, Goto, TypeOK, IsCounted, Counted, SharedOperations
    <2>2. IsCounted(c)' /\ \A d \in Clients \ {c} : IsCounted(d)' <=> IsCounted(d)
      BY <2>1 DEF IsCounted, Counted, Recovers
    <2> QED BY <1>0, <2>1, <2>2, CountEnters
  <1>2. CASE RefuseLifecycle(c) \/ RefuseDefinition(c) \/ RefuseContainer(c)
    <2>1. /\ Uncount(c) /\ pc[c] = "shared" /\ op' = op
          /\ \A d \in Clients : pc'[d] = IF d = c THEN "refused" ELSE pc[d]
      BY <1>0, <1>2 DEF RefuseLifecycle, RefuseDefinition, RefuseContainer, Refuse, Goto, At, TypeOK
    <2>2. /\ IsCounted(c) /\ ~IsCounted(c)'
          /\ \A d \in Clients \ {c} : IsCounted(d)' <=> IsCounted(d)
      BY <2>1 DEF IInv, StagesFit, IsCounted, Counted, Recovers
    <2> QED BY <1>0, <2>1, <2>2, CountLeaves
  <1>3. CASE ReleaseShared(c) \/ ReleaseContainer(c)
    <2>1. /\ Uncount(c) /\ pc[c] \in {"leaving", "releasing"} /\ op[c].kind # "recovery"
          /\ \A d \in Clients : pc'[d] = IF d = c THEN "idle" ELSE pc[d]
          /\ \A d \in Clients \ {c} : op'[d] = op[d]
      BY <1>0, <1>3 DEF ReleaseShared, ReleaseContainer, Finish, At, TypeOK
    <2>2. /\ IsCounted(c) /\ ~IsCounted(c)'
          /\ \A d \in Clients \ {c} : IsCounted(d)' <=> IsCounted(d)
      BY <2>1 DEF IsCounted, Counted, Recovers
    <2> QED BY <1>0, <2>1, <2>2, CountLeaves
  <1>4. CASE RequestRecovery(c) \/ EndRecovery(c)
    <2>1. /\ shared' = shared
          /\ \A d \in Clients \ {c} : pc'[d] = pc[d] /\ op'[d] = op[d]
          /\ ~IsCounted(c) /\ ~IsCounted(c)'
      BY <1>0, <1>4 DEF RequestRecovery, EndRecovery, Goto, Finish, At, TypeOK, IsCounted,
                        Counted, Recovers, Recovery
    <2> QED BY <1>0, <2>1, CountStays DEF IsCounted, Recovers
  <1>5. CASE CloseRefused(c)
    <2>1. /\ shared' = shared /\ pc[c] = "refused" /\ pc'[c] = "idle"
          /\ \A d \in Clients \ {c} : pc'[d] = pc[d] /\ op'[d] = op[d]
      BY <1>0, <1>5 DEF CloseRefused, Finish, barrier, TypeOK
    <2> QED BY <1>0, <2>1, CountStays DEF IsCounted, Counted, Recovers
  <1>6. CASE ReleasePending(c) \/ ReleaseLifecycle(c) \/ ReleaseDefinition(c)
    <2>1. /\ shared' = shared /\ op' = op /\ pc[c] \in Counted
          /\ Wake(c, "leaving") \/ Goto(c, "leaving")
      BY <1>6 DEF ReleasePending, ReleaseLifecycle, ReleaseDefinition, At, barrier, Counted
    <2>2. \A d \in Clients : pc'[d] \in Counted <=> pc[d] \in Counted
      BY <1>0, <2>1 DEF Wake, Goto, Waiters, TypeOK, Counted
    <2> QED BY <1>0, <2>1, <2>2, CountStays DEF IsCounted, Recovers
  <1>7. CASE \/ LockShared(c) \/ LockSharedFails(c) \/ UnlockFile(c) \/ FindDefinition(c)
             \/ ReserveLifecycle(c) \/ Promote(c) \/ Await(c) \/ Abandon(c)
             \/ AcquireDefinition(c) \/ AcquireContainer(c)
    <2>1. /\ shared' = shared /\ op' = op /\ pc[c] \in Counted
          /\ \E stage \in Counted : pc' = [pc EXCEPT ![c] = stage]
      BY <1>7 DEF LockShared, LockSharedFails, UnlockFile, FindDefinition, ReserveLifecycle,
                  Promote, Await, Abandon, AcquireDefinition, AcquireContainer, At, Goto,
                  barrier, Counted
    <2>2. \A d \in Clients : pc'[d] \in Counted <=> pc[d] \in Counted
      BY <1>0, <2>1 DEF TypeOK
    <2> QED BY <1>0, <2>1, <2>2, CountStays DEF IsCounted, Recovers
  <1>8. CASE LockExclusive(c) \/ LockExclusiveFails(c)
    <2>1. /\ shared' = shared /\ op' = op /\ Recovers(c)
          /\ \A d \in Clients \ {c} : pc'[d] = pc[d]
      BY <1>0, <1>8 DEF LockExclusive, LockExclusiveFails, Goto, barrier, TypeOK, IInv,
                        StagesFit, Recovers
    <2> QED BY <1>0, <2>1, CountStays DEF IsCounted, Recovers
  <1> QED BY <1>1, <1>2, <1>3, <1>4, <1>5, <1>6, <1>7, <1>8 DEF Request, Proceed

\* `recovering` is set with the one recovery of an instance and cleared with it.
LEMMA RecoveryStep ==
    ASSUME IInv, RecoveryFits, NEW c \in Clients,
           Request(c) \/ Proceed(c) \/ Abandon(c) \/ UnlockFile(c)
    PROVE  RecoveryFits'
  <1>0. TypeOK /\ Home(c) \in Instances /\ \A d \in Clients : Home(d)' = Home(d)
    BY DEF IInv, TypeOK, Home
  <1>1. CASE RequestRecovery(c)
    <2>1. /\ ~recovering[Home(c)]
          /\ \A i \in Instances : recovering'[i] = IF i = Home(c) THEN TRUE ELSE recovering[i]
          /\ \A d \in Clients : op'[d] = IF d = c THEN Recovery ELSE op[d]
      BY <1>0, <1>1 DEF RequestRecovery, TypeOK
    <2>2. Recovers(c)' /\ \A d \in Clients \ {c} : Recovers(d)' <=> Recovers(d)
      BY <2>1 DEF Recovers, Recovery
    <2>3. \A d \in Members(Home(c)) : ~Recovers(d)
      BY <1>0, <2>1 DEF RecoveryFits
    <2> QED BY <1>0, <2>1, <2>2, <2>3 DEF RecoveryFits, Members
  <1>2. CASE EndRecovery(c)
    <2>1. /\ Recovers(c)
          /\ \A i \in Instances : recovering'[i] = IF i = Home(c) THEN FALSE ELSE recovering[i]
          /\ \A d \in Clients : op'[d] = IF d = c THEN NoOperation ELSE op[d]
      BY <1>0, <1>2 DEF EndRecovery, Finish, At, TypeOK, Recovers
    <2>2. ~Recovers(c)' /\ \A d \in Clients \ {c} : Recovers(d)' <=> Recovers(d)
      BY <2>1 DEF Recovers, NoOperation
    <2>3. \A d \in Members(Home(c)) : Recovers(d) => d = c
      BY <1>0, <2>1 DEF RecoveryFits, Members
    <2> QED BY <1>0, <2>1, <2>2, <2>3, ZenonT(60) DEF RecoveryFits, Members
  <1>3. ASSUME recovering' = recovering, \A d \in Clients : Recovers(d)' <=> Recovers(d)
        PROVE  RecoveryFits'
    BY <1>0, <1>3 DEF RecoveryFits, Members
  <1>4. CASE (\E o \in SharedOperations : RequestShared(c, o)) \/ ReleaseShared(c)
             \/ CloseRefused(c) \/ ReleaseContainer(c)
    <2>1. /\ recovering' = recovering /\ op[c].kind # "recovery" /\ op'[c].kind # "recovery"
          /\ \A d \in Clients \ {c} : op'[d] = op[d]
      BY <1>0, <1>4 DEF RequestShared, ReleaseShared, CloseRefused, ReleaseContainer, Finish, At,
                        TypeOK, IInv, StagesFit, NoOperation, SharedOperations, barrier
    <2> QED BY <1>3, <2>1 DEF Recovers
  <1>5. CASE op' = op /\ recovering' = recovering
    BY <1>3, <1>5 DEF Recovers
  <1> QED BY <1>1, <1>2, <1>4, <1>5
          DEF Request, Proceed, LockShared, LockSharedFails, ReserveLifecycle, RefuseLifecycle,
              FindDefinition, Promote, Await, Abandon, ReleasePending, ReleaseLifecycle,
              AcquireDefinition, RefuseDefinition, ReleaseDefinition, AcquireContainer,
              RefuseContainer, Refuse, LockExclusive, LockExclusiveFails, UnlockFile, barrier

LEMMA BarrierStep == IInv /\ BarrierExact /\ [Next]_vars => BarrierExact'
  <1> SUFFICES ASSUME IInv, BarrierExact, [Next]_vars PROVE CountFits' /\ RecoveryFits'
    BY BarrierParts DEF BarrierExact, CountFits, RecoveryFits, CountedAt, IsCounted
  <1>0. TypeOK /\ CountFits /\ RecoveryFits
    BY BarrierParts DEF IInv
  <1>1. ASSUME NEW c \in Clients, Request(c) \/ Proceed(c) \/ Abandon(c) \/ UnlockFile(c)
        PROVE  CountFits' /\ RecoveryFits'
    BY <1>0, <1>1, CountStep, RecoveryStep
  <1>2. ASSUME NEW i \in Instances, Restart(i)
        PROVE  CountFits' /\ RecoveryFits'
    <2>1. /\ \A d \in Clients : Home(d)' = Home(d)
          /\ \A d \in Clients : IF Home(d) = i THEN pc'[d] = "idle" /\ op'[d] = NoOperation
                                ELSE pc'[d] = pc[d] /\ op'[d] = op[d]
          /\ \A j \in Instances : IF j = i THEN shared'[j] = 0 /\ recovering'[j] = FALSE
                                  ELSE shared'[j] = shared[j] /\ recovering'[j] = recovering[j]
      BY <1>0, <1>2 DEF Restart, TypeOK, Home
    <2>2. CountedAt(i)' = {} /\ \A j \in Instances \ {i} : CountedAt(j)' = CountedAt(j)
      BY <2>1 DEF CountedAt, IsCounted, Members, Counted, Recovers
    <2>3. CountFits'
      <3>1. Cardinality(CountedAt(i)') = 0
        BY <2>2, FS_EmptySet
      <3> SUFFICES ASSUME NEW j \in Instances PROVE shared'[j] = Cardinality(CountedAt(j)')
        BY DEF CountFits
      <3>2. CASE j = i
        BY <2>1, <3>1, <3>2
      <3>3. CASE j # i
        BY <1>0, <2>1, <2>2, <3>3 DEF CountFits
      <3> QED BY <3>2, <3>3
    <2>4. RecoveryFits'
      BY <1>0, <2>1 DEF RecoveryFits, Members, Recovers, NoOperation
    <2> QED BY <2>3, <2>4
  <1>3. CASE UNCHANGED vars
    BY <1>0, <1>3 DEF vars, CountFits, RecoveryFits, CountedAt, IsCounted, Members, Recovers, Home
  <1> QED BY <1>1, <1>2, <1>3 DEF Next

\* The barrier counts exactly the operations that acquire_shared let in and
\* release_shared has not let out, and knows of exactly one recovery, for any
\* number of tasks and over every refusal, failure, cancellation and restart.
THEOREM BarrierCounts == Spec => []BarrierExact
  <1>1. Init => BarrierExact
    <2> SUFFICES ASSUME Init, NEW i \in Instances
                 PROVE  /\ shared[i] = Cardinality(CountedAt(i))
                        /\ ~recovering[i] /\ \A c \in Clients : ~Recovers(c)
      BY DEF BarrierExact, CountedAt, IsCounted, Members
    <2>1. CountedAt(i) = {}
      BY DEF Init, CountedAt, IsCounted, Members, Counted
    <2> QED BY <2>1, FS_EmptySet DEF Init, Recovers, NoOperation
  <1> QED BY <1>1, BarrierStep, Invariance, PTL DEF Spec

(***************************************************************************)
(* The generation of the projection.                                       *)
(***************************************************************************)
LEMMA NextGeneration ==
    ASSUME TypeOK, NEW c \in Clients, Advance(c)
    PROVE  generation'[Home(c)] # generation[Home(c)]
  <1>1. generation[Home(c)] \in 0 .. GenerationLimit - 1 /\ Home(c) \in Instances
    BY DEF TypeOK, Home
  <1>2. ASSUME NEW g \in 0 .. GenerationLimit - 1
        PROVE  (g + 1) % GenerationLimit # g
    <2>1. CASE g + 1 = GenerationLimit
      BY <2>1
    <2>2. CASE g + 1 # GenerationLimit
      <3>1. g + 1 \in 0 .. GenerationLimit - 1
        BY <2>2
      <3>2. (g + 1) % GenerationLimit = g + 1
        BY <3>1
      <3> QED BY <3>2
    <2> QED BY <2>1, <2>2
  <1> QED BY <1>1, <1>2 DEF Advance, TypeOK

\* What is not c's own instance shows what it showed.
LEMMA ProjectionElsewhere ==
    ASSUME TypeOK, NEW c \in Clients, NEW i \in Instances \ {Home(c)},
           \/ leases' = leases
           \/ \E s : SetLease(c, s),
           \/ containers' = containers
           \/ \E h : SetHolder(c, h)
    PROVE  Projection(i)' = Projection(i)
  <1>1. leases'[i] = leases[i] /\ containers'[i] = containers[i]
    BY DEF SetLease, SetHolder, TypeOK
  <1> QED BY <1>1 DEF Projection

LEMMA ProjectionStep ==
    ASSUME IInv, NEW c \in Clients, NEW i \in Instances,
           Request(c) \/ Proceed(c) \/ Abandon(c) \/ UnlockFile(c),
           Projection(i)' # Projection(i)
    PROVE  generation'[i] # generation[i]
  <1>1. TypeOK
    BY DEF IInv
  <1>2. CASE leases' = leases /\ containers' = containers
    BY <1>2 DEF Projection
  <1>3. CASE Await(c) \/ Abandon(c)
    <2>1. /\ op[c].kind = "lifecycle" /\ op' = op /\ containers' = containers
          /\ Lease(c) \in ProfileStates
      BY <1>1, <1>3, LeaseType DEF IInv, StagesFit, Reserved, Await, Abandon
    <2>2. PICK s \in ProfileStates : /\ SetLease(c, s) /\ s.lifecycle = Lease(c).lifecycle
                                     /\ s.active = Lease(c).active
                                     /\ s.definition = Lease(c).definition
      <3>1. CASE Await(c)
        <4> DEFINE s == [Lease(c) EXCEPT !.permit = FALSE]
        <4>1. /\ SetLease(c, s) /\ s \in ProfileStates /\ s.lifecycle = Lease(c).lifecycle
              /\ s.active = Lease(c).active /\ s.definition = Lease(c).definition
          BY <2>1, <3>1 DEF Await, ProfileStates
        <4> HIDE DEF s
        <4> QED BY <4>1
      <3>2. CASE Abandon(c)
        <4> DEFINE s == [Lease(c) EXCEPT !.permit = @ \/ pc[c] = "woken"]
        <4>1. /\ SetLease(c, s) /\ s \in ProfileStates /\ s.lifecycle = Lease(c).lifecycle
              /\ s.active = Lease(c).active /\ s.definition = Lease(c).definition
          BY <2>1, <3>2 DEF Abandon, ProfileStates
        <4> HIDE DEF s
        <4> QED BY <4>1
      <3> QED BY <1>3, <3>1, <3>2
    <2>3. \A p \in Profiles : /\ leases'[i][p].lifecycle = leases[i][p].lifecycle
                              /\ leases'[i][p].active = leases[i][p].active
                              /\ leases'[i][p].definition = leases[i][p].definition
      BY <1>1, <2>1, <2>2, Subjects, LeaseUpdate DEF Lease
    <2> QED BY <2>1, <2>3 DEF Projection
  <1>4. CASE \/ ReserveLifecycle(c) \/ Promote(c) \/ ReleasePending(c) \/ ReleaseLifecycle(c)
             \/ AcquireDefinition(c) \/ ReleaseDefinition(c)
             \/ AcquireContainer(c) \/ ReleaseContainer(c)
    <2>1. /\ Advance(c)
          /\ leases' = leases \/ \E s : SetLease(c, s)
          /\ containers' = containers \/ \E h : SetHolder(c, h)
      BY <1>4, Zenon DEF ReserveLifecycle, Promote, ReleasePending, ReleaseLifecycle,
                  AcquireDefinition, ReleaseDefinition, AcquireContainer, ReleaseContainer
    <2> QED BY <1>1, <2>1, NextGeneration, ProjectionElsewhere
  <1> QED BY <1>2, <1>3, <1>4
          DEF Request, RequestShared, RequestRecovery, Proceed, LockShared, LockSharedFails,
              ReleaseShared, CloseRefused, RefuseLifecycle, FindDefinition, RefuseDefinition,
              RefuseContainer, Refuse, LockExclusive, LockExclusiveFails, EndRecovery,
              UnlockFile, table

\* Whatever a step changes in the operations that an instance shows, it takes
\* the generation along, unless the instance restarts: a reader that compares
\* generations does not miss it, for any limit at which they wrap.
THEOREM ProjectionGenerations == Spec => ProjectionVersioned
  <1>1. ASSUME IInv, [Next]_vars
        PROVE  [\A i \in Instances :
                  Projection(i)' # Projection(i) =>
                     generation'[i] # generation[i] \/ Restart(i)]_vars
    <2> SUFFICES ASSUME NEW i \in Instances, Next, Projection(i)' # Projection(i)
                 PROVE  generation'[i] # generation[i] \/ Restart(i)
      BY <1>1
    <2>1. ASSUME NEW c \in Clients, Request(c) \/ Proceed(c) \/ Abandon(c) \/ UnlockFile(c)
          PROVE  generation'[i] # generation[i]
      BY <1>1, <2>1, ProjectionStep
    <2>2. ASSUME NEW j \in Instances \ {i}, Restart(j)
          PROVE  FALSE
      <3>1. leases'[i] = leases[i] /\ containers'[i] = containers[i]
        BY <1>1, <2>2 DEF IInv, TypeOK, Restart
      <3> QED BY <3>1 DEF Projection
    <2> QED BY <2>1, <2>2 DEF Next
  <1> QED BY <1>1, Invariance, PTL DEF Spec, ProjectionVersioned

=============================================================================
