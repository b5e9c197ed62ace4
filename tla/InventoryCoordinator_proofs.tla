---------------------- MODULE InventoryCoordinator_proofs ----------------------
(***************************************************************************)
(* Theorems about InventoryCoordinator: its safety properties and that it  *)
(* implements InventoryFeed, for any number of callers and leases and any  *)
(* limits.  The inductive invariant is IInv.                               *)
(***************************************************************************)
EXTENDS InventoryCoordinator, TLAPS

(***************************************************************************)
(* The parts of the inductive invariant that are not properties already.   *)
(***************************************************************************)

\* Everything numbered or listed so far is behind the counters it came from.
Behind ==
    /\ inFlight <= order
    /\ current.seen <= daemon
    /\ session <= sessions
    /\ \A c \in Callers : call[c].acted <= daemon /\ call[c].marker <= order
    /\ \A c \in Callers : call[c].stage = "waiting" => call[c].order > 0

\* A worker whose list stands.
Listed(w) == w.stage = "listed" \/ (w.stage = "publishing" /\ w.ok)

\* What a standing list shows is between the published version and Docker's.
ListNotOld ==
    \A w \in workers : Listed(w) => current.seen <= w.seen /\ w.seen <= daemon

\* The list and the first context of a worker agree as far as Recheck can tell.
ListOfSession ==
    \A w \in workers :
        /\ w.captured <= sessions
        /\ w.stage \in {"captured", "listed"} => w.captured > 0
        /\ w.stage = "listed" /\ w.captured = session => w.listed = w.captured
        /\ w.stage = "publishing" /\ w.ok => w.listed = w.captured

\* A call that waits for a list after its marker.
Marked(c) == call[c].kind = "after" /\ call[c].stage \in {"entering", "waiting", "answered"}

\* A list numbered after a caller's marker shows the caller's change.
ListAfterMark ==
    \A c \in Callers : \A w \in workers :
        Marked(c) /\ Listed(w) /\ w.order > call[c].marker => w.seen >= call[c].acted

\* A caller is eligible for lists after its marker only, and its answer is good.
Entitled ==
    \A c \in Callers :
        /\ call[c].kind # "after" => call[c].acted = 0
        /\ call[c].stage = "waiting" /\ call[c].kind = "after" /\ call[c].eligible
               => call[c].order > call[c].marker
        /\ call[c].stage = "answered" /\ call[c].kind = "after" /\ call[c].eligible /\ call[c].ok
               => call[c].seen >= call[c].acted
        /\ call[c].seen <= current.seen
        /\ ~call[c].ok => call[c].seen = 0
        /\ call[c].ok => call[c].stage \in {"answered", "returned"}

\* After one list in vain, whatever is in flight started after the marker.
Impatient ==
    \A c \in Callers :
        /\ call[c].stage = "acted" => call[c].lists = 0
        /\ call[c].stage = "entering" => call[c].lists <= 1
        /\ call[c].stage \in {"waiting", "answered"} =>
               /\ call[c].lists <= 2
               /\ ~call[c].eligible => call[c].lists = 1 /\ call[c].kind = "after"
        /\ (call[c].stage = "entering" /\ call[c].lists = 1)
                \/ (call[c].stage = "answered" /\ ~call[c].eligible)
           => call[c].kind = "after" /\ (inFlight = 0 \/ inFlight > call[c].marker)

IInv == /\ TypeOK /\ OneListServesAll /\ FreshnessCoherent /\ LeasesCurrent
        /\ SnapshotOfOneSession /\ CausalRefresh /\ TwoListsSuffice
        /\ Behind /\ ListNotOld /\ ListOfSession /\ ListAfterMark /\ Entitled /\ Impatient

\* The records that requests are made of are calls.
LEMMA IsCall ==
    ASSUME NEW stage \in {"idle", "acted", "entering", "returned"}, NEW kind \in Kinds,
           NEW acted \in 0 .. MaxVersion, NEW marker \in 0 .. OrderLimit, NEW lists \in Nat
    PROVE  Unsubscribed(stage, kind, acted, marker, lists) \in Calls
BY LimitsAssumption DEF Unsubscribed, Calls, Kinds

\* A call that is over is a call.
LEMMA IdleIsCall == Idle \in Calls
BY LimitsAssumption DEF Idle, Unsubscribed, Calls, Kinds

\* Every step preserves the types.
LEMMA TypeStep == IInv /\ [Next]_vars => TypeOK'
<1>1. SUFFICES ASSUME IInv, [Next]_vars PROVE TypeOK'
    OBVIOUS
<1>2. ASSUME Change PROVE TypeOK'
    BY <1>1, <1>2, LimitsAssumption DEF IInv, TypeOK, Calls, Workers, Snapshots, Kinds,
    NoRetry, NoLease, Delay, Change, state, runtime
<1>3. ASSUME Connect PROVE TypeOK'
    BY <1>1, <1>3, LimitsAssumption DEF IInv, TypeOK, Calls, Workers, Snapshots, Kinds,
    NoRetry, NoLease, Delay, Connect, state, runtime
<1>4. ASSUME Disconnect PROVE TypeOK'
    BY <1>1, <1>4, LimitsAssumption DEF IInv, TypeOK, Calls, Workers, Snapshots, Kinds,
    NoRetry, NoLease, Delay, Disconnect, state, runtime
<1>5. ASSUME Tick PROVE TypeOK'
    BY <1>1, <1>5, LimitsAssumption DEF IInv, TypeOK, Calls, Workers, Snapshots, Kinds,
    NoRetry, NoLease, Delay, Tick, state, runtime
<1>6. ASSUME NEW w \in workers, Capture(w) PROVE TypeOK'
    BY <1>1, <1>6, LimitsAssumption, ZenonT(60) DEF IInv, TypeOK, Calls, Workers, Snapshots, Kinds,
    NoRetry, NoLease, Delay, Capture, Step, state, runtime
<1>7. ASSUME NEW w \in workers, List(w) PROVE TypeOK'
    BY <1>1, <1>7, LimitsAssumption, ZenonT(60) DEF IInv, TypeOK, Calls, Workers, Snapshots, Kinds,
    NoRetry, NoLease, Delay, List, Step, state, runtime
<1>8. ASSUME NEW w \in workers, ObservationFails(w) PROVE TypeOK'
    BY <1>1, <1>8, LimitsAssumption, ZenonT(60) DEF IInv, TypeOK, Calls, Workers, Snapshots, Kinds,
    NoRetry, NoLease, Delay, ObservationFails, Fails, Step, state, runtime
<1>9. ASSUME NEW w \in workers, Recheck(w) PROVE TypeOK'
    BY <1>1, <1>9, LimitsAssumption, ZenonT(60) DEF IInv, TypeOK, Calls, Workers, Snapshots, Kinds,
    NoRetry, NoLease, Delay, Recheck, Step, state, runtime
<1>10. ASSUME NEW w \in workers, Complete(w) PROVE TypeOK'
    <2>1. workers' \in SUBSET Workers /\ inFlight' \in 0 .. OrderLimit
        BY <1>1, <1>10, LimitsAssumption DEF IInv, TypeOK, Complete
    <2>2. w \in Workers
        BY <1>1 DEF IInv, TypeOK
    <2>3. call' \in [Callers -> Calls]
        <3>1. ASSUME NEW c \in Callers PROVE call'[c] \in Calls
            <4>1. call[c] \in Calls /\ w.seen \in 0 .. MaxVersion /\ 0 \in 0 .. MaxVersion
                BY <1>1, <2>2, LimitsAssumption DEF IInv, TypeOK, Workers
            <4>2. PICK s \in 0 .. MaxVersion, b \in BOOLEAN :
                      call'[c] \in {call[c], [call[c] EXCEPT !.stage = "answered", !.ok = b, !.seen = s]}
                BY <1>10, <4>1 DEF Complete, AnswerWaiters, Published
            <4> QED
                BY <4>1, <4>2 DEF Calls
        <3> QED
            BY <1>10, <3>1 DEF Complete, AnswerWaiters
    <2>4. /\ current' \in Snapshots
          /\ generation' \in 0 .. GenerationLimit
          /\ failures' \in 0 .. FailureLimit
          /\ retry' \in [armed : BOOLEAN, left : 0 .. 10]
        <3>1. CASE Published(w) /\ Succeed(w)
            BY <1>1, <2>2, <3>1, LimitsAssumption
            DEF IInv, TypeOK, Succeed, Published, Snapshots, Workers, NoRetry
        <3>2. CASE Fail
            <4>1. failures' \in 1 .. FailureLimit /\ generation' \in 0 .. GenerationLimit
                BY <1>1, <3>2, LimitsAssumption DEF IInv, TypeOK, Fail
            <4>2. Delay(failures') \in 0 .. 10
                BY <4>1 DEF Delay
            <4>3. current' \in Snapshots
                BY <1>1, <3>2 DEF IInv, TypeOK, Fail, Snapshots
            <4> QED
                BY <3>2, <4>1, <4>2, <4>3 DEF Fail
        <3>3. CASE UNCHANGED <<current, generation, failures, retry>>
            BY <1>1, <3>3 DEF IInv, TypeOK
        <3> QED
            BY <1>10, <3>1, <3>2, <3>3 DEF Complete
    <2> QED
        BY <1>1, <1>10, <2>1, <2>3, <2>4 DEF IInv, TypeOK, Complete, runtime
<1>11. ASSUME NEW c \in Callers, NEW kind \in {"explicit", "automatic"}, Request(c, kind) PROVE TypeOK'
    <2>1. /\ kind \in Kinds
          /\ 0 \in 0 .. MaxVersion /\ 0 \in 0 .. OrderLimit /\ 0 \in Nat
        BY <1>1, <1>11, LimitsAssumption DEF IInv, TypeOK, Calls, Kinds, Request
    <2>2. Unsubscribed("entering", kind, 0, 0, 0) \in Calls
        BY <2>1, IsCall
    <2> QED
        BY <1>1, <1>11, <2>2, LimitsAssumption DEF IInv, TypeOK, state, runtime,
        Request
<1>12. ASSUME NEW c \in Callers, Act(c) PROVE TypeOK'
    <2>1. /\ "after" \in Kinds
          /\ daemon + 1 \in 0 .. MaxVersion /\ 0 \in 0 .. OrderLimit /\ 0 \in Nat
        BY <1>1, <1>12, LimitsAssumption DEF IInv, TypeOK, Calls, Kinds, Act
    <2>2. Unsubscribed("acted", "after", daemon + 1, 0, 0) \in Calls
        BY <2>1, IsCall
    <2> QED
        BY <1>1, <1>12, <2>2, LimitsAssumption DEF IInv, TypeOK, state, runtime, Act
<1>13. ASSUME NEW c \in Callers, Mark(c) PROVE TypeOK'
    <2>0. Idle \in Calls
        BY IdleIsCall
    <2>1. CASE order < OrderLimit
        BY <1>1, <1>13, <2>0, <2>1, LimitsAssumption DEF IInv, TypeOK, Calls, Mark,
        runtime, state
    <2>2. CASE ~(order < OrderLimit)
        BY <1>1, <1>13, <2>0, <2>2, LimitsAssumption DEF IInv, TypeOK, Mark, Panic,
        runtime, state
    <2> QED
        BY <2>1, <2>2
<1>14. ASSUME NEW c \in Callers, Cancel(c) PROVE TypeOK'
    BY <1>1, <1>14, LimitsAssumption DEF IInv, TypeOK, Calls, Workers, Snapshots,
    Kinds, NoRetry, NoLease, Delay, Cancel, Idle, Unsubscribed, state, runtime
<1>15. ASSUME NEW c \in Callers, BackOff(c) PROVE TypeOK'
    <2>0. Idle \in Calls
        BY IdleIsCall
    <2>1. CASE current.error
        BY <1>1, <1>15, <2>0, <2>1, LimitsAssumption DEF IInv, TypeOK, Calls, BackOff,
        Becomes, runtime, state
    <2>2. CASE ~(current.error)
        BY <1>1, <1>15, <2>0, <2>2, LimitsAssumption DEF IInv, TypeOK, BackOff, Panic,
        runtime, state
    <2> QED
        BY <2>1, <2>2
<1>16. ASSUME NEW c \in Callers, Join(c) PROVE TypeOK'
    BY <1>1, <1>16, LimitsAssumption DEF IInv, TypeOK, Calls, Workers, Snapshots,
    Kinds, NoRetry, NoLease, Delay, Join, Subscribe, Eligible, state, runtime
<1>17. ASSUME NEW c \in Callers, Start(c) PROVE TypeOK'
    <2>0. Idle \in Calls
        BY IdleIsCall
    <2>1. CASE order < OrderLimit
        BY <1>1, <1>17, <2>0, <2>1, LimitsAssumption DEF IInv, TypeOK, Calls, Workers,
        Start, Subscribe, Spawned, runtime
    <2>2. CASE ~(order < OrderLimit)
        BY <1>1, <1>17, <2>0, <2>2, LimitsAssumption DEF IInv, TypeOK, Start, Panic,
        runtime
    <2> QED
        BY <2>1, <2>2
<1>18. ASSUME NEW c \in Callers, Return(c) PROVE TypeOK'
    <2> DEFINE back == Unsubscribed("returned", call[c].kind, call[c].acted, 0, 0)
    <2>1. call[c] \in Calls
        BY <1>1 DEF IInv, TypeOK
    <2>2. back \in Calls
        <3>1. call[c].kind \in Kinds /\ call[c].acted \in 0 .. MaxVersion /\ 0 \in 0 .. OrderLimit
            BY <2>1, LimitsAssumption DEF Calls
        <3> QED
            BY <3>1, IsCall
    <2>3. [back EXCEPT !.ok = call[c].ok, !.seen = call[c].seen] \in Calls
        <3> HIDE DEF back
        <3> QED
            BY <2>1, <2>2 DEF Calls
    <2> QED
        BY <1>1, <1>18, <2>3 DEF IInv, TypeOK, Return, runtime, state
<1>19. ASSUME NEW c \in Callers, Retry(c) PROVE TypeOK'
    <2>1. /\ call[c].kind \in Kinds
          /\ call[c].acted \in 0 .. MaxVersion /\ call[c].marker \in 0 .. OrderLimit /\ call[c].lists \in Nat
        BY <1>1, <1>19, LimitsAssumption DEF IInv, TypeOK, Calls, Kinds, Retry
    <2>2. Unsubscribed("entering", call[c].kind, call[c].acted, call[c].marker,
                       call[c].lists) \in Calls
        BY <2>1, IsCall
    <2> QED
        BY <1>1, <1>19, <2>2, LimitsAssumption DEF IInv, TypeOK, state, runtime, Retry
<1>20. ASSUME NEW l \in Leases, AskLease(l) PROVE TypeOK'
    BY <1>1, <1>20, LimitsAssumption DEF IInv, TypeOK, Calls, Workers, Snapshots,
    Kinds, NoRetry, NoLease, Delay, AskLease, state, runtime
<1>21. ASSUME NEW l \in Leases, EnterGate(l) PROVE TypeOK'
    BY <1>1, <1>21, LimitsAssumption DEF IInv, TypeOK, Calls, Workers, Snapshots,
    Kinds, NoRetry, NoLease, Delay, EnterGate, state, runtime
<1>22. ASSUME NEW l \in Leases, CheckLease(l) PROVE TypeOK'
    BY <1>1, <1>22, LimitsAssumption DEF IInv, TypeOK, Calls, Workers, Snapshots,
    Kinds, NoRetry, NoLease, Delay, CheckLease, StillCurrent, state, runtime
<1>23. ASSUME NEW l \in Leases, DropLease(l) PROVE TypeOK'
    BY <1>1, <1>23, LimitsAssumption DEF IInv, TypeOK, Calls, Workers, Snapshots,
    Kinds, NoRetry, NoLease, Delay, DropLease, state, runtime
<1>24. ASSUME UNCHANGED vars PROVE TypeOK'
    BY <1>1, <1>24, LimitsAssumption DEF IInv, TypeOK, Calls, Workers, Snapshots,
    Kinds, NoRetry, NoLease, Delay, vars
<1> QED
    BY <1>1, <1>2, <1>3, <1>4, <1>5, <1>6, <1>7, <1>8, <1>9, <1>10, <1>11, <1>12,
    <1>13, <1>14, <1>15, <1>16, <1>17, <1>18, <1>19, <1>20, <1>21, <1>22, <1>23, <1>24
    DEF Next, WorkerStep, CallerStep, CallerRuns, LeaseRuns

(***************************************************************************)
(* What the steps of the environment, of a worker that still observes and  *)
(* of lease users leave alone, and what a completion does.                 *)
(***************************************************************************)

Environment == Change \/ Connect \/ Disconnect \/ Tick
Observes(w) == Capture(w) \/ List(w) \/ ObservationFails(w) \/ Recheck(w)
LeaseStep(l) == AskLease(l) \/ LeaseRuns(l)

\* Docker, the session and the clock do not touch the coordinator.
LEMMA EnvironmentFrame ==
    ASSUME IInv, Environment
    PROVE  /\ UNCHANGED <<order, current, generation, inFlight, failures, workers, call, lease>>
           /\ retry'.armed = retry.armed
           /\ daemon' \in Nat /\ daemon' >= daemon
           /\ sessions' \in Nat /\ sessions' >= sessions /\ session' \in Nat
           /\ session' = session \/ session' = 0 \/ (session' = sessions + 1 /\ sessions' = session')
<1>1. daemon \in Nat /\ session \in Nat /\ sessions \in Nat
    BY LimitsAssumption DEF IInv, TypeOK
<1>2. CASE Tick
    BY <1>1, <1>2 DEF IInv, TypeOK, Tick, runtime
<1>3. CASE Change \/ Connect \/ Disconnect
    BY <1>1, <1>3 DEF Change, Connect, Disconnect, state
<1> QED
    BY <1>2, <1>3 DEF Environment

\* Lease users only read it.
LEMMA LeaseFrame ==
    ASSUME NEW l \in Leases, LeaseStep(l)
    PROVE  UNCHANGED <<runtime, order, state, workers, call>>
BY DEF LeaseStep, LeaseRuns, AskLease, EnterGate, CheckLease, DropLease

\* An observing worker replaces itself; what it lists is new.
LEMMA ObservingFrame ==
    ASSUME IInv, NEW w \in workers, Observes(w)
    PROVE  /\ UNCHANGED <<runtime, order, state, call, lease>>
           /\ \E n \in Workers :
                 /\ workers' = {n}
                 /\ n.order = w.order
                 /\ Listed(n) => ((Listed(w) /\ n.seen = w.seen) \/ n.seen = daemon)
<1>1. workers = {w} /\ w \in Workers
    BY DEF IInv, OneListServesAll, TypeOK
<1>2. ASSUME NEW n \in Workers, Step(w, n), n.order = w.order,
             Listed(n) => ((Listed(w) /\ n.seen = w.seen) \/ n.seen = daemon)
      PROVE  /\ UNCHANGED <<runtime, order, state, call, lease>>
             /\ \E m \in Workers :
                   /\ workers' = {m}
                   /\ m.order = w.order
                   /\ Listed(m) => ((Listed(w) /\ m.seen = w.seen) \/ m.seen = daemon)
    BY <1>1, <1>2 DEF Step
<1>3. CASE Capture(w)
    <2>1. [w EXCEPT !.stage = "captured", !.captured = session] \in Workers
        BY <1>1 DEF IInv, TypeOK, Workers
    <2> QED
        BY <1>1, <1>2, <1>3, <2>1 DEF Capture, Listed, Workers
<1>4. CASE List(w)
    <2> DEFINE n == [w EXCEPT !.stage = "listed", !.listed = session, !.seen = daemon]
    <2>1. n \in Workers /\ n.order = w.order /\ n.seen = daemon
        BY <1>1 DEF IInv, TypeOK, Workers
    <2>2. Step(w, n)
        BY <1>4 DEF List
    <2> QED
        BY <1>2, <2>1, <2>2
<1>5. CASE ObservationFails(w)
    <2> DEFINE n == [w EXCEPT !.stage = "publishing", !.ok = FALSE]
    <2>1. n \in Workers /\ n.order = w.order /\ ~Listed(n)
        BY <1>1 DEF Workers, Listed
    <2>2. Step(w, n)
        BY <1>5 DEF ObservationFails, Fails
    <2> QED
        BY <1>2, <2>1, <2>2
<1>6. CASE Recheck(w)
    <2> DEFINE n == [w EXCEPT !.stage = "publishing", !.ok = (w.captured = session)]
    <2>1. n \in Workers /\ n.order = w.order /\ n.seen = w.seen /\ Listed(w)
        BY <1>1, <1>6 DEF Workers, Listed, Recheck
    <2>2. Step(w, n)
        BY <1>6 DEF Recheck
    <2> QED
        BY <1>2, <2>1, <2>2
<1> QED
    BY <1>3, <1>4, <1>5, <1>6 DEF Observes

\* A completion ends the worker, moves the shown version forward or not at all, and
\* changes the calls that wait for it only.
LEMMA CompletionFrame ==
    ASSUME IInv, NEW w \in workers, Complete(w)
    PROVE  /\ UNCHANGED <<runtime, order, lease>>
           /\ workers' = {} /\ inFlight' = 0
           /\ w.order = inFlight /\ w.seen >= 0
           /\ \/ Published(w) /\ current'.seen = w.seen /\ current.seen <= w.seen
                    /\ w.seen <= daemon /\ Listed(w)
              \/ ~Published(w) /\ current'.seen = current.seen
           /\ \A c \in Callers :
                 /\ call'[c].kind = call[c].kind /\ call'[c].acted = call[c].acted
                 /\ call'[c].marker = call[c].marker /\ call'[c].order = call[c].order
                 /\ call'[c].lists = call[c].lists /\ call'[c].eligible = call[c].eligible
                 /\ \/ call[c].stage # "waiting" /\ call'[c] = call[c]
                    \/ /\ call[c].stage = "waiting" /\ call'[c].stage = "answered"
                       /\ call[c].order = w.order
                       /\ call'[c].ok = Published(w)
                       /\ call'[c].seen = IF Published(w) THEN w.seen ELSE 0
<1>1. workers = {w} /\ w \in Workers /\ w.order = inFlight
    BY DEF IInv, OneListServesAll, TypeOK
<1>2. \/ Published(w) /\ current'.seen = w.seen /\ current.seen <= w.seen
            /\ w.seen <= daemon /\ Listed(w)
      \/ ~Published(w) /\ current'.seen = current.seen
    <2>1. CASE Published(w)
        <3>1. Succeed(w)
            BY <2>1 DEF Complete, Published
        <3>2. Listed(w) /\ current.seen <= w.seen /\ w.seen <= daemon
            BY <2>1 DEF IInv, ListNotOld, Listed, Published, Complete
        <3> QED
            BY <2>1, <3>1, <3>2 DEF Succeed
    <2>2. CASE ~Published(w)
        BY <2>2 DEF Complete, Fail, IInv, TypeOK, Snapshots
    <2> QED
        BY <2>1, <2>2
<1>3. ASSUME NEW c \in Callers
      PROVE  /\ call'[c].kind = call[c].kind /\ call'[c].acted = call[c].acted
             /\ call'[c].marker = call[c].marker /\ call'[c].order = call[c].order
             /\ call'[c].lists = call[c].lists /\ call'[c].eligible = call[c].eligible
             /\ \/ call[c].stage # "waiting" /\ call'[c] = call[c]
                \/ /\ call[c].stage = "waiting" /\ call'[c].stage = "answered"
                   /\ call[c].order = w.order
                   /\ call'[c].ok = Published(w)
                   /\ call'[c].seen = IF Published(w) THEN w.seen ELSE 0
    <2>1. call[c] \in Calls
        BY DEF IInv, TypeOK
    <2>2. CASE call[c].stage = "waiting"
        <3>1. call[c].order = w.order
            BY <1>1, <2>2 DEF IInv, OneListServesAll
        <3>2. call'[c] = [call[c] EXCEPT !.stage = "answered", !.ok = Published(w),
                                         !.seen = IF Published(w) THEN w.seen ELSE 0]
            BY <2>2, <3>1 DEF Complete, AnswerWaiters
        <3> QED
            BY <2>1, <2>2, <3>1, <3>2 DEF Calls
    <2>3. CASE call[c].stage # "waiting"
        BY <2>3 DEF Complete, AnswerWaiters
    <2> QED
        BY <2>2, <2>3
<1> QED
    BY <1>1, <1>2, <1>3 DEF Complete, Workers

\* A list starts only when none is in flight, and its completion takes it out of
\* flight and answers everyone who waits.
LEMMA OneListStep == IInv /\ [Next]_vars => OneListServesAll'
<1>1. SUFFICES ASSUME IInv, [Next]_vars PROVE OneListServesAll'
    OBVIOUS
<1>2. CASE Environment
    BY <1>1, <1>2, EnvironmentFrame DEF IInv, OneListServesAll, TypeOK, Calls, Behind
<1>3. ASSUME NEW w \in workers, Observes(w) PROVE OneListServesAll'
    <2>1. /\ UNCHANGED <<call, inFlight>>
          /\ \E n \in Workers : workers' = {n} /\ n.order = w.order
        BY <1>1, <1>3, ObservingFrame DEF state
    <2> QED
        BY <1>1, <1>3, <2>1 DEF IInv, OneListServesAll
<1>4. ASSUME NEW w \in workers, Complete(w) PROVE OneListServesAll'
    BY <1>1, <1>4, CompletionFrame DEF IInv, OneListServesAll, TypeOK, Calls, Behind,
    runtime
<1>5. ASSUME NEW c \in Callers, NEW kind \in {"explicit", "automatic"},
             Request(c, kind)
      PROVE  OneListServesAll'
    BY <1>1, <1>5, LimitsAssumption DEF IInv, OneListServesAll, TypeOK, Calls, Behind,
    Request, Kinds, Unsubscribed, state, runtime
<1>6. ASSUME NEW c \in Callers, Act(c) PROVE OneListServesAll'
    BY <1>1, <1>6, LimitsAssumption DEF IInv, OneListServesAll, TypeOK, Calls, Behind,
    Act, Unsubscribed, state, runtime
<1>7. ASSUME NEW c \in Callers, Mark(c) PROVE OneListServesAll'
    BY <1>1, <1>7, LimitsAssumption DEF IInv, OneListServesAll, TypeOK, Calls, Behind,
    Mark, Panic, Idle, Unsubscribed, state, runtime
<1>8. ASSUME NEW c \in Callers, Cancel(c) PROVE OneListServesAll'
    BY <1>1, <1>8, LimitsAssumption DEF IInv, OneListServesAll, TypeOK, Calls, Behind,
    Cancel, Idle, Unsubscribed, state, runtime
<1>9. ASSUME NEW c \in Callers, BackOff(c) PROVE OneListServesAll'
    BY <1>1, <1>9, LimitsAssumption DEF IInv, OneListServesAll, TypeOK, Calls, Behind,
    BackOff, Becomes, Panic, Idle, Unsubscribed, state, runtime
<1>10. ASSUME NEW c \in Callers, Join(c) PROVE OneListServesAll'
    BY <1>1, <1>10, LimitsAssumption DEF IInv, OneListServesAll, TypeOK, Calls, Behind,
    Join, Subscribe, Eligible, state, runtime
<1>11. ASSUME NEW c \in Callers, Start(c) PROVE OneListServesAll'
    <2>1. CASE order < OrderLimit
        <3>1. workers' = {Spawned(order + 1)} /\ inFlight' = order + 1 /\ inFlight' # 0
            BY <1>1, <1>11, <2>1, LimitsAssumption DEF IInv, OneListServesAll, TypeOK, Start
        <3>2. ASSUME NEW d \in Callers, call'[d].stage = "waiting"
              PROVE  call'[d].order = order + 1
            BY <1>1, <1>11, <2>1, <3>2
            DEF IInv, OneListServesAll, Behind, TypeOK, Calls, Start, Subscribe
        <3>3. Spawned(order + 1).order = order + 1
            BY DEF Spawned
        <3> QED
            BY <3>1, <3>2, <3>3 DEF OneListServesAll
    <2>2. CASE ~(order < OrderLimit)
        BY <1>1, <1>11, <2>2
        DEF IInv, OneListServesAll, TypeOK, Calls, Start, Panic, Idle, Unsubscribed
    <2> QED
        BY <2>1, <2>2
<1>12. ASSUME NEW c \in Callers, Return(c) PROVE OneListServesAll'
    BY <1>1, <1>12, LimitsAssumption DEF IInv, OneListServesAll, TypeOK, Calls, Behind,
    Return, Unsubscribed, state, runtime
<1>13. ASSUME NEW c \in Callers, Retry(c) PROVE OneListServesAll'
    BY <1>1, <1>13, LimitsAssumption DEF IInv, OneListServesAll, TypeOK, Calls, Behind,
    Retry, Unsubscribed, state, runtime
<1>14. ASSUME NEW l \in Leases, LeaseStep(l) PROVE OneListServesAll'
    BY <1>1, <1>14, LeaseFrame DEF IInv, OneListServesAll, TypeOK, Calls, Behind,
    state, runtime
<1>15. CASE UNCHANGED vars
    BY <1>1, <1>15 DEF IInv, OneListServesAll, TypeOK, Calls, Behind, vars
<1> QED
    BY <1>1, <1>2, <1>3, <1>4, <1>5, <1>6, <1>7, <1>8, <1>9, <1>10, <1>11, <1>12,
    <1>13, <1>14, <1>15 DEF Next, WorkerStep, CallerStep, CallerRuns, LeaseStep,
    Environment, Observes

\* Only a completion changes the inventory, its error and the back-off.
LEMMA FreshnessStep == IInv /\ [Next]_vars => FreshnessCoherent'
<1>1. SUFFICES ASSUME IInv, [Next]_vars PROVE FreshnessCoherent'
    OBVIOUS
<1>2. CASE Environment
    BY <1>1, <1>2, EnvironmentFrame DEF IInv, FreshnessCoherent
<1>3. ASSUME NEW w \in workers, Observes(w) PROVE FreshnessCoherent'
    BY <1>1, <1>3, ObservingFrame DEF IInv, FreshnessCoherent, state, runtime
<1>4. ASSUME NEW w \in workers, Complete(w) PROVE FreshnessCoherent'
    <2>1. CASE Published(w) /\ Succeed(w)
        <3>1. generation' > 0 /\ current'.generation = generation'
            BY <1>1, <2>1 DEF IInv, TypeOK, Succeed
        <3> QED
            BY <2>1, <3>1 DEF FreshnessCoherent, Succeed, NoRetry
    <2>2. CASE Fail
        <3>1. failures' > 0
            BY <1>1, <2>2, LimitsAssumption DEF IInv, TypeOK, Fail
        <3> QED
            BY <1>1, <2>2, <3>1 DEF IInv, TypeOK, Snapshots, FreshnessCoherent, Fail
    <2>3. CASE UNCHANGED <<current, generation, failures, retry>>
        BY <1>1, <2>3 DEF IInv, FreshnessCoherent
    <2> QED
        BY <1>4, <2>1, <2>2, <2>3 DEF Complete
<1>5. ASSUME NEW c \in Callers, NEW kind \in {"explicit", "automatic"},
             Request(c, kind)
      PROVE  FreshnessCoherent'
    BY <1>1, <1>5, LimitsAssumption DEF IInv, FreshnessCoherent, Request, Kinds,
    Unsubscribed, state, runtime
<1>6. ASSUME NEW c \in Callers, Act(c) PROVE FreshnessCoherent'
    BY <1>1, <1>6, LimitsAssumption DEF IInv, FreshnessCoherent, Act, Unsubscribed,
    state, runtime
<1>7. ASSUME NEW c \in Callers, Mark(c) PROVE FreshnessCoherent'
    BY <1>1, <1>7, LimitsAssumption DEF IInv, FreshnessCoherent, Mark, Panic, Idle,
    Unsubscribed, state, runtime
<1>8. ASSUME NEW c \in Callers, Cancel(c) PROVE FreshnessCoherent'
    BY <1>1, <1>8, LimitsAssumption DEF IInv, FreshnessCoherent, Cancel, Idle,
    Unsubscribed, state, runtime
<1>9. ASSUME NEW c \in Callers, BackOff(c) PROVE FreshnessCoherent'
    BY <1>1, <1>9, LimitsAssumption DEF IInv, FreshnessCoherent, BackOff, Becomes,
    Panic, Idle, Unsubscribed, state, runtime
<1>10. ASSUME NEW c \in Callers, Join(c) PROVE FreshnessCoherent'
    BY <1>1, <1>10, LimitsAssumption DEF IInv, FreshnessCoherent, Join, Subscribe,
    Eligible, state, runtime
<1>11. ASSUME NEW c \in Callers, Start(c) PROVE FreshnessCoherent'
    BY <1>1, <1>11, LimitsAssumption DEF IInv, FreshnessCoherent, Start, Subscribe,
    Spawned, Panic, Idle, Unsubscribed, state, runtime
<1>12. ASSUME NEW c \in Callers, Return(c) PROVE FreshnessCoherent'
    BY <1>1, <1>12, LimitsAssumption DEF IInv, FreshnessCoherent, Return, Unsubscribed,
    state, runtime
<1>13. ASSUME NEW c \in Callers, Retry(c) PROVE FreshnessCoherent'
    BY <1>1, <1>13, LimitsAssumption DEF IInv, FreshnessCoherent, Retry, Unsubscribed,
    state, runtime
<1>14. ASSUME NEW l \in Leases, LeaseStep(l) PROVE FreshnessCoherent'
    BY <1>1, <1>14, LeaseFrame DEF IInv, FreshnessCoherent, state, runtime
<1>15. CASE UNCHANGED vars
    BY <1>1, <1>15 DEF IInv, FreshnessCoherent, vars
<1> QED
    BY <1>1, <1>2, <1>3, <1>4, <1>5, <1>6, <1>7, <1>8, <1>9, <1>10, <1>11, <1>12,
    <1>13, <1>14, <1>15 DEF Next, WorkerStep, CallerStep, CallerRuns, LeaseStep,
    Environment, Observes

\* A lease is granted on the current snapshot, and none is replaced under a lease.
LEMMA LeasesStep == IInv /\ [Next]_vars => LeasesCurrent'
<1>1. SUFFICES ASSUME IInv, [Next]_vars PROVE LeasesCurrent'
    OBVIOUS
<1>2. CASE Environment
    BY <1>1, <1>2, EnvironmentFrame DEF IInv, LeasesCurrent
<1>3. ASSUME NEW w \in workers, Observes(w) PROVE LeasesCurrent'
    BY <1>1, <1>3, ObservingFrame DEF IInv, LeasesCurrent, state, runtime
<1>4. ASSUME NEW w \in workers, Complete(w) PROVE LeasesCurrent'
    BY <1>1, <1>4 DEF IInv, LeasesCurrent, Complete, PublicationOpen
<1>5. ASSUME NEW c \in Callers, NEW kind \in {"explicit", "automatic"},
             Request(c, kind)
      PROVE  LeasesCurrent'
    BY <1>1, <1>5, LimitsAssumption DEF IInv, LeasesCurrent, Request, Kinds,
    Unsubscribed, state, runtime
<1>6. ASSUME NEW c \in Callers, Act(c) PROVE LeasesCurrent'
    BY <1>1, <1>6, LimitsAssumption DEF IInv, LeasesCurrent, Act, Unsubscribed, state,
    runtime
<1>7. ASSUME NEW c \in Callers, Mark(c) PROVE LeasesCurrent'
    BY <1>1, <1>7, LimitsAssumption DEF IInv, LeasesCurrent, Mark, Panic, Idle,
    Unsubscribed, state, runtime
<1>8. ASSUME NEW c \in Callers, Cancel(c) PROVE LeasesCurrent'
    BY <1>1, <1>8, LimitsAssumption DEF IInv, LeasesCurrent, Cancel, Idle,
    Unsubscribed, state, runtime
<1>9. ASSUME NEW c \in Callers, BackOff(c) PROVE LeasesCurrent'
    BY <1>1, <1>9, LimitsAssumption DEF IInv, LeasesCurrent, BackOff, Becomes, Panic,
    Idle, Unsubscribed, state, runtime
<1>10. ASSUME NEW c \in Callers, Join(c) PROVE LeasesCurrent'
    BY <1>1, <1>10, LimitsAssumption DEF IInv, LeasesCurrent, Join, Subscribe,
    Eligible, state, runtime
<1>11. ASSUME NEW c \in Callers, Start(c) PROVE LeasesCurrent'
    BY <1>1, <1>11, LimitsAssumption DEF IInv, LeasesCurrent, Start, Subscribe,
    Spawned, Panic, Idle, Unsubscribed, state, runtime
<1>12. ASSUME NEW c \in Callers, Return(c) PROVE LeasesCurrent'
    BY <1>1, <1>12, LimitsAssumption DEF IInv, LeasesCurrent, Return, Unsubscribed,
    state, runtime
<1>13. ASSUME NEW c \in Callers, Retry(c) PROVE LeasesCurrent'
    BY <1>1, <1>13, LimitsAssumption DEF IInv, LeasesCurrent, Retry, Unsubscribed,
    state, runtime
<1>14. ASSUME NEW l \in Leases, LeaseStep(l) PROVE LeasesCurrent'
    BY <1>1, <1>14
    DEF IInv, LeasesCurrent, TypeOK, LeaseStep, LeaseRuns, AskLease, EnterGate, CheckLease,
        DropLease, StillCurrent, NoLease, state
<1>15. CASE UNCHANGED vars
    BY <1>1, <1>15 DEF IInv, LeasesCurrent, vars
<1> QED
    BY <1>1, <1>2, <1>3, <1>4, <1>5, <1>6, <1>7, <1>8, <1>9, <1>10, <1>11, <1>12,
    <1>13, <1>14, <1>15 DEF Next, WorkerStep, CallerStep, CallerRuns, LeaseStep,
    Environment, Observes

\* A published snapshot comes from the session it names.
LEMMA SessionStep == IInv /\ [Next]_vars => SnapshotOfOneSession'
<1>1. SUFFICES ASSUME IInv, [Next]_vars PROVE SnapshotOfOneSession'
    OBVIOUS
<1>2. CASE Environment
    BY <1>1, <1>2, EnvironmentFrame DEF IInv, SnapshotOfOneSession
<1>3. ASSUME NEW w \in workers, Observes(w) PROVE SnapshotOfOneSession'
    BY <1>1, <1>3, ObservingFrame DEF IInv, SnapshotOfOneSession, state, runtime
<1>4. ASSUME NEW w \in workers, Complete(w) PROVE SnapshotOfOneSession'
    <2>1. CASE Published(w) /\ Succeed(w)
        BY <1>1, <1>4, <2>1
        DEF IInv, ListOfSession, SnapshotOfOneSession, Complete, Published, Succeed
    <2>2. CASE Fail
        BY <1>1, <2>2 DEF IInv, TypeOK, Snapshots, SnapshotOfOneSession, Fail
    <2>3. CASE UNCHANGED <<current, generation, failures, retry>>
        BY <1>1, <2>3 DEF IInv, SnapshotOfOneSession
    <2> QED
        BY <1>4, <2>1, <2>2, <2>3 DEF Complete
<1>5. ASSUME NEW c \in Callers, NEW kind \in {"explicit", "automatic"},
             Request(c, kind)
      PROVE  SnapshotOfOneSession'
    BY <1>1, <1>5, LimitsAssumption DEF IInv, SnapshotOfOneSession, Request, Kinds,
    Unsubscribed, state, runtime
<1>6. ASSUME NEW c \in Callers, Act(c) PROVE SnapshotOfOneSession'
    BY <1>1, <1>6, LimitsAssumption DEF IInv, SnapshotOfOneSession, Act, Unsubscribed,
    state, runtime
<1>7. ASSUME NEW c \in Callers, Mark(c) PROVE SnapshotOfOneSession'
    BY <1>1, <1>7, LimitsAssumption DEF IInv, SnapshotOfOneSession, Mark, Panic, Idle,
    Unsubscribed, state, runtime
<1>8. ASSUME NEW c \in Callers, Cancel(c) PROVE SnapshotOfOneSession'
    BY <1>1, <1>8, LimitsAssumption DEF IInv, SnapshotOfOneSession, Cancel, Idle,
    Unsubscribed, state, runtime
<1>9. ASSUME NEW c \in Callers, BackOff(c) PROVE SnapshotOfOneSession'
    BY <1>1, <1>9, LimitsAssumption DEF IInv, SnapshotOfOneSession, BackOff, Becomes,
    Panic, Idle, Unsubscribed, state, runtime
<1>10. ASSUME NEW c \in Callers, Join(c) PROVE SnapshotOfOneSession'
    BY <1>1, <1>10, LimitsAssumption DEF IInv, SnapshotOfOneSession, Join, Subscribe,
    Eligible, state, runtime
<1>11. ASSUME NEW c \in Callers, Start(c) PROVE SnapshotOfOneSession'
    BY <1>1, <1>11, LimitsAssumption DEF IInv, SnapshotOfOneSession, Start, Subscribe,
    Spawned, Panic, Idle, Unsubscribed, state, runtime
<1>12. ASSUME NEW c \in Callers, Return(c) PROVE SnapshotOfOneSession'
    BY <1>1, <1>12, LimitsAssumption DEF IInv, SnapshotOfOneSession, Return,
    Unsubscribed, state, runtime
<1>13. ASSUME NEW c \in Callers, Retry(c) PROVE SnapshotOfOneSession'
    BY <1>1, <1>13, LimitsAssumption DEF IInv, SnapshotOfOneSession, Retry,
    Unsubscribed, state, runtime
<1>14. ASSUME NEW l \in Leases, LeaseStep(l) PROVE SnapshotOfOneSession'
    BY <1>1, <1>14, LeaseFrame DEF IInv, SnapshotOfOneSession, state, runtime
<1>15. CASE UNCHANGED vars
    BY <1>1, <1>15 DEF IInv, SnapshotOfOneSession, vars
<1> QED
    BY <1>1, <1>2, <1>3, <1>4, <1>5, <1>6, <1>7, <1>8, <1>9, <1>10, <1>11, <1>12,
    <1>13, <1>14, <1>15 DEF Next, WorkerStep, CallerStep, CallerRuns, LeaseStep,
    Environment, Observes

\* Counters only grow, and everything numbered by them stays behind.
LEMMA BehindStep == IInv /\ [Next]_vars => Behind'
<1>1. SUFFICES ASSUME IInv, [Next]_vars PROVE Behind'
    OBVIOUS
<1>2. CASE Environment
    BY <1>1, <1>2, EnvironmentFrame DEF IInv, Behind, TypeOK, Calls, Snapshots
<1>3. ASSUME NEW w \in workers, Observes(w) PROVE Behind'
    BY <1>1, <1>3, ObservingFrame DEF IInv, Behind, TypeOK, Calls, Snapshots, state,
    runtime
<1>4. ASSUME NEW w \in workers, Complete(w) PROVE Behind'
    BY <1>1, <1>4, CompletionFrame DEF IInv, Behind, TypeOK, Calls, Snapshots, runtime
<1>5. ASSUME NEW c \in Callers, NEW kind \in {"explicit", "automatic"},
             Request(c, kind)
      PROVE  Behind'
    BY <1>1, <1>5, LimitsAssumption DEF IInv, Behind, TypeOK, Calls, Snapshots,
    Request, Kinds, Unsubscribed, state, runtime
<1>6. ASSUME NEW c \in Callers, Act(c) PROVE Behind'
    BY <1>1, <1>6, LimitsAssumption DEF IInv, Behind, TypeOK, Calls, Snapshots, Act,
    Unsubscribed, state, runtime
<1>7. ASSUME NEW c \in Callers, Mark(c) PROVE Behind'
    BY <1>1, <1>7, LimitsAssumption DEF IInv, Behind, TypeOK, Calls, Snapshots, Mark,
    Panic, Idle, Unsubscribed, state, runtime
<1>8. ASSUME NEW c \in Callers, Cancel(c) PROVE Behind'
    BY <1>1, <1>8, LimitsAssumption DEF IInv, Behind, TypeOK, Calls, Snapshots, Cancel,
    Idle, Unsubscribed, state, runtime
<1>9. ASSUME NEW c \in Callers, BackOff(c) PROVE Behind'
    BY <1>1, <1>9, LimitsAssumption DEF IInv, Behind, TypeOK, Calls, Snapshots,
    BackOff, Becomes, Panic, Idle, Unsubscribed, state, runtime
<1>10. ASSUME NEW c \in Callers, Join(c) PROVE Behind'
    BY <1>1, <1>10, LimitsAssumption DEF IInv, Behind, TypeOK, Calls, Snapshots, Join,
    Subscribe, Eligible, state, runtime
<1>11. ASSUME NEW c \in Callers, Start(c) PROVE Behind'
    BY <1>1, <1>11, LimitsAssumption, SMTT(30) DEF IInv, Behind, TypeOK, Calls, Snapshots, Start,
    Subscribe, Spawned, Panic, Idle, Unsubscribed, state, runtime
<1>12. ASSUME NEW c \in Callers, Return(c) PROVE Behind'
    BY <1>1, <1>12, LimitsAssumption DEF IInv, Behind, TypeOK, Calls, Snapshots,
    Return, Unsubscribed, state, runtime
<1>13. ASSUME NEW c \in Callers, Retry(c) PROVE Behind'
    BY <1>1, <1>13, LimitsAssumption DEF IInv, Behind, TypeOK, Calls, Snapshots, Retry,
    Unsubscribed, state, runtime
<1>14. ASSUME NEW l \in Leases, LeaseStep(l) PROVE Behind'
    BY <1>1, <1>14, LeaseFrame DEF IInv, Behind, TypeOK, Calls, Snapshots, state,
    runtime
<1>15. CASE UNCHANGED vars
    BY <1>1, <1>15 DEF IInv, Behind, TypeOK, Calls, Snapshots, vars
<1> QED
    BY <1>1, <1>2, <1>3, <1>4, <1>5, <1>6, <1>7, <1>8, <1>9, <1>10, <1>11, <1>12,
    <1>13, <1>14, <1>15 DEF Next, WorkerStep, CallerStep, CallerRuns, LeaseStep,
    Environment, Observes

\* A list is at least as new as the snapshot it will replace.
LEMMA ListNotOldStep == IInv /\ [Next]_vars => ListNotOld'
<1>1. SUFFICES ASSUME IInv, [Next]_vars PROVE ListNotOld'
    OBVIOUS
<1>2. CASE Environment
    BY <1>1, <1>2, EnvironmentFrame DEF IInv, ListNotOld, Listed, Behind, TypeOK,
    Snapshots, Workers
<1>3. ASSUME NEW w \in workers, Observes(w) PROVE ListNotOld'
    BY <1>1, <1>3, ObservingFrame DEF IInv, ListNotOld, Listed, Behind, TypeOK,
    Snapshots, Workers, state, runtime
<1>4. ASSUME NEW w \in workers, Complete(w) PROVE ListNotOld'
    BY <1>1, <1>4, CompletionFrame DEF IInv, ListNotOld, Listed, Behind, TypeOK,
    Snapshots, Workers, runtime
<1>5. ASSUME NEW c \in Callers, NEW kind \in {"explicit", "automatic"},
             Request(c, kind)
      PROVE  ListNotOld'
    BY <1>1, <1>5, LimitsAssumption DEF IInv, ListNotOld, Listed, Behind, TypeOK,
    Snapshots, Workers, Request, Kinds, Unsubscribed, state, runtime
<1>6. ASSUME NEW c \in Callers, Act(c) PROVE ListNotOld'
    BY <1>1, <1>6, LimitsAssumption DEF IInv, ListNotOld, Listed, Behind, TypeOK,
    Snapshots, Workers, Act, Unsubscribed, state, runtime
<1>7. ASSUME NEW c \in Callers, Mark(c) PROVE ListNotOld'
    BY <1>1, <1>7, LimitsAssumption DEF IInv, ListNotOld, Listed, Behind, TypeOK,
    Snapshots, Workers, Mark, Panic, Idle, Unsubscribed, state, runtime
<1>8. ASSUME NEW c \in Callers, Cancel(c) PROVE ListNotOld'
    BY <1>1, <1>8, LimitsAssumption DEF IInv, ListNotOld, Listed, Behind, TypeOK,
    Snapshots, Workers, Cancel, Idle, Unsubscribed, state, runtime
<1>9. ASSUME NEW c \in Callers, BackOff(c) PROVE ListNotOld'
    BY <1>1, <1>9, LimitsAssumption DEF IInv, ListNotOld, Listed, Behind, TypeOK,
    Snapshots, Workers, BackOff, Becomes, Panic, Idle, Unsubscribed, state, runtime
<1>10. ASSUME NEW c \in Callers, Join(c) PROVE ListNotOld'
    BY <1>1, <1>10, LimitsAssumption DEF IInv, ListNotOld, Listed, Behind, TypeOK,
    Snapshots, Workers, Join, Subscribe, Eligible, state, runtime
<1>11. ASSUME NEW c \in Callers, Start(c) PROVE ListNotOld'
    <2>1. ASSUME NEW v \in workers', Listed(v) PROVE v \in workers
        <3>1. workers' = workers \/ workers' = workers \cup {Spawned(order + 1)}
            BY <1>11 DEF Start
        <3>2. ~Listed(Spawned(order + 1))
            BY DEF Listed, Spawned
        <3> QED
            BY <2>1, <3>1, <3>2
    <2> QED
        BY <1>1, <1>11, <2>1 DEF IInv, ListNotOld, Start, runtime
<1>12. ASSUME NEW c \in Callers, Return(c) PROVE ListNotOld'
    BY <1>1, <1>12, LimitsAssumption DEF IInv, ListNotOld, Listed, Behind, TypeOK,
    Snapshots, Workers, Return, Unsubscribed, state, runtime
<1>13. ASSUME NEW c \in Callers, Retry(c) PROVE ListNotOld'
    BY <1>1, <1>13, LimitsAssumption DEF IInv, ListNotOld, Listed, Behind, TypeOK,
    Snapshots, Workers, Retry, Unsubscribed, state, runtime
<1>14. ASSUME NEW l \in Leases, LeaseStep(l) PROVE ListNotOld'
    BY <1>1, <1>14, LeaseFrame DEF IInv, ListNotOld, Listed, Behind, TypeOK, Snapshots,
    Workers, state, runtime
<1>15. CASE UNCHANGED vars
    BY <1>1, <1>15 DEF IInv, ListNotOld, Listed, Behind, TypeOK, Snapshots, Workers,
    vars
<1> QED
    BY <1>1, <1>2, <1>3, <1>4, <1>5, <1>6, <1>7, <1>8, <1>9, <1>10, <1>11, <1>12,
    <1>13, <1>14, <1>15 DEF Next, WorkerStep, CallerStep, CallerRuns, LeaseStep,
    Environment, Observes

\* Session ids are not reused, so what Recheck compares is what was listed.
LEMMA ListOfSessionStep == IInv /\ [Next]_vars => ListOfSession'
<1>1. SUFFICES ASSUME IInv, [Next]_vars PROVE ListOfSession'
    OBVIOUS
<1>2. CASE Environment
    BY <1>1, <1>2, EnvironmentFrame DEF IInv, ListOfSession, Behind, TypeOK, Workers
<1>3. ASSUME NEW w \in workers, Observes(w) PROVE ListOfSession'
    <2>1. workers = {w} /\ w \in Workers
        BY <1>1, <1>3 DEF IInv, OneListServesAll, TypeOK
    <2>2. CASE Capture(w)
        <3>1. workers' = {[w EXCEPT !.stage = "captured", !.captured = session]}
            BY <2>1, <2>2 DEF Capture, Step
        <3>2. ASSUME NEW n \in workers'
              PROVE  n.captured = session /\ n.stage = "captured"
            BY <2>1, <3>1, <3>2 DEF Workers
        <3>3. session > 0 /\ session <= sessions /\ UNCHANGED runtime
            BY <1>1, <2>2 DEF IInv, Behind, TypeOK, Capture, Step
        <3> QED
            BY <3>2, <3>3 DEF ListOfSession, runtime
    <2>3. CASE List(w)
        <3>1. workers' = {[w EXCEPT !.stage = "listed", !.listed = session, !.seen = daemon]}
            BY <2>1, <2>3 DEF List, Step
        <3> QED
            BY <1>1, <2>1, <2>3, <3>1
            DEF IInv, Behind, TypeOK, Workers, ListOfSession, List, Step, runtime
    <2>4. CASE ObservationFails(w)
        <3>1. /\ workers' = {[w EXCEPT !.stage = "publishing", !.ok = FALSE]}
              /\ UNCHANGED runtime
            BY <2>1, <2>4 DEF ObservationFails, Fails, Step
        <3> QED
            BY <1>1, <2>1, <3>1 DEF IInv, Workers, ListOfSession, runtime
    <2>5. CASE Recheck(w)
        <3>1. workers' = {[w EXCEPT !.stage = "publishing", !.ok = (w.captured = session)]}
            BY <2>1, <2>5 DEF Recheck, Step
        <3> QED
            BY <1>1, <2>1, <2>5, <3>1 DEF IInv, Workers, ListOfSession, Recheck, Step, runtime
    <2> QED
        BY <1>3, <2>2, <2>3, <2>4, <2>5 DEF Observes
<1>4. ASSUME NEW w \in workers, Complete(w) PROVE ListOfSession'
    BY <1>1, <1>4, CompletionFrame DEF IInv, ListOfSession, Behind, TypeOK, Workers,
    runtime
<1>5. ASSUME NEW c \in Callers, NEW kind \in {"explicit", "automatic"},
             Request(c, kind)
      PROVE  ListOfSession'
    BY <1>1, <1>5, LimitsAssumption DEF IInv, ListOfSession, Behind, TypeOK, Workers,
    Request, Kinds, Unsubscribed, state, runtime
<1>6. ASSUME NEW c \in Callers, Act(c) PROVE ListOfSession'
    BY <1>1, <1>6, LimitsAssumption DEF IInv, ListOfSession, Behind, TypeOK, Workers,
    Act, Unsubscribed, state, runtime
<1>7. ASSUME NEW c \in Callers, Mark(c) PROVE ListOfSession'
    BY <1>1, <1>7, LimitsAssumption DEF IInv, ListOfSession, Behind, TypeOK, Workers,
    Mark, Panic, Idle, Unsubscribed, state, runtime
<1>8. ASSUME NEW c \in Callers, Cancel(c) PROVE ListOfSession'
    BY <1>1, <1>8, LimitsAssumption DEF IInv, ListOfSession, Behind, TypeOK, Workers,
    Cancel, Idle, Unsubscribed, state, runtime
<1>9. ASSUME NEW c \in Callers, BackOff(c) PROVE ListOfSession'
    BY <1>1, <1>9, LimitsAssumption DEF IInv, ListOfSession, Behind, TypeOK, Workers,
    BackOff, Becomes, Panic, Idle, Unsubscribed, state, runtime
<1>10. ASSUME NEW c \in Callers, Join(c) PROVE ListOfSession'
    BY <1>1, <1>10, LimitsAssumption DEF IInv, ListOfSession, Behind, TypeOK, Workers,
    Join, Subscribe, Eligible, state, runtime
<1>11. ASSUME NEW c \in Callers, Start(c) PROVE ListOfSession'
    BY <1>1, <1>11, LimitsAssumption DEF IInv, ListOfSession, Behind, TypeOK, Workers,
    Start, Subscribe, Spawned, Panic, Idle, Unsubscribed, state, runtime
<1>12. ASSUME NEW c \in Callers, Return(c) PROVE ListOfSession'
    BY <1>1, <1>12, LimitsAssumption DEF IInv, ListOfSession, Behind, TypeOK, Workers,
    Return, Unsubscribed, state, runtime
<1>13. ASSUME NEW c \in Callers, Retry(c) PROVE ListOfSession'
    BY <1>1, <1>13, LimitsAssumption DEF IInv, ListOfSession, Behind, TypeOK, Workers,
    Retry, Unsubscribed, state, runtime
<1>14. ASSUME NEW l \in Leases, LeaseStep(l) PROVE ListOfSession'
    BY <1>1, <1>14, LeaseFrame DEF IInv, ListOfSession, Behind, TypeOK, Workers, state,
    runtime
<1>15. CASE UNCHANGED vars
    BY <1>1, <1>15 DEF IInv, ListOfSession, Behind, TypeOK, Workers, vars
<1> QED
    BY <1>1, <1>2, <1>3, <1>4, <1>5, <1>6, <1>7, <1>8, <1>9, <1>10, <1>11, <1>12,
    <1>13, <1>14, <1>15 DEF Next, WorkerStep, CallerStep, CallerRuns, LeaseStep,
    Environment, Observes

\* A list numbered after a marker is read after the change that the marker follows.
LEMMA ListAfterMarkStep == IInv /\ [Next]_vars => ListAfterMark'
<1>1. SUFFICES ASSUME IInv, [Next]_vars PROVE ListAfterMark'
    OBVIOUS
<1>2. CASE Environment
    BY <1>1, <1>2, EnvironmentFrame DEF IInv, ListAfterMark, Marked, Listed, Behind,
    TypeOK, Calls, Workers
<1>3. ASSUME NEW w \in workers, Observes(w) PROVE ListAfterMark'
    BY <1>1, <1>3, ObservingFrame DEF IInv, ListAfterMark, Marked, Listed, Behind,
    TypeOK, Calls, Workers, state, runtime
<1>4. ASSUME NEW w \in workers, Complete(w) PROVE ListAfterMark'
    BY <1>1, <1>4, CompletionFrame DEF IInv, ListAfterMark, Marked, Listed, Behind,
    TypeOK, Calls, Workers, runtime
<1>5. ASSUME NEW c \in Callers, NEW kind \in {"explicit", "automatic"},
             Request(c, kind)
      PROVE  ListAfterMark'
    BY <1>1, <1>5, LimitsAssumption DEF IInv, ListAfterMark, Marked, Listed, Behind,
    TypeOK, Calls, Workers, Request, Kinds, Unsubscribed, state, runtime
<1>6. ASSUME NEW c \in Callers, Act(c) PROVE ListAfterMark'
    BY <1>1, <1>6, LimitsAssumption DEF IInv, ListAfterMark, Marked, Listed, Behind,
    TypeOK, Calls, Workers, Act, Unsubscribed, state, runtime
<1>7. ASSUME NEW c \in Callers, Mark(c) PROVE ListAfterMark'
    <2>1. CASE order < OrderLimit
        BY <1>1, <1>7, <2>1, LimitsAssumption DEF IInv, ListAfterMark, Marked, Listed,
        Behind, TypeOK, Calls, Workers, OneListServesAll, Mark, runtime, state
    <2>2. CASE ~(order < OrderLimit)
        BY <1>1, <1>7, <2>2, LimitsAssumption DEF IInv, ListAfterMark, Marked, Listed,
        Behind, TypeOK, Calls, Workers, OneListServesAll, Mark, Panic, Idle,
        Unsubscribed, runtime, state
    <2> QED
        BY <2>1, <2>2
<1>8. ASSUME NEW c \in Callers, Cancel(c) PROVE ListAfterMark'
    BY <1>1, <1>8, LimitsAssumption DEF IInv, ListAfterMark, Marked, Listed, Behind,
    TypeOK, Calls, Workers, Cancel, Idle, Unsubscribed, state, runtime
<1>9. ASSUME NEW c \in Callers, BackOff(c) PROVE ListAfterMark'
    <2>1. CASE current.error
        BY <1>1, <1>9, <2>1, LimitsAssumption DEF IInv, ListAfterMark, Marked, Listed,
        Behind, TypeOK, Calls, Workers, OneListServesAll, BacksOff, BackOff, Becomes,
        runtime, state
    <2>2. CASE ~(current.error)
        BY <1>1, <1>9, <2>2, LimitsAssumption DEF IInv, ListAfterMark, Marked, Listed,
        Behind, TypeOK, Calls, Workers, OneListServesAll, BackOff, Panic, Idle,
        Unsubscribed, runtime, state
    <2> QED
        BY <2>1, <2>2
<1>10. ASSUME NEW c \in Callers, Join(c) PROVE ListAfterMark'
    BY <1>1, <1>10, LimitsAssumption DEF IInv, ListAfterMark, Marked, Listed, Behind,
    TypeOK, Calls, Workers, Join, Subscribe, Eligible, state, runtime
<1>11. ASSUME NEW c \in Callers, Start(c) PROVE ListAfterMark'
    <2>1. CASE order < OrderLimit
        BY <1>1, <1>11, <2>1, LimitsAssumption DEF IInv, ListAfterMark, Marked, Listed,
        Behind, TypeOK, Calls, Workers, OneListServesAll, Start, Subscribe, Spawned,
        runtime
    <2>2. CASE ~(order < OrderLimit)
        BY <1>1, <1>11, <2>2, LimitsAssumption DEF IInv, ListAfterMark, Marked, Listed,
        Behind, TypeOK, Calls, Workers, OneListServesAll, Start, Panic, Idle,
        Unsubscribed, runtime
    <2> QED
        BY <2>1, <2>2
<1>12. ASSUME NEW c \in Callers, Return(c) PROVE ListAfterMark'
    BY <1>1, <1>12, LimitsAssumption DEF IInv, ListAfterMark, Marked, Listed, Behind,
    TypeOK, Calls, Workers, Return, Unsubscribed, state, runtime
<1>13. ASSUME NEW c \in Callers, Retry(c) PROVE ListAfterMark'
    BY <1>1, <1>13, LimitsAssumption DEF IInv, ListAfterMark, Marked, Listed, Behind,
    TypeOK, Calls, Workers, Retry, Unsubscribed, state, runtime
<1>14. ASSUME NEW l \in Leases, LeaseStep(l) PROVE ListAfterMark'
    BY <1>1, <1>14, LeaseFrame DEF IInv, ListAfterMark, Marked, Listed, Behind, TypeOK,
    Calls, Workers, state, runtime
<1>15. CASE UNCHANGED vars
    BY <1>1, <1>15 DEF IInv, ListAfterMark, Marked, Listed, Behind, TypeOK, Calls,
    Workers, vars
<1> QED
    BY <1>1, <1>2, <1>3, <1>4, <1>5, <1>6, <1>7, <1>8, <1>9, <1>10, <1>11, <1>12,
    <1>13, <1>14, <1>15 DEF Next, WorkerStep, CallerStep, CallerRuns, LeaseStep,
    Environment, Observes

\* A caller is eligible for lists after its marker only, and these show its change.
LEMMA EntitledStep == IInv /\ [Next]_vars => Entitled'
<1>1. SUFFICES ASSUME IInv, [Next]_vars PROVE Entitled'
    OBVIOUS
<1>2. CASE Environment
    BY <1>1, <1>2, EnvironmentFrame DEF IInv, Entitled, Behind, OneListServesAll,
    TypeOK, Calls, Snapshots
<1>3. ASSUME NEW w \in workers, Observes(w) PROVE Entitled'
    BY <1>1, <1>3, ObservingFrame DEF IInv, Entitled, Behind, OneListServesAll, TypeOK,
    Calls, Snapshots, state, runtime
<1>4. ASSUME NEW w \in workers, Complete(w) PROVE Entitled'
    <2> SUFFICES ASSUME NEW c \in Callers
                 PROVE  /\ call'[c].kind # "after" => call'[c].acted = 0
                        /\ call'[c].stage = "waiting" /\ call'[c].kind = "after" /\ call'[c].eligible
                               => call'[c].order > call'[c].marker
                        /\ call'[c].stage = "answered" /\ call'[c].kind = "after"
                              /\ call'[c].eligible /\ call'[c].ok
                               => call'[c].seen >= call'[c].acted
                        /\ call'[c].seen <= current'.seen
                        /\ ~call'[c].ok => call'[c].seen = 0
                        /\ call'[c].ok => call'[c].stage \in {"answered", "returned"}
        BY DEF Entitled
    <2>1. call[c] \in Calls /\ w \in Workers /\ current \in Snapshots
        BY <1>1, <1>4 DEF IInv, TypeOK
    <2>2. CASE call[c].stage # "waiting"
        BY <1>1, <1>4, <2>1, <2>2, CompletionFrame DEF IInv, Entitled, Calls, Workers, Snapshots
    <2>3. CASE call[c].stage = "waiting"
        <3>1. call[c].kind = "after" /\ call[c].eligible /\ Published(w) => w.seen >= call[c].acted
            BY <1>1, <1>4, <2>3, CompletionFrame DEF IInv, Entitled, ListAfterMark, Marked
        <3> QED
            BY <1>1, <1>4, <2>1, <2>3, <3>1, CompletionFrame
            DEF IInv, Entitled, Calls, Workers, Snapshots
    <2> QED
        BY <2>2, <2>3
<1>5. ASSUME NEW c \in Callers, NEW kind \in {"explicit", "automatic"},
             Request(c, kind)
      PROVE  Entitled'
    BY <1>1, <1>5, LimitsAssumption DEF IInv, Entitled, Behind, OneListServesAll,
    TypeOK, Calls, Snapshots, Request, Kinds, Unsubscribed, state, runtime
<1>6. ASSUME NEW c \in Callers, Act(c) PROVE Entitled'
    BY <1>1, <1>6, LimitsAssumption DEF IInv, Entitled, Behind, OneListServesAll,
    TypeOK, Calls, Snapshots, Act, Unsubscribed, state, runtime
<1>7. ASSUME NEW c \in Callers, Mark(c) PROVE Entitled'
    <2>1. CASE order < OrderLimit
        BY <1>1, <1>7, <2>1, LimitsAssumption DEF IInv, Entitled, Behind,
        OneListServesAll, TypeOK, Calls, Snapshots, Mark, runtime, state
    <2>2. CASE ~(order < OrderLimit)
        BY <1>1, <1>7, <2>2, LimitsAssumption DEF IInv, Entitled, Behind,
        OneListServesAll, TypeOK, Calls, Snapshots, Mark, Panic, Idle, Unsubscribed,
        runtime, state
    <2> QED
        BY <2>1, <2>2
<1>8. ASSUME NEW c \in Callers, Cancel(c) PROVE Entitled'
    BY <1>1, <1>8, LimitsAssumption DEF IInv, Entitled, Behind, OneListServesAll,
    TypeOK, Calls, Snapshots, Cancel, Idle, Unsubscribed, state, runtime
<1>9. ASSUME NEW c \in Callers, BackOff(c) PROVE Entitled'
    <2>1. CASE current.error
        BY <1>1, <1>9, <2>1, LimitsAssumption DEF IInv, Entitled, Behind,
        OneListServesAll, TypeOK, Calls, Snapshots, BacksOff, BackOff, Becomes,
        runtime, state
    <2>2. CASE ~(current.error)
        BY <1>1, <1>9, <2>2, LimitsAssumption DEF IInv, Entitled, Behind,
        OneListServesAll, TypeOK, Calls, Snapshots, BackOff, Panic, Idle, Unsubscribed,
        runtime, state
    <2> QED
        BY <2>1, <2>2
<1>10. ASSUME NEW c \in Callers, Join(c) PROVE Entitled'
    <2>1. /\ call'[c].stage = "waiting" /\ call'[c].order = inFlight
          /\ call'[c].eligible = Eligible(c)
          /\ call'[c].kind = call[c].kind /\ call'[c].acted = call[c].acted
          /\ call'[c].marker = call[c].marker /\ call'[c].seen = call[c].seen
          /\ call'[c].ok = call[c].ok /\ call[c].stage = "entering"
          /\ \A d \in Callers \ {c} : call'[d] = call[d]
          /\ current' = current
        BY <1>1, <1>10 DEF IInv, TypeOK, Calls, Join, Subscribe, state
    <2>2. call[c].kind = "after" /\ Eligible(c) => inFlight > call[c].marker
        BY DEF Eligible
    <2>3. call[c].marker \in Nat /\ inFlight \in Nat
        BY <1>1 DEF IInv, TypeOK, Calls
    <2> QED
        BY <1>1, <2>1, <2>2, <2>3 DEF IInv, Entitled
<1>11. ASSUME NEW c \in Callers, Start(c) PROVE Entitled'
    <2>1. CASE order < OrderLimit
        BY <1>1, <1>11, <2>1, LimitsAssumption DEF IInv, Entitled, Behind,
        OneListServesAll, TypeOK, Calls, Snapshots, Start, Subscribe, Spawned, runtime
    <2>2. CASE ~(order < OrderLimit)
        BY <1>1, <1>11, <2>2, LimitsAssumption DEF IInv, Entitled, Behind,
        OneListServesAll, TypeOK, Calls, Snapshots, Start, Panic, Idle, Unsubscribed,
        runtime
    <2> QED
        BY <2>1, <2>2
<1>12. ASSUME NEW c \in Callers, Return(c) PROVE Entitled'
    BY <1>1, <1>12, LimitsAssumption DEF IInv, Entitled, Behind, OneListServesAll,
    TypeOK, Calls, Snapshots, Return, Unsubscribed, state, runtime
<1>13. ASSUME NEW c \in Callers, Retry(c) PROVE Entitled'
    BY <1>1, <1>13, LimitsAssumption DEF IInv, Entitled, Behind, OneListServesAll,
    TypeOK, Calls, Snapshots, Retry, Unsubscribed, state, runtime
<1>14. ASSUME NEW l \in Leases, LeaseStep(l) PROVE Entitled'
    BY <1>1, <1>14, LeaseFrame DEF IInv, Entitled, Behind, OneListServesAll, TypeOK,
    Calls, Snapshots, state, runtime
<1>15. CASE UNCHANGED vars
    BY <1>1, <1>15 DEF IInv, Entitled, Behind, OneListServesAll, TypeOK, Calls,
    Snapshots, vars
<1> QED
    BY <1>1, <1>2, <1>3, <1>4, <1>5, <1>6, <1>7, <1>8, <1>9, <1>10, <1>11, <1>12,
    <1>13, <1>14, <1>15 DEF Next, WorkerStep, CallerStep, CallerRuns, LeaseStep,
    Environment, Observes

\* An answer that is returned was good when it was given.
LEMMA CausalStep == IInv /\ [Next]_vars => CausalRefresh'
<1>1. SUFFICES ASSUME IInv, [Next]_vars PROVE CausalRefresh'
    OBVIOUS
<1>2. CASE Environment
    BY <1>1, <1>2, EnvironmentFrame DEF IInv, Entitled, CausalRefresh, TypeOK, Calls
<1>3. ASSUME NEW w \in workers, Observes(w) PROVE CausalRefresh'
    BY <1>1, <1>3, ObservingFrame DEF IInv, Entitled, CausalRefresh, TypeOK, Calls,
    state, runtime
<1>4. ASSUME NEW w \in workers, Complete(w) PROVE CausalRefresh'
    BY <1>1, <1>4, CompletionFrame DEF IInv, Entitled, CausalRefresh, TypeOK, Calls,
    runtime
<1>5. ASSUME NEW c \in Callers, NEW kind \in {"explicit", "automatic"},
             Request(c, kind)
      PROVE  CausalRefresh'
    BY <1>1, <1>5, LimitsAssumption DEF IInv, Entitled, CausalRefresh, TypeOK, Calls,
    Request, Kinds, Unsubscribed, state, runtime
<1>6. ASSUME NEW c \in Callers, Act(c) PROVE CausalRefresh'
    BY <1>1, <1>6, LimitsAssumption DEF IInv, Entitled, CausalRefresh, TypeOK, Calls,
    Act, Unsubscribed, state, runtime
<1>7. ASSUME NEW c \in Callers, Mark(c) PROVE CausalRefresh'
    <2>1. CASE order < OrderLimit
        BY <1>1, <1>7, <2>1, LimitsAssumption DEF IInv, Entitled, CausalRefresh,
        TypeOK, Calls, Mark, runtime, state
    <2>2. CASE ~(order < OrderLimit)
        BY <1>1, <1>7, <2>2, LimitsAssumption DEF IInv, Entitled, CausalRefresh,
        TypeOK, Calls, Mark, Panic, Idle, Unsubscribed, runtime, state
    <2> QED
        BY <2>1, <2>2
<1>8. ASSUME NEW c \in Callers, Cancel(c) PROVE CausalRefresh'
    BY <1>1, <1>8, LimitsAssumption DEF IInv, Entitled, CausalRefresh, TypeOK, Calls,
    Cancel, Idle, Unsubscribed, state, runtime
<1>9. ASSUME NEW c \in Callers, BackOff(c) PROVE CausalRefresh'
    <2>1. CASE current.error
        BY <1>1, <1>9, <2>1, LimitsAssumption DEF IInv, Entitled, CausalRefresh,
        TypeOK, Calls, BacksOff, BackOff, Becomes, runtime, state
    <2>2. CASE ~(current.error)
        BY <1>1, <1>9, <2>2, LimitsAssumption DEF IInv, Entitled, CausalRefresh,
        TypeOK, Calls, BackOff, Panic, Idle, Unsubscribed, runtime, state
    <2> QED
        BY <2>1, <2>2
<1>10. ASSUME NEW c \in Callers, Join(c) PROVE CausalRefresh'
    BY <1>1, <1>10, LimitsAssumption DEF IInv, Entitled, CausalRefresh, TypeOK, Calls,
    Join, Subscribe, Eligible, state, runtime
<1>11. ASSUME NEW c \in Callers, Start(c) PROVE CausalRefresh'
    <2>1. CASE order < OrderLimit
        BY <1>1, <1>11, <2>1, LimitsAssumption DEF IInv, Entitled, CausalRefresh,
        TypeOK, Calls, Start, Subscribe, Spawned, runtime
    <2>2. CASE ~(order < OrderLimit)
        BY <1>1, <1>11, <2>2, LimitsAssumption DEF IInv, Entitled, CausalRefresh,
        TypeOK, Calls, Start, Panic, Idle, Unsubscribed, runtime
    <2> QED
        BY <2>1, <2>2
<1>12. ASSUME NEW c \in Callers, Return(c) PROVE CausalRefresh'
    BY <1>1, <1>12, LimitsAssumption DEF IInv, Entitled, CausalRefresh, TypeOK, Calls,
    Return, Unsubscribed, state, runtime
<1>13. ASSUME NEW c \in Callers, Retry(c) PROVE CausalRefresh'
    BY <1>1, <1>13, LimitsAssumption DEF IInv, Entitled, CausalRefresh, TypeOK, Calls,
    Retry, Unsubscribed, state, runtime
<1>14. ASSUME NEW l \in Leases, LeaseStep(l) PROVE CausalRefresh'
    BY <1>1, <1>14, LeaseFrame DEF IInv, Entitled, CausalRefresh, TypeOK, Calls, state,
    runtime
<1>15. CASE UNCHANGED vars
    BY <1>1, <1>15 DEF IInv, Entitled, CausalRefresh, TypeOK, Calls, vars
<1> QED
    BY <1>1, <1>2, <1>3, <1>4, <1>5, <1>6, <1>7, <1>8, <1>9, <1>10, <1>11, <1>12,
    <1>13, <1>14, <1>15 DEF Next, WorkerStep, CallerStep, CallerRuns, LeaseStep,
    Environment, Observes

\* Only a list older than the marker is waited for in vain, and only once.
LEMMA ImpatientStep == IInv /\ [Next]_vars => Impatient'
<1>1. SUFFICES ASSUME IInv, [Next]_vars PROVE Impatient'
    OBVIOUS
<1>2. CASE Environment
    BY <1>1, <1>2, EnvironmentFrame DEF IInv, Impatient, Behind, TypeOK, Calls
<1>3. ASSUME NEW w \in workers, Observes(w) PROVE Impatient'
    BY <1>1, <1>3, ObservingFrame DEF IInv, Impatient, Behind, TypeOK, Calls, state,
    runtime
<1>4. ASSUME NEW w \in workers, Complete(w) PROVE Impatient'
    BY <1>1, <1>4, CompletionFrame DEF IInv, Impatient, Behind, TypeOK, Calls, runtime
<1>5. ASSUME NEW c \in Callers, NEW kind \in {"explicit", "automatic"},
             Request(c, kind)
      PROVE  Impatient'
    BY <1>1, <1>5, LimitsAssumption DEF IInv, Impatient, Behind, TypeOK, Calls,
    Request, Kinds, Unsubscribed, state, runtime
<1>6. ASSUME NEW c \in Callers, Act(c) PROVE Impatient'
    BY <1>1, <1>6, LimitsAssumption DEF IInv, Impatient, Behind, TypeOK, Calls, Act,
    Unsubscribed, state, runtime
<1>7. ASSUME NEW c \in Callers, Mark(c) PROVE Impatient'
    <2>1. CASE order < OrderLimit
        BY <1>1, <1>7, <2>1, LimitsAssumption DEF IInv, Impatient, Behind, TypeOK,
        Calls, Mark, runtime, state
    <2>2. CASE ~(order < OrderLimit)
        BY <1>1, <1>7, <2>2, LimitsAssumption DEF IInv, Impatient, Behind, TypeOK,
        Calls, Mark, Panic, Idle, Unsubscribed, runtime, state
    <2> QED
        BY <2>1, <2>2
<1>8. ASSUME NEW c \in Callers, Cancel(c) PROVE Impatient'
    BY <1>1, <1>8, LimitsAssumption DEF IInv, Impatient, Behind, TypeOK, Calls, Cancel,
    Idle, Unsubscribed, state, runtime
<1>9. ASSUME NEW c \in Callers, BackOff(c) PROVE Impatient'
    <2>1. CASE current.error
        BY <1>1, <1>9, <2>1, LimitsAssumption DEF IInv, Impatient, Behind, TypeOK,
        Calls, BacksOff, BackOff, Becomes, runtime, state
    <2>2. CASE ~(current.error)
        BY <1>1, <1>9, <2>2, LimitsAssumption DEF IInv, Impatient, Behind, TypeOK,
        Calls, BackOff, Panic, Idle, Unsubscribed, runtime, state
    <2> QED
        BY <2>1, <2>2
<1>10. ASSUME NEW c \in Callers, Join(c) PROVE Impatient'
    <2>1. /\ call'[c].stage = "waiting" /\ call'[c].order = inFlight
          /\ call'[c].eligible = Eligible(c)
          /\ call'[c].kind = call[c].kind /\ call'[c].marker = call[c].marker
          /\ call'[c].lists = call[c].lists + 1 /\ call[c].lists \in Nat
          /\ call[c].stage = "entering"
          /\ \A d \in Callers \ {c} : call'[d] = call[d]
          /\ UNCHANGED <<order, inFlight>>
        BY <1>1, <1>10 DEF IInv, TypeOK, Calls, Join, Subscribe, state
    <2>2. Eligible(c) <=> (call[c].kind # "after" \/ inFlight > call[c].marker)
        BY DEF Eligible
    <2>3. call[c].marker \in Nat /\ inFlight \in Nat /\ inFlight # 0
        BY <1>1, <1>10 DEF IInv, TypeOK, Calls, Join
    <2> QED
        BY <1>1, <2>1, <2>2, <2>3 DEF IInv, Impatient
<1>11. ASSUME NEW c \in Callers, Start(c) PROVE Impatient'
    <2>1. CASE order < OrderLimit
        BY <1>1, <1>11, <2>1, LimitsAssumption DEF IInv, Impatient, Behind, TypeOK,
        Calls, Start, Subscribe, Spawned, runtime
    <2>2. CASE ~(order < OrderLimit)
        BY <1>1, <1>11, <2>2, LimitsAssumption DEF IInv, Impatient, Behind, TypeOK,
        Calls, Start, Panic, Idle, Unsubscribed, runtime
    <2> QED
        BY <2>1, <2>2
<1>12. ASSUME NEW c \in Callers, Return(c) PROVE Impatient'
    BY <1>1, <1>12, LimitsAssumption DEF IInv, Impatient, Behind, TypeOK, Calls,
    Return, Unsubscribed, state, runtime
<1>13. ASSUME NEW c \in Callers, Retry(c) PROVE Impatient'
    BY <1>1, <1>13, LimitsAssumption DEF IInv, Impatient, Behind, TypeOK, Calls, Retry,
    Unsubscribed, state, runtime
<1>14. ASSUME NEW l \in Leases, LeaseStep(l) PROVE Impatient'
    BY <1>1, <1>14, LeaseFrame DEF IInv, Impatient, Behind, TypeOK, Calls, state,
    runtime
<1>15. CASE UNCHANGED vars
    BY <1>1, <1>15 DEF IInv, Impatient, Behind, TypeOK, Calls, vars
<1> QED
    BY <1>1, <1>2, <1>3, <1>4, <1>5, <1>6, <1>7, <1>8, <1>9, <1>10, <1>11, <1>12,
    <1>13, <1>14, <1>15 DEF Next, WorkerStep, CallerStep, CallerRuns, LeaseStep,
    Environment, Observes

\* Waiting for a third list would need a second one in vain.
LEMMA TwoListsStep == IInv /\ [Next]_vars => TwoListsSuffice'
<1>1. SUFFICES ASSUME IInv, [Next]_vars PROVE TwoListsSuffice'
    OBVIOUS
<1>2. CASE Environment
    BY <1>1, <1>2, EnvironmentFrame DEF IInv, Impatient, TwoListsSuffice, TypeOK, Calls
<1>3. ASSUME NEW w \in workers, Observes(w) PROVE TwoListsSuffice'
    BY <1>1, <1>3, ObservingFrame DEF IInv, Impatient, TwoListsSuffice, TypeOK, Calls,
    state, runtime
<1>4. ASSUME NEW w \in workers, Complete(w) PROVE TwoListsSuffice'
    BY <1>1, <1>4, CompletionFrame DEF IInv, Impatient, TwoListsSuffice, TypeOK, Calls,
    runtime
<1>5. ASSUME NEW c \in Callers, NEW kind \in {"explicit", "automatic"},
             Request(c, kind)
      PROVE  TwoListsSuffice'
    BY <1>1, <1>5, LimitsAssumption DEF IInv, Impatient, TwoListsSuffice, TypeOK,
    Calls, Request, Kinds, Unsubscribed, state, runtime
<1>6. ASSUME NEW c \in Callers, Act(c) PROVE TwoListsSuffice'
    BY <1>1, <1>6, LimitsAssumption DEF IInv, Impatient, TwoListsSuffice, TypeOK,
    Calls, Act, Unsubscribed, state, runtime
<1>7. ASSUME NEW c \in Callers, Mark(c) PROVE TwoListsSuffice'
    <2>1. CASE order < OrderLimit
        BY <1>1, <1>7, <2>1, LimitsAssumption DEF IInv, Impatient, TwoListsSuffice,
        TypeOK, Calls, Mark, runtime, state
    <2>2. CASE ~(order < OrderLimit)
        BY <1>1, <1>7, <2>2, LimitsAssumption DEF IInv, Impatient, TwoListsSuffice,
        TypeOK, Calls, Mark, Panic, Idle, Unsubscribed, runtime, state
    <2> QED
        BY <2>1, <2>2
<1>8. ASSUME NEW c \in Callers, Cancel(c) PROVE TwoListsSuffice'
    BY <1>1, <1>8, LimitsAssumption DEF IInv, Impatient, TwoListsSuffice, TypeOK,
    Calls, Cancel, Idle, Unsubscribed, state, runtime
<1>9. ASSUME NEW c \in Callers, BackOff(c) PROVE TwoListsSuffice'
    <2>1. CASE current.error
        BY <1>1, <1>9, <2>1, LimitsAssumption DEF IInv, Impatient, TwoListsSuffice,
        TypeOK, Calls, BacksOff, BackOff, Becomes, runtime, state
    <2>2. CASE ~(current.error)
        BY <1>1, <1>9, <2>2, LimitsAssumption DEF IInv, Impatient, TwoListsSuffice,
        TypeOK, Calls, BackOff, Panic, Idle, Unsubscribed, runtime, state
    <2> QED
        BY <2>1, <2>2
<1>10. ASSUME NEW c \in Callers, Join(c) PROVE TwoListsSuffice'
    BY <1>1, <1>10, LimitsAssumption DEF IInv, Impatient, TwoListsSuffice, TypeOK,
    Calls, Join, Subscribe, Eligible, state, runtime
<1>11. ASSUME NEW c \in Callers, Start(c) PROVE TwoListsSuffice'
    <2>1. CASE order < OrderLimit
        BY <1>1, <1>11, <2>1, LimitsAssumption DEF IInv, Impatient, TwoListsSuffice,
        TypeOK, Calls, Start, Subscribe, Spawned, runtime
    <2>2. CASE ~(order < OrderLimit)
        BY <1>1, <1>11, <2>2, LimitsAssumption DEF IInv, Impatient, TwoListsSuffice,
        TypeOK, Calls, Start, Panic, Idle, Unsubscribed, runtime
    <2> QED
        BY <2>1, <2>2
<1>12. ASSUME NEW c \in Callers, Return(c) PROVE TwoListsSuffice'
    BY <1>1, <1>12, LimitsAssumption DEF IInv, Impatient, TwoListsSuffice, TypeOK,
    Calls, Return, Unsubscribed, state, runtime
<1>13. ASSUME NEW c \in Callers, Retry(c) PROVE TwoListsSuffice'
    BY <1>1, <1>13, LimitsAssumption DEF IInv, Impatient, TwoListsSuffice, TypeOK,
    Calls, Retry, Unsubscribed, state, runtime
<1>14. ASSUME NEW l \in Leases, LeaseStep(l) PROVE TwoListsSuffice'
    BY <1>1, <1>14, LeaseFrame DEF IInv, Impatient, TwoListsSuffice, TypeOK, Calls,
    state, runtime
<1>15. CASE UNCHANGED vars
    BY <1>1, <1>15 DEF IInv, Impatient, TwoListsSuffice, TypeOK, Calls, vars
<1> QED
    BY <1>1, <1>2, <1>3, <1>4, <1>5, <1>6, <1>7, <1>8, <1>9, <1>10, <1>11, <1>12,
    <1>13, <1>14, <1>15 DEF Next, WorkerStep, CallerStep, CallerRuns, LeaseStep,
    Environment, Observes

-----------------------------------------------------------------------------
(***************************************************************************)
(* IInv is an inductive invariant.                                         *)
(***************************************************************************)

\* The initial states satisfy it.
LEMMA InvInit == Init => IInv
BY LimitsAssumption
DEF Init, IInv, TypeOK, OneListServesAll, FreshnessCoherent, LeasesCurrent, SnapshotOfOneSession,
    CausalRefresh, TwoListsSuffice, Behind, ListNotOld, ListOfSession, ListAfterMark, Marked,
    Entitled, Impatient, Idle, Unsubscribed, Unavailable, NoLease, NoRetry, Calls, Snapshots, Kinds

\* Every step preserves it.
LEMMA InvStep == IInv /\ [Next]_vars => IInv'
BY TypeStep, OneListStep, FreshnessStep, LeasesStep, SessionStep, CausalStep, TwoListsStep,
   BehindStep, ListNotOldStep, ListOfSessionStep, ListAfterMarkStep, EntitledStep, ImpatientStep
DEF IInv

\* So it always holds.
LEMMA Invariance == Spec => []IInv
BY InvInit, InvStep, PTL DEF Spec

\* The variables keep their types, whatever the limits.
THEOREM TypeCorrect == Spec => []TypeOK
BY Invariance, PTL DEF IInv

\* refresh_inner: lists never overlap, the worker finds its own in-flight state, and
\* every waiter is subscribed to the list that will answer it.
THEOREM SingleFlight == Spec => []OneListServesAll
BY Invariance, PTL DEF IInv

\* refresh_after: a success shows the state its caller made, or a later one.
THEOREM Causality == Spec => []CausalRefresh
BY Invariance, PTL DEF IInv

\* refresh_after: no request waits for a third list.
THEOREM BoundedWait == Spec => []TwoListsSuffice
BY Invariance, PTL DEF IInv

\* observe: a snapshot is never labelled with another session than its containers'.
THEOREM SessionConsistency == Spec => []SnapshotOfOneSession
BY Invariance, PTL DEF IInv

\* complete_refresh: freshness, error and back-off agree, and the expect of the back-off
\* branch cannot fail.
THEOREM Coherence == Spec => []FreshnessCoherent
BY Invariance, PTL DEF IInv

\* lease_candidate: a lease is held only on the evidence it was asked for.
THEOREM LeaseEvidence == Spec => []LeasesCurrent
BY Invariance, PTL DEF IInv

\* lease_candidate and the publication gate: neither a publication nor a failure is
\* recorded while a lease is held.
THEOREM LeaseProtection == Spec => LeaseHoldsPublication
<1> DEFINE kept == <<current, generation, failures>>
<1>1. IInv /\ [Next]_vars => [\A l \in Leases : lease[l].stage # "held"]_kept
    <2> SUFFICES ASSUME IInv, [Next]_vars, ~UNCHANGED kept
                 PROVE  \A l \in Leases : lease[l].stage # "held"
        OBVIOUS
    <2>1. \E w \in workers : Complete(w)
        <3>1. Environment => UNCHANGED kept
            BY EnvironmentFrame
        <3>2. ASSUME NEW w \in workers, Observes(w) PROVE UNCHANGED kept
            BY <3>2, ObservingFrame DEF state
        <3>3. ASSUME NEW c \in Callers, CallerStep(c) PROVE UNCHANGED kept
            BY <3>3 DEF CallerStep, CallerRuns, Request, Act, Mark, Cancel, BackOff, Join, Start,
                        Return, Retry, state
        <3>4. ASSUME NEW l \in Leases, LeaseStep(l) PROVE UNCHANGED kept
            BY <3>4, LeaseFrame DEF state
        <3>5. UNCHANGED vars => UNCHANGED kept
            BY DEF vars
        <3> QED
            BY <3>1, <3>2, <3>3, <3>4, <3>5 DEF Next, WorkerStep, LeaseStep, Environment, Observes
    <2> QED
        BY <2>1 DEF Complete, PublicationOpen
<1> QED
    BY Invariance, <1>1, PTL DEF LeaseHoldsPublication, Spec

-----------------------------------------------------------------------------
(***************************************************************************)
(* The refinement of InventoryFeed.                                        *)
(***************************************************************************)

Owed == [c \in Callers |-> call[c].acted]
Replies == [c \in Callers |-> ReplyTo(call[c])]
Shown == <<daemon, current, generation>>

\* A step that replaces one call replaces its debt and its reply.
LEMMA OneCall ==
    ASSUME IInv, NEW c \in Callers, NEW r, call' = [call EXCEPT ![c] = r]
    PROVE  /\ Owed' = [Owed EXCEPT ![c] = r.acted]
           /\ Replies' = [Replies EXCEPT ![c] = ReplyTo(r)]
BY DEF IInv, TypeOK, Owed, Replies

\* A call that ends or begins is an abstract Ask.
LEMMA NewCall ==
    ASSUME IInv, NEW c \in Callers, NEW r, call' = [call EXCEPT ![c] = r],
           r.stage # "returned",
           \/ r.acted = 0 /\ daemon' = daemon
           \/ r.acted = daemon + 1 /\ daemon' = daemon + 1,
           UNCHANGED <<current, generation>>
    PROVE  Feed!Ask(c)
<1>1. ReplyTo(r) = Feed!Unanswered
    BY DEF ReplyTo, Feed!Unanswered
<1> QED
    BY <1>1, OneCall, ZenonT(60) DEF Feed!Ask, Owed, Replies

\* A call that panics or is dropped asks for nothing any more.
LEMMA PanicIsNewCall ==
    ASSUME IInv, NEW c \in Callers, Panic(c), UNCHANGED Shown
    PROVE  Feed!Ask(c)
<1>1. Idle.stage # "returned" /\ Idle.acted = 0
    BY DEF Idle, Unsubscribed
<1> QED
    BY <1>1, NewCall DEF Panic, Shown

\* A call that goes on without returning is an abstract stutter.
LEMMA CallGoesOn ==
    ASSUME IInv, NEW c \in Callers, NEW r, call' = [call EXCEPT ![c] = r],
           r.stage # "returned", call[c].stage # "returned", r.acted = call[c].acted,
           UNCHANGED Shown
    PROVE  UNCHANGED Feed!feed
<1>1. ReplyTo(r) = ReplyTo(call[c])
    BY DEF ReplyTo
<1>2. UNCHANGED <<Owed, Replies>>
    BY <1>1, OneCall DEF Owed, Replies
<1> QED
    BY <1>2 DEF Feed!feed, Owed, Replies, Shown

\* A request that returns is an abstract Answer.
LEMMA CallReturns ==
    ASSUME IInv, NEW c \in Callers, NEW r \in Calls, call' = [call EXCEPT ![c] = r],
           r.stage = "returned", call[c].stage # "returned", r.acted = call[c].acted,
           r.ok => r.seen \in call[c].acted .. current.seen, ~r.ok => r.seen = 0,
           UNCHANGED Shown
    PROVE  Feed!Answer(c)
<1>1. Replies[c] = Feed!Unanswered
    BY DEF Replies, ReplyTo, Feed!Unanswered
<1>2. Owed' = Owed
    BY OneCall DEF Owed, IInv, TypeOK
<1>3. \/ ReplyTo(r) = Feed!Failed
      \/ \E v \in Owed[c] .. current.seen : ReplyTo(r) = Feed!Shows(v)
    BY DEF ReplyTo, Feed!Failed, Feed!Shows, Owed, Calls
<1>4. Replies' = [Replies EXCEPT ![c] = ReplyTo(r)]
    BY OneCall
<1> QED
    BY <1>1, <1>2, <1>3, <1>4 DEF Feed!Answer, Owed, Replies, Shown

\* A completion publishes, loses touch, or (at the last generation) does nothing.
LEMMA CompletionRefines ==
    ASSUME IInv, NEW w \in workers, Complete(w)
    PROVE  Feed!Publish \/ Feed!LoseTouch \/ UNCHANGED Feed!feed
<1>1. ASSUME NEW c \in Callers
      PROVE  ReplyTo(call'[c]) = ReplyTo(call[c]) /\ call'[c].acted = call[c].acted
    BY CompletionFrame DEF ReplyTo
<1>2. UNCHANGED <<daemon, Owed, Replies>>
    BY <1>1, CompletionFrame DEF Owed, Replies, runtime
<1>3. CASE Published(w) /\ Succeed(w)
    <2>1. current'.seen \in current.seen .. daemon
        BY <1>3, CompletionFrame DEF IInv, TypeOK, Snapshots, Workers
    <2> QED
        BY <1>2, <1>3, <2>1 DEF Feed!Publish, Succeed, Owed, Replies
<1>4. CASE Fail
    <2>1. /\ current'.seen = current.seen
          /\ (current'.freshness = "fresh") = FALSE
          /\ UNCHANGED generation
        BY <1>4 DEF Fail, IInv, TypeOK, Snapshots
    <2> QED
        BY <1>2, <2>1 DEF Feed!LoseTouch, Owed, Replies
<1>5. CASE UNCHANGED <<current, generation, failures, retry>>
    BY <1>2, <1>5 DEF Feed!feed, Owed, Replies
<1> QED
    BY <1>3, <1>4, <1>5 DEF Complete

\* A caller's step asks, is answered, or goes on.
LEMMA CallerRefines ==
    ASSUME IInv, NEW c \in Callers, CallerStep(c)
    PROVE  Feed!Ask(c) \/ Feed!Answer(c) \/ UNCHANGED Feed!feed
<1>0. call[c] \in Calls
    BY DEF IInv, TypeOK
<1>1. ASSUME NEW kind \in {"explicit", "automatic"}, Request(c, kind)
      PROVE  Feed!Ask(c)
    <2> DEFINE r == Unsubscribed("entering", kind, 0, 0, 0)
    <2>1. r.stage # "returned" /\ r.acted = 0
        BY DEF Unsubscribed
    <2> QED
        BY <1>1, <2>1, NewCall DEF Request, runtime, state
<1>2. CASE Act(c)
    <2> DEFINE r == Unsubscribed("acted", "after", daemon + 1, 0, 0)
    <2>1. r.stage # "returned" /\ r.acted = daemon + 1
        BY DEF Unsubscribed
    <2> QED
        BY <1>2, <2>1, NewCall DEF Act, state
<1>3. CASE Mark(c)
    <2>1. CASE order < OrderLimit
        <3> DEFINE r == [call[c] EXCEPT !.stage = "entering", !.marker = order + 1]
        <3>1. r.stage # "returned" /\ r.acted = call[c].acted /\ call' = [call EXCEPT ![c] = r]
            BY <1>0, <1>3, <2>1 DEF Mark, Calls
        <3> QED
            BY <1>3, <3>1, CallGoesOn DEF Mark, Shown, runtime, state
    <2>2. CASE ~(order < OrderLimit)
        BY <1>3, <2>2, PanicIsNewCall DEF Mark, Shown, runtime, state
    <2> QED
        BY <2>1, <2>2
<1>4. CASE Cancel(c)
    BY <1>4, PanicIsNewCall DEF Cancel, Panic, Shown, runtime, state
<1>5. CASE BackOff(c)
    <2>1. CASE current.error
        <3> DEFINE r == [call[c] EXCEPT !.stage = "returned"]
        <3>1. r \in Calls /\ r.stage = "returned" /\ r.acted = call[c].acted
            BY <1>0 DEF Calls
        <3>2. call[c].ok = FALSE /\ r.ok = FALSE /\ r.seen = 0
            BY <1>0, <1>5 DEF IInv, Entitled, BackOff, Calls
        <3> QED
            BY <1>5, <2>1, <3>1, <3>2, CallReturns DEF BackOff, Becomes, Shown, runtime, state
    <2>2. CASE ~current.error
        BY <1>5, <2>2, PanicIsNewCall DEF BackOff, Shown, runtime, state
    <2> QED
        BY <2>1, <2>2
<1>6. ASSUME NEW o, NEW eligible, Subscribe(c, o, eligible), call[c].stage = "entering",
             UNCHANGED Shown
      PROVE  UNCHANGED Feed!feed
    <2> DEFINE r == [call[c] EXCEPT !.stage = "waiting", !.order = o, !.eligible = eligible,
                                    !.lists = @ + 1]
    <2>1. r.stage # "returned" /\ r.acted = call[c].acted
        BY <1>0 DEF Calls
    <2>2. call' = [call EXCEPT ![c] = r]
        BY <1>6 DEF Subscribe
    <2> QED
        BY <1>6, <2>1, <2>2, CallGoesOn
<1>7. CASE Join(c)
    BY <1>6, <1>7 DEF Join, Shown, runtime, state
<1>8. CASE Start(c)
    <2>1. CASE order < OrderLimit
        BY <1>6, <1>8, <2>1 DEF Start, Shown, runtime
    <2>2. CASE ~(order < OrderLimit)
        BY <1>8, <2>2, PanicIsNewCall DEF Start, Shown, runtime
    <2> QED
        BY <2>1, <2>2
<1>9. CASE Return(c)
    <2> DEFINE back == Unsubscribed("returned", call[c].kind, call[c].acted, 0, 0)
               r == [back EXCEPT !.ok = call[c].ok, !.seen = call[c].seen]
    <2>1. back \in Calls /\ back.stage = "returned" /\ back.acted = call[c].acted
        <3>1. call[c].kind \in Kinds /\ call[c].acted \in 0 .. MaxVersion /\ 0 \in 0 .. OrderLimit
            BY <1>0, LimitsAssumption DEF Calls
        <3>2. back \in Calls
            BY <3>1, IsCall
        <3> QED
            BY <3>2 DEF Unsubscribed
    <2>2. /\ r \in Calls /\ r.stage = "returned" /\ r.acted = call[c].acted
          /\ r.ok = call[c].ok /\ r.seen = call[c].seen
        <3> HIDE DEF back
        <3> QED
            BY <1>0, <2>1 DEF Calls
    <2>3. /\ call[c].ok => call[c].seen \in call[c].acted .. current.seen
          /\ ~call[c].ok => call[c].seen = 0
        BY <1>0, <1>9, LimitsAssumption DEF IInv, Entitled, TypeOK, Return, Calls, Snapshots, Kinds
    <2>4. call' = [call EXCEPT ![c] = r]
        BY <1>9 DEF Return
    <2> HIDE DEF r
    <2> QED
        BY <1>9, <2>2, <2>3, <2>4, CallReturns DEF Return, Shown, runtime, state
<1>10. CASE Retry(c)
    <2> DEFINE r == Unsubscribed("entering", call[c].kind, call[c].acted, call[c].marker,
                                 call[c].lists)
    <2>1. r.stage # "returned" /\ r.acted = call[c].acted
        BY DEF Unsubscribed
    <2>2. call' = [call EXCEPT ![c] = r] /\ call[c].stage # "returned"
        BY <1>10 DEF Retry
    <2> HIDE DEF r
    <2> QED
        BY <1>10, <2>1, <2>2, CallGoesOn DEF Retry, Shown, runtime, state
<1> QED
    BY <1>1, <1>2, <1>3, <1>4, <1>5, <1>7, <1>8, <1>9, <1>10 DEF CallerStep, CallerRuns

\* What the coordinator does is what InventoryFeed allows: no version is taken back, the
\* generation grows with each publication, and no reply hides its caller's own change.
THEOREM Refinement == Spec => ImplementsFeed
<1>1. Init => Feed!Init
    <2> SUFFICES ASSUME Init PROVE Feed!Init
        OBVIOUS
    <2>1. ASSUME NEW c \in Callers
          PROVE  call[c].acted = 0 /\ ReplyTo(call[c]) = Feed!Unanswered
        BY DEF Init, Idle, Unsubscribed, ReplyTo, Feed!Unanswered
    <2> QED
        BY <2>1 DEF Init, Unavailable, Feed!Init
<1>2. IInv /\ [Next]_vars => [Feed!Next]_(Feed!feed)
    <2> SUFFICES ASSUME IInv, [Next]_vars PROVE Feed!Next \/ UNCHANGED Feed!feed
        OBVIOUS
    <2>1. CASE Environment
        <3>1. UNCHANGED <<current, generation, call>>
            BY <2>1, EnvironmentFrame
        <3>2. daemon' = daemon \/ Change
            BY <2>1 DEF Environment, Connect, Disconnect, Tick, runtime
        <3> QED
            BY <3>1, <3>2 DEF Change, Feed!Next, Feed!Change, Feed!feed
    <2>2. ASSUME NEW w \in workers, Observes(w) PROVE UNCHANGED Feed!feed
        <3>1. UNCHANGED <<daemon, current, generation, call>>
            BY <2>2, ObservingFrame DEF runtime, state
        <3> QED
            BY <3>1 DEF Feed!feed
    <2>3. ASSUME NEW w \in workers, Complete(w) PROVE Feed!Next \/ UNCHANGED Feed!feed
        BY <2>3, CompletionRefines DEF Feed!Next
    <2>4. ASSUME NEW c \in Callers, CallerStep(c) PROVE Feed!Next \/ UNCHANGED Feed!feed
        BY <2>4, CallerRefines DEF Feed!Next
    <2>5. ASSUME NEW l \in Leases, LeaseStep(l) PROVE UNCHANGED Feed!feed
        <3>1. UNCHANGED <<daemon, current, generation, call>>
            BY <2>5, LeaseFrame DEF runtime, state
        <3> QED
            BY <3>1 DEF Feed!feed
    <2>6. CASE UNCHANGED vars
        BY <2>6 DEF vars, Feed!feed
    <2> QED
        BY <2>1, <2>2, <2>3, <2>4, <2>5, <2>6 DEF Next, WorkerStep, LeaseStep, Environment, Observes
<1> QED
    BY Invariance, <1>1, <1>2, PTL DEF Spec, ImplementsFeed, Feed!Spec

=============================================================================
