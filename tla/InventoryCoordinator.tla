------------------------- MODULE InventoryCoordinator -------------------------
(***************************************************************************)
(* InventoryCoordinator, crates/colui-adapters/src/inventory.rs.           *)
(*                                                                         *)
(* Callers ask for the container inventory; one spawned worker at a time   *)
(* lists Docker's containers through the runtime session and publishes a   *)
(* snapshot.  Callers that find a list in flight join it, except that one  *)
(* which changed Docker itself waits for a list started after its change.  *)
(* Discovery takes leases that hold publication back.                      *)
(*                                                                         *)
(* An action is what one task does under the state mutex or between two    *)
(* awaits.  A Docker state is its version, the number of changes so far,   *)
(* and a snapshot carries the version it was listed at.                    *)
(***************************************************************************)
EXTENDS Naturals

CONSTANTS Callers, Leases,
          OrderLimit,        \* observation_order cannot pass it (2^64 - 1 in the code)
          GenerationLimit,   \* neither can the generation (2^64 - 1)
          FailureLimit,      \* failures saturates here (2^32 - 1)
          MaxVersion,        \* bound: changes of Docker's state
          MaxSession         \* bound: runtime sessions

ASSUME LimitsAssumption ==
    /\ OrderLimit \in Nat
    /\ GenerationLimit \in Nat
    /\ FailureLimit \in Nat \ {0}
    /\ MaxVersion \in Nat
    /\ MaxSession \in Nat

VARIABLES
    daemon,        \* version of Docker's state
    session,       \* the gateway's session: 0 is none, each new one has a new id
    sessions,      \* sessions established so far
    order,         \* observation_order
    current,       \* State.current
    generation,    \* State.generation
    inFlight,      \* State.in_flight: its start_order, or 0
    failures,      \* State.failures
    retry,         \* State.retry_at, as the seconds left until it
    workers,       \* the spawned refresh tasks
    call,          \* what each caller does
    lease          \* what each user of lease_candidate does

runtime == <<daemon, session, sessions>>
state == <<current, generation, inFlight, failures, retry>>
vars == <<daemon, session, sessions, order, current, generation, inFlight,
          failures, retry, workers, call, lease>>

(***************************************************************************)
(* A caller's request is                                                   *)
(*   explicit   refresh                                                    *)
(*   automatic  refresh_automatic, refused during back-off                 *)
(*   after      observation_marker and refresh_after, once it has changed  *)
(*              Docker's state (lifecycle and container operations)        *)
(* and goes through the stages                                             *)
(*   acted      Docker acknowledged its change, the marker is not taken    *)
(*   entering   about to lock the state                                    *)
(*   waiting    subscribed to the list with number `order`                 *)
(*   answered   that list completed; the caller has not run yet            *)
(*   returned   the request is over (idle: there was none, or it panicked) *)
(***************************************************************************)
Kinds == {"explicit", "automatic", "after"}
\* A call that is neither subscribed to a list nor answered.
Unsubscribed(stage, kind, acted, marker, lists) ==
    [stage |-> stage, kind |-> kind, acted |-> acted, marker |-> marker, order |-> 0,
     eligible |-> FALSE, lists |-> lists, ok |-> FALSE, seen |-> 0]
Idle == Unsubscribed("idle", "explicit", 0, 0, 0)
Calls == [stage : {"idle", "acted", "entering", "waiting", "answered", "returned"},
          kind : Kinds,
          acted : 0 .. MaxVersion,       \* the version its own change made
          marker : 0 .. OrderLimit,
          order : 0 .. OrderLimit,
          eligible : BOOLEAN,
          lists : Nat,                   \* lists it has waited for
          ok : BOOLEAN,                  \* the answer: success, ...
          seen : 0 .. MaxVersion]        \* ... and the version it shows

(* A worker has read the context (captured), the list (listed), and the    *)
(* context again; then it queues for the publication gate (publishing).    *)
Workers == [order : 1 .. OrderLimit,
            stage : {"started", "captured", "listed", "publishing"},
            captured : 0 .. MaxSession,  \* session of the first context
            listed : 0 .. MaxSession,    \* session whose client listed
            seen : 0 .. MaxVersion,
            ok : BOOLEAN]

\* RuntimeInventory::unavailable()
Unavailable == [generation |-> 0, freshness |-> "unavailable", error |-> FALSE,
                session |-> 0, listed |-> 0, seen |-> 0]
Snapshots == [generation : 0 .. GenerationLimit,
              freshness : {"fresh", "stale", "unavailable"},
              error : BOOLEAN,
              session : 0 .. MaxSession,   \* runtime_session_id
              listed : 0 .. MaxSession,    \* where its containers come from
              seen : 0 .. MaxVersion]

NoLease == [stage |-> "idle", session |-> 0, generation |-> 0]
NoRetry == [armed |-> FALSE, left |-> 0]

TypeOK ==
    /\ daemon \in 0 .. MaxVersion
    /\ session \in 0 .. MaxSession
    /\ sessions \in 0 .. MaxSession
    /\ order \in 0 .. OrderLimit
    /\ current \in Snapshots
    /\ generation \in 0 .. GenerationLimit
    /\ inFlight \in 0 .. OrderLimit
    /\ failures \in 0 .. FailureLimit
    /\ retry \in [armed : BOOLEAN, left : 0 .. 10]
    /\ workers \in SUBSET Workers
    /\ call \in [Callers -> Calls]
    /\ lease \in [Leases -> [stage : {"idle", "asked", "gated", "held"},
                             session : 0 .. MaxSession,
                             generation : 0 .. GenerationLimit]]

Init ==
    /\ daemon = 0
    /\ session = 0
    /\ sessions = 0
    /\ order = 0
    /\ current = Unavailable
    /\ generation = 0
    /\ inFlight = 0
    /\ failures = 0
    /\ retry = NoRetry
    /\ workers = {}
    /\ call = [c \in Callers |-> Idle]
    /\ lease = [l \in Leases |-> NoLease]

(***************************************************************************)
(* Next to an operator stands, where a property is about it, a faulty      *)
(* variant of it that a slip in the code could produce; no action uses it. *)
(***************************************************************************)

-----------------------------------------------------------------------------
(* Docker and the runtime gateway.                                         *)

Change ==
    /\ daemon < MaxVersion
    /\ daemon' = daemon + 1
    /\ UNCHANGED <<session, sessions, order, state, workers, call, lease>>

Connect ==
    /\ session = 0
    /\ sessions < MaxSession
    /\ session' = sessions + 1
    /\ sessions' = sessions + 1
    /\ UNCHANGED <<daemon, order, state, workers, call, lease>>

Disconnect ==
    /\ session # 0
    /\ session' = 0
    /\ UNCHANGED <<daemon, sessions, order, state, workers, call, lease>>

-----------------------------------------------------------------------------
(* Requests.                                                               *)

Becomes(c, stage) == call' = [call EXCEPT ![c].stage = stage]
Panic(c) == call' = [call EXCEPT ![c] = Idle]

Request(c, kind) ==
    /\ call[c].stage \in {"idle", "returned"}
    /\ call' = [call EXCEPT ![c] = Unsubscribed("entering", kind, 0, 0, 0)]
    /\ UNCHANGED <<runtime, order, state, workers, lease>>

\* Docker acknowledges the caller's lifecycle or container operation.
Act(c) ==
    /\ call[c].stage \in {"idle", "returned"}
    /\ daemon < MaxVersion
    /\ daemon' = daemon + 1
    /\ call' = [call EXCEPT ![c] = Unsubscribed("acted", "after", daemon + 1, 0, 0)]
    /\ UNCHANGED <<session, sessions, order, state, workers, lease>>

\* observation_marker; it panics when the order is exhausted.
Mark(c) ==
    /\ call[c].stage = "acted"
    /\ IF order < OrderLimit
       THEN /\ order' = order + 1
            /\ call' = [call EXCEPT ![c].stage = "entering", ![c].marker = order + 1]
       ELSE Panic(c) /\ UNCHANGED order
    /\ UNCHANGED <<runtime, state, workers, lease>>

BacksOff(c) == call[c].kind = "automatic" /\ retry.armed /\ retry.left > 0

\* Answers with the error that current retains.
BackOff(c) ==
    /\ call[c].stage = "entering"
    /\ BacksOff(c)
    /\ IF current.error THEN Becomes(c, "returned") ELSE Panic(c)
    /\ UNCHANGED <<runtime, order, state, workers, lease>>

EligibleAnyway(c) == TRUE
\* The list in flight started after the caller's marker, if it has one.
Eligible(c) == call[c].kind # "after" \/ inFlight > call[c].marker

Subscribe(c, o, eligible) ==
    call' = [call EXCEPT ![c].stage = "waiting", ![c].order = o,
                         ![c].eligible = eligible, ![c].lists = @ + 1]

Join(c) ==
    /\ call[c].stage = "entering"
    /\ ~BacksOff(c)
    /\ inFlight # 0
    /\ Subscribe(c, inFlight, Eligible(c))
    /\ UNCHANGED <<runtime, order, state, workers, lease>>

\* A worker as it is spawned.
Spawned(o) == [order |-> o, stage |-> "started", captured |-> 0, listed |-> 0,
               seen |-> 0, ok |-> FALSE]

StartBeside(c) ==
    /\ call[c].stage = "entering" /\ ~BacksOff(c) /\ order < OrderLimit
    /\ order' = order + 1 /\ inFlight' = order + 1
    /\ workers' = workers \cup {Spawned(order + 1)} /\ Subscribe(c, order + 1, TRUE)
    /\ UNCHANGED <<runtime, current, generation, failures, retry, lease>>

Start(c) ==
    /\ call[c].stage = "entering"
    /\ ~BacksOff(c)
    /\ inFlight = 0
    /\ IF order < OrderLimit
       THEN /\ order' = order + 1
            /\ inFlight' = order + 1
            /\ workers' = workers \cup {Spawned(order + 1)}
            /\ Subscribe(c, order + 1, TRUE)
       ELSE Panic(c) /\ UNCHANGED <<order, inFlight, workers>>
    /\ UNCHANGED <<runtime, current, generation, failures, retry, lease>>

Return(c) ==
    /\ call[c].stage = "answered"
    /\ call[c].eligible
    /\ call' = [call EXCEPT ![c] = [Unsubscribed("returned", call[c].kind, call[c].acted, 0, 0)
                                    EXCEPT !.ok = call[c].ok, !.seen = call[c].seen]]
    /\ UNCHANGED <<runtime, order, state, workers, lease>>

\* The result of an older list cannot satisfy a causal refresh.
Retry(c) ==
    /\ call[c].stage = "answered"
    /\ ~call[c].eligible
    /\ call' = [call EXCEPT ![c] = Unsubscribed("entering", call[c].kind, call[c].acted,
                                                 call[c].marker, call[c].lists)]
    /\ UNCHANGED <<runtime, order, state, workers, lease>>

\* The caller's future is dropped; the worker it may have spawned goes on.
Cancel(c) ==
    /\ call[c].stage \in {"acted", "entering", "waiting", "answered"}
    /\ call' = [call EXCEPT ![c] = Idle]
    /\ UNCHANGED <<runtime, order, state, workers, lease>>

-----------------------------------------------------------------------------
(* The worker: observe, then complete_refresh.                             *)

Step(w, next) == /\ workers' = (workers \ {w}) \cup {next}
                 /\ UNCHANGED <<runtime, order, state, call, lease>>
Fails(w) == Step(w, [w EXCEPT !.stage = "publishing", !.ok = FALSE])

Capture(w) ==
    /\ w.stage = "started"
    /\ session # 0
    /\ Step(w, [w EXCEPT !.stage = "captured", !.captured = session])

\* The gateway lists with the client of its session of that moment.
List(w) ==
    /\ w.stage = "captured"
    /\ session # 0
    /\ Step(w, [w EXCEPT !.stage = "listed", !.listed = session, !.seen = daemon])

\* There is no session, or Docker does not answer the list.
ObservationFails(w) ==
    \/ w.stage \in {"started", "listed"} /\ session = 0 /\ Fails(w)
    \/ w.stage = "captured" /\ Fails(w)

RecheckNothing(w) == w.stage = "listed" /\ Step(w, [w EXCEPT !.stage = "publishing", !.ok = TRUE])

\* list_containers compares the gateway's generation and observe the session;
\* session ids are never reused, so comparing the session here does both.
Recheck(w) ==
    /\ w.stage = "listed"
    /\ session # 0
    /\ Step(w, [w EXCEPT !.stage = "publishing", !.ok = (w.captured = session)])

Delay(n) == CASE n = 1 -> 1 [] n = 2 -> 2 [] n = 3 -> 4 [] n = 4 -> 8 [] OTHER -> 10

SucceedArmed(w) ==
    /\ generation' = generation + 1
    /\ current' = [generation |-> generation + 1, freshness |-> "fresh", error |-> FALSE,
                   session |-> w.captured, listed |-> w.listed, seen |-> w.seen]
    /\ failures' = 0 /\ UNCHANGED retry

\* The Ok arm of complete_refresh, while the generation lasts.
Succeed(w) ==
    /\ generation' = generation + 1
    /\ current' = [generation |-> generation + 1, freshness |-> "fresh", error |-> FALSE,
                   session |-> w.captured, listed |-> w.listed, seen |-> w.seen]
    /\ failures' = 0
    /\ retry' = NoRetry

FailEmpty ==
    /\ failures' = (IF failures < FailureLimit THEN failures + 1 ELSE failures)
    /\ retry' = [armed |-> TRUE, left |-> Delay(failures')]
    /\ current' = [Unavailable EXCEPT !.error = TRUE] /\ UNCHANGED generation

\* The Err arm: the snapshot is retained, no longer fresh.
Fail ==
    /\ failures' = IF failures < FailureLimit THEN failures + 1 ELSE failures
    /\ retry' = [armed |-> TRUE, left |-> Delay(failures')]
    /\ current' = [current EXCEPT !.error = TRUE,
                                  !.freshness = IF current.generation > 0 THEN "stale"
                                                ELSE "unavailable"]
    /\ UNCHANGED generation

PublicationOpenAnyway == TRUE
\* publication_gate can be write-locked.
PublicationOpen == \A l \in Leases : lease[l].stage \notin {"gated", "held"}

\* The generation is exhausted: an error, and nothing changes.
Published(w) == w.ok /\ generation < GenerationLimit

AnswerNobody(w) == UNCHANGED call
\* The result is sent to whoever subscribed to this list.
AnswerWaiters(w) ==
    call' = [c \in Callers |->
                IF call[c].stage = "waiting" /\ call[c].order = w.order
                THEN [call[c] EXCEPT !.stage = "answered", !.ok = Published(w),
                                     !.seen = IF Published(w) THEN w.seen ELSE 0]
                ELSE call[c]]

Complete(w) ==
    /\ w.stage = "publishing"
    /\ PublicationOpen
    /\ \/ Published(w) /\ Succeed(w)
       \/ w.ok /\ ~Published(w) /\ UNCHANGED <<current, generation, failures, retry>>
       \/ ~w.ok /\ Fail
    /\ inFlight' = 0
    /\ workers' = workers \ {w}
    /\ AnswerWaiters(w)
    /\ UNCHANGED <<runtime, order, lease>>

-----------------------------------------------------------------------------
(* lease_candidate, and the clock.                                         *)

\* A candidate is asked for with the evidence some published snapshot gave.
AskLease(l) ==
    /\ lease[l].stage = "idle"
    /\ current.generation > 0
    /\ lease' = [lease EXCEPT ![l] = [stage |-> "asked", session |-> current.session,
                                      generation |-> current.generation]]
    /\ UNCHANGED <<runtime, order, state, workers, call>>

\* The gate is fair: readers queue behind a worker that waits to write.
EnterGate(l) ==
    /\ lease[l].stage = "asked"
    /\ \A w \in workers : w.stage # "publishing"
    /\ lease' = [lease EXCEPT ![l].stage = "gated"]
    /\ UNCHANGED <<runtime, order, state, workers, call>>

StillCurrentAnyway(l) == TRUE
StillCurrent(l) == /\ current.session = lease[l].session
                   /\ current.generation = lease[l].generation

CheckLease(l) ==
    /\ lease[l].stage = "gated"
    /\ lease' = [lease EXCEPT ![l] = IF StillCurrent(l)
                                     THEN [lease[l] EXCEPT !.stage = "held"] ELSE NoLease]
    /\ UNCHANGED <<runtime, order, state, workers, call>>

DropLease(l) ==
    /\ lease[l].stage = "held"
    /\ lease' = [lease EXCEPT ![l] = NoLease]
    /\ UNCHANGED <<runtime, order, state, workers, call>>

Tick ==
    /\ retry.left > 0
    /\ retry' = [retry EXCEPT !.left = @ - 1]
    /\ UNCHANGED <<runtime, order, current, generation, inFlight, failures, workers, call, lease>>

-----------------------------------------------------------------------------
WorkerStep == \E w \in workers : Capture(w) \/ List(w) \/ ObservationFails(w)
                                    \/ Recheck(w) \/ Complete(w)
CallerRuns(c) == BackOff(c) \/ Join(c) \/ Start(c) \/ Return(c) \/ Retry(c)
CallerStep(c) == \/ \E kind \in {"explicit", "automatic"} : Request(c, kind)
                 \/ Act(c) \/ Mark(c) \/ Cancel(c) \/ CallerRuns(c)
LeaseRuns(l) == EnterGate(l) \/ CheckLease(l) \/ DropLease(l)

Next == \/ Change \/ Connect \/ Disconnect \/ Tick
        \/ WorkerStep
        \/ \E c \in Callers : CallerStep(c)
        \/ \E l \in Leases : AskLease(l) \/ LeaseRuns(l)

Spec == Init /\ [][Next]_vars

(***************************************************************************)
(* tokio runs every runnable task; Docker answers a list or fails it       *)
(* (there is no timeout of colui's own around it); a lease is dropped at   *)
(* the end of the registration it protects.                                *)
(***************************************************************************)
Fairness == /\ WF_vars(WorkerStep)
            /\ \A c \in Callers : WF_vars(CallerRuns(c))
            /\ \A l \in Leases : WF_vars(LeaseRuns(l))

FairSpec == Spec /\ Fairness

-----------------------------------------------------------------------------
(* Properties.                                                             *)

\* At most one list is in flight, it is the one State.in_flight names (so the
\* worker's expect in refresh_inner holds), and everyone who waits has
\* subscribed to it.
OneListServesAll ==
    /\ workers = {} <=> inFlight = 0
    /\ \A v, w \in workers : v = w
    /\ \A w \in workers : w.order = inFlight
    /\ \A c \in Callers : call[c].stage = "waiting" => call[c].order = inFlight

\* A caller that changed Docker and whose refresh_after succeeds gets a snapshot
\* listed after its change, whatever it joined and however late it ran.
CausalRefresh ==
    \A c \in Callers :
        call[c].kind = "after" /\ call[c].stage = "returned" /\ call[c].ok
            => call[c].seen >= call[c].acted

\* refresh_after waits for one older list at most, then for its own or one that
\* another caller started after its marker.
TwoListsSuffice == \A c \in Callers : call[c].lists <= 2

\* The runtime_session_id of a snapshot is the session its containers were
\* listed in, over disconnects and reconnects between the three reads of observe.
SnapshotOfOneSession == current.session = current.listed

\* Back-off, error and freshness agree: an automatic refresh that is refused finds
\* the error it returns (the expect in refresh_inner), and only a snapshot that
\* no failure followed is fresh.
FreshnessCoherent ==
    /\ retry.armed <=> failures > 0
    /\ retry.armed => current.error
    /\ current.freshness = "fresh" <=> current.generation > 0 /\ ~current.error
    /\ current.freshness = "unavailable" <=> current.generation = 0
    /\ current.generation = generation

\* A candidate lease is held only on the evidence it was asked for ...
LeasesCurrent ==
    \A l \in Leases : lease[l].stage = "held" =>
        current.session = lease[l].session /\ current.generation = lease[l].generation

\* ... and while one is held, nothing is published and no failure is recorded.
LeaseHoldsPublication ==
    [][\A l \in Leases : lease[l].stage # "held"]_<<current, generation, failures>>

\* Every request that reached the coordinator ends: with a result, with the
\* back-off error, or as its caller drops it; none waits for ever.
EveryoneAnswered ==
    \A c \in Callers : []<>(call[c].stage \notin {"entering", "waiting", "answered"})

(***************************************************************************)
(* The coordinator implements InventoryFeed: an after-request owes its     *)
(* caller the version it made, and a returned request is a reply.          *)
(***************************************************************************)
ReplyTo(r) ==
    [kind |-> IF r.stage # "returned" THEN "unanswered"
              ELSE IF r.ok THEN "inventory" ELSE "failed",
     version |-> IF r.stage = "returned" THEN r.seen ELSE 0]

Feed == INSTANCE InventoryFeed
            WITH shown <- current.seen,
                 fresh <- (current.freshness = "fresh"),
                 owed <- [c \in Callers |-> call[c].acted],
                 reply <- [c \in Callers |-> ReplyTo(call[c])]

ImplementsFeed == Feed!Spec
=============================================================================
