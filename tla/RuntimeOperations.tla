-------------------------- MODULE RuntimeOperations --------------------------
(***************************************************************************)
(* The operations of a window on containers and profiles, and what they    *)
(* are composed of: RunContainerAction, ReadContainerLogs and              *)
(* OpenContainerPort (crates/colui-app/src/containers.rs), the lifecycle   *)
(* use cases (crates/colui-app/src/lifecycle.rs), and the gateway's        *)
(* run_container, read_logs and run_profile                                *)
(* (crates/colui-adapters/src/runtime/gateway.rs).                         *)
(*                                                                         *)
(* The window names a session and a container it was shown.  By the time   *)
(* an operation runs, the session may be over, Docker may have changed and *)
(* the inventory may be about an earlier state of either; all of this goes *)
(* on between any two awaits.  Docker's state is counted in versions.      *)
(*                                                                         *)
(* The session is what RuntimeSession says of it, the inventory what       *)
(* InventoryFeed does: a list at a time, of one session, published late or *)
(* not at all; leases are exclusive (OperationExclusion); a run of Compose *)
(* holds the gate, ends by itself or at its deadline (ComposeProcess); a   *)
(* stream of logs is read by LogStream.                                    *)
(***************************************************************************)
EXTENDS LogStream

CONSTANTS Tasks,           \* a task is one operation
          Container, Profile, Nobody,
          Wires,           \* what Docker may send as logs: [multiplexed, bytes]
          MaxSession,      \* bound: sessions
          MaxVersion,      \* bound: changes of Docker
          OrderLimit       \* bound: markers and lists

ASSUME LimitsAssumption == {MaxSession, MaxVersion, OrderLimit} \subseteq Nat
ASSUME SubjectsAssumption == Nobody \notin Tasks /\ Container # Profile

VARIABLES
    client,        \* session of the gateway's client, or 0
    ready,         \* the published state is Ready: Compose may run
    sessions,      \* sessions so far
    daemon,        \* Docker: its version, and whether the container is there
    order,         \* next_order of the inventory: markers and lists
    list,          \* the list in flight
    current,       \* State.current of the inventory
    holder,        \* who holds the lease of the container and of the profile
    gate,          \* who holds the Compose gate
    task

runtime == <<client, ready, sessions, daemon>>
inventory == <<order, list, current>>
leases == <<holder, gate>>
vars == <<runtime, inventory, leases, task>>

-----------------------------------------------------------------------------
(* State.                                                                  *)

\* RuntimeInventory: what it says of itself, and what it was listed from.
Unavailable == [freshness |-> "unavailable", session |-> 0, seen |-> 0, contains |-> FALSE]
NoList == [order |-> 0, session |-> 0, observed |-> FALSE, seen |-> 0, contains |-> FALSE]

Kinds == {"action", "lifecycle", "logs", "port"}
Subject(kind) == IF kind = "lifecycle" THEN Profile ELSE Container

(***************************************************************************)
(* A task has a stage, which is where it goes on after its last await:     *)
(*   asking      about to check the session or to take the profile's lease *)
(*   checked     the session was the expected one                          *)
(*   holding     ... and it holds the lease of its container or profile    *)
(*   looked      the inventory showed the container                        *)
(*   rechecked   about to ask the gateway                                  *)
(*   sent        Docker has the request, or Compose runs                   *)
(*   performed   ... and the change is made                                *)
(*   marked      acknowledged; it has a marker and wants a later list      *)
(*   waiting     subscribed to such a list                                 *)
(*   failed      that list failed; about to read the inventory that is     *)
(*   shown       it has an inventory                                       *)
(*   reading     the stream of logs                                        *)
(*   read        the stream ended; the gateway is about to check           *)
(*   verified    ... and the use case                                      *)
(*   done        its answer is there (idle: there was no task)             *)
(* `effect` is history: the version that its own change made.              *)
(***************************************************************************)
Idle == [stage |-> "idle", kind |-> "port", expected |-> 0, client |-> 0, effect |-> 0,
         marker |-> 0, answer |-> "none", inventory |-> Unavailable,
         wire |-> <<>>, reader |-> Reader(FALSE)]

Init ==
    /\ client = 0 /\ ready = FALSE /\ sessions = 0
    /\ daemon = [version |-> 0, present |-> TRUE]
    /\ order = 0 /\ list = NoList /\ current = Unavailable
    /\ holder = [s \in {Container, Profile} |-> Nobody]
    /\ gate = Nobody
    /\ task = [t \in Tasks |-> Idle]

(***************************************************************************)
(* Next to an operator stands, where a property is about it, a faulty      *)
(* variant of it that a slip in the code could produce; no action uses it. *)
(***************************************************************************)

-----------------------------------------------------------------------------
(* The environment: sessions, Docker and the inventory.                    *)

\* A transition publishes: the session ends, another takes its place or not.
\* Compose may be running: owners publish after they have left the gate.
Transition ==
    /\ \/ client' = 0 /\ client # 0 /\ ready' = FALSE /\ sessions' = sessions
       \/ /\ sessions < MaxSession
          /\ sessions' = sessions + 1
          /\ client' = sessions + 1
          /\ ready' \in BOOLEAN
    /\ UNCHANGED <<daemon, inventory, leases, task>>

\* Somebody else changes Docker.
Change ==
    /\ daemon.version < MaxVersion
    /\ \E present \in BOOLEAN : daemon' = [version |-> daemon.version + 1, present |-> present]
    /\ UNCHANGED <<client, ready, sessions, inventory, leases, task>>

\* A list starts, for a task or for a window, if none is in flight.
StartList ==
    /\ list = NoList
    /\ order < OrderLimit
    /\ order' = order + 1
    /\ list' = [NoList EXCEPT !.order = order + 1]
    /\ UNCHANGED <<runtime, current, leases, task>>

\* It has read the session, the containers, and the same session again: they are
\* the containers of some moment in that session.
Observe ==
    /\ list # NoList
    /\ ~list.observed
    /\ client # 0
    /\ list' = [list EXCEPT !.observed = TRUE, !.session = client,
                            !.seen = daemon.version, !.contains = daemon.present]
    /\ UNCHANGED <<runtime, order, current, leases, task>>

\* complete_refresh; whoever is subscribed to the list has its answer.
Complete(published, stage) ==
    /\ list' = NoList
    /\ current' = published
    /\ task' = [t \in Tasks |-> IF task[t].stage = "waiting"
                                THEN [task[t] EXCEPT !.stage = stage, !.inventory = published]
                                ELSE task[t]]
    /\ UNCHANGED <<runtime, order, leases>>

Publish ==
    /\ list.observed
    /\ Complete([freshness |-> "fresh", session |-> list.session, seen |-> list.seen,
                 contains |-> list.contains], "shown")

\* The list failed, or its session did not last: what was published is stale.
LoseTouch ==
    /\ list # NoList
    /\ ~list.observed
    /\ Complete(IF current = Unavailable THEN current ELSE [current EXCEPT !.freshness = "stale"],
                "failed")

-----------------------------------------------------------------------------
(* Every operation.                                                        *)

At(t, kind, stage) == task[t].kind = kind /\ task[t].stage = stage

\* Only the task's own record changes.
Goes(t, record) ==
    /\ task' = [task EXCEPT ![t] = record]
    /\ UNCHANGED <<runtime, inventory, leases>>
Moves(t, stage) == Goes(t, [task[t] EXCEPT !.stage = stage])

\* The answer; what the task held is dropped.
Ends(t, answer) ==
    /\ task' = [task EXCEPT ![t] = [Idle EXCEPT !.stage = "done", !.answer = answer]]
    /\ holder' = [s \in DOMAIN holder |-> IF holder[s] = t THEN Nobody ELSE holder[s]]
    /\ gate' = IF gate = t THEN Nobody ELSE gate
    /\ UNCHANGED <<runtime, inventory>>

\* A step with a condition: the task goes on, or it ends with an error.
Needs(t, condition, stage) == IF condition THEN Moves(t, stage) ELSE Ends(t, "error")

\* A window asks, for a session that it was shown.
Request(t) ==
    /\ task[t].stage = "idle"
    /\ \E kind \in Kinds :
         \E expected \in IF kind = "lifecycle" THEN {0} ELSE 1 .. sessions :
            Goes(t, [Idle EXCEPT !.stage = "asking", !.kind = kind, !.expected = expected])

\* check_session, check_read_session: api_read_context has the expected session.
SessionHolds(t) == client # 0 /\ client = task[t].expected

Check(t) ==
    /\ task[t].stage = "asking"
    /\ task[t].kind # "lifecycle"
    /\ Needs(t, SessionHolds(t), "checked")

\* acquire_container, acquire_lifecycle.
Acquire(t) ==
    /\ At(t, "action", "checked") \/ At(t, "lifecycle", "asking")
    /\ LET subject == Subject(task[t].kind)
       IN IF holder[subject] = Nobody
          THEN /\ holder' = [holder EXCEPT ![subject] = t]
               /\ task' = [task EXCEPT ![t].stage = "holding"]
               /\ UNCHANGED <<runtime, inventory, gate>>
          ELSE Ends(t, "error")

\* A fresh observation of the expected session shows the container.
Shows(t) ==
    /\ current.freshness = "fresh"
    /\ current.session = task[t].expected
    /\ current.contains

Look(t) ==
    /\ At(t, "action", "holding") \/ At(t, "logs", "checked") \/ At(t, "port", "checked")
    /\ Needs(t, Shows(t), "looked")

\* OpenContainerPort opens the browser in the same breath; it fails if there is no
\* such port, if a browser cannot open it, or if the browser does not.
Recheck(t) ==
    /\ task[t].stage = "looked"
    /\ IF SessionHolds(t) /\ task[t].kind = "port"
       THEN Ends(t, "ok") \/ Ends(t, "error")
       ELSE Needs(t, SessionHolds(t), "rechecked")

-----------------------------------------------------------------------------
(* Operations that change Docker.                                          *)

\* Faulty: run_container takes the client that is there.
HasAnyClient(t) == client # 0
\* run_container and read_logs take the client of the expected session only.
HasClient(t) == client # 0 /\ client = task[t].expected

Send(t) ==
    /\ At(t, "action", "rechecked")
    /\ IF HasClient(t)
       THEN Goes(t, [task[t] EXCEPT !.stage = "sent", !.client = client])
       ELSE Ends(t, "error")

\* load_canonical finds no such profile.
ProfileGone(t) ==
    /\ At(t, "lifecycle", "holding")
    /\ Ends(t, "error")

\* invoke_loaded_profile: the gate, then the state that is published.
Invoke(t) ==
    /\ At(t, "lifecycle", "holding")
    /\ gate = Nobody
    /\ IF ready
       THEN /\ gate' = t
            /\ task' = [task EXCEPT ![t].stage = "sent"]
            /\ UNCHANGED <<runtime, inventory, holder>>
       ELSE Ends(t, "error")

\* Docker carries it out; there may be nothing to change.
Perform(t) ==
    /\ task[t].stage = "sent"
    /\ \E version \in {daemon.version, daemon.version + 1} \cap 0 .. MaxVersion :
         /\ daemon' = [daemon EXCEPT !.version = version]
         /\ task' = [task EXCEPT ![t].stage = "performed", ![t].effect = version]
    /\ UNCHANGED <<client, ready, sessions, inventory, leases>>

\* Docker or Compose reports an error, its answer is lost, or the deadline passes,
\* whether the change was made or not.
Fail(t) ==
    /\ task[t].stage \in {"sent", "performed"}
    /\ Ends(t, "error")

\* The answer arrives, the gate is left, and observation_marker is taken.
Acknowledge(t) ==
    /\ task[t].stage = "performed"
    /\ order < OrderLimit
    /\ order' = order + 1
    /\ task' = [task EXCEPT ![t].stage = "marked", ![t].marker = order + 1]
    /\ gate' = IF gate = t THEN Nobody ELSE gate
    /\ UNCHANGED <<runtime, list, current, holder>>

\* Faulty: any list will do (refresh instead of refresh_after).
SuitableAnyway(t) == list # NoList
\* refresh_after waits out a list that started before the marker.
Suitable(t) == list.order > task[t].marker

Wait(t) ==
    /\ task[t].stage = "marked"
    /\ Suitable(t)
    /\ Moves(t, "waiting")

\* The refresh failed.  A lifecycle result never calls what it finds fresh.
Retained(t) ==
    IF task[t].kind = "lifecycle" /\ current # Unavailable
    THEN [current EXCEPT !.freshness = "stale"]
    ELSE current

ReadCurrent(t) ==
    /\ task[t].stage = "failed"
    /\ Goes(t, [task[t] EXCEPT !.stage = "shown", !.inventory = Retained(t)])

\* Faulty: Docker's success is enough.
ObservationAnyway(t) == "confirmed"
\* check_session again.
Observation(t) == IF SessionHolds(t) THEN "confirmed" ELSE "indeterminate"

Conclude(t) ==
    /\ task[t].stage = "shown"
    /\ Ends(t, IF task[t].kind = "action" THEN Observation(t) ELSE "ok")

-----------------------------------------------------------------------------
(* Logs.                                                                   *)

\* The gateway takes the client and checks; Docker answers with a stream.
Open(t) ==
    /\ At(t, "logs", "rechecked")
    /\ \/ /\ HasClient(t)
          /\ \E w \in Wires :
               Goes(t, [task[t] EXCEPT !.stage = "reading", !.client = client, !.wire = w.bytes,
                                       !.reader = Reader(w.multiplexed)])
       \/ Ends(t, "error")

Transferred(t) == task[t].reader.transferred

\* A chunk of any length: the reader refuses the stream or goes on.
Chunk(t) ==
    /\ At(t, "logs", "reading")
    /\ \E to \in Transferred(t) + 1 .. Len(task[t].wire) :
         LET reader == Receive(task[t].reader, SubSeq(task[t].wire, Transferred(t) + 1, to))
         IN IF Refused(reader)
            THEN Ends(t, "error")
            ELSE Goes(t, [task[t] EXCEPT !.reader = reader])

\* The body ends, wherever that is.
EndOfBody(t) ==
    /\ At(t, "logs", "reading")
    /\ Needs(t, BetweenFrames(task[t].reader), "read")

\* The connection fails, or ten seconds have passed.
Break(t) ==
    /\ At(t, "logs", "reading")
    /\ Ends(t, "error")

\* Both read_logs and ReadContainerLogs check the session again.
Verify(t) ==
    /\ At(t, "logs", "read")
    /\ Needs(t, SessionHolds(t), "verified")

Deliver(t) ==
    /\ At(t, "logs", "verified")
    /\ Ends(t, IF SessionHolds(t) THEN "ok" ELSE "error")

-----------------------------------------------------------------------------
Operate(t) ==
    \/ Check(t) \/ Acquire(t) \/ Look(t) \/ Recheck(t)
    \/ Send(t) \/ ProfileGone(t) \/ Invoke(t) \/ Perform(t) \/ Fail(t) \/ Acknowledge(t)
    \/ Wait(t) \/ ReadCurrent(t) \/ Conclude(t)
    \/ Open(t) \/ Chunk(t) \/ EndOfBody(t) \/ Break(t) \/ Verify(t) \/ Deliver(t)

Next ==
    \/ Transition \/ Change \/ StartList \/ Observe \/ Publish \/ LoseTouch
    \/ \E t \in Tasks : Request(t) \/ Operate(t)

Spec == Init /\ [][Next]_vars

-----------------------------------------------------------------------------
(* Properties.                                                             *)

\* In this step t answers with a success: unprimed is what it had when it did.
Answers(t) == task[t].stage # "done" /\ task'[t].answer # "none" /\ task'[t].answer # "error"

\* An operation that changed Docker answers with an inventory that shows its
\* change, or that does not call itself fresh, whatever lists were in flight and
\* whichever of them failed.
FreshShowsEffect ==
    [][\A t \in Tasks :
         Answers(t) /\ task[t].inventory.freshness = "fresh"
            => task[t].inventory.seen >= task[t].effect]_vars

\* An answer comes from the client of the session that the window showed, and from
\* no other.  What is answered as the doing of that session (ConfirmedInSession, logs,
\* a port) was done while it lasted; its inventory, too, was listed in that session.
ClaimsHold ==
    [][\A t \in Tasks :
         Answers(t) /\ task[t].kind # "lifecycle"
         => /\ task[t].client \in {0, task[t].expected}
            /\ task'[t].answer # "indeterminate"
                  => /\ client = task[t].expected
                     /\ task[t].kind = "action" => task[t].inventory.session = client]_vars

\* Logs that are answered are the end of the payload of whole frames, however the
\* stream was cut into chunks and wherever it ended.
LogsWhole ==
    [][\A t \in Tasks :
         Answers(t) /\ task[t].kind = "logs" =>
            LET wire == task[t].wire
                received == SubSeq(wire, 1, Transferred(t))
                payload == SelectSeq(received, LAMBDA b : b.kind = "payload")
                skipped == IF Len(payload) > Capacity THEN Len(payload) - Capacity ELSE 0
            IN /\ task[t].reader.ring = SubSeq(payload, skipped + 1, Len(payload))
               /\ task[t].reader.truncated <=> skipped > 0
               /\ task[t].reader.multiplexed /\ Transferred(t) < Len(wire)
                     => wire[Transferred(t) + 1].kind = "header"]_vars
=============================================================================
