------------------------ MODULE RuntimeOperations_proofs ------------------------
(***************************************************************************)
(* Proofs about RuntimeOperations, for any number of operations, sessions, *)
(* changes of Docker and lists, and any streams of logs.                   *)
(***************************************************************************)
EXTENDS RuntimeOperations, TLAPS

(***************************************************************************)
(* The invariant.                                                          *)
(***************************************************************************)
Stages == {"idle", "asking", "checked", "holding", "looked", "rechecked", "sent", "performed",
           "marked", "waiting", "failed", "shown", "reading", "read", "verified", "done"}

Inventories == [freshness : {"fresh", "stale", "unavailable"}, session : Nat, seen : Nat,
                contains : BOOLEAN]
Lists == [order : Nat, session : Nat, observed : BOOLEAN, seen : Nat, contains : BOOLEAN]

\* A task is a record with the fields of Idle; nothing is said of its stream.
TaskFits(r) ==
    /\ r = [stage |-> r.stage, kind |-> r.kind, expected |-> r.expected, client |-> r.client,
            effect |-> r.effect, marker |-> r.marker, answer |-> r.answer,
            inventory |-> r.inventory, wire |-> r.wire, reader |-> r.reader]
    /\ r.stage \in Stages
    /\ r.kind \in Kinds
    /\ r.expected \in Nat /\ r.client \in Nat /\ r.effect \in Nat /\ r.marker \in Nat
    /\ r.inventory \in Inventories

TypeOK ==
    /\ client \in Nat /\ sessions \in Nat /\ order \in Nat
    /\ ready \in BOOLEAN
    /\ daemon \in [version : Nat, present : BOOLEAN]
    /\ list \in Lists
    /\ current \in Inventories
    /\ DOMAIN task = Tasks
    /\ task = [t \in Tasks |-> task[t]]
    /\ \A t \in Tasks : TaskFits(task[t])

\* Sessions come one after the other, and so do the lists that are of them.
SessionsFit ==
    /\ client \in {0, sessions}
    /\ current.session <= sessions
    /\ list.session <= sessions
    /\ list.order <= order
    /\ list.observed => current.session <= list.session

Listens == {"marked", "waiting", "failed"}
\* From the look at the inventory on.
Looked == {"looked", "rechecked", "sent", "performed", "marked", "waiting", "failed"}

\* A task has neither made nor marked what is not there yet.
ClockFits(r) == r.effect <= daemon.version /\ r.marker <= order

\* A list that is later than the marker, and what is published from it, shows the
\* change; until it has one a task holds nothing that is fresh.
EffectSeen(r) ==
    /\ r.stage \in Listens /\ list.observed /\ list.order > r.marker => list.seen >= r.effect
    /\ r.stage = "waiting" => list.order > r.marker
    /\ r.stage = "failed" =>
          /\ list # NoList => list.order > r.marker
          /\ current.freshness = "fresh" => current.seen >= r.effect
    /\ r.inventory.freshness = "fresh" =>
          r.stage = "shown" /\ r.inventory.seen >= r.effect

\* What a task looked at, or shows, is of the session that its window named or of a
\* later one.
ClaimFits(r) ==
    /\ r.client \in {0, r.expected}
    /\ r.inventory.session <= sessions
    /\ r.kind = "action" =>
          /\ r.stage \in Looked => current.session >= r.expected
          /\ r.stage = "shown" => r.inventory.session >= r.expected

\* A task has no answer before it is done, and only two kinds change Docker.
AnswerFits(r) ==
    /\ r.stage # "done" => r.answer = "none"
    /\ r.stage \in {"sent", "performed", "marked", "waiting", "failed", "shown"} =>
          r.kind \in {"action", "lifecycle"}

TasksFit ==
    \A t \in Tasks : /\ ClockFits(task[t]) /\ EffectSeen(task[t])
                     /\ ClaimFits(task[t]) /\ AnswerFits(task[t])

IInv == TypeOK /\ SessionsFit /\ TasksFit

\* A step by which nobody ends, and one by which a task is answered in its session.
Silent == \A u \in Tasks : task'[u].stage = "done" => task[u].stage = "done"
Claims(t) == Ends(t, "ok") /\ task[t].kind # "action" /\ SessionHolds(t)

LEMMA InvInit == Init => IInv
  <1> USE DEF Init, Idle, Unavailable, NoList, Kinds, Stages, Inventories, Lists
  <1>1. Init => TypeOK
    <2>1. TaskFits(Idle)
      BY DEF TaskFits
    <2>2. Init => task = [t \in Tasks |-> Idle]
      BY DEF Init
    <2>3. Init => /\ DOMAIN task = Tasks
                  /\ task = [t \in Tasks |-> task[t]]
                  /\ \A t \in Tasks : task[t] = Idle
      BY <2>2, Zenon
    <2>4. Init => /\ client \in Nat /\ sessions \in Nat /\ order \in Nat
                  /\ ready \in BOOLEAN
                  /\ daemon \in [version : Nat, present : BOOLEAN]
                  /\ list \in Lists
                  /\ current \in Inventories
      <3>1. NoList \in Lists /\ Unavailable \in Inventories
        OBVIOUS
      <3>2. Init => /\ client = 0 /\ sessions = 0 /\ order = 0 /\ ready = FALSE
                    /\ daemon = [version |-> 0, present |-> TRUE]
                    /\ list = NoList /\ current = Unavailable
        BY DEF Init
      <3>3. Init => daemon \in [version : Nat, present : BOOLEAN]
        BY <3>2
      <3> HIDE DEF Lists, Inventories, NoList, Unavailable
      <3>4. 0 \in Nat /\ FALSE \in BOOLEAN
        OBVIOUS
      <3> QED BY <3>1, <3>2, <3>3, <3>4, Zenon
    <2> QED BY <2>1, <2>3, <2>4 DEF TypeOK
  <1>2. Init => SessionsFit /\ TasksFit
    BY DEF SessionsFit, TasksFit, ClockFits, EffectSeen, ClaimFits, AnswerFits, Listens, Looked
  <1> QED BY <1>1, <1>2 DEF IInv

(***************************************************************************)
(* Records of tasks.                                                       *)
(***************************************************************************)
\* Moving a task on changes its stage and nothing else.
LEMMA StageMoves ==
    ASSUME NEW r, TaskFits(r), NEW stage \in Stages
    PROVE  LET q == [r EXCEPT !.stage = stage]
           IN /\ TaskFits(q)
              /\ q.stage = stage /\ q.kind = r.kind /\ q.expected = r.expected
              /\ q.client = r.client /\ q.effect = r.effect /\ q.marker = r.marker
              /\ q.inventory = r.inventory /\ q.answer = r.answer
  BY DEF TaskFits

\* So does giving it an inventory.
Shown(r, stage, published) == [r EXCEPT !.stage = stage, !.inventory = published]

LEMMA InventoryMoves ==
    ASSUME NEW r, TaskFits(r), NEW stage \in Stages, NEW published \in Inventories
    PROVE  LET q == Shown(r, stage, published)
           IN /\ TaskFits(q)
              /\ q.stage = stage /\ q.kind = r.kind /\ q.expected = r.expected
              /\ q.client = r.client /\ q.effect = r.effect /\ q.marker = r.marker
              /\ q.inventory = published /\ q.answer = r.answer
  <1> DEFINE q == Shown(r, stage, published)
  <1>1. q = [stage |-> stage, kind |-> r.kind, expected |-> r.expected, client |-> r.client,
             effect |-> r.effect, marker |-> r.marker, answer |-> r.answer,
             inventory |-> published, wire |-> r.wire, reader |-> r.reader]
    <2> DEFINE m == [r EXCEPT !.stage = stage]
    <2>1. m = [stage |-> stage, kind |-> r.kind, expected |-> r.expected, client |-> r.client,
               effect |-> r.effect, marker |-> r.marker, answer |-> r.answer,
               inventory |-> r.inventory, wire |-> r.wire, reader |-> r.reader]
      BY DEF TaskFits
    <2>2. q = [m EXCEPT !.inventory = published]
      BY Zenon DEF Shown
    <2> HIDE DEF m, q
    <2> QED BY <2>1, <2>2
  <1> HIDE DEF q
  <1>2. TaskFits(q)
    BY <1>1 DEF TaskFits
  <1> QED BY <1>1, <1>2 DEF q

\* Nothing is left of a task that has ended.
LEMMA EndFits ==
    ASSUME IInv, NEW answer
    PROVE  LET q == [Idle EXCEPT !.stage = "done", !.answer = answer]
           IN TaskFits(q) /\ ClockFits(q) /\ EffectSeen(q) /\ ClaimFits(q) /\ AnswerFits(q)
  <1> DEFINE q == [Idle EXCEPT !.stage = "done", !.answer = answer]
  <1>1. q = [stage |-> "done", kind |-> "port", expected |-> 0, client |-> 0, effect |-> 0,
             marker |-> 0, answer |-> answer, inventory |-> Unavailable,
             wire |-> <<>>, reader |-> Reader(FALSE)]
    <2> DEFINE m == [Idle EXCEPT !.stage = "done"]
    <2>1. m = [Idle EXCEPT !.stage = "done"] /\ q = [m EXCEPT !.answer = answer]
      BY Zenon
    <2> HIDE DEF m, q
    <2> QED BY <2>1 DEF Idle
  <1> HIDE DEF q
  <1>2. Unavailable \in Inventories /\ Unavailable.freshness # "fresh"
        /\ Unavailable.session = 0
    BY DEF Unavailable, Inventories
  <1>3. TaskFits(q)
    BY <1>1, <1>2 DEF TaskFits, Stages, Kinds
  <1>4. daemon.version \in Nat /\ order \in Nat /\ sessions \in Nat
    BY DEF IInv, TypeOK
  <1>5. ClockFits(q) /\ EffectSeen(q) /\ ClaimFits(q) /\ AnswerFits(q)
    BY <1>1, <1>2, <1>4 DEF ClockFits, EffectSeen, ClaimFits, AnswerFits, Listens, Looked
  <1> QED BY <1>3, <1>5 DEF q

\* A step of one task, during which clocks may only advance.
LEMMA TaskStep ==
    ASSUME IInv, NEW t \in Tasks, NEW r,
           task' = [task EXCEPT ![t] = r],
           UNCHANGED <<client, ready, sessions, list, current>>,
           daemon' \in [version : Nat, present : BOOLEAN], daemon.version <= daemon'.version,
           order' \in Nat, order <= order',
           TaskFits(r), r.effect <= daemon'.version, r.marker <= order',
           EffectSeen(r), ClaimFits(r), AnswerFits(r)
    PROVE  IInv' /\ (r.stage # "done" => Silent)
  <1>1. \A u \in Tasks : task'[u] = IF u = t THEN r ELSE task[u]
    BY DEF IInv, TypeOK
  <1>2. TypeOK'
    BY <1>1 DEF IInv, TypeOK, TaskFits
  <1>3. SessionsFit'
    <2>1. list.order <= order'
      BY DEF IInv, TypeOK, SessionsFit, Lists
    <2> QED BY <2>1 DEF IInv, SessionsFit
  <1>4. ASSUME NEW u \in Tasks
        PROVE  (ClockFits(task[u]) /\ EffectSeen(task[u]) /\ ClaimFits(task[u])
                /\ AnswerFits(task[u]))'
    <2>1. CASE u = t
      BY <1>1, <2>1 DEF ClockFits, EffectSeen, ClaimFits, AnswerFits
    <2>2. CASE u # t
      <3>1. task'[u] = task[u] /\ TaskFits(task[u])
        BY <1>1, <2>2 DEF IInv, TypeOK
      <3>2. ClockFits(task[u])'
        BY <3>1 DEF IInv, TypeOK, TaskFits, TasksFit, ClockFits
      <3>3. (EffectSeen(task[u]) /\ ClaimFits(task[u]) /\ AnswerFits(task[u]))'
        BY <3>1 DEF IInv, TasksFit, EffectSeen, ClaimFits, AnswerFits
      <3> QED BY <3>2, <3>3
    <2> QED BY <2>1, <2>2
  <1>5. r.stage # "done" => Silent
    BY <1>1 DEF Silent
  <1> QED BY <1>2, <1>3, <1>4, <1>5 DEF IInv, TasksFit

\* A step of one task that touches neither Docker nor the inventory.
LEMMA OwnStep ==
    ASSUME IInv, NEW t \in Tasks, NEW r,
           task' = [task EXCEPT ![t] = r], UNCHANGED <<runtime, inventory>>,
           TaskFits(r), ClockFits(r), EffectSeen(r), ClaimFits(r), AnswerFits(r)
    PROVE  IInv' /\ (r.stage # "done" => Silent)
  <1>1. /\ UNCHANGED <<client, ready, sessions, list, current>>
        /\ daemon' = daemon /\ order' = order
    BY DEF runtime, inventory
  <1>2. daemon \in [version : Nat, present : BOOLEAN] /\ order \in Nat
    BY DEF IInv, TypeOK
  <1>3. daemon.version \in Nat
    BY <1>2
  <1>4. /\ r.effect <= daemon'.version /\ r.marker <= order'
        /\ daemon.version <= daemon'.version /\ order <= order'
    BY <1>1, <1>2, <1>3 DEF ClockFits
  <1> QED BY <1>1, <1>2, <1>4, TaskStep

LEMMA EndStep ==
    ASSUME IInv, NEW t \in Tasks, NEW answer, Ends(t, answer)
    PROVE  IInv'
  BY EndFits, OwnStep DEF Ends

\* A task that goes on to a stage of which the invariant says no more.
LEMMA MoveStep ==
    ASSUME IInv, NEW t \in Tasks, NEW stage \in Stages,
           task' = [task EXCEPT ![t] = [task[t] EXCEPT !.stage = stage]],
           UNCHANGED <<runtime, inventory>>,
           task[t].stage \notin {"marked", "waiting", "failed", "shown"},
           stage \notin {"sent", "performed", "marked", "waiting", "failed", "shown", "done"},
           task[t].stage # "done",
           stage \in Looked => task[t].stage \in Looked \/ current.session >= task[t].expected
    PROVE  IInv' /\ Silent
  <1> DEFINE q == [task[t] EXCEPT !.stage = stage]
  <1>1. TaskFits(task[t]) /\ ClockFits(task[t]) /\ EffectSeen(task[t])
        /\ ClaimFits(task[t]) /\ AnswerFits(task[t])
    BY DEF IInv, TypeOK, TasksFit
  <1>2. /\ TaskFits(q)
        /\ q.stage = stage /\ q.kind = task[t].kind /\ q.expected = task[t].expected
        /\ q.client = task[t].client /\ q.effect = task[t].effect /\ q.marker = task[t].marker
        /\ q.inventory = task[t].inventory /\ q.answer = task[t].answer
    BY <1>1, StageMoves
  <1> HIDE DEF q
  <1>3. ClockFits(q)
    BY <1>1, <1>2 DEF ClockFits
  <1>4. EffectSeen(q)
    BY <1>1, <1>2 DEF EffectSeen, Listens
  <1>5. ClaimFits(q) /\ AnswerFits(q)
    BY <1>1, <1>2 DEF ClaimFits, AnswerFits
  <1>6. task' = [task EXCEPT ![t] = q]
    BY DEF q
  <1>7. q.stage # "done"
    BY <1>2
  <1> QED BY <1>2, <1>3, <1>4, <1>5, <1>6, <1>7, OwnStep

(***************************************************************************)
(* The environment.                                                        *)
(***************************************************************************)
\* A new session is later than all that was listed.
LEMMA TransitionStep == ASSUME IInv, Transition PROVE IInv' /\ Silent
  <1>1. /\ UNCHANGED <<daemon, order, list, current, task>>
        /\ ready' \in BOOLEAN /\ client' \in Nat /\ sessions' \in Nat
        /\ sessions <= sessions' /\ client' \in {0, sessions'}
    <2>1. sessions \in Nat /\ UNCHANGED <<daemon, order, list, current, task>>
      BY DEF Transition, inventory, IInv, TypeOK
    <2>2. \/ client' = 0 /\ sessions' = sessions
          \/ sessions' = sessions + 1 /\ client' = sessions + 1
      BY DEF Transition
    <2>3. /\ client' \in Nat /\ sessions' \in Nat
          /\ sessions <= sessions' /\ client' \in {0, sessions'}
      BY <2>1, <2>2
    <2>4. ready' \in BOOLEAN
      BY Zenon DEF Transition
    <2> QED BY <2>1, <2>3, <2>4
  <1>2. TypeOK'
    BY <1>1 DEF IInv, TypeOK, TaskFits
  <1>3. SessionsFit'
    BY <1>1 DEF IInv, SessionsFit, TypeOK, Inventories, Lists
  <1>4. ASSUME NEW t \in Tasks
        PROVE  (ClockFits(task[t]) /\ EffectSeen(task[t]) /\ ClaimFits(task[t])
                /\ AnswerFits(task[t]))'
    <2>1. TaskFits(task[t]) /\ ClockFits(task[t]) /\ EffectSeen(task[t])
          /\ ClaimFits(task[t]) /\ AnswerFits(task[t])
      BY DEF IInv, TypeOK, TasksFit
    <2>2. task[t].inventory.session \in Nat /\ sessions \in Nat
      BY <2>1 DEF TaskFits, Inventories, IInv, TypeOK
    <2>3. (ClockFits(task[t]) /\ EffectSeen(task[t]))'
      BY <1>1, <2>1 DEF ClockFits, EffectSeen
    <2>4. (ClaimFits(task[t]) /\ AnswerFits(task[t]))'
      BY <1>1, <2>1, <2>2 DEF ClaimFits, AnswerFits
    <2> QED BY <2>3, <2>4
  <1>9. Silent
    BY <1>1 DEF Silent
  <1> QED BY <1>2, <1>3, <1>4, <1>9 DEF IInv, TasksFit

\* The version of Docker and the order only advance.
LEMMA ClockStep ==
    ASSUME IInv, UNCHANGED <<client, ready, sessions, current, task>>,
           daemon' \in [version : Nat, present : BOOLEAN], daemon.version <= daemon'.version,
           order' \in Nat, order <= order',
           \/ list' = list
           \/ list = NoList /\ list' \in Lists /\ ~list'.observed /\ list'.session = 0
                /\ order < list'.order /\ list'.order <= order'
    PROVE  IInv' /\ Silent
  <1>1. TypeOK'
    BY DEF IInv, TypeOK, TaskFits
  <1>2. SessionsFit'
    BY DEF IInv, SessionsFit, TypeOK, Lists
  <1>3. ASSUME NEW t \in Tasks
        PROVE  (ClockFits(task[t]) /\ EffectSeen(task[t]) /\ ClaimFits(task[t])
                /\ AnswerFits(task[t]))'
    <2>1. TaskFits(task[t]) /\ ClockFits(task[t]) /\ EffectSeen(task[t])
          /\ ClaimFits(task[t]) /\ AnswerFits(task[t])
      BY DEF IInv, TypeOK, TasksFit
    <2>2. {task[t].effect, task[t].marker, daemon.version, order, list'.order} \subseteq Nat
      BY <2>1 DEF TaskFits, IInv, TypeOK, Lists
    <2>3. ClockFits(task[t])'
      BY <2>1, <2>2 DEF ClockFits
    <2>4. (ClaimFits(task[t]) /\ AnswerFits(task[t]))'
      BY <2>1 DEF ClaimFits, AnswerFits
    <2>5. EffectSeen(task[t])'
      <3>1. CASE list' = list
        BY <2>1, <3>1 DEF EffectSeen
      <3>2. CASE list = NoList /\ ~list'.observed /\ order < list'.order
        <4>1. list'.order > task[t].marker
          BY <2>1, <2>2, <3>2 DEF ClockFits
        <4> QED BY <2>1, <3>2, <4>1 DEF EffectSeen
      <3> QED BY <3>1, <3>2
    <2> QED BY <2>3, <2>4, <2>5
  <1>9. Silent
    BY DEF Silent
  <1> QED BY <1>1, <1>2, <1>3, <1>9 DEF IInv, TasksFit

LEMMA ChangeStep == ASSUME IInv, Change PROVE IInv' /\ Silent
  <1>1. /\ UNCHANGED <<client, ready, sessions, current, task, list, order>>
        /\ daemon' \in [version : Nat, present : BOOLEAN] /\ daemon.version <= daemon'.version
    BY DEF Change, inventory, IInv, TypeOK
  <1>2. order \in Nat
    BY DEF IInv, TypeOK
  <1> QED BY <1>1, <1>2, ClockStep

LEMMA StartListStep == ASSUME IInv, StartList PROVE IInv' /\ Silent
  <1>1. /\ UNCHANGED <<client, ready, sessions, current, task, daemon>>
        /\ order \in Nat /\ order' = order + 1
        /\ list = NoList /\ list' = [NoList EXCEPT !.order = order + 1]
        /\ daemon \in [version : Nat, present : BOOLEAN]
    BY DEF StartList, runtime, IInv, TypeOK
  <1>2. list' \in Lists /\ ~list'.observed /\ list'.session = 0 /\ list'.order = order + 1
    <2>1. NoList \in Lists /\ ~NoList.observed /\ NoList.session = 0
      BY DEF NoList, Lists
    <2>2. order + 1 \in Nat
      BY <1>1
    <2> QED BY <1>1, <2>1, <2>2 DEF Lists
  <1>3. /\ order <= order' /\ order' \in Nat /\ order < list'.order /\ list'.order <= order'
        /\ daemon.version <= daemon'.version
    BY <1>1, <1>2
  <1>4. daemon' \in [version : Nat, present : BOOLEAN]
    BY <1>1
  <1> QED BY <1>1, <1>2, <1>3, <1>4, ClockStep

\* What a list has seen is the newest version, of the newest session.
LEMMA ObserveStep == ASSUME IInv, Observe PROVE IInv' /\ Silent
  <1>0. /\ list # NoList /\ client # 0 /\ UNCHANGED <<client, ready, sessions, daemon, order,
            current, task>>
        /\ list' = [list EXCEPT !.observed = TRUE, !.session = client,
                                !.seen = daemon.version, !.contains = daemon.present]
    BY DEF Observe, runtime
  <1>1. /\ list' \in Lists /\ list'.order = list.order /\ list'.session = client
        /\ list'.observed /\ list'.seen = daemon.version
    <2>1. list \in Lists /\ client \in Nat /\ daemon.version \in Nat
          /\ daemon.present \in BOOLEAN
      BY DEF IInv, TypeOK
    <2> DEFINE a == [list EXCEPT !.observed = TRUE]
               b == [a EXCEPT !.session = client]
               c == [b EXCEPT !.seen = daemon.version]
               d == [c EXCEPT !.contains = daemon.present]
    <2>2. list' = d
      BY <1>0
    <2>3. a \in Lists /\ a.observed /\ a.order = list.order
      BY <2>1 DEF Lists
    <2> HIDE DEF a
    <2>4. b \in Lists /\ b.observed /\ b.order = list.order /\ b.session = client
      BY <2>1, <2>3 DEF Lists
    <2> HIDE DEF b
    <2>5. c \in Lists /\ c.observed /\ c.order = list.order /\ c.session = client
          /\ c.seen = daemon.version
      BY <2>1, <2>4 DEF Lists
    <2> HIDE DEF c
    <2>6. d \in Lists /\ d.observed /\ d.order = list.order /\ d.session = client
          /\ d.seen = daemon.version
      BY <2>1, <2>5 DEF Lists
    <2> QED BY <2>2, <2>6
  <1>2. TypeOK'
    BY <1>0, <1>1 DEF IInv, TypeOK, TaskFits
  <1>3. SessionsFit'
    BY <1>0, <1>1 DEF IInv, SessionsFit, TypeOK, Inventories
  <1>4. ASSUME NEW t \in Tasks
        PROVE  (ClockFits(task[t]) /\ EffectSeen(task[t]) /\ ClaimFits(task[t])
                /\ AnswerFits(task[t]))'
    <2>1. ClockFits(task[t]) /\ EffectSeen(task[t]) /\ ClaimFits(task[t]) /\ AnswerFits(task[t])
      BY DEF IInv, TasksFit
    <2>2. (ClockFits(task[t]) /\ ClaimFits(task[t]) /\ AnswerFits(task[t]))'
      BY <1>0, <2>1 DEF ClockFits, ClaimFits, AnswerFits
    <2>3. EffectSeen(task[t])'
      <3>1. daemon.version >= task[t].effect
        BY <2>1 DEF ClockFits, IInv, TypeOK, TaskFits
      <3> QED BY <1>0, <1>1, <2>1, <3>1 DEF EffectSeen
    <2> QED BY <2>2, <2>3
  <1>9. Silent
    BY <1>0 DEF Silent
  <1> QED BY <1>2, <1>3, <1>4, <1>9 DEF IInv, TasksFit

\* The end of a list, if what is published is fit for those who wait for it.
LEMMA CompleteStep ==
    ASSUME IInv, NEW published \in Inventories, NEW stage \in {"shown", "failed"},
           Complete(published, stage),
           current.session <= published.session, published.session <= sessions,
           \A t \in Tasks : task[t].stage \in {"waiting", "failed"}
           /\ published.freshness = "fresh"
               => published.seen >= task[t].effect,
           stage = "failed" => published.freshness # "fresh"
    PROVE  IInv' /\ Silent
  <1>0. /\ UNCHANGED <<client, ready, sessions, daemon, order>>
        /\ list' = NoList /\ current' = published
        /\ task' = [t \in Tasks |-> IF task[t].stage = "waiting"
                                    THEN [task[t] EXCEPT !.stage = stage,
            !.inventory = published]
                                    ELSE task[t]]
    BY DEF Complete, runtime
  <1>1. ASSUME NEW t \in Tasks
        PROVE  /\ TaskFits(task[t])
               /\ ClockFits(task[t]) /\ EffectSeen(task[t]) /\ ClaimFits(task[t])
               /\ AnswerFits(task[t])
    BY DEF IInv, TypeOK, TasksFit
  <1>2. ASSUME NEW t \in Tasks, task[t].stage = "waiting"
        PROVE  /\ TaskFits(task'[t])
               /\ task'[t].stage = stage /\ task'[t].kind = task[t].kind
               /\ task'[t].expected = task[t].expected /\ task'[t].client = task[t].client
               /\ task'[t].effect = task[t].effect /\ task'[t].marker = task[t].marker
               /\ task'[t].inventory = published /\ task'[t].answer = task[t].answer
    <2>1. stage \in Stages /\ TaskFits(task[t])
      BY <1>1 DEF Stages
    <2> DEFINE q == Shown(task[t], stage, published)
    <2>2. task'[t] = q
      BY <1>0, <1>2, Zenon DEF Shown
    <2>3. /\ TaskFits(q)
          /\ q.stage = stage /\ q.kind = task[t].kind /\ q.expected = task[t].expected
          /\ q.client = task[t].client /\ q.effect = task[t].effect /\ q.marker = task[t].marker
          /\ q.inventory = published /\ q.answer = task[t].answer
      BY <2>1, InventoryMoves
    <2> HIDE DEF q
    <2> QED BY <2>2, <2>3
  <1>3. ASSUME NEW t \in Tasks, task[t].stage # "waiting"
        PROVE  task'[t] = task[t]
    BY <1>0, <1>3
  <1>4. NoList \in Lists /\ NoList.session = 0 /\ NoList.order = 0 /\ ~NoList.observed
    BY DEF NoList, Lists
  <1>5. TypeOK'
    <2>1. \A t \in Tasks : TaskFits(task'[t])
      BY <1>1, <1>2, <1>3
    <2>2. DOMAIN task' = Tasks /\ task' = [t \in Tasks |-> task'[t]]
      BY <1>0
    <2> QED BY <1>0, <1>4, <2>1, <2>2 DEF IInv, TypeOK, TaskFits
  <1>6. SessionsFit'
    <2>1. /\ client' = client /\ sessions' = sessions /\ current' = published
          /\ order' = order /\ list'.session = 0 /\ list'.order = 0 /\ ~list'.observed
      BY <1>0, <1>4
    <2>2. client \in {0, sessions} /\ sessions \in Nat /\ order \in Nat
      BY DEF IInv, SessionsFit, TypeOK
    <2> QED BY <2>1, <2>2 DEF SessionsFit
  <1>7. ASSUME NEW t \in Tasks
        PROVE  (ClockFits(task[t]) /\ EffectSeen(task[t]) /\ ClaimFits(task[t])
                /\ AnswerFits(task[t]))'
    <2>0. /\ task[t].expected \in Nat /\ current.session \in Nat /\ published.session \in Nat
          /\ task[t].inventory.session \in Nat /\ sessions \in Nat
      BY <1>1 DEF TaskFits, Inventories, IInv, TypeOK
    <2>3. /\ sessions' = sessions /\ current'.session = published.session
          /\ \A n \in Nat : current.session >= n => published.session >= n
      <3>1. current.session <= published.session
        OBVIOUS
      <3>2. \A n \in Nat : current.session >= n => published.session >= n
        BY <2>0, <3>1
      <3> QED BY <1>0, <3>2, Zenon
    <2>4. /\ task[t].client \in {0, task[t].expected}
          /\ task[t].inventory.session <= sessions
          /\ task[t].kind = "action" =>
                /\ task[t].stage \in Looked => current.session >= task[t].expected
                /\ task[t].stage = "shown" => task[t].inventory.session >= task[t].expected
      BY <1>1 DEF ClaimFits
    <2>5. AnswerFits(task[t])
      BY <1>1
    <2>1. CASE task[t].stage = "waiting"
      <3>1. ClockFits(task[t])'
        BY <1>0, <1>1, <1>2, <2>1 DEF ClockFits
      <3>2. EffectSeen(task[t])'
        BY <1>0, <1>1, <1>2, <1>4, <2>1 DEF EffectSeen
      <3>3. (ClaimFits(task[t]) /\ AnswerFits(task[t]))'
        BY <1>2, <2>0, <2>1, <2>3, <2>4, <2>5 DEF ClaimFits, AnswerFits, Looked
      <3> QED BY <3>1, <3>2, <3>3
    <2>2. CASE task[t].stage # "waiting"
      <3>1. ClockFits(task[t])'
        BY <1>0, <1>1, <1>3, <2>2 DEF ClockFits
      <3>2. EffectSeen(task[t])'
        BY <1>0, <1>1, <1>3, <1>4, <2>2 DEF EffectSeen
      <3>3. (ClaimFits(task[t]) /\ AnswerFits(task[t]))'
        BY <1>3, <2>0, <2>2, <2>3, <2>4, <2>5 DEF ClaimFits, AnswerFits
      <3> QED BY <3>1, <3>2, <3>3
    <2> QED BY <2>1, <2>2
  <1>8. Silent
    BY <1>2, <1>3 DEF Silent
  <1> QED BY <1>5, <1>6, <1>7, <1>8 DEF IInv, TasksFit

\* Whoever waits for a list that is published sees its own change.
LEMMA PublishStep == ASSUME IInv, Publish PROVE IInv' /\ Silent
  <1> DEFINE published == [freshness |-> "fresh", session |-> list.session, seen |-> list.seen,
                           contains |-> list.contains]
  <1>1. list.observed /\ Complete(published, "shown")
    BY DEF Publish
  <1>2. /\ published \in Inventories /\ published.session = list.session
        /\ published.seen = list.seen /\ published.freshness = "fresh"
    BY DEF IInv, TypeOK, Lists, Inventories
  <1> HIDE DEF published
  <1>3. current.session <= published.session /\ published.session <= sessions
    BY <1>1, <1>2 DEF IInv, SessionsFit
  <1>4. list # NoList
    BY <1>1 DEF NoList
  <1>5. ASSUME NEW t \in Tasks, task[t].stage \in {"waiting", "failed"}
        PROVE  published.seen >= task[t].effect
    BY <1>1, <1>2, <1>4, <1>5 DEF IInv, TasksFit, EffectSeen, Listens
  <1> QED BY <1>1, <1>2, <1>3, <1>5, CompleteStep

\* After a list that failed nothing is fresh.
LEMMA LoseTouchStep == ASSUME IInv, LoseTouch PROVE IInv' /\ Silent
  <1> DEFINE published == IF current = Unavailable THEN current
                          ELSE [current EXCEPT !.freshness = "stale"]
  <1>1. Complete(published, "failed")
    BY DEF LoseTouch
  <1>2. /\ published \in Inventories /\ published.session = current.session
        /\ published.freshness # "fresh"
    BY DEF IInv, TypeOK, Inventories, Unavailable
  <1> HIDE DEF published
  <1>3. current.session <= published.session /\ published.session <= sessions
    BY <1>2 DEF IInv, SessionsFit, TypeOK, Inventories
  <1> QED BY <1>1, <1>2, <1>3, CompleteStep

(***************************************************************************)
(* Every operation.                                                        *)
(***************************************************************************)
\* A chunk changes the reader and nothing else.
LEMMA ReaderMoves ==
    ASSUME NEW r, TaskFits(r), NEW value
    PROVE  LET q == [r EXCEPT !.reader = value]
           IN /\ TaskFits(q)
              /\ q.stage = r.stage /\ q.kind = r.kind /\ q.expected = r.expected
              /\ q.client = r.client /\ q.effect = r.effect /\ q.marker = r.marker
              /\ q.inventory = r.inventory /\ q.answer = r.answer
  BY DEF TaskFits

LEMMA NeedsStep ==
    ASSUME IInv, NEW t \in Tasks, NEW condition \in BOOLEAN, NEW stage \in Stages,
           Needs(t, condition, stage),
           task[t].stage \notin {"marked", "waiting", "failed", "shown"},
           stage \notin {"sent", "performed", "marked", "waiting", "failed", "shown", "done"},
           task[t].stage # "done",
           condition /\ stage \in Looked =>
               task[t].stage \in Looked \/ current.session >= task[t].expected
    PROVE  IInv' /\ (Silent \/ Ends(t, "error"))
  <1>1. CASE condition
    <2>1. /\ task' = [task EXCEPT ![t] = [task[t] EXCEPT !.stage = stage]]
          /\ UNCHANGED <<runtime, inventory>>
      BY <1>1 DEF Needs, Moves, Goes
    <2> QED BY <1>1, <2>1, MoveStep
  <1>2. CASE ~condition
    BY <1>2, EndStep DEF Needs
  <1> QED BY <1>1, <1>2

\* A task begins with nothing.
LEMMA RequestStep == ASSUME IInv, NEW t \in Tasks, Request(t) PROVE IInv' /\ Silent
  <1>1. PICK kind \in Kinds, expected \in Nat :
           Goes(t, [Idle EXCEPT !.stage = "asking", !.kind = kind, !.expected = expected])
    <2>1. PICK kind \in Kinds :
             \E expected \in IF kind = "lifecycle" THEN {0} ELSE 1 .. sessions :
                Goes(t, [Idle EXCEPT !.stage = "asking", !.kind = kind, !.expected = expected])
      BY Zenon DEF Request
    <2>2. PICK expected \in IF kind = "lifecycle" THEN {0} ELSE 1 .. sessions :
             Goes(t, [Idle EXCEPT !.stage = "asking", !.kind = kind, !.expected = expected])
      BY <2>1, Zenon
    <2>3. expected \in Nat
      BY <2>2 DEF IInv, TypeOK
    <2> QED BY <2>2, <2>3, Zenon
  <1> DEFINE q == [Idle EXCEPT !.stage = "asking", !.kind = kind, !.expected = expected]
  <1>2. /\ TaskFits(Idle) /\ Idle.effect = 0 /\ Idle.marker = 0 /\ Idle.client = 0
        /\ Idle.inventory = Unavailable /\ Idle.answer = "none"
    BY DEF TaskFits, Idle, Unavailable, Inventories, Stages, Kinds
  <1>3. task' = [task EXCEPT ![t] = q] /\ UNCHANGED <<runtime, inventory>>
    BY <1>1 DEF Goes
  <1>5. /\ TaskFits(q) /\ q.stage = "asking"
        /\ q.effect = 0 /\ q.marker = 0 /\ q.client = 0 /\ q.inventory = Unavailable
        /\ q.answer = "none"
    <2> DEFINE a == [Idle EXCEPT !.stage = "asking"]
               b == [a EXCEPT !.kind = kind]
    <2>1. a = [Idle EXCEPT !.stage = "asking"] /\ b = [a EXCEPT !.kind = kind]
          /\ q = [b EXCEPT !.expected = expected]
      BY Zenon
    <2> HIDE DEF a, b, q
    <2>2. /\ TaskFits(a) /\ a.stage = "asking"
          /\ a.effect = 0 /\ a.marker = 0 /\ a.client = 0 /\ a.inventory = Unavailable
          /\ a.answer = "none"
      <3>1. "asking" \in Stages
        BY DEF Stages
      <3> QED BY <1>2, <2>1, <3>1, StageMoves
    <2>3. /\ TaskFits(b) /\ b.stage = "asking"
          /\ b.effect = 0 /\ b.marker = 0 /\ b.client = 0 /\ b.inventory = Unavailable
          /\ b.answer = "none"
      BY <2>1, <2>2 DEF TaskFits
    <2> QED BY <2>1, <2>3 DEF TaskFits
  <1> HIDE DEF q
  <1>4. Unavailable.freshness # "fresh" /\ Unavailable.session = 0
    BY DEF Unavailable
  <1>6. daemon.version \in Nat /\ order \in Nat /\ sessions \in Nat
    BY DEF IInv, TypeOK
  <1>7. ClockFits(q) /\ EffectSeen(q) /\ ClaimFits(q) /\ AnswerFits(q)
    BY <1>4, <1>5, <1>6 DEF ClockFits, EffectSeen, ClaimFits, AnswerFits, Listens, Looked
  <1> QED BY <1>3, <1>5, <1>7, OwnStep

\* The checks: the task goes on as it is, or ends.
LEMMA CheckSteps ==
    ASSUME IInv, NEW t \in Tasks,
           Check(t) \/ Look(t) \/ Recheck(t) \/ EndOfBody(t) \/ Verify(t) \/ Deliver(t)
    PROVE  IInv' /\ (Silent \/ Ends(t, "error") \/ Claims(t))
  <1>1. {"checked", "looked", "rechecked", "read", "verified"} \subseteq Stages
        /\ "checked" \notin Looked /\ "read" \notin Looked /\ "verified" \notin Looked
        /\ "looked" \in Looked
    BY DEF Stages, Looked
  <1>2. CASE Check(t)
    <2>1. SessionHolds(t) \in BOOLEAN
      BY DEF SessionHolds
    <2> QED BY <1>1, <1>2, <2>1, NeedsStep DEF Check
  <1>3. CASE Look(t)
    <2>1. Shows(t) \in BOOLEAN
      BY DEF Shows, IInv, TypeOK, Inventories
    <2>2. Shows(t) => current.session >= task[t].expected
      BY DEF Shows, IInv, TypeOK, TaskFits
    <2>3. Needs(t, Shows(t), "looked") /\ task[t].stage \in {"holding", "checked"}
      BY <1>3 DEF Look, At
    <2> QED BY <1>1, <2>1, <2>2, <2>3, NeedsStep
  <1>4. CASE Recheck(t)
    <2>1. task[t].stage = "looked"
      BY <1>4 DEF Recheck
    <2>2. CASE Ends(t, "ok") /\ SessionHolds(t) /\ task[t].kind = "port"
      BY <2>2, EndStep DEF Claims
    <2>3. CASE Needs(t, SessionHolds(t), "rechecked")
      <3>1. SessionHolds(t) \in BOOLEAN
        BY DEF SessionHolds
      <3> QED BY <1>1, <2>1, <2>3, <3>1, NeedsStep
    <2>4. CASE Ends(t, "error")
      BY <2>4, EndStep
    <2> QED BY <1>4, <2>2, <2>3, <2>4 DEF Recheck
  <1>5. CASE EndOfBody(t)
    <2>1. BetweenFrames(task[t].reader) \in BOOLEAN
      BY DEF BetweenFrames
    <2> QED BY <1>1, <1>5, <2>1, NeedsStep DEF EndOfBody, At
  <1>6. CASE Verify(t)
    <2>1. SessionHolds(t) \in BOOLEAN
      BY DEF SessionHolds
    <2> QED BY <1>1, <1>6, <2>1, NeedsStep DEF Verify, At
  <1>7. CASE Deliver(t)
    <2>1. SessionHolds(t) \/ ~SessionHolds(t)
      BY DEF SessionHolds
    <2>2. task[t].kind # "action"
      BY <1>7 DEF Deliver, At
    <2> QED BY <1>7, <2>1, <2>2, EndStep DEF Deliver, Claims
  <1> QED BY <1>2, <1>3, <1>4, <1>5, <1>6, <1>7

\* The leases, the gate and whatever ends a task.
LEMMA HoldSteps ==
    ASSUME IInv, NEW t \in Tasks,
           Acquire(t) \/ ProfileGone(t) \/ Invoke(t) \/ Fail(t) \/ Conclude(t) \/ Break(t)
    PROVE  IInv' /\ (Silent \/ Ends(t, "error") \/ Conclude(t))
  <1>1. CASE Ends(t, "error") \/ Conclude(t)
    BY <1>1, EndStep DEF Conclude
  <1>2. ASSUME NEW stage \in {"holding", "sent"},
               task' = [task EXCEPT ![t].stage = stage], UNCHANGED <<runtime, inventory>>,
               task[t].stage \in {"asking", "checked", "holding"},
               stage = "sent" => task[t].kind = "lifecycle"
        PROVE  IInv' /\ Silent
    <2> DEFINE q == [task[t] EXCEPT !.stage = stage]
    <2>1. task' = [task EXCEPT ![t] = q]
      BY <1>2
    <2>2. TaskFits(task[t]) /\ ClockFits(task[t]) /\ EffectSeen(task[t])
          /\ ClaimFits(task[t]) /\ AnswerFits(task[t])
      BY DEF IInv, TypeOK, TasksFit
    <2>3. /\ TaskFits(q)
          /\ q.stage = stage /\ q.kind = task[t].kind /\ q.expected = task[t].expected
          /\ q.client = task[t].client /\ q.effect = task[t].effect /\ q.marker = task[t].marker
          /\ q.inventory = task[t].inventory /\ q.answer = task[t].answer
      <3>1. stage \in Stages
        BY DEF Stages
      <3> QED BY <2>2, <3>1, StageMoves
    <2> HIDE DEF q
    <2>4. ClockFits(q)
      BY <2>2, <2>3 DEF ClockFits
    <2>5. EffectSeen(q)
      BY <1>2, <2>2, <2>3 DEF EffectSeen, Listens
    <2>6. ClaimFits(q) /\ AnswerFits(q)
      BY <1>2, <2>2, <2>3 DEF ClaimFits, AnswerFits, Looked
    <2>7. q.stage # "done"
      BY <2>3
    <2> QED BY <1>2, <2>1, <2>3, <2>4, <2>5, <2>6, <2>7, OwnStep
  <1>3. CASE Acquire(t)
    BY <1>1, <1>2, <1>3 DEF Acquire, At
  <1>4. CASE Invoke(t)
    BY <1>1, <1>2, <1>4 DEF Invoke, At
  <1> QED BY <1>1, <1>3, <1>4 DEF ProfileGone, Fail, Break

\* run_container and read_logs take the client of the session that was named.
LEMMA ClientSteps ==
    ASSUME IInv, NEW t \in Tasks, Send(t) \/ Open(t) \/ Chunk(t)
    PROVE  IInv' /\ (Silent \/ Ends(t, "error"))
  <1> DEFINE r == task[t]
  <1>1. TaskFits(r) /\ ClockFits(r) /\ EffectSeen(r) /\ ClaimFits(r) /\ AnswerFits(r)
        /\ client \in Nat
    BY DEF IInv, TypeOK, TasksFit
  <1> HIDE DEF r
  <1>2. CASE Ends(t, "error")
    BY <1>2, EndStep
  <1>3. ASSUME NEW q, TaskFits(q), r.stage \notin {"marked", "waiting", "failed", "shown"},
               q.stage \notin {"marked", "waiting", "failed", "shown"}, q.kind = r.kind,
               q.stage \in Looked => r.stage \in Looked,
               q.expected = r.expected, q.effect = r.effect, q.marker = r.marker,
               q.inventory = r.inventory, q.client \in {r.client, r.expected},
               r.stage # "done", q.answer = r.answer,
               q.stage \in {"sent", "performed"} => r.kind \in {"action", "lifecycle"},
               q.stage # "done",
               task' = [task EXCEPT ![t] = q], UNCHANGED <<runtime, inventory>>
        PROVE  IInv' /\ Silent
    <2>1. ClockFits(q)
      BY <1>1, <1>3 DEF ClockFits
    <2>2. EffectSeen(q)
      BY <1>1, <1>3 DEF EffectSeen, Listens
    <2>3. ClaimFits(q) /\ AnswerFits(q)
      BY <1>1, <1>3 DEF ClaimFits, AnswerFits
    <2> QED BY <1>3, <2>1, <2>2, <2>3, OwnStep
  <1>4. CASE Send(t) /\ HasClient(t)
    <2> DEFINE a == [r EXCEPT !.stage = "sent"]
               b == [a EXCEPT !.client = client]
    <2>1. /\ a = [r EXCEPT !.stage = "sent"] /\ b = [a EXCEPT !.client = client]
          /\ task' = [task EXCEPT ![t] = b] /\ UNCHANGED <<runtime, inventory>>
      BY <1>4, Zenon DEF Send, Goes, r
    <2> HIDE DEF a, b
    <2>2. /\ r.stage = "rechecked" /\ r.kind = "action" /\ client = r.expected
          /\ "sent" \in Stages /\ "rechecked" \in Looked
      BY <1>4 DEF Send, At, HasClient, r, Stages, Looked
    <2>3. TaskFits(a) /\ a.stage = "sent" /\ a.kind = r.kind /\ a.expected = r.expected
          /\ a.effect = r.effect /\ a.marker = r.marker /\ a.inventory = r.inventory
          /\ a.answer = r.answer
      BY <1>1, <2>1, <2>2, StageMoves
    <2>4. TaskFits(b) /\ b.stage = "sent" /\ b.kind = r.kind /\ b.expected = r.expected
          /\ b.effect = r.effect /\ b.marker = r.marker /\ b.inventory = r.inventory
          /\ b.answer = r.answer
          /\ b.client = r.expected
      BY <1>1, <2>1, <2>2, <2>3 DEF TaskFits
    <2> QED BY <1>3, <2>1, <2>2, <2>4
  <1>5. CASE Open(t) /\ ~Ends(t, "error")
    <2>1. PICK w \in Wires :
             Goes(t, [task[t] EXCEPT !.stage = "reading", !.client = client, !.wire = w.bytes,
                                     !.reader = Reader(w.multiplexed)])
      BY <1>5, Zenon DEF Open
    <2> DEFINE a == [r EXCEPT !.stage = "reading"]
               b == [a EXCEPT !.client = client]
               c == [b EXCEPT !.wire = w.bytes]
               d == [c EXCEPT !.reader = Reader(w.multiplexed)]
    <2>2. /\ a = [r EXCEPT !.stage = "reading"] /\ b = [a EXCEPT !.client = client]
          /\ c = [b EXCEPT !.wire = w.bytes] /\ d = [c EXCEPT !.reader = Reader(w.multiplexed)]
          /\ task' = [task EXCEPT ![t] = d] /\ UNCHANGED <<runtime, inventory>>
      BY <2>1, Zenon DEF Goes, r
    <2> HIDE DEF a, b, c, d
    <2>3. /\ r.stage = "rechecked" /\ client = r.expected
          /\ "reading" \in Stages /\ "rechecked" \in Looked
      BY <1>5 DEF Open, At, HasClient, r, Stages, Looked
    <2>4. TaskFits(a) /\ a.stage = "reading" /\ a.kind = r.kind /\ a.expected = r.expected
          /\ a.effect = r.effect /\ a.marker = r.marker /\ a.inventory = r.inventory
          /\ a.answer = r.answer
      BY <1>1, <2>2, <2>3, StageMoves
    <2>5. TaskFits(b) /\ b.stage = "reading" /\ b.kind = r.kind /\ b.expected = r.expected
          /\ b.effect = r.effect /\ b.marker = r.marker /\ b.inventory = r.inventory
          /\ b.answer = r.answer
          /\ b.client = r.expected
      BY <1>1, <2>2, <2>3, <2>4 DEF TaskFits
    <2>6. TaskFits(c) /\ c.stage = "reading" /\ c.kind = r.kind /\ c.expected = r.expected
          /\ c.effect = r.effect /\ c.marker = r.marker /\ c.inventory = r.inventory
          /\ c.answer = r.answer
          /\ c.client = r.expected
      BY <1>1, <2>2, <2>5 DEF TaskFits
    <2>7. TaskFits(d) /\ d.stage = "reading" /\ d.kind = r.kind /\ d.expected = r.expected
          /\ d.effect = r.effect /\ d.marker = r.marker /\ d.inventory = r.inventory
          /\ d.answer = r.answer
          /\ d.client = r.expected
      BY <1>1, <2>2, <2>6 DEF TaskFits
    <2> QED BY <1>3, <2>2, <2>3, <2>7
  <1>6. CASE Chunk(t) /\ ~Ends(t, "error")
    <2>1. PICK value : Goes(t, [task[t] EXCEPT !.reader = value])
      BY <1>6, Zenon DEF Chunk
    <2> DEFINE q == [r EXCEPT !.reader = value]
    <2>2. /\ q = [r EXCEPT !.reader = value]
          /\ task' = [task EXCEPT ![t] = q] /\ UNCHANGED <<runtime, inventory>>
      BY <2>1, Zenon DEF Goes, r
    <2> HIDE DEF q
    <2>3. r.stage = "reading"
      BY <1>6 DEF Chunk, At, r
    <2>4. TaskFits(q) /\ q.stage = r.stage /\ q.kind = r.kind /\ q.expected = r.expected
          /\ q.effect = r.effect /\ q.marker = r.marker /\ q.inventory = r.inventory
          /\ q.answer = r.answer
          /\ q.client = r.client
      BY <1>1, <2>2, ReaderMoves
    <2> QED BY <1>3, <2>2, <2>3, <2>4
  <1> QED BY <1>2, <1>4, <1>5, <1>6 DEF Send

\* The change is the newest version of Docker.
LEMMA PerformStep == ASSUME IInv, NEW t \in Tasks, Perform(t) PROVE IInv' /\ Silent
  <1> DEFINE r == task[t]
  <1>1. TaskFits(r) /\ ClockFits(r) /\ EffectSeen(r) /\ ClaimFits(r) /\ AnswerFits(r)
        /\ r.stage = "sent"
    BY DEF IInv, TypeOK, TasksFit, Perform
  <1>2. PICK version \in {daemon.version, daemon.version + 1} \cap 0 .. MaxVersion :
           /\ daemon' = [daemon EXCEPT !.version = version]
           /\ task' = [task EXCEPT ![t].stage = "performed", ![t].effect = version]
    BY Zenon DEF Perform
  <1> DEFINE a == [r EXCEPT !.stage = "performed"]
             b == [a EXCEPT !.effect = version]
             m == [task EXCEPT ![t] = a]
  <1>3. /\ a = [r EXCEPT !.stage = "performed"] /\ b = [a EXCEPT !.effect = version]
        /\ task' = [task EXCEPT ![t] = b]
    <2>1. m = [task EXCEPT ![t].stage = "performed"]
      BY Zenon
    <2>2. task' = [m EXCEPT ![t] = [m[t] EXCEPT !.effect = version]]
      BY <1>2, <2>1, Zenon
    <2>3. DOMAIN task = Tasks /\ task = [u \in Tasks |-> task[u]]
      BY DEF IInv, TypeOK
    <2> HIDE DEF a
    <2>4. m[t] = a
      BY <2>3
    <2>5. task' = [m EXCEPT ![t] = b]
      BY <2>2, <2>4
    <2> HIDE DEF b
    <2>6. [m EXCEPT ![t] = b] = [task EXCEPT ![t] = b]
      BY <2>3
    <2> QED BY <2>5, <2>6 DEF a, b
  <1> HIDE DEF r, a, b, m
  <1>4. /\ daemon \in [version : Nat, present : BOOLEAN] /\ version \in Nat
        /\ daemon.version <= version /\ order \in Nat
    BY <1>2 DEF IInv, TypeOK
  <1>5. /\ daemon' \in [version : Nat, present : BOOLEAN] /\ daemon'.version = version
        /\ daemon.version <= daemon'.version
        /\ UNCHANGED <<client, ready, sessions, list, current, order>>
    BY <1>2, <1>4 DEF Perform, inventory
  <1>6. "performed" \in Stages /\ {"sent", "performed"} \subseteq Looked
    BY DEF Stages, Looked
  <1>7. TaskFits(a) /\ a.stage = "performed" /\ a.kind = r.kind /\ a.expected = r.expected
        /\ a.client = r.client /\ a.marker = r.marker /\ a.inventory = r.inventory
        /\ a.answer = r.answer
    BY <1>1, <1>3, <1>6, StageMoves
  <1>8. TaskFits(b) /\ b.stage = "performed" /\ b.kind = r.kind /\ b.expected = r.expected
        /\ b.client = r.client /\ b.marker = r.marker /\ b.inventory = r.inventory
        /\ b.answer = r.answer
        /\ b.effect = version
    BY <1>3, <1>4, <1>7 DEF TaskFits
  <1>9. b.effect <= daemon'.version /\ b.marker <= order' /\ order <= order' /\ order' \in Nat
    BY <1>1, <1>4, <1>5, <1>8 DEF ClockFits
  <1>10. EffectSeen(b)
    BY <1>1, <1>8 DEF EffectSeen, Listens
  <1>11. ClaimFits(b) /\ AnswerFits(b)
    BY <1>1, <1>6, <1>8 DEF ClaimFits, AnswerFits
  <1> QED BY <1>3, <1>5, <1>8, <1>9, <1>10, <1>11, TaskStep

\* The marker is later than every list that is in flight.
LEMMA AcknowledgeStep == ASSUME IInv, NEW t \in Tasks, Acknowledge(t) PROVE IInv' /\ Silent
  <1> DEFINE r == task[t]
             a == [r EXCEPT !.stage = "marked"]
             b == [a EXCEPT !.marker = order + 1]
             m == [task EXCEPT ![t] = a]
  <1>1. TaskFits(r) /\ ClockFits(r) /\ EffectSeen(r) /\ ClaimFits(r) /\ AnswerFits(r)
        /\ r.stage = "performed"
    BY DEF IInv, TypeOK, TasksFit, Acknowledge
  <1>2. /\ a = [r EXCEPT !.stage = "marked"] /\ b = [a EXCEPT !.marker = order + 1]
        /\ task' = [task EXCEPT ![t] = b]
    <2>1. m = [task EXCEPT ![t].stage = "marked"]
      BY Zenon
    <2>2. task' = [m EXCEPT ![t] = [m[t] EXCEPT !.marker = order + 1]]
      BY <2>1, Zenon DEF Acknowledge
    <2>3. DOMAIN task = Tasks /\ task = [u \in Tasks |-> task[u]]
      BY DEF IInv, TypeOK
    <2> HIDE DEF a
    <2>4. m[t] = a
      BY <2>3
    <2>5. task' = [m EXCEPT ![t] = b]
      BY <2>2, <2>4
    <2> HIDE DEF b
    <2>6. [m EXCEPT ![t] = b] = [task EXCEPT ![t] = b]
      BY <2>3
    <2> QED BY <2>5, <2>6 DEF a, b
  <1> HIDE DEF r, a, b, m
  <1>3. /\ UNCHANGED <<client, ready, sessions, daemon, list, current>>
        /\ order \in Nat /\ order' = order + 1
        /\ daemon \in [version : Nat, present : BOOLEAN]
        /\ list.order \in Nat /\ list.order <= order
    BY DEF Acknowledge, runtime, IInv, TypeOK, Lists, SessionsFit
  <1>4. "marked" \in Stages /\ {"performed", "marked"} \subseteq Looked
    BY DEF Stages, Looked
  <1>5. TaskFits(a) /\ a.stage = "marked" /\ a.kind = r.kind /\ a.expected = r.expected
        /\ a.client = r.client /\ a.effect = r.effect /\ a.inventory = r.inventory
        /\ a.answer = r.answer
    BY <1>1, <1>2, <1>4, StageMoves
  <1>6. TaskFits(b) /\ b.stage = "marked" /\ b.kind = r.kind /\ b.expected = r.expected
        /\ b.client = r.client /\ b.effect = r.effect /\ b.inventory = r.inventory
        /\ b.answer = r.answer
        /\ b.marker = order + 1
    <2>1. PICK n \in Nat : n = order + 1
      BY <1>3
    <2>2. b = [a EXCEPT !.marker = n]
      BY <1>2, <2>1
    <2> QED BY <1>5, <2>1, <2>2 DEF TaskFits
  <1>7. /\ b.effect <= daemon'.version /\ b.marker <= order' /\ order <= order'
        /\ order' \in Nat
        /\ daemon.version <= daemon'.version /\ daemon' \in [version : Nat, present : BOOLEAN]
    BY <1>1, <1>3, <1>6 DEF ClockFits
  <1>8. ~(list.order > b.marker)
    BY <1>3, <1>6
  <1>9. EffectSeen(b)
    BY <1>1, <1>6, <1>8 DEF EffectSeen
  <1>10. ClaimFits(b) /\ AnswerFits(b)
    BY <1>1, <1>4, <1>6 DEF ClaimFits, AnswerFits
  <1> QED BY <1>2, <1>3, <1>6, <1>7, <1>9, <1>10, TaskStep


\* refresh_after: only a later list will do.
LEMMA WaitStep == ASSUME IInv, NEW t \in Tasks, Wait(t) PROVE IInv' /\ Silent
  <1> DEFINE r == task[t]
             q == [r EXCEPT !.stage = "waiting"]
  <1>1. /\ TaskFits(r) /\ ClockFits(r) /\ EffectSeen(r) /\ ClaimFits(r) /\ AnswerFits(r)
        /\ r.stage = "marked" /\ list.order > r.marker
        /\ q = [r EXCEPT !.stage = "waiting"]
        /\ task' = [task EXCEPT ![t] = q] /\ UNCHANGED <<runtime, inventory>>
    BY DEF IInv, TypeOK, TasksFit, Wait, Suitable, Moves, Goes
  <1> HIDE DEF r, q
  <1>2. /\ "waiting" \in Stages /\ {"marked", "waiting"} \subseteq Looked
        /\ {"marked", "waiting"} \subseteq Listens
    BY DEF Stages, Looked, Listens
  <1>3. /\ TaskFits(q) /\ q.stage = "waiting" /\ q.kind = r.kind /\ q.expected = r.expected
        /\ q.client = r.client /\ q.effect = r.effect /\ q.marker = r.marker
        /\ q.inventory = r.inventory /\ q.answer = r.answer
    BY <1>1, <1>2, StageMoves
  <1>4. ClockFits(q)
    BY <1>1, <1>3 DEF ClockFits
  <1>5. EffectSeen(q)
    BY <1>1, <1>2, <1>3 DEF EffectSeen
  <1>6. ClaimFits(q) /\ AnswerFits(q)
    BY <1>1, <1>2, <1>3 DEF ClaimFits, AnswerFits
  <1> QED BY <1>1, <1>3, <1>4, <1>5, <1>6, OwnStep

\* After a list that failed a task takes the inventory that is published by then.
LEMMA ReadCurrentStep == ASSUME IInv, NEW t \in Tasks, ReadCurrent(t) PROVE IInv' /\ Silent
  <1> DEFINE r == task[t]
             published == Retained(t)
             q == Shown(r, "shown", published)
  <1>1. /\ TaskFits(r) /\ ClockFits(r) /\ EffectSeen(r) /\ ClaimFits(r) /\ AnswerFits(r)
        /\ r.stage = "failed"
        /\ UNCHANGED <<runtime, inventory>>
    BY DEF IInv, TypeOK, TasksFit, ReadCurrent, Goes
  <1>2. task' = [task EXCEPT ![t] = q] /\ q = Shown(r, "shown", published)
    BY Zenon DEF ReadCurrent, Goes, Shown
  <1>3. /\ published \in Inventories /\ published.session = current.session
        /\ published.freshness = "fresh" =>
              published.seen = current.seen /\ current.freshness = "fresh"
    BY DEF Retained, IInv, TypeOK, Inventories
  <1> HIDE DEF r, q, published
  <1>4. "shown" \in Stages /\ "failed" \in Looked
    BY DEF Stages, Looked
  <1>5. /\ TaskFits(q) /\ q.stage = "shown" /\ q.kind = r.kind /\ q.expected = r.expected
        /\ q.client = r.client /\ q.effect = r.effect /\ q.marker = r.marker
        /\ q.inventory = published /\ q.answer = r.answer
    BY <1>1, <1>2, <1>3, <1>4, InventoryMoves
  <1>6. ClockFits(q)
    BY <1>1, <1>5 DEF ClockFits
  <1>7. EffectSeen(q)
    BY <1>1, <1>3, <1>5 DEF EffectSeen, Listens
  <1>8. ClaimFits(q) /\ AnswerFits(q)
    BY <1>1, <1>3, <1>4, <1>5 DEF ClaimFits, AnswerFits, Looked, IInv, SessionsFit
  <1> QED BY <1>1, <1>2, <1>5, <1>6, <1>7, <1>8, OwnStep

\* Every step keeps the invariant, and a task ends only with an error, in the session
\* that its window named, or after its change was made.
Outspoken == \E t \in Tasks : Ends(t, "error") \/ Claims(t) \/ Conclude(t)

LEMMA InvStep == IInv /\ [Next]_vars => IInv' /\ (Silent \/ Outspoken)
  <1> SUFFICES ASSUME IInv, [Next]_vars PROVE IInv' /\ (Silent \/ Outspoken)
    OBVIOUS
  <1>1. ASSUME NEW t \in Tasks, Request(t) \/ Operate(t) PROVE IInv' /\ (Silent \/ Outspoken)
    BY <1>1, RequestStep, CheckSteps, HoldSteps, ClientSteps, PerformStep, AcknowledgeStep,
       WaitStep, ReadCurrentStep DEF Operate, Outspoken
  <1>2. CASE Transition \/ Change \/ StartList \/ Observe \/ Publish \/ LoseTouch
    BY <1>2, TransitionStep, ChangeStep, StartListStep, ObserveStep, PublishStep, LoseTouchStep
  <1>3. CASE UNCHANGED vars
    <2>1. UNCHANGED <<client, ready, sessions, daemon, order, list, current, task>>
      BY <1>3 DEF vars, runtime, inventory
    <2>2. Silent
      BY <2>1 DEF Silent
    <2> QED BY <2>1, <2>2 DEF IInv, TypeOK, TaskFits, SessionsFit, TasksFit, ClockFits,
            EffectSeen, ClaimFits, AnswerFits
  <1> QED BY <1>1, <1>2, <1>3 DEF Next

LEMMA Invariance == Spec => []IInv
  BY InvInit, InvStep, PTL DEF Spec

(***************************************************************************)
(* The theorems.                                                           *)
(***************************************************************************)
\* Whoever changed Docker and is answered with an inventory that calls itself fresh
\* sees its change in it: which list serves a refresh_after, and what is read after a
\* list that failed, never shows anything older.
THEOREM FreshnessIsCausal == Spec => FreshShowsEffect
  <1>1. IInv => \A t \in Tasks : task[t].inventory.freshness = "fresh" =>
                                   task[t].inventory.seen >= task[t].effect
    BY DEF IInv, TasksFit, EffectSeen
  <1>2. IInv /\ [Next]_vars =>
          [\A t \in Tasks : Answers(t) /\ task[t].inventory.freshness = "fresh"
              => task[t].inventory.seen >= task[t].effect]_vars
    BY <1>1
  <1> QED BY <1>2, Invariance, PTL DEF Spec, FreshShowsEffect

\* A task has at most one answer in a step, and it is the one that ends it.
LEMMA Answered ==
    ASSUME IInv, IInv', NEW t \in Tasks, NEW answer, Ends(t, answer),
           NEW u \in Tasks, Answers(u)
    PROVE  u = t /\ task'[t].answer = answer /\ answer # "error"
  <1> DEFINE q == [Idle EXCEPT !.stage = "done", !.answer = answer]
  <1>1. task' = [task EXCEPT ![t] = q]
    BY Zenon DEF Ends
  <1>2. q.answer = answer
    <2> DEFINE m == [Idle EXCEPT !.stage = "done"]
    <2>1. m = [Idle EXCEPT !.stage = "done"] /\ q = [m EXCEPT !.answer = answer]
      BY Zenon
    <2> HIDE DEF m, q
    <2> QED BY <2>1 DEF Idle
  <1> HIDE DEF q
  <1>3. \A v \in Tasks : task'[v] = IF v = t THEN q ELSE task[v]
    BY <1>1 DEF IInv, TypeOK
  <1>4. u = t
    <2>1. task[u].stage # "done" => task[u].answer = "none"
      BY DEF IInv, TasksFit, AnswerFits
    <2> QED BY <1>3, <2>1 DEF Answers
  <1> QED BY <1>2, <1>3, <1>4 DEF Answers

\* Nothing is claimed to be the doing of a session that did not do it: an action is
\* sent to the client of the session that its window named or to none, and what is
\* confirmed, read or opened was so while that session lasted.
THEOREM ClaimsAreOfTheSession == Spec => ClaimsHold
  <1>1. ASSUME IInv, [Next]_vars, NEW u \in Tasks, Answers(u), task[u].kind # "lifecycle"
        PROVE  /\ task[u].client \in {0, task[u].expected}
               /\ task'[u].answer # "indeterminate"
                     => /\ client = task[u].expected
                        /\ task[u].kind = "action" => task[u].inventory.session = client
    <2>0. IInv' /\ (Silent \/ Outspoken)
      BY <1>1, InvStep
    <2>1. /\ TaskFits(task[u]) /\ ClaimFits(task[u]) /\ AnswerFits(task[u])
          /\ AnswerFits(task[u])'
      BY <1>1, <2>0 DEF IInv, TypeOK, TasksFit
    <2>2. ~Silent
      BY <1>1, <2>1 DEF Silent, Answers, AnswerFits
    <2>3. PICK t \in Tasks : Ends(t, "error") \/ Claims(t) \/ Conclude(t)
      BY <2>0, <2>2 DEF Outspoken
    <2>4. task[u].client \in {0, task[u].expected}
      BY <2>1 DEF ClaimFits
    <2>5. CASE Ends(t, "error")
      BY <1>1, <2>0, <2>5, Answered
    <2>6. CASE Claims(t)
      <3>1. u = t
        BY <1>1, <2>0, <2>6, Answered DEF Claims
      <3> QED BY <2>4, <2>6, <3>1 DEF Claims, SessionHolds
    <2>7. CASE Conclude(t)
      <3>1. /\ u = t
            /\ task'[u].answer = IF task[t].kind = "action" THEN Observation(t) ELSE "ok"
        BY <1>1, <2>0, <2>7, Answered DEF Conclude
      <3>2. task[u].stage = "shown" /\ task[u].kind = "action"
        BY <1>1, <2>1, <2>7, <3>1 DEF Conclude, AnswerFits
      <3>3. CASE SessionHolds(t)
        <4>1. client # 0 /\ client = task[u].expected
          BY <3>1, <3>3 DEF SessionHolds
        <4>2. client = sessions
          BY <1>1, <4>1 DEF IInv, SessionsFit
        <4>3. task[u].inventory.session <= sessions
              /\ task[u].inventory.session >= task[u].expected
          BY <2>1, <3>2 DEF ClaimFits
        <4>4. task[u].inventory.session = client
          BY <2>1, <4>1, <4>2, <4>3 DEF TaskFits, Inventories
        <4> QED BY <2>4, <4>1, <4>4
      <3>4. CASE ~SessionHolds(t)
        BY <2>4, <3>1, <3>2, <3>4 DEF Observation
      <3> QED BY <3>3, <3>4
    <2> QED BY <2>3, <2>5, <2>6, <2>7
  <1>2. IInv /\ [Next]_vars =>
          [\A t \in Tasks :
             Answers(t) /\ task[t].kind # "lifecycle"
             => /\ task[t].client \in {0, task[t].expected}
                /\ task'[t].answer # "indeterminate"
                      => /\ client = task[t].expected
                         /\ task[t].kind = "action" => task[t].inventory.session = client]_vars
    BY <1>1
  <1> QED BY <1>2, Invariance, PTL DEF Spec, ClaimsHold
=============================================================================
