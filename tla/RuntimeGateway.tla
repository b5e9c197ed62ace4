---------------------------- MODULE RuntimeGateway ----------------------------
(***************************************************************************)
(* RuntimeGateway, crates/colui-adapters/src/runtime/gateway.rs.           *)
(*                                                                         *)
(* Callers connect, disconnect and reconnect the runtime session.  One of  *)
(* them at a time owns the active transition; those who come while it runs *)
(* join it, wait for it, cancel it or are refused.  Owners and Compose     *)
(* operations pass through one gate, a fair semaphore with one permit.     *)
(* Reads do not pass through it; they are in RuntimeOperations.            *)
(*                                                                         *)
(* An action is what one task does under the transition mutex, under the   *)
(* snapshot mutex or between two awaits.  Taking the mutex and queueing    *)
(* for the gate right after it are one action: no operation looks at the   *)
(* transition.  A gate that is closed cannot happen (nothing closes it).   *)
(***************************************************************************)
EXTENDS Naturals, Sequences

CONSTANTS Callers, Operations,
          None,            \* no owner
          EpochLimit,      \* bound: nobody calls once the epoch has reached it
          MaxSession       \* bound: sessions established

ASSUME LimitsAssumption == EpochLimit \in Nat /\ MaxSession \in Nat
ASSUME NoneAssumption == None \notin Callers
ASSUME ActorsAssumption == Callers \cap Operations = {}

VARIABLES
    transition,    \* TransitionState.active
    state,         \* Snapshot.state
    client,        \* Snapshot.client: the session of its SessionClient, or 0
    epoch,         \* Snapshot.generation
    sessions,      \* sessions established so far
    gate,          \* the Compose gate: its holder and those who queue behind it
    call,          \* what each caller of connect, disconnect and reconnect does
    compose        \* what each caller of run_profile does

snapshot == <<state, client, epoch>>
vars == <<transition, state, client, epoch, sessions, gate, call, compose>>

-----------------------------------------------------------------------------
(* State.                                                                  *)

State(kind, number) == [kind |-> kind, session |-> number]
Disconnected == State("disconnected", 0)
Failed == State("failed", 0)
Mismatch == State("mismatch", 0)        \* MismatchDetails has no session id
Ready(number) == State("ready", number)
States == [kind : {"disconnected", "failed", "mismatch", "ready"}, session : 0 .. MaxSession]

\* Two answers that are no states.
Conflict == State("conflict", 0)        \* operation_conflict
Lost == State("lost", 0)                \* the channel closed without a result

\* What establish returns: a state and its client.
Outcome(s, number) == [state |-> s, client |-> number]
Nothing == Outcome(Disconnected, 0)
Outcomes == [state : States, client : 0 .. MaxSession]

Kinds == {"connect", "disconnect", "reconnect"}
Active(kind, owner, cancelled, takeover) ==
    [kind |-> kind, owner |-> owner, cancelled |-> cancelled, takeover |-> takeover]
NoTransition == Active("none", None, FALSE, FALSE)

(***************************************************************************)
(* A call is in one of the stages                                          *)
(*   asking       about to lock the transition                             *)
(*   joined       subscribed to the transition's result (`completed`), or  *)
(*                to the result of the reconnect that takes it over        *)
(*   waiting      subscribed to a disconnect's result, then it asks again  *)
(*   answered     its result is there (idle: there was no call)            *)
(* and the transition's owner in one of                                    *)
(*   queued       for the gate                                             *)
(*   inside       the gate, establishing                                   *)
(*   established  back from establish                                      *)
(*   checking     past finish_connect                                      *)
(*   publishing   about to run finish_transition                           *)
(***************************************************************************)
OwnerStages == {"queued", "inside", "established", "checking", "publishing"}
Call(stage, want, takeover, made, result) ==
    [stage |-> stage, want |-> want, takeover |-> takeover, made |-> made,
     result |-> result]
Idle == Call("idle", "connect", FALSE, Nothing, Disconnected)
Asking(want) == Call("asking", want, FALSE, Nothing, Disconnected)
Joined(want, takeover) == Call("joined", want, takeover, Nothing, Disconnected)
Waiting(want) == Call("waiting", want, FALSE, Nothing, Disconnected)
Answered(want, result) == Call("answered", want, FALSE, Nothing, result)
Owning(stage, want, made) == Call(stage, want, FALSE, made, Disconnected)
Calls == [stage : {"idle", "asking", "joined", "waiting", "answered"} \cup OwnerStages,
          want : Kinds,
          takeover : BOOLEAN,
          made : Outcomes,
          result : States \cup {Conflict, Lost}]

NoRun == [stage |-> "idle", session |-> 0]

TypeOK ==
    /\ transition \in [kind : Kinds \cup {"none"}, owner : Callers \cup {None},
                       cancelled : BOOLEAN, takeover : BOOLEAN]
    /\ transition.takeover => transition.cancelled
    /\ transition.cancelled => transition.kind = "connect"
    /\ state \in States
    /\ client \in 0 .. MaxSession
    /\ epoch \in Nat
    /\ sessions \in 0 .. MaxSession
    /\ gate \in Seq(Callers \cup Operations)
    /\ call \in [Callers -> Calls]
    /\ compose \in [Operations -> [stage : {"idle", "queued", "running", "refused"},
                                   session : 0 .. MaxSession]]

Init ==
    /\ transition = NoTransition
    /\ state = Disconnected
    /\ client = 0
    /\ epoch = 0
    /\ sessions = 0
    /\ gate = <<>>
    /\ call = [c \in Callers |-> Idle]
    /\ compose = [o \in Operations |-> NoRun]

(***************************************************************************)
(* Next to an operator stands, where a property is about it, a faulty      *)
(* variant of it that a slip in the code could produce; no action uses it. *)
(***************************************************************************)

-----------------------------------------------------------------------------
(* A call finds the transition free, or somebody else's.                   *)

Request(c) ==
    /\ call[c].stage = "idle"
    /\ epoch < EpochLimit
    /\ \E want \in Kinds : call' = [call EXCEPT ![c] = Asking(want)]
    /\ UNCHANGED <<transition, snapshot, sessions, gate, compose>>

Asks(c, want) == call[c].stage = "asking" /\ call[c].want = want

\* Nothing but the call itself changes.
Moves(c, to) ==
    /\ call' = [call EXCEPT ![c] = to]
    /\ UNCHANGED <<transition, snapshot, sessions, gate, compose>>

\* Faulty: a call looks for an active connect only.
FreeOfConnect == transition.kind # "connect"
Free == transition.kind = "none"

\* install_transition, and the owner's first await.
Install(c, kind) ==
    /\ Free
    /\ transition' = Active(kind, c, FALSE, FALSE)
    /\ call' = [call EXCEPT ![c] = Owning("queued", kind, Nothing)]
    /\ gate' = Append(gate, c)
    /\ UNCHANGED <<snapshot, sessions, compose>>

Connect(c) ==
    /\ Asks(c, "connect")
    /\ \/ transition.kind \in {"connect", "reconnect"} /\ Moves(c, Joined("connect", FALSE))
       \/ transition.kind = "disconnect" /\ Moves(c, Waiting("connect"))
       \/ Free /\ state.kind = "ready" /\ Moves(c, Answered("connect", state))
       \/ state.kind # "ready" /\ Install(c, "connect")

\* Faulty: the flag is not set.
CancelNobody(takeover) ==
    transition' = Active(transition.kind, transition.owner, FALSE, takeover)
Cancel(takeover) ==
    transition' = Active(transition.kind, transition.owner, TRUE, takeover)

Cancellable == transition.kind = "connect" /\ ~transition.takeover

Disconnect(c) ==
    /\ Asks(c, "disconnect")
    /\ \/ /\ Cancellable
          /\ Cancel(transition.takeover)
          /\ call' = [call EXCEPT ![c] = Joined("disconnect", FALSE)]
          /\ UNCHANGED <<snapshot, sessions, gate, compose>>
       \/ transition.kind = "disconnect" /\ Moves(c, Joined("disconnect", FALSE))
       \/ /\ ~Cancellable
          /\ transition.kind \in {"connect", "reconnect"}
          /\ Moves(c, Answered("disconnect", Conflict))
       \/ Install(c, "disconnect")

Reconnect(c) ==
    /\ Asks(c, "reconnect")
    /\ \/ /\ transition.kind = "connect"
          /\ ~transition.takeover
          /\ Cancel(TRUE)
          /\ call' = [call EXCEPT ![c] = Joined("reconnect", TRUE)]
          /\ UNCHANGED <<snapshot, sessions, gate, compose>>
       \/ /\ transition.kind = "connect"
          /\ transition.takeover
          /\ Moves(c, Joined("reconnect", TRUE))
       \/ transition.kind = "disconnect" /\ Moves(c, Waiting("reconnect"))
       \/ transition.kind = "reconnect" /\ Moves(c, Joined("reconnect", FALSE))
       \/ Install(c, "reconnect")

Return(c) ==
    /\ call[c].stage = "answered"
    /\ Moves(c, Idle)

-----------------------------------------------------------------------------
(* The owner in the gate.                                                  *)

Holds(a) == gate # <<>> /\ Head(gate) = a

At(c, stage) == call[c].stage = stage
\* The owner's next stage, with what it has made so far.
Goes(c, stage, made) ==
    call' = [call EXCEPT ![c] = Owning(stage, call[c].want, made)]

Invalidate ==
    /\ client' = 0
    /\ epoch' = epoch + 1
    /\ state' = state

\* A reconnect invalidates the current client at once, a connect does not.
Enter(c) ==
    /\ At(c, "queued")
    /\ Holds(c)
    /\ transition.kind # "disconnect"
    /\ IF transition.kind = "reconnect" THEN Invalidate ELSE UNCHANGED snapshot
    /\ Goes(c, "inside", Nothing)
    /\ UNCHANGED <<transition, sessions, gate, compose>>

\* A disconnect drops the permit as soon as it has it.
PassGate(c) ==
    /\ At(c, "queued")
    /\ Holds(c)
    /\ transition.kind = "disconnect"
    /\ gate' = Tail(gate)
    /\ Goes(c, "publishing", Nothing)
    /\ UNCHANGED <<transition, snapshot, sessions, compose>>

\* establish, after the gate: the endpoint, the API or the CLI fails, or there is a session.
Establish(c) ==
    /\ At(c, "inside")
    /\ Holds(c)
    /\ gate' = Tail(gate)
    /\ \/ Goes(c, "established", Outcome(Failed, 0)) /\ sessions' = sessions
       \/ /\ sessions < MaxSession
          /\ sessions' = sessions + 1
          /\ \E s \in {Ready(sessions + 1), Mismatch} :
               Goes(c, "established", Outcome(s, sessions + 1))
    /\ UNCHANGED <<transition, snapshot, compose>>

-----------------------------------------------------------------------------
(* The owner finishes.                                                     *)

\* finish_connect: a reconnect has taken over.  Those who joined the connect are
\* told Disconnected, those who joined the takeover now wait for `completed`.
\* Faulty: ... they are told so too, or still wait for the channel they joined.
HandOverToNobody(d) ==
    IF call[d].stage = "joined" THEN Answered(call[d].want, Disconnected) ELSE call[d]
HandOverNothing(d) ==
    IF call[d].stage = "joined" /\ ~call[d].takeover
    THEN Answered(call[d].want, Disconnected)
    ELSE call[d]
HandOver(d) ==
    CASE call[d].stage = "joined" /\ call[d].takeover -> Joined(call[d].want, FALSE)
      [] call[d].stage = "joined" /\ ~call[d].takeover -> Answered(call[d].want, Disconnected)
      [] OTHER -> call[d]

TakenOver(c) ==
    /\ At(c, "established")
    /\ transition.kind = "connect"
    /\ transition.cancelled
    /\ transition.takeover
    /\ transition' = Active("reconnect", c, FALSE, FALSE)
    /\ call' = [d \in Callers |-> IF d = c THEN Owning("queued", call[c].want, Nothing)
                                           ELSE HandOver(d)]
    /\ gate' = Append(gate, c)
    /\ UNCHANGED <<snapshot, sessions, compose>>

FinishConnect(c) ==
    /\ At(c, "established")
    /\ transition.kind = "connect"
    /\ ~(transition.cancelled /\ transition.takeover)
    /\ Goes(c, "checking", call[c].made)
    /\ UNCHANGED <<transition, snapshot, sessions, gate, compose>>

FinishEstablish(c) ==
    /\ \/ At(c, "checking")
       \/ At(c, "established") /\ transition.kind = "reconnect"
    /\ Goes(c, "publishing", IF transition.cancelled THEN Nothing ELSE call[c].made)
    /\ UNCHANGED <<transition, snapshot, sessions, gate, compose>>

\* Faulty: finish_transition does not look at the cancellation again.
PublishedAnyway(c) == call[c].made
Published(c) ==
    IF transition.kind = "connect" /\ transition.cancelled THEN Nothing ELSE call[c].made

\* The owner of a connect that was taken over is told Disconnected.
OwnResult(c) ==
    IF call[c].want = "connect" /\ transition.kind = "reconnect"
    THEN Disconnected
    ELSE Published(c).state

\* What the end of c's transition means to another call.  A takeover that came
\* after finish_connect is dropped with the transition, and its channel closes.
\* Faulty: the result is not sent.
ConcludeSilently(c, d) == call[d]
Conclude(c, d) ==
    CASE call[d].stage = "joined" /\ call[d].takeover -> Answered(call[d].want, Lost)
      [] call[d].stage = "joined" /\ ~call[d].takeover ->
           Answered(call[d].want, Published(c).state)
      [] call[d].stage = "waiting" -> Asking(call[d].want)
      [] OTHER -> call[d]

FinishTransition(c) ==
    /\ At(c, "publishing")
    /\ transition' = NoTransition
    /\ state' = Published(c).state
    /\ client' = Published(c).client
    /\ epoch' = epoch + 1
    /\ call' = [d \in Callers |-> IF d = c THEN Answered(call[c].want, OwnResult(c))
                                           ELSE Conclude(c, d)]
    /\ UNCHANGED <<sessions, gate, compose>>

-----------------------------------------------------------------------------
(* Compose operations: run_profile and invoke_loaded_profile.              *)

QueueRun(o) ==
    /\ compose[o].stage = "idle"
    /\ compose' = [compose EXCEPT ![o] = [stage |-> "queued", session |-> 0]]
    /\ gate' = Append(gate, o)
    /\ UNCHANGED <<transition, snapshot, sessions, call>>

Run(o) ==
    /\ compose[o].stage = "queued"
    /\ Holds(o)
    /\ state.kind = "ready"
    /\ compose' = [compose EXCEPT ![o] = [stage |-> "running", session |-> state.session]]
    /\ UNCHANGED <<transition, snapshot, sessions, gate, call>>

Leaves(o) ==
    /\ gate' = Tail(gate)
    /\ compose' = [compose EXCEPT ![o] = NoRun]
    /\ UNCHANGED <<transition, snapshot, sessions, call>>

\* It finds no session that is ready, and reads the state again to say why.
RefuseRun(o) ==
    /\ compose[o].stage = "queued"
    /\ Holds(o)
    /\ state.kind # "ready"
    /\ compose' = [compose EXCEPT ![o] = [stage |-> "refused", session |-> 0]]
    /\ UNCHANGED <<transition, snapshot, sessions, gate, call>>

\* The operation ends, returns its error, or panics; each drops the permit.
EndRun(o) ==
    /\ compose[o].stage \in {"running", "refused"}
    /\ Holds(o)
    /\ Leaves(o)

-----------------------------------------------------------------------------
Step(c) ==
    \/ Connect(c) \/ Disconnect(c) \/ Reconnect(c)
    \/ Enter(c) \/ PassGate(c) \/ Establish(c)
    \/ TakenOver(c) \/ FinishConnect(c) \/ FinishEstablish(c) \/ FinishTransition(c)

Next ==
    \/ \E c \in Callers : Request(c) \/ Step(c) \/ Return(c)
    \/ \E o \in Operations : QueueRun(o) \/ Run(o) \/ RefuseRun(o) \/ EndRun(o)

Spec == Init /\ [][Next]_vars

(* The runtime polls every task that is woken.  What an owner or an        *)
(* operation awaits in the gate ends: the CLI calls have deadlines of 30   *)
(* and 120 seconds, the Docker client a timeout of 120.  Nobody has to     *)
(* call, and an operation need not be requested.                           *)
Fairness ==
    /\ \A c \in Callers : WF_vars(Step(c))
    /\ \A o \in Operations : WF_vars(Run(o) \/ RefuseRun(o) \/ EndRun(o))
FairSpec == Spec /\ Fairness

-----------------------------------------------------------------------------
(* Safety.                                                                 *)

(* The owner of the active transition is the one call in an owner's stage, *)
(* and it has not been put aside for another: finish_connect and           *)
(* finish_transition expect it (gateway.rs:682, 751).                      *)
Owns(c) == call[c].stage \in OwnerStages
OwnerRetained ==
    /\ \A c \in Callers : Owns(c) <=> transition.kind # "none" /\ transition.owner = c
    /\ transition.kind # "none" => transition.owner # None

(* Nobody waits on a channel that no transition will answer: there is an   *)
(* active transition, a takeover for those who joined one, and a           *)
(* disconnect for those who wait for it before they go on.                 *)
WaitersServed ==
    \A c \in Callers :
        /\ At(c, "joined") => transition.kind # "none"
        /\ At(c, "joined") /\ call[c].takeover => transition.kind = "connect" /\ transition.takeover
        /\ At(c, "waiting") => transition.kind = "disconnect"

(* Once a connect is cancelled no step publishes a session for it, wherever *)
(* between the gate and finish_transition the cancellation arrives          *)
(* (disconnect_cancels_active_connect_without_publishing_ready).            *)
CancelledNeverPublishes ==
    [][transition.kind = "connect" /\ transition.cancelled => client' \in {0, client}]_vars

(* A disconnect that returns successfully has published Disconnected, or a  *)
(* reconnect that came after it has taken the transition over.              *)
Tells(c) == call'[c].stage = "answered" /\ call[c].stage # "answered"
TellsDisconnect(c) ==
    Tells(c) /\ call'[c].want = "disconnect" /\ call'[c].result # Conflict
DisconnectEffective ==
    [][\A c \in Callers : TellsDisconnect(c) =>
          \/ state' = Disconnected /\ client' = 0
          \/ transition'.kind = "reconnect" /\ transition.cancelled]_vars

(* The sessions that are over: neither published nor about to be.           *)
Gone == {s \in 1 .. sessions :
            s # client /\ \A c \in Callers : Owns(c) => call[c].made.client # s}
\* What each caller asked, or was told.
Answers ==
    [c \in Callers |->
        IF call[c].stage = "idle" THEN [told |-> FALSE, want |-> "nothing", result |-> Disconnected]
        ELSE [told |-> call[c].stage = "answered", want |-> call[c].want,
              result |-> call[c].result]]
Session == INSTANCE RuntimeSession WITH gone <- Gone, answer <- Answers

(* The gateway implements the abstract session: a session that is over      *)
(* never returns, the client belongs to the state, and a caller is told the *)
(* state published as it is answered.                                       *)
ImplementsSession == Session!Spec

(* "non-ready state has compose error" (gateway.rs:290): when an operation  *)
(* that found no ready session reads the state again, it is still not ready.*)
(* Owners publish after they have left the gate, so the operation behind    *)
(* them can see the state change between its two reads.                     *)
NonReadyHasError == \A o \in Operations : compose[o].stage = "refused" => state.kind # "ready"

(* "Connect transition active | ... | Cancel connect, await cleanup, then   *)
(* own fresh connect" (increment-5 design, line 205, of reconnect): what a  *)
(* reconnect is told is how a fresh connect ended.  finish_connect looks    *)
(* for a takeover once; one that comes after that only cancels the connect. *)
ReconnectOwnsFreshConnect ==
    \A c \in Callers : At(c, "answered") /\ call[c].want = "reconnect" =>
        call[c].result.kind \in {"ready", "mismatch", "failed"}

-----------------------------------------------------------------------------
(* Liveness: the owner of a transition and everyone who joined it or waits *)
(* for it is told a result, or may go on.                                  *)
Awaits(c) == Owns(c) \/ At(c, "joined") \/ At(c, "waiting")
TransitionsEnd == \A c \in Callers : Awaits(c) ~> At(c, "answered") \/ At(c, "asking")
=============================================================================
