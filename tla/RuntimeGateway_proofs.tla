------------------------ MODULE RuntimeGateway_proofs ------------------------
(***************************************************************************)
(* Proofs about RuntimeGateway, for any callers and Compose operations and *)
(* any number of calls and sessions.                                       *)
(***************************************************************************)
EXTENDS RuntimeGateway, TLAPS

USE LimitsAssumption, NoneAssumption, ActorsAssumption

(***************************************************************************)
(* The invariant.                                                          *)
(***************************************************************************)
Matches(s, k) == Session!Matches(s, k)

\* A call that waits was told nothing yet.
PendingFits == \A c \in Callers : ~At(c, "answered") => call[c].result = Disconnected

\* What the owner carries belongs to its transition: a disconnect makes nothing,
\* and a connect that was taken over is a reconnect by its owner's own hand.
OwnerFits ==
    \A c \in Callers : Owns(c) =>
        /\ call[c].want = transition.kind \/ (call[c].want = "connect" /\ transition.kind = "reconnect")
        /\ call[c].stage \in {"queued", "inside"} => call[c].made = Nothing
        /\ transition.kind = "disconnect" =>
              call[c].stage \in {"queued", "publishing"} /\ call[c].made = Nothing
        /\ Matches(call[c].made.state, call[c].made.client)

\* What the owner made is a session that nobody has seen.
MadeFresh ==
    \A c \in Callers : Owns(c) =>
        /\ call[c].made.client <= sessions
        /\ call[c].made.client # 0 => call[c].made.client # client

\* Who joined a transition asked for what it does: a disconnect has cancelled
\* it, and a reconnect does not join a connect but takes it over.
JoinFits ==
    \A c \in Callers : At(c, "joined") =>
        /\ call[c].takeover => call[c].want = "reconnect"
        /\ call[c].want = "disconnect" =>
              transition.kind = "disconnect" \/ (transition.kind = "connect" /\ transition.cancelled)
        /\ ~call[c].takeover /\ transition.kind = "connect" => call[c].want # "reconnect"

\* The client belongs to the state, except while a reconnect looks for another.
SnapshotFits ==
    /\ client <= sessions
    /\ Matches(state, client) \/ (transition.kind = "reconnect" /\ client = 0)

IInv == /\ TypeOK /\ OwnerRetained /\ WaitersServed
        /\ PendingFits /\ OwnerFits /\ MadeFresh /\ JoinFits /\ SnapshotFits

(***************************************************************************)
(* The data.                                                               *)
(***************************************************************************)
LEMMA Constants ==
    /\ Disconnected \in States /\ Failed \in States /\ Mismatch \in States
    /\ \A n \in 0 .. MaxSession : Ready(n) \in States
    /\ Disconnected # Conflict
    /\ \A s \in States, n \in 0 .. MaxSession :
         /\ Outcome(s, n) \in Outcomes
         /\ Outcome(s, n).state = s /\ Outcome(s, n).client = n
    /\ Nothing \in Outcomes /\ Nothing.state = Disconnected /\ Nothing.client = 0
    /\ Matches(Disconnected, 0) /\ Matches(Failed, 0)
    /\ \A n \in 1 .. MaxSession : Matches(Ready(n), n) /\ Matches(Mismatch, n)
  BY DEF Disconnected, Failed, Mismatch, Ready, State, States, Conflict, Outcome, Outcomes,
         Nothing, Matches, Session!Matches

\* The calls that a step makes: what they wait for, and what they carry.
LEMMA IdleCall == Idle \in Calls /\ Idle.stage = "idle" /\ Idle.result = Disconnected
  <1>1. Disconnected \in States /\ Nothing \in Outcomes
    BY Constants
  <1> QED BY <1>1 DEF Calls, Kinds, Idle, Call, OwnerStages

LEMMA AskingCall ==
    ASSUME NEW want \in Kinds
    PROVE  /\ Asking(want) \in Calls
           /\ Asking(want).stage = "asking"
           /\ Asking(want).want = want
           /\ Asking(want).result = Disconnected
  <1>1. Disconnected \in States /\ Nothing \in Outcomes
    BY Constants
  <1> QED BY <1>1 DEF Calls, Asking, Call, OwnerStages

LEMMA JoinedCall ==
    ASSUME NEW want \in Kinds, NEW takeover \in BOOLEAN
    PROVE  /\ Joined(want, takeover) \in Calls
           /\ Joined(want, takeover).stage = "joined"
           /\ Joined(want, takeover).want = want
           /\ Joined(want, takeover).takeover = takeover
           /\ Joined(want, takeover).result = Disconnected
  <1>1. Disconnected \in States /\ Nothing \in Outcomes
    BY Constants
  <1> QED BY <1>1 DEF Calls, Joined, Call, OwnerStages

LEMMA WaitingCall ==
    ASSUME NEW want \in Kinds
    PROVE  /\ Waiting(want) \in Calls
           /\ Waiting(want).stage = "waiting"
           /\ Waiting(want).want = want
           /\ Waiting(want).result = Disconnected
  <1>1. Disconnected \in States /\ Nothing \in Outcomes
    BY Constants
  <1> QED BY <1>1 DEF Calls, Waiting, Call, OwnerStages

LEMMA AnsweredCall ==
    ASSUME NEW want \in Kinds, NEW result \in States \cup {Conflict, Lost}
    PROVE  /\ Answered(want, result) \in Calls
           /\ Answered(want, result).stage = "answered"
           /\ Answered(want, result).want = want
           /\ Answered(want, result).result = result
  <1>1. Disconnected \in States /\ Nothing \in Outcomes
    BY Constants
  <1> QED BY <1>1 DEF Calls, Answered, Call, OwnerStages

LEMMA OwningCall ==
    ASSUME NEW stage \in OwnerStages, NEW want \in Kinds, NEW made \in Outcomes
    PROVE  /\ Owning(stage, want, made) \in Calls
           /\ Owning(stage, want, made).stage = stage
           /\ Owning(stage, want, made).want = want
           /\ Owning(stage, want, made).made = made
           /\ Owning(stage, want, made).result = Disconnected
  <1>1. Disconnected \in States /\ Nothing \in Outcomes
    BY Constants
  <1> QED BY <1>1 DEF Calls, Owning, Call, OwnerStages

LEMMA CallUpdate ==
    ASSUME TypeOK, NEW c \in Callers, NEW to \in Calls, call' = [call EXCEPT ![c] = to]
    PROVE  /\ call' \in [Callers -> Calls]
           /\ \A d \in Callers : call'[d] = IF d = c THEN to ELSE call[d]
  <1> QED BY DEF TypeOK

LEMMA GateUpdate ==
    ASSUME TypeOK, NEW a \in Callers \cup Operations
    PROVE  /\ Append(gate, a) \in Seq(Callers \cup Operations)
           /\ Holds(a) => Tail(gate) \in Seq(Callers \cup Operations)
  BY DEF TypeOK, Holds

(***************************************************************************)
(* The steps.                                                              *)
(***************************************************************************)
LEMMA InvInit == Init => IInv
  <1> SUFFICES ASSUME Init PROVE IInv
    OBVIOUS
  <1> USE DEF Init
  <1>1. TypeOK
    <2>1. call \in [Callers -> Calls]
      <3>1. Idle \in Calls
        BY IdleCall, Constants DEF Kinds, OwnerStages
      <3> QED BY <3>1
    <2>2. state \in States
      BY Constants
    <2>3. compose \in [Operations -> [stage : {"idle", "queued", "running", "refused"},
                                       session : 0 .. MaxSession]]
      BY DEF NoRun
    <2> QED BY <2>1, <2>2, <2>3 DEF TypeOK, NoTransition, Active, Kinds
  <1>2. \A c \in Callers : call[c].stage = "idle" /\ call[c].result = Disconnected
    BY DEF Idle, Call
  <1>3. OwnerRetained /\ WaitersServed
    BY <1>2 DEF OwnerRetained, WaitersServed, Owns, At, OwnerStages, NoTransition, Active
  <1>4. PendingFits /\ OwnerFits /\ MadeFresh /\ JoinFits
    BY <1>2 DEF PendingFits, OwnerFits, MadeFresh, JoinFits, Owns, At, OwnerStages
  <1>5. SnapshotFits
    BY Constants DEF SnapshotFits
  <1> QED BY <1>1, <1>3, <1>4, <1>5 DEF IInv

\* A call that owns nothing goes on, or its answer is taken, and the transition
\* stays, but for a cancellation.
LEMMA MoveStep ==
    ASSUME IInv, NEW c \in Callers, NEW to \in Calls, ~Owns(c),
           call' = [call EXCEPT ![c] = to],
           UNCHANGED <<snapshot, sessions, gate, compose>>,
           transition' \in [kind : Kinds \cup {"none"}, owner : Callers \cup {None},
                            cancelled : BOOLEAN, takeover : BOOLEAN],
           transition'.kind = transition.kind, transition'.owner = transition.owner,
           transition.cancelled => transition'.cancelled,
           transition.takeover => transition'.takeover,
           transition'.takeover => transition'.cancelled,
           transition'.cancelled => transition.kind = "connect",
           to.stage \in {"idle", "asking", "joined", "waiting", "answered"},
           to.stage # "answered" => to.result = Disconnected,
           to.stage = "waiting" => transition.kind = "disconnect",
           to.stage = "joined" =>
             /\ transition.kind # "none"
             /\ to.takeover => to.want = "reconnect" /\ transition.kind = "connect"
                               /\ transition'.takeover
             /\ to.want = "disconnect" =>
                  transition.kind = "disconnect" \/ (transition.kind = "connect" /\ transition'.cancelled)
             /\ ~to.takeover /\ transition.kind = "connect" => to.want # "reconnect"
    PROVE  IInv'
  <1> USE DEF IInv
  <1>1. /\ call' \in [Callers -> Calls]
        /\ \A d \in Callers : call'[d] = IF d = c THEN to ELSE call[d]
    BY CallUpdate
  <1>2. TypeOK'
    BY <1>1 DEF TypeOK, snapshot
  <1>3. OwnerRetained'
    BY <1>1 DEF OwnerRetained, Owns, OwnerStages
  <1>4. WaitersServed'
    BY <1>1 DEF WaitersServed, At, TypeOK
  <1>5. PendingFits'
    BY <1>1 DEF PendingFits, At
  <1>6. OwnerFits' /\ MadeFresh'
    BY <1>1 DEF OwnerFits, MadeFresh, Owns, OwnerStages, snapshot
  <1>7. JoinFits'
    BY <1>1 DEF JoinFits, At
  <1>8. SnapshotFits'
    BY DEF SnapshotFits, snapshot
  <1> QED BY <1>2, <1>3, <1>4, <1>5, <1>6, <1>7, <1>8

\* The calls of connect, disconnect and reconnect that do not start a transition.
LEMMA AskSteps ==
    ASSUME IInv, NEW c \in Callers,
           \/ Request(c) \/ Return(c)
           \/ Connect(c) /\ ~Install(c, "connect")
           \/ Disconnect(c) /\ ~Install(c, "disconnect")
           \/ Reconnect(c) /\ ~Install(c, "reconnect")
    PROVE  IInv'
  <1> USE DEF IInv
  <1>1. call[c].want \in Kinds /\ {"connect", "disconnect", "reconnect"} \subseteq Kinds
    BY DEF TypeOK, Calls, Kinds
  <1>2. transition.kind \in Kinds \cup {"none"} /\ transition.owner \in Callers \cup {None}
        /\ transition.cancelled \in BOOLEAN /\ transition.takeover \in BOOLEAN
    BY DEF TypeOK
  <1>3. transition.takeover => transition.cancelled
    BY DEF TypeOK
  <1>4. transition.cancelled => transition.kind = "connect"
    BY DEF TypeOK
  <1>5. state \in States /\ Conflict \in States \cup {Conflict, Lost}
    BY DEF TypeOK
  <1>6. ~Owns(c)
    BY DEF Request, Return, Connect, Disconnect, Reconnect, Asks, Owns, OwnerStages
  <1> DEFINE Kept(to) ==
               /\ call' = [call EXCEPT ![c] = to]
               /\ UNCHANGED <<transition, snapshot, sessions, gate, compose>>
             Cancels(to, takeover) ==
               /\ call' = [call EXCEPT ![c] = to]
               /\ transition' = Active(transition.kind, transition.owner, TRUE, takeover)
               /\ UNCHANGED <<snapshot, sessions, gate, compose>>
  <1>7. ASSUME NEW want \in Kinds, Kept(Asking(want)) PROVE IInv'
    BY <1>6, <1>7, AskingCall, Constants, MoveStep, <1>2, <1>3, <1>4 DEF TypeOK, OwnerStages
  <1>8. ASSUME Kept(Idle) PROVE IInv'
    BY <1>6, <1>8, <1>1, IdleCall, Constants, MoveStep, <1>2, <1>3, <1>4 DEF TypeOK, OwnerStages
  <1>9. ASSUME NEW want \in Kinds, Kept(Waiting(want)), transition.kind = "disconnect" PROVE IInv'
    BY <1>6, <1>9, WaitingCall, Constants, MoveStep, <1>2, <1>3, <1>4 DEF TypeOK, OwnerStages
  <1>10. ASSUME NEW want \in Kinds, NEW result \in States \cup {Conflict, Lost},
                Kept(Answered(want, result))
         PROVE  IInv'
    <2> DEFINE to == Answered(want, result)
    <2>1. to \in Calls /\ to.stage = "answered"
      BY AnsweredCall
    <2>2. Kept(to)
      BY <1>10
    <2> HIDE DEF to
    <2> QED BY <1>2, <1>3, <1>4, <1>6, <2>1, <2>2, MoveStep DEF TypeOK
  <1>11. ASSUME NEW want \in Kinds, Kept(Joined(want, FALSE)), transition.kind \in Kinds,
                want = "disconnect" => transition.kind = "disconnect",
                want = "reconnect" => transition.kind = "reconnect"
         PROVE  IInv'
    BY <1>6, <1>11, JoinedCall, Constants, MoveStep, <1>2, <1>3, <1>4 DEF TypeOK, OwnerStages, Kinds
  <1>12. ASSUME Kept(Joined("reconnect", TRUE)), transition.kind = "connect", transition.takeover
         PROVE  IInv'
    <2> DEFINE to == Joined("reconnect", TRUE)
    <2>1. /\ to \in Calls /\ to.stage = "joined" /\ to.want = "reconnect" /\ to.takeover
          /\ to.result = Disconnected
      BY <1>1, JoinedCall
    <2>2. Kept(to)
      BY <1>12
    <2> HIDE DEF to
    <2> QED BY <1>2, <1>3, <1>4, <1>6, <1>12, <2>1, <2>2, MoveStep, ZenonT(60) DEF TypeOK
  <1>13. ASSUME Cancels(Joined("reconnect", TRUE), TRUE), transition.kind = "connect"
         PROVE  IInv'
    BY <1>1, <1>6, <1>13, JoinedCall, Constants, MoveStep, <1>2, <1>3, <1>4, ZenonT(60) DEF TypeOK, OwnerStages, Active
  <1>14. ASSUME Cancels(Joined("disconnect", FALSE), transition.takeover), transition.kind = "connect"
         PROVE  IInv'
    <2> DEFINE to == Joined("disconnect", FALSE)
    <2>1. /\ to \in Calls /\ to.stage = "joined" /\ to.want = "disconnect" /\ ~to.takeover
          /\ to.result = Disconnected
      BY <1>1, JoinedCall
    <2>2. Cancels(to, transition.takeover)
      BY <1>14
    <2> HIDE DEF to
    <2>3. /\ transition' \in [kind : Kinds \cup {"none"}, owner : Callers \cup {None},
                              cancelled : BOOLEAN, takeover : BOOLEAN]
          /\ transition'.kind = transition.kind /\ transition'.owner = transition.owner
          /\ transition'.cancelled /\ transition'.takeover = transition.takeover
      BY <1>2, <2>2 DEF Active
    <2> QED BY <1>2, <1>3, <1>4, <1>6, <1>14, <2>1, <2>2, <2>3, MoveStep
  <1>15. CASE Request(c)
    BY <1>7, <1>15 DEF Request
  <1>16. CASE Return(c)
    BY <1>8, <1>16 DEF Return, Moves
  <1>17. CASE Connect(c) /\ ~Install(c, "connect")
    BY <1>1, <1>5, <1>9, <1>10, <1>11, <1>17 DEF Connect, Moves, Kinds
  <1>18. CASE Disconnect(c) /\ ~Install(c, "disconnect")
    BY <1>1, <1>5, <1>10, <1>11, <1>14, <1>18 DEF Disconnect, Cancellable, Cancel, Moves
  <1>19. CASE Reconnect(c) /\ ~Install(c, "reconnect")
    BY <1>1, <1>9, <1>11, <1>12, <1>13, <1>19 DEF Reconnect, Cancel, Moves
  <1> QED BY <1>15, <1>16, <1>17, <1>18, <1>19

\* The free transition is installed.
LEMMA InstallStep ==
    ASSUME IInv, NEW c \in Callers, NEW kind \in Kinds, Asks(c, kind), Install(c, kind)
    PROVE  IInv'
  <1> USE DEF IInv
  <1> DEFINE to == Owning("queued", kind, Nothing)
  <1>1. to \in Calls /\ to.stage = "queued" /\ to.want = kind /\ to.made = Nothing
        /\ to.result = Disconnected
    BY Constants, OwningCall DEF OwnerStages
  <1> HIDE DEF to
  <1>2. call' = [call EXCEPT ![c] = to]
    BY DEF Install, to
  <1>3. /\ call' \in [Callers -> Calls]
        /\ \A d \in Callers : call'[d] = IF d = c THEN to ELSE call[d]
    BY <1>1, <1>2, CallUpdate
  <1>4. transition.kind = "none" /\ transition'.kind = kind /\ transition'.owner = c
        /\ ~transition'.cancelled /\ ~transition'.takeover
    BY DEF Install, Free, Active
  <1>5. ~Owns(c) /\ \A d \in Callers : ~Owns(d)
    BY <1>4 DEF OwnerRetained
  <1>6. UNCHANGED <<snapshot, sessions, compose>> /\ gate' = Append(gate, c)
    BY DEF Install
  <1>7. TypeOK'
    <2>1. transition' \in [kind : Kinds \cup {"none"}, owner : Callers \cup {None},
                           cancelled : BOOLEAN, takeover : BOOLEAN]
      BY DEF Install, Active
    <2>2. gate' \in Seq(Callers \cup Operations)
      BY <1>6, GateUpdate
    <2> QED BY <1>3, <1>4, <1>6, <2>1, <2>2 DEF TypeOK, snapshot
  <1>8. OwnerRetained'
    BY <1>1, <1>3, <1>4, <1>5 DEF OwnerRetained, Owns, OwnerStages, Kinds
  <1>9. WaitersServed' /\ JoinFits'
    BY <1>1, <1>3, <1>4 DEF WaitersServed, JoinFits, At
  <1>10. PendingFits'
    BY <1>1, <1>3 DEF PendingFits, At
  <1>11. OwnerFits' /\ MadeFresh'
    <2>1. \A d \in Callers : Owns(d)' => d = c
      BY <1>3, <1>5 DEF Owns
    <2>2. call'[c] = to /\ Nothing.client = 0 /\ Matches(Nothing.state, Nothing.client)
      BY <1>3, Constants
    <2>3. sessions' \in Nat
      BY <1>6 DEF TypeOK
    <2> QED BY <1>1, <1>4, <2>1, <2>2, <2>3 DEF OwnerFits, MadeFresh
  <1>12. SnapshotFits'
    BY <1>4, <1>6 DEF SnapshotFits, snapshot
  <1> QED BY <1>7, <1>8, <1>9, <1>10, <1>11, <1>12

\* The owner goes on with what it has made.
LEMMA OwnerStep ==
    ASSUME IInv, NEW c \in Callers, Owns(c),
           NEW stage \in OwnerStages, NEW made \in Outcomes, Goes(c, stage, made),
           UNCHANGED <<transition, state, compose>>,
           client' = client \/ (client' = 0 /\ transition.kind = "reconnect"),
           epoch' \in Nat, gate' \in Seq(Callers \cup Operations),
           sessions' \in 0 .. MaxSession, sessions <= sessions',
           stage \in {"queued", "inside"} => made = Nothing,
           transition.kind = "disconnect" => stage \in {"queued", "publishing"} /\ made = Nothing,
           Matches(made.state, made.client),
           made.client <= sessions', made.client # 0 => made.client # client'
    PROVE  IInv'
  <1> USE DEF IInv
  <1> DEFINE to == Owning(stage, call[c].want, made)
  <1>1. call[c].want \in Kinds
    BY DEF TypeOK, Calls
  <1>2. to \in Calls /\ to.stage = stage /\ to.want = call[c].want /\ to.made = made
        /\ to.result = Disconnected
    BY <1>1, Constants, OwningCall
  <1> HIDE DEF to
  <1>3. call' = [call EXCEPT ![c] = to]
    BY DEF Goes, to
  <1>4. /\ call' \in [Callers -> Calls]
        /\ \A d \in Callers : call'[d] = IF d = c THEN to ELSE call[d]
    BY <1>2, <1>3, CallUpdate
  <1>5. \A d \in Callers : Owns(d) => d = c
    BY DEF OwnerRetained
  <1>6. TypeOK'
    BY <1>4 DEF TypeOK
  <1>7. OwnerRetained'
    BY <1>2, <1>4 DEF OwnerRetained, Owns
  <1>8. WaitersServed' /\ JoinFits' /\ PendingFits'
    BY <1>2, <1>4 DEF WaitersServed, JoinFits, PendingFits, At, OwnerStages
  <1>9. OwnerFits' /\ MadeFresh'
    BY <1>2, <1>4, <1>5 DEF OwnerFits, MadeFresh, Owns
  <1>10. SnapshotFits'
    <2>1. client \in Nat /\ sessions \in Nat /\ sessions' \in Nat
      BY DEF TypeOK
    <2>2. CASE client' = client
      BY <2>1, <2>2 DEF SnapshotFits
    <2>3. CASE client' = 0 /\ transition.kind = "reconnect"
      BY <2>1, <2>3 DEF SnapshotFits
    <2> QED BY <2>2, <2>3
  <1> QED BY <1>6, <1>7, <1>8, <1>9, <1>10

LEMMA OwnerSteps ==
    ASSUME IInv, NEW c \in Callers,
           Enter(c) \/ PassGate(c) \/ Establish(c) \/ FinishConnect(c) \/ FinishEstablish(c)
    PROVE  IInv'
  <1> USE DEF IInv
  <1> DEFINE made == call[c].made
  <1>1. Owns(c)
    BY DEF Enter, PassGate, Establish, FinishConnect, FinishEstablish, At, Owns, OwnerStages
  <1>2. /\ gate \in Seq(Callers \cup Operations)
        /\ Holds(c) => Tail(gate) \in Seq(Callers \cup Operations)
    BY GateUpdate DEF TypeOK
  <1>3. epoch \in Nat /\ sessions \in 0 .. MaxSession /\ client \in 0 .. MaxSession
        /\ client <= sessions
    BY DEF TypeOK, SnapshotFits
  <1>4. /\ made \in Outcomes /\ made.client <= sessions /\ (made.client # 0 => made.client # client)
        /\ Matches(made.state, made.client)
        /\ transition.kind = "disconnect" => made = Nothing
    BY <1>1 DEF TypeOK, Calls, OwnerFits, MadeFresh
  <1>5. OwnerStages = {"queued", "inside", "established", "checking", "publishing"}
    BY DEF OwnerStages
  <1>6. /\ Nothing \in Outcomes /\ Nothing.client = 0 /\ Matches(Nothing.state, Nothing.client)
    BY Constants
  <1>7. CASE Enter(c)
    <2>1. /\ Goes(c, "inside", Nothing) /\ UNCHANGED <<transition, sessions, gate, compose>>
          /\ transition.kind # "disconnect"
      BY <1>7 DEF Enter
    <2>2. CASE transition.kind = "reconnect"
      <3>1. client' = 0 /\ epoch' = epoch + 1 /\ state' = state
        BY <1>7, <2>2 DEF Enter, Invalidate
      <3> QED BY <1>1, <1>2, <1>3, <1>5, <1>6, <2>1, <2>2, <3>1, OwnerStep
    <2>3. CASE transition.kind # "reconnect"
      <3>1. UNCHANGED <<state, client, epoch>>
        BY <1>7, <2>3 DEF Enter, snapshot
      <3> QED BY <1>1, <1>2, <1>3, <1>5, <1>6, <2>1, <3>1, OwnerStep
    <2> QED BY <2>2, <2>3
  <1>8. CASE PassGate(c)
    <2>1. /\ Goes(c, "publishing", Nothing) /\ gate' = Tail(gate) /\ Holds(c)
          /\ UNCHANGED <<transition, state, client, epoch, sessions, compose>>
      BY <1>8 DEF PassGate, snapshot
    <2> QED BY <1>1, <1>2, <1>3, <1>5, <1>6, <2>1, OwnerStep
  <1>9. CASE Establish(c)
    <2>1. /\ gate' = Tail(gate) /\ Holds(c)
          /\ UNCHANGED <<transition, state, client, epoch, compose>>
      BY <1>9 DEF Establish, snapshot
    <2>2. transition.kind # "disconnect"
      BY <1>1, <1>9 DEF Establish, At, OwnerFits
    <2>3. CASE Goes(c, "established", Outcome(Failed, 0)) /\ sessions' = sessions
      <3> DEFINE new == Outcome(Failed, 0)
      <3>1. new \in Outcomes /\ new.client = 0 /\ Matches(new.state, new.client)
        BY <1>3, Constants
      <3> HIDE DEF new
      <3>2. Goes(c, "established", new)
        BY <2>3 DEF new
      <3> QED BY <1>1, <1>2, <1>3, <1>5, <2>1, <2>2, <2>3, <3>1, <3>2, OwnerStep
    <2>4. ASSUME sessions < MaxSession, sessions' = sessions + 1,
                 NEW s \in {Ready(sessions + 1), Mismatch},
                 Goes(c, "established", Outcome(s, sessions + 1))
          PROVE  IInv'
      <3> DEFINE new == Outcome(s, sessions + 1)
      <3>1. /\ new \in Outcomes /\ new.client = sessions + 1
            /\ Matches(new.state, new.client)
        BY <1>3, <2>4, Constants
      <3>2. sessions + 1 \in 0 .. MaxSession /\ sessions + 1 # client
        BY <1>3, <2>4
      <3>3. Goes(c, "established", new)
        BY <2>4
      <3> HIDE DEF new
      <3> QED BY <1>1, <1>2, <1>3, <1>5, <2>1, <2>2, <2>4, <3>1, <3>2, <3>3, OwnerStep
    <2> QED BY <1>9, <2>3, <2>4 DEF Establish
  <1>10. CASE FinishConnect(c)
    <2>1. /\ Goes(c, "checking", made) /\ transition.kind = "connect"
          /\ UNCHANGED <<transition, state, client, epoch, sessions, gate, compose>>
      BY <1>10 DEF FinishConnect, snapshot
    <2> HIDE DEF made
    <2> QED BY <1>1, <1>2, <1>3, <1>4, <1>5, <2>1, OwnerStep
  <1>11. CASE FinishEstablish(c)
    <2> DEFINE new == IF transition.cancelled THEN Nothing ELSE made
    <2>1. /\ Goes(c, "publishing", new)
          /\ UNCHANGED <<transition, state, client, epoch, sessions, gate, compose>>
      BY <1>11 DEF FinishEstablish, snapshot
    <2>2. /\ new \in Outcomes /\ new.client <= sessions /\ (new.client # 0 => new.client # client)
          /\ Matches(new.state, new.client)
          /\ transition.kind = "disconnect" => new = Nothing
      BY <1>3, <1>4, <1>6
    <2> HIDE DEF new
    <2> QED BY <1>1, <1>2, <1>3, <1>5, <2>1, <2>2, OwnerStep
  <1> QED BY <1>7, <1>8, <1>9, <1>10, <1>11

\* A reconnect has taken over: the owner stays, and queues again.
LEMMA TakenOverStep ==
    ASSUME IInv, NEW c \in Callers, TakenOver(c)
    PROVE  IInv'
  <1> USE DEF IInv
  <1> DEFINE to == Owning("queued", call[c].want, Nothing)
  <1>1. /\ Owns(c) /\ transition.kind = "connect"
        /\ transition'.kind = "reconnect" /\ transition'.owner = c
        /\ ~transition'.cancelled /\ ~transition'.takeover
    BY DEF TakenOver, At, Owns, OwnerStages, Active
  <1>2. call[c].want = "connect"
    BY <1>1 DEF OwnerFits
  <1>3. to \in Calls /\ to.stage = "queued" /\ to.want = "connect" /\ to.made = Nothing
        /\ to.result = Disconnected
    BY <1>2, Constants, OwningCall DEF OwnerStages, Kinds
  <1> HIDE DEF to
  <1>4. call' = [d \in Callers |-> IF d = c THEN to ELSE HandOver(d)]
    BY DEF TakenOver, to
  <1>5. \A d \in Callers : ~At(d, "joined") => HandOver(d) = call[d]
    BY DEF HandOver, At
  <1>6. \A d \in Callers : At(d, "joined") =>
          /\ HandOver(d) \in Calls /\ HandOver(d).result = Disconnected
          /\ HandOver(d).stage \in {"joined", "answered"}
          /\ HandOver(d).stage = "joined" => HandOver(d).want = "reconnect" /\ ~HandOver(d).takeover
    <2> TAKE d \in Callers
    <2>1. call[d].want \in Kinds
      BY DEF TypeOK, Calls
    <2>2. CASE call[d].stage = "joined" /\ call[d].takeover
      <3>1. call[d].want = "reconnect" /\ HandOver(d) = Joined(call[d].want, FALSE)
        BY <2>2 DEF HandOver, JoinFits, At
      <3>2. Joined(call[d].want, FALSE) \in Calls
            /\ Joined(call[d].want, FALSE).stage = "joined"
            /\ Joined(call[d].want, FALSE).want = call[d].want
            /\ Joined(call[d].want, FALSE).takeover = FALSE
            /\ Joined(call[d].want, FALSE).result = Disconnected
        BY <2>1, Constants, JoinedCall DEF OwnerStages
      <3> QED BY <3>1, <3>2
    <2>3. CASE call[d].stage = "joined" /\ ~call[d].takeover
      <3>1. HandOver(d) = Answered(call[d].want, Disconnected)
        BY <2>3 DEF HandOver
      <3> QED BY <2>1, <3>1, Constants, AnsweredCall DEF OwnerStages
    <2> QED BY <2>2, <2>3 DEF At
  <1>7. UNCHANGED <<snapshot, sessions, compose>> /\ gate' = Append(gate, c)
    BY DEF TakenOver
  <1>8. \A d \in Callers : d # c => ~Owns(d)
    BY <1>1 DEF OwnerRetained
  <1>9. call' \in [Callers -> Calls]
    <2>1. \A d \in Callers : call[d] \in Calls
      BY DEF TypeOK
    <2> QED BY <1>3, <1>4, <1>5, <1>6, <2>1
  <1>10. TypeOK'
    <2>1. transition' \in [kind : Kinds \cup {"none"}, owner : Callers \cup {None},
                           cancelled : BOOLEAN, takeover : BOOLEAN]
      BY DEF TakenOver, Active, Kinds
    <2>2. gate' \in Seq(Callers \cup Operations)
      BY <1>7, GateUpdate
    <2> QED BY <1>1, <1>7, <1>9, <2>1, <2>2 DEF TypeOK, snapshot
  <1>11. \A d \in Callers : d # c => ~(call'[d].stage \in OwnerStages)
    BY <1>4, <1>5, <1>6, <1>8 DEF Owns, OwnerStages
  <1>12. call'[c] = to
    BY <1>4
  <1>13. OwnerRetained'
    BY <1>1, <1>3, <1>11, <1>12 DEF OwnerRetained, Owns, OwnerStages
  <1>14. WaitersServed'
    BY <1>1, <1>3, <1>4, <1>5, <1>6 DEF WaitersServed, At
  <1>15. JoinFits'
    BY <1>1, <1>3, <1>4, <1>5, <1>6 DEF JoinFits, At
  <1>16. PendingFits'
    BY <1>3, <1>4, <1>5, <1>6 DEF PendingFits, At
  <1>17. OwnerFits' /\ MadeFresh'
    BY <1>1, <1>3, <1>7, <1>11, <1>12, Constants DEF OwnerFits, MadeFresh, Owns, TypeOK, snapshot
  <1>18. SnapshotFits'
    BY <1>1, <1>7 DEF SnapshotFits, snapshot
  <1> QED BY <1>10, <1>13, <1>14, <1>15, <1>16, <1>17, <1>18

\* What a transition publishes is a session with its client, or nothing.
LEMMA PublishedFits ==
    ASSUME IInv, NEW c \in Callers, Owns(c)
    PROVE  /\ Published(c) \in Outcomes
           /\ Published(c) \in {Nothing, call[c].made}
           /\ Published(c).state \in States /\ Published(c).client \in 0 .. MaxSession
           /\ Matches(Published(c).state, Published(c).client)
           /\ Published(c).client <= sessions
           /\ OwnResult(c) \in {Published(c).state, Disconnected}
           /\ transition.kind = "disconnect" \/ transition.cancelled => Published(c) = Nothing
  <1> USE DEF IInv
  <1> DEFINE made == call[c].made
  <1>1. /\ made \in Outcomes /\ Matches(made.state, made.client) /\ made.client <= sessions
        /\ transition.kind = "disconnect" => made = Nothing
    BY DEF TypeOK, Calls, OwnerFits, MadeFresh
  <1>2. sessions \in Nat /\ (transition.cancelled => transition.kind = "connect")
    BY DEF TypeOK
  <1>3. /\ Nothing \in Outcomes /\ Nothing.client = 0 /\ Matches(Nothing.state, Nothing.client)
    BY Constants
  <1>4. Published(c) = IF transition.kind = "connect" /\ transition.cancelled THEN Nothing ELSE made
    BY DEF Published
  <1>5. OwnResult(c) \in {Published(c).state, Disconnected}
    BY DEF OwnResult
  <1> HIDE DEF made
  <1>6. /\ Published(c) \in Outcomes /\ Matches(Published(c).state, Published(c).client)
        /\ Published(c).client <= sessions
    BY <1>1, <1>2, <1>3, <1>4
  <1>7. Published(c).state \in States /\ Published(c).client \in 0 .. MaxSession
    BY <1>6 DEF Outcomes
  <1> QED BY <1>1, <1>2, <1>4, <1>5, <1>6, <1>7 DEF made

\* What becomes of the other calls as a transition ends.
LEMMA ConcludeFits ==
    ASSUME IInv, NEW c \in Callers, Owns(c), NEW d \in Callers
    PROVE  /\ Conclude(c, d) \in Calls
           /\ Conclude(c, d).want = call[d].want
           /\ Conclude(c, d).stage = IF At(d, "joined") THEN "answered"
                                     ELSE IF At(d, "waiting") THEN "asking" ELSE call[d].stage
           /\ ~At(d, "joined") => Conclude(c, d).result = call[d].result
           /\ At(d, "joined") /\ call[d].takeover => Conclude(c, d).result = Lost
           /\ At(d, "joined") /\ ~call[d].takeover => Conclude(c, d).result = Published(c).state
  <1> USE DEF IInv
  <1>1. call[d].want \in Kinds /\ call[d].takeover \in BOOLEAN /\ call[d] \in Calls
    BY DEF TypeOK, Calls
  <1>2. Published(c).state \in States
    BY PublishedFits
  <1>3. CASE At(d, "joined") /\ call[d].takeover
    <2>1. Conclude(c, d) = Answered(call[d].want, Lost)
      BY <1>3 DEF Conclude, At
    <2> QED BY <1>1, <1>3, <2>1, AnsweredCall DEF At
  <1>4. CASE At(d, "joined") /\ ~call[d].takeover
    <2>1. Conclude(c, d) = Answered(call[d].want, Published(c).state)
      BY <1>4 DEF Conclude, At
    <2> QED BY <1>1, <1>2, <1>4, <2>1, AnsweredCall DEF At
  <1>5. CASE At(d, "waiting")
    <2>1. Conclude(c, d) = Asking(call[d].want)
      BY <1>5 DEF Conclude, At
    <2>2. call[d].result = Disconnected
      BY <1>5 DEF PendingFits, At
    <2> QED BY <1>1, <1>5, <2>1, <2>2, AskingCall DEF At
  <1>6. CASE ~At(d, "joined") /\ ~At(d, "waiting")
    <2>1. Conclude(c, d) = call[d]
      BY <1>6 DEF Conclude, At
    <2> QED BY <1>1, <1>6, <2>1 DEF At
  <1> QED BY <1>1, <1>3, <1>4, <1>5, <1>6

LEMMA FinishStep ==
    ASSUME IInv, NEW c \in Callers, FinishTransition(c)
    PROVE  IInv'
  <1> USE DEF IInv
  <1> DEFINE to == Answered(call[c].want, OwnResult(c))
  <1>1. Owns(c)
    BY DEF FinishTransition, At, Owns, OwnerStages
  <1>2. to \in Calls /\ to.stage = "answered"
    <2>1. call[c].want \in Kinds
      BY DEF TypeOK, Calls
    <2>2. OwnResult(c) \in States \cup {Conflict, Lost}
      BY <1>1, PublishedFits, Constants
    <2> QED BY <2>1, <2>2, AnsweredCall
  <1> HIDE DEF to
  <1>3. call' = [d \in Callers |-> IF d = c THEN to ELSE Conclude(c, d)]
    BY DEF FinishTransition, to
  <1>4. /\ transition' = NoTransition /\ UNCHANGED <<sessions, gate, compose>>
        /\ state' = Published(c).state /\ client' = Published(c).client /\ epoch' = epoch + 1
    BY DEF FinishTransition
  <1>5. \A d \in Callers : Conclude(c, d) \in Calls
    BY <1>1, ConcludeFits
  <1>6. \A d \in Callers : d # c => ~(call[d].stage \in OwnerStages)
    BY <1>1 DEF OwnerRetained, Owns
  <1>7. \A d \in Callers : call'[d].stage \notin OwnerStages \cup {"joined", "waiting"}
    <2> TAKE d \in Callers
    <2>1. CASE d = c
      BY <1>2, <1>3, <2>1 DEF OwnerStages
    <2>2. CASE d # c
      <3>1. call'[d] = Conclude(c, d)
        BY <1>3, <2>2
      <3>2. Conclude(c, d).stage = IF At(d, "joined") THEN "answered"
                                   ELSE IF At(d, "waiting") THEN "asking" ELSE call[d].stage
        BY <1>1, ConcludeFits
      <3> QED BY <1>6, <2>2, <3>1, <3>2 DEF OwnerStages, At
    <2> QED BY <2>1, <2>2
  <1>8. TypeOK'
    <2>1. call' \in [Callers -> Calls]
      BY <1>2, <1>3, <1>5
    <2>2. transition' \in [kind : Kinds \cup {"none"}, owner : Callers \cup {None},
                           cancelled : BOOLEAN, takeover : BOOLEAN]
          /\ ~transition'.takeover /\ ~transition'.cancelled
      BY <1>4 DEF NoTransition, Active
    <2> QED BY <1>1, <1>4, <2>1, <2>2, PublishedFits DEF TypeOK
  <1>9. OwnerRetained' /\ WaitersServed'
    BY <1>4, <1>7 DEF OwnerRetained, WaitersServed, Owns, At, NoTransition, Active
  <1>10. OwnerFits' /\ MadeFresh' /\ JoinFits'
    BY <1>7 DEF OwnerFits, MadeFresh, JoinFits, Owns, At
  <1>11. PendingFits'
    <2> SUFFICES ASSUME NEW d \in Callers, call'[d].stage # "answered"
                 PROVE  call'[d].result = Disconnected
      BY DEF PendingFits, At
    <2>1. d # c /\ call'[d] = Conclude(c, d)
      BY <1>2, <1>3
    <2>2. ~At(d, "joined") /\ ~At(d, "answered") /\ Conclude(c, d).result = call[d].result
      BY <1>1, <2>1, ConcludeFits DEF At
    <2> QED BY <2>1, <2>2 DEF PendingFits
  <1>12. SnapshotFits'
    BY <1>1, <1>4, PublishedFits DEF SnapshotFits
  <1> QED BY <1>8, <1>9, <1>10, <1>11, <1>12

LEMMA ComposeStep ==
    ASSUME IInv, NEW o \in Operations, QueueRun(o) \/ Run(o) \/ RefuseRun(o) \/ EndRun(o)
    PROVE  IInv'
  <1> USE DEF IInv
  <1>1. UNCHANGED <<transition, state, client, epoch, sessions, call>>
    BY DEF QueueRun, Run, RefuseRun, EndRun, Leaves, snapshot
  <1>2. gate' \in Seq(Callers \cup Operations)
    <2>1. /\ gate \in Seq(Callers \cup Operations)
          /\ Append(gate, o) \in Seq(Callers \cup Operations)
          /\ Holds(o) => Tail(gate) \in Seq(Callers \cup Operations)
      BY GateUpdate DEF TypeOK
    <2> QED BY <2>1 DEF QueueRun, Run, RefuseRun, EndRun, Leaves
  <1>3. compose' \in [Operations -> [stage : {"idle", "queued", "running", "refused"},
                                     session : 0 .. MaxSession]]
    <2>1. state.session \in 0 .. MaxSession
      BY DEF TypeOK, States
    <2> QED BY <2>1, SMTT(30) DEF TypeOK, QueueRun, Run, RefuseRun, EndRun, Leaves, NoRun
  <1>4. TypeOK'
    BY <1>1, <1>2, <1>3 DEF TypeOK
  <1>5. OwnerRetained' /\ WaitersServed' /\ PendingFits'
    BY <1>1 DEF OwnerRetained, WaitersServed, PendingFits, Owns, At
  <1>6. OwnerFits' /\ MadeFresh' /\ JoinFits' /\ SnapshotFits'
    BY <1>1 DEF OwnerFits, MadeFresh, JoinFits, SnapshotFits, Owns, At
  <1> QED BY <1>4, <1>5, <1>6

\* A caller's step is one of these.
LEMMA CallerSteps ==
    ASSUME NEW c \in Callers, Request(c) \/ Step(c) \/ Return(c)
    PROVE  \/ \/ Request(c) \/ Return(c)
              \/ Connect(c) /\ ~Install(c, "connect")
              \/ Disconnect(c) /\ ~Install(c, "disconnect")
              \/ Reconnect(c) /\ ~Install(c, "reconnect")
           \/ \E kind \in Kinds : Asks(c, kind) /\ Install(c, kind)
           \/ Enter(c) \/ PassGate(c) \/ Establish(c) \/ FinishConnect(c) \/ FinishEstablish(c)
           \/ TakenOver(c)
           \/ FinishTransition(c)
  BY DEF Step, Connect, Disconnect, Reconnect, Kinds

LEMMA InvStep == IInv /\ [Next]_vars => IInv'
  <1> SUFFICES ASSUME IInv, [Next]_vars PROVE IInv'
    OBVIOUS
  <1>1. CASE UNCHANGED vars
    BY <1>1 DEF IInv, TypeOK, OwnerRetained, WaitersServed, PendingFits, OwnerFits, MadeFresh,
         JoinFits, SnapshotFits, Owns, At, vars, snapshot
  <1>2. ASSUME NEW c \in Callers, Request(c) \/ Step(c) \/ Return(c) PROVE IInv'
    BY <1>2, CallerSteps, AskSteps, InstallStep, OwnerSteps, TakenOverStep, FinishStep
  <1>3. ASSUME NEW o \in Operations, QueueRun(o) \/ Run(o) \/ RefuseRun(o) \/ EndRun(o) PROVE IInv'
    BY <1>3, ComposeStep
  <1> QED BY <1>1, <1>2, <1>3 DEF Next

LEMMA Invariance == Spec => []IInv
  BY InvInit, InvStep, PTL DEF Spec

(***************************************************************************)
(* What the invariant says.                                                *)
(***************************************************************************)
\* Every variable keeps its type; a cancelled transition is a connect.
THEOREM TypeCorrect == Spec => []TypeOK
  BY Invariance, PTL DEF IInv

\* finish_connect and finish_transition find the transition that they own, and no
\* second call ever believes that it owns it.
THEOREM OwnerUnique == Spec => []OwnerRetained
  BY Invariance, PTL DEF IInv

\* Whoever joined a transition, took it over or waits for it has a transition that
\* will answer it: none of the channels is left behind.
THEOREM NobodyLeftWaiting == Spec => []WaitersServed
  BY Invariance, PTL DEF IInv

(***************************************************************************)
(* What a step never does.                                                 *)
(***************************************************************************)
\* A connect that was cancelled publishes no session, wherever between the gate
\* and finish_transition the cancellation found it.
THEOREM CancelledConnectPublishesNothing == Spec => CancelledNeverPublishes
  <1>1. IInv /\ [Next]_vars =>
          [transition.kind = "connect" /\ transition.cancelled => client' \in {0, client}]_vars
    <2> SUFFICES ASSUME IInv, [Next]_vars, transition.kind = "connect", transition.cancelled,
                        client' # client
                 PROVE  client' = 0
      OBVIOUS
    <2>1. PICK c \in Callers : Enter(c) \/ FinishTransition(c)
      BY DEF Next, vars, Request, Step, Return, Connect, Disconnect, Reconnect, Install, Moves,
             PassGate, Establish, TakenOver, FinishConnect, FinishEstablish,
             QueueRun, Run, RefuseRun, EndRun, Leaves, snapshot
    <2>2. CASE Enter(c)
      BY <2>2 DEF Enter, Invalidate, snapshot
    <2>3. CASE FinishTransition(c)
      <3>1. client' = Published(c).client
        BY <2>3 DEF FinishTransition
      <3>2. Published(c) = Nothing
        BY DEF Published
      <3> QED BY <3>1, <3>2, Constants
    <2> QED BY <2>1, <2>2, <2>3
  <1> QED BY <1>1, Invariance, PTL DEF Spec, CancelledNeverPublishes

\* The steps of the calls by what they do to the call itself: it asks, returns, joins
\* or waits, is answered at once, or the transition is its own.
LEMMA CallSteps ==
    ASSUME IInv, NEW c \in Callers,
           \/ Request(c) \/ Return(c)
           \/ Connect(c) /\ ~Install(c, "connect")
           \/ Disconnect(c) /\ ~Install(c, "disconnect")
           \/ Reconnect(c) /\ ~Install(c, "reconnect")
    PROVE  /\ ~Owns(c) /\ UNCHANGED <<snapshot, sessions>>
           /\ \E to \in Calls :
                /\ call' = [call EXCEPT ![c] = to]
                /\ to.stage \notin OwnerStages
                /\ \/ call[c].stage = "idle" /\ \E want \in Kinds : to = Asking(want)
                   \/ call[c].stage = "answered" /\ to = Idle
                   \/ /\ call[c].stage = "asking"
                      /\ to.stage \in {"joined", "waiting"}
                      /\ to.want = call[c].want /\ to.result = Disconnected
                   \/ /\ Asks(c, "connect") /\ transition.kind = "none" /\ state.kind = "ready"
                      /\ to = Answered("connect", state)
                   \/ Asks(c, "disconnect") /\ to = Answered("disconnect", Conflict)
  <1> USE DEF IInv
  <1>1. {"connect", "disconnect", "reconnect"} \subseteq Kinds /\ state \in States
    BY DEF TypeOK, Kinds
  <1>2. ~Owns(c)
    BY DEF Request, Return, Connect, Disconnect, Reconnect, Asks, Owns, OwnerStages
  <1>3. UNCHANGED <<snapshot, sessions>>
    BY DEF Request, Return, Connect, Disconnect, Reconnect, Moves
  <1> DEFINE Becomes(to) == call' = [call EXCEPT ![c] = to]
  <1>4. \/ call[c].stage = "idle" /\ \E want \in Kinds : Becomes(Asking(want))
        \/ call[c].stage = "answered" /\ Becomes(Idle)
        \/ /\ call[c].stage = "asking" /\ call[c].want \in Kinds
           /\ \/ \E takeover \in BOOLEAN : Becomes(Joined(call[c].want, takeover))
              \/ Becomes(Waiting(call[c].want))
        \/ /\ Asks(c, "connect") /\ transition.kind = "none" /\ state.kind = "ready"
           /\ Becomes(Answered("connect", state))
        \/ Asks(c, "disconnect") /\ Becomes(Answered("disconnect", Conflict))
    <2>1. CASE Request(c) \/ Return(c)
      BY <2>1 DEF Request, Return, Moves
    <2>2. CASE Connect(c) /\ ~Install(c, "connect")
      BY <1>1, <2>2 DEF Connect, Moves, Asks, Free
    <2>3. CASE Disconnect(c) /\ ~Install(c, "disconnect")
      BY <1>1, <2>3 DEF Disconnect, Moves, Asks
    <2>4. CASE Reconnect(c) /\ ~Install(c, "reconnect")
      BY <1>1, <2>4 DEF Reconnect, Moves, Asks
    <2> QED BY <2>1, <2>2, <2>3, <2>4
  <1> DEFINE Good(to) == to \in Calls /\ to.stage \notin OwnerStages
  <1>5. CASE call[c].stage = "idle" /\ \E want \in Kinds : Becomes(Asking(want))
    <2>1. \A want \in Kinds : Good(Asking(want))
      BY AskingCall DEF OwnerStages
    <2> QED BY <1>2, <1>3, <1>5, <2>1
  <1>6. CASE call[c].stage = "answered" /\ Becomes(Idle)
    <2>1. Good(Idle)
      BY IdleCall DEF OwnerStages
    <2> QED BY <1>2, <1>3, <1>6, <2>1
  <1>7. CASE /\ call[c].stage = "asking" /\ call[c].want \in Kinds
             /\ \E takeover \in BOOLEAN : Becomes(Joined(call[c].want, takeover))
    <2>1. PICK takeover \in BOOLEAN : Becomes(Joined(call[c].want, takeover))
      BY <1>7
    <2> DEFINE to == Joined(call[c].want, takeover)
    <2>2. Good(to) /\ to.stage = "joined" /\ to.want = call[c].want /\ to.result = Disconnected
      BY <1>7, JoinedCall DEF OwnerStages
    <2> QED BY <1>2, <1>3, <1>7, <2>1, <2>2
  <1>8. CASE /\ call[c].stage = "asking" /\ call[c].want \in Kinds
             /\ Becomes(Waiting(call[c].want))
    <2> DEFINE to == Waiting(call[c].want)
    <2>1. Good(to) /\ to.stage = "waiting" /\ to.want = call[c].want /\ to.result = Disconnected
      BY <1>8, WaitingCall DEF OwnerStages
    <2> QED BY <1>2, <1>3, <1>8, <2>1
  <1>9. CASE /\ Asks(c, "connect") /\ transition.kind = "none" /\ state.kind = "ready"
             /\ Becomes(Answered("connect", state))
    <2>1. Good(Answered("connect", state))
      BY <1>1, AnsweredCall DEF OwnerStages
    <2> QED BY <1>2, <1>3, <1>9, <2>1
  <1>10. CASE Asks(c, "disconnect") /\ Becomes(Answered("disconnect", Conflict))
    <2>1. Good(Answered("disconnect", Conflict))
      BY <1>1, AnsweredCall DEF OwnerStages
    <2> QED BY <1>2, <1>3, <1>10, <2>1
  <1> QED BY <1>4, <1>5, <1>6, <1>7, <1>8, <1>9, <1>10

\* A call that gets the transition, or its owner, becomes an owner of some stage.
LEMMA OwningSteps ==
    ASSUME IInv, NEW c \in Callers,
           \/ \E kind \in Kinds : Asks(c, kind) /\ Install(c, kind)
           \/ Enter(c) \/ PassGate(c) \/ Establish(c) \/ FinishConnect(c) \/ FinishEstablish(c)
    PROVE  \E stage \in OwnerStages, made \in Outcomes :
                call' = [call EXCEPT ![c] = Owning(stage, call[c].want, made)]
  <1> USE DEF IInv
  <1>1. call[c].made \in Outcomes /\ Nothing \in Outcomes /\ Outcome(Failed, 0) \in Outcomes
    BY Constants DEF TypeOK, Calls
  <1>2. CASE \E kind \in Kinds : Asks(c, kind) /\ Install(c, kind)
    BY <1>1, <1>2 DEF Asks, Install, OwnerStages
  <1>3. CASE Enter(c) \/ PassGate(c) \/ FinishConnect(c) \/ FinishEstablish(c)
    BY <1>1, <1>3 DEF Enter, PassGate, FinishConnect, FinishEstablish, Goes, OwnerStages
  <1>4. CASE Establish(c)
    <2>1. \A s \in {Ready(sessions + 1), Mismatch} :
            sessions < MaxSession => Outcome(s, sessions + 1) \in Outcomes
      BY Constants DEF TypeOK
    <2> QED BY <1>1, <1>4, <2>1 DEF Establish, Goes, OwnerStages
  <1> QED BY <1>2, <1>3, <1>4

\* A disconnect that succeeds has published Disconnected, or a reconnect has taken
\* the connect that it cancelled over: its caller is never told so while a session
\* is published.
THEOREM DisconnectTakesEffect == Spec => DisconnectEffective
  <1> DEFINE Effect == \/ state' = Disconnected /\ client' = 0
                       \/ transition'.kind = "reconnect" /\ transition.cancelled
  <1>1. ASSUME IInv, [Next]_vars, NEW d \in Callers, TellsDisconnect(d)
        PROVE  Effect
    <2> USE DEF IInv
    <2>1. /\ call'[d].stage = "answered" /\ call[d].stage # "answered"
          /\ call'[d].want = "disconnect" /\ call'[d].result # Conflict
      BY <1>1 DEF TellsDisconnect, Tells
    <2>2. PICK c \in Callers : Request(c) \/ Step(c) \/ Return(c)
      BY <1>1, <2>1 DEF Next, vars, QueueRun, Run, RefuseRun, EndRun, Leaves
    <2>3. CASE \/ Request(c) \/ Return(c)
               \/ Connect(c) /\ ~Install(c, "connect")
               \/ Disconnect(c) /\ ~Install(c, "disconnect")
               \/ Reconnect(c) /\ ~Install(c, "reconnect")
      <3>1. PICK to \in Calls :
                /\ call' = [call EXCEPT ![c] = to]
                /\ \/ \E want \in Kinds : to = Asking(want)
                   \/ to = Idle
                   \/ to.stage \in {"joined", "waiting"}
                   \/ to = Answered("connect", state)
                   \/ to = Answered("disconnect", Conflict)
        BY <1>1, <2>3, CallSteps
      <3>2. call'[d] = to
        BY <1>1, <2>1, <3>1, CallUpdate
      <3>3. /\ to = Answered("connect", state) => to.want = "connect"
            /\ to = Answered("disconnect", Conflict) => to.result = Conflict
        BY <1>1, AnsweredCall DEF TypeOK, Kinds
      <3>4. (\E want \in Kinds : to = Asking(want)) \/ to = Idle => to.stage # "answered"
        BY AskingCall, IdleCall
      <3> QED BY <2>1, <3>1, <3>2, <3>3, <3>4
    <2>4. CASE \/ \E kind \in Kinds : Asks(c, kind) /\ Install(c, kind)
               \/ Enter(c) \/ PassGate(c) \/ Establish(c) \/ FinishConnect(c) \/ FinishEstablish(c)
      <3>1. PICK stage \in OwnerStages, made \in Outcomes :
                call' = [call EXCEPT ![c] = Owning(stage, call[c].want, made)]
        BY <1>1, <2>4, OwningSteps
      <3> DEFINE to == Owning(stage, call[c].want, made)
      <3>2. call[c].want \in Kinds
        BY <1>1 DEF TypeOK, Calls
      <3>3. to \in Calls /\ to.stage # "answered"
        BY <3>2, OwningCall DEF OwnerStages
      <3>4. call'[d] \in {call[d], to}
        BY <1>1, <3>1, <3>3, CallUpdate
      <3> HIDE DEF to
      <3> QED BY <2>1, <3>3, <3>4
    <2>5. CASE TakenOver(c)
      BY <2>5 DEF TakenOver, Active
    <2>6. CASE FinishTransition(c)
      <3>1. Owns(c)
        BY <2>6 DEF FinishTransition, At, Owns, OwnerStages
      <3>2. state' = Published(c).state /\ client' = Published(c).client
        BY <2>6 DEF FinishTransition
      <3>3. transition.kind = "disconnect" \/ transition.cancelled => Published(c) = Nothing
        BY <1>1, <3>1, PublishedFits
      <3>4. CASE d = c
        <4>1. call'[c] = Answered(call[c].want, OwnResult(c))
          BY <2>6 DEF FinishTransition
        <4>2. OwnResult(c) \in States \cup {Conflict, Lost} /\ call[c].want \in Kinds
          BY <1>1, <3>1, PublishedFits, Constants DEF TypeOK, Calls
        <4>3. call[c].want = "disconnect"
          BY <2>1, <3>4, <4>1, <4>2, AnsweredCall
        <4>4. transition.kind = "disconnect"
          BY <1>1, <3>1, <4>3 DEF OwnerFits
        <4> QED BY <3>2, <3>3, <4>4, Constants
      <3>5. CASE d # c
        <4>1. call'[d] = Conclude(c, d)
          BY <2>6, <3>5 DEF FinishTransition
        <4>2. At(d, "joined") /\ call[d].want = "disconnect"
          BY <1>1, <2>1, <3>1, <4>1, ConcludeFits DEF At
        <4>3. transition.kind = "disconnect" \/ transition.cancelled
          BY <1>1, <4>2 DEF JoinFits
        <4> QED BY <3>2, <3>3, <4>3, Constants
      <3> QED BY <3>4, <3>5
    <2> QED BY <2>2, <2>3, <2>4, <2>5, <2>6, CallerSteps
  <1> DEFINE Truthful ==
        \A c \in Callers : TellsDisconnect(c) =>
           \/ state' = Disconnected /\ client' = 0
           \/ transition'.kind = "reconnect" /\ transition.cancelled
  <1>2. IInv /\ [Next]_vars => [Truthful]_vars
    BY <1>1
  <1>3. [][Truthful]_vars => DisconnectEffective
    BY DEF DisconnectEffective
  <1> HIDE DEF Truthful
  <1> QED BY <1>2, <1>3, Invariance, PTL DEF Spec

(***************************************************************************)
(* The refinement of RuntimeSession.                                       *)
(***************************************************************************)
\* What the abstract session sees of a call.
Shown(r) ==
    IF r.stage = "idle" THEN Session!Silent
    ELSE [told |-> r.stage = "answered", want |-> r.want, result |-> r.result]

LEMMA AbstractData ==
    /\ Session!Disconnected = Disconnected /\ Session!Conflict = Conflict /\ Session!Lost = Lost
    /\ Session!Wants = Kinds
    /\ Answers = [c \in Callers |-> Shown(call[c])]
  BY DEF Session!Disconnected, Session!Conflict, Session!Lost, Session!State, Session!Wants, Kinds,
         Disconnected, Conflict, Lost, State, Answers, Shown, Session!Silent, Session!Asked

\* A call that is under way is pending, and one that was answered is told.
LEMMA ShownCalls ==
    ASSUME NEW r \in Calls
    PROVE  /\ r.stage = "idle" => Shown(r) = Session!Silent
           /\ r.stage \notin {"idle", "answered"} /\ r.result = Disconnected =>
                Shown(r) = Session!Asked(r.want)
           /\ r.stage = "answered" => Shown(r) = Session!Told(r.want, r.result)
  BY AbstractData, Zenon DEF Shown, Session!Asked, Session!Told

LEMMA AnswersUpdate ==
    ASSUME TypeOK, NEW c \in Callers, NEW to \in Calls, call' = [call EXCEPT ![c] = to]
    PROVE  /\ Answers' = [Answers EXCEPT ![c] = Shown(to)]
           /\ Answers[c] = Shown(call[c])
           /\ Shown(to) = Shown(call[c]) => Answers' = Answers
  <1>1. \A d \in Callers : call'[d] = IF d = c THEN to ELSE call[d]
    BY CallUpdate
  <1>2. Answers = [d \in Callers |-> Shown(call[d])] /\ Answers' = [d \in Callers |-> Shown(call'[d])]
    BY DEF Answers, Shown, Session!Silent, Session!Asked, Session!Disconnected, Session!State,
           Disconnected, State
  <1> QED BY <1>1, <1>2

\* While the published state and the answers stay, sessions may only come to their end.
LEMMA QuietStep ==
    ASSUME UNCHANGED <<state, client, Answers>>, Gone \subseteq Gone', client \notin Gone'
    PROVE  Session!Next
  <1>1. DOMAIN Answers' = Callers
    BY DEF Answers
  <1>2. Session!Overtake
    BY <1>1 DEF Session!Overtake
  <1> QED BY <1>2 DEF Session!Next

LEMMA SimulationInit == Init => Session!Init
  <1> SUFFICES ASSUME Init PROVE Session!Init
    OBVIOUS
  <1>1. Gone = {}
    BY DEF Init, Gone
  <1>2. \A c \in Callers : Shown(call[c]) = Session!Silent
    BY DEF Init, Idle, Call, Shown
  <1>3. Answers = [c \in Callers |-> Session!Silent]
    BY <1>2, AbstractData
  <1> QED BY <1>1, <1>3, AbstractData DEF Init, Session!Init

LEMMA CallSimulation ==
    ASSUME IInv, NEW c \in Callers,
           \/ Request(c) \/ Return(c)
           \/ Connect(c) /\ ~Install(c, "connect")
           \/ Disconnect(c) /\ ~Install(c, "disconnect")
           \/ Reconnect(c) /\ ~Install(c, "reconnect")
    PROVE  [Session!Next]_(Session!session)
  <1> USE DEF IInv
  <1>1. UNCHANGED <<state, client, sessions>> /\ ~Owns(c)
    BY CallSteps DEF snapshot
  <1>2. PICK to \in Calls :
                /\ call' = [call EXCEPT ![c] = to]
                /\ to.stage \notin OwnerStages
                /\ \/ call[c].stage = "idle" /\ \E want \in Kinds : to = Asking(want)
                   \/ call[c].stage = "answered" /\ to = Idle
                   \/ /\ call[c].stage = "asking"
                      /\ to.stage \in {"joined", "waiting"}
                      /\ to.want = call[c].want /\ to.result = Disconnected
                   \/ /\ Asks(c, "connect") /\ transition.kind = "none" /\ state.kind = "ready"
                      /\ to = Answered("connect", state)
                   \/ Asks(c, "disconnect") /\ to = Answered("disconnect", Conflict)
    BY CallSteps
  <1>3. \A d \in Callers : call'[d] = IF d = c THEN to ELSE call[d]
    BY <1>2, CallUpdate
  <1>4. Gone' = Gone
    <2>1. \A d \in Callers : Owns(d)' <=> Owns(d)
      BY <1>1, <1>2, <1>3 DEF Owns
    <2>2. \A d \in Callers : Owns(d) => call'[d] = call[d]
      BY <1>1, <1>3
    <2> QED BY <1>1, <2>1, <2>2 DEF Gone
  <1>5. /\ Answers' = [Answers EXCEPT ![c] = Shown(to)]
        /\ Answers[c] = Shown(call[c])
        /\ Shown(to) = Shown(call[c]) => Answers' = Answers
    BY <1>2, AnswersUpdate
  <1>6. call[c] \in Calls /\ (call[c].stage # "answered" => call[c].result = Disconnected)
    BY DEF TypeOK, PendingFits, At
  <1>7. ASSUME NEW want \in Kinds, call[c].stage = "idle", to = Asking(want)
        PROVE  Session!Ask(c)
    <2>1. Shown(to) = Session!Asked(want) /\ Shown(call[c]) = Session!Silent
      BY <1>6, <1>7, AskingCall, ShownCalls
    <2> QED BY <1>1, <1>4, <1>5, <2>1, AbstractData DEF Session!Ask
  <1>8. CASE call[c].stage = "answered" /\ to = Idle
    <2>1. Shown(to) = Session!Silent /\ Shown(call[c]).told
      BY <1>6, <1>8, IdleCall, ShownCalls DEF Shown
    <2>2. Session!Return(c)
      BY <1>1, <1>4, <1>5, <2>1 DEF Session!Return
    <2> QED BY <2>2 DEF Session!Next
  <1>9. CASE /\ call[c].stage = "asking" /\ to.stage \in {"joined", "waiting"}
             /\ to.want = call[c].want /\ to.result = Disconnected
    <2>1. Shown(to) = Session!Asked(to.want) /\ Shown(call[c]) = Session!Asked(call[c].want)
      BY <1>2, <1>6, <1>9, ShownCalls
    <2> QED BY <1>1, <1>4, <1>5, <1>9, <2>1 DEF Session!session
  <1>10. CASE /\ Asks(c, "connect") /\ transition.kind = "none" /\ state.kind = "ready"
              /\ to = Answered("connect", state)
    <2>1. Shown(to) = Session!Told("connect", state)
      BY <1>10, AnsweredCall, ShownCalls DEF TypeOK, Kinds
    <2>2. Shown(call[c]) = Session!Asked("connect")
      BY <1>6, <1>10, ShownCalls DEF Asks
    <2>3. Session!Matches(state, client)
      BY <1>10 DEF SnapshotFits, Matches
    <2>4. Session!Already(c)
      BY <1>1, <1>4, <1>5, <1>10, <2>1, <2>2, <2>3 DEF Session!Already
    <2> QED BY <2>4 DEF Session!Next
  <1>11. CASE Asks(c, "disconnect") /\ to = Answered("disconnect", Conflict)
    <2>1. Shown(to) = Session!Told("disconnect", Conflict)
      BY <1>11, AnsweredCall, ShownCalls DEF Kinds
    <2>2. Shown(call[c]) = Session!Asked("disconnect")
      BY <1>6, <1>11, ShownCalls DEF Asks
    <2>3. Session!Refuse(c)
      BY <1>1, <1>4, <1>5, <2>1, <2>2, AbstractData DEF Session!Refuse
    <2> QED BY <2>3 DEF Session!Next
  <1> QED BY <1>2, <1>7, <1>8, <1>9, <1>10, <1>11 DEF Session!Next

\* Until its transition ends, an owner makes a session and loses it unseen.
LEMMA OwnerSimulation ==
    ASSUME IInv, NEW c \in Callers,
           \/ \E kind \in Kinds : Asks(c, kind) /\ Install(c, kind)
           \/ Enter(c) \/ PassGate(c) \/ Establish(c) \/ FinishConnect(c) \/ FinishEstablish(c)
    PROVE  Session!Next
  <1> USE DEF IInv
  <1>1. PICK stage \in OwnerStages, made \in Outcomes :
                call' = [call EXCEPT ![c] = Owning(stage, call[c].want, made)]
    BY OwningSteps
  <1> DEFINE to == Owning(stage, call[c].want, made)
  <1>2. call[c] \in Calls /\ call[c].want \in Kinds /\ sessions \in Nat /\ client \in Nat
        /\ (call[c].stage # "answered" => call[c].result = Disconnected)
    BY DEF TypeOK, Calls, PendingFits, At
  <1>3. to \in Calls /\ to.stage = stage /\ to.want = call[c].want /\ to.made = made
        /\ to.result = Disconnected
    BY <1>2, OwningCall
  <1> HIDE DEF to
  <1>4. \A d \in Callers : call'[d] = IF d = c THEN to ELSE call[d]
    BY <1>1, <1>3, CallUpdate DEF to
  <1>5. call[c].stage = "asking" \/ Owns(c)
    BY DEF Asks, Enter, PassGate, Establish, FinishConnect, FinishEstablish, At, Owns, OwnerStages
  <1>6. Answers' = Answers
    <2>1. Shown(to) = Session!Asked(call[c].want)
      BY <1>3, ShownCalls DEF OwnerStages
    <2>2. Shown(call[c]) = Session!Asked(call[c].want)
      BY <1>2, <1>5, ShownCalls DEF Owns, OwnerStages
    <2> QED BY <1>1, <1>3, <2>1, <2>2, AnswersUpdate DEF to
  <1>7. state' = state
    BY DEF Install, Enter, PassGate, Establish, FinishConnect, FinishEstablish, snapshot, Invalidate
  <1>8. sessions' \in {sessions, sessions + 1} /\ client' \in {0, client}
    BY DEF Install, Enter, PassGate, Establish, FinishConnect, FinishEstablish, snapshot, Invalidate
  <1>9. \A d \in Callers : (Owns(d)' <=> Owns(d) \/ d = c) /\ (d # c => call'[d] = call[d])
    BY <1>3, <1>4 DEF Owns
  \* The session that the owner makes is not over, and the one that it drops is.
  <1>10. \/ made.client = 0
         \/ made.client = sessions' /\ sessions' = sessions + 1
         \/ Owns(c) /\ made.client = call[c].made.client
    <2>1. Nothing.client = 0 /\ Outcome(Failed, 0).client = 0
      BY Constants
    <2>2. to = call'[c]
      BY <1>4
    <2>3. CASE \E kind \in Kinds : Asks(c, kind) /\ Install(c, kind)
      <3>1. PICK kind \in Kinds : Asks(c, kind) /\ Install(c, kind)
        BY <2>3
      <3>2. call' = [call EXCEPT ![c] = Owning("queued", kind, Nothing)] /\ sessions' = sessions
        BY <3>1 DEF Install
      <3>3. Owning("queued", kind, Nothing) \in Calls /\ Owning("queued", kind, Nothing).made = Nothing
        BY Constants, OwningCall DEF OwnerStages
      <3>4. call'[c] = Owning("queued", kind, Nothing)
        BY <3>2, <3>3, CallUpdate
      <3>5. made = Nothing
        BY <1>3, <2>2, <3>3, <3>4
      <3> QED BY <1>2, <2>1, <3>2, <3>5
    <2>4. ASSUME NEW s \in OwnerStages, NEW m \in Outcomes, Goes(c, s, m)
          PROVE  made = m
      <3>1. Owning(s, call[c].want, m) \in Calls /\ Owning(s, call[c].want, m).made = m
        BY <1>2, OwningCall
      <3>2. call'[c] = Owning(s, call[c].want, m)
        BY <2>4, <3>1, CallUpdate DEF Goes
      <3> QED BY <1>3, <2>2, <3>1, <3>2
    <2>5. {"inside", "established", "checking", "publishing"} \subseteq OwnerStages
      BY DEF OwnerStages
    <2>6. CASE Enter(c) \/ PassGate(c)
      BY <1>2, <2>1, <2>4, <2>5, <2>6, Constants DEF Enter, PassGate
    <2>7. CASE FinishConnect(c) \/ FinishEstablish(c)
      <3>1. Owns(c) /\ sessions' = sessions /\ call[c].made \in Outcomes
        BY <1>2, <2>7 DEF FinishConnect, FinishEstablish, At, Owns, OwnerStages, Calls
      <3>2. made = call[c].made \/ made = Nothing
        BY <2>4, <2>5, <2>7, <3>1, Constants DEF FinishConnect, FinishEstablish
      <3> QED BY <1>2, <2>1, <3>1, <3>2
    <2>8. CASE Establish(c)
      <3>1. CASE Goes(c, "established", Outcome(Failed, 0)) /\ sessions' = sessions
        <4>1. made = Outcome(Failed, 0)
          BY <2>4, <2>5, <3>1, Constants
        <4> QED BY <1>2, <2>1, <3>1, <4>1
      <3>2. ASSUME sessions < MaxSession, sessions' = sessions + 1,
                   NEW s \in {Ready(sessions + 1), Mismatch},
                   Goes(c, "established", Outcome(s, sessions + 1))
            PROVE  made.client = sessions'
        <4>1. /\ Outcome(s, sessions + 1) \in Outcomes
              /\ Outcome(s, sessions + 1).client = sessions + 1
          BY <1>2, <3>2, Constants
        <4>2. made = Outcome(s, sessions + 1)
          BY <2>4, <2>5, <3>2, <4>1
        <4> QED BY <3>2, <4>1, <4>2
      <3> QED BY <2>8, <3>1, <3>2 DEF Establish
    <2> QED BY <2>3, <2>6, <2>7, <2>8
  <1>11. Gone \subseteq Gone'
    <2> SUFFICES ASSUME NEW s \in Gone PROVE s \in Gone'
      OBVIOUS
    <2>1. s \in 1 .. sessions /\ s # client /\ \A d \in Callers : Owns(d) => call[d].made.client # s
      BY DEF Gone
    <2>2. s \in 1 .. sessions' /\ s # client'
      BY <1>2, <1>8, <2>1
    <2>3. made.client # s
      BY <1>2, <1>8, <1>10, <2>1
    <2>4. \A d \in Callers : Owns(d)' => call'[d].made.client # s
      BY <1>3, <1>4, <1>9, <2>1, <2>3
    <2> QED BY <2>2, <2>4 DEF Gone
  <1>12. CASE client' = client
    <2>1. client \notin Gone'
      BY <1>12 DEF Gone
    <2> QED BY <1>6, <1>7, <1>11, <1>12, <2>1, QuietStep
  <1>13. CASE client' = 0 /\ client # 0
    <2>1. Enter(c) /\ sessions' = sessions
      BY <1>13 DEF Install, Enter, PassGate, Establish, FinishConnect, FinishEstablish, snapshot
    <2>2. made = Nothing
      <3>1. call'[c] = Owning("inside", call[c].want, Nothing)
        <4>1. Owning("inside", call[c].want, Nothing) \in Calls
          BY <1>2, Constants, OwningCall DEF OwnerStages
        <4> QED BY <2>1, <4>1, CallUpdate DEF Enter, Goes
      <3> QED BY <1>2, <1>3, <1>4, <3>1, Constants, OwningCall DEF OwnerStages
    <2>3. \A d \in Callers : Owns(d)' => d = c
      BY <1>5, <1>9, <2>1 DEF OwnerRetained, Enter, At, Owns, OwnerStages
    <2>4. client \in Gone'
      <3>1. client \in 1 .. sessions'
        BY <1>2, <1>13, <2>1 DEF SnapshotFits
      <3>2. client # client'
        BY <1>13
      <3>3. \A d \in Callers : Owns(d)' => call'[d].made.client # client
        BY <1>3, <1>4, <1>13, <2>2, <2>3, Constants
      <3> QED BY <3>1, <3>2, <3>3 DEF Gone
    <2>5. Session!Invalidate
      BY <1>6, <1>7, <1>11, <1>13, <2>4 DEF Session!Invalidate, Session!Ends
    <2> QED BY <2>5 DEF Session!Next
  <1> QED BY <1>8, <1>12, <1>13

\* A takeover ends the session that the connect made, and tells those who joined the
\* connect that they were overtaken.
LEMMA TakenOverSimulation ==
    ASSUME IInv, NEW c \in Callers, TakenOver(c)
    PROVE  Session!Next
  <1> USE DEF IInv
  <1>1. /\ Owns(c) /\ transition.kind = "connect" /\ UNCHANGED <<state, client, sessions>>
        /\ call' = [d \in Callers |-> IF d = c THEN Owning("queued", call[c].want, Nothing)
                                               ELSE HandOver(d)]
    BY DEF TakenOver, At, Owns, OwnerStages, snapshot
  <1>2. call[c].want \in Kinds
    BY DEF TypeOK, Calls
  <1>3. /\ Owning("queued", call[c].want, Nothing) \in Calls
        /\ Owning("queued", call[c].want, Nothing).stage = "queued"
        /\ Owning("queued", call[c].want, Nothing).want = call[c].want
        /\ Owning("queued", call[c].want, Nothing).made.client = 0
        /\ Owning("queued", call[c].want, Nothing).result = Disconnected
    BY <1>2, Constants, OwningCall DEF OwnerStages
  <1>4. \A d \in Callers :
          \/ Shown(call'[d]) = Shown(call[d])
          \/ /\ Shown(call[d]) \in {Session!Asked("connect"), Session!Asked("disconnect")}
             /\ Shown(call'[d]) = Session!Told(call[d].want, Disconnected)
             /\ Shown(call[d]) = Session!Asked(call[d].want)
    <2> TAKE d \in Callers
    <2>1. /\ call[d] \in Calls /\ call[d].want \in Kinds
          /\ call[d].stage # "answered" => call[d].result = Disconnected
      BY DEF TypeOK, Calls, PendingFits, At
    <2>2. CASE d = c
      <3>1. Shown(call[c]) = Session!Asked(call[c].want)
        BY <1>1, <2>1, <2>2, ShownCalls DEF Owns, OwnerStages
      <3>2. Shown(call'[c]) = Session!Asked(call[c].want)
        BY <1>1, <1>3, ShownCalls
      <3> QED BY <2>2, <3>1, <3>2
    <2>3. CASE d # c /\ ~At(d, "joined")
      <3>1. call'[d] = call[d]
        BY <1>1, <2>3 DEF HandOver, At
      <3> QED BY <3>1
    <2>4. CASE d # c /\ At(d, "joined") /\ call[d].takeover
      <3>1. call'[d] = Joined(call[d].want, FALSE)
        BY <1>1, <2>4 DEF HandOver, At
      <3>2. Shown(call'[d]) = Session!Asked(call[d].want)
        BY <2>1, <3>1, JoinedCall, ShownCalls, ZenonT(60)
      <3>3. Shown(call[d]) = Session!Asked(call[d].want)
        BY <2>1, <2>4, ShownCalls DEF At
      <3> QED BY <3>2, <3>3
    <2>5. CASE d # c /\ At(d, "joined") /\ ~call[d].takeover
      <3>1. call'[d] = Answered(call[d].want, Disconnected)
        BY <1>1, <2>5 DEF HandOver, At
      <3>2. Shown(call'[d]) = Session!Told(call[d].want, Disconnected)
        BY <2>1, <3>1, Constants, AnsweredCall, ShownCalls
      <3>3. Shown(call[d]) = Session!Asked(call[d].want)
        BY <2>1, <2>5, ShownCalls DEF At
      <3>4. call[d].want \in {"connect", "disconnect"}
        BY <1>1, <2>1, <2>5 DEF JoinFits, Kinds
      <3> QED BY <3>2, <3>3, <3>4
    <2> QED BY <2>2, <2>3, <2>4, <2>5
  <1>5. \A d \in Callers : Owns(d)' => d = c
    <2> SUFFICES ASSUME NEW d \in Callers, d # c PROVE ~Owns(d)'
      OBVIOUS
    <2>1. ~Owns(d) /\ call'[d] = HandOver(d) /\ call[d].want \in Kinds
      BY <1>1 DEF OwnerRetained, TypeOK, Calls
    <2>2. HandOver(d).stage \in {"joined", "answered"} \/ HandOver(d) = call[d]
      <3>1. Joined(call[d].want, FALSE).stage = "joined"
        BY <2>1, JoinedCall
      <3>2. Answered(call[d].want, Disconnected).stage = "answered"
        BY <2>1, Constants, AnsweredCall
      <3> QED BY <3>1, <3>2 DEF HandOver
    <2> QED BY <2>1, <2>2 DEF Owns, OwnerStages
  <1>6. Gone \subseteq Gone' /\ client \notin Gone'
    <2>1. \A d \in Callers : Owns(d)' => call'[d].made.client = 0
      BY <1>1, <1>3, <1>5
    <2> QED BY <1>1, <2>1 DEF Gone
  <1>7. Answers = [d \in Callers |-> Shown(call[d])] /\ Answers' = [d \in Callers |-> Shown(call'[d])]
    BY DEF Answers, Shown, Session!Silent, Session!Asked, Session!Disconnected, Session!State,
           Disconnected, State
  <1>8. \A d \in Callers :
          \/ Answers'[d] = Answers[d]
          \/ /\ Answers[d] \in {Session!Asked("connect"), Session!Asked("disconnect")}
             /\ Answers'[d] = Session!Told(Answers[d].want, Session!Disconnected)
    <2>1. \A want \in Kinds : Session!Asked(want).want = want
      BY DEF Session!Asked
    <2>2. \A d \in Callers : call[d].want \in Kinds
      BY DEF TypeOK, Calls
    <2> QED BY <1>4, <1>7, <2>1, <2>2, AbstractData
  <1>9. DOMAIN Answers' = Callers
    BY <1>7
  <1>10. Session!Overtake
    BY <1>1, <1>6, <1>8, <1>9 DEF Session!Overtake
  <1> QED BY <1>10 DEF Session!Next

\* As a transition ends, its state is published, and everyone who is told something is
\* told that state, but for a reconnect that came too late.
LEMMA FinishSimulation ==
    ASSUME IInv, NEW c \in Callers, FinishTransition(c)
    PROVE  Session!Next
  <1> USE DEF IInv
  <1>1. /\ Owns(c) /\ sessions' = sessions
        /\ state' = Published(c).state /\ client' = Published(c).client
        /\ call' = [d \in Callers |-> IF d = c THEN Answered(call[c].want, OwnResult(c))
                                               ELSE Conclude(c, d)]
    BY DEF FinishTransition, At, Owns, OwnerStages
  <1>2. IInv' /\ ~\E d \in Callers : Owns(d)'
    <2>1. IInv' /\ transition'.kind = "none"
      BY FinishStep DEF FinishTransition, NoTransition, Active
    <2> QED BY <2>1 DEF OwnerRetained
  <1>3. Session!Matches(state', client') /\ (client' # 0 => client' \notin Gone')
    BY <1>1, PublishedFits DEF Matches, Gone
  <1>4. Session!Ends
    <2>1. sessions \in Nat /\ client \in Nat /\ client <= sessions
      BY DEF TypeOK, SnapshotFits
    <2>2. Published(c).client \in {0, call[c].made.client}
      BY <1>1, PublishedFits, Constants
    <2>3. call[c].made.client # 0 => call[c].made.client # client
      BY <1>1 DEF MadeFresh
    <2>4. \A s \in Gone : s \in 1 .. sessions /\ s # Published(c).client
      BY <1>1, <2>1, <2>2 DEF Gone
    <2>5. client # 0 => client \in 1 .. sessions /\ client # Published(c).client
      BY <2>1, <2>2, <2>3
    <2>6. Gone' = {s \in 1 .. sessions : s # Published(c).client}
      BY <1>1, <1>2 DEF Gone
    <2> QED BY <2>4, <2>5, <2>6 DEF Session!Ends
  <1>5. ASSUME NEW d \in Callers, call[d].stage \notin {"idle", "answered"}
        PROVE  Session!Pending(d) /\ Answers[d] = Session!Asked(call[d].want) /\ call[d].want \in Kinds
    <2>1. call[d] \in Calls /\ call[d].want \in Kinds /\ call[d].result = Disconnected
      BY <1>5 DEF TypeOK, Calls, PendingFits, At
    <2>2. Answers[d] = Session!Asked(call[d].want)
      BY <1>5, <2>1, ShownCalls, AbstractData
    <2> QED BY <2>1, <2>2, AbstractData DEF Session!Pending
  \* A disconnect is told Disconnected.
  <1>6. ASSUME NEW d \in Callers, call[d].want = "disconnect", Owns(d) \/ At(d, "joined")
        PROVE  state' = Disconnected
    <2>1. transition.kind = "disconnect" \/ transition.cancelled
      BY <1>1, <1>6 DEF OwnerFits, JoinFits
    <2>2. Published(c) = Nothing
      BY <1>1, <2>1, PublishedFits
    <2> QED BY <1>1, <2>2, Constants
  <1>7. ASSUME NEW d \in Callers, Owns(d) \/ At(d, "joined"),
               NEW result \in States \cup {Conflict, Lost}, call'[d] = Answered(call[d].want, result),
               \/ result = state'
               \/ result = Disconnected /\ call[d].want = "connect"
               \/ result = Lost /\ call[d].want = "reconnect" /\ state' = Disconnected
        PROVE  /\ Session!Pending(d)
               /\ \E told \in Session!Results(Answers[d].want, state') :
                     Answers'[d] = Session!Told(Answers[d].want, told)
    <2>1. Session!Pending(d) /\ Answers[d] = Session!Asked(call[d].want) /\ call[d].want \in Kinds
      BY <1>5, <1>7 DEF Owns, OwnerStages, At
    <2>2. Answers[d].want = call[d].want
      BY <2>1 DEF Session!Asked
    <2>3. Answers'[d] = Session!Told(call[d].want, result)
      <3>1. Shown(call'[d]) = Session!Told(call[d].want, result)
        BY <1>7, <2>1, AnsweredCall, ShownCalls
      <3>2. Answers' = [e \in Callers |-> Shown(call'[e])]
        BY DEF Answers, Shown, Session!Silent, Session!Asked, Session!Disconnected, Session!State,
               Disconnected, State
      <3> QED BY <3>1, <3>2
    <2>4. result \in Session!Results(call[d].want, state')
      BY <1>6, <1>7, <2>1, AbstractData DEF Session!Results, Session!Dropped, Kinds
    <2> QED BY <2>1, <2>2, <2>3, <2>4
  <1>8. ASSUME NEW d \in Callers
        PROVE  \/ Answers'[d] = Answers[d]
               \/ /\ Session!Pending(d)
                  /\ \E told \in Session!Results(Answers[d].want, state') :
                        Answers'[d] = Session!Told(Answers[d].want, told)
    <2>1. call[d].want \in Kinds /\ Published(c).state \in States
      BY <1>1, PublishedFits DEF TypeOK, Calls
    <2>2. CASE d = c
      <3>1. call'[c] = Answered(call[c].want, OwnResult(c))
        BY <1>1
      <3>2. OwnResult(c) = state' \/ (OwnResult(c) = Disconnected /\ call[c].want = "connect")
        BY <1>1 DEF OwnResult
      <3>3. OwnResult(c) \in States \cup {Conflict, Lost}
        BY <1>1, PublishedFits, Constants
      <3> QED BY <1>1, <1>7, <2>2, <3>1, <3>2, <3>3
    <2>3. CASE d # c /\ At(d, "joined") /\ call[d].takeover
      <3>1. call'[d] = Answered(call[d].want, Lost) /\ call[d].want = "reconnect"
        BY <1>1, <2>3 DEF Conclude, At, JoinFits
      \* The late takeover has cancelled the connect.
      <3>2. transition.kind = "connect" /\ transition.cancelled
        BY <2>3 DEF WaitersServed, TypeOK
      <3>3. state' = Disconnected
        BY <1>1, <3>2, PublishedFits, Constants
      <3> QED BY <1>7, <2>3, <3>1, <3>3
    <2>4. CASE d # c /\ At(d, "joined") /\ ~call[d].takeover
      <3>1. call'[d] = Answered(call[d].want, state')
        BY <1>1, <2>4 DEF Conclude, At
      <3> QED BY <1>1, <1>7, <2>1, <2>4, <3>1
    <2>5. CASE d # c /\ ~At(d, "joined")
      <3>1. Shown(call'[d]) = Shown(call[d])
        <4>1. CASE At(d, "waiting")
          <5>1. call'[d] = Asking(call[d].want)
            BY <1>1, <2>5, <4>1 DEF Conclude, At
          <5>2. call[d] \in Calls /\ call[d].result = Disconnected
            BY <4>1 DEF TypeOK, PendingFits, At
          <5>3. Shown(call[d]) = Session!Asked(call[d].want)
            BY <4>1, <5>2, ShownCalls DEF At
          <5>4. Shown(call'[d]) = Session!Asked(call[d].want)
            BY <2>1, <5>1, AskingCall, ShownCalls
          <5> QED BY <5>3, <5>4
        <4>2. CASE ~At(d, "waiting")
          <5>1. call'[d] = call[d]
            BY <1>1, <2>5, <4>2 DEF Conclude, At
          <5> QED BY <5>1
        <4> QED BY <4>1, <4>2
      <3>2. Answers = [e \in Callers |-> Shown(call[e])] /\ Answers' = [e \in Callers |-> Shown(call'[e])]
        BY DEF Answers, Shown, Session!Silent, Session!Asked, Session!Disconnected, Session!State,
               Disconnected, State
      <3> QED BY <3>1, <3>2
    <2> QED BY <2>2, <2>3, <2>4, <2>5
  <1>9. DOMAIN Answers' = Callers
    BY DEF Answers
  <1>10. Session!Publish
    BY <1>3, <1>4, <1>8, <1>9 DEF Session!Publish
  <1> QED BY <1>10 DEF Session!Next

LEMMA StepSimulation == IInv /\ [Next]_vars => [Session!Next]_(Session!session)
  <1> SUFFICES ASSUME IInv, [Next]_vars PROVE [Session!Next]_(Session!session)
    OBVIOUS
  <1>1. ASSUME UNCHANGED <<state, client, sessions, call>> PROVE UNCHANGED Session!session
    BY <1>1 DEF Session!session, Gone, Owns, Answers
  <1>2. ASSUME NEW c \in Callers, Request(c) \/ Step(c) \/ Return(c)
        PROVE  [Session!Next]_(Session!session)
    BY <1>2, CallerSteps, CallSimulation, OwnerSimulation, TakenOverSimulation, FinishSimulation
  <1>3. ASSUME NEW o \in Operations, QueueRun(o) \/ Run(o) \/ RefuseRun(o) \/ EndRun(o)
        PROVE  UNCHANGED <<state, client, sessions, call>>
    BY <1>3 DEF QueueRun, Run, RefuseRun, EndRun, Leaves, snapshot
  <1>4. CASE UNCHANGED vars
    BY <1>1, <1>4 DEF vars, snapshot
  <1> QED BY <1>1, <1>2, <1>3, <1>4 DEF Next

\* The gateway, with its transitions, cancellations, takeovers and its gate, does what
\* RuntimeSession promises its callers: a session that is over never comes back, the
\* client belongs to the published state, and a caller is told that state.
THEOREM Refinement == Spec => ImplementsSession
  BY SimulationInit, StepSimulation, Invariance, PTL DEF Spec, ImplementsSession, Session!Spec
=============================================================================
