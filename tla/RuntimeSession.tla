---------------------------- MODULE RuntimeSession ----------------------------
(***************************************************************************)
(* What the runtime gateway promises the callers of connect, disconnect    *)
(* and reconnect (RuntimeConnector, crates/colui-app/src/runtime.rs),      *)
(* without transitions, channels or the Compose gate.                      *)
(*                                                                         *)
(* One state is published at a time and the client, if any, belongs to it. *)
(* A session that is over never returns.  A caller is told the state that  *)
(* is published as it is answered; only a call that another one overtook   *)
(* may be told Disconnected.                                               *)
(*                                                                         *)
(* The design promises a reconnect more than that: it always owns a fresh  *)
(* connect.  The gateway may instead drop one that came to a connect too   *)
(* late, as that connect is cancelled and Disconnected is published        *)
(* (Dropped).  RuntimeGateway!ReconnectOwnsFreshConnect states the design. *)
(***************************************************************************)
EXTENDS Naturals

CONSTANT Callers

VARIABLES
    state,         \* the published RuntimeSessionState
    client,        \* the session whose client may read, or 0
    gone,          \* sessions that are over
    answer         \* what each caller asked, or was told

session == <<state, client, gone, answer>>

State(kind, number) == [kind |-> kind, session |-> number]
Disconnected == State("disconnected", 0)
Conflict == State("conflict", 0)
Lost == State("lost", 0)

Asked(want) == [told |-> FALSE, want |-> want, result |-> Disconnected]
Told(want, result) == [told |-> TRUE, want |-> want, result |-> result]
Silent == Asked("nothing")
Wants == {"connect", "disconnect", "reconnect"}
Pending(c) == answer[c] \in {Asked(want) : want \in Wants}

\* The client belongs to the state.
Matches(s, k) ==
    \/ s.kind = "ready" /\ s.session # 0 /\ k = s.session
    \/ s.kind = "mismatch" /\ k # 0
    \/ s.kind \in {"disconnected", "failed"} /\ k = 0

\* What a caller may be told as s is published.
Dropped(s) == IF s = Disconnected THEN {Lost} ELSE {}
Results(want, s) ==
    CASE want = "connect" -> {s, Disconnected}
      [] want = "reconnect" -> {s} \cup Dropped(s)
      [] OTHER -> {s} \cap {Disconnected}

\* The previous session ends as another one, or none, takes its place.
Ends == gone \cup ({client} \ {0}) \subseteq gone'

Init ==
    /\ state = Disconnected
    /\ client = 0
    /\ gone = {}
    /\ answer = [c \in Callers |-> Silent]

Ask(c) ==
    /\ answer[c] = Silent
    /\ \E want \in Wants : answer' = [answer EXCEPT ![c] = Asked(want)]
    /\ UNCHANGED <<state, client, gone>>

Publish ==
    /\ Matches(state', client')
    /\ client' # 0 => client' \notin gone'
    /\ Ends
    /\ DOMAIN answer' = Callers
    /\ \A c \in Callers :
         \/ answer'[c] = answer[c]
         \/ /\ Pending(c)
            /\ \E result \in Results(answer[c].want, state') :
                 answer'[c] = Told(answer[c].want, result)

\* A reconnect cuts its predecessor off before it looks for a successor.
Invalidate ==
    /\ client' = 0
    /\ Ends
    /\ UNCHANGED <<state, answer>>

\* A reconnect overtakes a connect and those who waited for it.
Overtake ==
    /\ gone \subseteq gone'
    /\ client \notin gone'
    /\ DOMAIN answer' = Callers
    /\ \A c \in Callers :
         \/ answer'[c] = answer[c]
         \/ /\ answer[c] \in {Asked("connect"), Asked("disconnect")}
            /\ answer'[c] = Told(answer[c].want, Disconnected)
    /\ UNCHANGED <<state, client>>

Already(c) ==
    /\ answer[c] = Asked("connect")
    /\ state.kind = "ready"
    /\ Matches(state, client)
    /\ answer' = [answer EXCEPT ![c] = Told("connect", state)]
    /\ UNCHANGED <<state, client, gone>>

Refuse(c) ==
    /\ answer[c] = Asked("disconnect")
    /\ answer' = [answer EXCEPT ![c] = Told("disconnect", Conflict)]
    /\ UNCHANGED <<state, client, gone>>

Return(c) ==
    /\ answer[c].told
    /\ answer' = [answer EXCEPT ![c] = Silent]
    /\ UNCHANGED <<state, client, gone>>

Next ==
    \/ Publish \/ Invalidate \/ Overtake
    \/ \E c \in Callers : Ask(c) \/ Already(c) \/ Refuse(c) \/ Return(c)

Spec == Init /\ [][Next]_session
=============================================================================
