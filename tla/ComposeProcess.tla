---------------------------- MODULE ComposeProcess ----------------------------
(***************************************************************************)
(* ComposeProcessRunner::execute,                                          *)
(* crates/colui-adapters/src/runtime/process.rs, on a Unix.                *)
(*                                                                         *)
(* One `docker compose` runs in a process group of its own: its leader is  *)
(* the child that execute spawned, its members are what the leader forked  *)
(* (the Compose plugin, credential helpers).  execute reads both pipes     *)
(* while it waits for the leader or for the deadline, then terminates the  *)
(* group, reaps the leader, reads the pipes to their end and returns.  The *)
(* two pipes are one here, and its bytes are numbered as they are written. *)
(*                                                                         *)
(* wait4 does not fail for a child that nobody else reaps, nor does a read *)
(* from a pipe: the paths for these errors are left out.  Nothing else     *)
(* runs meanwhile: the caller holds the Compose gate (RuntimeGateway).     *)
(***************************************************************************)
EXTENDS Naturals, Sequences

CONSTANTS Members,       \* processes the leader may fork, directly or not
          Leader,        \* the child
          Limit,         \* LIMIT: bytes of output that are kept
          Buffer,        \* bytes that one read returns at most
          MaxWritten     \* bound: bytes written

ASSUME LeaderAssumption == Leader \notin Members
ASSUME BufferAssumption == Limit \in Nat /\ Buffer \in 1 .. Limit - 1 /\ MaxWritten \in Nat

VARIABLES
    stage,         \* where execute is (see below)
    timedOut,      \* timed_out
    diagnostic,    \* terminate_group has an error to return
    result,        \* what execute returned
    leader,        \* the child: not spawned, alive, a zombie, or reaped
    code,          \* its exit status
    alive,         \* members that run
    detached,      \* members that left the process group
    pipe,          \* members that hold the write end of the pipe
    killed,        \* processes that SIGKILL was sent to
    reused,        \* the system has given the number of the group to a stranger
    stray,         \* a signal went to that stranger
    written,       \* bytes written to the pipe so far
    ring           \* what drain has read: the bytes it keeps, how many it saw, truncated

execution == <<stage, timedOut, diagnostic, result>>
processes == <<leader, code, alive, detached, pipe>>
signals == <<killed, reused, stray>>
vars == <<execution, processes, signals, written, ring>>

(***************************************************************************)
(* Stages of execute: idle, running (select! between the leader's exit and *)
(* the deadline), grace (SIGTERM was sent, and the leader waited for),     *)
(* killing (about to send SIGKILL), reaping, draining (the leader is       *)
(* reaped), returned.                                                      *)
(***************************************************************************)
Stages == {"idle", "running", "grace", "killing", "reaping", "draining", "returned"}

Init ==
    /\ stage = "idle" /\ timedOut = FALSE /\ diagnostic = FALSE /\ result = "none"
    /\ leader = "unborn" /\ code = "none"
    /\ alive = {} /\ detached = {} /\ pipe = {}
    /\ killed = {} /\ reused = FALSE /\ stray = FALSE
    /\ written = 0
    /\ ring = [kept |-> <<>>, read |-> 0, truncated |-> FALSE]

(***************************************************************************)
(* Next to an operator stands, where a property is about it, a faulty      *)
(* variant of it that a slip in the code could produce; no action uses it. *)
(***************************************************************************)

-----------------------------------------------------------------------------
(* The processes.                                                          *)

\* Who is in the process group, and runs.
Group == (alive \ detached) \cup (IF leader = "alive" THEN {Leader} ELSE {})
Holders == pipe \cup (IF leader = "alive" THEN {Leader} ELSE {})

\* A process forks a member, which is born into its group and shares its pipe or not.
Fork(m) ==
    /\ m \notin alive \cup killed
    /\ \E p \in (alive \cup Group) \ killed :
         /\ alive' = alive \cup {m}
         /\ detached' = IF p \in detached THEN detached \cup {m} ELSE detached \ {m}
         /\ pipe' \in {pipe} \cup (IF p \in Holders THEN {pipe \cup {m}} ELSE {})
    /\ UNCHANGED <<execution, leader, code, signals, written, ring>>

\* setsid or setpgid.
Detach(m) ==
    /\ m \in alive \ (killed \cup detached)
    /\ detached' = detached \cup {m}
    /\ UNCHANGED <<execution, leader, code, alive, pipe, signals, written, ring>>

\* A member exits, of itself or by a signal.
Exit(m) ==
    /\ m \in alive
    /\ alive' = alive \ {m}
    /\ pipe' = pipe \ {m}
    /\ UNCHANGED <<execution, leader, code, detached, signals, written, ring>>

LeaderExits ==
    /\ leader = "alive"
    /\ leader' = "zombie"
    /\ code' \in IF Leader \in killed THEN {"signal"} ELSE {"zero", "nonzero", "signal"}
    /\ UNCHANGED <<execution, alive, detached, pipe, signals, written, ring>>

Write ==
    /\ Holders \ killed # {}
    /\ written < MaxWritten
    /\ written' = written + 1
    /\ UNCHANGED <<execution, processes, signals, ring>>

\* The number of a group is free once the leader was waited for and nobody is in
\* the group; the system may then give it to any process.
Reuse ==
    /\ leader = "reaped"
    /\ Group = {}
    /\ ~reused
    /\ reused' = TRUE
    /\ UNCHANGED <<execution, processes, killed, stray, written, ring>>

-----------------------------------------------------------------------------
(* drain: one task per pipe, from the spawn to the end of the pipe.        *)

Bytes(from, to) == [i \in 1 .. to - from |-> from + i]

\* A read returns less than LIMIT bytes, so the branch for more is not taken.
Keep(r, chunk) ==
    LET all == r.kept \o chunk
        overflow == IF Len(all) > Limit THEN Len(all) - Limit ELSE 0
    IN [kept |-> SubSeq(all, overflow + 1, Len(all)),
        read |-> r.read + Len(chunk), truncated |-> r.truncated \/ overflow > 0]

Drain ==
    /\ \E n \in 1 .. Buffer :
         /\ ring.read + n <= written
         /\ ring' = Keep(ring, Bytes(ring.read, ring.read + n))
    /\ UNCHANGED <<execution, processes, signals, written>>

\* read returns 0.
EndOfPipe == ring.read = written /\ Holders = {}

-----------------------------------------------------------------------------
(* execute and terminate_group.                                            *)

Spawn ==
    /\ stage = "idle"
    /\ \/ stage' = "running" /\ leader' = "alive" /\ result' = result
       \/ stage' = "returned" /\ result' = "error" /\ leader' = leader
    /\ UNCHANGED <<timedOut, diagnostic, code, alive, detached, pipe, signals, written, ring>>

Becomes(next) ==
    /\ stage' = next
    /\ UNCHANGED <<result, code, alive, detached, pipe, written, ring>>

\* select!: child.wait() returns.
Waited ==
    /\ stage = "running"
    /\ leader = "zombie"
    /\ leader' = "reaped"
    /\ Becomes("draining")
    /\ UNCHANGED <<timedOut, diagnostic, signals>>

\* child.id(): a child that was waited for has no id any more.
\* Faulty: the number that it had is remembered.
RemembersId == TRUE
HasId == leader # "reaped"

\* signal_group: the number is signalled, whoever has it now; without an id nothing is.
Signal(victims) ==
    /\ killed' = IF HasId THEN killed \cup victims ELSE killed
    /\ stray' = (stray \/ (HasId /\ reused))
    /\ UNCHANGED reused

\* A group of zombies cannot be signalled on every Unix.
Denied == IF HasId /\ Group = {} THEN {TRUE} ELSE {}

\* select!: the deadline has passed; terminate_group sends SIGTERM, which every
\* process may ignore.
Expire ==
    /\ stage = "running"
    /\ timedOut' = TRUE
    /\ Signal({})
    /\ diagnostic' \in {FALSE} \cup Denied
    /\ Becomes("grace")
    /\ UNCHANGED leader

\* The wait within the grace period reaps the leader, or the period is over.
GraceEnough ==
    /\ stage = "grace"
    /\ leader = "zombie"
    /\ leader' = "reaped"
    /\ Becomes("killing")
    /\ UNCHANGED <<timedOut, diagnostic, signals>>

GraceElapsed ==
    /\ stage = "grace"
    /\ Becomes("killing")
    /\ UNCHANGED <<timedOut, diagnostic, leader, signals>>

\* Faulty: the child is signalled and not its group, or not even the child.
KillChild == Signal({Leader})
KillNobody == UNCHANGED signals
Kill == Signal(Group)

\* The system may have reused the number since the grace period ended.
KillGroup ==
    /\ stage = "killing"
    /\ Kill
    /\ diagnostic' \in {diagnostic} \cup Denied
    /\ Becomes("reaping")
    /\ UNCHANGED <<timedOut, leader>>

\* The loop of try_wait, or the wait after it.  A child that was waited for keeps
\* its status.
Reap ==
    /\ stage = "reaping"
    /\ leader \in {"zombie", "reaped"}
    /\ leader' = "reaped"
    /\ Becomes("draining")
    /\ UNCHANGED <<timedOut, diagnostic, signals>>

\* Faulty: what the drains have by now is taken.
DrainedAnyway == TRUE
\* Both drains have returned.
Drained == EndOfPipe

Return ==
    /\ stage = "draining"
    /\ Drained
    /\ stage' = "returned"
    /\ result' = CASE timedOut /\ diagnostic -> "error"
                   [] timedOut /\ ~diagnostic -> "timeout"
                   [] ~timedOut /\ code = "zero" -> "ok"
                   [] OTHER -> "error"
    /\ UNCHANGED <<timedOut, diagnostic, processes, signals, written, ring>>

-----------------------------------------------------------------------------
Next ==
    \/ Spawn \/ Waited \/ Expire \/ GraceEnough \/ GraceElapsed \/ KillGroup \/ Reap
    \/ Drain \/ Return
    \/ LeaderExits \/ Reuse \/ Write
    \/ \E m \in Members : Fork(m) \/ Detach(m) \/ Exit(m)

Spec == Init /\ [][Next]_vars

(***************************************************************************)
(* The runtime polls execute when the leader exits or a timer fires, the   *)
(* deadline and the grace period pass, and the system ends a process that  *)
(* SIGKILL was sent to.  No process has to end otherwise.                  *)
(***************************************************************************)
Fairness ==
    /\ WF_vars(Waited \/ Expire)
    /\ WF_vars(GraceEnough \/ GraceElapsed)
    /\ WF_vars(KillGroup)
    /\ WF_vars(Reap)
    /\ WF_vars(Leader \in killed /\ LeaderExits)
    /\ \A m \in Members : WF_vars(m \in killed /\ Exit(m))

FairSpec == Spec /\ Fairness

-----------------------------------------------------------------------------
(* Properties.                                                             *)

\* Neither SIGTERM nor SIGKILL goes to a stranger: the number of the group may be
\* given away between any two steps of terminate_group, once the wait within the
\* grace period has reaped the leader and the members of the group are gone.
SignalsOwnGroup == ~stray

\* If the leader outlives the grace period, so that it had to be killed, nobody
\* in its group is spared, whatever was forked in between; only what left the
\* group goes on ("terminate_group").
EscalationComplete == Leader \in killed => Group \subseteq killed

\* What a run that ended returns is the end of everything that was ever written
\* to the pipe, by the leader or by those who outlived it, and `truncated` says
\* whether that is all.
OutputComplete ==
    stage = "returned" /\ leader # "unborn" =>
        /\ Holders = {}
        /\ ring.kept = Bytes(IF written > Limit THEN written - Limit ELSE 0, written)
        /\ ring.truncated <=> written > Limit

\* The leader is reaped, whatever it ignores: no run waits for it for ever.
LeaderReaped == stage = "running" ~> leader = "reaped"
=============================================================================
