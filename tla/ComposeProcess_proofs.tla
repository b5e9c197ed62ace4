------------------------ MODULE ComposeProcess_proofs ------------------------
(***************************************************************************)
(* Proofs about ComposeProcess, for any processes that the leader forks,   *)
(* any amount of output, any LIMIT and any size of a read below LIMIT.     *)
(***************************************************************************)
EXTENDS ComposeProcess, TLAPS

USE LeaderAssumption, BufferAssumption

(***************************************************************************)
(* The invariant.                                                          *)
(***************************************************************************)
TypeOK ==
    /\ stage \in Stages
    /\ leader \in {"unborn", "alive", "zombie", "reaped"}
    /\ alive \subseteq Members
    /\ detached \subseteq Members
    /\ pipe \subseteq Members
    /\ killed \subseteq Members \cup {Leader}
    /\ written \in Nat

\* Where execute is says what became of the child.
LeaderFits ==
    /\ stage = "idle" => leader = "unborn" /\ killed = {}
    /\ stage \in {"running", "grace"} => leader \in {"alive", "zombie"}
    /\ stage \in {"killing", "reaping"} => leader \in {"alive", "zombie", "reaped"}
    /\ stage = "draining" => leader = "reaped"
    /\ stage = "returned" => leader \in {"unborn", "reaped"}

\* The first byte that is not dropped comes after this many.
Dropped(read) == IF read > Limit THEN read - Limit ELSE 0

\* The ring is the tail of what was read, at every moment.
Ring(read) == [kept |-> Bytes(Dropped(read), read), read |-> read, truncated |-> read > Limit]

RingFits ==
    /\ ring.read \in 0 .. written
    /\ ring = Ring(ring.read)

\* Once execute returned, nothing is left to read, and nobody is left to write.
Closed == stage = "returned" /\ leader # "unborn" => EndOfPipe

\* Nobody gets the number of the group while the child still has its id.
NumberFits == reused => leader = "reaped"

IInv ==
    /\ TypeOK /\ LeaderFits /\ RingFits /\ Closed
    /\ NumberFits /\ SignalsOwnGroup /\ EscalationComplete

(***************************************************************************)
(* The ring of drain.                                                      *)
(***************************************************************************)
LEMMA BytesLength ==
    ASSUME NEW from \in Nat, NEW to \in Nat, from <= to
    PROVE  /\ Bytes(from, to) \in Seq(Nat)
           /\ Len(Bytes(from, to)) = to - from
           /\ \A i \in 1 .. to - from : Bytes(from, to)[i] = from + i
  BY DEF Bytes

\* Keep drops from the front what is too much, and what is kept is again a tail
\* of everything that was read.
LEMMA KeepTail ==
    ASSUME NEW read \in Nat, NEW n \in 1 .. Buffer
    PROVE  Keep(Ring(read), Bytes(read, read + n)) = Ring(read + n)
  <1> DEFINE first == Dropped(read)
             old == Bytes(first, read)
             chunk == Bytes(read, read + n)
             both == old \o chunk
             excess == IF Len(both) > Limit THEN Len(both) - Limit ELSE 0
  <1>1. first \in Nat /\ first <= read /\ n \in Nat /\ read + n \in Nat
    BY DEF Dropped
  <1>2. old \in Seq(Nat) /\ Len(old) = read - first
        /\ \A i \in 1 .. read - first : old[i] = first + i
    <2> HIDE DEF first
    <2> QED BY <1>1, BytesLength
  <1>3. chunk \in Seq(Nat) /\ Len(chunk) = n
        /\ \A i \in 1 .. n : chunk[i] = read + i
    <2> DEFINE to == read + n
    <2>1. to \in Nat /\ read <= to /\ to - read = n
      BY <1>1
    <2> HIDE DEF to
    <2>2. /\ Bytes(read, to) \in Seq(Nat)
          /\ Len(Bytes(read, to)) = to - read
          /\ \A i \in 1 .. to - read : Bytes(read, to)[i] = read + i
      BY <2>1, BytesLength
    <2> QED BY <2>1, <2>2 DEF to
  <1>4. Keep(Ring(read), chunk)
           = [kept |-> SubSeq(both, excess + 1, Len(both)),
              read |-> read + Len(chunk), truncated |-> read > Limit \/ excess > 0]
    BY DEF Keep, Ring
  <1> HIDE DEF old, chunk
  <1>5. both \in Seq(Nat) /\ Len(both) = read - first + n
    <2>1. both \in Seq(Nat) /\ Len(both) = Len(old) + Len(chunk)
      <3>1. old \in Seq(Nat) /\ chunk \in Seq(Nat)
        BY <1>2, <1>3
      <3> QED BY <3>1
    <2> HIDE DEF both, first
    <2> QED BY <2>1, <1>1, <1>2, <1>3
  <1>6. \A i \in 1 .. read - first + n : both[i] = first + i
    <2> HIDE DEF first
    <2> TAKE i \in 1 .. read - first + n
    <2>1. CASE i <= read - first
      <3>1. both[i] = old[i]
        BY <2>1, <1>1, <1>2, <1>3
      <3> QED BY <2>1, <3>1, <1>1, <1>2
    <2>2. CASE i > read - first
      <3>1. both[i] = chunk[i - (read - first)]
        BY <2>2, <1>1, <1>2, <1>3, SMTT(30)
      <3>2. i - (read - first) \in 1 .. n
        BY <2>2, <1>1
      <3> QED BY <3>1, <3>2, <1>1, <1>3
    <2> HIDE DEF both
    <2> QED BY <2>1, <2>2, <1>1
  <1> HIDE DEF both
  <1>7. excess \in Nat /\ excess <= Len(both) /\ first + excess = Dropped(read + n)
    BY <1>1, <1>5 DEF Dropped
  <1>8. (read > Limit \/ excess > 0) <=> read + n > Limit
    BY <1>1, <1>5 DEF Dropped
  <1> HIDE DEF excess, first
  <1>9. SubSeq(both, excess + 1, Len(both)) = Bytes(Dropped(read + n), read + n)
    <2>1. SubSeq(both, excess + 1, Len(both))
            = [i \in 1 .. Len(both) - excess |-> both[i + excess]]
      BY <1>5, <1>7
    <2>2. Len(both) - excess = (read + n) - Dropped(read + n)
      BY <1>1, <1>5, <1>7
    <2>3. \A i \in 1 .. Len(both) - excess : both[i + excess] = Dropped(read + n) + i
      BY <1>1, <1>5, <1>6, <1>7
    <2> DEFINE total == read + n
               range == 1 .. Len(both) - excess
    <2>4. Bytes(Dropped(total), total) = [i \in range |-> Dropped(total) + i]
      <3>1. total - Dropped(total) = Len(both) - excess
        BY <2>2
      <3> HIDE DEF total
      <3>2. 1 .. total - Dropped(total) = range
        BY <3>1, Zenon
      <3> QED BY <3>2, Zenon DEF Bytes
    <2>5. \A i \in range : both[i + excess] = Dropped(total) + i
      BY <2>3
    <2>6. SubSeq(both, excess + 1, Len(both)) = [i \in range |-> both[i + excess]]
      BY <2>1
    <2> HIDE DEF range, total
    <2>7. SubSeq(both, excess + 1, Len(both)) = Bytes(Dropped(total), total)
      BY <2>4, <2>5, <2>6
    <2> QED BY <2>7 DEF total
  <1>10. read + Len(chunk) = read + n
    BY <1>3
  <1>11. (read > Limit \/ excess > 0) = (read + n > Limit)
    BY <1>8
  <1>12. Keep(Ring(read), chunk)
           = [kept |-> Bytes(Dropped(read + n), read + n),
              read |-> read + n, truncated |-> read + n > Limit]
    BY ONLY <1>4, <1>9, <1>10, <1>11, Zenon
  <1> QED BY <1>12, Zenon DEF Ring, chunk

(***************************************************************************)
(* The steps.                                                              *)
(***************************************************************************)
LEMMA InvInit == Init => IInv
  <1> SUFFICES ASSUME Init PROVE IInv
    OBVIOUS
  <1> USE DEF Init
  <1>1. RingFits
    <2>1. Bytes(0, 0) = <<>>
      BY DEF Bytes
    <2>2. Dropped(0) = 0 /\ ~(0 > Limit)
      BY DEF Dropped
    <2>3. (0 > Limit) = FALSE
      BY <2>2
    <2>4. Ring(0) = [kept |-> <<>>, read |-> 0, truncated |-> FALSE]
      BY <2>1, <2>2, <2>3, Zenon DEF Ring
    <2> QED BY <2>4 DEF RingFits
  <1>2. TypeOK /\ LeaderFits /\ Closed /\ NumberFits /\ SignalsOwnGroup /\ EscalationComplete
    BY DEF TypeOK, LeaderFits, Closed, NumberFits, SignalsOwnGroup, EscalationComplete, Stages
  <1> QED BY <1>1, <1>2 DEF IInv

\* A member of a group that was killed cannot fork any more, and one that left
\* the group forks into its own.
LEMMA ForkStep ==
    ASSUME IInv, NEW m \in Members, Fork(m)
    PROVE  IInv'
  <1> USE DEF IInv, execution, signals
  <1>1. PICK p \in (alive \cup Group) \ killed :
          /\ alive' = alive \cup {m}
          /\ detached' = IF p \in detached THEN detached \cup {m} ELSE detached \ {m}
          /\ pipe' \in {pipe} \cup (IF p \in Holders THEN {pipe \cup {m}} ELSE {})
    BY DEF Fork
  <1>2. UNCHANGED <<execution, leader, code, signals, written, ring>>
    BY DEF Fork
  <1>3. TypeOK'
    BY <1>1, <1>2 DEF TypeOK
  <1>4. LeaderFits' /\ RingFits' /\ NumberFits' /\ SignalsOwnGroup'
    BY <1>2 DEF LeaderFits, RingFits, NumberFits, SignalsOwnGroup
  <1>5. Closed'
    BY <1>1, <1>2 DEF Closed, EndOfPipe, Holders
  <1>6. EscalationComplete'
    <2> SUFFICES ASSUME Leader \in killed
                 PROVE  Group' \subseteq killed
      BY <1>2 DEF EscalationComplete
    <2>1. Group \subseteq killed
      BY DEF EscalationComplete
    <2>2. p \in detached
      BY <1>1, <2>1 DEF Group
    <2>3. Group' \subseteq Group
      BY <1>1, <1>2, <2>2 DEF Group
    <2> QED BY <2>1, <2>3
  <1> QED BY <1>3, <1>4, <1>5, <1>6

LEMMA ProcessSteps ==
    ASSUME IInv,
           \/ \E m \in Members : Detach(m) \/ Exit(m)
           \/ LeaderExits \/ Reuse \/ Write
    PROVE  IInv'
  <1> USE DEF IInv, TypeOK, LeaderFits, RingFits, Closed, NumberFits, SignalsOwnGroup, EscalationComplete,
          execution, processes, signals
  <1>1. ASSUME NEW m \in Members, Detach(m) PROVE IInv'
    BY <1>1 DEF Detach, Group, Holders, EndOfPipe
  <1>2. ASSUME NEW m \in Members, Exit(m) PROVE IInv'
    BY <1>2 DEF Exit, Group, Holders, EndOfPipe
  <1>3. CASE LeaderExits
    BY <1>3 DEF LeaderExits, Group, Holders, EndOfPipe
  <1>4. CASE Write
    <2>1. Closed'
      BY <1>4 DEF Write, Holders, EndOfPipe
    <2>2. TypeOK' /\ LeaderFits' /\ NumberFits' /\ SignalsOwnGroup' /\ EscalationComplete'
      BY <1>4 DEF Write, Group
    <2>3. RingFits'
      BY <1>4 DEF Write
    <2> QED BY <2>1, <2>2, <2>3
  <1>5. CASE Reuse
    BY <1>5 DEF Reuse, Group, Holders, EndOfPipe
  <1> QED BY <1>1, <1>2, <1>3, <1>4, <1>5

LEMMA DrainStep ==
    ASSUME IInv, Drain
    PROVE  IInv'
  <1> USE DEF IInv, execution, processes, signals
  <1>1. PICK n \in 1 .. Buffer :
          /\ ring.read + n <= written
          /\ ring' = Keep(ring, Bytes(ring.read, ring.read + n))
    BY DEF Drain
  <1>2. ring' = Ring(ring.read + n)
    <2>1. ring.read \in Nat /\ ring = Ring(ring.read)
      BY DEF RingFits, TypeOK
    <2> DEFINE read == ring.read
    <2>2. Keep(Ring(read), Bytes(read, read + n)) = Ring(read + n)
      BY <2>1, KeepTail
    <2> QED BY <1>1, <2>1, <2>2
  <1>3. ring'.read = ring.read + n
    BY <1>2 DEF Ring
  <1>4. RingFits'
    BY <1>1, <1>2, <1>3 DEF RingFits, TypeOK, Drain
  <1>5. Closed'
    <2>1. ~(stage = "returned" /\ leader # "unborn")
      BY <1>1 DEF Closed, EndOfPipe, RingFits, TypeOK
    <2> QED BY <2>1 DEF Closed, Drain
  <1>6. TypeOK' /\ LeaderFits' /\ NumberFits' /\ SignalsOwnGroup' /\ EscalationComplete'
    BY DEF TypeOK, LeaderFits, NumberFits, SignalsOwnGroup, EscalationComplete, Drain, Group
  <1> QED BY <1>4, <1>5, <1>6

\* While the child has an id the number is its group's, so no signal goes astray.
LEMMA SignalStep ==
    ASSUME IInv, NEW victims, Signal(victims)
    PROVE  /\ reused' = reused /\ SignalsOwnGroup'
           /\ killed' \in {killed, killed \cup victims}
  BY DEF IInv, NumberFits, SignalsOwnGroup, Signal, HasId

LEMMA ExecuteSteps ==
    ASSUME IInv,
           Spawn \/ Waited \/ Expire \/ GraceEnough \/ GraceElapsed \/ KillGroup \/ Reap \/ Return
    PROVE  IInv'
  <1> USE DEF IInv, TypeOK, LeaderFits, Closed, NumberFits, SignalsOwnGroup, EscalationComplete,
          Stages, execution, processes, signals, Becomes
  <1>1. ring' = ring /\ written' = written
    BY DEF Spawn, Waited, Expire, GraceEnough, GraceElapsed, KillGroup, Reap, Return
  <1>2. RingFits'
    BY <1>1 DEF RingFits
  <1>3. CASE Spawn
    BY <1>2, <1>3 DEF Spawn, Group
  <1>4. CASE Waited \/ Reap
    BY <1>2, <1>4 DEF Waited, Reap, Group
  <1>5. CASE Expire
    <2>1. reused' = reused /\ SignalsOwnGroup' /\ killed' = killed
      BY <1>5, SignalStep DEF Expire
    <2> QED BY <1>2, <1>5, <2>1 DEF Expire, Group
  <1>6. CASE GraceEnough
    BY <1>2, <1>6 DEF GraceEnough, Group
  <1>7. CASE GraceElapsed
    BY <1>2, <1>7 DEF GraceElapsed, Group
  <1>8. CASE KillGroup
    <2>1. reused' = reused /\ SignalsOwnGroup' /\ killed' \in {killed, killed \cup Group}
      BY <1>8, SignalStep DEF KillGroup, Kill
    <2>2. /\ UNCHANGED <<timedOut, leader, result, code, alive, detached, pipe, written, ring>>
          /\ stage = "killing" /\ stage' = "reaping"
      BY <1>8 DEF KillGroup
    <2>3. Group' = Group /\ Group \subseteq Members \cup {Leader}
      BY <2>2 DEF Group
    <2>4. EscalationComplete'
      \* Nobody is sent SIGKILL, or the whole group is.
      BY <2>1, <2>2, <2>3
    <2> QED BY <1>2, <2>1, <2>2, <2>3, <2>4
  <1>9. CASE Return
    BY <1>2, <1>9 DEF Return, Drained, EndOfPipe, Group, Holders
  <1> QED BY <1>3, <1>4, <1>5, <1>6, <1>7, <1>8, <1>9

LEMMA InvStep == IInv /\ [Next]_vars => IInv'
  <1> SUFFICES ASSUME IInv, [Next]_vars PROVE IInv'
    OBVIOUS
  <1>1. CASE UNCHANGED vars
    BY <1>1 DEF IInv, TypeOK, LeaderFits, RingFits, Closed, NumberFits, SignalsOwnGroup, EscalationComplete,
         EndOfPipe, Group, Holders, vars, execution, processes, signals
  <1>2. CASE Next
    BY <1>2, ForkStep, ProcessSteps, DrainStep, ExecuteSteps DEF Next
  <1> QED BY <1>1, <1>2

LEMMA Invariance == Spec => []IInv
  BY InvInit, InvStep, PTL DEF Spec

(***************************************************************************)
(* What the invariant says.                                                *)
(***************************************************************************)
\* signal_group signals the group that execute made, and never a stranger that was
\* given its number, whenever the leader and the members exit and whenever the
\* number is reused between the steps of terminate_group.
THEOREM SignalsStayInGroup == Spec => []SignalsOwnGroup
  BY Invariance, PTL DEF IInv

\* A leader that outlives the grace period takes its whole group with it: nothing
\* that it forks before SIGKILL, and nothing forked after, is spared in the group.
THEOREM EscalationReachesGroup == Spec => []EscalationComplete
  BY Invariance, PTL DEF IInv

\* What execute returns holds the last LIMIT bytes of everything that was written
\* to the pipe by anybody, and says whether bytes before them were dropped.
THEOREM OutputIsTail == Spec => []OutputComplete
  <1>1. IInv => OutputComplete
    <2> SUFFICES ASSUME IInv, stage = "returned", leader # "unborn"
                 PROVE  /\ Holders = {}
                        /\ ring.kept = Bytes(IF written > Limit THEN written - Limit ELSE 0, written)
                        /\ ring.truncated <=> written > Limit
      BY DEF OutputComplete
    <2>1. Holders = {} /\ ring.read = written
      BY DEF IInv, Closed, EndOfPipe
    <2>2. ring = Ring(written)
      BY <2>1 DEF IInv, RingFits
    <2>3. ring.kept = Bytes(Dropped(written), written) /\ ring.truncated = (written > Limit)
      BY <2>2, Zenon DEF Ring
    <2> QED BY <2>1, <2>3, Zenon DEF Dropped
  <1> QED BY <1>1, Invariance, PTL

\* Nothing that is read is ever lost from the middle: at every moment the ring is
\* the tail of what drain has read, however the reads cut the output.
THEOREM RingIsTail == Spec => []RingFits
  BY Invariance, PTL DEF IInv
=============================================================================
