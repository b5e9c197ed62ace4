------------------------ MODULE ProfileRegistry_proofs ------------------------
(***************************************************************************)
(* Proofs about ProfileRegistry, for any tasks, instances, profiles and    *)
(* drafts, any revision limit, any number of kept artifacts above zero and *)
(* any number of failed writes and crashes.                                *)
(***************************************************************************)
EXTENDS ProfileRegistry, SequenceTheorems, TLAPS

USE HomeAssumption, LimitsAssumption, ContentsAssumption

(***************************************************************************)
(* The invariant.                                                          *)
(***************************************************************************)
ProfileStates == [revision : Nat, draft : Drafts]
ProfileMaps == UNION {[ids -> ProfileStates] : ids \in SUBSET Profiles}
Snapshots == UNION {SnapshotsOf(ids) : ids \in SUBSET Profiles}
Contents == Snapshots \cup {None, Corrupt}
Artifacts == [content : Contents, kept : BOOLEAN]
Stages == {"idle", "reading", "locking", "writing", "renamed", "verifying", "pruning", "returning"}
Creations == {"create", "register"}
Operations == [kind : Mutations \cup {"none", "backup", "import", "restore"},
               profile : Profiles \cup {None}, draft : Drafts \cup {None}]

TypeOK ==
    /\ visible \in [Paths -> Contents \cup {Legacy, Malformed}]
    /\ visible[Canonical] \in Contents
    /\ durable \in [Paths -> SUBSET (Contents \cup {Legacy, Malformed})]
    /\ durable[Canonical] \subseteq Contents
    /\ legacy \in {None, Legacy, Malformed}
    /\ artifacts \in Seq(Artifacts)
    /\ lock \in Tasks \cup {None}
    /\ pc \in [Tasks -> Stages]
    /\ op \in [Tasks -> Operations]
    /\ next \in [Tasks -> Snapshots \cup {None, Legacy, Malformed}]
    /\ saved \in [Tasks -> Contents]
    /\ failed \in [Tasks -> BOOLEAN]
    /\ seen \in [Tasks -> ProfileMaps]
    /\ generated \subseteq Profiles
    /\ acked \in Nat

\* Who writes holds the lock; at most one task restores.
Locking(t) == pc[t] \in {"writing", "renamed", "verifying"}
TasksFit ==
    \A t \in Tasks :
       /\ Locking(t) => lock = t
       /\ \A u \in Tasks : Restoring(t) /\ Restoring(u) => t = u
       /\ op[t].kind \in Creations \cup {"update"} => op[t].draft \in Drafts
       /\ op[t].kind \in Creations => op[t].profile \in Profiles
       /\ pc[t] \in {"idle", "locking"} /\ ~Restoring(t) => next[t] = None
       /\ pc[t] = "idle" => op[t] = Idle
       /\ pc[t] = "locking" /\ Restoring(t) => next[t] \in Snapshots
       /\ pc[t] \in {"reading", "pruning"} => Restoring(t)

\* What may come back is what readers find, or older.
FilesFit ==
    /\ \A path \in Paths : visible[path] \in durable[path]
    /\ visible[Canonical] \notin Snapshots => durable[Canonical] = {visible[Canonical]}
    /\ \A c \in durable[Canonical] :
          Register!RevisionOf(c) <= Register!RevisionOf(visible[Canonical])

\* How a mutation, a restore and an import replace the canonical file.
Mutates(old, new) ==
    /\ old # Corrupt
    /\ new.revision = Register!RevisionOf(old) + 1
    /\ \E p \in DOMAIN Register!ProfilesOf(old) \cup DOMAIN new.profiles :
          Register!OnlyChanges(p, Register!ProfilesOf(old), new.profiles)
Restores(old, new) ==
    /\ new.revision > Register!RevisionOf(old)
    /\ \A p \in DOMAIN new.profiles \cap DOMAIN Register!ProfilesOf(old) :
          new.profiles[p].revision > Register!ProfilesOf(old)[p].revision
Imports(old, new) == old = None /\ new.revision \in {0, 1}

\* What a writer has under its hands: it succeeds the file that is still there, and is
\* what the file contains after the rename.
WriteFits(t) ==
    /\ Locking(t) => op[t].kind # "none" /\ next[t] # None
    /\ Locking(t) /\ next[t] \notin Snapshots =>
          op[t].kind = "import" /\ next[t] = legacy /\ visible[Canonical] = None
    /\ pc[t] = "writing" /\ Target(t) = Canonical =>
          \/ Mutates(visible[Canonical], next[t])
          \/ Restores(visible[Canonical], next[t])
          \/ Imports(visible[Canonical], next[t])
    /\ pc[t] \in {"renamed", "verifying"} => visible[Target(t)] = next[t]
    /\ pc[t] = "verifying" => Mutating(t) \/ Restoring(t)
WritesFit == \A t \in Tasks : WriteFits(t)

\* A write that will be acknowledged is durable, from the sync of the directory on.
Acknowledging(t) == /\ \/ pc[t] = "verifying"
                       \/ pc[t] \in {"pruning", "returning"} /\ ~failed[t]
                    /\ next[t] \in Snapshots /\ op[t].kind # "backup"
SyncedFits ==
    \A t \in Tasks : Acknowledging(t) =>
       \A c \in durable[Canonical] : c \in Snapshots /\ c.revision >= next[t].revision

\* A restore has its artifact before it writes.
SavedFits ==
    \A t \in Tasks :
       Restoring(t) /\ saved[t] # None /\ pc[t] = "writing"
          => artifacts # <<>> /\ Last(artifacts).content = saved[t]

\* A profile that is to be created has an id that no file and no other task has.
Ids(c) == IF c \in Snapshots THEN DOMAIN c.profiles ELSE {}
IdsFit ==
    /\ \A path \in Paths : \A c \in durable[path] : Ids(c) \subseteq generated
    /\ \A t \in Tasks : Ids(next[t]) \subseteq generated
    /\ \A t \in Tasks : op[t].kind \in Creations => op[t].profile \in generated
    /\ \A t \in Tasks : op[t].kind \in Creations /\ pc[t] = "locking" =>
          /\ \A path \in Paths : \A c \in durable[path] : op[t].profile \notin Ids(c)
          /\ \A u \in Tasks : op[t].profile \notin Ids(next[u])
          /\ \A u \in Tasks : op[u].kind \in Creations /\ u # t => op[u].profile # op[t].profile

IInv == /\ TypeOK /\ TasksFit /\ FilesFit /\ WritesFit /\ SyncedFits /\ SavedFits /\ IdsFit
        /\ AcknowledgedKept /\ RestoreReversible /\ LegacySavedFirst

(***************************************************************************)
(* The data.                                                               *)
(***************************************************************************)
LEMMA MapFacts ==
    ASSUME NEW ps \in ProfileMaps
    PROVE  /\ DOMAIN ps \subseteq Profiles
           /\ \A p \in DOMAIN ps : ps[p] \in ProfileStates /\ ps[p].revision \in Nat
  <1>1. PICK ids \in SUBSET Profiles : ps \in [ids -> ProfileStates]
    BY DEF ProfileMaps
  <1> QED BY <1>1 DEF ProfileStates

LEMMA MapIs ==
    ASSUME NEW ids \in SUBSET Profiles, NEW ps \in [ids -> ProfileStates]
    PROVE  ps \in ProfileMaps
  BY DEF ProfileMaps

LEMMA SnapshotFacts ==
    ASSUME NEW c \in Snapshots
    PROVE  /\ c.revision \in Nat /\ c.profiles \in ProfileMaps
           /\ c \notin {None, Corrupt, Legacy, Malformed} /\ Decodes(c) /\ Register!Valid(c)
           /\ Register!RevisionOf(c) = c.revision /\ Register!ProfilesOf(c) = c.profiles
           /\ Ids(c) = DOMAIN c.profiles /\ Ids(c) \subseteq Profiles
  <1>1. PICK ids \in SUBSET Profiles : c \in SnapshotsOf(ids)
    BY DEF Snapshots
  <1>2. c.revision \in Nat /\ c.profiles \in [ids -> ProfileStates]
    BY <1>1 DEF SnapshotsOf, ProfileStates
  <1>3. c.profiles \in ProfileMaps
    BY <1>2, MapIs
  <1>4. c \notin {None, Corrupt, Legacy, Malformed}
    BY <1>1
  <1>5. Decodes(c) /\ Register!Valid(c)
    BY <1>4 DEF Decodes, Register!Valid
  <1>6. Register!RevisionOf(c) = c.revision /\ Register!ProfilesOf(c) = c.profiles
    BY <1>5 DEF Register!RevisionOf, Register!ProfilesOf
  <1> QED BY <1>2, <1>3, <1>4, <1>5, <1>6, MapFacts DEF Ids

LEMMA SnapshotIs ==
    ASSUME NEW r \in Nat, NEW ps \in ProfileMaps
    PROVE  /\ Snapshot(r, ps) \in Snapshots
           /\ Snapshot(r, ps).revision = r /\ Snapshot(r, ps).profiles = ps
  <1>1. PICK ids \in SUBSET Profiles : ps \in [ids -> ProfileStates]
    BY DEF ProfileMaps
  <1>2. Snapshot(r, ps) \in SnapshotsOf(ids)
    BY <1>1 DEF Snapshot, SnapshotsOf, ProfileStates
  <1> QED BY <1>2 DEF Snapshots, Snapshot

LEMMA NoSnapshot ==
    /\ {None, Corrupt, Legacy, Malformed} \cap Snapshots = {}
    /\ ~Decodes(None) /\ ~Decodes(Corrupt) /\ ~Decodes(Legacy) /\ ~Decodes(Malformed)
    /\ \A c \in {None, Corrupt, Legacy, Malformed} : Ids(c) = {}
    /\ \A c \in {None, Corrupt} : /\ ~Register!Valid(c) /\ Register!RevisionOf(c) = 0
                                  /\ DOMAIN Register!ProfilesOf(c) = {}
  <1>1. {None, Corrupt, Legacy, Malformed} \cap Snapshots = {}
    BY SnapshotFacts
  <1>2. ~Decodes(None) /\ ~Decodes(Corrupt) /\ ~Decodes(Legacy) /\ ~Decodes(Malformed)
    BY DEF Decodes
  <1>3. \A c \in {None, Corrupt, Legacy, Malformed} : Ids(c) = {}
    BY <1>1 DEF Ids
  <1>4. \A c \in {None, Corrupt} : /\ ~Register!Valid(c) /\ Register!RevisionOf(c) = 0
                                   /\ DOMAIN Register!ProfilesOf(c) = {}
    BY DEF Register!Valid, Register!RevisionOf, Register!ProfilesOf
  <1> QED BY <1>1, <1>2, <1>3, <1>4

LEMMA ContentFacts ==
    ASSUME NEW c \in Contents
    PROVE  /\ Decodes(c) <=> c \in Snapshots
           /\ Register!Valid(c) <=> c \in Snapshots
           /\ Register!RevisionOf(c) \in Nat /\ Register!ProfilesOf(c) \in ProfileMaps
           /\ c \notin {Legacy, Malformed}
  <1>1. CASE c \in Snapshots
    BY <1>1, SnapshotFacts
  <1>2. CASE c \in {None, Corrupt}
    <2>1. Register!ProfilesOf(c) \in [{} -> ProfileStates]
      BY <1>2 DEF Register!Valid, Register!ProfilesOf
    <2>2. Register!ProfilesOf(c) \in ProfileMaps
      BY <2>1, MapIs
    <2>3. c \notin Snapshots /\ c \notin {Legacy, Malformed} /\ ~Decodes(c)
      BY <1>2, NoSnapshot
    <2> QED BY <1>2, <2>2, <2>3, NoSnapshot
  <1> QED BY <1>1, <1>2 DEF Contents

LEMMA NobodyFacts == Nobody \in ProfileMaps /\ DOMAIN Nobody = {}
  <1>1. Nobody \in [{} -> ProfileStates] /\ DOMAIN Nobody = {}
    BY DEF Nobody
  <1> QED BY <1>1, MapIs

LEMMA WithFacts ==
    ASSUME NEW ps \in ProfileMaps, NEW p \in Profiles, NEW r \in Nat, NEW d \in Drafts
    PROVE  /\ With(ps, p, Profile(r, d)) \in ProfileMaps
           /\ DOMAIN With(ps, p, Profile(r, d)) = DOMAIN ps \cup {p}
           /\ With(ps, p, Profile(r, d))[p].revision = r
           /\ \A q \in DOMAIN ps \ {p} : With(ps, p, Profile(r, d))[q] = ps[q]
  <1> DEFINE v == Profile(r, d)
  <1>1. v \in ProfileStates /\ v.revision = r
    BY DEF Profile, ProfileStates
  <1> HIDE DEF v
  <1>2. DOMAIN ps \cup {p} \in SUBSET Profiles
    BY MapFacts
  <1>3. With(ps, p, v) \in [DOMAIN ps \cup {p} -> ProfileStates]
    BY <1>1, MapFacts DEF With
  <1>4. With(ps, p, v) \in ProfileMaps
    BY <1>2, <1>3, MapIs
  <1>5. /\ DOMAIN With(ps, p, v) = DOMAIN ps \cup {p} /\ With(ps, p, v)[p].revision = r
        /\ \A q \in DOMAIN ps \ {p} : With(ps, p, v)[q] = ps[q]
    BY <1>1 DEF With
  <1> QED BY <1>4, <1>5 DEF v

LEMMA WithoutFacts ==
    ASSUME NEW ps \in ProfileMaps, NEW p
    PROVE  /\ Without(ps, p) \in ProfileMaps /\ DOMAIN Without(ps, p) = DOMAIN ps \ {p}
           /\ \A q \in DOMAIN ps \ {p} : Without(ps, p)[q] = ps[q]
  <1>1. Without(ps, p) \in [DOMAIN ps \ {p} -> ProfileStates] /\ DOMAIN ps \ {p} \in SUBSET Profiles
    BY MapFacts DEF Without
  <1>2. Without(ps, p) \in ProfileMaps
    BY <1>1, MapIs
  <1> QED BY <1>2 DEF Without

\* The path of a writer depends on its operation and on what it writes.
TargetOf(kind, c) ==
    CASE kind = "backup" -> Backup
      [] c \in {Legacy, Malformed} -> LegacyBackup
      [] OTHER -> Canonical

LEMMA TargetFacts ==
    ASSUME NEW kind, NEW c \in Snapshots \cup {Legacy, Malformed}, kind = "backup" => c \in Snapshots
    PROVE  /\ TargetOf(kind, c) \in Paths
           /\ TargetOf(kind, c) = Canonical <=> kind # "backup" /\ c \in Snapshots
           /\ TargetOf(kind, c) = LegacyBackup <=> c \notin Snapshots
  <1>1. Canonical # Backup /\ Backup # LegacyBackup /\ Canonical # LegacyBackup
    BY DEF Canonical, Backup, LegacyBackup
  <1>2. CASE kind = "backup"
    <2>1. c \in Snapshots /\ c \notin {Legacy, Malformed}
      BY <1>2, SnapshotFacts
    <2>2. TargetOf(kind, c) = Backup
      BY <1>2, <2>1 DEF TargetOf
    <2> QED BY <1>1, <1>2, <2>1, <2>2 DEF Paths
  <1>3. CASE kind # "backup" /\ c \notin Snapshots
    BY <1>1, <1>3 DEF TargetOf, Paths
  <1>4. CASE kind # "backup" /\ c \in Snapshots
    <2>1. c \notin {Legacy, Malformed}
      BY <1>4, SnapshotFacts
    <2>2. TargetOf(kind, c) = Canonical
      BY <1>4, <2>1 DEF TargetOf
    <2> QED BY <1>1, <1>4, <2>2 DEF Paths
  <1> QED BY <1>2, <1>3, <1>4

LEMMA TaskFacts ==
    ASSUME IInv, NEW t \in Tasks
    PROVE  /\ pc[t] \in Stages /\ op[t] \in Operations /\ op[t].kind \in Mutations \cup {"none", "backup", "import", "restore"}
           /\ next[t] \in Snapshots \cup {None, Legacy, Malformed}
           /\ saved[t] \in Contents /\ failed[t] \in BOOLEAN /\ seen[t] \in ProfileMaps
           /\ Locking(t) => /\ next[t] \in Snapshots \cup {Legacy, Malformed}
                            /\ op[t].kind = "backup" => next[t] \in Snapshots
           /\ Target(t) = TargetOf(op[t].kind, next[t])
  <1>1. /\ pc[t] \in Stages /\ op[t] \in Operations
        /\ next[t] \in Snapshots \cup {None, Legacy, Malformed}
        /\ saved[t] \in Contents /\ failed[t] \in BOOLEAN /\ seen[t] \in ProfileMaps
    BY DEF IInv, TypeOK
  <1>2. op[t].kind \in Mutations \cup {"none", "backup", "import", "restore"}
    BY <1>1 DEF Operations
  <1>3. Locking(t) => /\ next[t] \in Snapshots \cup {Legacy, Malformed}
                      /\ op[t].kind = "backup" => next[t] \in Snapshots
    BY <1>1 DEF IInv, WritesFit, WriteFits
  <1>4. Target(t) = TargetOf(op[t].kind, next[t])
    BY DEF Target, TargetOf
  <1> QED BY <1>1, <1>2, <1>3, <1>4

(***************************************************************************)
(* The steps.                                                              *)
(***************************************************************************)
LEMMA InvInit == Init => IInv
  <1> SUFFICES ASSUME Init PROVE IInv
    OBVIOUS
  <1> DEFINE Found(p, d) == Snapshot(1, With(Nobody, p, Profile(1, d)))
  <1>1. PICK p \in Profiles, d \in Drafts :
           \E canonical \in {None, Corrupt, Found(p, d)}, backup \in {None, Found(p, d)} :
              /\ visible = [path \in Paths |-> CASE path = Canonical -> canonical
                                                 [] path = Backup -> backup
                                                 [] OTHER -> None]
              /\ generated = {p}
    BY DEF Init
  <1>2. Found(p, d) \in Snapshots /\ Ids(Found(p, d)) = {p}
    <2>1. /\ With(Nobody, p, Profile(1, d)) \in ProfileMaps
          /\ DOMAIN With(Nobody, p, Profile(1, d)) = {p}
      <3>1. DOMAIN Nobody \cup {p} = {p}
        BY NobodyFacts
      <3>2. \A r \in Nat : /\ With(Nobody, p, Profile(r, d)) \in ProfileMaps
                           /\ DOMAIN With(Nobody, p, Profile(r, d)) = DOMAIN Nobody \cup {p}
        BY NobodyFacts, WithFacts, ZenonT(60)
      <3> QED BY <3>1, <3>2
    <2>2. Found(p, d) \in Snapshots /\ Found(p, d).profiles = With(Nobody, p, Profile(1, d))
      BY <2>1, SnapshotIs
    <2> QED BY <2>1, <2>2 DEF Ids
  <1> HIDE DEF Found
  <1>3. Canonical \in Paths /\ Backup \in Paths /\ Canonical # Backup
    BY DEF Paths, Canonical, Backup
  <1>4. \A path \in Paths : visible[path] \in {None, Corrupt, Found(p, d)}
    BY <1>1, <1>3
  <1>5. /\ durable = [path \in Paths |-> {visible[path]}]
        /\ legacy \in {None, Legacy, Malformed} /\ artifacts = <<>> /\ lock = None
        /\ pc = [t \in Tasks |-> "idle"] /\ op = [t \in Tasks |-> Idle]
        /\ next = [t \in Tasks |-> None] /\ saved = [t \in Tasks |-> None]
        /\ failed = [t \in Tasks |-> FALSE] /\ seen = [t \in Tasks |-> Nobody]
        /\ generated = {p} /\ acked = 0
    BY <1>1 DEF Init
  <1>6. Idle \in Operations /\ Idle.kind = "none"
    BY DEF Idle, Operation, Operations
  <1>7. TypeOK
    <2>1. visible \in [Paths -> Contents]
      BY <1>1, <1>2, <1>4 DEF Contents
    <2>2. /\ visible \in [Paths -> Contents \cup {Legacy, Malformed}] /\ visible[Canonical] \in Contents
          /\ durable \in [Paths -> SUBSET (Contents \cup {Legacy, Malformed})]
          /\ durable[Canonical] \subseteq Contents
      BY <1>3, <1>5, <2>1
    <2>3. /\ pc \in [Tasks -> Stages] /\ op \in [Tasks -> Operations] /\ saved \in [Tasks -> Contents]
          /\ next \in [Tasks -> Snapshots \cup {None, Legacy, Malformed}]
          /\ failed \in [Tasks -> BOOLEAN] /\ seen \in [Tasks -> ProfileMaps]
      BY <1>5, <1>6, NobodyFacts DEF Stages, Contents
    <2>4. artifacts \in Seq(Artifacts) /\ lock \in Tasks \cup {None} /\ generated \subseteq Profiles /\ acked \in Nat
      BY <1>5
    <2> QED BY <1>5, <2>2, <2>3, <2>4 DEF TypeOK
  <1>8. TasksFit /\ WritesFit /\ SyncedFits /\ SavedFits /\ RestoreReversible /\ LegacySavedFirst
    BY <1>5, <1>6 DEF TasksFit, WritesFit, WriteFits, SyncedFits, SavedFits, RestoreReversible, LegacySavedFirst,
                      Locking, Restoring, Acknowledging, Creations
  <1>9. FilesFit
    <2>1. Register!RevisionOf(visible[Canonical]) \in Nat
      BY <1>7, ContentFacts DEF TypeOK
    <2> QED BY <1>3, <1>5, <2>1 DEF FilesFit
  <1>10. IdsFit
    BY <1>2, <1>4, <1>5, <1>6, NoSnapshot DEF IdsFit, Creations
  <1>11. AcknowledgedKept
    BY <1>5 DEF AcknowledgedKept
  <1> QED BY <1>7, <1>8, <1>9, <1>10, <1>11 DEF IInv

\* A task begins; nothing is locked, read or written yet.
LEMMA StartStep ==
    ASSUME IInv, NEW t \in Tasks, NEW kind, NEW p, NEW d, Start(t, kind, p, d),
           Operation(kind, p, d) \in Operations, kind # "none",
           seen' \in [Tasks -> ProfileMaps], generated' \subseteq Profiles, generated \subseteq generated',
           kind = "restore" => \A u \in Tasks : ~Restoring(u),
           kind \in Creations \cup {"update"} => d \in Drafts,
           kind \in Creations => p \in generated' \ generated
    PROVE  IInv'
  <1> USE DEF IInv
  <1> DEFINE o == Operation(kind, p, d)
             stage == IF kind = "restore" THEN "reading" ELSE "locking"
  <1>1. o.kind = kind /\ o.profile = p /\ o.draft = d
    BY DEF Operation
  <1>2. /\ pc[t] = "idle" /\ op' = [op EXCEPT ![t] = o] /\ pc' = [pc EXCEPT ![t] = stage]
        /\ UNCHANGED <<visible, durable, legacy, artifacts, lock, next, saved, failed, acked>>
    BY DEF Start, files
  <1>3. stage \in Stages /\ stage \in {"reading", "locking"} /\ (stage = "reading" <=> kind = "restore")
    BY DEF Stages
  <1>4. next[t] = None /\ ~Restoring(t) /\ op[t].kind = "none"
    BY <1>2 DEF TasksFit, Restoring, Idle, Operation
  <1> HIDE DEF o, stage
  <1>5. /\ op' \in [Tasks -> Operations] /\ pc' \in [Tasks -> Stages]
        /\ \A u \in Tasks : op'[u] = IF u = t THEN o ELSE op[u]
        /\ \A u \in Tasks : pc'[u] = IF u = t THEN stage ELSE pc[u]
    BY <1>2, <1>3 DEF TypeOK, o
  <1>6. \A u \in Tasks : /\ Locking(u)' <=> Locking(u) /\ u # t
                         /\ Restoring(u)' <=> IF u = t THEN kind = "restore" ELSE Restoring(u)
                         /\ Acknowledging(u)' <=> Acknowledging(u) /\ u # t
                         /\ u # t => Target(u)' = Target(u) /\ (Mutating(u)' <=> Mutating(u))
    BY <1>1, <1>2, <1>3, <1>5 DEF Locking, Restoring, Acknowledging, Target, Mutating
  <1>7. TypeOK'
    BY <1>2, <1>5 DEF TypeOK
  <1>8. TasksFit'
    BY <1>1, <1>2, <1>3, <1>4, <1>5, <1>6 DEF TasksFit, Creations
  <1>9. FilesFit' /\ AcknowledgedKept'
    BY <1>2 DEF FilesFit, AcknowledgedKept
  <1>10. WritesFit'
    <2>1. \A u \in Tasks : u # t => WriteFits(u)'
      BY <1>2, <1>5, <1>6 DEF WritesFit, WriteFits
    <2>2. WriteFits(t)'
      BY <1>3, <1>5, <1>6 DEF WriteFits
    <2> QED BY <2>1, <2>2 DEF WritesFit
  <1>11. SyncedFits' /\ SavedFits' /\ RestoreReversible' /\ LegacySavedFirst'
    BY <1>2, <1>3, <1>5, <1>6 DEF SyncedFits, SavedFits, RestoreReversible, LegacySavedFirst
  <1>12. IdsFit'
    <2>1. \A u \in Tasks : op'[u].kind \in Creations => op'[u].profile \in generated'
      BY <1>1, <1>5 DEF IdsFit
    <2>2. \A u \in Tasks : op'[u].kind \in Creations /\ pc'[u] = "locking" =>
            /\ \A path \in Paths : \A c \in durable[path] : op'[u].profile \notin Ids(c)
            /\ \A v \in Tasks : op'[u].profile \notin Ids(next[v])
            /\ \A v \in Tasks : op'[v].kind \in Creations /\ v # u => op'[v].profile # op'[u].profile
      BY <1>1, <1>5 DEF IdsFit
    <2> QED BY <1>2, <2>1, <2>2 DEF IdsFit
  <1> QED BY <1>7, <1>8, <1>9, <1>10, <1>11, <1>12

\* The locked part of a task is over.
LEMMA EndStep ==
    ASSUME IInv, NEW t \in Tasks, NEW result \in BOOLEAN, End(t, result),
           UNCHANGED <<visible, durable, legacy, op, next, saved, seen, generated, acked>>,
           artifacts' \in Seq(Artifacts), ~Restoring(t) => artifacts' = artifacts,
           ~result => /\ artifacts' = artifacts
                      /\ pc[t] = "verifying" \/ (next[t] = None /\ ~Restoring(t))
    PROVE  IInv'
  <1> USE DEF IInv
  <1> DEFINE stage == IF Restoring(t) THEN "pruning" ELSE "returning"
  <1>1. /\ pc' = [pc EXCEPT ![t] = stage] /\ failed' = [failed EXCEPT ![t] = result]
        /\ lock' = IF lock = t THEN None ELSE lock
    BY DEF End
  <1>2. stage \in Stages /\ stage \in {"pruning", "returning"} /\ (stage = "pruning" => Restoring(t))
    BY DEF Stages
  <1> HIDE DEF stage
  <1>3. /\ pc' \in [Tasks -> Stages] /\ failed' \in [Tasks -> BOOLEAN] /\ lock' \in Tasks \cup {None}
        /\ \A u \in Tasks : pc'[u] = IF u = t THEN stage ELSE pc[u]
        /\ \A u \in Tasks : u # t => failed'[u] = failed[u]
        /\ failed'[t] = result
    BY <1>1, <1>2 DEF TypeOK
  <1>4. \A u \in Tasks : /\ Locking(u)' <=> Locking(u) /\ u # t
                         /\ Restoring(u)' <=> Restoring(u)
                         /\ Mutating(u)' <=> Mutating(u)
                         /\ Target(u)' = Target(u)
    BY <1>2, <1>3 DEF Locking, Restoring, Target, Mutating
  <1>5. \A u \in Tasks : u # t => /\ Acknowledging(u)' <=> Acknowledging(u)
                                  /\ Restoring(u) => artifacts' = artifacts
    BY <1>3 DEF Acknowledging, TasksFit
  <1>6. Acknowledging(t)' => Acknowledging(t)
    BY <1>2, <1>3, NoSnapshot DEF Acknowledging
  <1>7. TypeOK'
    BY <1>3 DEF TypeOK
  <1>8. TasksFit'
    BY <1>1, <1>2, <1>3, <1>4 DEF TasksFit, Locking
  <1>9. FilesFit' /\ AcknowledgedKept' /\ IdsFit'
    BY <1>2, <1>3 DEF FilesFit, AcknowledgedKept, IdsFit
  <1>10. WritesFit'
    <2>1. \A u \in Tasks : u # t => WriteFits(u)'
      BY <1>3, <1>4 DEF WritesFit, WriteFits
    <2>2. WriteFits(t)'
      BY <1>2, <1>3, <1>4 DEF WriteFits
    <2> QED BY <2>1, <2>2 DEF WritesFit
  <1>11. SyncedFits'
    BY <1>5, <1>6 DEF SyncedFits
  <1>12. SavedFits'
    BY <1>2, <1>3, <1>4, <1>5 DEF SavedFits
  <1>13. RestoreReversible'
    <2> SUFFICES ASSUME NEW u \in Tasks, Restoring(u), saved[u] # None,
                        \/ pc'[u] \in {"renamed", "verifying"}
                        \/ pc'[u] \in {"pruning", "returning"} /\ ~failed'[u]
                 PROVE  artifacts' # <<>> /\ Last(artifacts').content = saved[u]
                        /\ (pc'[u] # "renamed" => Last(artifacts').kept)
      BY <1>4 DEF RestoreReversible
    <2>1. CASE u # t
      BY <1>3, <1>5, <2>1 DEF RestoreReversible
    <2>2. CASE u = t
      <3>1. artifacts' = artifacts /\ pc[t] = "verifying"
        BY <1>2, <1>3, <2>2
      <3> QED BY <2>2, <3>1 DEF RestoreReversible
    <2> QED BY <2>1, <2>2
  <1>14. LegacySavedFirst'
    BY <1>2, <1>3, <1>4 DEF LegacySavedFirst
  <1> QED BY <1>7, <1>8, <1>9, <1>10, <1>11, <1>12, <1>13, <1>14

\* A task has taken the lock, and what it will write is at hand.
LEMMA PrepareStep ==
    ASSUME IInv, NEW t \in Tasks, NEW content \in Snapshots \cup {Legacy, Malformed},
           Prepare(t, content), pc[t] = "locking", lock = None, op[t].kind # "none",
           content \notin Snapshots =>
              op[t].kind = "import" /\ content = legacy /\ visible[Canonical] = None,
           op[t].kind = "import" => content \notin Snapshots,
           content \in Snapshots /\ op[t].kind # "backup" =>
              \/ Mutates(visible[Canonical], content)
              \/ Restores(visible[Canonical], content)
              \/ Imports(visible[Canonical], content),
           Ids(content) \subseteq generated,
           \A u \in Tasks : u # t /\ op[u].kind \in Creations /\ pc[u] = "locking"
                               => op[u].profile \notin Ids(content),
           artifacts' \in Seq(Artifacts), saved' \in [Tasks -> Contents],
           ~Restoring(t) => UNCHANGED <<artifacts, saved>>,
           \A u \in Tasks : u # t => saved'[u] = saved[u],
           Restoring(t) /\ saved'[t] # None => artifacts' # <<>> /\ Last(artifacts').content = saved'[t]
    PROVE  IInv'
  <1> USE DEF IInv
  <1>1. /\ lock' = t /\ pc' = [pc EXCEPT ![t] = "writing"] /\ next' = [next EXCEPT ![t] = content]
        /\ UNCHANGED <<visible, durable, legacy, op, failed, seen, generated, acked>>
    BY DEF Prepare
  <1>2. /\ pc' \in [Tasks -> Stages] /\ next' \in [Tasks -> Snapshots \cup {None, Legacy, Malformed}]
        /\ \A u \in Tasks : u # t => pc'[u] = pc[u] /\ next'[u] = next[u]
        /\ pc'[t] = "writing" /\ next'[t] = content
    BY <1>1 DEF TypeOK, Stages
  <1>3. \A u \in Tasks : ~Locking(u)
    BY DEF TasksFit
  <1>4. \A u \in Tasks : /\ Locking(u)' <=> u = t
                         /\ Restoring(u)' <=> Restoring(u)
                         /\ Mutating(u)' <=> Mutating(u)
                         /\ Acknowledging(u)' <=> Acknowledging(u) /\ u # t
                         /\ u # t => Target(u)' = Target(u)
    BY <1>1, <1>2, <1>3 DEF Locking, Restoring, Mutating, Acknowledging, Target
  <1>5. /\ Target(t)' = Canonical => content \in Snapshots /\ op[t].kind # "backup"
    <2>1. Target(t)' = TargetOf(op[t].kind, content)
      BY <1>1, <1>2 DEF Target, TargetOf
    <2> QED BY <2>1, TargetFacts
  <1>6. TypeOK'
    BY <1>1, <1>2 DEF TypeOK
  <1>7. TasksFit'
    BY <1>1, <1>2, <1>4 DEF TasksFit
  <1>8. FilesFit' /\ AcknowledgedKept'
    BY <1>1 DEF FilesFit, AcknowledgedKept
  <1>9. WritesFit'
    <2>1. \A u \in Tasks : u # t => WriteFits(u)'
      BY <1>2, <1>3, <1>4 DEF WriteFits, Locking
    <2>2. WriteFits(t)'
      <3>1. content # None
        BY NoSnapshot
      <3> QED BY <1>1, <1>2, <1>5, <3>1 DEF WriteFits
    <2> QED BY <2>1, <2>2 DEF WritesFit
  <1>10. SyncedFits'
    BY <1>1, <1>2, <1>4 DEF SyncedFits
  <1>11. SavedFits'
    BY <1>2, <1>3, <1>4 DEF SavedFits, Locking
  <1>12. RestoreReversible'
    BY <1>1, <1>2, <1>4 DEF RestoreReversible, TasksFit
  <1>13. LegacySavedFirst'
    BY <1>1, <1>2, <1>3, <1>4, <1>5 DEF LegacySavedFirst, Locking
  <1>14. IdsFit'
    <2>1. \A u \in Tasks : Ids(next'[u]) \subseteq generated
      BY <1>2 DEF IdsFit
    <2>2. \A u \in Tasks : op[u].kind \in Creations /\ pc'[u] = "locking" =>
            /\ u # t /\ pc[u] = "locking"
            /\ \A v \in Tasks : op[u].profile \notin Ids(next'[v])
      BY <1>2 DEF IdsFit
    <2> QED BY <1>1, <2>1, <2>2 DEF IdsFit
  <1> QED BY <1>6, <1>7, <1>8, <1>9, <1>10, <1>11, <1>12, <1>13, <1>14

\* A rename: the file has a successor of what it had, and may still come back as it was.
LEMMA ReplaceStep ==
    ASSUME IInv, NEW t \in Tasks, Replace(t)
    PROVE  IInv'
  <1> USE DEF IInv
  <1> DEFINE path == Target(t)
  <1>1. /\ pc[t] = "writing" /\ pc' = [pc EXCEPT ![t] = "renamed"]
        /\ visible' = [visible EXCEPT ![path] = next[t]]
        /\ durable' = [durable EXCEPT ![path] = durable[path] \cup {next[t]}]
        /\ UNCHANGED <<legacy, artifacts, lock, op, next, saved, failed, seen, generated, acked>>
    BY DEF Replace
  <1>2. /\ Locking(t) /\ lock = t /\ \A u \in Tasks : Locking(u) => u = t
    BY <1>1 DEF Locking, TasksFit
  <1>3. /\ next[t] \in Snapshots \cup {Legacy, Malformed} /\ path \in Paths /\ Canonical \in Paths
        /\ path = Canonical <=> op[t].kind # "backup" /\ next[t] \in Snapshots
    <2>1. Target(t) = TargetOf(op[t].kind, next[t]) /\ next[t] \in Snapshots \cup {Legacy, Malformed}
          /\ (op[t].kind = "backup" => next[t] \in Snapshots)
      BY <1>2, TaskFacts
    <2> QED BY <2>1, TargetFacts DEF Paths
  <1>4. /\ pc' \in [Tasks -> Stages] /\ pc'[t] = "renamed"
        /\ \A u \in Tasks : u # t => pc'[u] = pc[u]
    BY <1>1 DEF TypeOK, Stages
  <1>5. \A u \in Tasks : /\ Locking(u)' <=> Locking(u)
                         /\ Restoring(u)' <=> Restoring(u)
                         /\ Mutating(u)' <=> Mutating(u)
                         /\ Acknowledging(u)' <=> Acknowledging(u)
                         /\ Target(u)' = Target(u)
    BY <1>1, <1>4 DEF Locking, Restoring, Mutating, Acknowledging, Target
  <1>6. path = Canonical =>
           /\ next[t] \in Snapshots /\ next[t].revision \in Nat
           /\ Register!RevisionOf(next[t]) = next[t].revision
           /\ Register!RevisionOf(visible[Canonical]) \in Nat
           /\ next[t].revision >= Register!RevisionOf(visible[Canonical])
    <2> SUFFICES ASSUME path = Canonical PROVE next[t].revision >= Register!RevisionOf(visible[Canonical])
      BY <1>3, SnapshotFacts, ContentFacts DEF TypeOK
    <2>1. next[t].revision \in Nat /\ Register!RevisionOf(visible[Canonical]) \in Nat
      BY <1>3, SnapshotFacts, ContentFacts DEF TypeOK
    <2>2. CASE Mutates(visible[Canonical], next[t]) \/ Restores(visible[Canonical], next[t])
      BY <2>1, <2>2 DEF Mutates, Restores
    <2>3. CASE Imports(visible[Canonical], next[t])
      BY <2>1, <2>3, NoSnapshot DEF Imports
    <2> QED BY <1>1, <2>2, <2>3 DEF WritesFit, WriteFits
  <1>7. /\ visible' \in [Paths -> Contents \cup {Legacy, Malformed}]
        /\ durable' \in [Paths -> SUBSET (Contents \cup {Legacy, Malformed})]
        /\ visible'[path] = next[t] /\ durable'[path] = durable[path] \cup {next[t]}
        /\ \A q \in Paths : q # path => visible'[q] = visible[q] /\ durable'[q] = durable[q]
    BY <1>1, <1>3 DEF TypeOK, Contents
  <1> HIDE DEF path
  <1>8. TypeOK'
    <2>1. visible'[Canonical] \in Contents /\ durable'[Canonical] \subseteq Contents
      BY <1>3, <1>7 DEF TypeOK, Contents
    <2> QED BY <1>1, <1>4, <1>7, <2>1 DEF TypeOK
  <1>9. TasksFit'
    BY <1>1, <1>4, <1>5 DEF TasksFit
  <1>10. FilesFit'
    <2>1. \A q \in Paths : visible'[q] \in durable'[q]
      BY <1>3, <1>7 DEF FilesFit
    <2>2. visible'[Canonical] \notin Snapshots => durable'[Canonical] = {visible'[Canonical]}
      BY <1>3, <1>7 DEF FilesFit
    <2>3. \A c \in durable[Canonical] :
             /\ Register!RevisionOf(c) \in Nat
             /\ Register!RevisionOf(c) <= Register!RevisionOf(visible[Canonical])
      BY ContentFacts DEF FilesFit, TypeOK
    <2>4. \A c \in durable'[Canonical] :
             Register!RevisionOf(c) <= Register!RevisionOf(visible'[Canonical])
      BY <1>3, <1>6, <1>7, <2>3
    <2> QED BY <2>1, <2>2, <2>4 DEF FilesFit
  <1>11. ASSUME NEW r \in Nat, \A c \in durable[Canonical] : c \in Snapshots /\ c.revision >= r
         PROVE  \A c \in durable'[Canonical] : c \in Snapshots /\ c.revision >= r
    <2>1. CASE path # Canonical
      BY <1>3, <1>7, <1>11, <2>1
    <2>2. CASE path = Canonical
      <3>1. visible[Canonical] \in Snapshots /\ visible[Canonical].revision >= r
        BY <1>3, <1>11 DEF FilesFit
      <3>2. next[t].revision >= visible[Canonical].revision /\ visible[Canonical].revision \in Nat
        BY <1>6, <2>2, <3>1, SnapshotFacts
      <3>3. next[t].revision >= r
        BY <1>6, <2>2, <3>1, <3>2
      <3> QED BY <1>6, <1>7, <1>11, <2>2, <3>3
    <2> QED BY <2>1, <2>2
  <1>12. AcknowledgedKept'
    <2> SUFFICES ASSUME acked > 0
                 PROVE  \A c \in durable'[Canonical] : Decodes(c) /\ c.revision >= acked
      BY <1>1 DEF AcknowledgedKept
    <2>1. \A c \in durable[Canonical] : c \in Snapshots /\ c.revision >= acked
      BY ContentFacts DEF AcknowledgedKept, TypeOK
    <2>2. \A c \in durable'[Canonical] : c \in Snapshots /\ c.revision >= acked
      BY <1>11, <2>1 DEF TypeOK
    <2> QED BY <2>2, SnapshotFacts
  <1>13. SyncedFits'
    <2> SUFFICES ASSUME NEW u \in Tasks, Acknowledging(u)
                 PROVE  \A c \in durable'[Canonical] : c \in Snapshots /\ c.revision >= next[u].revision
      BY <1>1, <1>5 DEF SyncedFits
    <2>1. next[u].revision \in Nat
      BY SnapshotFacts DEF Acknowledging
    <2>2. \A c \in durable[Canonical] : c \in Snapshots /\ c.revision >= next[u].revision
      BY DEF SyncedFits
    <2> QED BY <1>11, <2>1, <2>2
  <1>14. WritesFit'
    <2>1. \A u \in Tasks : u # t => WriteFits(u)'
      BY <1>1, <1>2, <1>4, <1>5 DEF WriteFits, Locking
    <2>2. WriteFits(t)'
      <3>1. next[t] \notin Snapshots => visible'[Canonical] = visible[Canonical]
        BY <1>3, <1>7
      <3> QED BY <1>1, <1>2, <1>4, <1>5, <1>7, <3>1 DEF WritesFit, WriteFits, path
    <2> QED BY <2>1, <2>2 DEF WritesFit
  <1>15. SavedFits' /\ RestoreReversible'
    BY <1>1, <1>4, <1>5 DEF SavedFits, RestoreReversible
  <1>16. LegacySavedFirst'
    <2> SUFFICES ASSUME NEW u \in Tasks, op[u].kind = "import", pc'[u] \in {"writing", "renamed"},
                        Target(u) = Canonical
                 PROVE  durable'[LegacyBackup] = {legacy}
      BY <1>1, <1>5 DEF LegacySavedFirst
    <2>1. u = t
      BY <1>2, <1>4 DEF Locking
    <2>2. durable[LegacyBackup] = {legacy} /\ path = Canonical
      BY <1>1, <2>1 DEF LegacySavedFirst, path
    <2>3. LegacyBackup \in Paths /\ LegacyBackup # Canonical
      BY DEF Paths, LegacyBackup, Canonical
    <2> QED BY <1>7, <2>2, <2>3
  <1>17. IdsFit'
    <2>1. \A q \in Paths : \A c \in durable'[q] : c \in durable[q] \/ c = next[t]
      BY <1>3, <1>7
    <2>2. \A q \in Paths : \A c \in durable'[q] : Ids(c) \subseteq generated
      BY <2>1 DEF IdsFit
    <2>3. \A u \in Tasks : op[u].kind \in Creations /\ pc'[u] = "locking" =>
            /\ pc[u] = "locking" /\ \A q \in Paths : \A c \in durable'[q] : op[u].profile \notin Ids(c)
      BY <1>4, <2>1 DEF IdsFit
    <2> QED BY <1>1, <2>2, <2>3 DEF IdsFit
  <1> QED BY <1>8, <1>9, <1>10, <1>12, <1>13, <1>14, <1>15, <1>16, <1>17

LEMMA KeptFacts ==
    ASSUME NEW s \in Seq(Artifacts), NEW k,
           k = [i \in DOMAIN s |-> [s[i] EXCEPT !.kept = TRUE]]
    PROVE  /\ k \in Seq(Artifacts) /\ (k # <<>> <=> s # <<>>)
           /\ s # <<>> => Last(k).content = Last(s).content /\ Last(k).kept
  <1>1. DOMAIN s = 1 .. Len(s) /\ Len(s) \in Nat /\ \A i \in 1 .. Len(s) : s[i] \in Artifacts
    OBVIOUS
  <1>2. \A i \in 1 .. Len(s) : k[i] \in Artifacts /\ k[i].content = s[i].content /\ k[i].kept
    BY <1>1 DEF Artifacts
  <1>3. k \in Seq(Artifacts) /\ Len(k) = Len(s)
    <2>1. k \in [1 .. Len(s) -> Artifacts]
      BY <1>1, <1>2
    <2> QED BY <1>1, <2>1
  <1>4. (k # <<>> <=> s # <<>>) /\ (s # <<>> => Len(s) \in 1 .. Len(s))
    BY <1>1, <1>3
  <1> QED BY <1>2, <1>3, <1>4 DEF Last

\* The directory is synced: no file can come back as it was, and the artifacts stay.
LEMMA SyncStep ==
    ASSUME IInv, NEW t \in Tasks, SyncDirectory(t)
    PROVE  IInv'
  <1> USE DEF IInv
  <1>1. /\ pc[t] = "renamed" /\ durable' = [path \in Paths |-> {visible[path]}]
        /\ artifacts' = [k \in DOMAIN artifacts |-> [artifacts[k] EXCEPT !.kept = TRUE]]
        /\ UNCHANGED <<visible, legacy, op, saved, seen, acked>>
    BY DEF SyncDirectory, Synced
  <1>2. /\ Locking(t) /\ lock = t /\ (\A u \in Tasks : Locking(u) => u = t)
        /\ op[t].kind \in Mutations \cup {"restore", "backup", "import"}
    BY <1>1, TaskFacts DEF Locking, TasksFit, WritesFit, WriteFits
  <1>3. /\ next[t] \in Snapshots \cup {Legacy, Malformed} /\ Canonical \in Paths /\ LegacyBackup \in Paths
        /\ Target(t) = Canonical <=> op[t].kind # "backup" /\ next[t] \in Snapshots
        /\ Target(t) = LegacyBackup <=> next[t] \notin Snapshots
        /\ visible[Target(t)] = next[t]
    <2>1. Target(t) = TargetOf(op[t].kind, next[t]) /\ next[t] \in Snapshots \cup {Legacy, Malformed}
          /\ (op[t].kind = "backup" => next[t] \in Snapshots)
      BY <1>2, TaskFacts
    <2> QED BY <1>1, <2>1, TargetFacts DEF Paths, WritesFit, WriteFits
  <1>4. \A path \in Paths : durable'[path] = {visible[path]} /\ durable'[path] \subseteq durable[path]
    BY <1>1 DEF FilesFit
  <1>5. /\ artifacts' \in Seq(Artifacts) /\ (artifacts' # <<>> <=> artifacts # <<>>)
        /\ artifacts # <<>> => Last(artifacts').content = Last(artifacts).content /\ Last(artifacts').kept
    BY <1>1, KeptFacts DEF TypeOK
  <1>6. /\ durable' \in [Paths -> SUBSET (Contents \cup {Legacy, Malformed})]
        /\ durable'[Canonical] \subseteq Contents
    BY <1>1, <1>3 DEF TypeOK
  <1>7. FilesFit'
    <2>1. Register!RevisionOf(visible[Canonical]) \in Nat
      BY ContentFacts DEF TypeOK
    <2> QED BY <1>1, <1>3, <1>4, <2>1 DEF FilesFit
  <1>8. AcknowledgedKept'
    BY <1>1, <1>3, <1>4 DEF AcknowledgedKept
  \* What it does next: verify what it wrote, import what it has saved, or return.
  <1>9. CASE /\ Mutating(t) \/ Restoring(t)
             /\ pc' = [pc EXCEPT ![t] = "verifying"] /\ UNCHANGED <<next, failed, lock, generated>>
    <2>1. /\ pc' \in [Tasks -> Stages] /\ pc'[t] = "verifying"
          /\ \A u \in Tasks : u # t => pc'[u] = pc[u]
      BY <1>9 DEF TypeOK, Stages
    <2>2. \A u \in Tasks : /\ Locking(u)' <=> Locking(u)
                           /\ Restoring(u)' <=> Restoring(u)
                           /\ Mutating(u)' <=> Mutating(u)
                           /\ u # t => (Acknowledging(u)' <=> Acknowledging(u))
                           /\ Target(u)' = Target(u)
      BY <1>1, <1>9, <2>1 DEF Locking, Restoring, Mutating, Acknowledging, Target
    <2>3. op[t].kind \notin {"backup", "import"} /\ Target(t) = Canonical /\ next[t] \in Snapshots
      BY <1>2, <1>3, <1>9 DEF Mutating, Mutations, Restoring, WritesFit, WriteFits
    <2>4. TypeOK' /\ TasksFit'
      BY <1>1, <1>5, <1>6, <1>9, <2>1, <2>2 DEF TypeOK, TasksFit
    <2>5. WritesFit'
      <3>1. \A u \in Tasks : u # t => WriteFits(u)'
        BY <1>1, <1>2, <2>1, <2>2 DEF WriteFits, Locking
      <3>2. WriteFits(t)'
        BY <1>1, <1>2, <1>3, <1>9, <2>1, <2>2 DEF WritesFit, WriteFits
      <3> QED BY <3>1, <3>2 DEF WritesFit
    <2>6. SyncedFits'
      <3>1. \A u \in Tasks : u # t => (Acknowledging(u)' =>
               \A c \in durable'[Canonical] : c \in Snapshots /\ c.revision >= next[u].revision)
        BY <1>3, <1>4, <2>2 DEF SyncedFits
      <3>2. \A c \in durable'[Canonical] : c \in Snapshots /\ c.revision >= next[t].revision
        BY <1>3, <1>4, <2>3, SnapshotFacts
      <3> QED BY <1>9, <3>1, <3>2 DEF SyncedFits
    <2>7. SavedFits' /\ RestoreReversible'
      BY <1>1, <1>5, <1>9, <2>1, <2>2 DEF SavedFits, RestoreReversible
    <2>8. LegacySavedFirst'
      <3> SUFFICES ASSUME NEW u \in Tasks, pc'[u] \in {"writing", "renamed"} PROVE FALSE
        BY DEF LegacySavedFirst
      <3> QED BY <1>2, <2>1 DEF Locking
    <2>9. IdsFit'
      BY <1>1, <1>4, <1>9, <2>1 DEF IdsFit
    <2> QED BY <1>7, <1>8, <2>4, <2>5, <2>6, <2>7, <2>8, <2>9
  <1>10. CASE /\ Target(t) = LegacyBackup
              /\ pc' = [pc EXCEPT ![t] = "writing"]
              /\ \E s \in ImportedFrom(t) :
                    /\ next' = [next EXCEPT ![t] = s]
                    /\ generated' = generated \cup DOMAIN s.profiles
              /\ UNCHANGED <<failed, lock>>
    <2>1. PICK s \in ImportedFrom(t) : /\ next' = [next EXCEPT ![t] = s]
                                       /\ generated' = generated \cup DOMAIN s.profiles
      BY <1>10
    <2>2. /\ s \in Snapshots /\ s.revision \in {0, 1} /\ Ids(s) \cap generated = {}
          /\ Ids(s) = DOMAIN s.profiles /\ Ids(s) \subseteq Profiles
      <3>1. CASE s = Snapshot(0, Nobody)
        <4>1. s \in Snapshots /\ s.revision = 0 /\ s.profiles = Nobody
          BY <3>1, NobodyFacts, SnapshotIs
        <4> QED BY <4>1, NobodyFacts, SnapshotFacts
      <3>2. ASSUME NEW p \in Profiles \ generated, NEW d \in Drafts,
                   s = Snapshot(1, With(Nobody, p, Profile(1, d)))
            PROVE  /\ s \in Snapshots /\ s.revision = 1 /\ Ids(s) \cap generated = {}
        <4>1. \A r \in Nat : /\ With(Nobody, p, Profile(r, d)) \in ProfileMaps
                             /\ DOMAIN With(Nobody, p, Profile(r, d)) = DOMAIN Nobody \cup {p}
          BY NobodyFacts, WithFacts
        <4>2. /\ With(Nobody, p, Profile(1, d)) \in ProfileMaps
              /\ DOMAIN With(Nobody, p, Profile(1, d)) = {p}
          BY <4>1, NobodyFacts
        <4>3. s \in Snapshots /\ s.revision = 1 /\ s.profiles = With(Nobody, p, Profile(1, d))
          BY <3>2, <4>2, SnapshotIs
        <4> QED BY <4>2, <4>3, SnapshotFacts
      <3> QED BY <3>1, <3>2, SnapshotFacts DEF ImportedFrom
    <2>3. /\ pc' \in [Tasks -> Stages] /\ pc'[t] = "writing"
          /\ next' \in [Tasks -> Snapshots \cup {None, Legacy, Malformed}] /\ next'[t] = s
          /\ \A u \in Tasks : u # t => pc'[u] = pc[u] /\ next'[u] = next[u]
      BY <1>10, <2>1, <2>2 DEF TypeOK, Stages
    <2>4. \A u \in Tasks : /\ Locking(u)' <=> Locking(u)
                           /\ Restoring(u)' <=> Restoring(u)
                           /\ Mutating(u)' <=> Mutating(u)
                           /\ Acknowledging(u)' <=> Acknowledging(u) /\ u # t
                           /\ u # t => Target(u)' = Target(u)
      BY <1>1, <1>10, <2>3 DEF Locking, Restoring, Mutating, Acknowledging, Target
    <2>5. op[t].kind = "import" /\ next[t] = legacy /\ visible[Canonical] = None
      BY <1>2, <1>3, <1>10 DEF WritesFit, WriteFits
    <2>6. TypeOK'
      <3>1. generated' \subseteq Profiles
        BY <2>1, <2>2 DEF TypeOK
      <3> QED BY <1>1, <1>5, <1>6, <1>10, <2>3, <3>1 DEF TypeOK
    <2>7. TasksFit'
      BY <1>1, <1>10, <2>3, <2>4 DEF TasksFit
    <2>8. WritesFit'
      <3>1. \A u \in Tasks : u # t => WriteFits(u)'
        BY <1>1, <1>2, <2>3, <2>4 DEF WriteFits, Locking
      <3>2. Imports(visible[Canonical], s) /\ s # None
        BY <2>2, <2>5, NoSnapshot DEF Imports
      <3>3. WriteFits(t)'
        BY <1>1, <2>2, <2>3, <2>5, <3>2 DEF WriteFits
      <3> QED BY <3>1, <3>3 DEF WritesFit
    <2>9. SyncedFits'
      BY <1>1, <1>3, <1>4, <2>3, <2>4 DEF SyncedFits
    <2>10. SavedFits' /\ RestoreReversible'
      BY <1>1, <1>5, <1>10, <2>3, <2>4, <2>5 DEF SavedFits, RestoreReversible, Restoring
    <2>11. LegacySavedFirst'
      <3>1. durable'[LegacyBackup] = {legacy}
        BY <1>3, <1>4, <1>10, <2>5
      <3> QED BY <1>1, <3>1 DEF LegacySavedFirst
    <2>12. IdsFit'
      <3>1. \A path \in Paths : \A c \in durable'[path] : Ids(c) \subseteq generated'
        BY <1>4, <2>1 DEF IdsFit
      <3>2. \A u \in Tasks : Ids(next'[u]) \subseteq generated'
        BY <2>1, <2>2, <2>3 DEF IdsFit
      <3>3. \A u \in Tasks : op[u].kind \in Creations => op[u].profile \in generated /\ op[u].profile \notin Ids(s)
        BY <2>2 DEF IdsFit
      <3>4. \A u \in Tasks : op[u].kind \in Creations /\ pc'[u] = "locking" =>
               /\ \A path \in Paths : \A c \in durable'[path] : op[u].profile \notin Ids(c)
               /\ \A v \in Tasks : op[u].profile \notin Ids(next'[v])
               /\ \A v \in Tasks : op[v].kind \in Creations /\ v # u => op[v].profile # op[u].profile
        BY <1>4, <2>3, <3>3 DEF IdsFit
      <3> QED BY <1>1, <2>1, <3>1, <3>2, <3>3, <3>4 DEF IdsFit
    <2> QED BY <1>7, <1>8, <2>6, <2>7, <2>8, <2>9, <2>10, <2>11, <2>12
  <1>11. CASE /\ op[t].kind \in {"backup", "import"} /\ Target(t) # LegacyBackup
              /\ End(t, FALSE) /\ UNCHANGED <<next, generated>>
    <2>1. /\ pc' = [pc EXCEPT ![t] = "returning"] /\ failed' = [failed EXCEPT ![t] = FALSE] /\ lock' = None
          /\ ~Restoring(t)
      BY <1>2, <1>11 DEF End, Restoring
    <2>2. /\ pc' \in [Tasks -> Stages] /\ pc'[t] = "returning" /\ failed' \in [Tasks -> BOOLEAN]
          /\ \A u \in Tasks : u # t => pc'[u] = pc[u] /\ failed'[u] = failed[u]
      BY <2>1 DEF TypeOK, Stages
    <2>3. \A u \in Tasks : /\ ~Locking(u)'
                           /\ Restoring(u)' <=> Restoring(u)
                           /\ Mutating(u)' <=> Mutating(u)
                           /\ u # t => (Acknowledging(u)' <=> Acknowledging(u))
                           /\ Target(u)' = Target(u)
      BY <1>1, <1>2, <1>11, <2>2 DEF Locking, Restoring, Mutating, Acknowledging, Target
    <2>4. TypeOK' /\ TasksFit'
      BY <1>1, <1>5, <1>6, <1>11, <2>1, <2>2, <2>3 DEF TypeOK, TasksFit
    <2>5. WritesFit'
      BY <2>3 DEF WritesFit, WriteFits, Locking
    <2>6. SyncedFits'
      <3>1. \A u \in Tasks : u # t => (Acknowledging(u)' =>
               \A c \in durable'[Canonical] : c \in Snapshots /\ c.revision >= next[u].revision)
        BY <1>3, <1>4, <2>3 DEF SyncedFits
      <3>2. op[t].kind # "backup" =>
               \A c \in durable'[Canonical] : c \in Snapshots /\ c.revision >= next[t].revision
        BY <1>3, <1>4, <1>11, SnapshotFacts
      <3> QED BY <1>1, <1>11, <3>1, <3>2 DEF SyncedFits, Acknowledging
    <2>7. SavedFits' /\ RestoreReversible'
      BY <1>1, <1>5, <2>1, <2>2, <2>3 DEF SavedFits, RestoreReversible
    <2>8. LegacySavedFirst'
      BY <2>3 DEF LegacySavedFirst, Locking
    <2>9. IdsFit'
      BY <1>1, <1>4, <1>11, <2>2 DEF IdsFit
    <2> QED BY <1>7, <1>8, <2>4, <2>5, <2>6, <2>7, <2>8, <2>9
  <1> QED BY <1>9, <1>10, <1>11 DEF SyncDirectory

LEMMA NewestFacts ==
    ASSUME NEW s \in Seq(Artifacts), NEW n \in Nat
    PROVE  /\ SubSeq(s, n + 1, Len(s)) \in Seq(Artifacts)
           /\ n < Len(s) => /\ SubSeq(s, n + 1, Len(s)) # <<>>
                            /\ Last(SubSeq(s, n + 1, Len(s))) = Last(s)
  <1>1. SubSeq(s, n + 1, Len(s)) \in Seq(Artifacts)
    OBVIOUS
  <1>2. ASSUME n < Len(s)
        PROVE  /\ Len(SubSeq(s, n + 1, Len(s))) = Len(s) - n
               /\ SubSeq(s, n + 1, Len(s))[Len(s) - n] = s[Len(s)]
    BY <1>2
  <1>3. ASSUME n < Len(s)
        PROVE  SubSeq(s, n + 1, Len(s)) # <<>> /\ Last(SubSeq(s, n + 1, Len(s))) = Last(s)
    <2> DEFINE newest == SubSeq(s, n + 1, Len(s))
    <2>1. newest \in Seq(Artifacts) /\ Len(newest) = Len(s) - n /\ newest[Len(s) - n] = s[Len(s)]
      BY <1>1, <1>2, <1>3
    <2>2. Len(s) - n # 0
      BY <1>3
    <2> HIDE DEF newest
    <2>3. newest # <<>> /\ Last(newest) = Last(s)
      BY <2>1, <2>2 DEF Last
    <2> QED BY <2>3 DEF newest
  <1> QED BY <1>1, <1>3

\* The newest artifact is never pruned.
LEMMA PruneStep ==
    ASSUME IInv, NEW t \in Tasks, Prune(t) \/ PruneFails(t)
    PROVE  IInv'
  <1> USE DEF IInv
  <1>1. /\ pc[t] = "pruning" /\ pc' = [pc EXCEPT ![t] = "returning"]
        /\ failed' \in [Tasks -> BOOLEAN] /\ \A u \in Tasks : u # t => failed'[u] = failed[u]
        /\ ~failed'[t] => ~failed[t] /\ artifacts' = Newest(Excess)
        /\ UNCHANGED <<visible, durable, legacy, lock, op, next, saved, seen, generated, acked>>
    BY DEF Prune, PruneFails, TypeOK
  <1>2. PICK n \in Nat : artifacts' = Newest(n) /\ (~failed'[t] => n = Excess)
    <2>1. Len(artifacts) \in Nat
      BY DEF TypeOK
    <2>2. Excess \in Nat
      BY <2>1 DEF Excess
    <2> QED BY <1>1, <2>2 DEF Prune, PruneFails
  <1>3. artifacts' \in Seq(Artifacts)
    BY <1>2, NewestFacts DEF Newest, TypeOK
  <1>4. /\ pc' \in [Tasks -> Stages] /\ pc'[t] = "returning"
        /\ \A u \in Tasks : u # t => pc'[u] = pc[u]
    BY <1>1 DEF TypeOK, Stages
  <1>5. /\ Restoring(t) /\ \A u \in Tasks : Restoring(u) => u = t
    BY <1>1 DEF TasksFit
  <1>6. \A u \in Tasks : /\ Locking(u)' <=> Locking(u)
                         /\ Restoring(u)' <=> Restoring(u)
                         /\ Mutating(u)' <=> Mutating(u)
                         /\ Target(u)' = Target(u)
                         /\ Acknowledging(u)' => Acknowledging(u)
    BY <1>1, <1>4 DEF Locking, Restoring, Mutating, Target, Acknowledging
  <1>7. TypeOK' /\ TasksFit'
    BY <1>1, <1>3, <1>4, <1>6 DEF TypeOK, TasksFit
  <1>8. FilesFit' /\ AcknowledgedKept'
    BY <1>1 DEF FilesFit, AcknowledgedKept
  <1>9. IdsFit'
    BY <1>1, <1>4 DEF IdsFit
  <1>10. WritesFit'
    BY <1>1, <1>4, <1>6 DEF WritesFit, WriteFits
  <1>11. SyncedFits'
    BY <1>1, <1>6 DEF SyncedFits
  <1>12. SavedFits' /\ LegacySavedFirst'
    BY <1>1, <1>4, <1>5, <1>6 DEF SavedFits, LegacySavedFirst
  <1>13. RestoreReversible'
    <2> SUFFICES ASSUME saved[t] # None, ~failed'[t]
                 PROVE  artifacts' # <<>> /\ Last(artifacts').content = saved[t] /\ Last(artifacts').kept
      BY <1>1, <1>4, <1>5, <1>6 DEF RestoreReversible
    <2>1. artifacts # <<>> /\ Last(artifacts).content = saved[t] /\ Last(artifacts).kept
      BY <1>1, <1>5 DEF RestoreReversible
    <2>2. Len(artifacts) \in Nat \ {0}
      BY <2>1 DEF TypeOK
    <2>3. n < Len(artifacts)
      BY <1>2, <2>2 DEF Excess
    <2>4. Newest(n) # <<>> /\ Last(Newest(n)) = Last(artifacts)
      BY <2>3, NewestFacts DEF Newest, TypeOK
    <2> QED BY <1>2, <2>1, <2>4
  <1> QED BY <1>7, <1>8, <1>9, <1>10, <1>11, <1>12, <1>13

LEMMA ReadBackupStep ==
    ASSUME IInv, NEW t \in Tasks, ReadBackup(t)
    PROVE  IInv'
  <1> USE DEF IInv
  <1> DEFINE backup == visible[Backup]
  <1>1. /\ pc[t] = "reading" /\ Decodes(backup)
        /\ next' = [next EXCEPT ![t] = backup] /\ pc' = [pc EXCEPT ![t] = "locking"]
        /\ UNCHANGED <<visible, durable, legacy, artifacts, lock, op, saved, failed, seen, generated, acked>>
    BY DEF ReadBackup, files
  <1>2. backup \in Snapshots /\ backup \in durable[Backup] /\ Backup \in Paths
    <2>1. Backup \in Paths
      BY DEF Paths
    <2>2. backup \in Contents \cup {Legacy, Malformed}
      BY <2>1 DEF TypeOK
    <2> QED BY <1>1, <2>1, <2>2 DEF FilesFit, Decodes, Contents
  <1> HIDE DEF backup
  <1>3. /\ pc' \in [Tasks -> Stages] /\ next' \in [Tasks -> Snapshots \cup {None, Legacy, Malformed}]
        /\ \A u \in Tasks : u # t => pc'[u] = pc[u] /\ next'[u] = next[u]
        /\ pc'[t] = "locking" /\ next'[t] = backup
    BY <1>1, <1>2 DEF TypeOK, Stages
  <1>4. Restoring(t) /\ ~Locking(t) /\ op[t].kind \notin Creations
    BY <1>1 DEF TasksFit, Locking, Restoring, Creations
  <1>5. \A u \in Tasks : /\ Locking(u)' <=> Locking(u)
                         /\ Restoring(u)' <=> Restoring(u)
                         /\ Mutating(u)' <=> Mutating(u)
                         /\ Acknowledging(u)' <=> Acknowledging(u) /\ u # t
                         /\ u # t => Target(u)' = Target(u)
    BY <1>1, <1>3, <1>4 DEF Locking, Restoring, Mutating, Target, Acknowledging
  <1>6. TypeOK' /\ TasksFit'
    BY <1>1, <1>2, <1>3, <1>4, <1>5 DEF TypeOK, TasksFit
  <1>7. FilesFit' /\ AcknowledgedKept'
    BY <1>1 DEF FilesFit, AcknowledgedKept
  <1>8. WritesFit'
    <2>1. \A u \in Tasks : u # t => WriteFits(u)'
      BY <1>1, <1>3, <1>5 DEF WritesFit, WriteFits
    <2>2. WriteFits(t)'
      BY <1>3, <1>4, <1>5 DEF WriteFits
    <2> QED BY <2>1, <2>2 DEF WritesFit
  <1>9. SyncedFits'
    BY <1>1, <1>3, <1>5 DEF SyncedFits
  <1>10. SavedFits' /\ RestoreReversible' /\ LegacySavedFirst'
    BY <1>1, <1>3, <1>5 DEF SavedFits, RestoreReversible, LegacySavedFirst
  <1>11. IdsFit'
    <2>1. \A u \in Tasks : Ids(next'[u]) \subseteq generated
      BY <1>2, <1>3 DEF IdsFit
    <2>2. \A u \in Tasks : op[u].kind \in Creations /\ pc'[u] = "locking" =>
             u # t /\ pc[u] = "locking" /\ \A v \in Tasks : op[u].profile \notin Ids(next'[v])
      BY <1>2, <1>3, <1>4 DEF IdsFit
    <2> QED BY <1>1, <2>1, <2>2 DEF IdsFit
  <1> QED BY <1>6, <1>7, <1>8, <1>9, <1>10, <1>11

LEMMA ClearedFacts ==
    ASSUME IInv, NEW S \in SUBSET Tasks, Cleared(S)
    PROVE  /\ pc' \in [Tasks -> Stages] /\ op' \in [Tasks -> Operations]
           /\ next' \in [Tasks -> Snapshots \cup {None, Legacy, Malformed}]
           /\ saved' \in [Tasks -> Contents] /\ failed' \in [Tasks -> BOOLEAN]
           /\ seen' \in [Tasks -> ProfileMaps]
           /\ \A u \in S : pc'[u] = "idle" /\ op'[u] = Idle /\ next'[u] = None
           /\ \A u \in Tasks \ S : /\ pc'[u] = pc[u] /\ op'[u] = op[u] /\ next'[u] = next[u]
                                   /\ saved'[u] = saved[u] /\ failed'[u] = failed[u]
  <1>1. Idle \in Operations /\ None \in Contents /\ "idle" \in Stages /\ Nobody \in ProfileMaps
    BY NobodyFacts DEF Idle, Operation, Operations, Contents, Stages
  <1>2. /\ pc \in [Tasks -> Stages] /\ op \in [Tasks -> Operations]
        /\ next \in [Tasks -> Snapshots \cup {None, Legacy, Malformed}]
        /\ saved \in [Tasks -> Contents] /\ failed \in [Tasks -> BOOLEAN]
        /\ seen \in [Tasks -> ProfileMaps]
    BY DEF IInv, TypeOK
  <1> QED BY <1>1, <1>2 DEF Cleared

\* Tasks are over, by a return or by a crash.
LEMMA ClearedStep ==
    ASSUME IInv, NEW S \in SUBSET Tasks, Cleared(S),
           UNCHANGED <<visible, durable, legacy, artifacts, generated>>,
           \/ lock' = lock /\ lock \notin S
           \/ lock' = None /\ lock \in S
           \/ lock' = lock /\ \A u \in S : ~Locking(u),
           acked' \in Nat,
           acked' > 0 => \A c \in durable[Canonical] : c \in Snapshots /\ c.revision >= acked'
    PROVE  IInv'
  <1> USE DEF IInv
  <1>1. /\ \A u \in S : pc'[u] = "idle" /\ op'[u] = Idle /\ next'[u] = None
        /\ \A u \in Tasks \ S : /\ pc'[u] = pc[u] /\ op'[u] = op[u] /\ next'[u] = next[u]
                                /\ saved'[u] = saved[u] /\ failed'[u] = failed[u]
    BY ClearedFacts
  <1>2. Idle.kind = "none" /\ Ids(None) = {}
    BY NoSnapshot DEF Idle, Operation
  <1>3. \A u \in Tasks : /\ Locking(u)' <=> Locking(u) /\ u \notin S
                         /\ Restoring(u)' <=> Restoring(u) /\ u \notin S
                         /\ Acknowledging(u)' <=> Acknowledging(u) /\ u \notin S
                         /\ u \notin S => Target(u)' = Target(u) /\ (Mutating(u)' <=> Mutating(u))
    BY <1>1, <1>2 DEF Locking, Restoring, Mutating, Target, Acknowledging
  <1>4. TypeOK'
    BY ClearedFacts DEF TypeOK
  <1>5. TasksFit'
    BY <1>1, <1>2, <1>3 DEF TasksFit, Creations
  <1>6. FilesFit'
    BY DEF FilesFit
  <1>7. AcknowledgedKept'
    BY SnapshotFacts DEF AcknowledgedKept
  <1>8. WritesFit'
    <2>1. \A u \in Tasks \ S : WriteFits(u)'
      BY <1>1, <1>3 DEF WritesFit, WriteFits
    <2>2. \A u \in S : WriteFits(u)'
      BY <1>1, <1>3 DEF WriteFits
    <2> QED BY <2>1, <2>2 DEF WritesFit
  <1>9. SyncedFits' /\ SavedFits' /\ RestoreReversible' /\ LegacySavedFirst'
    BY <1>1, <1>2, <1>3 DEF SyncedFits, SavedFits, RestoreReversible, LegacySavedFirst
  <1>10. IdsFit'
    BY <1>1, <1>2 DEF IdsFit, Creations
  <1> QED BY <1>4, <1>5, <1>6, <1>7, <1>8, <1>9, <1>10

LEMMA PowerLossStep ==
    ASSUME IInv, PowerLoss
    PROVE  IInv'
  <1> USE DEF IInv
  <1>1. /\ Cleared(Tasks) /\ lock' = (IF lock \in Tasks THEN None ELSE lock)
        /\ UNCHANGED <<legacy, generated, acked>>
    BY DEF PowerLoss, Forgotten
  <1>2. PICK left \in [Paths -> UNION {durable[path] : path \in Paths}] :
          /\ \A path \in Paths : left[path] \in durable[path]
          /\ visible' = left
          /\ durable' = [path \in Paths |-> {left[path]}]
    BY DEF PowerLoss
  <1>3. Canonical \in Paths
    BY DEF Paths
  <1>4. /\ \A u \in Tasks : pc'[u] = "idle" /\ op'[u] = Idle /\ next'[u] = None
        /\ Idle.kind = "none" /\ Ids(None) = {}
    BY <1>1, ClearedFacts, NoSnapshot DEF Idle, Operation
  <1>5. artifacts' \in Seq(Artifacts)
    <2>1. PICK n \in 0 .. Len(artifacts) :
            artifacts' = [k \in 1 .. n |-> [artifacts[k] EXCEPT !.kept = TRUE]]
      BY DEF PowerLoss
    <2>2. /\ Len(artifacts) \in Nat
          /\ \A k \in 1 .. Len(artifacts) : artifacts[k] \in Artifacts
      BY DEF TypeOK
    <2>3. artifacts' \in [1 .. n -> Artifacts]
      <3>1. \A k \in 1 .. Len(artifacts) : [artifacts[k] EXCEPT !.kept = TRUE] \in Artifacts
        BY <2>2 DEF Artifacts
      <3> QED BY <2>1, <2>2, <3>1
    <2> QED BY <2>2, <2>3
  <1>6. TypeOK'
    <2>1. /\ visible' \in [Paths -> Contents \cup {Legacy, Malformed}] /\ visible'[Canonical] \in Contents
          /\ durable' \in [Paths -> SUBSET (Contents \cup {Legacy, Malformed})]
          /\ durable'[Canonical] \subseteq Contents
      BY <1>2, <1>3 DEF TypeOK
    <2> QED BY <1>1, <1>5, <2>1, ClearedFacts DEF TypeOK
  <1>7. /\ TasksFit' /\ WritesFit' /\ SyncedFits' /\ SavedFits' /\ RestoreReversible' /\ LegacySavedFirst'
    BY <1>4 DEF TasksFit, WritesFit, WriteFits, SyncedFits, SavedFits, RestoreReversible,
                LegacySavedFirst, Locking, Restoring, Acknowledging, Creations
  <1>8. FilesFit'
    <2>1. Register!RevisionOf(visible'[Canonical]) \in Nat
      BY <1>6, ContentFacts DEF TypeOK
    <2> QED BY <1>2, <1>3, <2>1 DEF FilesFit
  <1>9. AcknowledgedKept'
    BY <1>1, <1>2, <1>3 DEF AcknowledgedKept
  <1>10. IdsFit'
    BY <1>1, <1>2, <1>4 DEF IdsFit, Creations
  <1> QED BY <1>6, <1>7, <1>8, <1>9, <1>10

(***************************************************************************)
(* The actions.                                                            *)
(***************************************************************************)
LEMMA CallSteps ==
    ASSUME IInv, NEW t \in Tasks, Calls(t)
    PROVE  IInv'
  <1> USE DEF IInv
  <1>1. CASE Load(t)
    <2>1. Loaded.profiles \in ProfileMaps
      <3>1. visible[Canonical] \in Snapshots \cup {None}
        BY <1>1 DEF Load, TypeOK, Contents
      <3>2. CASE visible[Canonical] = None
        <4>1. \A r \in Nat : Snapshot(r, Nobody).profiles = Nobody
          BY NobodyFacts, SnapshotIs
        <4> QED BY <3>2, <4>1, NobodyFacts DEF Loaded
      <3>3. CASE visible[Canonical] \in Snapshots
        BY <3>3, SnapshotFacts, NoSnapshot DEF Loaded
      <3> QED BY <3>1, <3>2, <3>3
    <2>2. /\ seen' \in [Tasks -> ProfileMaps]
          /\ UNCHANGED <<visible, durable, legacy, artifacts, lock, pc, op, next, saved, failed, generated, acked>>
      BY <1>1, <2>1 DEF Load, files, task, TypeOK
    <2>3. TypeOK' /\ TasksFit' /\ FilesFit' /\ WritesFit' /\ IdsFit'
      BY <2>2 DEF TypeOK, TasksFit, FilesFit, WritesFit, WriteFits, IdsFit, Locking, Restoring, Mutating, Target
    <2>4. SyncedFits' /\ SavedFits' /\ AcknowledgedKept' /\ RestoreReversible' /\ LegacySavedFirst'
      BY <2>2 DEF SyncedFits, SavedFits, AcknowledgedKept, RestoreReversible, LegacySavedFirst,
                  Acknowledging, Restoring, Target
    <2> QED BY <2>3, <2>4
  <1>2. ASSUME NEW kind \in {"create", "register", "update", "remove", "backup", "import", "restore"},
               NEW p, NEW d, Start(t, kind, p, d)
        PROVE  seen' \in [Tasks -> ProfileMaps]
    BY <1>2, NobodyFacts DEF Start, TypeOK
  <1>3. CASE Create(t)
    <2>1. PICK p \in Profiles \ generated, d \in Drafts, kind \in {"create", "register"} :
             Start(t, kind, p, d) /\ generated' = generated \cup {p}
      BY <1>3 DEF Create
    <2>2. Operation(kind, p, d) \in Operations
      BY DEF Operation, Operations, Mutations
    <2> QED BY <1>2, <2>1, <2>2, StartStep DEF TypeOK
  <1>4. CASE Change(t)
    <2>1. PICK p \in DOMAIN seen[t], d \in Drafts, kind \in {"update", "remove"} :
             /\ Start(t, kind, p, IF kind = "update" THEN d ELSE None)
             /\ UNCHANGED generated
      BY <1>4 DEF Change
    <2> DEFINE draft == IF kind = "update" THEN d ELSE None
    <2>2. p \in Profiles
      BY TaskFacts, MapFacts
    <2>3. Operation(kind, p, draft) \in Operations
      BY <2>2 DEF Operation, Operations, Mutations
    <2>4. kind \notin Creations /\ (kind = "update" => draft \in Drafts) /\ kind # "restore"
      BY DEF Creations
    <2> HIDE DEF draft
    <2>5. Start(t, kind, p, draft)
      BY <2>1 DEF draft
    <2> QED BY <1>2, <2>1, <2>3, <2>4, <2>5, StartStep DEF TypeOK
  <1>5. CASE Copy(t)
    <2>1. PICK kind \in {"backup", "import"} : Start(t, kind, None, None) /\ UNCHANGED generated
      BY <1>5 DEF Copy
    <2>2. Operation(kind, None, None) \in Operations /\ kind \notin Creations
      BY DEF Operation, Operations, Creations
    <2> QED BY <1>2, <2>1, <2>2, StartStep, SMTT(30) DEF TypeOK
  <1>6. CASE Recover(t)
    <2>1. /\ Start(t, "restore", None, None) /\ UNCHANGED generated
          /\ \A u \in Tasks : ~Restoring(u)
      BY <1>6 DEF Recover
    <2>2. Operation("restore", None, None) \in Operations /\ "restore" \notin Creations
      BY DEF Operation, Operations, Creations
    <2> QED BY <1>2, <2>1, <2>2, StartStep DEF TypeOK
  <1> QED BY <1>1, <1>3, <1>4, <1>5, <1>6 DEF Calls

\* What load_bytes returns is what the register has.
LEMMA LoadedFacts ==
    ASSUME IInv, visible[Canonical] # Corrupt
    PROVE  /\ Loaded.revision = Register!RevisionOf(visible[Canonical]) /\ Loaded.revision \in Nat
           /\ Loaded.profiles = Register!ProfilesOf(visible[Canonical])
           /\ Loaded.profiles \in ProfileMaps
           /\ DOMAIN Loaded.profiles = Ids(visible[Canonical])
  <1>1. visible[Canonical] \in Snapshots \cup {None}
    BY DEF IInv, TypeOK, Contents
  <1>2. CASE visible[Canonical] = None
    <2>1. Loaded.revision = 0 /\ Loaded.profiles = Nobody
      BY <1>2, NobodyFacts, SnapshotIs DEF Loaded
    <2>2. Register!ProfilesOf(None) = Nobody
      BY NoSnapshot DEF Register!ProfilesOf, Nobody
    <2> QED BY <1>2, <2>1, <2>2, NobodyFacts, NoSnapshot
  <1>3. CASE visible[Canonical] \in Snapshots
    <2>1. Loaded = visible[Canonical]
      BY <1>3, NoSnapshot DEF Loaded
    <2> QED BY <1>3, <2>1, SnapshotFacts
  <1> QED BY <1>1, <1>2, <1>3

\* A mutation that is carried out changes one profile, by one revision.
LEMMA MutatedFacts ==
    ASSUME IInv, NEW t \in Tasks, Mutating(t), pc[t] = "locking", NEW ps \in ProfileMaps,
           DOMAIN ps = Ids(visible[Canonical]), Applies(t, ps)
    PROVE  /\ Mutated(t, ps) \in ProfileMaps
           /\ \E p \in DOMAIN ps \cup DOMAIN Mutated(t, ps) :
                 Register!OnlyChanges(p, ps, Mutated(t, ps))
           /\ DOMAIN Mutated(t, ps) \subseteq
                 DOMAIN ps \cup (IF op[t].kind \in Creations THEN {op[t].profile} ELSE {})
  <1> DEFINE o == op[t]
             new == Mutated(t, ps)
  <1>1. o.kind \in {"create", "register", "update", "remove"}
    BY DEF Mutating, Mutations
  <1>2. o.kind \in Creations => /\ o.profile \in Profiles /\ o.draft \in Drafts
                                /\ o.profile \notin DOMAIN ps
    <2>1. Canonical \in Paths
      BY DEF Paths
    <2> QED BY <2>1 DEF IInv, TasksFit, IdsFit, FilesFit
  <1>3. ASSUME NEW p \in Profiles, NEW r \in Nat, NEW d \in Drafts, new = With(ps, p, Profile(r, d)),
               \/ p \notin DOMAIN ps /\ r = 1
               \/ p \in DOMAIN ps /\ r = ps[p].revision + 1
        PROVE  /\ new \in ProfileMaps /\ DOMAIN new = DOMAIN ps \cup {p}
               /\ Register!OnlyChanges(p, ps, new)
    <2> HIDE DEF new
    <2>1. /\ new \in ProfileMaps /\ DOMAIN new = DOMAIN ps \cup {p} /\ new[p].revision = r
          /\ \A q \in DOMAIN ps \ {p} : new[q] = ps[q]
      <3> DEFINE changed == With(ps, p, Profile(r, d))
      <3>1. /\ changed \in ProfileMaps /\ DOMAIN changed = DOMAIN ps \cup {p} /\ changed[p].revision = r
            /\ \A q \in DOMAIN ps \ {p} : changed[q] = ps[q]
        <4>1. changed \in ProfileMaps
          BY WithFacts
        <4>2. DOMAIN changed = DOMAIN ps \cup {p} /\ changed[p].revision = r
          BY DEF With, Profile
        <4>3. \A q \in DOMAIN ps \ {p} : changed[q] = ps[q]
          BY DEF With
        <4> QED BY ONLY <4>1, <4>2, <4>3
      <3>2. new = changed
        BY <1>3
      <3> HIDE DEF changed
      <3> QED BY ONLY <3>1, <3>2
    <2>2. Register!OnlyChanges(p, ps, new)
      BY <1>3, <2>1 DEF Register!OnlyChanges
    <2> QED BY <2>1, <2>2
  <1>4. CASE o.kind \in Creations
    <2>1. new = With(ps, o.profile, Profile(1, o.draft))
      BY <1>4 DEF Mutated, Creations
    <2>2. /\ new \in ProfileMaps /\ DOMAIN new = DOMAIN ps \cup {o.profile}
          /\ Register!OnlyChanges(o.profile, ps, new)
      <3>1. 1 \in Nat
        OBVIOUS
      <3> HIDE DEF new
      <3> QED BY <1>2, <1>3, <1>4, <2>1, <3>1
    <2> QED BY <1>4, <2>2
  <1>5. CASE o.kind = "update"
    <2>1. /\ new = With(ps, o.profile, Profile(ps[o.profile].revision + 1, o.draft))
          /\ o.profile \in DOMAIN ps /\ o.draft \in Drafts
      BY <1>5 DEF Mutated, Applies, IInv, TasksFit
    <2>2. o.profile \in Profiles /\ ps[o.profile].revision + 1 \in Nat
      BY <2>1, MapFacts
    <2>3. /\ new \in ProfileMaps /\ DOMAIN new = DOMAIN ps
          /\ Register!OnlyChanges(o.profile, ps, new)
      <3> HIDE DEF new
      <3>1. /\ new \in ProfileMaps /\ DOMAIN new = DOMAIN ps \cup {o.profile}
            /\ Register!OnlyChanges(o.profile, ps, new)
        BY <1>3, <2>1, <2>2
      <3> QED BY <2>1, <3>1
    <2> QED BY <2>1, <2>3
  <1>6. CASE o.kind = "remove"
    <2>1. new = Without(ps, o.profile) /\ o.profile \in DOMAIN ps
      BY <1>6 DEF Mutated, Applies
    <2>2. /\ new \in ProfileMaps /\ DOMAIN new = DOMAIN ps \ {o.profile}
          /\ Register!OnlyChanges(o.profile, ps, new)
      <3> HIDE DEF new
      <3>1. /\ new \in ProfileMaps /\ DOMAIN new = DOMAIN ps \ {o.profile}
            /\ \A q \in DOMAIN ps \ {o.profile} : new[q] = ps[q]
        <4> HIDE DEF o
        <4> QED BY ONLY <2>1, WithoutFacts, ps \in ProfileMaps
      <3>2. Register!OnlyChanges(o.profile, ps, new)
        BY <2>1, <3>1 DEF Register!OnlyChanges
      <3> QED BY <3>1, <3>2
    <2> QED BY <2>1, <2>2
  <1> QED BY <1>1, <1>4, <1>5, <1>6 DEF Creations

\* A restored snapshot is newer than the canonical file, as a whole and in each profile.
LEMMA RestoredFacts ==
    ASSUME IInv, NEW backup \in Snapshots
    PROVE  /\ Restored(backup) \in Snapshots /\ Ids(Restored(backup)) = Ids(backup)
           /\ Restores(visible[Canonical], Restored(backup))
  <1> DEFINE old == visible[Canonical]
             map == [p \in DOMAIN backup.profiles |->
                       Profile(Larger(backup.profiles[p].revision, CanonicalRevisionOf(p)) + 1,
                               backup.profiles[p].draft)]
             rev == Larger(backup.revision, CanonicalRevision) + 1
  <1>1. old \in Contents /\ (Decodes(old) <=> old \in Snapshots) /\ (Decodes(old) <=> Register!Valid(old))
    BY ContentFacts DEF IInv, TypeOK
  <1>2. /\ CanonicalRevision \in Nat
        /\ Register!RevisionOf(old) = CanonicalRevision
    BY <1>1, SnapshotFacts DEF CanonicalRevision, Register!RevisionOf
  <1>3. ASSUME NEW p
        PROVE  /\ CanonicalRevisionOf(p) \in Nat
               /\ p \in DOMAIN Register!ProfilesOf(old) =>
                     CanonicalRevisionOf(p) = Register!ProfilesOf(old)[p].revision
    <2>1. CASE old \in Snapshots
      <3>1. old.profiles \in ProfileMaps /\ Register!ProfilesOf(old) = old.profiles
        BY <2>1, SnapshotFacts
      <3>2. \A q \in DOMAIN old.profiles : old.profiles[q].revision \in Nat
        BY <3>1, MapFacts
      <3> QED BY <1>1, <2>1, <3>1, <3>2 DEF CanonicalRevisionOf
    <2>2. CASE old \notin Snapshots
      <3>1. DOMAIN Register!ProfilesOf(old) = {}
        BY <1>1, <2>2, NoSnapshot DEF Contents
      <3> QED BY <1>1, <2>2, <3>1 DEF CanonicalRevisionOf
    <2> QED BY <2>1, <2>2
  <1>4. \A m, n \in Nat : Larger(m, n) \in Nat /\ Larger(m, n) >= m /\ Larger(m, n) >= n
    BY DEF Larger
  <1>5. /\ backup.revision \in Nat /\ backup.profiles \in ProfileMaps
        /\ Ids(backup) = DOMAIN backup.profiles /\ DOMAIN backup.profiles \in SUBSET Profiles
    BY SnapshotFacts, MapFacts
  <1>6. rev \in Nat /\ rev > Register!RevisionOf(old)
    BY <1>2, <1>4, <1>5
  <1>7. ASSUME NEW p \in DOMAIN backup.profiles
        PROVE  /\ map[p] \in ProfileStates
               /\ p \in DOMAIN Register!ProfilesOf(old) =>
                     map[p].revision > Register!ProfilesOf(old)[p].revision
    <2> DEFINE r == Larger(backup.profiles[p].revision, CanonicalRevisionOf(p)) + 1
    <2>1. backup.profiles[p] \in ProfileStates /\ backup.profiles[p].revision \in Nat
      BY <1>5, MapFacts
    <2>2. r \in Nat /\ r > CanonicalRevisionOf(p)
      <3> DEFINE m == backup.profiles[p].revision
                 n == CanonicalRevisionOf(p)
      <3>1. m \in Nat /\ n \in Nat
        BY <1>3, <2>1
      <3> HIDE DEF m, n
      <3>2. Larger(m, n) \in Nat /\ Larger(m, n) >= n
        BY <1>4, <3>1
      <3>3. Larger(m, n) + 1 \in Nat /\ Larger(m, n) + 1 > n
        BY <3>1, <3>2
      <3> QED BY <3>3 DEF m, n
    <2> HIDE DEF r
    <2>3. map[p] = Profile(r, backup.profiles[p].draft)
      BY DEF r
    <2>4. map[p] \in ProfileStates /\ map[p].revision = r
      BY <2>1, <2>2, <2>3 DEF Profile, ProfileStates
    <2> QED BY <1>3, <2>2, <2>4
  <1>8. Restored(backup) = Snapshot(rev, map) /\ DOMAIN map = DOMAIN backup.profiles
    BY DEF Restored
  <1> HIDE DEF rev, map
  <1>9. map \in ProfileMaps
    <2>1. map \in [DOMAIN backup.profiles -> ProfileStates]
      <3>1. map = [p \in DOMAIN backup.profiles |-> map[p]]
        BY DEF map
      <3> QED BY <1>7, <3>1
    <2> QED BY <1>5, <2>1, MapIs
  <1>10. /\ Restored(backup) \in Snapshots
         /\ Restored(backup).revision = rev /\ Restored(backup).profiles = map
    BY <1>6, <1>8, <1>9, SnapshotIs
  <1>11. Ids(Restored(backup)) = Ids(backup)
    BY <1>5, <1>8, <1>10, SnapshotFacts
  <1>12. Restores(visible[Canonical], Restored(backup))
    BY <1>6, <1>7, <1>8, <1>10 DEF Restores
  <1> QED BY <1>10, <1>11, <1>12

LEMMA LockedSteps ==
    ASSUME IInv, NEW t \in Tasks, Locked(t)
    PROVE  IInv'
  <1> USE DEF IInv
  <1>1. ASSUME NEW result \in BOOLEAN, Decline(t, result),
               result = FALSE => next[t] = None /\ ~Restoring(t)
        PROVE  IInv'
    <2>1. /\ End(t, result)
          /\ UNCHANGED <<visible, durable, legacy, artifacts, op, next, saved, seen, generated, acked>>
      BY <1>1 DEF Decline, files
    <2>2. artifacts' \in Seq(Artifacts)
      BY <2>1 DEF TypeOK
    <2> QED BY <1>1, <2>1, <2>2, EndStep
  <1>2. CASE TimeOut(t)
    <2>1. /\ End(t, TRUE)
          /\ UNCHANGED <<visible, durable, legacy, artifacts, op, next, saved, seen, generated, acked>>
      BY <1>2 DEF TimeOut, files
    <2>2. artifacts' \in Seq(Artifacts)
      BY <2>1 DEF TypeOK
    <2> QED BY <2>1, <2>2, EndStep
  <1>3. CASE MutateFails(t) \/ CreateBackupFails(t) \/ ReadBackupFails(t) \/ RestoreFails(t)
    BY <1>1, <1>3 DEF MutateFails, CreateBackupFails, ReadBackupFails, RestoreFails
  <1>4. CASE RunImportSkipped(t)
    <2>1. Decline(t, FALSE) /\ pc[t] = "locking" /\ ~Restoring(t)
      BY <1>4 DEF RunImportSkipped, Locks, Restoring
    <2> QED BY <1>1, <2>1 DEF TasksFit
  <1>5. CASE Mutate(t)
    <2> DEFINE ps == Loaded.profiles
               new == Mutated(t, ps)
               content == Snapshot(Loaded.revision + 1, new)
    <2>1. /\ pc[t] = "locking" /\ lock = None /\ Mutating(t) /\ ~Restoring(t)
          /\ op[t].kind \notin {"none", "backup", "import"} /\ visible[Canonical] # Corrupt
          /\ Applies(t, ps)
          /\ Prepare(t, content) /\ UNCHANGED <<artifacts, saved>>
      BY <1>5 DEF Mutate, Locks, Mutating, Restoring, Mutations
    <2>2. /\ Loaded.revision = Register!RevisionOf(visible[Canonical]) /\ Loaded.revision + 1 \in Nat
          /\ ps = Register!ProfilesOf(visible[Canonical]) /\ ps \in ProfileMaps
          /\ DOMAIN ps = Ids(visible[Canonical])
      BY <2>1, LoadedFacts
    <2> HIDE DEF ps
    <2>3. /\ new \in ProfileMaps
          /\ \E p \in DOMAIN ps \cup DOMAIN new : Register!OnlyChanges(p, ps, new)
          /\ DOMAIN new \subseteq DOMAIN ps \cup (IF op[t].kind \in Creations THEN {op[t].profile} ELSE {})
      BY <2>1, <2>2, MutatedFacts
    <2> HIDE DEF new
    <2>4. /\ content \in Snapshots
          /\ content.revision = Loaded.revision + 1 /\ content.profiles = new
      BY <2>2, <2>3, SnapshotIs
    <2> HIDE DEF content
    <2>5. Mutates(visible[Canonical], content)
      BY <2>1, <2>2, <2>3, <2>4 DEF Mutates
    <2>6. Ids(content) = DOMAIN new
      BY <2>4, SnapshotFacts
    <2>7. Canonical \in Paths /\ visible[Canonical] \in durable[Canonical]
      BY DEF Paths, FilesFit
    <2>8. Ids(content) \subseteq generated
      BY <2>2, <2>3, <2>6, <2>7 DEF IdsFit
    <2>9. \A u \in Tasks : u # t /\ op[u].kind \in Creations /\ pc[u] = "locking"
                              => op[u].profile \notin Ids(content)
      BY <2>2, <2>3, <2>6, <2>7 DEF IdsFit
    <2>10. artifacts' \in Seq(Artifacts) /\ saved' \in [Tasks -> Contents]
      BY <2>1 DEF TypeOK
    <2> QED BY <2>1, <2>4, <2>5, <2>8, <2>9, <2>10, PrepareStep
  <1>6. CASE CreateBackup(t)
    <2> DEFINE content == visible[Canonical]
    <2>1. /\ pc[t] = "locking" /\ lock = None /\ op[t].kind = "backup" /\ ~Restoring(t)
          /\ Decodes(content) /\ Prepare(t, content) /\ UNCHANGED <<artifacts, saved>>
      BY <1>6 DEF CreateBackup, Locks, Restoring
    <2>2. content \in Snapshots
      BY <2>1, ContentFacts DEF TypeOK
    <2>3. Canonical \in Paths /\ content \in durable[Canonical]
      BY DEF Paths, FilesFit
    <2> HIDE DEF content
    <2>4. /\ Ids(content) \subseteq generated
          /\ \A u \in Tasks : op[u].kind \in Creations /\ pc[u] = "locking" => op[u].profile \notin Ids(content)
      BY <2>3 DEF IdsFit
    <2>5. artifacts' \in Seq(Artifacts) /\ saved' \in [Tasks -> Contents]
      BY <2>1 DEF TypeOK
    <2> QED BY <2>1, <2>2, <2>4, <2>5, PrepareStep
  <1>7. CASE RunImport(t)
    <2>1. /\ pc[t] = "locking" /\ lock = None /\ op[t].kind = "import" /\ ~Restoring(t)
          /\ visible[Canonical] = None /\ legacy # None
          /\ Prepare(t, legacy) /\ UNCHANGED <<artifacts, saved>>
      BY <1>7 DEF RunImport, Locks, Restoring
    <2>2. legacy \in {Legacy, Malformed} /\ legacy \notin Snapshots /\ Ids(legacy) = {}
      BY <2>1, NoSnapshot DEF TypeOK
    <2>3. artifacts' \in Seq(Artifacts) /\ saved' \in [Tasks -> Contents]
      BY <2>1 DEF TypeOK
    <2> QED BY <2>1, <2>2, <2>3, PrepareStep
  <1>8. CASE ReadBackup(t)
    BY <1>8, ReadBackupStep
  <1>9. CASE Restore(t)
    <2> DEFINE content == Restored(next[t])
               artifact == [content |-> visible[Canonical], kept |-> FALSE]
    <2>1. /\ pc[t] = "locking" /\ lock = None /\ op[t].kind = "restore" /\ Restoring(t)
          /\ Prepare(t, content) /\ saved' = [saved EXCEPT ![t] = visible[Canonical]]
          /\ artifacts' = IF visible[Canonical] = None THEN artifacts ELSE Append(artifacts, artifact)
      BY <1>9 DEF Restore, Locks, Restoring
    <2>2. next[t] \in Snapshots
      BY <2>1 DEF TasksFit
    <2>3. content \in Snapshots /\ Ids(content) = Ids(next[t]) /\ Restores(visible[Canonical], content)
      BY <2>2, RestoredFacts
    <2>4. artifact \in Artifacts /\ artifact.content = visible[Canonical]
      BY DEF Artifacts, TypeOK
    <2> HIDE DEF content, artifact
    <2>5. /\ artifacts \in Seq(Artifacts) /\ artifacts' \in Seq(Artifacts)
          /\ visible[Canonical] # None => artifacts' # <<>> /\ Last(artifacts') = artifact
      <3>1. artifacts \in Seq(Artifacts)
        BY DEF TypeOK
      <3>2. /\ Append(artifacts, artifact) \in Seq(Artifacts)
            /\ Append(artifacts, artifact) # <<>> /\ Last(Append(artifacts, artifact)) = artifact
        BY <2>4, <3>1 DEF Last
      <3> QED BY <2>1, <3>1, <3>2
    <2>6. /\ saved' \in [Tasks -> Contents] /\ saved'[t] = visible[Canonical]
          /\ \A u \in Tasks : u # t => saved'[u] = saved[u]
      BY <2>1 DEF TypeOK
    <2>7. /\ Ids(content) \subseteq generated
          /\ \A u \in Tasks : op[u].kind \in Creations /\ pc[u] = "locking" => op[u].profile \notin Ids(content)
      BY <2>3 DEF IdsFit
    <2> QED BY <2>1, <2>3, <2>4, <2>5, <2>6, <2>7, PrepareStep
  <1> QED BY <1>2, <1>3, <1>4, <1>5, <1>6, <1>7, <1>8, <1>9 DEF Locked

LEMMA WriteSteps ==
    ASSUME IInv, NEW t \in Tasks, Writes(t)
    PROVE  IInv'
  <1> USE DEF IInv
  <1>1. CASE Verify(t)
    <2> DEFINE result == visible[Canonical] # next[t]
    <2>1. /\ End(t, result) /\ pc[t] = "verifying"
          /\ UNCHANGED <<visible, durable, legacy, artifacts, op, next, saved, seen, generated, acked>>
      BY <1>1 DEF Verify, files
    <2>2. artifacts' \in Seq(Artifacts) /\ result \in BOOLEAN
      BY <2>1 DEF TypeOK
    <2> HIDE DEF result
    <2> QED BY <2>1, <2>2, EndStep
  <1>2. CASE Fail(t)
    <2>1. /\ End(t, TRUE)
          /\ UNCHANGED <<visible, durable, legacy, op, next, saved, seen, generated, acked>>
      BY <1>2 DEF Fail
    <2>2. artifacts' = artifacts \/ (Restoring(t) /\ artifacts' = Front(artifacts))
      BY <1>2 DEF Fail
    <2>3. artifacts \in Seq(Artifacts) /\ Front(artifacts) \in Seq(Artifacts)
      <3>1. artifacts \in Seq(Artifacts) /\ Len(artifacts) \in Nat
        BY DEF TypeOK
      <3> QED BY <3>1 DEF Front
    <2> QED BY <2>1, <2>2, <2>3, EndStep
  <1> QED BY <1>1, <1>2, ReplaceStep, SyncStep DEF Writes

LEMMA ReturnStep ==
    ASSUME IInv, NEW t \in Tasks, Return(t)
    PROVE  IInv'
  <1> USE DEF IInv
  <1>1. /\ pc[t] = "returning" /\ Cleared({t})
        /\ acked' = IF ~failed[t] /\ Decodes(next[t]) /\ op[t].kind # "backup"
                    THEN Larger(acked, next[t].revision) ELSE acked
        /\ UNCHANGED <<visible, durable, legacy, artifacts, lock, generated>>
    BY DEF Return, files
  <1>2. acked \in Nat /\ (acked > 0 => \A c \in durable[Canonical] : c \in Snapshots /\ c.revision >= acked)
    BY ContentFacts DEF TypeOK, AcknowledgedKept
  <1>3. acked' \in Nat /\ (acked' > 0 => \A c \in durable[Canonical] : c \in Snapshots /\ c.revision >= acked')
    <2>1. CASE ~failed[t] /\ Decodes(next[t]) /\ op[t].kind # "backup"
      <3>1. next[t] \in Snapshots /\ next[t].revision \in Nat
        BY <2>1, TaskFacts, NoSnapshot, SnapshotFacts
      <3>2. \A c \in durable[Canonical] : c \in Snapshots /\ c.revision >= next[t].revision
        BY <1>1, <2>1, <3>1 DEF SyncedFits, Acknowledging
      <3>3. acked' \in {acked, next[t].revision}
        BY <1>1, <2>1 DEF Larger
      <3> QED BY <1>2, <3>1, <3>2, <3>3
    <2>2. CASE ~(~failed[t] /\ Decodes(next[t]) /\ op[t].kind # "backup")
      BY <1>1, <1>2, <2>2
    <2> QED BY <2>1, <2>2
  <1>4. \A u \in {t} : ~Locking(u)
    BY <1>1 DEF Locking
  <1> QED BY <1>1, <1>3, <1>4, ClearedStep

LEMMA CrashStep ==
    ASSUME IInv, NEW i \in Instances, Crash(i)
    PROVE  IInv'
  <1> USE DEF IInv
  <1>1. /\ Cleared(TasksOf(i)) /\ TasksOf(i) \in SUBSET Tasks
        /\ lock' = IF lock \in TasksOf(i) THEN None ELSE lock
        /\ UNCHANGED <<visible, durable, legacy, artifacts, generated, acked>>
    BY DEF Crash, Forgotten, TasksOf
  <1>2. acked \in Nat /\ (acked > 0 => \A c \in durable[Canonical] : c \in Snapshots /\ c.revision >= acked)
    BY ContentFacts DEF TypeOK, AcknowledgedKept
  <1> QED BY <1>1, <1>2, ClearedStep

LEMMA InvStep == IInv /\ [Next]_vars => IInv'
  <1> SUFFICES ASSUME IInv, [Next]_vars PROVE IInv'
    OBVIOUS
  <1>1. ASSUME NEW t \in Tasks, Calls(t) \/ Locked(t) \/ Writes(t) \/ Ends(t) PROVE IInv'
    BY <1>1, CallSteps, LockedSteps, WriteSteps, PruneStep, ReturnStep DEF Ends
  <1>2. ASSUME NEW i \in Instances, Crash(i) PROVE IInv'
    BY <1>2, CrashStep
  <1>3. CASE UNCHANGED vars
    <2>1. UNCHANGED <<visible, durable, legacy, artifacts, lock, pc, op, next, saved, failed, seen, generated, acked>>
      BY <1>3 DEF vars, files, task
    <2>2. TypeOK' /\ TasksFit' /\ FilesFit' /\ WritesFit' /\ IdsFit'
      BY <2>1 DEF IInv, TypeOK, TasksFit, FilesFit, WritesFit, WriteFits, IdsFit, Locking, Restoring, Mutating, Target
    <2>3. SyncedFits' /\ SavedFits' /\ AcknowledgedKept' /\ RestoreReversible' /\ LegacySavedFirst'
      BY <2>1 DEF IInv, SyncedFits, SavedFits, AcknowledgedKept, RestoreReversible, LegacySavedFirst,
                  Acknowledging, Restoring, Target
    <2> QED BY <2>2, <2>3 DEF IInv
  <1> QED BY <1>1, <1>2, <1>3, PowerLossStep DEF Next

LEMMA Invariance == Spec => []IInv
  BY InvInit, InvStep, PTL DEF Spec

(***************************************************************************)
(* The theorems.                                                           *)
(***************************************************************************)
\* The files, the lock, the tasks and the histories always have the values that the
\* code gives them; the canonical file is a snapshot, missing, or as corrupt as it was found.
THEOREM TypeCorrect == Spec => []TypeOK
  <1>1. IInv => TypeOK
    BY DEF IInv
  <1> QED BY <1>1, Invariance, PTL

\* No crash and no loss of power brings back anything older than a write that
\* returned Ok.
THEOREM AcknowledgedSurvives == Spec => []AcknowledgedKept
  <1>1. IInv => AcknowledgedKept
    BY DEF IInv
  <1> QED BY <1>1, Invariance, PTL

\* The bytes that a restore replaced are in the newest artifact, through the pruning
\* that follows, as long as at least one artifact is kept.
THEOREM RestoreCanBeUndone == Spec => []RestoreReversible
  <1>1. IInv => RestoreReversible
    BY DEF IInv
  <1> QED BY <1>1, Invariance, PTL

\* Nothing is imported from an old file that is not saved durably.
THEOREM ImportSavesFirst == Spec => []LegacySavedFirst
  <1>1. IInv => LegacySavedFirst
    BY DEF IInv
  <1> QED BY <1>1, Invariance, PTL

LEMMA InitRefines == IInv /\ Init => Register!Init
  <1> SUFFICES ASSUME Init PROVE durable[Canonical] = {visible[Canonical]}
    BY DEF Register!Init
  <1>1. Canonical \in Paths /\ durable = [path \in Paths |-> {visible[path]}]
    BY DEF Init, Paths
  <1> QED BY <1>1

\* A rename of the canonical file is the one step that writes the register.
LEMMA StepRefines ==
    ASSUME IInv, Next
    PROVE  \/ Register!Write \/ Register!Sync \/ Register!PowerLoss
           \/ UNCHANGED <<visible[Canonical], durable[Canonical]>>
  <1> USE DEF IInv
  <1>1. Canonical \in Paths
    BY DEF Paths
  <1>2. ASSUME NEW t \in Tasks, Replace(t)
        PROVE  Register!Write \/ UNCHANGED <<visible[Canonical], durable[Canonical]>>
    <2> DEFINE old == visible[Canonical]
               new == next[t]
    <2>1. /\ visible' = [visible EXCEPT ![Target(t)] = new] /\ pc[t] = "writing"
          /\ durable' = [durable EXCEPT ![Target(t)] = durable[Target(t)] \cup {new}]
      BY <1>2 DEF Replace
    <2>2. CASE Target(t) # Canonical
      BY <1>1, <2>1, <2>2 DEF TypeOK
    <2>3. CASE Target(t) = Canonical
      <3>1. visible'[Canonical] = new /\ durable'[Canonical] = durable[Canonical] \cup {new}
        BY <1>1, <2>1, <2>3 DEF TypeOK
      <3>2. /\ Locking(t) /\ new \in Snapshots
        <4>1. /\ Locking(t) /\ Target(t) = TargetOf(op[t].kind, new) /\ new \in Snapshots \cup {Legacy, Malformed}
              /\ (op[t].kind = "backup" => new \in Snapshots)
          BY <2>1, TaskFacts DEF Locking
        <4> QED BY <2>3, <4>1, TargetFacts
      <3>3. new.revision \in Nat /\ Register!Valid(new)
        BY <3>2, SnapshotFacts
      <3>4. Mutates(old, new) \/ Restores(old, new) \/ Imports(old, new)
        BY <2>1, <2>3 DEF WritesFit, WriteFits
      <3>5. CASE Mutates(old, new)
        BY <3>1, <3>3, <3>5 DEF Mutates, Register!Write, Register!Mutate
      <3>6. CASE Restores(old, new)
        <4>1. \A p \in DOMAIN Register!ProfilesOf(old) : Register!ProfilesOf(old)[p] = old.profiles[p]
          <5>1. CASE Register!Valid(old)
            BY <5>1 DEF Register!ProfilesOf
          <5>2. CASE ~Register!Valid(old)
            BY <5>2 DEF Register!ProfilesOf
          <5> QED BY <5>1, <5>2
        <4> QED BY <3>1, <3>3, <3>6, <4>1 DEF Restores, Register!Write, Register!Restore
      <3>7. CASE Imports(old, new)
        BY <3>1, <3>3, <3>7 DEF Imports, Register!Write, Register!Import
      <3> QED BY <3>4, <3>5, <3>6, <3>7
    <2> QED BY <2>2, <2>3
  <1>3. ASSUME NEW t \in Tasks, SyncDirectory(t)
        PROVE  Register!Sync
    <2>1. durable' = [path \in Paths |-> {visible[path]}] /\ visible' = visible
      BY <1>3 DEF SyncDirectory, Synced
    <2> QED BY <1>1, <2>1 DEF Register!Sync
  <1>4. CASE PowerLoss
    <2>1. PICK left \in [Paths -> UNION {durable[path] : path \in Paths}] :
            /\ \A path \in Paths : left[path] \in durable[path]
            /\ visible' = left /\ durable' = [path \in Paths |-> {left[path]}]
      BY <1>4 DEF PowerLoss
    <2> QED BY <1>1, <2>1 DEF Register!PowerLoss
  <1>5. ASSUME NEW t \in Tasks, Calls(t) PROVE UNCHANGED <<visible, durable>>
    BY <1>5 DEF Calls, Load, Create, Change, Copy, Recover, Start, files
  <1>6. ASSUME NEW t \in Tasks, Locked(t) PROVE UNCHANGED <<visible, durable>>
    BY <1>6 DEF Locked, TimeOut, Mutate, MutateFails, CreateBackup, CreateBackupFails,
                RunImport, RunImportSkipped, ReadBackup, ReadBackupFails, Restore, RestoreFails,
                Prepare, Decline, files
  <1>7. ASSUME NEW t \in Tasks, Verify(t) \/ Fail(t) \/ Ends(t) PROVE UNCHANGED <<visible, durable>>
    BY <1>7 DEF Verify, Fail, Ends, Prune, PruneFails, Return, files
  <1>8. ASSUME NEW i \in Instances, Crash(i) PROVE UNCHANGED <<visible, durable>>
    BY <1>8 DEF Crash
  <1> QED BY <1>2, <1>3, <1>4, <1>5, <1>6, <1>7, <1>8 DEF Next, Writes

\* The files, the lock and the renames implement the register: every mutation replaces
\* the very value it was computed from, and what may come back was written since the
\* last sync.
THEOREM Refinement == Spec => ImplementsRegister
  <1>1. IInv /\ Init => Register!Init
    BY InitRefines
  <1>2. IInv /\ [Next]_vars =>
           [Register!Write \/ Register!Sync \/ Register!PowerLoss]_<<visible[Canonical], durable[Canonical]>>
    <2> SUFFICES ASSUME IInv, [Next]_vars
                 PROVE  \/ Register!Write \/ Register!Sync \/ Register!PowerLoss
                        \/ UNCHANGED <<visible[Canonical], durable[Canonical]>>
      OBVIOUS
    <2>1. CASE UNCHANGED vars
      BY <2>1 DEF vars, files
    <2> QED BY <2>1, StepRefines
  <1> QED BY <1>1, <1>2, Invariance, PTL DEF Spec, ImplementsRegister, Register!Spec

=============================================================================
