---------------------------- MODULE ProfileRegistry ----------------------------
(***************************************************************************)
(* JsonProfileRegistry (crates/colui-adapters/src/registry/format.rs), the *)
(* import of the old format (import_v1.rs) and the use cases that call it  *)
(* (crates/colui-app/src/profiles.rs, recovery.rs).                        *)
(*                                                                         *)
(* Tasks of several instances read and replace one file.  Every writer     *)
(* holds the advisory lock from its first read to its last, so an action   *)
(* is one step of a writer that others can tell apart: a read under the    *)
(* lock with what is computed from it, the rename, the fsync of the        *)
(* directory, the verification, the end.  The temporary file is written    *)
(* and synced before the rename, where nobody sees it.                     *)
(*                                                                         *)
(* `durable` is what a loss of power may leave of a path: a rename may be  *)
(* lost until the directory is synced.  A process that dies loses nothing  *)
(* but its temporary file.                                                 *)
(*                                                                         *)
(* LocksAnyway, RunImportUnsaved, ReplaceUnsynced and PruneNewest are      *)
(* faulty variants of the operators that follow them; no action uses them. *)
(***************************************************************************)
EXTENDS Naturals, Sequences, SequencesExt

CONSTANTS Tasks, Instances,
          Home,              \* the instance of a task
          Profiles, Drafts,
          None, Corrupt,     \* no file; bytes that do not decode
          Legacy, Malformed, \* projects.json of version 1, readable or not
          RevisionLimit,     \* u64::MAX, made small
          KeptArtifacts,     \* three in the code
          MaxArtifacts,      \* bound: no restore begins with as many
          MaxFaults          \* bound: failed writes and crashes

ASSUME HomeAssumption == Home \in [Tasks -> Instances]
ASSUME LimitsAssumption ==
    {RevisionLimit, KeptArtifacts} \subseteq Nat \ {0} /\ {MaxArtifacts, MaxFaults} \subseteq Nat

VARIABLES
    visible,     \* path -> what a reader finds
    durable,     \* path -> what a loss of power may leave
    legacy,      \* projects.json: None, Legacy or Malformed; never written
    artifacts,   \* registry.pre-restore.*, oldest first
    lock,        \* who holds registry.lock, or None
    pc, op,      \* stage and operation of each task
    next,        \* what the task will write, wrote or (restore) read
    saved,       \* what its restore preserved, or None
    failed,      \* whether it ended in an error
    seen,        \* the profiles its window shows
    generated,   \* profile ids that were generated
    faults,      \* failed writes and crashes so far
    acked        \* history: highest revision whose write returned Ok

files == <<visible, durable, legacy, artifacts>>
task == <<pc, op, next, saved, failed>>
vars == <<files, lock, task, seen, generated, faults, acked>>

-----------------------------------------------------------------------------
(* Data.                                                                   *)

Canonical == "registry.json"
Backup == "registry.json.bak"
LegacyBackup == "projects.json.v1.bak"
Paths == {Canonical, Backup, LegacyBackup}

Profile(r, d) == [revision |-> r, draft |-> d]
Snapshot(r, ps) == [revision |-> r, profiles |-> ps]
SnapshotsOf(ids) == [revision : Nat, profiles : [ids -> [revision : Nat, draft : Drafts]]]

\* The four other contents of a file are told apart, and are no snapshots.
ASSUME ContentsAssumption ==
    /\ None # Corrupt /\ {None, Corrupt} \cap {Legacy, Malformed} = {}
    /\ \A ids \in SUBSET Profiles : {None, Corrupt, Legacy, Malformed} \cap SnapshotsOf(ids) = {}
    /\ None \notin Tasks

Nobody == [p \in {} |-> None]
With(ps, p, v) == [q \in DOMAIN ps \cup {p} |-> IF q = p THEN v ELSE ps[q]]
Without(ps, p) == [q \in DOMAIN ps \ {p} |-> ps[q]]
Larger(m, n) == IF m > n THEN m ELSE n

\* decode: schema, unknown fields, duplicate ids and invalid drafts alike.
Decodes(c) == c \notin {None, Corrupt, Legacy, Malformed}

\* load_bytes: a missing file is an empty registry.
Loaded == IF visible[Canonical] = None THEN Snapshot(0, Nobody) ELSE visible[Canonical]

Operation(kind, p, d) == [kind |-> kind, profile |-> p, draft |-> d]
Idle == Operation("none", None, None)
Mutations == {"create", "update", "remove", "register"}
Mutating(t) == op[t].kind \in Mutations
Restoring(t) == op[t].kind = "restore"

\* The path that a writer replaces: the import saves the old file first.
Target(t) ==
    CASE op[t].kind = "backup" -> Backup
      [] next[t] \in {Legacy, Malformed} -> LegacyBackup
      [] OTHER -> Canonical

Init ==
    \E p \in Profiles, d \in Drafts :
       LET found == {None, Corrupt, Snapshot(1, With(Nobody, p, Profile(1, d)))} IN
       \E canonical \in found, backup \in found \ {Corrupt} :
       /\ visible = [path \in Paths |-> CASE path = Canonical -> canonical
                                          [] path = Backup -> backup
                                          [] OTHER -> None]
       /\ durable = [path \in Paths |-> {visible[path]}]
       /\ legacy \in {None, Legacy, Malformed}
       /\ legacy # None => canonical = None
       /\ artifacts = <<>>
       /\ lock = None
       /\ pc = [t \in Tasks |-> "idle"]
       /\ op = [t \in Tasks |-> Idle]
       /\ next = [t \in Tasks |-> None]
       /\ saved = [t \in Tasks |-> None]
       /\ failed = [t \in Tasks |-> FALSE]
       /\ seen = [t \in Tasks |-> Nobody]
       /\ generated = {p}
       /\ faults = 0
       /\ acked = 0

Fault == faults < MaxFaults /\ faults' = faults + 1

-----------------------------------------------------------------------------
(* Calls.                                                                  *)

\* load and load_canonical take no lock: a window reads what is there.
Load(t) ==
    /\ pc[t] = "idle" /\ visible[Canonical] # Corrupt
    /\ seen' = [seen EXCEPT ![t] = Loaded.profiles]
    /\ UNCHANGED <<files, lock, task, generated, faults, acked>>

Start(t, kind, p, d) ==
    /\ pc[t] = "idle"
    /\ op' = [op EXCEPT ![t] = Operation(kind, p, d)]
    /\ pc' = [pc EXCEPT ![t] = IF kind = "restore" THEN "reading" ELSE "locking"]
    /\ seen' = [seen EXCEPT ![t] = IF kind \in {"update", "remove"} THEN @ ELSE Nobody]
    /\ UNCHANGED <<files, lock, next, saved, failed, faults, acked>>

\* CreateProfile, and RegisterCandidate's mutation: a new id, then the guard.
Create(t) ==
    \E p \in Profiles \ generated, d \in Drafts, kind \in {"create", "register"} :
       /\ ~\E u \in Tasks : Restoring(u)
       /\ Start(t, kind, p, d)
       /\ generated' = generated \cup {p}

\* UpdateProfile and RemoveProfile, with the revision the window shows.
Change(t) ==
    \E p \in DOMAIN seen[t], d \in Drafts, kind \in {"update", "remove"} :
       /\ ~\E u \in Tasks : Restoring(u)
       /\ Start(t, kind, p, IF kind = "update" THEN d ELSE None)
       /\ UNCHANGED generated

\* create_registry_backup and import_v1_if_needed take no guard.
Copy(t) ==
    \E kind \in {"backup", "import"} : Start(t, kind, None, None) /\ UNCHANGED generated

\* RestoreRegistryBackup holds the recovery guard, which no mutation and no
\* other restore of any instance shares (OperationExclusion).
Recover(t) ==
    /\ Len(artifacts) < MaxArtifacts
    /\ ~\E u \in Tasks : Mutating(u) \/ Restoring(u)
    /\ Start(t, "restore", None, None)
    /\ UNCHANGED generated

\* The locked part is over; a restore still has its artifacts to prune.
End(t, result) ==
    /\ pc' = [pc EXCEPT ![t] = IF Restoring(t) THEN "pruning" ELSE "returning"]
    /\ failed' = [failed EXCEPT ![t] = result]
    /\ lock' = IF lock = t THEN None ELSE lock

\* try_lock_exclusive until the deadline.
TimeOut(t) ==
    /\ pc[t] = "locking" /\ lock # None
    /\ End(t, TRUE)
    /\ UNCHANGED <<files, op, next, saved, seen, generated, faults, acked>>

\* The lock is taken and `content` is to be written ...
Prepare(t, content) ==
    /\ lock' = t
    /\ pc' = [pc EXCEPT ![t] = "writing"]
    /\ next' = [next EXCEPT ![t] = content]
    /\ UNCHANGED <<visible, durable, legacy, op, failed, seen, generated, faults, acked>>

\* ... or it is taken and given back, and nothing was written.
Decline(t, result) ==
    /\ End(t, result)
    /\ UNCHANGED <<files, op, next, saved, seen, generated, faults, acked>>

\* A mutant of Locks: the lock is not looked at.
LocksAnyway(t, kinds) == pc[t] = "locking" /\ op[t].kind \in kinds

Locks(t, kinds) == pc[t] = "locking" /\ op[t].kind \in kinds /\ lock = None

-----------------------------------------------------------------------------
(* mutate: the use cases' closures on what load_bytes returned.            *)

\* require_revision, not_found, Revision::next, and a candidate that is registered
\* already (a draft stands for its project).
Applies(t, ps) ==
    LET o == op[t] IN
    CASE o.kind = "create"   -> o.profile \notin DOMAIN ps
      [] o.kind = "register" -> \A p \in DOMAIN ps : ps[p].draft # o.draft
      [] OTHER -> /\ o.profile \in DOMAIN ps
                  /\ ps[o.profile].revision = seen[t][o.profile].revision
                  /\ o.kind = "update" => ps[o.profile].revision < RevisionLimit

\* Each of them changes the profiles, so mutate never finds nothing to write.
Mutated(t, ps) ==
    LET o == op[t] IN
    CASE o.kind \in {"create", "register"} -> With(ps, o.profile, Profile(1, o.draft))
      [] o.kind = "update" ->
            With(ps, o.profile, Profile(ps[o.profile].revision + 1, o.draft))
      [] OTHER -> Without(ps, o.profile)

Mutate(t) ==
    /\ Locks(t, Mutations)
    /\ visible[Canonical] # Corrupt /\ Applies(t, Loaded.profiles)
    /\ Loaded.revision < RevisionLimit
    /\ Prepare(t, Snapshot(Loaded.revision + 1, Mutated(t, Loaded.profiles)))
    /\ UNCHANGED <<artifacts, saved>>

\* The evidence of a registration may also be stale (DiscoverySession).
MutateFails(t) ==
    /\ Locks(t, Mutations)
    /\ \/ op[t].kind = "register"
       \/ visible[Canonical] # Corrupt /\ Applies(t, Loaded.profiles) =>
             Loaded.revision = RevisionLimit
    /\ Decline(t, TRUE)

-----------------------------------------------------------------------------
(* create_backup, run_import and restore_backup under the lock.            *)

CreateBackup(t) ==
    /\ Locks(t, {"backup"}) /\ Decodes(visible[Canonical])
    /\ Prepare(t, visible[Canonical])
    /\ UNCHANGED <<artifacts, saved>>

CreateBackupFails(t) ==
    /\ Locks(t, {"backup"}) /\ ~Decodes(visible[Canonical])
    /\ Decline(t, TRUE)

\* A mutant of RunImport: the old file is not saved.
RunImportUnsaved(t) ==
    /\ Locks(t, {"import"}) /\ visible[Canonical] = None /\ legacy # None
    /\ Prepare(t, Snapshot(0, Nobody))
    /\ UNCHANGED <<artifacts, saved>>

RunImport(t) ==
    /\ Locks(t, {"import"}) /\ visible[Canonical] = None /\ legacy # None
    /\ Prepare(t, legacy)
    /\ UNCHANGED <<artifacts, saved>>

RunImportSkipped(t) ==
    /\ Locks(t, {"import"}) /\ (visible[Canonical] # None \/ legacy = None)
    /\ Decline(t, FALSE)

\* The first read of the backup, before the lock.
ReadBackup(t) ==
    /\ pc[t] = "reading" /\ Decodes(visible[Backup])
    /\ next' = [next EXCEPT ![t] = visible[Backup]]
    /\ pc' = [pc EXCEPT ![t] = "locking"]
    /\ UNCHANGED <<files, lock, op, saved, failed, seen, generated, faults, acked>>

ReadBackupFails(t) ==
    /\ pc[t] = "reading" /\ ~Decodes(visible[Backup])
    /\ Decline(t, TRUE)

\* The revisions of a restored snapshot: above those of the canonical file, where it decodes.
CanonicalRevision ==
    IF Decodes(visible[Canonical]) THEN visible[Canonical].revision ELSE 0
CanonicalRevisionOf(p) ==
    IF Decodes(visible[Canonical]) /\ p \in DOMAIN visible[Canonical].profiles
    THEN visible[Canonical].profiles[p].revision ELSE 0

Restored(backup) ==
    Snapshot(Larger(backup.revision, CanonicalRevision) + 1,
             [p \in DOMAIN backup.profiles |->
                Profile(Larger(backup.profiles[p].revision, CanonicalRevisionOf(p)) + 1,
                        backup.profiles[p].draft)])

Exhausted(snapshot) ==
    \/ snapshot.revision > RevisionLimit
    \/ \E p \in DOMAIN snapshot.profiles : snapshot.profiles[p].revision > RevisionLimit

\* preserve_canonical: the bytes as they are, corrupt or not.
Restore(t) ==
    /\ Locks(t, {"restore"}) /\ visible[Backup] = next[t]
    /\ ~Exhausted(Restored(next[t]))
    /\ Prepare(t, Restored(next[t]))
    /\ saved' = [saved EXCEPT ![t] = visible[Canonical]]
    /\ artifacts' = IF visible[Canonical] = None THEN artifacts
                    ELSE Append(artifacts, [content |-> visible[Canonical], kept |-> FALSE])

\* recovery_conflict, exhausted revisions, or the artifact cannot be written.
RestoreFails(t) ==
    /\ Locks(t, {"restore"})
    /\ Decline(t, TRUE)

-----------------------------------------------------------------------------
(* atomic_write and atomic_backup.                                         *)

\* A mutant of Replace: the temporary file is not synced before the rename.
ReplaceUnsynced(t) ==
    /\ pc[t] = "writing"
    /\ visible' = [visible EXCEPT ![Target(t)] = next[t]]
    /\ durable' = [durable EXCEPT ![Target(t)] = @ \cup {next[t], Corrupt}]
    /\ pc' = [pc EXCEPT ![t] = "renamed"]
    /\ UNCHANGED <<legacy, artifacts, lock, op, next, saved, failed, seen, generated, faults, acked>>

\* The temporary file is written and synced, then renamed.
Replace(t) ==
    /\ pc[t] = "writing"
    /\ visible' = [visible EXCEPT ![Target(t)] = next[t]]
    /\ durable' = [durable EXCEPT ![Target(t)] = @ \cup {next[t]}]
    /\ pc' = [pc EXCEPT ![t] = "renamed"]
    /\ UNCHANGED <<legacy, artifacts, lock, op, next, saved, failed, seen, generated, faults, acked>>

\* The fsync of the directory, in which all the paths are.
Synced ==
    /\ durable' = [path \in Paths |-> {visible[path]}]
    /\ artifacts' = [k \in DOMAIN artifacts |-> [artifacts[k] EXCEPT !.kept = TRUE]]

\* What the import writes once the old file is saved.
ImportedFrom(t) ==
    IF next[t] = Malformed THEN {Snapshot(0, Nobody)}
    ELSE {Snapshot(1, With(Nobody, p, Profile(1, d))) : p \in Profiles \ generated, d \in Drafts}

SyncDirectory(t) ==
    /\ pc[t] = "renamed"
    /\ Synced
    /\ \/ /\ Mutating(t) \/ Restoring(t)
          /\ pc' = [pc EXCEPT ![t] = "verifying"]
          /\ UNCHANGED <<next, failed, lock, generated>>
       \/ /\ Target(t) = LegacyBackup
          /\ pc' = [pc EXCEPT ![t] = "writing"]
          /\ \E s \in ImportedFrom(t) :
                /\ next' = [next EXCEPT ![t] = s]
                /\ generated' = generated \cup DOMAIN s.profiles
          /\ UNCHANGED <<failed, lock>>
       \/ /\ op[t].kind \in {"backup", "import"} /\ Target(t) # LegacyBackup
          /\ End(t, FALSE)
          /\ UNCHANGED <<next, generated>>
    /\ UNCHANGED <<visible, legacy, op, saved, seen, faults, acked>>

\* The file is read again before the lock is given back.
Verify(t) ==
    /\ pc[t] = "verifying"
    /\ End(t, visible[Canonical] # next[t])
    /\ UNCHANGED <<files, op, next, saved, seen, generated, faults, acked>>

\* Any of these calls may fail: before the rename nothing has happened, after
\* it the new file stays.  A failed restore deletes its artifact, if it can.
Fail(t) ==
    /\ pc[t] \in {"writing", "renamed", "verifying"}
    /\ End(t, TRUE)
    /\ artifacts' \in {artifacts} \cup
          (IF Restoring(t) /\ saved[t] # None THEN {Front(artifacts)} ELSE {})
    /\ Fault
    /\ UNCHANGED <<visible, durable, legacy, op, next, saved, seen, generated, acked>>

-----------------------------------------------------------------------------
(* prune_artifacts, and the end of a call.                                 *)

Excess == IF Len(artifacts) > KeptArtifacts THEN Len(artifacts) - KeptArtifacts ELSE 0
Newest(n) == SubSeq(artifacts, n + 1, Len(artifacts))

\* A mutant of Prune: the newest go.
PruneNewest(t) ==
    /\ pc[t] = "pruning"
    /\ artifacts' = SubSeq(artifacts, 1, Len(artifacts) - Excess)
    /\ pc' = [pc EXCEPT ![t] = "returning"]
    /\ UNCHANGED <<visible, durable, legacy, lock, op, next, saved, failed, seen, generated, faults, acked>>

Prune(t) ==
    /\ pc[t] = "pruning"
    /\ artifacts' = Newest(Excess)
    /\ pc' = [pc EXCEPT ![t] = "returning"]
    /\ UNCHANGED <<visible, durable, legacy, lock, op, next, saved, failed, seen, generated, faults, acked>>

\* The failure turns a successful restore into an error.
PruneFails(t) ==
    /\ pc[t] = "pruning"
    /\ \E n \in 0 .. Excess : artifacts' = Newest(n)
    /\ failed' = [failed EXCEPT ![t] = TRUE]
    /\ pc' = [pc EXCEPT ![t] = "returning"]
    /\ Fault
    /\ UNCHANGED <<visible, durable, legacy, lock, op, next, saved, seen, generated, acked>>

Cleared(S) ==
    /\ pc' = [t \in Tasks |-> IF t \in S THEN "idle" ELSE pc[t]]
    /\ op' = [t \in Tasks |-> IF t \in S THEN Idle ELSE op[t]]
    /\ next' = [t \in Tasks |-> IF t \in S THEN None ELSE next[t]]
    /\ saved' = [t \in Tasks |-> IF t \in S THEN None ELSE saved[t]]
    /\ failed' = [t \in Tasks |-> IF t \in S THEN FALSE ELSE failed[t]]
    /\ seen' = [t \in Tasks |-> IF t \in S THEN Nobody ELSE seen[t]]

\* The call returns; the window reads again.
Return(t) ==
    /\ pc[t] = "returning"
    /\ acked' = IF ~failed[t] /\ Decodes(next[t]) /\ op[t].kind # "backup"
                THEN Larger(acked, next[t].revision) ELSE acked
    /\ Cleared({t})
    /\ UNCHANGED <<files, lock, generated, faults>>

-----------------------------------------------------------------------------
(* Crashes.                                                                *)

TasksOf(i) == {t \in Tasks : Home[t] = i}

Forgotten(S) ==
    /\ Cleared(S)
    /\ lock' = IF lock \in S THEN None ELSE lock
    /\ Fault
    /\ UNCHANGED <<legacy, generated, acked>>

\* An instance dies; the system releases its lock.
Crash(i) ==
    /\ \E t \in TasksOf(i) : pc[t] # "idle"
    /\ Forgotten(TasksOf(i))
    /\ UNCHANGED <<visible, durable, artifacts>>

\* All die, and what was not synced may be gone, the newest artifacts first.
PowerLoss ==
    /\ \E t \in Tasks : pc[t] # "idle"
    /\ Forgotten(Tasks)
    /\ \E left \in [Paths -> UNION {durable[path] : path \in Paths}] :
          /\ \A path \in Paths : left[path] \in durable[path]
          /\ visible' = left
          /\ durable' = [path \in Paths |-> {left[path]}]
    /\ \E n \in 0 .. Len(artifacts) :
          /\ \A k \in n + 1 .. Len(artifacts) : ~artifacts[k].kept
          /\ artifacts' = [k \in 1 .. n |-> [artifacts[k] EXCEPT !.kept = TRUE]]

Calls(t) == Load(t) \/ Create(t) \/ Change(t) \/ Copy(t) \/ Recover(t)
Locked(t) == \/ TimeOut(t) \/ Mutate(t) \/ MutateFails(t)
             \/ CreateBackup(t) \/ CreateBackupFails(t) \/ RunImport(t) \/ RunImportSkipped(t)
             \/ ReadBackup(t) \/ ReadBackupFails(t) \/ Restore(t) \/ RestoreFails(t)
Writes(t) == Replace(t) \/ SyncDirectory(t) \/ Verify(t) \/ Fail(t)
Ends(t) == Prune(t) \/ PruneFails(t) \/ Return(t)

Next == \/ \E t \in Tasks : Calls(t) \/ Locked(t) \/ Writes(t) \/ Ends(t)
        \/ \E i \in Instances : Crash(i)
        \/ PowerLoss

Spec == Init /\ [][Next]_vars

-----------------------------------------------------------------------------
(* Properties.                                                             *)

\* What the registry promises: one register, replaced in single steps.
Register == INSTANCE ProfileRegister
                WITH register <- visible[Canonical], recent <- durable[Canonical]
ImplementsRegister == Register!Spec

\* A write that returned Ok survives every crash and loss of power: nothing
\* that may come back is older.
AcknowledgedKept ==
    acked > 0 => \A c \in durable[Canonical] : Decodes(c) /\ c.revision >= acked

\* From the moment a restore replaces the canonical file until it reports
\* success, the bytes it replaced are in the newest artifact, and no loss of
\* power can separate the two once the directory is synced.
RestoreReversible ==
    \A t \in Tasks :
       /\ Restoring(t) /\ saved[t] # None
       /\ \/ pc[t] \in {"renamed", "verifying"}
          \/ pc[t] \in {"pruning", "returning"} /\ ~failed[t]
       => /\ artifacts # <<>> /\ Last(artifacts).content = saved[t]
          /\ pc[t] # "renamed" => Last(artifacts).kept

\* The old file is saved, durably, before anything is imported from it.
LegacySavedFirst ==
    \A t \in Tasks :
       op[t].kind = "import" /\ pc[t] \in {"writing", "renamed"} /\ Target(t) = Canonical
          => durable[LegacyBackup] = {legacy}

\* profile revisions "support optimistic concurrency": an update or a removal
\* that is carried out changes the profile that its window showed.
ChangesWhatWasSeen ==
    \A t \in Tasks :
       op[t].kind \in {"update", "remove"} /\ pc[t] = "locking" /\ visible[Canonical] # Corrupt
          /\ Applies(t, Loaded.profiles)
          => Loaded.profiles[op[t].profile] = seen[t][op[t].profile]
=============================================================================
