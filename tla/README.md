# A formal model of colui

colui is a desktop application that runs Docker Compose projects: Rust crates
(`colui-domain`, `colui-app`, `colui-adapters`) behind a Tauri shell
(`src-tauri`), with a React window (`src`). These TLA+ modules model the parts of it
whose correctness depends on what happens in which order. Every definition is
translated from the code; `PROJECT.json` names the lines.

TLC checks small instances (the `MC*` modules and the `.cfg` files); TLAPS proves
the theorems of the `*_proofs` modules for all values of the constants.

## The system

| part | code | state | operations |
| --- | --- | --- | --- |
| OperationLockManager | `colui-adapters/src/operations.rs` | lease per profile, lease per container, count of shared guards, recovery flag, one advisory file lock over instances | acquire and drop lifecycle, definition, container, mutation and recovery guards |
| InventoryCoordinator | `colui-adapters/src/inventory.rs` | published snapshot, generation, list in flight, failures and back-off, publication gate | refresh (explicit, automatic, causal), subscribe, lease of a candidate |
| RuntimeGateway | `colui-adapters/src/runtime/gateway.rs` | active transition, snapshot (state, client, generation), Compose gate | connect, disconnect, reconnect, run a profile, list, inspect, logs, container action |
| DefinitionCache | `colui-adapters/src/definitions.rs` | entries, epochs, revisions, registry identity | access, refresh, invalidate one or all |
| JsonProfileRegistry | `colui-adapters/src/registry/` | canonical file, backup, artifacts, lock file, failure history | load, mutate, create and restore backup, import |
| Profile use cases | `colui-app/src/profiles.rs`, `recovery.rs` | none of their own | create, update, remove, restore |
| DiscoverySession | `colui-app/src/discovery.rs` | active session, generation, candidates, ignored, schedules, status of automatic registrations, journal | observe, list, ignore, configure, schedule, register |
| ComposeProcessRunner | `colui-adapters/src/runtime/process.rs` | a child, its group, two rings | run with a deadline |
| Docker API adapter | `colui-adapters/src/runtime/docker_api.rs` | none but a stream reader's | list, inspect, actions, logs |
| Status projections | `colui-app/src/status.rs`, `diagnostics.rs` | none | which containers a profile's status counts; a collection of what the others show |
| Lifecycle, containers | `colui-app/src/lifecycle.rs`, `containers.rs` | none of their own | apply, stop, tear down, restart; start, stop, logs, ports |
| Application shell | `src-tauri/src/lib.rs`, `commands/` | event sequence | commands, journaling wrapper, automatic worker |
| Frontend state | `src/features/*/` hooks | query caches | poll, invalidate, share structure |

How they meet:

- A lifecycle operation takes its guard from the lock manager, reads the registry,
  runs Compose through the gateway's gate, takes an observation marker and asks
  the inventory for a causal refresh. A container action does the same with a
  container guard and no gate.
- A definition load takes a definition guard, reads the registry, and runs
  `docker compose config` inside the gateway's gate.
- The inventory lists through the gateway's client between two reads of the
  session. Its publications go by a lossy broadcast to the automatic scheduler, which asks
  discovery for a schedule; a worker registers the candidates one at a time,
  each under a candidate lease of the inventory and a validator of the gateway.
- A restore takes the recovery guard, which excludes every other guard, in all
  instances through the file lock.
- The shell journals what commands do and emits numbered events; the window
  invalidates its caches by scope, and polls.

What is hard in it, and what would make each part correct:

- *Locks.* Guards come and go by `Drop`, waiting tasks are woken by a `Notify` with one
  stored permit, futures are dropped half way, the file outlives the process.
  Correct: recovery excludes everything, a lease has one owner and nobody
  loses it, wake-ups are not lost, the file is held by those who need it.
- *Inventory.* One list serves many callers; some of them changed Docker after
  it began; sessions change during it. Correct: a caller sees its own change, a
  snapshot is of one session, leases hold publications back, everyone is answered.
- *Gateway.* Calls join, cancel and overtake each other. Correct: one
  owner, nobody waits for ever, what is cancelled is not published, reads belong to
  the session that is there when they return.
- *Definitions.* Loads race updates, restores and reconnects. Correct: an entry
  belongs to the revision it names; what was invalidated is not installed.
- *Registry.* Crashes, two instances, failed restores. Correct: the
  file is always one of the versions written; revisions never repeat.
- *Discovery.* Publications, listings, commands and the worker race. Correct: one
  profile per candidate, nothing registered on evidence of an old session or
  generation, one attempt per generation.
- *Processes.* Deadlines, groups, pipes that stay open. Correct: the child is reaped, no output is
  lost but the oldest, a timeout is reported as one.
- *Window.* Answers and events arrive in any order. Correct: no older generation replaces a newer one,
  and what is missed is repaired.

`PROJECT.json` lists the hazards at their lines, with the properties that cover them.

## What is modelled

| module | models | interacts with |
| --- | --- | --- |
| `OperationLocks` | `operations.rs` | implements `OperationExclusion` |
| `InventoryCoordinator` | `inventory.rs` | implements `InventoryFeed` |
| `RuntimeGateway` | transitions and the gate of `gateway.rs` | implements `RuntimeSession` |
| `ProfileRegistry` | `registry/format.rs`, `import_v1.rs`, `profiles.rs`, `recovery.rs` | implements `ProfileRegister` |
| `DefinitionCache` | `definitions.rs` and the commands that invalidate it | the registry and the guards are inlined |
| `ProjectGroups`, `Candidates` | labels to groups, groups and profiles to candidates and status: pure functions | used by `DiscoverySession` |
| `DiscoverySession` | `discovery.rs`, the scheduler, the shell around them | inventory, gateway, registry as they promise to behave |
| `ComposeProcess` | `process.rs` | what runs in the gate |
| `LogStream` | the log reader and its ring: pure functions | used by `RuntimeOperations` |
| `RuntimeOperations` | `containers.rs`, `lifecycle.rs`, the gateway's `run_container`, `read_logs`, `run_profile` | a composition of the promises of the others |

Each property has a faulty variant of some operator, defined just before it, with which
TLC finds the property violated (`PROJECT.json`, "mutants"); no action uses a variant.

### OperationLocks (and OperationExclusion)

`OperationLocks` models every critical section of the two mutexes
(the recovery barrier and the table of profile leases), every call on the file
lock and every await as an action of its own. A task's stage `pc` says which
part of an acquisition or of a `Drop` it has reached, so that two tasks interleave where
the code lets them. `Abandon` drops the future of a waiting
lifecycle acquisition; `Restart` ends an instance with all its tasks, whose file locks
the operating system releases. `OperationExclusion` is the promise to the use cases: which guards may be held
at once.

Run `locks`: two tasks of one instance and one of another, one profile, one container, fair
scheduling. `BarrierExact`: the count is the number of guards; `LeaseKept`: no one
loses a lease (the panic in `wait_for_definition` cannot happen); `WakeupKept`: a waiting task
that may go on is or will be woken; `FileOwned`; `ReservationServed`, `RecoveryEnds`, `ProjectionVersioned`; the refinement.
The tasks fill every role that can meet: a definition holder, a reservation that waits for it, a
recovery elsewhere. `GenerationLimit` stands for 2^64, where the projection's generation wraps (`fetch_add`), in the model as in the code.

### InventoryCoordinator (and InventoryFeed)

What a caller does under the state mutex (start
a list, join it, be refused in back-off), what the worker does between its awaits
(context, list, context, publication gate, completion), and the lease of a candidate. Docker's state is
its version, the number of changes so far; a snapshot carries the
version it was listed at, so that causality can be stated. `Connect` and `Disconnect` stand for
the gateway. `InventoryFeed` is the promise: versions never go back, a caller that changed
Docker is shown its change or an error.

Run `inventory`, two callers with changes of their own, a lease, two sessions, fair scheduling: `CausalRefresh`, `OneListServesAll`,
`FreshnessCoherent` (freshness, error and back-off agree, so the `expect` of the back-off holds), `SnapshotOfOneSession`,
`LeasesCurrent`, `LeaseHoldsPublication`, `EveryoneAnswered`, the refinement. The gate and the mutex behind it are taken in one step, so the
order of the two is not examined: both tasks take the gate first, and nothing awaits under the mutex.

Two callers are enough for one to find the other's list, older or newer
than its marker; a third only joins one of them (the proofs hold for any
number). Three observations are a list in flight, the marker of an action, and the list after it. `OrderLimit`, `GenerationLimit` and `FailureLimit` are limits of the code made small, so the runs also
reach exhaustion; `MaxVersion` and `MaxSession` bound the environment.

### RuntimeGateway (and RuntimeSession)

How each call decides under
the transition mutex (own, join, wait, cancel, take over, refuse), the owner's
way through the gate, `establish`, `finish_connect`, `finish_establish` and
`finish_transition` as separate steps, so that cancellations and takeovers arrive between any two of them. The gate is
a FIFO queue whose head has the permit. Compose operations pass through it;
lists and logs do not. The epoch is `Snapshot.generation`. `RuntimeSession` is what the gateway keeps to: one published state with its client, sessions
that never return, and what each caller may be told. A reconnect that registers its
takeover after `finish_connect` has looked for one is dropped with the transition and fails; the design promises it a connect of its own
(Findings, `gateway_lost`). `RuntimeSession` names that one answer apart (`Dropped`) and allows it only as `Disconnected` is published.

- `gateway`, three callers and an operation, fair scheduling: `OwnerRetained` (the `expect`s of the owner),
  `WaitersServed`, `CancelledNeverPublishes`, `DisconnectEffective`, `TransitionsEnd`, the refinement.
- `gateway_refused` and `gateway_lost` end in a violation; see Findings.

Three callers are a connect, the disconnect that cancels it and the
reconnect that takes it over. `EpochLimit` stops new calls and `MaxSession`
new sessions; a session is used once, so two tell a stale read from a current one.

### ProfileRegistry (and ProfileRegister)

Tasks of two instances create, update and remove profiles at the revision their window shows, create and restore the
backup, and import the old file. A writer holds the lock file from its first read to its last; its steps are the
read with what it computes, the rename, the fsync of the directory, the verification of what was written, the pruning. `visible` is
what a process reads at a path and `durable` the set of contents that a loss of power may leave there: a rename adds to
it, the fsync of the directory makes it a single one. Writes fail at every step, processes die, power is lost.

- `registry`, two instances and one fault: `AcknowledgedKept`, `RestoreReversible`, `LegacySavedFirst`, and the
  refinement: one register, each value the successor of the one it replaces.
- `registry_reused` ends in a violation; see Findings.

`RevisionLimit` is `u64::MAX` made small, so exhaustion is reached; `KeptArtifacts` is three in the code and one here, so that
pruning happens with two artifacts. A registration whose project is registered already, or whose evidence is stale, is an error and writes nothing. One fault at every point is what each property needs; a second one repeats it.

### DefinitionCache

The four critical sections of `access` and the awaits between them (guard, registry, `docker compose config`), the
commands that invalidate after their use case, changes by another instance, restores with and without the invalidation that
a failed pruning skips, the TTL. The content of a profile is the change that wrote it, a definition is the content it was made from.

Run `definitions`, two callers and two profiles, two changes and two calls: `AnswersCurrent`, `EntriesVersioned`. Two changes are what it takes for a
revision to name two contents (change, restore); two calls for one to store what the other finds, or for two profiles to share the identity.

### ProjectGroups, Candidates and DiscoverySession

The inventory groups containers by normalized labels (`Groups`), `classify_candidates` compares the groups with the
profiles (`Classify`), and the status of a profile looks for its group (`ProjectStatus`): three parts of the code that normalize
names and paths each by themselves. They are operators here, on paths as sequences of parts, with "." and "..", relative and blank ones.

`DiscoverySession` has an action for each critical section of `State` and each await around one: the scheduler receives
a publication (the broadcast loses the oldest when it is full), reads the profiles, observes; a listing does the same in three steps, and listings overlap, as the window has one query per generation
(`src/features/discovery/hooks.ts:37`); the shell
reads the session and hands it over in two; candidates are ignored, automatic registration is configured. A registration, by
the worker, the command or by hand, is claimed, leased on its evidence, checked again under the registry's lock, written,
completed. Around it the session ends and begins, the inventory publishes, profiles are created, changed and removed.

- `discovery`, two registrations, a listing, two sessions, two publications, three commands: `RegistersUnusedName`, `SessionIsolated`,
  `RegisteredOnEvidence`, `TriedOncePerGeneration`, and `ShownOnceRegistered`: what was registered is a project that its status then finds, alone and whole.
- `discovery_again`, one listing, ends in a violation; see Findings.

`RegistersUnusedName` is about the write of a registration: it appears under a name that no profile has, whatever was published and changed since it
was chosen. That two discovered profiles never share a name is not so: an update (`profiles.rs:188`) may give a profile another's name, and looks for none.

`TriedOncePerGeneration` does not say that every attempt is of a later generation than the one before, and that is not so. Of two listings the
older may observe last: `observe_inventory` compares its generation with nothing that is installed, and takes discovery back. A
schedule of the older generation, left because the newer listing had kept it from being cleared, is then claimed after that of the newer one.
Its registration is refused as stale, and marks the candidate as failed for good.

The lists have a project whose containers spell the same paths differently, the same name with another file, a second project, labels
without an absolute directory or a name, and a container without labels. Two publications make one newer than the other, two sessions an old one and a new one;
two registrations every race of two, and by symmetry there are no other roles. Listings that overlap are left to the proofs, which hold for any
number of them; only `ShownOnceRegistered` is checked with one alone.

### ComposeProcess

`execute` selects between the exit of the leader and the deadline, sends SIGTERM to the group, waits the grace period, sends SIGKILL if the child
still has an id, reaps, reads to the end of the pipe. Processes fork, leave the group, ignore SIGTERM, write and exit
meanwhile. Once the leader was waited for and the group is empty, the system may give its number to a stranger (`Reuse`), between any two steps;
a signal sent after that goes astray. `SignalsOwnGroup` says that none is, which rests on `child.id()` (`HasId`).

Run `processes`, two members, four bytes of which three are kept, fair scheduling: `SignalsOwnGroup`, `EscalationComplete`, `OutputComplete`,
`LeaderReaped`. Two members are one in the group and one that left it.

A leader that exits on SIGTERM within the grace period spares its group the SIGKILL (`child.id()` is then `None`, `process.rs:239`): a
member that ignores SIGTERM lives on, and while it holds the pipe `execute`, and the gate with it, waits beyond every deadline. The design
(`src/docs/design/2026-09-02-colui-increment-2-runtime-design.md:170`, `2026-09-01-colui-2-design.md:183`) has the process group killed. The model does what the code does: `EscalationComplete`
is about a leader that outlives the grace period, and nothing promises that `execute` returns.

### LogStream and RuntimeOperations

`LogStream` reads chunks of a raw or multiplexed stream into a bounded ring, with the header and the frame carried from chunk to chunk.

`RuntimeOperations` composes the promises: a container action, the logs, opening a port, and a lifecycle command, from the first check of the
session the window showed to the answer, while sessions begin and end, lists are started, read Docker, are published, late or not at all, and Docker changes.
Operations exclude each other as `OperationExclusion` says; a list behaves as `InventoryFeed`, a session as `RuntimeSession`, a Compose run
holds the gate and may fail after it changed Docker.

Run `operations`, two operations of any kind, two sessions, one change: `FreshShowsEffect`, `ClaimsHold`, `LogsWhole`. A header has two bytes and the ring keeps two, so
that every cut of a header, an empty frame, a truncated ring and a stream cut off by the transfer limit occur.

## Findings

- `gateway_refused`: `invoke_loaded_profile` reads the session state twice and expects the
  reads to agree; a connect that has left the gate can publish between them, and the
  `expect` panics (`gateway.rs:290`).
- `registry_reused`: a profile that was changed, removed and restored repeats a revision it had with another content, and
  an update made from the old content is accepted (`format.rs:541`); the design says revisions support optimistic concurrency.
- `discovery_again`: a completion that comes after a newer generation was installed is dropped (`discovery.rs:597`), and a project that was
  registered is claimed again in the same session, if it has been removed since or the profiles were read too early; the design says it is not rescheduled.
- `gateway_lost`: a reconnect that comes to a connect after `finish_connect` has looked for a takeover cancels it, is told an error, and makes no connect
  (`gateway.rs:684`, `749`); the design says it owns a fresh one (`src/docs/design/2026-09-04-colui-increment-5-discovery-design.md:205`).

Not a finding: the same design (line 254) admits standalone containers only to container actions, and `RunContainerAction` admits those of Compose projects
too (`containers.rs:360`). `src/docs/design/unified-resource-list.md:58` gives them the same actions, so the older sentence is taken as superseded; the models do not tell the two apart.

## Fairness

Only what the program does by itself is fair: tokio runs every task that can
run. No caller has to call, cancel, restart or change anything.

- Locks: a guard is dropped in the end, as the Compose calls under it have deadlines.
- Inventory: Docker answers a list or fails it. The code puts no timeout of its own
  around the list, so this is an assumption about the client (bollard is given 120 s).
- Gateway: what runs in the gate ends. The CLI calls have deadlines of 30 and 120
  seconds and the client a timeout of 120; that the group leaves the pipe is assumed (see ComposeProcess).
- Processes: timers fire, `wait` returns for a child that exited, and a process that was sent SIGKILL exits. Nobody has to
  exit by itself, and nobody has to close the pipe.

Weak fairness suffices: a waiting step is disabled for good only by the answer
it waits for, and the gate and the publication gate are FIFO.

Deadlock is checked where a system cannot stop (`locks`, `inventory`, `gateway*`, `registry*`); the other models have bounds that
end a behaviour, or, as a run of Compose, an end.

## Proofs

Each theorem holds for all values of the constants that satisfy the named assumptions of its model. A proof has a lemma per
action, and under it a step per conjunct of the invariant that the action touches.

**`OperationLocks_proofs`**: `TypeCorrect`, `FileOwnership`, `LeaseKeeping`, `NoWakeupLost`, `BarrierCounts`, `ProjectionGenerations`, `Refinement`. The
inductive invariant `IInv` is `TypeOK`, `StagesFit` (a task's stage fits its operation), `FileOwned` and `LeaseKept`. Who holds
a lease is read off stages, so `LeaseKept` needs `StagesFit`. Under `IInv`, `WakeupKept` and `BarrierExact` are inductive by themselves; the second
counts a set, which needs finitely many tasks (`ClientsAssumption`). `ProjectionVersioned` needs a generation of at least two values (`LimitAssumption`): with
one, a step of the counter changes nothing.

**`InventoryCoordinator_proofs`**: `TypeCorrect`, `SingleFlight`, `Causality`, `BoundedWait`, `SessionConsistency`, `Coherence`, `LeaseEvidence`,
`LeaseProtection`, `Refinement`. `CausalRefresh` is not inductive: that an eligible list shows the caller's change needs that a list
numbered after a marker has not read Docker before it (`ListAfterMark`), that the numbers of lists and markers only grow (`ListNotOld`,
`Behind`), and that a worker's evidence is of one session (`ListOfSession`). `BoundedWait` (no request waits for more than two lists) needs who
may still have to wait (`Entitled`, `Impatient`). `IInv` is their conjunction.

**`RuntimeGateway_proofs`**: `TypeCorrect`, `OwnerUnique`, `NobodyLeftWaiting`, `CancelledConnectPublishesNothing`, `DisconnectTakesEffect`,
`Refinement`. `OwnerRetained` and `WaitersServed` are about the transition that is there; the refinement, and the two action properties, are about what
comes of it, and need what each stage of a call stands for: an owner carries what its transition makes (`OwnerFits`), and that is a session
nobody has seen (`MadeFresh`); who joined asked for what the transition does (`JoinFits`), and was told nothing yet (`PendingFits`); the client belongs to the
published state except while a reconnect looks for another (`SnapshotFits`). The refinement maps every step to one of `RuntimeSession` or to a stutter; the answers that a
step gives are those of the callers whose transition ends in it.

**`ProfileRegistry_proofs`**: `TypeCorrect`, `AcknowledgedSurvives`, `RestoreCanBeUndone`, `ImportSavesFirst`, `Refinement`. The core is
`WritesFit`: who holds the lock replaces what is visible *now* by what it has computed from it, as a mutation, a restore or an import may. It needs
that whoever writes holds the lock (`TasksFit`), that what a loss of power brings back is what is visible or an older version (`FilesFit`), that a task
past its fsync has what it wrote durable (`SyncedFits`), that a restore and an import have saved what they replace (`SavedFits`), and that identifiers
are not generated twice (`IdsFit`). Assumed: the special contents of a file are told apart (`ContentsAssumption`), and at least one artifact is kept, as the
code keeps three; with none, a restore could prune its own. A loss of power drops a suffix of the artifacts that no fsync has
kept, which is the order in which their directory entries were made.

**`DefinitionCache_proofs`**: `AnswersAreCurrent`, `EntriesBelongToIdentity`, `EntriesAreVersioned`. `AnswersCurrent` says that an answer was made from what
the profile contained at some moment of the call. It needs that an entry was made from what the identity adopted last says of its
profile (`EntriesFit`), that the call has read what was there in its time (`HistoryFits`), that the guard of a profile is held
once (`CallsFit`), and `AdoptionFits`: the entry, or the epoch that a load noted, still stands only while nobody has adopted another identity.

**`DiscoverySession_proofs`**: `WritesUnusedName`, `EvidenceHolds`, `SessionsApart`, `OneAttempt`. `RegistersUnusedName` needs that a registration that was checked is
the only one, that the profiles have not changed since, and what a classification as new says of the names; `RegisteredOnEvidence` needs that a lease
keeps the inventory as it was leased. `OneAttempt` states `TriedOncePerGeneration`; its invariant `OInv` is that the scheduler receives generations in
order (`FeedOrdered`), that what was scheduled or claimed is older than what it has still to receive (`UsedBefore`), and that what is scheduled is
of its generation and was not claimed yet (`ScheduledFits`). Assumed: profiles made by hand are not of discovered origin (`DraftsAssumption`).

**`ComposeProcess_proofs`**: `SignalsStayInGroup`, `EscalationReachesGroup`, `OutputIsTail`, `RingIsTail`. `OutputComplete` is about the end of the output; the invariant is
that the ring always is the tail of what was read (`RingFits`), where execute is says what became of the leader (`LeaderFits`), and after a
return there is nobody left to write (`Closed`). `SignalsOwnGroup` needs that a number is not reused while the child has an id (`NumberFits`). Assumed: a read is shorter than the ring (`BufferAssumption`; 8 and 64 KiB in the code).

**`RuntimeOperations_proofs`**: `FreshnessIsCausal`, `ClaimsAreOfTheSession`. Both are about the step that answers; the invariant says of every task on its way
there what it holds: a list later than its marker, and what is published from it, shows its change (`EffectSeen`), and what it looked at
or shows is of the session that its window named, or of a later one (`ClaimFits`); and that sessions and lists come one after the other (`SessionsFit`).

## Only model-checked

- Liveness (`ReservationServed`, `RecoveryEnds`, `EveryoneAnswered`, `TransitionsEnd`, `LeaderReaped`): fairness and ENABLED are out of the prover's reach.
- `ShownOnceRegistered` and `LogsWhole`: both compare what folds compute, over the parts of a path and over the chunks of a stream, for which one would need
  induction over them.
- The findings: a violation is an example, and the run is it.

All the other properties that a run checks are stated by a theorem.

## Plan

Modelled, checked and proved: all of the above. Next:

1. The pure operators: what can be said without induction of `Groups`, `Classify` and `ProjectStatus` (a group's containers are a partition of those
   with labels; the classes of candidates exclude each other), as lemmas in `DiscoverySession_proofs`.
2. `ComposeProcess`, `DefinitionCache`: abstract specifications (a bounded tail of the output; a cache that is transparent), and their refinement.
3. `InventoryView`, what the window shows when answers of one generation arrive in any order, is to be modelled.

## Not modelled

- The window's caches (`src/features/*/`): their order of answers is the React Query client's, modelled only from its use; next in the plan.
- The numbering of events and the journals of the shell and of discovery: bounded logs that nothing in the program reads back.
- The history of failures that diagnostics shows (`RegistryHistory`), and the permissions of the registry's files.
- The priority of endpoints and the CLI's environment, argument and fingerprint strings, DTOs and schemas, the rest of the Docker adapter and of
  diagnostics, and the presentation: translation without state of its own.

Text, times and the characters of names are left out of every model;
what an operation returns is modelled as far as some caller tells two results apart.
