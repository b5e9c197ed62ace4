--------------------------- MODULE DiscoverySession ---------------------------
(***************************************************************************)
(* Discovery: DiscoverySession and its use cases, crates/colui-app/src/    *)
(* discovery.rs, the scheduler of crates/colui-adapters/src/inventory.rs   *)
(* that feeds it, and the shell, src-tauri/src/lib.rs and commands/        *)
(* discovery.rs, that drives them.                                         *)
(*                                                                         *)
(* `state` is the mutex-protected State: each critical section on it is    *)
(* one step.  Around it the inventory publishes, the gateway changes its   *)
(* session, other commands and other instances change the profiles, the    *)
(* window lists and ignores candidates, and registrations, of a worker, of *)
(* the auto_register_candidates command or by hand, go from lease to       *)
(* write.  An action reads or writes what one critical section or one      *)
(* await of the code does.                                                 *)
(*                                                                         *)
(* The journal is left out.  A session is the number of the connection; no *)
(* session, and no generation, is 0.                                       *)
(*                                                                         *)
(* SynchronizedKeeping, ScheduleKept, NoLeaseNeeded and                    *)
(* RegistrableOnce are faulty variants of the operators that               *)
(* follow them; no action uses them.                                       *)
(***************************************************************************)
EXTENDS Candidates

CONSTANTS Registrars,     \* tasks that register: the worker, commands
          Listers,        \* listings: the window asks for each generation by itself
          Drafts,         \* profiles that a user may create by hand or change one to
          FeedLimit,      \* the broadcast channel's capacity, 16, made small
          MaxSession,     \* bound: sessions of the gateway
          MaxGeneration,  \* bound: publications of the inventory
          MaxCommands     \* bound: commands of the windows

ASSUME DiscoveryAssumption == /\ {MaxSession, MaxGeneration, MaxCommands} \subseteq Nat
                              /\ FeedLimit \in Nat \ {0}
\* dto/profile.rs, into_domain.
ASSUME DraftsAssumption == \A draft \in Drafts : draft.origin = "Manual"

VARIABLES
    session,    \* the gateway's session
    sessions,   \* sessions so far
    inventory,  \* what the inventory has published
    oldest,     \* the oldest session that the next publication may be of
    feed,       \* publications that the scheduler has not received
    profiles,   \* the registry
    state,      \* State
    scheduler,  \* what the scheduler has read
    lister,     \* what each listing has read
    shell,      \* the session that a command of the shell has read
    registrar,  \* what each registration does
    commands,   \* commands of the windows so far
    attempted,  \* history: the keys that were claimed, each with its generation
    succeeded   \* history: keys that were registered automatically

outside == <<session, sessions, inventory, oldest, feed>>
history == <<attempted, succeeded>>
vars == <<outside, profiles, state, scheduler, lister, shell, registrar, commands, history>>

-----------------------------------------------------------------------------
(* Data.                                                                   *)

Empty == [k \in {} |-> None]
Inventory(s, generation, list) == [session |-> s, generation |-> generation, list |-> list]
NoInventory == Inventory(0, 0, 0)
Idle == [stage |-> "idle", inventory |-> NoInventory, profiles |-> <<>>]

\* AutoKey: metadata_hash is of the files.
Key(c) == <<Id(c), c.files>>
\* AutoState.
Pending == [status |-> "Pending", next |-> 0]
Status(outcome, generation) ==
    [status |-> outcome, next |-> IF outcome = "RetryableFailure" THEN generation + 1 ELSE 0]

\* A registration: the candidates still to do, and the one it is at.
NoRegistration ==
    [stage |-> "idle", automatic |-> FALSE, schedule |-> <<0, 0>>, todo |-> {},
     candidate |-> None, inventory |-> NoInventory, outcome |-> "none"]

\* session_validator and api_session_validator: a session is valid until it ends.
Valid(s) == s # 0 /\ session = s

Init ==
    /\ session = 0 /\ sessions = 0
    /\ inventory = NoInventory /\ oldest = 0
    /\ feed = <<>>
    /\ profiles = <<>>
    /\ state = [active |-> 0, generation |-> 0, candidates |-> {}, ignored |-> {},
                enabled |-> FALSE, last |-> 0, scheduled |-> Empty, auto |-> Empty]
    /\ scheduler = Idle /\ lister = [l \in Listers |-> Idle]
    /\ shell = None
    /\ registrar = [r \in Registrars |-> NoRegistration]
    /\ commands = 0
    /\ attempted = {} /\ succeeded = {}

-----------------------------------------------------------------------------
(* The gateway, the inventory and the registry.                            *)

\* A window, or another instance's, asks for something.
Command == commands < MaxCommands /\ commands' = commands + 1

StartSession ==
    /\ session = 0 /\ sessions < MaxSession
    /\ sessions' = sessions + 1
    /\ session' = sessions'
    /\ UNCHANGED <<inventory, oldest, feed, profiles, state, scheduler, lister, shell, registrar, commands, history>>

EndSession ==
    /\ session # 0
    /\ session' = 0
    /\ UNCHANGED <<sessions, inventory, oldest, feed, profiles, state, scheduler, lister, shell,
                   registrar, commands, history>>

\* A candidate lease holds the publication gate for reading; it ends with the closure
\* that the registry runs (discovery.rs:147).
NoLeaseNeeded == TRUE
NoLease == \A r \in Registrars : registrar[r].stage # "leased"

(***************************************************************************)
(* A list captures its session after the last publication.  A slow         *)
(* receiver loses the oldest publication.                                  *)
(***************************************************************************)
Publish(s, list) ==
    /\ NoLease
    /\ inventory.generation < MaxGeneration
    /\ s \in 1..sessions /\ s >= oldest
    /\ inventory' = Inventory(s, inventory.generation + 1, list)
    /\ oldest' = IF session = 0 THEN sessions + 1 ELSE session
    /\ LET all == Append(feed, inventory')
       IN  feed' = IF Len(all) > FeedLimit THEN Tail(all) ELSE all
    /\ UNCHANGED <<session, sessions, profiles, state, scheduler, lister, shell, registrar, commands, history>>

\* The registry is locked from the check of a registration to its write.
Unlocked == \A r \in Registrars : registrar[r].stage # "checked"

Change(next) ==
    /\ Unlocked /\ Command
    /\ profiles' = next
    /\ UNCHANGED <<outside, state, scheduler, lister, shell, registrar, history>>

\* A patch changes some fields of a profile, and never its origin.
Fields == {"name", "directory", "files"}
Patched(profile, draft, fields) ==
    [f \in DOMAIN profile |-> IF f \in fields THEN draft[f] ELSE profile[f]]

CreateProfile(draft) == Change(Append(profiles, draft))
UpdateProfile(i, draft, fields) ==
    Change([profiles EXCEPT ![i] = Patched(profiles[i], draft, fields)])
RemoveProfile(i) == Change(RemoveAt(profiles, i))

-----------------------------------------------------------------------------
(* The critical sections of DiscoverySession.                              *)

Cleared(st) ==
    [st EXCEPT !.active = 0, !.generation = 0, !.candidates = {}, !.ignored = {},
               !.auto = Empty, !.scheduled = Empty, !.last = 0]

SynchronizedKeeping(st, s) == [st EXCEPT !.active = s]
Synchronized(st, s) == IF st.active = s THEN st ELSE [Cleared(st) EXCEPT !.active = s]

Without(f, K) == [k \in DOMAIN f \ K |-> f[k]]
With(f, K, value) == [k \in DOMAIN f \cup K |-> IF k \in K THEN value ELSE f[k]]
NotPending(auto) == Without(auto, {k \in DOMAIN auto : auto[k].status = "Pending"})

\* The classified candidates, with the ignored ones marked.
Observed(st, inv, known) ==
    {[c EXCEPT !.ignored = Id(c) \in st.ignored] : c \in Classify(inv, known)}
Installed(st, inv, known) ==
    [st EXCEPT !.generation = inv.generation, !.candidates = Observed(st, inv, known)]

\* auto_key_schedulable.
Schedulable(st, c) ==
    \/ Key(c) \notin DOMAIN st.auto
    \/ st.auto[Key(c)].status = "RetryableFailure" /\ st.auto[Key(c)].next <= c.generation

\* What is scheduled of an installed observation.
Chosen(st) ==
    {c \in st.candidates : c.class = "NewUnambiguous" /\ ~c.ignored /\ Schedulable(st, c)}

\* observe_successful_publication, while the session is valid.
Published(inv, known) ==
    LET synced == Synchronized(state, inv.session)
        fresh == IF synced.generation = 0 \/ synced.generation >= inv.generation THEN synced
                 ELSE [synced EXCEPT !.auto = NotPending(@), !.scheduled = Empty]
        next == [Installed(fresh, inv, known) EXCEPT !.last = inv.generation]
    IN  IF ~synced.enabled \/ synced.last >= inv.generation THEN synced
        ELSE IF Chosen(next) = {} THEN next
        ELSE [next EXCEPT !.scheduled = With(@, {<<inv.session, inv.generation>>}, Chosen(next))]

-----------------------------------------------------------------------------
(* The scheduler of the inventory and ScheduleAutoRegistration.            *)

Receive ==
    /\ scheduler.stage = "idle" /\ feed # <<>>
    /\ feed' = Tail(feed)
    /\ UNCHANGED <<session, sessions, inventory, oldest, profiles, state, lister, shell, registrar, commands, history>>

\* The publication's session is valid, and the profiles are read.
TakePublication ==
    /\ Receive
    /\ Valid(Head(feed).session)
    /\ scheduler' = [stage |-> "loaded", inventory |-> Head(feed), profiles |-> profiles]

\* It is not, or the registry cannot be read.
SkipPublication ==
    /\ Receive
    /\ UNCHANGED scheduler

ObserveSuccessfulPublication ==
    /\ scheduler.stage = "loaded"
    /\ state' = IF Valid(scheduler.inventory.session)
                THEN Published(scheduler.inventory, scheduler.profiles) ELSE state
    /\ scheduler' = Idle
    /\ UNCHANGED <<outside, profiles, lister, shell, registrar, commands, history>>

-----------------------------------------------------------------------------
(* ListDiscoveryCandidates, IgnoreCandidate, ConfigureAutoRegistration.    *)

\* current_inventory of DiscoveryInventory answers for the session that is there only.
ListInventory(l) ==
    /\ lister[l].stage = "idle" /\ Command
    /\ Valid(inventory.session)
    /\ lister' = [lister EXCEPT ![l] = [Idle EXCEPT !.stage = "read", !.inventory = inventory]]
    /\ UNCHANGED <<outside, profiles, state, scheduler, shell, registrar, history>>

ListProfiles(l) ==
    /\ lister[l].stage = "read"
    /\ lister' = [lister EXCEPT ![l].stage = "loaded", ![l].profiles = profiles]
    /\ UNCHANGED <<outside, profiles, state, scheduler, shell, registrar, commands, history>>

\* observe_inventory: it does not look at the generation that is installed.
ObserveInventory(l) ==
    /\ lister[l].stage = "loaded"
    /\ LET inv == lister[l].inventory
       IN  state' = IF Valid(inv.session)
                    THEN Installed(Synchronized(state, inv.session), inv, lister[l].profiles)
                    ELSE state
    /\ lister' = [lister EXCEPT ![l] = Idle]
    /\ UNCHANGED <<outside, profiles, scheduler, shell, registrar, commands, history>>

IgnoreCandidate(c) ==
    /\ Id(c) \notin state.ignored /\ Command
    /\ state' = [state EXCEPT
                   !.ignored = @ \cup {Id(c)},
                   !.candidates = {IF Id(d) = Id(c) THEN [d EXCEPT !.ignored = TRUE] ELSE d :
                                     d \in @}]
    /\ UNCHANGED <<outside, profiles, scheduler, lister, shell, registrar, history>>

EnableAutoRegistration ==
    /\ ~state.enabled /\ Command
    /\ state' = [state EXCEPT !.enabled = TRUE]
    /\ UNCHANGED <<outside, profiles, scheduler, lister, shell, registrar, history>>

DisableAutoRegistration ==
    /\ state.enabled /\ Command
    /\ state' = [state EXCEPT !.enabled = FALSE, !.auto = NotPending(@), !.scheduled = Empty]
    /\ UNCHANGED <<outside, profiles, scheduler, lister, shell, registrar, history>>

-----------------------------------------------------------------------------
(* The shell: after a connect, a disconnect or a reconnect it reads the    *)
(* session, and then tells discovery.                                      *)

ReadSession ==
    /\ shell = None /\ Command
    /\ shell' = session
    /\ UNCHANGED <<outside, profiles, state, scheduler, lister, registrar, history>>

ObserveRuntimeSession ==
    /\ shell # None
    /\ state' = IF shell = 0 THEN Cleared(state) ELSE Synchronized(state, shell)
    /\ shell' = None
    /\ UNCHANGED <<outside, profiles, scheduler, lister, registrar, commands, history>>

-----------------------------------------------------------------------------
(* AutoRegisterCandidates and RegisterCandidate.                           *)

ScheduleKept(k) == state.scheduled
ScheduleTaken(k) == Without(state.scheduled, {k})

\* claim_schedule, by the worker or by the auto_register_candidates command.
ClaimSchedule(r, k) ==
    /\ registrar[r].stage = "idle"
    /\ state.enabled /\ <<state.active, state.generation>> = k
    /\ LET keys == {Key(c) : c \in state.scheduled[k]}
       IN  /\ state' = [state EXCEPT !.scheduled = ScheduleTaken(k),
                                     !.auto = With(@, keys, Pending)]
           /\ attempted' = attempted \cup (keys \X {k[2]})
    /\ registrar' = [registrar EXCEPT ![r] =
                       [NoRegistration EXCEPT !.stage = "claimed", !.automatic = TRUE,
                                              !.schedule = k, !.todo = state.scheduled[k]]]
    /\ UNCHANGED <<outside, profiles, scheduler, lister, shell, commands, succeeded>>

At(r, stage) == registrar[r].stage = stage
Become(r, next) == registrar' = [registrar EXCEPT ![r] = next]

RegistersOnly == UNCHANGED <<outside, profiles, state, scheduler, lister, shell, commands, history>>

NextCandidate(r, c) ==
    /\ At(r, "claimed") /\ state.enabled
    /\ Become(r, [registrar[r] EXCEPT !.stage = "requested", !.candidate = c, !.todo = @ \ {c}])
    /\ RegistersOnly

\* All done, or disabled in between.
EndSchedule(r) ==
    /\ At(r, "claimed")
    /\ registrar[r].todo = {} \/ ~state.enabled
    /\ Become(r, NoRegistration)
    /\ RegistersOnly

\* The window asks for a candidate it was shown.
RequestRegistration(r, c) ==
    /\ At(r, "idle") /\ Command
    /\ Become(r, [NoRegistration EXCEPT !.stage = "requested", !.candidate = c])
    /\ UNCHANGED <<outside, profiles, state, scheduler, lister, shell, history>>

\* The candidate of inv that a request names, and says the same of.
Matches(inv, known, c) ==
    {d \in Classify(inv, known) : Id(d) = Id(c) /\ d.files = c.files}

\* require_registrable_candidate.
RegistrableOnce(inv, known, c) ==
    /\ inv.session = c.session /\ inv.generation = c.generation
    /\ \E d \in Matches(inv, <<>>, c) : d.class = "NewUnambiguous"
Registrable(inv, known, c) ==
    /\ inv.session = c.session /\ inv.generation = c.generation
    /\ \E d \in Matches(inv, known, c) : d.class = "NewUnambiguous"

\* A registration by hand answers the window; an automatic one is to be completed.
Outcome(r, outcome) ==
    Become(r, IF registrar[r].automatic
              THEN [registrar[r] EXCEPT !.stage = "done", !.outcome = outcome,
                                        !.inventory = NoInventory]
              ELSE NoRegistration)

\* The lease is granted on the candidate's session and generation, and what it protects
\* is registrable.
LeaseCandidate(r) ==
    /\ At(r, "requested")
    /\ Valid(registrar[r].candidate.session)
    /\ Registrable(inventory, <<>>, registrar[r].candidate)
    /\ Become(r, [registrar[r] EXCEPT !.stage = "leased", !.inventory = inventory])
    /\ RegistersOnly

\* candidate_stale and discovery_conflict.
RefuseCandidate(r) ==
    /\ At(r, "requested")
    /\ \/ ~Valid(registrar[r].candidate.session)
       \/ ~Registrable(inventory, <<>>, registrar[r].candidate)
    /\ Outcome(r, "TerminalFailure")
    /\ RegistersOnly

Writable(r) ==
    /\ Valid(registrar[r].candidate.session)
    /\ Registrable(registrar[r].inventory, profiles, registrar[r].candidate)

\* The mutation reads the registry under its lock, and checks again.
CheckCandidate(r) ==
    /\ At(r, "leased") /\ Unlocked
    /\ Writable(r)
    /\ Become(r, [registrar[r] EXCEPT !.stage = "checked", !.inventory = NoInventory])
    /\ RegistersOnly

RejectCandidate(r) ==
    /\ At(r, "leased") /\ Unlocked
    /\ ~Writable(r)
    /\ Outcome(r, "TerminalFailure")
    /\ RegistersOnly

\* The mutation guard is refused, or the registry is locked, unreadable or corrupt.
RegistryFails(r, outcome) ==
    /\ At(r, "leased")
    /\ outcome \in {"TerminalFailure", "RetryableFailure"}
    /\ Outcome(r, outcome)
    /\ RegistersOnly

\* ProjectProfile::from_draft of the draft that the candidate makes.
Discovered(c) ==
    [name |-> c.name, directory |-> [absolute |-> TRUE, parts |-> c.directory],
     files |-> [i \in DOMAIN c.files |-> [absolute |-> TRUE, parts |-> c.files[i]]],
     origin |-> "Discovered"]

WriteProfile(r) ==
    /\ profiles' = Append(profiles, Discovered(registrar[r].candidate))
    /\ UNCHANGED <<outside, state, scheduler, lister, shell, commands, attempted>>

RegisterSucceeds(r) ==
    /\ At(r, "checked")
    /\ WriteProfile(r)
    /\ succeeded' = IF registrar[r].automatic
                    THEN succeeded \cup {Key(registrar[r].candidate)} ELSE succeeded
    /\ Outcome(r, "Succeeded")

\* The write fails before the file is replaced, or, synchronizing the directory, after it.
RegisterFails(r) ==
    /\ At(r, "checked")
    /\ \/ WriteProfile(r) /\ UNCHANGED succeeded
       \/ RegistersOnly
    /\ Outcome(r, "RetryableFailure")

\* complete_auto_candidate drops what is late.
Completed(st, k, c, outcome) ==
    IF /\ <<st.active, st.generation>> = k
       /\ Key(c) \in DOMAIN st.auto /\ st.auto[Key(c)] = Pending
    THEN [st EXCEPT !.auto[Key(c)] = Status(outcome, k[2])] ELSE st

CompleteAutoCandidate(r) ==
    /\ At(r, "done")
    /\ state' = Completed(state, registrar[r].schedule, registrar[r].candidate,
                          registrar[r].outcome)
    /\ Become(r, [registrar[r] EXCEPT !.stage = "claimed", !.candidate = None,
                                      !.outcome = "none"])
    /\ UNCHANGED <<outside, profiles, scheduler, lister, shell, commands, history>>

-----------------------------------------------------------------------------
Environment ==
    \/ StartSession \/ EndSession
    \/ \E s \in 1..MaxSession, list \in DOMAIN Evidence : Publish(s, list)
    \/ \E draft \in Drafts : CreateProfile(draft)
    \/ \E i \in DOMAIN profiles :
          \/ RemoveProfile(i)
          \/ \E draft \in Drafts, fields \in SUBSET Fields : UpdateProfile(i, draft, fields)

Session ==
    \/ TakePublication \/ SkipPublication \/ ObserveSuccessfulPublication
    \/ \E l \in Listers : ListInventory(l) \/ ListProfiles(l) \/ ObserveInventory(l)
    \/ \E c \in state.candidates : IgnoreCandidate(c)
    \/ EnableAutoRegistration \/ DisableAutoRegistration
    \/ ReadSession \/ ObserveRuntimeSession

Registration(r) ==
    \/ \E k \in DOMAIN state.scheduled : ClaimSchedule(r, k)
    \/ \E c \in registrar[r].todo : NextCandidate(r, c)
    \/ \E c \in state.candidates : RequestRegistration(r, c)
    \/ EndSchedule(r)
    \/ LeaseCandidate(r) \/ RefuseCandidate(r)
    \/ CheckCandidate(r) \/ RejectCandidate(r)
    \/ \E outcome \in {"TerminalFailure", "RetryableFailure"} : RegistryFails(r, outcome)
    \/ RegisterSucceeds(r) \/ RegisterFails(r)
    \/ CompleteAutoCandidate(r)

Next == Environment \/ Session \/ \E r \in Registrars : Registration(r)

Spec == Init /\ [][Next]_vars

-----------------------------------------------------------------------------
(* Properties.                                                             *)

\* A registration writes its profile only under a name that no profile has by then,
\* whatever was registered, created or renamed since the candidate was listed, leased
\* and checked.  Two profiles may well come to share a name afterwards: a user may
\* rename one, or create another, as he likes.
RegistersUnusedName ==
    [][\A i \in DOMAIN profiles' \ DOMAIN profiles :
          profiles'[i].origin = "Discovered" =>
          \A j \in DOMAIN profiles : profiles[j].name # profiles'[i].name]_vars

\* A registration passes its check under the registry's lock only if what the inventory
\* publishes then, and not only when the candidate was listed, shows one new project of
\* the session that is connected: no publication overtakes a lease.
RegisteredOnEvidence ==
    [][\A r \in Registrars :
          (registrar[r].stage = "leased" /\ registrar'[r].stage = "checked") =>
          /\ session = inventory.session
          /\ \E d \in Classify(inventory, profiles) :
                /\ Key(d) = Key(registrar[r].candidate)
                /\ d.class = "NewUnambiguous"]_vars

\* Once a project is registered its status is about its containers: what the registration
\* was decided on shows, for the profile it is about to write, without a doubt all
\* containers of the project's name and no others.  Discovery, the inventory and the
\* status tell projects apart by three separate computations.
ShownOnceRegistered ==
    [][\A r \in Registrars :
          (registrar[r].stage = "leased" /\ registrar'[r].stage = "checked") =>
          LET profile == Discovered(registrar[r].candidate)
              status == ProjectStatus(profile, Append(profiles, profile), inventory)
          IN  /\ ~status.ambiguous
              /\ status.state[1] = "Present"
              /\ status.containers =
                    {x.id : x \in {y \in Containers(inventory) :
                                     y.labels # None /\ y.labels.name.text = profile.name}}]_vars

\* Automatic registration tries a candidate at most once in a generation, however the
\* scheduler, the worker and the commands race, publications get lost, and listings and
\* the shell take discovery back to what was before: no loop without a new generation.
TriedOncePerGeneration ==
    [][\A r \in Registrars :
          (registrar[r].stage = "idle" /\ registrar'[r].stage = "claimed") =>
          \A c \in registrar'[r].todo : <<Key(c), c.generation>> \notin attempted]_vars

\* Nothing that discovery keeps outlives the session it is about: what it shows, has
\* scheduled, has ignored and has registered belongs to the active session, however late
\* a listing, a publication, a completion or the shell is.
SessionIsolated ==
    /\ \A c \in state.candidates : c.session = state.active
    /\ \A id \in state.ignored : id[1] = state.active
    /\ \A k \in DOMAIN state.auto : k[1][1] = state.active
    /\ \A k \in DOMAIN state.scheduled :
          k[1] = state.active /\ \A c \in state.scheduled[k] : c.session = state.active

\* "Succeeded and terminal failures are not rescheduled for equal metadata in that
\* session": what automatic registration has registered it does not claim again, even
\* after the user has removed the profile.
SucceededNotRescheduled ==
    [][\A r \in Registrars :
          (registrar[r].stage = "idle" /\ registrar'[r].stage = "claimed") =>
          \A c \in registrar'[r].todo : Key(c) \notin succeeded]_vars
=============================================================================
