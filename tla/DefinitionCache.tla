---------------------------- MODULE DefinitionCache ----------------------------
(***************************************************************************)
(* DefinitionCache, crates/colui-adapters/src/definitions.rs, with the     *)
(* commands that invalidate it (src-tauri/src/commands/profiles.rs and     *)
(* RestoreRegistryBackup).                                                 *)
(*                                                                         *)
(* A call of `access` takes the definition guard of its profile, reads the *)
(* registry, compares its identity with the one the cache was filled       *)
(* under, and serves a young entry of the profile's revision or runs       *)
(* `docker compose config`.  It locks the state four times; between them   *)
(* profiles are changed, by this instance, which then invalidates the      *)
(* profile, or by another one, which does not.  A restore excludes all     *)
(* guards, but not the calls that come after it.                           *)
(*                                                                         *)
(* The content of a profile is the number of the change that wrote it, and *)
(* a definition is the content it was made from.  The two halves of the    *)
(* identity, the revision and the digest of the bytes, are the registry's  *)
(* value itself.                                                           *)
(*                                                                         *)
(* AdoptRevisionOnly and ForgetSilently are faulty variants of the         *)
(* operators that follow them; no action uses them.                        *)
(***************************************************************************)
EXTENDS Naturals

CONSTANTS Callers, Profiles, None,
          TTL,               \* 60 seconds
          GenerationLimit,   \* 2^64, made small: wrapping_add
          MaxChanges,        \* bound: changes of the registry
          MaxCalls,          \* bound: calls of access
          MaxClock           \* bound: the monotonic clock

ASSUME LimitsAssumption == /\ {TTL, MaxChanges, MaxCalls, MaxClock} \subseteq Nat
                           /\ GenerationLimit \in Nat \ {0, 1}

VARIABLES
    profiles,     \* the registry: revision and content of each profile
    revision,     \* registry_revision: one more than the changes so far
    clock,
    entries, epoch, revisions, generation, identity,    \* State
    call,         \* what each caller of access does
    since,        \* history: the contents its profile had since it began
    outdated,     \* history: some answer was outdated
    invalidations,\* profiles whose invalidation a command is about to make
    restoring,    \* a restore has replaced the registry and holds its guard
    calls         \* calls of access so far

registry == <<profiles, revision>>
cache == <<entries, epoch, revisions, generation, identity>>
vars == <<registry, clock, cache, call, since, outdated, invalidations, restoring, calls>>

-----------------------------------------------------------------------------
(* Data.                                                                   *)

Stored(r, content) == [revision |-> r, content |-> content]
Absent == Stored(0, 0)
Present(p) == profiles[p] # Absent

\* CachedDefinition.
Entry(p, at, state) ==
    [revision |-> p.revision, content |-> p.content, loaded |-> at, state |-> state]
NoEntry == Entry(Absent, 0, "unchecked")

\* registry_identity: the registry it was read from.
Identity == [profiles |-> profiles, revision |-> revision]
NoIdentity == [profiles |-> [p \in Profiles |-> Absent], revision |-> 0]

(***************************************************************************)
(* A call: its stage, profile, `now`, and what it has read.  It holds its  *)
(* definition guard in the stages between "guarded" and "loaded".          *)
(***************************************************************************)
Call(stage, p, force, now) ==
    [stage |-> stage, profile |-> p, force |-> force, now |-> now,
     read |-> NoIdentity, epoch |-> 0, result |-> "none", at |-> 0]
Guarded(c) == call[c].stage \in {"guarded", "read", "adopted", "missed", "loading", "loaded"}
Profile(c) == call[c].read.profiles[call[c].profile]

NoCall == Call("idle", None, FALSE, 0)

\* An answer is outdated if it is shown as current, and was made from a content
\* that its profile did not have during the call.
Outdated(c, entry) == entry.state = "checked" /\ entry.content \notin since[c]

\* The call is over.
Answer(c, entry) ==
    /\ call' = [call EXCEPT ![c] = NoCall]
    /\ since' = [since EXCEPT ![c] = {}]
    /\ outdated' = (outdated \/ Outdated(c, entry))

\* retained: an entry shown as stale, or nothing.
Retained(entry) == IF entry = NoEntry THEN NoEntry ELSE [entry EXCEPT !.state = "stale"]

Wrap(n) == (n + 1) % GenerationLimit

Init ==
    /\ profiles = [p \in Profiles |-> Stored(2, 2)]
    /\ revision = 2
    /\ clock = 0
    /\ entries = [p \in Profiles |-> NoEntry]
    /\ epoch = [p \in Profiles |-> 0]
    /\ revisions = [p \in Profiles |-> 0]
    /\ generation = 0
    /\ identity = NoIdentity
    /\ call = [c \in Callers |-> NoCall]
    /\ since = [c \in Callers |-> {}]
    /\ invalidations = {}
    /\ restoring = FALSE
    /\ outdated = FALSE
    /\ calls = 0

-----------------------------------------------------------------------------
(* The registry and its commands.                                          *)

\* The registry's next value, and what it adds to the histories.
Change(next) ==
    /\ revision < 2 + MaxChanges
    /\ profiles' = next
    /\ revision' = revision + 1
    /\ since' = [c \in Callers |->
                   IF call[c] = NoCall THEN {}
                   ELSE since[c] \cup {next[call[c].profile].content}]
    /\ UNCHANGED <<clock, cache, call, outdated, calls>>

\* update_profile and remove_profile, up to the end of the use case.  The
\* mutation guard is shared with the definition guards.
Mutate(p, next) ==
    /\ ~restoring /\ Present(p)
    /\ Change([profiles EXCEPT ![p] = next])
    /\ UNCHANGED restoring

UpdateProfile(p) ==
    /\ Mutate(p, Stored(profiles[p].revision + 1, revision + 1))
    /\ invalidations' = invalidations \cup {p}

RemoveProfile(p) ==
    /\ Mutate(p, Absent)
    /\ invalidations' = invalidations \cup {p}

\* Another instance does the same: nobody invalidates this cache.
UpdateElsewhere(p) ==
    /\ Mutate(p, Stored(profiles[p].revision + 1, revision + 1))
    /\ UNCHANGED invalidations

\* The backup has every profile as it was before Init, at its revision 1 and with
\* content 1 (ProfileRegistry's Restored).
Restore ==
    /\ ~restoring /\ ~\E c \in Callers : Guarded(c)
    /\ Change([p \in Profiles |->
                 Stored((IF profiles[p].revision > 1 THEN profiles[p].revision ELSE 1) + 1, 1)])
    /\ restoring' = TRUE
    /\ UNCHANGED invalidations

\* epoch.values_mut: only profiles that were invalidated once have an epoch.
BumpAll == epoch' = [p \in Profiles |-> IF epoch[p] = 0 THEN 0 ELSE epoch[p] + 1]

\* invalidate_all runs before the guard is given back, unless the restore
\* reported an error (artifacts that could not be pruned) or was another instance's.
InvalidateAll ==
    /\ restoring /\ restoring' = FALSE
    /\ BumpAll
    /\ entries' = [p \in Profiles |-> NoEntry]
    /\ revisions' = [p \in Profiles |-> 0]
    /\ generation' = Wrap(generation)
    /\ UNCHANGED <<registry, clock, identity, call, since, outdated, invalidations, calls>>

RestoreUnseen ==
    /\ restoring /\ restoring' = FALSE
    /\ UNCHANGED <<registry, clock, cache, call, since, outdated, invalidations, calls>>

\* A mutant of Invalidate: the entry goes under an unchanged generation.
ForgetSilently(p) ==
    /\ p \in invalidations
    /\ invalidations' = invalidations \ {p}
    /\ epoch' = [epoch EXCEPT ![p] = @ + 1]
    /\ entries' = [entries EXCEPT ![p] = NoEntry]
    /\ UNCHANGED <<registry, clock, revisions, generation, identity, call, since, outdated, restoring, calls>>

\* invalidate, once the command's use case is over.
Invalidate(p) ==
    /\ p \in invalidations
    /\ invalidations' = invalidations \ {p}
    /\ epoch' = [epoch EXCEPT ![p] = @ + 1]
    /\ entries' = [entries EXCEPT ![p] = NoEntry]
    /\ generation' = IF entries[p] # NoEntry THEN Wrap(generation) ELSE generation
    /\ UNCHANGED <<registry, clock, revisions, identity, call, since, outdated, restoring, calls>>

Tick ==
    /\ clock < MaxClock
    /\ clock' = clock + 1
    /\ UNCHANGED <<registry, cache, call, since, outdated, invalidations, restoring, calls>>

-----------------------------------------------------------------------------
(* access.                                                                 *)

environment == <<registry, clock, invalidations, restoring, calls>>
history == <<since, outdated>>

\* acquire_definition, refused while the profile has another load and during
\* recovery.
Busy(p) == restoring \/ \E d \in Callers : Guarded(d) /\ call[d].profile = p

Acquire(c, p, force) ==
    /\ call[c] = NoCall /\ ~Busy(p)
    /\ calls < MaxCalls /\ calls' = calls + 1
    /\ call' = [call EXCEPT ![c] = Call("guarded", p, force, clock)]
    /\ since' = [since EXCEPT ![c] = {profiles[p].content}]
    /\ UNCHANGED <<registry, clock, cache, outdated, invalidations, restoring>>

\* A lifecycle operation that is pending (OperationLocks) refuses it at any time.
\* The entry that was there is shown as stale.
AcquireBusy(c, p) ==
    /\ call[c] = NoCall
    /\ Answer(c, Retained(entries[p]))
    /\ UNCHANGED <<environment, cache>>

\* load_canonical; a profile that is gone, or a read that fails, is an error.
LoadCanonical(c) ==
    /\ call[c].stage = "guarded" /\ Present(call[c].profile)
    /\ call' = [call EXCEPT ![c].stage = "read", ![c].read = Identity]
    /\ UNCHANGED <<environment, history, cache>>

LoadCanonicalFails(c) ==
    /\ call[c].stage = "guarded"
    /\ Answer(c, NoEntry)
    /\ UNCHANGED <<environment, cache>>

\* A mutant of Adopt: it compares the registry's revision of the profile only.
AdoptRevisionOnly(c) ==
    /\ call[c].stage = "read"
    /\ identity' = call[c].read
    /\ revisions' = [revisions EXCEPT ![call[c].profile] = Profile(c).revision]
    /\ call' = [call EXCEPT ![c].stage = "adopted"]
    /\ UNCHANGED <<environment, history, entries, epoch, generation>>

\* Another identity empties the cache; the profile's revision is noted.
Adopt(c) ==
    /\ call[c].stage = "read"
    /\ IF identity = call[c].read
       THEN /\ revisions' = [revisions EXCEPT ![call[c].profile] = Profile(c).revision]
            /\ UNCHANGED <<entries, epoch, generation>>
       ELSE /\ revisions' = [p \in Profiles |->
                               IF p = call[c].profile THEN Profile(c).revision ELSE 0]
            /\ entries' = [p \in Profiles |-> NoEntry]
            /\ BumpAll
            /\ generation' = Wrap(generation)
    /\ identity' = call[c].read
    /\ call' = [call EXCEPT ![c].stage = "adopted"]
    /\ UNCHANGED <<environment, history>>

\* A young entry of the profile's revision is served.
Hit(c) ==
    LET entry == entries[call[c].profile] IN
    /\ ~call[c].force /\ entry # NoEntry
    /\ entry.revision = Profile(c).revision
    /\ call[c].now < entry.loaded + TTL

Serve(c) ==
    /\ call[c].stage = "adopted" /\ Hit(c)
    /\ Answer(c, entries[call[c].profile])
    /\ UNCHANGED <<environment, cache>>

Miss(c) ==
    /\ call[c].stage = "adopted" /\ ~Hit(c)
    /\ call' = [call EXCEPT ![c].stage = "missed"]
    /\ UNCHANGED <<environment, history, cache>>

\* The epoch of the load is read on its own.
ReadEpoch(c) ==
    /\ call[c].stage = "missed"
    /\ call' = [call EXCEPT ![c].stage = "loading", ![c].epoch = epoch[call[c].profile]]
    /\ UNCHANGED <<environment, history, cache>>

\* load: a definition, valid or invalid (no JSON), or an error (no session, a timeout,
\* an exit code).
Load(c) ==
    /\ call[c].stage = "loading"
    /\ \E result \in {"checked", "error"} :
          call' = [call EXCEPT ![c].stage = "loaded", ![c].result = result, ![c].at = clock]
    /\ UNCHANGED <<environment, history, cache>>

\* Neither the epoch nor the noted revision has moved.
Undisturbed(c) ==
    /\ epoch[call[c].profile] = call[c].epoch
    /\ revisions[call[c].profile] = Profile(c).revision

Install(c) ==
    LET entry == Entry(Profile(c), call[c].at, call[c].result) IN
    /\ call[c].stage = "loaded" /\ Undisturbed(c) /\ call[c].result # "error"
    /\ entries' = [entries EXCEPT ![call[c].profile] = entry]
    /\ generation' = Wrap(generation)
    /\ Answer(c, entry)
    /\ UNCHANGED <<environment, epoch, revisions, identity>>

\* The entry that was there stays, as stale.
InstallError(c) ==
    LET old == entries[call[c].profile] IN
    /\ call[c].stage = "loaded" /\ Undisturbed(c) /\ call[c].result = "error"
    /\ entries' = [entries EXCEPT ![call[c].profile] = Retained(old)]
    /\ generation' = IF old # NoEntry THEN Wrap(generation) ELSE generation
    /\ Answer(c, Retained(old))
    /\ UNCHANGED <<environment, epoch, revisions, identity>>

Discard(c) ==
    /\ call[c].stage = "loaded" /\ ~Undisturbed(c)
    /\ Answer(c, entries[call[c].profile])
    /\ UNCHANGED <<environment, cache>>

-----------------------------------------------------------------------------
Registry ==
    \/ \E p \in Profiles : \/ UpdateProfile(p) \/ RemoveProfile(p) \/ UpdateElsewhere(p)
                           \/ Invalidate(p)
    \/ Restore \/ InvalidateAll \/ RestoreUnseen

Access(c) ==
    \/ \E p \in Profiles : AcquireBusy(c, p) \/ \E force \in BOOLEAN : Acquire(c, p, force)
    \/ LoadCanonical(c) \/ LoadCanonicalFails(c) \/ Adopt(c) \/ Serve(c) \/ Miss(c)
    \/ ReadEpoch(c) \/ Load(c) \/ Install(c) \/ InstallError(c) \/ Discard(c)

Next == Registry \/ Tick \/ \E c \in Callers : Access(c)

Spec == Init /\ [][Next]_vars

-----------------------------------------------------------------------------
(* Properties.                                                             *)

\* What a call answers as valid or invalid, rather than stale or unchecked,
\* was made from a content that the registry had during the call: a reused
\* revision never brings back the definition of another content.
AnswersCurrent == ~outdated

\* Diagnostics compares generations: what it shows of the definitions does not
\* change under an unchanged one.
EntriesVersioned == [][entries' # entries => generation' # generation]_vars

=============================================================================
