------------------------ MODULE DefinitionCache_proofs ------------------------
(***************************************************************************)
(* Proofs about DefinitionCache, for any callers and profiles, any number  *)
(* of changes and calls, any TTL and any width of the generation counter.  *)
(***************************************************************************)
EXTENDS DefinitionCache, TLAPS

USE LimitsAssumption

(***************************************************************************)
(* The invariant.                                                          *)
(***************************************************************************)
\* A profile that is there has a revision of its own.
ProfileStates == {Absent} \cup [revision : Nat \ {0}, content : Nat]
Registries == [profiles : [Profiles -> ProfileStates], revision : Nat]
EntryStates == [revision : Nat, content : Nat, loaded : Nat,
                state : {"unchecked", "checked", "stale"}]
Stages == {"idle", "guarded", "read", "adopted", "missed", "loading", "loaded"}
CallStates == [stage : Stages, profile : Profiles \cup {None}, force : BOOLEAN, now : Nat,
               read : Registries, epoch : Nat, result : {"none", "checked", "error"}, at : Nat]

TypeOK ==
    /\ profiles \in [Profiles -> ProfileStates]
    /\ revision \in Nat
    /\ clock \in Nat
    /\ entries \in [Profiles -> EntryStates]
    /\ epoch \in [Profiles -> Nat]
    /\ revisions \in [Profiles -> Nat]
    /\ generation \in 0 .. GenerationLimit - 1
    /\ identity \in Registries
    /\ call \in [Callers -> CallStates]
    /\ since \in [Callers -> SUBSET Nat]

\* A call holds the guard of one profile, alone; a load that is over has a result.
CallsFit ==
    \A c \in Callers :
        /\ call[c].stage = "idle" => call[c] = NoCall
        /\ Guarded(c) => call[c].profile \in Profiles
        /\ call[c].stage = "loaded" => call[c].result # "none"
        /\ \A d \in Callers : Guarded(c) /\ Guarded(d) /\ call[c].profile = call[d].profile => c = d

\* The history of a call has what its profile contains now, and what it has read.
Reading(c) == call[c].stage \in {"read", "adopted", "missed", "loading", "loaded"}
HistoryFits ==
    \A c \in Callers :
        /\ Guarded(c) => profiles[call[c].profile].content \in since[c]
        /\ Reading(c) => Profile(c).content \in since[c] /\ Profile(c).revision # 0

\* Every entry was made from what the adopted identity says of its profile.
EntriesFit ==
    \A p \in Profiles : entries[p] # NoEntry =>
        /\ entries[p].revision = identity.profiles[p].revision
        /\ entries[p].content = identity.profiles[p].content

\* While a call goes on, its profile has an entry, or is noted with its revision, only
\* as long as nobody has adopted another identity than it has read.
Adopted(c) == call[c].stage \in {"adopted", "missed", "loading", "loaded"}
AdoptionFits ==
    \A c \in Callers : Adopted(c) =>
        /\ entries[call[c].profile] # NoEntry => identity = call[c].read
        /\ revisions[call[c].profile] = Profile(c).revision => identity = call[c].read

IInv == /\ TypeOK /\ CallsFit /\ HistoryFits /\ EntriesFit /\ AdoptionFits
        /\ AnswersCurrent

(***************************************************************************)
(* The data.                                                               *)
(***************************************************************************)
LEMMA Data ==
    /\ Absent \in ProfileStates /\ Absent.content = 0 /\ Absent.revision = 0
    /\ NoEntry \in EntryStates /\ NoEntry.state = "unchecked"
    /\ NoIdentity \in Registries
    /\ NoCall \in CallStates /\ NoCall.stage = "idle"
  <1>1. Absent \in ProfileStates /\ Absent.content = 0 /\ Absent.revision = 0
    BY DEF Absent, Stored, ProfileStates
  <1>2. NoIdentity \in Registries
    BY <1>1 DEF NoIdentity, Registries
  <1>3. NoCall \in CallStates /\ NoCall.stage = "idle"
    BY <1>2 DEF NoCall, Call, CallStates, Stages
  <1>4. NoEntry \in EntryStates /\ NoEntry.state = "unchecked"
    BY DEF NoEntry, Entry, EntryStates, Absent, Stored
  <1> QED BY <1>1, <1>2, <1>3, <1>4

LEMMA StoredState ==
    ASSUME NEW r \in Nat, NEW content \in Nat
    PROVE  Stored(r + 1, content) \in ProfileStates
  BY DEF Stored, ProfileStates

LEMMA StateNumbers ==
    ASSUME NEW q \in ProfileStates
    PROVE  q.revision \in Nat /\ q.content \in Nat /\ (q # Absent => q.revision # 0)
  BY DEF Stored, ProfileStates, Absent

LEMMA RetainedEntry ==
    ASSUME NEW entry \in EntryStates
    PROVE  /\ Retained(entry) \in EntryStates /\ Retained(entry).state # "checked"
           /\ Retained(entry).revision = entry.revision /\ Retained(entry).content = entry.content
           /\ entry = NoEntry => Retained(entry) = NoEntry
  BY Data DEF Retained, EntryStates

\* The counter moves, also where it wraps around.
LEMMA WrapMoves ==
    ASSUME NEW n \in 0 .. GenerationLimit - 1
    PROVE  Wrap(n) \in 0 .. GenerationLimit - 1 /\ Wrap(n) # n
  <1>1. CASE n + 1 < GenerationLimit
    <2>1. (n + 1) % GenerationLimit = n + 1
      BY <1>1
    <2> QED BY <1>1, <2>1 DEF Wrap
  <1>2. CASE n + 1 = GenerationLimit
    <2>1. GenerationLimit % GenerationLimit = 0
      OBVIOUS
    <2> QED BY <1>2, <2>1 DEF Wrap
  <1> QED BY <1>1, <1>2

LEMMA StageGuards ==
    ASSUME IInv, NEW c \in Callers
    PROVE  /\ call[c] \in CallStates
           /\ Guarded(c) <=> call[c] # NoCall
           /\ Guarded(c) <=> call[c].stage # "idle"
           /\ Reading(c) => Guarded(c)
           /\ Adopted(c) => Reading(c)
           /\ Guarded(c) => call[c].profile \in Profiles
           /\ Reading(c) => Profile(c) \in ProfileStates
  <1>1. call[c] \in CallStates /\ call[c].stage \in Stages /\ call[c].read \in Registries
    BY DEF IInv, TypeOK, CallStates
  <1>2. call[c].stage = "idle" => call[c] = NoCall
    BY DEF IInv, CallsFit
  <1>3. Guarded(c) <=> call[c].stage # "idle"
    BY <1>1 DEF Guarded, Stages
  <1>4. Guarded(c) => call[c].profile \in Profiles
    BY DEF IInv, CallsFit
  <1>5. (Reading(c) => Guarded(c)) /\ (Adopted(c) => Reading(c))
    BY DEF Reading, Guarded, Adopted
  <1>6. Reading(c) => Profile(c) \in ProfileStates
    BY <1>1, <1>4, <1>5 DEF Registries, Profile
  <1> QED BY <1>1, <1>2, <1>3, <1>4, <1>5, <1>6, Data

(***************************************************************************)
(* The steps.                                                              *)
(***************************************************************************)
LEMMA InvInit == Init => IInv
  <1> SUFFICES ASSUME Init PROVE IInv
    OBVIOUS
  <1> USE DEF Init
  <1>1. TypeOK
    <2>1. Stored(2, 2) \in ProfileStates
      BY DEF Stored, ProfileStates
    <2>2. profiles \in [Profiles -> ProfileStates] /\ entries \in [Profiles -> EntryStates]
      BY <2>1, Data
    <2>3. /\ epoch \in [Profiles -> Nat] /\ revisions \in [Profiles -> Nat]
          /\ since \in [Callers -> SUBSET Nat] /\ call \in [Callers -> CallStates]
      BY Data
    <2>4. generation \in 0 .. GenerationLimit - 1
      OBVIOUS
    <2>5. revision \in Nat /\ clock \in Nat /\ identity \in Registries
      BY Data
    <2> QED BY <2>2, <2>3, <2>4, <2>5 DEF TypeOK
  <1>2. \A c \in Callers : call[c] = NoCall /\ call[c].stage = "idle"
    BY Data
  <1>3. CallsFit /\ HistoryFits /\ AdoptionFits
    BY <1>2 DEF CallsFit, HistoryFits, AdoptionFits, Guarded, Reading, Adopted
  <1>4. EntriesFit /\ AnswersCurrent
    BY DEF EntriesFit, AnswersCurrent
  <1> QED BY <1>1, <1>3, <1>4 DEF IInv

\* The registry changes: what the calls under way may answer grows with it.
LEMMA ChangeStep ==
    ASSUME IInv, NEW next \in [Profiles -> ProfileStates], Change(next)
    PROVE  IInv'
  <1> USE DEF IInv
  <1>1. /\ profiles' = next /\ revision' = revision + 1
        /\ UNCHANGED <<clock, entries, epoch, revisions, generation, identity, call, outdated>>
    BY DEF Change, cache
  <1>2. \A c \in Callers : Guarded(c) => since'[c] = since[c] \cup {next[call[c].profile].content}
    BY StageGuards DEF Change
  <1>3. since' \in [Callers -> SUBSET Nat]
    <2>1. \A c \in Callers : call[c] # NoCall => next[call[c].profile].content \in Nat
      BY StageGuards, StateNumbers
    <2>2. \A c \in Callers : call[c] # NoCall => since[c] \cup {next[call[c].profile].content} \in SUBSET Nat
      BY <2>1 DEF TypeOK
    <2>3. since' = [c \in Callers |-> IF call[c] = NoCall THEN {}
                                      ELSE since[c] \cup {next[call[c].profile].content}]
      BY DEF Change
    <2> QED BY <2>2, <2>3
  <1>4. TypeOK'
    BY <1>1, <1>3 DEF TypeOK
  <1>5. CallsFit' /\ EntriesFit' /\ AdoptionFits' /\ AnswersCurrent'
    BY <1>1 DEF CallsFit, EntriesFit, AdoptionFits, AnswersCurrent, Guarded, Adopted, Profile
  <1>6. HistoryFits'
    <2> SUFFICES ASSUME NEW c \in Callers
                 PROVE  /\ Guarded(c) => next[call[c].profile].content \in since'[c]
                        /\ Reading(c) => Profile(c).content \in since'[c] /\ Profile(c).revision # 0
      BY <1>1 DEF HistoryFits, Guarded, Reading, Profile
    <2>1. Guarded(c) => next[call[c].profile].content \in since'[c]
      BY <1>2
    <2>2. Reading(c) => Profile(c).content \in since'[c] /\ Profile(c).revision # 0
      BY <1>2, StageGuards DEF HistoryFits
    <2> QED BY <2>1, <2>2
  <1> QED BY <1>4, <1>5, <1>6

\* Entries are dropped, or nothing of the cache and the calls changes.
LEMMA ForgetStep ==
    ASSUME IInv,
           UNCHANGED <<profiles, revision, identity, call, since, outdated>>,
           clock' \in Nat, epoch' \in [Profiles -> Nat], generation' \in 0 .. GenerationLimit - 1,
           entries' \in [Profiles -> EntryStates], revisions' \in [Profiles -> Nat],
           \A p \in Profiles : entries'[p] \in {entries[p], NoEntry} /\ revisions'[p] \in {revisions[p], 0}
    PROVE  IInv'
  <1> USE DEF IInv
  <1>1. TypeOK'
    BY DEF TypeOK
  <1>2. CallsFit' /\ HistoryFits' /\ AnswersCurrent'
    BY DEF CallsFit, HistoryFits, AnswersCurrent, Guarded, Reading, Profile
  <1>3. EntriesFit'
    BY DEF EntriesFit
  <1>4. AdoptionFits'
    <2> SUFFICES ASSUME NEW c \in Callers, Adopted(c)
                 PROVE  /\ entries'[call[c].profile] # NoEntry => identity = call[c].read
                        /\ revisions'[call[c].profile] = Profile(c).revision => identity = call[c].read
      BY DEF AdoptionFits, Adopted, Profile
    <2>1. call[c].profile \in Profiles /\ Profile(c).revision # 0
      BY StageGuards DEF HistoryFits
    <2> QED BY <2>1 DEF AdoptionFits
  <1> QED BY <1>1, <1>2, <1>3, <1>4

LEMMA RegistrySteps == ASSUME IInv, Registry \/ Tick PROVE IInv'
  <1> USE DEF IInv, registry, cache
  <1>1. revision \in Nat /\ \A p \in Profiles : profiles[p] \in ProfileStates
    BY DEF TypeOK
  <1>2. ASSUME NEW p \in Profiles, UpdateProfile(p) \/ UpdateElsewhere(p) PROVE IInv'
    <2> DEFINE next == [profiles EXCEPT ![p] = Stored(profiles[p].revision + 1, revision + 1)]
    <2>1. Stored(profiles[p].revision + 1, revision + 1) \in ProfileStates
      BY <1>1, StateNumbers, StoredState
    <2>2. next \in [Profiles -> ProfileStates]
      BY <2>1 DEF TypeOK
    <2>3. Change(next)
      BY <1>2 DEF UpdateProfile, UpdateElsewhere, Mutate
    <2> HIDE DEF next
    <2> QED BY <2>2, <2>3, ChangeStep
  <1>3. ASSUME NEW p \in Profiles, RemoveProfile(p) PROVE IInv'
    <2> DEFINE next == [profiles EXCEPT ![p] = Absent]
    <2>1. next \in [Profiles -> ProfileStates]
      BY Data DEF TypeOK
    <2>2. Change(next)
      BY <1>3 DEF RemoveProfile, Mutate
    <2> HIDE DEF next
    <2> QED BY <2>1, <2>2, ChangeStep
  <1>4. CASE Restore
    <2> DEFINE next == [p \in Profiles |->
                 Stored((IF profiles[p].revision > 1 THEN profiles[p].revision ELSE 1) + 1, 1)]
    <2>1. next \in [Profiles -> ProfileStates]
      <3>1. \A p \in Profiles :
              (IF profiles[p].revision > 1 THEN profiles[p].revision ELSE 1) \in Nat
        BY <1>1, StateNumbers
      <3> QED BY <3>1, StoredState
    <2>2. Change(next)
      BY <1>4 DEF Restore
    <2> HIDE DEF next
    <2> QED BY <2>1, <2>2, ChangeStep
  <1>5. /\ clock \in Nat /\ epoch \in [Profiles -> Nat] /\ generation \in 0 .. GenerationLimit - 1
        /\ Wrap(generation) \in 0 .. GenerationLimit - 1
        /\ entries \in [Profiles -> EntryStates] /\ revisions \in [Profiles -> Nat]
    BY WrapMoves DEF TypeOK
  <1>6. ASSUME NEW p \in Profiles, Invalidate(p) PROVE IInv'
    <2>1. /\ epoch' = [epoch EXCEPT ![p] = epoch[p] + 1]
          /\ entries' = [entries EXCEPT ![p] = NoEntry]
          /\ generation' \in {Wrap(generation), generation}
          /\ UNCHANGED <<profiles, revision, clock, revisions, identity, call, since, outdated>>
      BY <1>6 DEF Invalidate
    <2>2. epoch' \in [Profiles -> Nat] /\ entries' \in [Profiles -> EntryStates]
      BY <1>5, <2>1, Data
    <2>3. \A q \in Profiles : entries'[q] \in {entries[q], NoEntry}
      BY <1>5, <2>1
    <2> QED BY <1>5, <2>1, <2>2, <2>3, ForgetStep
  <1>7. CASE InvalidateAll
    <2>1. /\ entries' = [p \in Profiles |-> NoEntry] /\ revisions' = [p \in Profiles |-> 0]
          /\ generation' = Wrap(generation)
          /\ UNCHANGED <<profiles, revision, clock, identity, call, since, outdated>>
      BY <1>7 DEF InvalidateAll
    <2>2. epoch' \in [Profiles -> Nat]
      BY <1>5, <1>7 DEF InvalidateAll, BumpAll
    <2> QED BY <1>5, <2>1, <2>2, Data, ForgetStep
  <1>8. CASE RestoreUnseen
    BY <1>5, <1>8, ForgetStep DEF RestoreUnseen
  <1>9. CASE Tick
    BY <1>5, <1>9, ForgetStep DEF Tick
  <1> QED BY <1>2, <1>3, <1>4, <1>6, <1>7, <1>8, <1>9 DEF Registry

\* A call is over: its answer is no definition of a content that its profile did not
\* have, and it leaves at most an entry of the adopted identity in its profile.
LEMMA AnswerStep ==
    ASSUME IInv, NEW c \in Callers, NEW entry, Answer(c, entry), ~Outdated(c, entry),
           UNCHANGED <<profiles, revision, clock, epoch, revisions, identity>>,
           generation' \in 0 .. GenerationLimit - 1,
           entries' \in [Profiles -> EntryStates],
           \A p \in Profiles :
             \/ entries'[p] = entries[p]
             \/ /\ Guarded(c) /\ p = call[c].profile
                /\ entries'[p] # NoEntry =>
                      /\ entries'[p].revision = identity.profiles[p].revision
                      /\ entries'[p].content = identity.profiles[p].content
    PROVE  IInv'
  <1> USE DEF IInv
  <1>1. /\ call' = [call EXCEPT ![c] = NoCall] /\ since' = [since EXCEPT ![c] = {}]
    BY DEF Answer
  <1>2. /\ call' \in [Callers -> CallStates] /\ since' \in [Callers -> SUBSET Nat]
        /\ \A d \in Callers : call'[d] = IF d = c THEN NoCall ELSE call[d]
        /\ \A d \in Callers : d # c => since'[d] = since[d]
    BY <1>1, Data DEF TypeOK
  <1>3. TypeOK'
    BY <1>2 DEF TypeOK
  <1>4. \A d \in Callers :
          /\ Guarded(d)' <=> Guarded(d) /\ d # c
          /\ Reading(d)' <=> Reading(d) /\ d # c
          /\ Adopted(d)' <=> Adopted(d) /\ d # c
    BY <1>2, Data DEF Guarded, Reading, Adopted
  <1>5. CallsFit'
    BY <1>2, <1>4, Data DEF CallsFit
  <1>6. HistoryFits'
    BY <1>2, <1>4 DEF HistoryFits, Profile
  <1>7. EntriesFit'
    BY DEF EntriesFit
  <1>8. AdoptionFits'
    <2> SUFFICES ASSUME NEW d \in Callers, d # c, Adopted(d)
                 PROVE  /\ entries'[call[d].profile] # NoEntry => identity = call[d].read
                        /\ revisions[call[d].profile] = Profile(d).revision => identity = call[d].read
      BY <1>2, <1>4 DEF AdoptionFits, Profile
    <2>1. Guarded(d) /\ call[d].profile \in Profiles
      BY StageGuards
    <2>2. entries'[call[d].profile] = entries[call[d].profile]
      BY <2>1 DEF CallsFit
    <2> QED BY <2>2 DEF AdoptionFits
  <1>9. AnswersCurrent'
    <2>1. ~outdated /\ outdated' = (outdated \/ Outdated(c, entry))
      BY DEF Answer, AnswersCurrent
    <2> QED BY <2>1, Zenon DEF AnswersCurrent
  <1> QED BY <1>3, <1>5, <1>6, <1>7, <1>8, <1>9

\* A call goes on, having read nothing more.
LEMMA ProgressStep ==
    ASSUME IInv, NEW c \in Callers, Adopted(c),
           NEW stage \in {"missed", "loading", "loaded"},
           call' \in [Callers -> CallStates],
           \A d \in Callers : d # c => call'[d] = call[d],
           call'[c].stage = stage, call'[c].profile = call[c].profile, call'[c].read = call[c].read,
           stage = "loaded" => call'[c].result # "none",
           UNCHANGED <<registry, clock, cache, since, outdated>>
    PROVE  IInv'
  <1> USE DEF IInv, registry, cache
  <1>1. \A d \in Callers :
          /\ Guarded(d)' <=> Guarded(d)
          /\ Reading(d)' <=> Reading(d)
          /\ Adopted(d)' <=> Adopted(d)
          /\ call'[d].profile = call[d].profile /\ call'[d].read = call[d].read
          /\ d = c => /\ call'[d].stage # "idle"
                      /\ call'[d].stage = "loaded" => call'[d].result # "none"
    BY DEF Guarded, Reading, Adopted
  <1>2. TypeOK' /\ EntriesFit' /\ AnswersCurrent'
    BY DEF TypeOK, EntriesFit, AnswersCurrent
  <1>3. CallsFit'
    BY <1>1 DEF CallsFit
  <1>4. HistoryFits'
    BY <1>1 DEF HistoryFits, Profile
  <1>5. AdoptionFits'
    BY <1>1 DEF AdoptionFits, Profile
  <1> QED BY <1>2, <1>3, <1>4, <1>5

\* The guard of a profile is taken: nobody else has it.
LEMMA AcquireStep ==
    ASSUME IInv, NEW c \in Callers, NEW p \in Profiles, NEW force \in BOOLEAN, Acquire(c, p, force)
    PROVE  IInv'
  <1> USE DEF IInv
  <1> DEFINE to == Call("guarded", p, force, clock)
  <1>1. to \in CallStates /\ to.stage = "guarded" /\ to.profile = p
    BY Data DEF Call, CallStates, Stages, TypeOK
  <1> HIDE DEF to
  <1>2. /\ call' = [call EXCEPT ![c] = to] /\ since' = [since EXCEPT ![c] = {profiles[p].content}]
        /\ UNCHANGED <<profiles, revision, clock, entries, epoch, revisions, generation, identity, outdated>>
    BY DEF Acquire, registry, cache, to
  <1>3. profiles[p].content \in Nat
    BY StateNumbers DEF TypeOK
  <1>4. /\ call' \in [Callers -> CallStates] /\ since' \in [Callers -> SUBSET Nat]
        /\ \A d \in Callers : call'[d] = IF d = c THEN to ELSE call[d]
        /\ \A d \in Callers : since'[d] = IF d = c THEN {profiles[p].content} ELSE since[d]
    BY <1>1, <1>2, <1>3 DEF TypeOK
  <1>5. ~Guarded(c) /\ \A d \in Callers : Guarded(d) => call[d].profile # p
    BY StageGuards DEF Acquire, Busy
  <1>6. \A d \in Callers : /\ Guarded(d)' <=> Guarded(d) \/ d = c
                           /\ Reading(d)' <=> Reading(d)
                           /\ Adopted(d)' <=> Adopted(d)
    BY <1>1, <1>4, <1>5 DEF Guarded, Reading, Adopted
  <1>7. \A d \in Callers : Reading(d) \/ Adopted(d) => d # c
    BY <1>5, StageGuards
  <1>8. TypeOK' /\ EntriesFit' /\ AnswersCurrent'
    BY <1>2, <1>4 DEF TypeOK, EntriesFit, AnswersCurrent
  <1>9. CallsFit'
    BY <1>1, <1>4, <1>5, <1>6 DEF CallsFit
  <1>10. HistoryFits'
    BY <1>1, <1>2, <1>4, <1>6, <1>7 DEF HistoryFits, Profile
  <1>11. AdoptionFits'
    BY <1>2, <1>4, <1>6, <1>7 DEF AdoptionFits, Profile
  <1> QED BY <1>8, <1>9, <1>10, <1>11

\* What is read is in the history; a profile that is not there is not read.
LEMMA LoadCanonicalStep ==
    ASSUME IInv, NEW c \in Callers, LoadCanonical(c)
    PROVE  IInv'
  <1> USE DEF IInv
  <1>1. /\ call' = [call EXCEPT ![c].stage = "read", ![c].read = Identity]
        /\ UNCHANGED <<profiles, revision, clock, entries, epoch, revisions, generation, identity,
                       since, outdated>>
    BY DEF LoadCanonical, environment, history, registry, cache
  <1>2. Identity \in Registries /\ Identity.profiles = profiles
    BY DEF Identity, Registries, TypeOK
  <1>3. /\ call' \in [Callers -> CallStates]
        /\ \A d \in Callers : d # c => call'[d] = call[d]
        /\ call'[c].stage = "read" /\ call'[c].read = Identity /\ call'[c].profile = call[c].profile
    <2> DEFINE to == [[call[c] EXCEPT !.stage = "read"] EXCEPT !.read = Identity]
    <2>1. call[c] \in CallStates /\ call \in [Callers -> CallStates]
      BY DEF TypeOK
    <2>2. /\ to \in CallStates
          /\ to.stage = "read" /\ to.read = Identity /\ to.profile = call[c].profile
      BY <1>2, <2>1 DEF CallStates, Stages
    <2>3. call' = [call EXCEPT ![c] = to]
      BY <1>1, <2>1
    <2> HIDE DEF to
    <2> QED BY <2>1, <2>2, <2>3
  <1>4. /\ Guarded(c) /\ ~Reading(c) /\ ~Adopted(c) /\ call[c].profile \in Profiles
        /\ profiles[call[c].profile].revision # 0
    <2>1. call[c].stage = "guarded" /\ Present(call[c].profile)
      BY DEF LoadCanonical
    <2>2. Guarded(c) /\ ~Reading(c) /\ ~Adopted(c) /\ call[c].profile \in Profiles
      BY <2>1, StageGuards DEF Guarded, Reading, Adopted
    <2> QED BY <2>1, <2>2, StateNumbers DEF TypeOK, Present
  <1>5. \A d \in Callers : /\ Guarded(d)' <=> Guarded(d)
                           /\ Reading(d)' <=> Reading(d) \/ d = c
                           /\ Adopted(d)' <=> Adopted(d)
    BY <1>3, <1>4 DEF Guarded, Reading, Adopted
  <1>6. TypeOK' /\ EntriesFit' /\ AnswersCurrent'
    BY <1>1, <1>3 DEF TypeOK, EntriesFit, AnswersCurrent
  <1>7. CallsFit'
    BY <1>3, <1>4, <1>5 DEF CallsFit
  <1>8. HistoryFits'
    BY <1>1, <1>2, <1>3, <1>4, <1>5 DEF HistoryFits, Profile
  <1>9. AdoptionFits'
    BY <1>1, <1>3, <1>4, <1>5 DEF AdoptionFits, Profile
  <1> QED BY <1>6, <1>7, <1>8, <1>9

\* Another identity empties the cache, and no other call finds its profile noted.
LEMMA AdoptStep ==
    ASSUME IInv, NEW c \in Callers, Adopt(c)
    PROVE  IInv'
  <1> USE DEF IInv
  <1> DEFINE p == call[c].profile
  <1>1. /\ call[c].stage = "read" /\ identity' = call[c].read
        /\ call' = [call EXCEPT ![c].stage = "adopted"]
        /\ UNCHANGED <<profiles, revision, clock, since, outdated>>
    BY DEF Adopt, environment, history, registry
  <1>2. /\ call' \in [Callers -> CallStates]
        /\ \A d \in Callers : d # c => call'[d] = call[d]
        /\ call'[c].stage = "adopted" /\ call'[c].read = call[c].read /\ call'[c].profile = p
    BY <1>1 DEF TypeOK, CallStates, Stages
  <1>3. /\ Guarded(c) /\ Reading(c) /\ ~Adopted(c) /\ p \in Profiles
        /\ Profile(c).revision \in Nat
    BY <1>1, StageGuards, StateNumbers DEF Guarded, Reading, Adopted
  <1>4. \A d \in Callers : /\ Guarded(d)' <=> Guarded(d)
                           /\ Reading(d)' <=> Reading(d)
                           /\ Adopted(d)' <=> Adopted(d) \/ d = c
                           /\ call'[d].profile = call[d].profile /\ call'[d].read = call[d].read
    BY <1>2, <1>3 DEF Guarded, Reading, Adopted
  <1>5. /\ entries' \in [Profiles -> EntryStates] /\ epoch' \in [Profiles -> Nat]
        /\ revisions' \in [Profiles -> Nat] /\ generation' \in 0 .. GenerationLimit - 1
        /\ \/ identity = call[c].read /\ entries' = entries
              /\ \A q \in Profiles : q # p => revisions'[q] = revisions[q]
           \/ \A q \in Profiles : entries'[q] = NoEntry /\ (q # p => revisions'[q] = 0)
    <2>1. /\ entries \in [Profiles -> EntryStates] /\ epoch \in [Profiles -> Nat]
          /\ revisions \in [Profiles -> Nat] /\ generation \in 0 .. GenerationLimit - 1
      BY DEF TypeOK
    <2>2. CASE identity = call[c].read
      <3>1. /\ revisions' = [revisions EXCEPT ![p] = Profile(c).revision]
            /\ UNCHANGED <<entries, epoch, generation>>
        BY <2>2 DEF Adopt
      <3> QED BY <1>3, <2>1, <2>2, <3>1
    <2>3. CASE identity # call[c].read
      <3>1. /\ revisions' = [q \in Profiles |-> IF q = p THEN Profile(c).revision ELSE 0]
            /\ entries' = [q \in Profiles |-> NoEntry]
            /\ epoch' = [q \in Profiles |-> IF epoch[q] = 0 THEN 0 ELSE epoch[q] + 1]
            /\ generation' = Wrap(generation)
        BY <2>3 DEF Adopt, BumpAll
      <3>2. generation' \in 0 .. GenerationLimit - 1
        BY <2>1, <3>1, WrapMoves
      <3> QED BY <1>3, <2>1, <3>1, <3>2, Data
    <2> QED BY <2>2, <2>3
  <1>6. TypeOK'
    <2>1. identity' \in Registries
      BY <1>1, StageGuards DEF CallStates
    <2> QED BY <1>1, <1>2, <1>5, <2>1 DEF TypeOK
  <1>7. CallsFit'
    BY <1>2, <1>3, <1>4 DEF CallsFit
  <1>8. HistoryFits'
    BY <1>1, <1>4 DEF HistoryFits, Profile
  <1>9. EntriesFit' /\ AnswersCurrent'
    BY <1>1, <1>5 DEF EntriesFit, AnswersCurrent
  <1>10. AdoptionFits'
    <2> SUFFICES ASSUME NEW d \in Callers, Adopted(d) \/ d = c
                 PROVE  /\ entries'[call[d].profile] # NoEntry => identity' = call[d].read
                        /\ revisions'[call[d].profile] = Profile(d).revision => identity' = call[d].read
      BY <1>4 DEF AdoptionFits, Profile
    <2>1. CASE d = c
      BY <1>1, <2>1
    <2>2. CASE d # c
      <3>1. /\ call[d].profile \in Profiles /\ call[d].profile # p /\ Profile(d).revision # 0
        BY <1>3, <2>2, StageGuards DEF CallsFit, HistoryFits
      <3> QED BY <1>1, <1>5, <2>2, <3>1 DEF AdoptionFits
    <2> QED BY <2>1, <2>2
  <1> QED BY <1>6, <1>7, <1>8, <1>9, <1>10

\* An entry that a call finds in its profile was made from what the call has read.
LEMMA EntryFound ==
    ASSUME IInv, NEW c \in Callers, Adopted(c), entries[call[c].profile] # NoEntry
    PROVE  /\ entries[call[c].profile].content = Profile(c).content
           /\ entries[call[c].profile].content \in since[c]
  <1>1. call[c].profile \in Profiles /\ Reading(c)
    BY StageGuards
  <1>2. identity = call[c].read
    BY DEF IInv, AdoptionFits
  <1>3. entries[call[c].profile].content = Profile(c).content
    BY <1>1, <1>2 DEF IInv, EntriesFit, Profile
  <1> QED BY <1>1, <1>3 DEF IInv, HistoryFits

LEMMA AccessSteps ==
    ASSUME IInv, NEW c \in Callers, Access(c)
    PROVE  IInv'
  <1> USE DEF IInv
  <1> DEFINE p == call[c].profile
  <1>1. /\ entries \in [Profiles -> EntryStates] /\ generation \in 0 .. GenerationLimit - 1
        /\ Wrap(generation) \in 0 .. GenerationLimit - 1 /\ clock \in Nat
    BY WrapMoves DEF TypeOK
  <1>2. ~Outdated(c, NoEntry)
    BY Data DEF Outdated
  <1>3. \A q \in Profiles : /\ Retained(entries[q]) \in EntryStates
                            /\ ~Outdated(c, Retained(entries[q]))
    BY <1>1, RetainedEntry DEF Outdated
  <1>4. ASSUME NEW q \in Profiles, AcquireBusy(c, q) PROVE IInv'
    BY <1>1, <1>3, <1>4, AnswerStep DEF AcquireBusy, environment, registry, cache
  <1>5. ASSUME NEW q \in Profiles, NEW force \in BOOLEAN, Acquire(c, q, force) PROVE IInv'
    BY <1>5, AcquireStep
  <1>6. CASE LoadCanonical(c)
    BY <1>6, LoadCanonicalStep
  <1>7. CASE LoadCanonicalFails(c)
    BY <1>1, <1>2, <1>7, AnswerStep DEF LoadCanonicalFails, environment, registry, cache
  <1>8. CASE Adopt(c)
    BY <1>8, AdoptStep
  <1>9. CASE Serve(c) \/ Discard(c)
    <2>1. Adopted(c) /\ Answer(c, entries[p])
      BY <1>9 DEF Serve, Discard, Adopted
    <2>2. ~Outdated(c, entries[p])
      BY <2>1, EntryFound, Data DEF Outdated
    <2>3. UNCHANGED <<profiles, revision, clock, entries, epoch, revisions, identity, generation>>
      BY <1>9 DEF Serve, Discard, environment, registry, cache
    <2> QED BY <1>1, <2>1, <2>2, <2>3, AnswerStep
  <1>10. CASE Miss(c)
    <2>1. /\ Adopted(c) /\ call' = [call EXCEPT ![c].stage = "missed"]
          /\ UNCHANGED <<registry, clock, cache, since, outdated>>
      BY <1>10 DEF Miss, Adopted, environment, history
    <2>2. /\ call' \in [Callers -> CallStates] /\ \A d \in Callers : d # c => call'[d] = call[d]
          /\ call'[c].stage = "missed" /\ call'[c].profile = call[c].profile
          /\ call'[c].read = call[c].read
      BY <2>1 DEF TypeOK, CallStates, Stages
    <2> QED BY <2>1, <2>2, ProgressStep
  <1>11. CASE ReadEpoch(c)
    <2>1. /\ Adopted(c) /\ UNCHANGED <<registry, clock, cache, since, outdated>>
          /\ call' = [call EXCEPT ![c].stage = "loading", ![c].epoch = epoch[p]]
      BY <1>11 DEF ReadEpoch, Adopted, environment, history
    <2>2. epoch[p] \in Nat
      BY <2>1, StageGuards DEF TypeOK
    <2>3. /\ call' \in [Callers -> CallStates] /\ \A d \in Callers : d # c => call'[d] = call[d]
          /\ call'[c].stage = "loading" /\ call'[c].profile = call[c].profile
          /\ call'[c].read = call[c].read
      <3> DEFINE to == [[call[c] EXCEPT !.stage = "loading"] EXCEPT !.epoch = epoch[p]]
      <3>1. call[c] \in CallStates /\ call \in [Callers -> CallStates]
        BY DEF TypeOK
      <3>2. /\ to \in CallStates
            /\ to.stage = "loading" /\ to.profile = call[c].profile /\ to.read = call[c].read
        BY <2>2, <3>1 DEF CallStates, Stages
      <3>3. call' = [call EXCEPT ![c] = to]
        BY <2>1, <3>1
      <3> HIDE DEF to
      <3> QED BY <3>1, <3>2, <3>3
    <2> QED BY <2>1, <2>3, ProgressStep
  <1>12. CASE Load(c)
    <2>1. Adopted(c) /\ UNCHANGED <<registry, clock, cache, since, outdated>>
      BY <1>12 DEF Load, Adopted, environment, history
    <2>2. PICK result \in {"checked", "error"} :
            call' = [call EXCEPT ![c].stage = "loaded", ![c].result = result, ![c].at = clock]
      BY <1>12 DEF Load
    <2>3. /\ call' \in [Callers -> CallStates] /\ \A d \in Callers : d # c => call'[d] = call[d]
          /\ call'[c].stage = "loaded" /\ call'[c].profile = call[c].profile
          /\ call'[c].read = call[c].read /\ call'[c].result # "none"
      <3> DEFINE to == [[[call[c] EXCEPT !.stage = "loaded"] EXCEPT !.result = result]
                           EXCEPT !.at = clock]
      <3>1. call[c] \in CallStates /\ call \in [Callers -> CallStates]
        BY DEF TypeOK
      <3>2. /\ to \in CallStates
            /\ to.stage = "loaded" /\ to.profile = call[c].profile /\ to.read = call[c].read
            /\ to.result # "none"
        BY <1>1, <3>1 DEF CallStates, Stages
      <3>3. call' = [call EXCEPT ![c] = to]
        BY <2>2, <3>1
      <3> HIDE DEF to
      <3> QED BY <3>1, <3>2, <3>3
    <2> QED BY <2>1, <2>3, ProgressStep
  <1>13. CASE Install(c)
    <2> DEFINE entry == Entry(Profile(c), call[c].at, call[c].result)
    <2>1. /\ Adopted(c) /\ Undisturbed(c) /\ call[c].result # "error"
          /\ entries' = [entries EXCEPT ![p] = entry] /\ generation' = Wrap(generation)
          /\ Answer(c, entry)
          /\ UNCHANGED <<profiles, revision, clock, epoch, revisions, identity>>
      BY <1>13 DEF Install, Adopted, environment, registry
    <2>2. /\ Guarded(c) /\ Reading(c) /\ p \in Profiles /\ Profile(c) \in ProfileStates
          /\ call[c] \in CallStates
      BY <2>1, StageGuards
    <2>3. identity = call[c].read
      BY <2>1 DEF AdoptionFits, Undisturbed
    <2>4. entry.revision = identity.profiles[p].revision /\ entry.content = identity.profiles[p].content
          /\ entry.content = Profile(c).content
      BY <2>3 DEF Entry, Profile
    <2>5. ~Outdated(c, entry)
      BY <2>2, <2>4 DEF HistoryFits, Outdated
    <2>6. entry \in EntryStates
      <3>1. call[c].stage = "loaded"
        BY <1>13 DEF Install
      <3>2. call[c].result = "checked" /\ call[c].at \in Nat
        BY <2>1, <2>2, <3>1 DEF CallStates, CallsFit
      <3>3. Profile(c).revision \in Nat /\ Profile(c).content \in Nat
        BY <2>2, StateNumbers
      <3> QED BY <3>2, <3>3 DEF Entry, EntryStates
    <2>7. \A q \in Profiles : entries'[q] = entries[q]
                              \/ (q = p /\ entries'[q] = entry)
      BY <1>1, <2>1
    <2> HIDE DEF entry
    <2>8. entries' \in [Profiles -> EntryStates]
      BY <1>1, <2>1, <2>6
    <2> QED BY <1>1, <2>1, <2>2, <2>4, <2>5, <2>7, <2>8, AnswerStep
  <1>14. CASE InstallError(c)
    <2> DEFINE old == entries[p]
    <2>1. /\ Adopted(c) /\ entries' = [entries EXCEPT ![p] = Retained(old)]
          /\ generation' \in {Wrap(generation), generation}
          /\ Answer(c, Retained(old))
          /\ UNCHANGED <<profiles, revision, clock, epoch, revisions, identity>>
      BY <1>14 DEF InstallError, Adopted, environment, registry
    <2>2. Guarded(c) /\ p \in Profiles
      BY <2>1, StageGuards
    <2>3. /\ Retained(old).revision = old.revision /\ Retained(old).content = old.content
          /\ (old = NoEntry => Retained(old) = NoEntry)
      BY <1>1, <2>2, RetainedEntry
    <2>4. entries' \in [Profiles -> EntryStates]
      BY <1>1, <1>3, <2>1, <2>2
    <2>5. \A q \in Profiles :
            \/ entries'[q] = entries[q]
            \/ /\ q = p
               /\ entries'[q] # NoEntry =>
                      /\ entries'[q].revision = identity.profiles[q].revision
                      /\ entries'[q].content = identity.profiles[q].content
      BY <1>1, <2>1, <2>2, <2>3 DEF EntriesFit
    <2> QED BY <1>1, <1>3, <2>1, <2>2, <2>4, <2>5, AnswerStep
  <1> QED BY <1>4, <1>5, <1>6, <1>7, <1>8, <1>9, <1>10, <1>11, <1>12, <1>13, <1>14 DEF Access

LEMMA InvStep == IInv /\ [Next]_vars => IInv'
  <1> SUFFICES ASSUME IInv, [Next]_vars PROVE IInv'
    OBVIOUS
  <1>1. CASE Registry \/ Tick
    BY <1>1, RegistrySteps
  <1>2. ASSUME NEW c \in Callers, Access(c) PROVE IInv'
    BY <1>2, AccessSteps
  <1>3. CASE UNCHANGED vars
    BY <1>3 DEF vars, registry, cache, IInv, TypeOK, CallsFit, HistoryFits, EntriesFit, AdoptionFits,
                AnswersCurrent, Guarded, Reading, Adopted, Profile
  <1> QED BY <1>1, <1>2, <1>3 DEF Next

LEMMA Invariance == Spec => []IInv
  BY InvInit, InvStep, PTL DEF Spec

\* What `access` answers as valid or invalid was made from a content that its profile
\* had during the call, whatever the registry's other users did meanwhile.
THEOREM AnswersAreCurrent == Spec => []AnswersCurrent
  <1>1. IInv => AnswersCurrent
    BY DEF IInv
  <1> QED BY <1>1, Invariance, PTL

\* Every entry of the cache was made from what the identity adopted last says of its
\* profile: adopting another identity leaves none behind.
THEOREM EntriesBelongToIdentity == Spec => []EntriesFit
  <1>1. IInv => EntriesFit
    BY DEF IInv
  <1> QED BY <1>1, Invariance, PTL

\* The entries do not change under an unchanged generation, also when its counter
\* wraps around.
LEMMA VersionedStep ==
    ASSUME IInv, [Next]_vars
    PROVE  entries' # entries => generation' # generation
  <1> SUFFICES ASSUME entries' # entries PROVE generation' # generation
    OBVIOUS
  <1>1. Wrap(generation) # generation
    BY WrapMoves DEF IInv, TypeOK
  <1>2. entries \in [Profiles -> EntryStates]
    BY DEF IInv, TypeOK
  <1>3. ASSUME NEW p \in Profiles, entries[p] = NoEntry
        PROVE  [entries EXCEPT ![p] = NoEntry] = entries
    BY <1>2, <1>3
  <1>4. ASSUME NEW p \in Profiles, Invalidate(p) PROVE generation' # generation
    BY <1>1, <1>3, <1>4 DEF Invalidate
  <1>5. CASE Registry
    <2>1. ASSUME NEW p \in Profiles, UpdateProfile(p) \/ RemoveProfile(p) \/ UpdateElsewhere(p)
          PROVE  FALSE
      BY <2>1 DEF UpdateProfile, RemoveProfile, UpdateElsewhere, Mutate, Change, cache
    <2>2. CASE Restore
      BY <2>2 DEF Restore, Change, cache
    <2>3. CASE InvalidateAll
      BY <1>1, <2>3 DEF InvalidateAll
    <2>4. CASE RestoreUnseen
      BY <2>4 DEF RestoreUnseen, cache
    <2> QED BY <1>4, <1>5, <2>1, <2>2, <2>3, <2>4 DEF Registry
  <1>6. CASE Tick
    BY <1>6 DEF Tick, cache
  <1>7. ASSUME NEW c \in Callers, Access(c) PROVE generation' # generation
    <2>1. CASE Adopt(c)
      BY <1>1, <2>1 DEF Adopt
    <2>2. CASE Install(c)
      BY <1>1, <2>2 DEF Install
    <2>3. CASE InstallError(c)
      <3> DEFINE p == call[c].profile
      <3>1. /\ entries' = [entries EXCEPT ![p] = Retained(entries[p])]
            /\ generation' = IF entries[p] # NoEntry THEN Wrap(generation) ELSE generation
            /\ p \in Profiles
        BY <2>3, StageGuards DEF InstallError, Guarded
      <3>2. CASE entries[p] = NoEntry
        BY <1>2, <1>3, <3>1, <3>2, RetainedEntry
      <3>3. CASE entries[p] # NoEntry
        BY <1>1, <3>1, <3>3
      <3> QED BY <3>2, <3>3
    <2>4. ASSUME NEW p \in Profiles, NEW force \in BOOLEAN, AcquireBusy(c, p) \/ Acquire(c, p, force)
          PROVE  FALSE
      BY <2>4 DEF AcquireBusy, Acquire, cache
    <2>5. CASE \/ LoadCanonical(c) \/ LoadCanonicalFails(c) \/ Serve(c) \/ Miss(c) \/ ReadEpoch(c)
               \/ Load(c) \/ Discard(c)
      BY <2>5 DEF LoadCanonical, LoadCanonicalFails, Serve, Miss, ReadEpoch, Load, Discard, cache
    <2> QED BY <1>7, <2>1, <2>2, <2>3, <2>4, <2>5 DEF Access
  <1>8. CASE UNCHANGED vars
    BY <1>8 DEF vars, cache
  <1> QED BY <1>5, <1>6, <1>7, <1>8 DEF Next

\* What Diagnostics shows of the definitions never changes without a new generation.
THEOREM EntriesAreVersioned == Spec => EntriesVersioned
  <1>1. IInv /\ [Next]_vars => [entries' # entries => generation' # generation]_vars
    BY VersionedStep
  <1> QED BY <1>1, Invariance, PTL DEF Spec, EntriesVersioned

=============================================================================
