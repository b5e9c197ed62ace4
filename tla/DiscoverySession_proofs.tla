----------------------- MODULE DiscoverySession_proofs -----------------------
(***************************************************************************)
(* Theorems about DiscoverySession: registration under an unused name and  *)
(* on the evidence that is published, sessions apart, and one attempt per  *)
(* generation, for any number of tasks, any evidence and any limits.  The  *)
(* inductive invariants are IInv, Isolated and OInv.                       *)
(***************************************************************************)
EXTENDS DiscoverySession, TLAPS

(***************************************************************************)
(* The inductive invariant.                                                *)
(***************************************************************************)

\* profiles is a sequence, and a registration a record, of whatever it may be.
Shape ==
    /\ \E S : profiles \in Seq(S)
    /\ DOMAIN registrar = Registrars
    /\ \A r \in Registrars : {"stage", "candidate", "inventory"} \subseteq DOMAIN registrar[r]

\* Under the registry's lock, nothing has the name of the candidate that passed its check,
\* and only one registration is there.
CheckedAlone ==
    \A r \in Registrars : registrar[r].stage = "checked" =>
        /\ Named(profiles, registrar[r].candidate.name) = {}
        /\ \A q \in Registrars : registrar[q].stage = "checked" => q = r

\* What a lease holder has read is what is published.
LeasedCurrent ==
    \A r \in Registrars : registrar[r].stage = "leased" => registrar[r].inventory = inventory

IInv == Shape /\ CheckedAlone /\ LeasedCurrent

-----------------------------------------------------------------------------
(* Operators.                                                              *)

\* A new project has no profile of its name (classify_candidates).
LEMMA NewHasNoProfile ==
    ASSUME NEW inv, NEW known, NEW d \in Classify(inv, known), d.class = "NewUnambiguous"
    PROVE  Named(known, d.name) = {}
<1> DEFINE obs == Observations(inv)
<1>1. PICK o \in Representatives(obs) :
         d = [session |-> inv.session, generation |-> inv.generation,
              name |-> o.name, directory |-> o.directory, files |-> o.files,
              class |-> Classification(obs, known, o), ignored |-> FALSE]
  BY DEF Classify
<1>2. d.name = o.name /\ Classification(obs, known, o) = "NewUnambiguous"
  BY <1>1
<1> QED
  BY <1>2 DEF Classification

\* So has a candidate that require_registrable_candidate lets pass.
LEMMA RegistrableHasNoProfile ==
    ASSUME NEW inv, NEW known, NEW c, Registrable(inv, known, c)
    PROVE  Named(known, c.name) = {}
<1>1. PICK d \in Classify(inv, known) : Id(d) = Id(c) /\ d.class = "NewUnambiguous"
  BY DEF Registrable, Matches
<1>2. d.name = c.name
  BY <1>1 DEF Id
<1> QED
  BY <1>1, <1>2, NewHasNoProfile

\* Adding a profile at the end.
LEMMA AppendOne ==
    ASSUME NEW S, NEW s \in Seq(S), NEW x
    PROVE  /\ Append(s, x) \in Seq(S \cup {x})
           /\ DOMAIN Append(s, x) = DOMAIN s \cup {Len(s) + 1}
           /\ \A i \in DOMAIN s : i # Len(s) + 1 /\ Append(s, x)[i] = s[i]
           /\ Append(s, x)[Len(s) + 1] = x
<1>1. s \in Seq(S \cup {x}) /\ x \in S \cup {x}
  OBVIOUS
<1> QED
  BY <1>1

LEMMA Joined ==
    ASSUME NEW S, NEW a \in Seq(S), NEW b \in Seq(S)
    PROVE  /\ a \o b \in Seq(S) /\ Len(a \o b) = Len(a) + Len(b)
           /\ \A j \in 1..(Len(a) + Len(b)) :
                 (a \o b)[j] = IF j <= Len(a) THEN a[j] ELSE b[j - Len(a)]
OBVIOUS

\* Removing a profile: what is left was there, each at a place of its own.
LEMMA RemoveOne ==
    ASSUME NEW S, NEW s \in Seq(S), NEW i \in DOMAIN s
    PROVE  /\ RemoveAt(s, i) \in Seq(S)
           /\ \A j \in DOMAIN RemoveAt(s, i) :
                 LET k == IF j < i THEN j ELSE j + 1
                 IN  k \in DOMAIN s /\ RemoveAt(s, i)[j] = s[k]
<1>1. i \in 1..Len(s) /\ Len(s) \in Nat
  OBVIOUS
<1>2. /\ SubSeq(s, 1, i - 1) \in Seq(S) /\ Len(SubSeq(s, 1, i - 1)) = i - 1
      /\ \A j \in 1..(i - 1) : SubSeq(s, 1, i - 1)[j] = s[j]
  BY <1>1
<1>3. /\ SubSeq(s, i + 1, Len(s)) \in Seq(S) /\ Len(SubSeq(s, i + 1, Len(s))) = Len(s) - i
      /\ \A j \in 1..(Len(s) - i) : SubSeq(s, i + 1, Len(s))[j] = s[i + j]
  BY <1>1
<1> DEFINE a == SubSeq(s, 1, i - 1)
           b == SubSeq(s, i + 1, Len(s))
<1>4. RemoveAt(s, i) = a \o b
  BY DEF RemoveAt
<1>5. /\ a \in Seq(S) /\ Len(a) = i - 1 /\ \A j \in 1..(i - 1) : a[j] = s[j]
      /\ b \in Seq(S) /\ Len(b) = Len(s) - i /\ \A j \in 1..(Len(s) - i) : b[j] = s[i + j]
  BY <1>2, <1>3
<1> HIDE DEF a, b
<1>6. /\ a \o b \in Seq(S) /\ Len(a \o b) = Len(s) - 1
      /\ \A j \in 1..(Len(s) - 1) : (a \o b)[j] = IF j < i THEN a[j] ELSE b[j - (i - 1)]
  <2>1. Len(a) \in Nat /\ Len(b) \in Nat /\ Len(a) + Len(b) = Len(s) - 1
    BY <1>1, <1>5
  <2>2. ASSUME NEW j \in 1..(Len(s) - 1)
        PROVE  (a \o b)[j] = IF j < i THEN a[j] ELSE b[j - (i - 1)]
    <3>0. j \in 1..(Len(a) + Len(b)) /\ a \in Seq(S) /\ b \in Seq(S)
      BY <1>5, <2>1
    <3>1. (a \o b)[j] = IF j <= Len(a) THEN a[j] ELSE b[j - Len(a)]
      BY <3>0, Joined
    <3>2. j <= Len(a) <=> j < i
      BY <1>1, <1>5
    <3> QED
      BY <1>5, <3>1, <3>2
  <2> QED
    BY <1>5, <2>1, <2>2, Joined
<1>7. DOMAIN RemoveAt(s, i) = 1..(Len(s) - 1)
  BY <1>4, <1>6, <1>1
<1>8. ASSUME NEW j \in DOMAIN RemoveAt(s, i)
      PROVE  LET k == IF j < i THEN j ELSE j + 1
             IN  k \in DOMAIN s /\ RemoveAt(s, i)[j] = s[k]
  <2>1. CASE j < i
    BY <1>1, <1>4, <1>5, <1>6, <1>7, <2>1
  <2>2. CASE ~(j < i)
    <3>1. j - (i - 1) \in 1..(Len(s) - i) /\ i + (j - (i - 1)) = j + 1 /\ j \in 1..(Len(s) - 1)
      BY <1>1, <1>7, <2>2
    <3>2. RemoveAt(s, i)[j] = b[j - (i - 1)]
      BY <1>4, <1>6, <2>2, <3>1
    <3>3. b[j - (i - 1)] = s[j + 1]
      BY <1>5, <3>1
    <3>4. j + 1 \in DOMAIN s
      BY <1>1, <3>1
    <3> QED
      BY <2>2, <3>2, <3>3, <3>4
  <2> QED
    BY <2>1, <2>2
<1> QED
  BY <1>4, <1>6, <1>8

-----------------------------------------------------------------------------
(* The invariant is inductive.                                             *)

LEMMA IInvInit == Init => IInv
<1> SUFFICES ASSUME Init PROVE IInv
  OBVIOUS
<1>1. Shape
  BY DEF Init, Shape, NoRegistration
<1>2. CheckedAlone /\ LeasedCurrent
  BY DEF Init, CheckedAlone, LeasedCurrent, NoRegistration
<1> QED
  BY <1>1, <1>2 DEF IInv

\* What every action that leaves the profiles alone has to keep.
LEMMA KeepsProfiles ==
    ASSUME IInv, UNCHANGED <<profiles, inventory>>,
           DOMAIN registrar' = Registrars,
           \A r \in Registrars : {"stage", "candidate", "inventory"} \subseteq DOMAIN registrar'[r],
           \A r \in Registrars :
              \/ registrar'[r] = registrar[r]
              \/ /\ registrar'[r].stage \notin {"leased", "checked"}
    PROVE  IInv'
<1>1. Shape'
  BY DEF IInv, Shape
<1>2. CheckedAlone'
  BY DEF IInv, CheckedAlone, Named
<1>3. LeasedCurrent'
  BY DEF IInv, LeasedCurrent
<1> QED
  BY <1>1, <1>2, <1>3 DEF IInv

\* A registration that moves to a stage without a lease and without the registry's lock.
LEMMA KeepsBecoming ==
    ASSUME IInv, UNCHANGED <<profiles, inventory>>, NEW r \in Registrars, NEW next,
           Become(r, next), {"stage", "candidate", "inventory"} \subseteq DOMAIN next,
           next.stage \notin {"leased", "checked"}
    PROVE  IInv'
<1>1. DOMAIN registrar' = Registrars
  BY DEF IInv, Shape, Become
<1>2. \A q \in Registrars : registrar'[q] = IF q = r THEN next ELSE registrar[q]
  BY DEF IInv, Shape, Become
<1> QED
  BY <1>1, <1>2, KeepsProfiles DEF IInv, Shape

\* The window and other instances change the profiles while the registry is not locked.
LEMMA ChangeKeeps ==
    ASSUME IInv, Unlocked, UNCHANGED <<registrar, inventory>>,
           \E S : profiles' \in Seq(S)
    PROVE  IInv'
<1>1. Shape'
  BY DEF IInv, Shape
<1>2. CheckedAlone'
  BY DEF IInv, CheckedAlone, Unlocked
<1>3. LeasedCurrent'
  BY DEF IInv, LeasedCurrent
<1> QED
  BY <1>1, <1>2, <1>3 DEF IInv

LEMMA CreateKeeps == ASSUME IInv, NEW draft \in Drafts, CreateProfile(draft) PROVE IInv'
<1>1. Unlocked /\ UNCHANGED <<registrar, inventory>> /\ profiles' = Append(profiles, draft)
  BY DEF CreateProfile, Change, outside
<1>2. PICK S : profiles \in Seq(S)
  BY DEF IInv, Shape
<1>3. profiles' \in Seq(S \cup {draft})
  BY <1>1, <1>2, AppendOne
<1> QED
  BY <1>1, <1>3, ChangeKeeps

LEMMA UpdateKeeps ==
    ASSUME IInv, NEW i \in DOMAIN profiles, NEW draft, NEW fields,
           UpdateProfile(i, draft, fields)
    PROVE  IInv' /\ DOMAIN profiles' = DOMAIN profiles
<1> DEFINE patched == Patched(profiles[i], draft, fields)
<1>1. /\ Unlocked /\ UNCHANGED <<registrar, inventory>>
      /\ profiles' = [profiles EXCEPT ![i] = patched]
  BY DEF UpdateProfile, Change, outside
<1> HIDE DEF patched
<1>2. PICK S : profiles \in Seq(S)
  BY DEF IInv, Shape
<1>3. profiles' \in Seq(S \cup {patched}) /\ DOMAIN profiles' = DOMAIN profiles
  <2>1. profiles \in Seq(S \cup {patched}) /\ patched \in S \cup {patched}
    BY <1>2
  <2> QED
    BY <1>1, <2>1
<1> QED
  BY <1>1, <1>3, ChangeKeeps

LEMMA RemoveKeeps ==
    ASSUME IInv, NEW i \in DOMAIN profiles, RemoveProfile(i)
    PROVE  IInv' /\ DOMAIN profiles' \subseteq DOMAIN profiles
<1>1. Unlocked /\ UNCHANGED <<registrar, inventory>> /\ profiles' = RemoveAt(profiles, i)
  BY DEF RemoveProfile, Change, outside
<1>2. PICK S : profiles \in Seq(S)
  BY DEF IInv, Shape
<1>3. /\ profiles' \in Seq(S)
      /\ \A j \in DOMAIN profiles' :
            LET k == IF j < i THEN j ELSE j + 1 IN k \in DOMAIN profiles
  BY <1>1, <1>2, RemoveOne
<1>4. ASSUME NEW j \in DOMAIN profiles' PROVE j \in DOMAIN profiles
  BY <1>2, <1>3
<1> QED
  BY <1>1, <1>3, <1>4, ChangeKeeps

\* A publication waits for the leases.
LEMMA PublishKeeps ==
    ASSUME IInv, NEW s, NEW list, Publish(s, list) PROVE IInv'
<1>1. NoLease /\ UNCHANGED <<profiles, registrar>>
  BY DEF Publish
<1>2. Shape' /\ CheckedAlone'
  BY <1>1 DEF IInv, Shape, CheckedAlone, Named
<1>3. LeasedCurrent'
  BY <1>1 DEF LeasedCurrent, NoLease
<1> QED
  BY <1>2, <1>3 DEF IInv

LEMMA LeaseKeeps == ASSUME IInv, NEW r \in Registrars, LeaseCandidate(r) PROVE IInv'
<1> DEFINE next == [registrar[r] EXCEPT !.stage = "leased", !.inventory = inventory]
<1>1. /\ UNCHANGED <<profiles, inventory>> /\ DOMAIN registrar' = Registrars
      /\ \A q \in Registrars : registrar'[q] = IF q = r THEN next ELSE registrar[q]
  BY DEF LeaseCandidate, RegistersOnly, Become, outside, IInv, Shape
<1>2. /\ {"stage", "candidate", "inventory"} \subseteq DOMAIN next
      /\ next.stage = "leased" /\ next.inventory = inventory
  BY DEF IInv, Shape
<1> HIDE DEF next
<1>3. Shape'
  BY <1>1, <1>2 DEF IInv, Shape
<1>4. CheckedAlone'
  BY <1>1, <1>2 DEF IInv, CheckedAlone, Named
<1>5. LeasedCurrent'
  BY <1>1, <1>2 DEF IInv, LeasedCurrent
<1> QED
  BY <1>3, <1>4, <1>5 DEF IInv

LEMMA CheckKeeps == ASSUME IInv, NEW r \in Registrars, CheckCandidate(r) PROVE IInv'
<1> DEFINE next == [registrar[r] EXCEPT !.stage = "checked", !.inventory = NoInventory]
<1>1. /\ UNCHANGED <<profiles, inventory>> /\ DOMAIN registrar' = Registrars
      /\ \A q \in Registrars : registrar'[q] = IF q = r THEN next ELSE registrar[q]
  BY DEF CheckCandidate, RegistersOnly, Become, outside, IInv, Shape
<1>2. /\ {"stage", "candidate", "inventory"} \subseteq DOMAIN next
      /\ next.stage = "checked" /\ next.candidate = registrar[r].candidate
  BY DEF IInv, Shape
<1>3. Unlocked /\ Named(profiles, registrar[r].candidate.name) = {}
  BY RegistrableHasNoProfile DEF CheckCandidate, Writable
<1> HIDE DEF next
<1>4. Shape'
  BY <1>1, <1>2 DEF IInv, Shape
<1>5. CheckedAlone'
  BY <1>1, <1>2, <1>3 DEF IInv, CheckedAlone, Named, Unlocked
<1>6. LeasedCurrent'
  BY <1>1, <1>2 DEF IInv, LeasedCurrent
<1> QED
  BY <1>4, <1>5, <1>6 DEF IInv

\* The write adds one profile, under a name that no other has, and ends the registry's lock.
LEMMA WriteKeeps ==
    ASSUME IInv, NEW r \in Registrars, NEW outcome,
           registrar[r].stage = "checked", WriteProfile(r), Outcome(r, outcome)
    PROVE  /\ IInv'
           /\ \A i \in DOMAIN profiles' \ DOMAIN profiles, j \in DOMAIN profiles :
                 profiles[j].name # profiles'[i].name
<1> DEFINE c == registrar[r].candidate
           next == IF registrar[r].automatic
                   THEN [registrar[r] EXCEPT !.stage = "done", !.outcome = outcome,
                                             !.inventory = NoInventory]
                   ELSE NoRegistration
<1>1. /\ UNCHANGED inventory /\ DOMAIN registrar' = Registrars
      /\ \A q \in Registrars : registrar'[q] = IF q = r THEN next ELSE registrar[q]
      /\ profiles' = Append(profiles, Discovered(c))
  BY DEF WriteProfile, Outcome, Become, outside, IInv, Shape
<1>2. /\ {"stage", "candidate", "inventory"} \subseteq DOMAIN next
      /\ next.stage \notin {"leased", "checked"}
  BY DEF IInv, Shape, NoRegistration
<1> HIDE DEF next
<1>3. PICK S : profiles \in Seq(S)
  BY DEF IInv, Shape
<1>4. /\ profiles' \in Seq(S \cup {Discovered(c)})
      /\ DOMAIN profiles' = DOMAIN profiles \cup {Len(profiles) + 1}
      /\ \A i \in DOMAIN profiles : profiles'[i] = profiles[i]
      /\ profiles'[Len(profiles) + 1] = Discovered(c)
  BY <1>1, <1>3, AppendOne
<1>5. \A i \in DOMAIN profiles : profiles[i].name # c.name
  BY DEF IInv, CheckedAlone, Named
<1>6. Discovered(c).name = c.name
  BY DEF Discovered
<1>7. Shape'
  BY <1>1, <1>2, <1>4 DEF IInv, Shape
<1>8. CheckedAlone'
  BY <1>1, <1>2 DEF IInv, CheckedAlone
<1>9. LeasedCurrent'
  BY <1>1, <1>2 DEF IInv, LeasedCurrent
<1>10. \A i \in DOMAIN profiles' \ DOMAIN profiles, j \in DOMAIN profiles :
          profiles[j].name # profiles'[i].name
  BY <1>4, <1>5, <1>6
<1> QED
  BY <1>7, <1>8, <1>9, <1>10 DEF IInv

\* One step for each action of a registration.
LEMMA RegistrationKeeps == ASSUME IInv, NEW r \in Registrars, Registration(r) PROVE IInv'
<1>0. {"stage", "candidate", "inventory"} \subseteq DOMAIN registrar[r]
  BY DEF IInv, Shape
<1>1. ASSUME NEW k \in DOMAIN state.scheduled, ClaimSchedule(r, k) PROVE IInv'
  <2> DEFINE next == [NoRegistration EXCEPT !.stage = "claimed", !.automatic = TRUE,
                                            !.schedule = k, !.todo = state.scheduled[k]]
  <2>1. Become(r, next) /\ UNCHANGED <<profiles, inventory>>
    BY <1>1 DEF ClaimSchedule, Become, outside
  <2>2. {"stage", "candidate", "inventory"} \subseteq DOMAIN next /\ next.stage = "claimed"
    BY DEF NoRegistration
  <2> HIDE DEF next
  <2> QED
    BY <2>1, <2>2, KeepsBecoming
<1>2. ASSUME NEW c \in registrar[r].todo, NextCandidate(r, c) PROVE IInv'
  <2> DEFINE next == [registrar[r] EXCEPT !.stage = "requested", !.candidate = c,
                                          !.todo = @ \ {c}]
  <2>1. Become(r, next) /\ UNCHANGED <<profiles, inventory>>
    BY <1>2 DEF NextCandidate, RegistersOnly, outside
  <2>2. {"stage", "candidate", "inventory"} \subseteq DOMAIN next /\ next.stage = "requested"
    BY <1>0
  <2> HIDE DEF next
  <2> QED
    BY <2>1, <2>2, KeepsBecoming
<1>3. ASSUME NEW c \in state.candidates, RequestRegistration(r, c) PROVE IInv'
  <2> DEFINE next == [NoRegistration EXCEPT !.stage = "requested", !.candidate = c]
  <2>1. Become(r, next) /\ UNCHANGED <<profiles, inventory>>
    BY <1>3 DEF RequestRegistration, outside
  <2>2. {"stage", "candidate", "inventory"} \subseteq DOMAIN next /\ next.stage = "requested"
    BY DEF NoRegistration
  <2> HIDE DEF next
  <2> QED
    BY <2>1, <2>2, KeepsBecoming
<1>4. CASE EndSchedule(r)
  <2>1. Become(r, NoRegistration) /\ UNCHANGED <<profiles, inventory>>
    BY <1>4 DEF EndSchedule, RegistersOnly, outside
  <2>2. /\ {"stage", "candidate", "inventory"} \subseteq DOMAIN NoRegistration
        /\ NoRegistration.stage = "idle"
    BY DEF NoRegistration
  <2> QED
    BY <2>1, <2>2, KeepsBecoming
<1>5. ASSUME NEW outcome, Outcome(r, outcome), UNCHANGED <<profiles, inventory>> PROVE IInv'
  <2> DEFINE next == IF registrar[r].automatic
                     THEN [registrar[r] EXCEPT !.stage = "done", !.outcome = outcome,
                                               !.inventory = NoInventory]
                     ELSE NoRegistration
  <2>1. Become(r, next)
    BY <1>5 DEF Outcome
  <2>2. /\ {"stage", "candidate", "inventory"} \subseteq DOMAIN next
        /\ next.stage \notin {"leased", "checked"}
    BY <1>0 DEF NoRegistration
  <2> HIDE DEF next
  <2> QED
    BY <1>5, <2>1, <2>2, KeepsBecoming
<1>6. CASE RefuseCandidate(r)
  BY <1>5, <1>6 DEF RefuseCandidate, RegistersOnly, outside
<1>7. CASE RejectCandidate(r)
  BY <1>5, <1>7 DEF RejectCandidate, RegistersOnly, outside
<1>8. ASSUME NEW outcome, RegistryFails(r, outcome) PROVE IInv'
  BY <1>5, <1>8 DEF RegistryFails, RegistersOnly, outside
<1>9. CASE RegisterSucceeds(r)
  BY <1>9, WriteKeeps DEF RegisterSucceeds, At
<1>10. CASE RegisterFails(r)
  <2>1. CASE WriteProfile(r)
    BY <1>10, <2>1, WriteKeeps DEF RegisterFails, At
  <2>2. CASE RegistersOnly
    BY <1>5, <1>10, <2>2 DEF RegisterFails, RegistersOnly, outside
  <2> QED
    BY <1>10, <2>1, <2>2 DEF RegisterFails
<1>11. CASE CompleteAutoCandidate(r)
  <2> DEFINE next == [registrar[r] EXCEPT !.stage = "claimed", !.candidate = None,
                                          !.outcome = "none"]
  <2>1. Become(r, next) /\ UNCHANGED <<profiles, inventory>>
    BY <1>11 DEF CompleteAutoCandidate, outside
  <2>2. {"stage", "candidate", "inventory"} \subseteq DOMAIN next /\ next.stage = "claimed"
    BY <1>0
  <2> HIDE DEF next
  <2> QED
    BY <2>1, <2>2, KeepsBecoming
<1> QED
  BY <1>1, <1>2, <1>3, <1>4, <1>6, <1>7, <1>8, <1>9, <1>10, <1>11, LeaseKeeps, CheckKeeps
  DEF Registration

\* What discovery, its scheduler, the window and the shell do with their own state.
LEMMA SessionKeeps == IInv /\ Session => IInv'
<1> SUFFICES ASSUME IInv, Session PROVE IInv'
  OBVIOUS
<1>1. UNCHANGED <<profiles, inventory, registrar>>
  BY DEF Session, TakePublication, SkipPublication, Receive, ObserveSuccessfulPublication,
         ListInventory, ListProfiles, ObserveInventory, IgnoreCandidate,
         EnableAutoRegistration, DisableAutoRegistration, ReadSession,
         ObserveRuntimeSession, outside
<1> QED
  BY <1>1, KeepsProfiles DEF IInv, Shape

LEMMA EnvironmentKeeps == IInv /\ Environment => IInv'
<1> SUFFICES ASSUME IInv, Environment PROVE IInv'
  OBVIOUS
<1>1. CASE StartSession \/ EndSession
  <2>1. UNCHANGED <<profiles, inventory, registrar>>
    BY <1>1 DEF StartSession, EndSession
  <2> QED
    BY <2>1, KeepsProfiles DEF IInv, Shape
<1> QED
  BY <1>1, PublishKeeps, CreateKeeps, UpdateKeeps, RemoveKeeps DEF Environment

LEMMA IInvStep == IInv /\ [Next]_vars => IInv'
<1> SUFFICES ASSUME IInv, [Next]_vars PROVE IInv'
  OBVIOUS
<1>1. CASE UNCHANGED vars
  <2>1. UNCHANGED <<profiles, inventory, registrar>>
    BY <1>1 DEF vars, outside
  <2> QED
    BY <2>1, KeepsProfiles DEF IInv, Shape
<1> QED
  BY <1>1, RegistrationKeeps, SessionKeeps, EnvironmentKeeps DEF Next

LEMMA Inductive == Spec => []IInv
BY IInvInit, IInvStep, PTL DEF Spec

-----------------------------------------------------------------------------
(* The theorems.                                                           *)

\* A step that adds a discovered profile is the write of a registration that was checked.
LEMMA UnusedStep ==
    ASSUME IInv, [Next]_vars, NEW i \in DOMAIN profiles' \ DOMAIN profiles,
           profiles'[i].origin = "Discovered", NEW j \in DOMAIN profiles
    PROVE  profiles[j].name # profiles'[i].name
<1>1. ASSUME UNCHANGED profiles PROVE FALSE
  BY <1>1
<1>2. ASSUME NEW r \in Registrars, Registration(r) PROVE profiles[j].name # profiles'[i].name
  <2>1. PICK outcome : /\ registrar[r].stage = "checked"
                       /\ WriteProfile(r) /\ Outcome(r, outcome)
    BY <1>1, <1>2 DEF Registration, At, ClaimSchedule, NextCandidate, RequestRegistration,
           EndSchedule, LeaseCandidate, RefuseCandidate, CheckCandidate, RejectCandidate,
           RegistryFails, RegisterSucceeds, RegisterFails, CompleteAutoCandidate, RegistersOnly
  <2> QED
    BY <2>1, WriteKeeps
<1>3. ASSUME NEW draft \in Drafts, CreateProfile(draft) PROVE FALSE
  <2>1. PICK S : profiles \in Seq(S)
    BY DEF IInv, Shape
  <2>2. profiles' = Append(profiles, draft) /\ draft.origin # "Discovered"
    BY <1>3, DraftsAssumption DEF CreateProfile, Change
  <2>3. /\ DOMAIN profiles' = DOMAIN profiles \cup {Len(profiles) + 1}
        /\ profiles'[Len(profiles) + 1] = draft
    BY <2>1, <2>2, AppendOne
  <2> QED
    BY <2>2, <2>3
<1>4. ASSUME NEW k \in DOMAIN profiles, RemoveProfile(k) PROVE FALSE
  BY <1>4, RemoveKeeps
<1>5. ASSUME NEW k \in DOMAIN profiles, NEW draft, NEW fields, UpdateProfile(k, draft, fields)
      PROVE  FALSE
  BY <1>5, UpdateKeeps
<1>6. CASE Environment
  BY <1>1, <1>3, <1>4, <1>5, <1>6 DEF Environment, StartSession, EndSession, Publish
<1>7. CASE Session \/ UNCHANGED vars
  BY <1>1, <1>7
  DEF Session, TakePublication, SkipPublication, Receive, ObserveSuccessfulPublication,
      ListInventory, ListProfiles, ObserveInventory, IgnoreCandidate, EnableAutoRegistration,
      DisableAutoRegistration, ReadSession, ObserveRuntimeSession, vars
<1> QED
  BY <1>2, <1>6, <1>7 DEF Next

\* A registration writes under a name that no profile has at that moment, though users
\* create and rename profiles meanwhile: RegisterCandidate classifies again under the
\* registry's lock, and keeps the lock until it has written.
THEOREM WritesUnusedName == Spec => RegistersUnusedName
<1>1. IInv /\ [Next]_vars =>
        [\A i \in DOMAIN profiles' \ DOMAIN profiles :
            profiles'[i].origin = "Discovered" =>
            \A j \in DOMAIN profiles : profiles[j].name # profiles'[i].name]_vars
  BY UnusedStep
<1> QED
  BY Inductive, <1>1, PTL DEF Spec, RegistersUnusedName

\* A registration leaves the others alone.
LEMMA OthersStay ==
    ASSUME IInv, NEW q \in Registrars, Registration(q), NEW r \in Registrars, r # q
    PROVE  registrar'[r] = registrar[r]
<1>1. \E next : Become(q, next)
  <2>1. ASSUME NEW outcome, Outcome(q, outcome) PROVE \E next : Become(q, next)
    BY <2>1 DEF Outcome
  <2> QED
    BY <2>1 DEF Registration, ClaimSchedule, NextCandidate, RequestRegistration, EndSchedule,
           LeaseCandidate, RefuseCandidate, CheckCandidate, RejectCandidate, RegistryFails,
           RegisterSucceeds, RegisterFails, CompleteAutoCandidate, Become
<1> QED
  BY <1>1 DEF Become, IInv, Shape

\* A step that passes the check has a candidate of the published inventory to show.
LEMMA EvidenceStep ==
    ASSUME IInv, [Next]_vars, NEW r \in Registrars,
           registrar[r].stage = "leased", registrar'[r].stage = "checked"
    PROVE  /\ session = inventory.session
           /\ \E d \in Classify(inventory, profiles) :
                 Key(d) = Key(registrar[r].candidate) /\ d.class = "NewUnambiguous"
<1> DEFINE c == registrar[r].candidate
<1>1. CheckCandidate(r)
  <2>1. ~UNCHANGED registrar
    OBVIOUS
  <2>2. PICK q \in Registrars : Registration(q)
    BY <2>1 DEF Next, vars, Session, TakePublication, SkipPublication, Receive,
           ObserveSuccessfulPublication, ListInventory, ListProfiles, ObserveInventory,
           IgnoreCandidate, EnableAutoRegistration, DisableAutoRegistration, ReadSession,
           ObserveRuntimeSession, Environment, StartSession, EndSession, Publish,
           CreateProfile, UpdateProfile, RemoveProfile, Change
  <2>3. Registration(r)
    BY <2>2, OthersStay
  <2>4. ASSUME NEW outcome, Outcome(r, outcome) PROVE FALSE
    <3>1. registrar'[r].stage \in {"done", "idle"}
      BY <2>4 DEF Outcome, Become, NoRegistration, IInv, Shape
    <3> QED
      BY <3>1
  <2> QED
    BY <2>3, <2>4 DEF Registration, At, ClaimSchedule, NextCandidate, RequestRegistration,
           EndSchedule, LeaseCandidate, RefuseCandidate, RejectCandidate, RegistryFails,
           RegisterSucceeds, RegisterFails, CompleteAutoCandidate
<1>2. registrar[r].inventory = inventory
  BY DEF IInv, LeasedCurrent
<1>3. /\ session = c.session /\ inventory.session = c.session
      /\ \E d \in Matches(inventory, profiles, c) : d.class = "NewUnambiguous"
  BY <1>1, <1>2 DEF CheckCandidate, Writable, Valid, Registrable
<1> QED
  BY <1>3 DEF Matches, Key

\* Nothing is registered on an inventory that is not the published one, or of a session
\* that has ended: the lease holds publications back until the check.
THEOREM EvidenceHolds == Spec => RegisteredOnEvidence
<1>1. IInv /\ [Next]_vars =>
        [\A r \in Registrars :
            (registrar[r].stage = "leased" /\ registrar'[r].stage = "checked") =>
            /\ session = inventory.session
            /\ \E d \in Classify(inventory, profiles) :
                  /\ Key(d) = Key(registrar[r].candidate)
                  /\ d.class = "NewUnambiguous"]_vars
  BY EvidenceStep
<1> QED
  BY Inductive, <1>1, PTL DEF Spec, RegisteredOnEvidence

-----------------------------------------------------------------------------
(* Sessions do not mix.  Isolated is SessionIsolated of any State.         *)

Isolated(st) ==
    /\ {"active", "generation", "candidates", "ignored", "enabled", "last", "scheduled",
        "auto"} \subseteq DOMAIN st
    /\ \A c \in st.candidates : "session" \in DOMAIN c /\ c.session = st.active
    /\ \A id \in st.ignored : id[1] = st.active
    /\ \A k \in DOMAIN st.auto : k[1][1] = st.active
    /\ \A k \in DOMAIN st.scheduled :
          k[1] = st.active /\ \A c \in st.scheduled[k] : c.session = st.active

LEMMA ClearedIsolated == ASSUME NEW st, Isolated(st) PROVE Isolated(Cleared(st))
BY DEF Isolated, Cleared, Empty

LEMMA SynchronizedIsolated ==
    ASSUME NEW st, NEW s, Isolated(st)
    PROVE  Isolated(Synchronized(st, s)) /\ Synchronized(st, s).active = s
<1>1. CASE st.active = s
  BY <1>1 DEF Synchronized
<1>2. CASE st.active # s
  BY <1>2 DEF Synchronized, Isolated, Cleared, Empty
<1> QED
  BY <1>1, <1>2

\* classify_candidates makes candidates of the inventory's session.
LEMMA ObservedOfSession ==
    ASSUME NEW st, NEW inv, NEW known, NEW c \in Observed(st, inv, known)
    PROVE  "session" \in DOMAIN c /\ c.session = inv.session
<1>1. PICK d \in Classify(inv, known) : c = [d EXCEPT !.ignored = Id(d) \in st.ignored]
  BY DEF Observed
<1> DEFINE obs == Observations(inv)
<1>2. PICK o \in Representatives(obs) :
         d = [session |-> inv.session, generation |-> inv.generation,
              name |-> o.name, directory |-> o.directory, files |-> o.files,
              class |-> Classification(obs, known, o), ignored |-> FALSE]
  BY DEF Classify
<1> QED
  BY <1>1, <1>2

LEMMA InstalledIsolated ==
    ASSUME NEW st, NEW inv, NEW known, Isolated(st), st.active = inv.session
    PROVE  /\ Isolated(Installed(st, inv, known))
           /\ Installed(st, inv, known).active = inv.session
<1> DEFINE new == Observed(st, inv, known)
<1>1. \A c \in new : "session" \in DOMAIN c /\ c.session = inv.session
  BY ObservedOfSession
<1> HIDE DEF new
<1>2. Installed(st, inv, known) = [st EXCEPT !.generation = inv.generation, !.candidates = new]
  BY DEF Installed, new
<1> QED
  BY <1>1, <1>2 DEF Isolated

LEMMA PublishedIsolated ==
    ASSUME NEW inv, NEW known, Isolated(state)
    PROVE  Isolated(Published(inv, known))
<1> DEFINE synced == Synchronized(state, inv.session)
           fresh == IF synced.generation = 0 \/ synced.generation >= inv.generation THEN synced
                    ELSE [synced EXCEPT !.auto = NotPending(@), !.scheduled = Empty]
           installed == Installed(fresh, inv, known)
           next == [installed EXCEPT !.last = inv.generation]
           chosen == Chosen(next)
           k == <<inv.session, inv.generation>>
           full == [next EXCEPT !.scheduled = With(@, {k}, chosen)]
<1>1. Isolated(synced) /\ synced.active = inv.session
  BY SynchronizedIsolated
<1>2. Isolated(fresh) /\ fresh.active = inv.session
  <2>1. \A f, K : DOMAIN Without(f, K) \subseteq DOMAIN f
    BY DEF Without
  <2>2. DOMAIN NotPending(synced.auto) \subseteq DOMAIN synced.auto
    BY <2>1 DEF NotPending
  <2> HIDE DEF synced
  <2> QED
    BY <1>1, <2>2 DEF Isolated, Empty
<1> HIDE DEF fresh, synced
<1>3. Isolated(installed) /\ installed.active = inv.session
  BY <1>2, InstalledIsolated
<1> HIDE DEF installed
<1>4. Isolated(next) /\ next.active = inv.session
  BY <1>3 DEF Isolated
<1>5. chosen \subseteq next.candidates
  BY DEF Chosen
<1> HIDE DEF next, chosen
<1>6. Isolated(full)
  <2> DEFINE table == With(next.scheduled, {k}, chosen)
  <2>1. DOMAIN table = DOMAIN next.scheduled \cup {k}
    BY DEF With
  <2>2. \A j \in DOMAIN table : table[j] = IF j \in {k} THEN chosen ELSE next.scheduled[j]
    BY DEF With
  <2>4. full = [next EXCEPT !.scheduled = table]
    OBVIOUS
  <2>5. k[1] = inv.session
    OBVIOUS
  <2> HIDE DEF table, k
  <2>3. ASSUME NEW j \in DOMAIN table
        PROVE  j[1] = next.active /\ \A c \in table[j] : c.session = next.active
    <3>1. CASE j = k
      BY <1>4, <1>5, <2>2, <2>5, <3>1 DEF Isolated
    <3>2. CASE j # k
      BY <1>4, <2>1, <2>2, <3>2 DEF Isolated
    <3> QED
      BY <3>1, <3>2
  <2> QED
    BY <1>4, <2>3, <2>4 DEF Isolated
<1>7. Published(inv, known) \in {synced, next, full}
  BY DEF Published, synced, fresh, installed, next, chosen
<1> QED
  BY <1>1, <1>4, <1>6, <1>7

\* One step for each critical section.
LEMMA IsolatedStep == ASSUME Isolated(state), [Next]_vars PROVE Isolated(state')
<1>1. CASE ObserveSuccessfulPublication
  BY <1>1, PublishedIsolated DEF ObserveSuccessfulPublication
<1>2. ASSUME NEW l \in Listers, ObserveInventory(l) PROVE Isolated(state')
  BY <1>2, SynchronizedIsolated, InstalledIsolated DEF ObserveInventory
<1>3. ASSUME NEW c \in state.candidates, IgnoreCandidate(c) PROVE Isolated(state')
  <2> DEFINE marked == {IF Id(d) = Id(c) THEN [d EXCEPT !.ignored = TRUE] ELSE d :
                          d \in state.candidates}
  <2>1. state' = [state EXCEPT !.ignored = @ \cup {Id(c)}, !.candidates = marked]
    BY <1>3 DEF IgnoreCandidate
  <2>2. Id(c)[1] = state.active
    BY DEF Id, Isolated
  <2>3. \A d \in marked : "session" \in DOMAIN d /\ d.session = state.active
    BY DEF Isolated
  <2> HIDE DEF marked
  <2> QED
    BY <2>1, <2>2, <2>3 DEF Isolated
<1>4. CASE EnableAutoRegistration
  BY <1>4 DEF EnableAutoRegistration, Isolated
<1>5. CASE DisableAutoRegistration
  BY <1>5 DEF DisableAutoRegistration, Isolated, NotPending, Without, Empty
<1>6. CASE ObserveRuntimeSession
  BY <1>6, ClearedIsolated, SynchronizedIsolated DEF ObserveRuntimeSession
<1>7. ASSUME NEW r \in Registrars, NEW k \in DOMAIN state.scheduled, ClaimSchedule(r, k)
      PROVE  Isolated(state')
  <2> DEFINE keys == {Key(c) : c \in state.scheduled[k]}
             auto == With(state.auto, keys, Pending)
             scheduled == ScheduleTaken(k)
  <2>1. state' = [state EXCEPT !.scheduled = scheduled, !.auto = auto]
    BY <1>7 DEF ClaimSchedule
  <2>2. \A j \in keys : j[1][1] = state.active
    BY DEF Isolated, Key, Id
  <2>3. DOMAIN auto = DOMAIN state.auto \cup keys
    BY DEF With
  <2>4. /\ DOMAIN scheduled \subseteq DOMAIN state.scheduled
        /\ \A j \in DOMAIN scheduled : scheduled[j] = state.scheduled[j]
    BY DEF ScheduleTaken, Without
  <2> HIDE DEF keys, auto, scheduled
  <2> QED
    BY <2>1, <2>2, <2>3, <2>4 DEF Isolated
<1>8. ASSUME NEW r \in Registrars, CompleteAutoCandidate(r) PROVE Isolated(state')
  <2> DEFINE c == registrar[r].candidate
             k == registrar[r].schedule
  <2>1. state' = Completed(state, k, c, registrar[r].outcome)
    BY <1>8 DEF CompleteAutoCandidate
  <2> HIDE DEF c, k
  <2> QED
    BY <2>1 DEF Completed, Isolated
<1>9. ASSUME ~\E r \in Registrars : \/ \E k \in DOMAIN state.scheduled : ClaimSchedule(r, k)
                                    \/ CompleteAutoCandidate(r),
             NEW r \in Registrars, Registration(r)
      PROVE  UNCHANGED state
  BY <1>9 DEF Registration, NextCandidate, RequestRegistration, EndSchedule,
         LeaseCandidate, RefuseCandidate, CheckCandidate, RejectCandidate, RegistryFails,
         RegisterSucceeds, RegisterFails, WriteProfile, RegistersOnly
<1>10. CASE UNCHANGED state
  BY <1>10
<1>11. CASE Environment
  BY <1>10, <1>11 DEF Environment, StartSession, EndSession, Publish, CreateProfile,
         UpdateProfile, RemoveProfile, Change
<1>12. CASE Session
  BY <1>1, <1>2, <1>3, <1>4, <1>5, <1>6, <1>10, <1>12
  DEF Session, TakePublication, SkipPublication, Receive, ListInventory, ListProfiles,
      ReadSession
<1> QED
  BY <1>7, <1>8, <1>9, <1>10, <1>11, <1>12 DEF Next, vars

\* Nothing that discovery keeps is of another session than the active one, however late
\* a publication, a listing, a completion or the shell is.
THEOREM SessionsApart == Spec => []SessionIsolated
<1>1. Init => Isolated(state)
  BY DEF Init, Isolated, Empty
<1>2. Isolated(state) /\ [Next]_vars => Isolated(state)'
  BY IsolatedStep
<1>3. Isolated(state) => SessionIsolated
  BY DEF Isolated, SessionIsolated
<1> QED
  BY <1>1, <1>2, <1>3, PTL DEF Spec

-----------------------------------------------------------------------------
(* One attempt in a generation.  What is scheduled or was claimed is of    *)
(* publications that the scheduler has taken; those that it has still to   *)
(* take are newer, whatever a listing installs and the shell resets.       *)

\* A generation that was scheduled or claimed.
Used(g) == \/ \E k \in DOMAIN state.scheduled : k[2] = g
           \/ \E pair \in attempted : pair[2] = g

\* A generation that the scheduler has read and not yet scheduled.
InHand(g) == scheduler.stage = "loaded" /\ scheduler.inventory.generation = g

FeedOrdered ==
    /\ \E S : feed \in Seq(S)
    /\ inventory.generation \in Nat
    /\ \A i \in DOMAIN feed :
          feed[i].generation \in Nat /\ feed[i].generation <= inventory.generation
    /\ \A i, j \in DOMAIN feed : i < j => feed[i].generation < feed[j].generation
    /\ \A g : InHand(g) => /\ g \in Nat /\ g <= inventory.generation
                           /\ \A i \in DOMAIN feed : g < feed[i].generation

UsedBefore ==
    \A u : Used(u) => /\ u \in Nat /\ u <= inventory.generation
                      /\ \A i \in DOMAIN feed : u < feed[i].generation
                      /\ \A g : InHand(g) => u < g

\* What is scheduled is of the generation that it is scheduled for, which was not claimed yet.
ScheduledFits ==
    /\ \A k \in DOMAIN state.scheduled : \A c \in state.scheduled[k] : c.generation = k[2]
    /\ \A k, j \in DOMAIN state.scheduled : k[2] = j[2] => k = j
    /\ \A k \in DOMAIN state.scheduled, pair \in attempted : pair[2] # k[2]

OInv == FeedOrdered /\ UsedBefore /\ ScheduledFits

\* classify_candidates makes candidates of the inventory's generation.
LEMMA ObservedOfGeneration ==
    ASSUME NEW st, NEW inv, NEW known, NEW c \in Observed(st, inv, known)
    PROVE  c.generation = inv.generation
<1>1. PICK d \in Classify(inv, known) : c = [d EXCEPT !.ignored = Id(d) \in st.ignored]
  BY DEF Observed
<1> DEFINE obs == Observations(inv)
<1>2. PICK o \in Representatives(obs) :
         d = [session |-> inv.session, generation |-> inv.generation,
              name |-> o.name, directory |-> o.directory, files |-> o.files,
              class |-> Classification(obs, known, o), ignored |-> FALSE]
  BY DEF Classify
<1> QED
  BY <1>1, <1>2

\* next schedules nothing but what st scheduled, and possibly the publication k.
Adds(st, next, k) ==
    \A j \in DOMAIN next.scheduled :
        \/ j \in DOMAIN st.scheduled /\ next.scheduled[j] = st.scheduled[j]
        \/ j = k /\ \A c \in next.scheduled[j] : c.generation = k[2]

Keeps(st, next) ==
    \A j \in DOMAIN next.scheduled :
        j \in DOMAIN st.scheduled /\ next.scheduled[j] = st.scheduled[j]

LEMMA SynchronizedKeeps ==
    ASSUME NEW st, NEW s, Isolated(st)
    PROVE  Keeps(st, Synchronized(st, s)) /\ Keeps(st, Cleared(st))
BY DEF Keeps, Synchronized, Cleared, Empty, Isolated

LEMMA PublishedAdds ==
    ASSUME NEW inv, NEW known, Isolated(state)
    PROVE  Adds(state, Published(inv, known), <<inv.session, inv.generation>>)
<1> DEFINE synced == Synchronized(state, inv.session)
           fresh == IF synced.generation = 0 \/ synced.generation >= inv.generation THEN synced
                    ELSE [synced EXCEPT !.auto = NotPending(@), !.scheduled = Empty]
           installed == Installed(fresh, inv, known)
           next == [installed EXCEPT !.last = inv.generation]
           chosen == Chosen(next)
           k == <<inv.session, inv.generation>>
           full == [next EXCEPT !.scheduled = With(@, {k}, chosen)]
<1>1. Isolated(synced) /\ Adds(state, synced, k)
  BY SynchronizedIsolated, SynchronizedKeeps DEF Keeps, Adds
<1>2. /\ Adds(state, fresh, k)
      /\ {"active", "generation", "candidates", "ignored", "enabled", "last", "scheduled",
          "auto"} \subseteq DOMAIN fresh
  <2> HIDE DEF synced, k
  <2> QED
    BY <1>1 DEF Isolated, Adds, Empty
<1> DEFINE new == Observed(fresh, inv, known)
<1>3. /\ installed = [fresh EXCEPT !.generation = inv.generation, !.candidates = new]
      /\ \A c \in new : c.generation = inv.generation
  BY ObservedOfGeneration DEF Installed
<1> HIDE DEF fresh, synced, installed, new
<1>4. /\ next.scheduled = fresh.scheduled /\ next.candidates = new /\ "scheduled" \in DOMAIN next
      /\ Adds(state, next, k)
  BY <1>2, <1>3 DEF Adds
<1>5. chosen \subseteq new
  BY <1>4 DEF Chosen
<1> HIDE DEF next, chosen
<1>6. Adds(state, full, k)
  <2> DEFINE table == With(next.scheduled, {k}, chosen)
  <2>1. full.scheduled = table
    BY <1>4
  <2>2. /\ DOMAIN table = DOMAIN next.scheduled \cup {k}
        /\ \A j \in DOMAIN table : table[j] = IF j \in {k} THEN chosen ELSE next.scheduled[j]
    BY DEF With
  <2>3. k[2] = inv.generation
    OBVIOUS
  <2> HIDE DEF table, k, full
  <2> QED
    BY <1>3, <1>4, <1>5, <2>1, <2>2, <2>3 DEF Adds
<1>7. Published(inv, known) \in {synced, next, full}
  BY DEF Published, synced, fresh, installed, next, chosen
<1> QED
  BY <1>1, <1>4, <1>6, <1>7

LEMMA OInvInit == Init => OInv
<1> SUFFICES ASSUME Init PROVE OInv
  OBVIOUS
<1>1. FeedOrdered
  BY DEF Init, FeedOrdered, InHand, Idle, NoInventory, Inventory
<1>2. UsedBefore /\ ScheduledFits
  BY DEF Init, UsedBefore, Used, ScheduledFits, Empty
<1> QED
  BY <1>1, <1>2 DEF OInv

\* Steps that take no publication and claim nothing.
LEMMA OrderKeeps ==
    ASSUME OInv, UNCHANGED <<inventory, feed, scheduler, attempted>>, Keeps(state, state')
    PROVE  OInv'
<1>1. FeedOrdered'
  BY DEF OInv, FeedOrdered, InHand
<1>2. \A u : Used(u)' => Used(u)
  BY DEF Keeps, Used
<1>3. UsedBefore'
  BY <1>2 DEF OInv, UsedBefore, InHand
<1>4. ScheduledFits'
  BY DEF OInv, ScheduledFits, Keeps
<1> QED
  BY <1>1, <1>3, <1>4 DEF OInv

\* A publication is newer than all before; the feed may lose its oldest.
LEMMA PublishOrdered == ASSUME OInv, NEW s, NEW list, Publish(s, list) PROVE OInv'
<1> DEFINE all == Append(feed, inventory')
<1>1. /\ UNCHANGED <<scheduler, state, attempted>>
      /\ inventory.generation \in Nat /\ inventory'.generation = inventory.generation + 1
      /\ feed' = all \/ (Len(all) > FeedLimit /\ feed' = Tail(all))
  BY DEF Publish, Inventory, history, OInv, FeedOrdered
<1>2. PICK S : feed \in Seq(S)
  BY DEF OInv, FeedOrdered
<1>3. /\ all \in Seq(S \cup {inventory'}) /\ Len(all) = Len(feed) + 1 /\ Len(feed) \in Nat
      /\ \A i \in 1..Len(feed) : all[i] = feed[i]
      /\ all[Len(feed) + 1] = inventory'
  <2>1. feed \in Seq(S \cup {inventory'}) /\ inventory' \in S \cup {inventory'}
    BY <1>2
  <2> QED
    BY <2>1
<1> HIDE DEF all
<1>4. /\ DOMAIN all = 1..(Len(feed) + 1) /\ DOMAIN feed = 1..Len(feed)
  BY <1>2, <1>3
<1>5. /\ \A i \in DOMAIN all :
            all[i].generation \in Nat /\ all[i].generation <= inventory'.generation
      /\ \A i, j \in DOMAIN all : i < j => all[i].generation < all[j].generation
      /\ \A g : InHand(g) => g \in Nat /\ g <= inventory'.generation
                             /\ \A i \in DOMAIN all : g < all[i].generation
      /\ \A u : Used(u) => u \in Nat /\ u <= inventory'.generation
                           /\ \A i \in DOMAIN all : u < all[i].generation
  <2>1. \A i \in DOMAIN all :
           \/ i \in DOMAIN feed /\ all[i] = feed[i]
           \/ i = Len(feed) + 1 /\ all[i] = inventory'
    BY <1>3, <1>4
  <2>2. \A i \in DOMAIN all :
           all[i].generation \in Nat /\ all[i].generation <= inventory'.generation
    BY <1>1, <2>1 DEF OInv, FeedOrdered
  <2>3. ASSUME NEW i \in DOMAIN all, NEW j \in DOMAIN all, i < j
        PROVE  all[i].generation < all[j].generation
    <3>1. i \in DOMAIN feed /\ all[i] = feed[i]
      BY <1>3, <1>4, <2>1, <2>3
    <3>2. CASE j \in DOMAIN feed /\ all[j] = feed[j]
      BY <2>3, <3>1, <3>2 DEF OInv, FeedOrdered
    <3>3. CASE all[j] = inventory'
      BY <1>1, <3>1, <3>3 DEF OInv, FeedOrdered
    <3> QED
      BY <2>1, <3>2, <3>3
  <2>4. ASSUME NEW u, u \in Nat, u <= inventory.generation,
               \A i \in DOMAIN feed : u < feed[i].generation
        PROVE  /\ u <= inventory'.generation
               /\ \A i \in DOMAIN all : u < all[i].generation
    BY <1>1, <2>1, <2>4
  <2>5. \A g : InHand(g) => g \in Nat /\ g <= inventory'.generation
                            /\ \A i \in DOMAIN all : g < all[i].generation
    BY <2>4 DEF OInv, FeedOrdered
  <2>6. \A u : Used(u) => u \in Nat /\ u <= inventory'.generation
                          /\ \A i \in DOMAIN all : u < all[i].generation
    BY <2>4 DEF OInv, UsedBefore
  <2> QED
    BY <2>2, <2>3, <2>5, <2>6
<1>6. /\ feed' \in Seq(S \cup {inventory'})
      /\ \E d \in {0, 1} : \A i \in DOMAIN feed' : i \in Nat /\ i + d \in DOMAIN all /\ feed'[i] = all[i + d]
  <2>1. CASE feed' = all
    BY <1>3, <1>4, <2>1
  <2>2. CASE feed' = Tail(all)
    <3>1. all # <<>>
      BY <1>3
    <3>2. /\ Tail(all) \in Seq(S \cup {inventory'}) /\ DOMAIN Tail(all) = 1..Len(feed)
          /\ \A i \in 1..Len(feed) : Tail(all)[i] = all[i + 1]
      BY <1>3, <3>1
    <3> QED
      BY <1>3, <1>4, <2>2, <3>2
  <2> QED
    BY <1>1, <2>1, <2>2
<1>7. PICK d \in {0, 1} : \A i \in DOMAIN feed' : i \in Nat /\ i + d \in DOMAIN all /\ feed'[i] = all[i + d]
  BY <1>6
<1>8. FeedOrdered'
  <2>1. inventory'.generation \in Nat
    BY <1>1
  <2>2. \A g : InHand(g)' <=> InHand(g)
    BY <1>1 DEF InHand
  <2>3. \A i, j \in DOMAIN feed' : i < j => feed'[i].generation < feed'[j].generation
    BY <1>5, <1>7
  <2> QED
    BY <1>5, <1>6, <1>7, <2>1, <2>2, <2>3 DEF FeedOrdered
<1>9. UsedBefore'
  BY <1>1, <1>5, <1>7 DEF OInv, UsedBefore, Used, InHand
<1>10. ScheduledFits'
  BY <1>1 DEF OInv, ScheduledFits
<1> QED
  BY <1>8, <1>9, <1>10 DEF OInv

\* The scheduler takes the oldest publication, or lets it go.
LEMMA ReceiveOrdered ==
    ASSUME OInv, TakePublication \/ SkipPublication
    PROVE  OInv'
<1>1. /\ UNCHANGED <<inventory, state, attempted>> /\ feed # <<>> /\ feed' = Tail(feed)
      /\ \A g : ~InHand(g)
      /\ \A g : InHand(g)' => g = Head(feed).generation
  BY DEF TakePublication, SkipPublication, Receive, history, InHand
<1>2. PICK S : feed \in Seq(S)
  BY DEF OInv, FeedOrdered
<1>3. /\ feed' \in Seq(S) /\ DOMAIN feed = 1..Len(feed) /\ Len(feed) \in Nat \ {0}
      /\ DOMAIN feed' = 1..(Len(feed) - 1)
      /\ \A i \in DOMAIN feed' : feed'[i] = feed[i + 1]
      /\ Head(feed) = feed[1]
  BY <1>1, <1>2
<1>4. \A i \in DOMAIN feed' : i \in Nat /\ i + 1 \in DOMAIN feed /\ 1 < i + 1 /\ 1 \in DOMAIN feed
  BY <1>3
<1>5. /\ Head(feed).generation \in Nat /\ Head(feed).generation <= inventory.generation
      /\ \A i \in DOMAIN feed' : Head(feed).generation < feed'[i].generation
  BY <1>3, <1>4 DEF OInv, FeedOrdered
<1>6. FeedOrdered'
  <2>1. \A i, j \in DOMAIN feed' : i < j => feed'[i].generation < feed'[j].generation
    BY <1>3, <1>4 DEF OInv, FeedOrdered
  <2>2. \A i \in DOMAIN feed' : feed'[i].generation \in Nat /\ feed'[i].generation <= inventory.generation
    BY <1>3, <1>4 DEF OInv, FeedOrdered
  <2> QED
    BY <1>1, <1>3, <1>5, <2>1, <2>2 DEF OInv, FeedOrdered
<1>7. UsedBefore'
  <2>1. \A u : Used(u)' <=> Used(u)
    BY <1>1 DEF Used
  <2>2. \A u : Used(u) => u < Head(feed).generation
    BY <1>3 DEF OInv, UsedBefore
  <2>3. \A u : Used(u) => \A i \in DOMAIN feed' : u < feed'[i].generation
    BY <1>3, <1>4 DEF OInv, UsedBefore
  <2> QED
    BY <1>1, <2>1, <2>2, <2>3 DEF OInv, UsedBefore
<1>8. ScheduledFits'
  BY <1>1 DEF OInv, ScheduledFits
<1> QED
  BY <1>6, <1>7, <1>8 DEF OInv

\* What the scheduler adds is of the publication that it took, and of no other.
LEMMA ObserveOrdered ==
    ASSUME OInv, Isolated(state), ObserveSuccessfulPublication
    PROVE  OInv'
<1> DEFINE g == scheduler.inventory.generation
           k == <<scheduler.inventory.session, g>>
<1>1. /\ UNCHANGED <<inventory, feed, attempted>> /\ InHand(g) /\ \A n : ~InHand(n)'
      /\ Adds(state, state', k)
  <2>1. Adds(state, state, k)
    BY DEF Adds
  <2> QED
    BY <2>1, PublishedAdds DEF ObserveSuccessfulPublication, outside, history, InHand, Idle
<1>2. k[2] = g
  OBVIOUS
<1> HIDE DEF g, k
<1>3. /\ g \in Nat /\ g <= inventory.generation /\ \A i \in DOMAIN feed : g < feed[i].generation
      /\ \A u : Used(u) => u \in Nat /\ u < g
  BY <1>1 DEF OInv, FeedOrdered, UsedBefore
<1>4. FeedOrdered'
  BY <1>1 DEF OInv, FeedOrdered
<1>5. UsedBefore'
  <2>1. \A u : Used(u)' => Used(u) \/ u = g
    BY <1>1, <1>2 DEF Used, Adds
  <2> QED
    BY <1>1, <1>3, <2>1 DEF OInv, UsedBefore
<1>6. ScheduledFits'
  <2>1. \A j \in DOMAIN state'.scheduled :
           \/ /\ j \in DOMAIN state.scheduled /\ state'.scheduled[j] = state.scheduled[j]
              /\ j[2] # g
           \/ j = k /\ \A c \in state'.scheduled[j] : c.generation = k[2]
    BY <1>1, <1>3 DEF Adds, Used
  <2>2. \A pair \in attempted : pair[2] # g
    BY <1>3 DEF Used
  <2> QED
    BY <1>1, <1>2, <2>1, <2>2 DEF OInv, ScheduledFits
<1> QED
  BY <1>4, <1>5, <1>6 DEF OInv

\* A claim takes the schedule with it.
LEMMA ClaimOrdered ==
    ASSUME OInv, Isolated(state), NEW r \in Registrars, NEW k \in DOMAIN state.scheduled,
           ClaimSchedule(r, k)
    PROVE  OInv'
<1> DEFINE keys == {Key(c) : c \in state.scheduled[k]}
<1>1. /\ UNCHANGED <<inventory, feed, scheduler>>
      /\ attempted' = attempted \cup (keys \X {k[2]})
      /\ state'.scheduled = Without(state.scheduled, {k})
  BY DEF ClaimSchedule, outside, Isolated, ScheduleTaken
<1>2. /\ \A j \in DOMAIN state'.scheduled :
            j \in DOMAIN state.scheduled /\ j # k /\ state'.scheduled[j] = state.scheduled[j]
      /\ \A pair \in attempted' : pair \in attempted \/ pair[2] = k[2]
  BY <1>1 DEF Without
<1>3. FeedOrdered'
  BY <1>1 DEF OInv, FeedOrdered, InHand
<1>4. \A u : Used(u)' => Used(u)
  BY <1>2 DEF Used
<1>5. UsedBefore'
  BY <1>1, <1>4 DEF OInv, UsedBefore, InHand
<1>6. ScheduledFits'
  BY <1>2 DEF OInv, ScheduledFits
<1> QED
  BY <1>3, <1>5, <1>6 DEF OInv

LEMMA OInvStep == OInv /\ Isolated(state) /\ [Next]_vars => OInv'
<1> SUFFICES ASSUME OInv, Isolated(state), [Next]_vars PROVE OInv'
  OBVIOUS
<1>1. ASSUME NEW r \in Registrars, Registration(r) PROVE OInv'
  <2>1. ASSUME NEW k \in DOMAIN state.scheduled, ClaimSchedule(r, k) PROVE OInv'
    BY <2>1, ClaimOrdered
  <2>2. CASE CompleteAutoCandidate(r)
    <3>1. UNCHANGED <<inventory, feed, scheduler, attempted>>
      BY <2>2 DEF CompleteAutoCandidate, outside, history
    <3>2. state'.scheduled = state.scheduled
      BY <2>2 DEF CompleteAutoCandidate, Completed, Isolated
    <3> QED
      BY <3>1, <3>2, OrderKeeps DEF Keeps
  <2>3. CASE UNCHANGED <<outside, scheduler, attempted, state>>
    BY <2>3, OrderKeeps DEF Keeps, outside
  <2> QED
    BY <1>1, <2>1, <2>2, <2>3
    DEF Registration, NextCandidate, RequestRegistration, EndSchedule, LeaseCandidate,
        RefuseCandidate, CheckCandidate, RejectCandidate, RegistryFails, RegisterSucceeds,
        RegisterFails, WriteProfile, RegistersOnly, history
<1>2. CASE Environment
  <2>1. CASE UNCHANGED <<inventory, feed, scheduler, attempted, state>>
    BY <2>1, OrderKeeps DEF Keeps
  <2> QED
    BY <1>2, <2>1, PublishOrdered
    DEF Environment, StartSession, EndSession, CreateProfile, UpdateProfile, RemoveProfile, Change, outside,
        history
<1>3. CASE Session
  <2>1. ASSUME NEW l \in Listers, ObserveInventory(l) PROVE OInv'
    <3> DEFINE inv == lister[l].inventory
               synced == Synchronized(state, inv.session)
    <3>1. UNCHANGED <<inventory, feed, scheduler, attempted>>
      BY <2>1 DEF ObserveInventory, outside, history
    <3>2. Keeps(state, synced) /\ Isolated(synced)
      BY SynchronizedKeeps, SynchronizedIsolated
    <3>3. state' \in {state, Installed(synced, inv, lister[l].profiles)}
      BY <2>1 DEF ObserveInventory
    <3> HIDE DEF synced, inv
    <3>4. Keeps(state, state')
      BY <3>2, <3>3 DEF Installed, Isolated, Keeps
    <3> QED
      BY <3>1, <3>4, OrderKeeps
  <2>2. CASE ObserveRuntimeSession
    <3>1. UNCHANGED <<inventory, feed, scheduler, attempted>>
      BY <2>2 DEF ObserveRuntimeSession, outside, history
    <3>2. Keeps(state, state')
      BY <2>2, SynchronizedKeeps DEF ObserveRuntimeSession
    <3> QED
      BY <3>1, <3>2, OrderKeeps
  <2>3. CASE \/ \E c \in state.candidates : IgnoreCandidate(c)
             \/ EnableAutoRegistration \/ DisableAutoRegistration
    <3>1. UNCHANGED <<inventory, feed, scheduler, attempted>>
      BY <2>3 DEF IgnoreCandidate, EnableAutoRegistration, DisableAutoRegistration, outside,
             history
    <3>2. Keeps(state, state')
      BY <2>3, ZenonT(60) DEF IgnoreCandidate, EnableAutoRegistration, DisableAutoRegistration, Isolated,
             Keeps, Empty
    <3> QED
      BY <3>1, <3>2, OrderKeeps
  <2>4. CASE UNCHANGED <<inventory, feed, scheduler, attempted, state>>
    BY <2>4, OrderKeeps DEF Keeps
  <2> QED
    BY <1>3, <2>1, <2>2, <2>3, <2>4, ReceiveOrdered, ObserveOrdered
    DEF Session, ListInventory, ListProfiles, ReadSession, outside, history
<1>4. CASE UNCHANGED vars
  BY <1>4, OrderKeeps DEF Keeps, vars, outside, history
<1> QED
  BY <1>1, <1>2, <1>3, <1>4 DEF Next

\* A step that claims a schedule has not claimed any of its keys in its generation before.
LEMMA ClaimStep ==
    ASSUME IInv, OInv, Next, NEW r \in Registrars,
           registrar[r].stage = "idle", registrar'[r].stage = "claimed",
           NEW c \in registrar'[r].todo
    PROVE  <<Key(c), c.generation>> \notin attempted
<1>1. PICK k \in DOMAIN state.scheduled : ClaimSchedule(r, k)
  <2>1. ~UNCHANGED registrar
    OBVIOUS
  <2>2. PICK q \in Registrars : Registration(q)
    BY <2>1 DEF Next, Session, TakePublication, SkipPublication, Receive,
           ObserveSuccessfulPublication, ListInventory, ListProfiles, ObserveInventory,
           IgnoreCandidate, EnableAutoRegistration, DisableAutoRegistration, ReadSession,
           ObserveRuntimeSession, Environment, StartSession, EndSession, Publish,
           CreateProfile, UpdateProfile, RemoveProfile, Change
  <2>3. Registration(r)
    BY <2>2, OthersStay
  <2>4. ASSUME NEW d, RequestRegistration(r, d) PROVE FALSE
    BY <2>4 DEF RequestRegistration, Become, NoRegistration, IInv, Shape
  <2> QED
    BY <2>3, <2>4 DEF Registration, At, NextCandidate, EndSchedule, LeaseCandidate, RefuseCandidate, CheckCandidate, RejectCandidate,
           RegistryFails, RegisterSucceeds, RegisterFails, CompleteAutoCandidate
<1>2. registrar'[r].todo = state.scheduled[k]
  BY <1>1 DEF ClaimSchedule, NoRegistration, IInv, Shape
<1> QED
  BY <1>2 DEF OInv, ScheduledFits

\* Automatic registration tries a candidate at most once in a generation: the scheduler
\* takes every publication once and in order, and a claim removes what it takes.
THEOREM OneAttempt == Spec => TriedOncePerGeneration
<1>1. IInv /\ OInv /\ [Next]_vars =>
        [\A r \in Registrars :
            (registrar[r].stage = "idle" /\ registrar'[r].stage = "claimed") =>
            \A c \in registrar'[r].todo : <<Key(c), c.generation>> \notin attempted]_vars
  BY ClaimStep
<1>2. Init => Isolated(state)
  BY DEF Init, Isolated, Empty
<1>3. Isolated(state) /\ [Next]_vars => Isolated(state)'
  BY IsolatedStep
<1> QED
  BY Inductive, OInvInit, OInvStep, <1>1, <1>2, <1>3, PTL DEF Spec, TriedOncePerGeneration

=============================================================================
