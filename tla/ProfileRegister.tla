--------------------------- MODULE ProfileRegister ---------------------------
(***************************************************************************)
(* What the profile registry promises, without files or locks: one         *)
(* register that every mutation replaces in a single step by a successor   *)
(* of the very value it replaces, and that a loss of power may set back    *)
(* only to a value written since the last one that was made durable.       *)
(***************************************************************************)
EXTENDS Naturals

CONSTANTS None,       \* no file yet
          Corrupt     \* bytes that do not decode

VARIABLES register,   \* the snapshot that readers see
          recent      \* the values that a loss of power may leave

Valid(c) == c \notin {None, Corrupt}

\* The profiles of a snapshot, and those of a register that is no snapshot.
ProfilesOf(c) == IF Valid(c) THEN c.profiles ELSE [p \in {} |-> None]
RevisionOf(c) == IF Valid(c) THEN c.revision ELSE 0

\* Profile p is the only difference: it is new, removed, or one revision on.
OnlyChanges(p, old, new) ==
    /\ \A q \in (DOMAIN old \cup DOMAIN new) \ {p} :
          q \in DOMAIN old /\ q \in DOMAIN new /\ old[q] = new[q]
    /\ \/ p \notin DOMAIN new
       \/ p \notin DOMAIN old /\ new[p].revision = 1
       \/ p \in DOMAIN old /\ new[p].revision = old[p].revision + 1

Mutate ==
    /\ register # Corrupt /\ Valid(register')
    /\ register'.revision = RevisionOf(register) + 1
    /\ \E p \in DOMAIN ProfilesOf(register) \cup DOMAIN register'.profiles :
          OnlyChanges(p, ProfilesOf(register), register'.profiles)

\* A restored snapshot is newer than what it replaces, as a whole and in
\* every profile.
Restore ==
    /\ Valid(register')
    /\ register'.revision > RevisionOf(register)
    /\ \A p \in DOMAIN register'.profiles \cap DOMAIN ProfilesOf(register) :
          register'.profiles[p].revision > register.profiles[p].revision

Import == register = None /\ Valid(register') /\ register'.revision \in {0, 1}

Init == recent = {register}

Write == (Mutate \/ Restore \/ Import) /\ recent' = recent \cup {register'}

Sync == recent' = {register} /\ UNCHANGED register

PowerLoss == register' \in recent /\ recent' = {register'}

Spec == Init /\ [][Write \/ Sync \/ PowerLoss]_<<register, recent>>
=============================================================================
