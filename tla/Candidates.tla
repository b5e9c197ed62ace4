------------------------------ MODULE Candidates ------------------------------
(***************************************************************************)
(* classify_candidates of crates/colui-domain/src/discovery.rs: what the   *)
(* groups of containers of an inventory and the registered profiles say    *)
(* about the Compose projects that run.                                    *)
(*                                                                         *)
(* The order of the candidates, the evidence of a conflict and the number  *)
(* of containers are left out.                                             *)
(*                                                                         *)
(* RuntimeConflictHere is a faulty variant of the operator that follows    *)
(* it; nothing uses it.                                                    *)
(***************************************************************************)
EXTENDS ProjectGroups

CONSTANT ValidNames    \* what ComposeProjectName accepts

\* normalize_observation.
Observation(group) ==
    LET directory == IF group.directory = None THEN None
                     ELSE NormalizeAbsolute(group.directory)
    IN  [name |-> group.name.text, directory |-> directory,
         files |-> NormalizeFiles(directory, group.files)]

\* normalize_profile: a profile without an absolute directory and a file is not comparable.
NormalizedProfile(profile) ==
    LET directory == NormalizeAbsolute(profile.directory)
        files == IF directory = None THEN <<>> ELSE NormalizeFiles(directory, profile.files)
    IN  [directory |-> directory, files |-> files, comparable |-> files # <<>>]

Tuple(o) == <<o.directory, o.files>>
Complete(o) == o.name \in ValidNames /\ o.directory # None /\ o.files # <<>>

\* candidate_id: a digest of the session, the name and the directory.
Id(c) == <<c.session, c.name, c.directory>>

(***************************************************************************)
(* The classification of the candidate that observation o stands for,      *)
(* among all observations and the profiles of its name.                    *)
(***************************************************************************)
SameIdentity(observations, o) ==
    {p \in observations : p.name = o.name /\ p.directory = o.directory}
RuntimeConflictHere(observations, o) ==
    \E p \in SameIdentity(observations, o) : Tuple(p) # Tuple(o)
RuntimeConflict(observations, o) ==
    \E p \in observations : p.name = o.name /\ Tuple(p) # Tuple(o)
Named(profiles, name) == {i \in DOMAIN profiles : profiles[i].name = name}
Matching(profiles, o) ==
    {i \in Named(profiles, o.name) :
        LET p == NormalizedProfile(profiles[i]) IN p.comparable /\ Tuple(p) = Tuple(o)}
ProfileConflict(profiles, o) ==
    \/ Matching(profiles, o) # Named(profiles, o.name)
    \/ \E i, j \in Matching(profiles, o) : i # j

Classification(observations, profiles, o) ==
    CASE o.name \notin ValidNames -> "IncompleteMetadata"
      [] o.name \in ValidNames /\ \E p \in SameIdentity(observations, o) : p.files # o.files
         -> "NameConflict"
      [] OTHER ->
         IF ~Complete(o) THEN "IncompleteMetadata"
         ELSE IF RuntimeConflict(observations, o) \/ ProfileConflict(profiles, o)
              THEN "NameConflict"
         ELSE IF Named(profiles, o.name) # {} THEN "AlreadyRegistered"
         ELSE "NewUnambiguous"

\* The first of an identity's observations represents it; any one does, because they
\* agree unless the candidate is a conflict or incomplete.
Representatives(observations) ==
    {o \in observations : o = CHOOSE p \in SameIdentity(observations, o) : TRUE}

\* The observations of the groups of an inventory.
ObservationsListed == [i \in DOMAIN Evidence |-> {Observation(g) : g \in GroupsListed[i]}]
Observations(inventory) == IF inventory.list = 0 THEN {} ELSE ObservationsListed[inventory.list]

\* classify_candidates.
Classify(inventory, profiles) ==
    LET observations == Observations(inventory)
    IN  {[session |-> inventory.session, generation |-> inventory.generation,
          name |-> o.name, directory |-> o.directory, files |-> o.files,
          class |-> Classification(observations, profiles, o), ignored |-> FALSE] :
         o \in Representatives(observations)}
=============================================================================
