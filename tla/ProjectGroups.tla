---------------------------- MODULE ProjectGroups ----------------------------
(***************************************************************************)
(* How the containers of a list become the Compose projects of an          *)
(* inventory, and which of them a profile's status counts:                 *)
(* compose_metadata (crates/colui-adapters/src/runtime/docker_api.rs),     *)
(* normalize (crates/colui-adapters/src/inventory.rs) and                  *)
(* RuntimeAssociationContext (crates/colui-app/src/status.rs).  Discovery, *)
(* the inventory and the status each normalize names and paths by          *)
(* themselves; what they make of them has to agree.                        *)
(*                                                                         *)
(* A path as it is written is [absolute, parts], its parts being names,    *)
(* "." and ".."; a normalized path is the sequence of its names.  A        *)
(* project name as it is written is [text, padded]: trim drops the         *)
(* padding.  A container is [id, labels, running]; labels are None or      *)
(* [name, directory, files], a blank name or directory being one without   *)
(* text or parts.  Paths that are not UTF-8 are left out: neither Docker's *)
(* labels nor the registry's JSON can hold them.                           *)
(***************************************************************************)
EXTENDS Naturals, SequencesExt

CONSTANTS None,         \* no working directory, no labels
          Evidence      \* the lists that Docker may return, numbered: sets of containers

-----------------------------------------------------------------------------
(* Paths: inventory.rs, status.rs and the domain's discovery.rs normalize  *)
(* them in the same way.                                                   *)

\* normalize_absolute, of the parts of an absolute path.
Normalize(parts) ==
    FoldLeft(LAMBDA path, part : IF part = "." THEN path
                                 ELSE IF part # ".." THEN Append(path, part)
                                 ELSE IF path = <<>> THEN path ELSE Front(path),
             <<>>, parts)

NormalizeAbsolute(path) == IF path.absolute THEN Normalize(path.parts) ELSE None

\* A relative file is one of the working directory, if there is one.
Resolve(directory, file) ==
    IF file.absolute \/ directory = None THEN NormalizeAbsolute(file)
    ELSE Normalize(directory \o file.parts)

Blank(file) == ~file.absolute /\ file.parts = <<>>

NormalizeFiles(directory, files) ==
    FoldLeft(LAMBDA known, file :
               LET path == Resolve(directory, file)
               IN  IF Blank(file) \/ path = None \/ Contains(known, path) THEN known
                   ELSE Append(known, path),
             <<>>, files)

-----------------------------------------------------------------------------
(* The inventory.                                                          *)

\* compose_metadata: a blank project label is none.
Managed(container) == container.labels # None /\ container.labels.name.text # ""

\* normalize_compose_tuple.
ComposeTuple(labels) ==
    LET directory == IF labels.directory = None \/ Blank(labels.directory) THEN None
                     ELSE NormalizeAbsolute(labels.directory)
    IN  <<labels.name.text, directory, NormalizeFiles(directory, labels.files)>>

\* A normalized path, as a path is written.
Absolute(path) == [absolute |-> TRUE, parts |-> path]
AbsoluteFiles(files) == [i \in DOMAIN files |-> Absolute(files[i])]

\* normalize and add_observation: a group for each tuple; the other containers stand alone.
Groups(containers) ==
    LET managed == {c \in containers : Managed(c)}
        tuples == {ComposeTuple(c.labels) : c \in managed}
    IN  {[name |-> [text |-> t[1], padded |-> FALSE],
          directory |-> IF t[2] = None THEN None ELSE Absolute(t[2]),
          files |-> AbsoluteFiles(t[3]),
          containers |-> {c.id : c \in {d \in managed : ComposeTuple(d.labels) = t}}] :
         t \in tuples}

\* What an inventory of list number 0 (no snapshot) or another one has observed.
Containers(inventory) == IF inventory.list = 0 THEN {} ELSE Evidence[inventory.list]
GroupsListed == [i \in DOMAIN Evidence |-> Groups(Evidence[i])]
GroupsIn(inventory) == IF inventory.list = 0 THEN {} ELSE GroupsListed[inventory.list]

-----------------------------------------------------------------------------
(* RuntimeAssociationContext.                                              *)

\* profile_tuple: None when the directory or a file cannot be made absolute.
ProfileTuple(profile) ==
    LET directory == NormalizeAbsolute(profile.directory)
    IN  IF directory = None THEN None
        ELSE <<profile.name, directory,
               FoldLeft(LAMBDA known, file :
                          IF Contains(known, Resolve(directory, file)) THEN known
                          ELSE Append(known, Resolve(directory, file)),
                        <<>>, profile.files)>>

ProfileCount(profiles, tuple) ==
    Cardinality({i \in DOMAIN profiles : ProfileTuple(profiles[i]) = tuple})
GroupTuple(group) ==
    <<group.name.text, group.directory.parts,
      [i \in DOMAIN group.files |-> group.files[i].parts]>>
GroupsOf(groups, tuple) ==
    {g \in groups : g.directory # None /\ GroupTuple(g) = tuple}
NameCount(groups, name) == Cardinality({g \in groups : g.name.text = name})

\* is_ambiguous.
Ambiguous(profile, profiles, groups) ==
    LET tuple == ProfileTuple(profile)
        observed == Cardinality(GroupsOf(groups, tuple))
    IN  \/ tuple = None
        \/ ProfileCount(profiles, tuple) # 1
        \/ observed > 1
        \/ observed = 1 /\ NameCount(groups, tuple[1]) # 1

\* project_status_from_associations: the containers of the one group that is the
\* profile's, if there is no doubt that it is.
Associated(profile, profiles, groups) ==
    LET tuple == ProfileTuple(profile)
    IN  IF /\ tuple # None
           /\ ProfileCount(profiles, tuple) = 1
           /\ Cardinality(GroupsOf(groups, tuple)) = 1
           /\ NameCount(groups, tuple[1]) = 1
        THEN UNION {g.containers : g \in GroupsOf(groups, tuple)}
        ELSE {}

\* runtime_state: presence and activity.
RuntimeState(hasSnapshot, total, running) ==
    CASE ~hasSnapshot -> <<"Unavailable", None>>
      [] hasSnapshot /\ total = {} -> <<"Absent", None>>
      [] hasSnapshot /\ total # {} /\ running = total -> <<"Present", "AllRunning">>
      [] hasSnapshot /\ total # {} /\ running = {} -> <<"Present", "NoneRunning">>
      [] OTHER -> <<"Present", "Mixed">>

\* project_status_from_registry_inventory_and_definition, of the runtime alone.
ProjectStatus(profile, profiles, inventory) ==
    LET counted == Associated(profile, profiles, GroupsIn(inventory))
        running == {c.id : c \in {d \in Containers(inventory) : d.id \in counted /\ d.running}}
    IN  [state |-> RuntimeState(inventory.generation # 0, counted, running),
         containers |-> counted,
         ambiguous |-> Ambiguous(profile, profiles, GroupsIn(inventory))]
=============================================================================
