\* Two registrations, two sessions and two publications: a project, the same one with
\* another file beside one of its name, and another project, whose profile may take the
\* first one's name; three commands of windows.
SPECIFICATION Spec
CONSTANTS
  r1 = r1  r2 = r2  l1 = l1  none = none
  None = none
  ValidNames <- Names
  Registrars = {r1, r2}
  Listers = {l1}
  Evidence <- Projects
  Drafts <- OwnDrafts
  FeedLimit = 1
  MaxSession = 2
  MaxGeneration = 2
  MaxCommands = 3
SYMMETRY Interchangeable
INVARIANTS SessionIsolated
PROPERTIES RegistersUnusedName RegisteredOnEvidence TriedOncePerGeneration ShownOnceRegistered
\* Sessions, publications and commands are bounded: it may stop.
CHECK_DEADLOCK FALSE
