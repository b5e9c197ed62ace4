\* Two tasks of two instances.
SPECIFICATION Spec
CONSTANTS
  t1 = t1  t2 = t2  t3 = t3  i1 = i1  i2 = i2  p1 = p1  p2 = p2  p3 = p3  d1 = d1  d2 = d2
  none = none  corrupt = corrupt  legacy1 = legacy1  malformed = malformed
  Tasks = {t1, t2}
  Instances = {i1, i2}
  Home <- TwoHomes
  Profiles = {p1, p2}
  Drafts = {d1}
  None = none
  Corrupt = corrupt
  Legacy = legacy1
  Malformed = malformed
  RevisionLimit = 3
  KeptArtifacts = 1
  MaxArtifacts = 2
  MaxFaults = 1
SYMMETRY Interchangeable
INVARIANTS AcknowledgedKept RestoreReversible LegacySavedFirst
PROPERTIES ImplementsRegister
