\* Two callers and two profiles.
SPECIFICATION Spec
CONSTANTS
  c1 = c1  c2 = c2  p1 = p1  p2 = p2  none = none
  None = none
  Callers = {c1, c2}
  Profiles = {p1, p2}
  TTL = 1
  GenerationLimit = 2
  MaxChanges = 2
  MaxCalls = 2
  MaxClock = 1
SYMMETRY Interchangeable
INVARIANTS AnswersCurrent
PROPERTIES EntriesVersioned
\* The calls, the changes and the clock of an instance are bounded: it may stop.
CHECK_DEADLOCK FALSE
