\* Two members, four bytes, three of which are kept.  A run ends.
SPECIFICATION FairSpec
CONSTANTS
  m1 = m1  m2 = m2  docker = docker
  Members = {m1, m2}
  Leader = docker
  Limit = 3
  Buffer = 2
  MaxWritten = 4
CHECK_DEADLOCK FALSE
INVARIANTS SignalsOwnGroup EscalationComplete OutputComplete
PROPERTIES LeaderReaped
