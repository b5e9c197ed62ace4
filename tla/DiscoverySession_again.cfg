\* A completion that comes too late: the same project is claimed twice in a session.
SPECIFICATION Spec
CONSTANTS
  r1 = r1  r2 = r2  l1 = l1  none = none
  None = none
  ValidNames <- Names
  Registrars = {r1}
  Listers = {l1}
  Evidence <- Sole
  Drafts <- OwnDrafts
  FeedLimit = 1
  MaxSession = 1
  MaxGeneration = 2
  MaxCommands = 3
PROPERTIES SucceededNotRescheduled
CHECK_DEADLOCK FALSE
