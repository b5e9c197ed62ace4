\* An operation that looks at the session twice while a connect ends.
SPECIFICATION Spec
CONSTANTS
  c1 = c1  c2 = c2  c3 = c3  o1 = o1  none = none
  Callers = {c1}
  Operations = {o1}
  None = none
  EpochLimit = 1
  MaxSession = 1
INVARIANTS NonReadyHasError
