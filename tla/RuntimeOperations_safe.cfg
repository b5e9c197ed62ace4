\* Two operations of any kind, two sessions, one change of Docker.  It stops when
\* both operations have ended and the bounds are reached.
SPECIFICATION Spec
CONSTANTS
  t1 = t1  t2 = t2  container = container  profile = profile  nobody = nobody
  Tasks = {t1, t2}
  Container = container
  Profile = profile
  Nobody = nobody
  Wires <- SomeWires
  HeaderSize = 2
  Capacity = 2
  TransferLimit = 8
  MaxSession = 2
  MaxVersion = 1
  OrderLimit = 3
CHECK_DEADLOCK FALSE
SYMMETRY Interchangeable
PROPERTIES FreshShowsEffect ClaimsHold LogsWhole
