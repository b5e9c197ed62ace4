\* Two tasks of one instance and one of another (no symmetry: liveness).
SPECIFICATION FairSpec
CONSTANTS
  c1 = c1  c2 = c2  c3 = c3
  i1 = i1  i2 = i2  p1 = p1  k1 = k1  none = none
  Clients = {c1, c2, c3}
  Instances = {i1, i2}
  Profiles = {p1}
  Containers = {k1}
  None = none
  InstanceOf <- TwoAndOne
  GenerationLimit = 2
INVARIANTS BarrierExact LeaseKept WakeupKept FileOwned
PROPERTIES ImplementsExclusion ReservationServed RecoveryEnds ProjectionVersioned
