\* Three callers and a Compose operation under the scheduling of FairSpec (no
\* symmetry: liveness).
SPECIFICATION FairSpec
CONSTANTS
  c1 = c1  c2 = c2  c3 = c3  o1 = o1  none = none
  Callers = {c1, c2, c3}
  Operations = {o1}
  None = none
  EpochLimit = 2
  MaxSession = 2
INVARIANTS OwnerRetained WaitersServed
PROPERTIES CancelledNeverPublishes DisconnectEffective ImplementsSession TransitionsEnd
