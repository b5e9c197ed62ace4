\* Two callers of any kind, a lease user and two sessions under the scheduling of FairSpec
\* (no symmetry: liveness).  Three observations: one in flight, a marker, and the list
\* that comes after it.
SPECIFICATION FairSpec
CONSTANTS
    Callers = {c1, c2}
    Leases = {l1}
    OrderLimit = 3
    GenerationLimit = 2
    FailureLimit = 1
    MaxVersion = 1
    MaxSession = 2
INVARIANTS
    CausalRefresh
    OneListServesAll
    FreshnessCoherent
    SnapshotOfOneSession
    LeasesCurrent
PROPERTIES
    ImplementsFeed
    LeaseHoldsPublication
    EveryoneAnswered
