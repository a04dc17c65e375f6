SPECIFICATION FairSpec

CONSTANTS
    Producers = {p1, p2}
    Keys = {k1}
    Values = {v1, v2}
    NoValue = NoValue
    Caches = {c1, c2}
    BatchSize = 2
    MaxSent = 4

INVARIANTS
    TypeOK
    Conservation
    NothingLeftBehind
    CleanCachesCurrent

PROPERTIES
    Delivery
    BlockedSenderResumes
    MonitorExits
