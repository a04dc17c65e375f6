SPECIFICATION FairSpec

CONSTANTS
    Caches = {c1, c2}
    MaxClients = 1
    Runs = {r1, r2}
    MaxHeight = 2
    MaxFaults = 2

INVARIANTS
    TypeOK

PROPERTIES
    RollbackExplained
    CachesCatchUp
