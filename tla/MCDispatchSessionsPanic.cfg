SPECIFICATION FairSpec

CONSTANTS
    Sessions = {s1, s2}
    MaxHeight = 1
    Caches = {c1}
    BatchSize = 1
    Concurrency = 1
    MaxClients = 1
    MaxErrors = 0
    MayExpire = TRUE

PROPERTIES
    AlwaysReports
