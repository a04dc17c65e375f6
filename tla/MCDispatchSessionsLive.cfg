SPECIFICATION FairSpec

CONSTANTS
    Sessions = {s1, s2, s3}
    MaxHeight = 1
    Caches = {c1}
    BatchSize = 2
    Concurrency = 2
    MaxClients = 1
    MaxErrors = 0
    MayExpire = FALSE

PROPERTIES
    AlwaysReports
