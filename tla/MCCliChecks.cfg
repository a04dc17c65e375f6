SPECIFICATION FairSpec

CONSTANTS
    Networks <- MCNetworks
    Databases <- MCDatabases
    Blockchains <- MCBlockchains
    Nodes = {n1}
    Caches = {c1}
    PerPage = 2
    Concurrency = 2
    Window = 2
    MaxJobs = 3
    MayExpire = TRUE

INVARIANTS
    TypeOK
    OwnAAT
    MarkAfterResult
    AllOffered

PROPERTIES
    Returns
