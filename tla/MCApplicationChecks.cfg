SPECIFICATION FairSpec

CONSTANTS
    s1 = s1
    s2 = s2
    s3 = s3
    Sessions = {s1, s2, s3}
    AppOf <- TwoChains
    ChecksPerInvoke = 2
    Concurrency = 2
    MayDrop = TRUE
    MaxInvocations = 2

INVARIANTS
    TypeOK
    ChecksKeepBatchOpen
    GroupsAreSound
    LossIsBounded

PROPERTIES
    HandlerReturns
