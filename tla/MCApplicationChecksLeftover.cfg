SPECIFICATION Spec

CONSTANTS
    s1 = s1
    s2 = s2
    s3 = s3
    Sessions = {s1, s2, s3}
    AppOf <- OneChainEach
    ChecksPerInvoke = 2
    Concurrency = 3
    MayDrop = TRUE
    MaxInvocations = 1

INVARIANTS
    AllChecked

