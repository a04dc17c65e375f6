SPECIFICATION Spec

CONSTANTS
    Sessions = {s1, s2}
    MaxHeight = 2
    Caches = {c1, c2}
    BatchSize = 0
    Concurrency = 1
    MaxClients = 2
    MaxErrors = 0
    MayExpire = TRUE

SYMMETRY Symmetry

INVARIANTS
    TypeOK
    ConcurrencyBounded
    ClosedAfterLastSend
    NoUseAfterClose
    SettledOnReturn
