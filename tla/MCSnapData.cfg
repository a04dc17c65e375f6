SPECIFICATION Spec

CONSTANTS
    Regions = {g1, g2}
    Sessions = {s1}
    Stores = {d1, d2}
    Runs = {1, 2}
    Concurrency = 2
    MaxTasks = 2
    MaxFailures = 1
    MaxFailing = 1
    NoRow = NoRow

SYMMETRY Symmetry

INVARIANTS
    TypeOK
    SessionFirst
    AverageOfSaved
    SampledOnce
    SessionIsAggregate
    KnownSessionsSaved

PROPERTIES
    FailureSticks
