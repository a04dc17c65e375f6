SPECIFICATION Spec

CONSTANTS
    n1 = n1
    n2 = n2
    n3 = n3
    a = a
    b = b
    Nodes = {n1, n2, n3}
    Sessions = {s1, s2}
    Shards = {a, b}
    ShardOf <- TwoShards
    NoShard = NoShard
    NoSession = NoSession
    NoValue = NoValue
    MaxKeys = 3
    MaxCount = 2
    MaxChanges = 1

SYMMETRY Symmetry

INVARIANTS
    EntriesWereSo
    SteadyIsRead
