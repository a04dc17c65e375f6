SPECIFICATION Spec

CONSTANTS
    Nodes = {n1, n2, n3}
    MaxHeight = 5
    SyncAllowance = 0
    DefaultSyncAllowance = 1
    TrustPercent = 50

SYMMETRY Symmetry

INVARIANTS
    MajorityOverrulesAltruist
