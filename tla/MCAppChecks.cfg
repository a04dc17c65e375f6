SPECIFICATION AppSpec

CONSTANTS
    Nodes = {n1, n2, n3}
    MaxHeight = 5
    SyncAllowance = 0
    DefaultSyncAllowance = 1
    TrustPercent = 50
    ChainIDs = {0, 1, 2}
    PayloadIDs <- IDs
    NotANumber = NotANumber

SYMMETRY Symmetry

INVARIANTS
    AppTypeOK
    AcceptedAgree
    MinorityPutsNoneOut
    WorksWithoutAltruist
    ReturnedExact
