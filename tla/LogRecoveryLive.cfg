SPECIFICATION FairSpec
CONSTANTS
    l1 = l1
    l2 = l2
    l3 = l3
    Log = {l1, l2, l3}
    ReplicationFactor = 3
    WriteAntiQuorum = 1
    Attempts = 1
    MAX_VERSIONS_IN_FLIGHT = 2
    Window = 1
    MaxPushes = 1
    Budgets <- Faults
CHECK_DEADLOCK FALSE
INVARIANTS KeptInv VersionsNotReused
PROPERTY RecoveryEnds
