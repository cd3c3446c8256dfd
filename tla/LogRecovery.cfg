SPECIFICATION Spec
CONSTANTS
    l1 = l1
    l2 = l2
    l3 = l3
    Log = {l1, l2}
    ReplicationFactor = 2
    WriteAntiQuorum = 0
    Attempts = 2
    MAX_VERSIONS_IN_FLIGHT = 2
    Window = 1
    MaxPushes = 1
    Budgets <- Scenarios
SYMMETRY Symmetric
CHECK_DEADLOCK FALSE
INVARIANTS ReadVersionIsCurrent AnsweredSurvives RecoveryInv
