SPECIFICATION FairSpec
CONSTANTS
    MAX_READ_TRANSACTION_LIFE_VERSIONS = 2
    MAX_VERSIONS_IN_FLIGHT = 3
    Budgets <- Scenarios
INVARIANTS ServerInv ReadsPossible ReadIsSnapshot DiskIsSnapshot
PROPERTY CaughtUp
CHECK_DEADLOCK FALSE
