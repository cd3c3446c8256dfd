SPECIFICATION FairSpec
CONSTANTS
    CommitProxy = {p, q}
    GrvProxy = {g}
    TLog = {a, b}
    AntiQuorum = 1
    LastEpochEnd = 0
    RecoveryTransactionVersion = 1
    Gap = {1, 3}
    ReadLife = 2
    MaxBatches = 2
CHECK_DEADLOCK FALSE
INVARIANTS ReadVersionIsCurrent AckedIsDurable KnownInv SemiCommittedBounded
PROPERTIES BatchesFinish
