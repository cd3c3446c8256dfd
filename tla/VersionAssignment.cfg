SPECIFICATION FairSpec
CONSTANTS
    CommitProxy = {p, q}
    Resolver = {r0, r1}
    FirstResolver = r0
    NoMove = NoMove
    LastEpochEnd = 0
    RecoveryTransactionVersion = 1
    ToAdd = {1, 2}
    Expected = {20}
    RateNumerator = 1
    RateDenominator = 2
    RateOffset = 1
    ReadLife = 3
    WriteLife = 3
    MaxRequests = 3
    MaxMoves = 2
INVARIANTS ChainInv MasterInv ReadsMeetWrites
PROPERTIES VersionArrives
