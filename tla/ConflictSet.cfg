CONSTANTS
    MaxKey = 2 MaxLevels = 2 MaxVersion = 3 MaxBatch = 2 Life = 1 RemovePerRange = 1 RemoveExtra = 1
    ReadRanges <- SomeReads
SPECIFICATION Spec
INVARIANTS VerdictsExact ListInv
CHECK_DEADLOCK FALSE
