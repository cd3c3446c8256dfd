SPECIFICATION Spec
CONSTANTS
    CommitProxy = {p, q}
    Resolver = {r0, r1}
    FirstResolver = r0
    LockResolver = r1
    LastEpochEnd = 1
    StateMemoryLimit = 0
    NoReply = NoReply
    Budgets <- Scenarios
SYMMETRY Symmetric
CHECK_DEADLOCK FALSE
INVARIANTS  ResolverInv NoCircularWait
