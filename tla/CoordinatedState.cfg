SPECIFICATION Spec
CONSTANTS
    Coordinator = {a, b, c}
    Client = {x, y}
    Up = {a, b, c}
    Mortal = {}
    Uid = {1, 2}
    NoValue = NoValue
SYMMETRY Symmetric
INVARIANTS NoLostUpdate ReadWasMostRecent ReadIsRecent ConflictIsReal IInv
PROPERTIES RegisterAdvances ImplementsExclusiveState
