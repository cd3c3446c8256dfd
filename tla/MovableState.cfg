SPECIFICATION Spec
CONSTANTS
    Process = {p1, p2}
    Quorum = {a, b, c}
    First = a
    MaxMain = 2
    MaxPlace = 5
SYMMETRY Symmetric
CHECK_DEADLOCK FALSE
INVARIANTS MoveInv OneHistory
