CONSTANTS
    c1 = c1 c2 = c2 c3 = c3 p1 = p1 p2 = p2 p3 = p3 m1 = m1 x1 = x1 NoOne = NoOne
    Coord = {c1}
    Process = {p1}
    Monitor = {x1}
    Mover = {m1}
    MaxId = 2 MaxFitness = 1 Unknown = 3 Remote = 1
    MaxNotifications = 2 MaxFaults = 1 Patience = 3
    Timely = FALSE
SPECIFICATION Spec
INVARIANTS ElectionInv
CHECK_DEADLOCK FALSE
