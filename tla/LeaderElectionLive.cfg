CONSTANTS
    c1 = c1 c2 = c2 c3 = c3 p1 = p1 p2 = p2 p3 = p3 m1 = m1 x1 = x1 NoOne = NoOne
    Coord = {c1, c2}
    Process = {p1, p2}
    Monitor = {}
    Mover = {}
    MaxId = 3 MaxFitness = 1 Unknown = 3 Remote = 1
    MaxNotifications = 8 MaxFaults = 1 Patience = 3
    Timely = TRUE
SPECIFICATION LiveSpec
PROPERTIES EventuallyOneLeader FittestLeads
