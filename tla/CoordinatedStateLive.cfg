SPECIFICATION FairSpec
CONSTANTS
    Coordinator = {a, b, c}
    Client = {x, y}
    Up = {a, b}
    Mortal = {y}
    Uid = {1, 2}
    NoValue = NoValue
PROPERTIES CallsReturn LaterWriteNoticed
