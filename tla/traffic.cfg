SPECIFICATION Spec
CONSTANTS
    x = x
    y = y
    z = z
    Drone = {d1, d2, d3}
    Path = {x, y, z}
    Meets <- MeetsMC
    MidNear <- MidNearMC
    OrderPriority = {1, 5}
    None = None
    MaxAssigns = 3
    MaxRestarts = 1
SYMMETRY Symmetry
INVARIANTS
    TypeOK
    EngineAgrees
    Separated
    OffsetsNeverHelp
    AirborneApart
