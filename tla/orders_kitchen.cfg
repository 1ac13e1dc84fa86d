SPECIFICATION Spec
CONSTANTS
    Order = {o1}
    Page = {p1}
    Mission = {m1}
    Drone = {d1, d2}
    None = None
    NoName = NoName
    Start = "CREATED"
    Attempts = 2
    CallsFail = TRUE
    MayCancel = TRUE
    MayClaim = TRUE
    MaxClicks = 3
    MaxCalls = 2
    MaxStops = 1
SYMMETRY Symmetry
CHECK_DEADLOCK FALSE
INVARIANTS
    TypeOK
    OneClaim
    LaunchedWasReady
    DeliveryKept
    DeliveredIsTrue
