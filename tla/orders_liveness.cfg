SPECIFICATION FairSpec
CONSTANTS
    Order = {o1}
    Page = {p1}
    Mission = {m1}
    Drone = {d1}
    None = None
    NoName = NoName
    Start = "READY_FOR_PICKUP"
    Attempts = 2
    CallsFail = TRUE
    MayCancel = TRUE
    MayClaim = FALSE
    MaxClicks = 1
    MaxCalls = 2
    MaxStops = 1
CHECK_DEADLOCK FALSE
PROPERTIES
    DeliveryReported
