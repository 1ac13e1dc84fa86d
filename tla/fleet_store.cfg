SPECIFICATION FleetSpec
CONSTANTS
    DeliveryKey = {k1}
    FlightKey = {k2}
    MaxDay = 1
    MaxCount = 1
    Caller = {c1, c2}
    TTL = 1
    Slow = 1
    MaxEdits = 1
    Empty = {1}
    NoVersion = NoVersion
SYMMETRY Symmetry
INVARIANTS
    CountersTypeOK
    OnlyToday
    LocationsFresh
PROPERTY KeptToday
