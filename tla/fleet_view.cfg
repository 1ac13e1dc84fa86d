SPECIFICATION FairSpec
CONSTANTS
    Drone = {d1}
    Conn = {c1, c2}
    Frontend = {f1}
    Stale = 0
    MaxVersion = 1
    Capacity = 2
    MaxDrops = 1
    None = None
INVARIANT TypeOK
PROPERTIES
    NeverOlder
    ViewCatchesUp
    GhostsFade
