SPECIFICATION Spec
CONSTANTS
    Drone = {d1, d2}
    Handler = {h1, h2}
    MaxPermits = 1
    MaxFree = 1
    Real = {1, 2, 3}
    Stub = {11}
    None = None
SYMMETRY Symmetry
INVARIANTS
    TypeOK
    NoPermitLost
    NoOrphan
PROPERTIES
    PermitsShared
