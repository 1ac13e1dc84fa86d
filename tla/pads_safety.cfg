SPECIFICATION Spec
CONSTANTS
    Drone = {d1, d2}
    None = None
    Handler = {h1}
    PadCount = 2
    HoldCanExpire = TRUE
    CallsFail = TRUE
    MayRelease = TRUE
    MaxRestarts = 0
SYMMETRY Symmetry
INVARIANTS
    TypeOK
    PadBacked
