SPECIFICATION Spec
CONSTANTS
    Drone = {d1, d2}
    None = None
    Handler = {h1, h2}
    PadCount = 2
    HoldCanExpire = FALSE
    CallsFail = FALSE
    MayRelease = FALSE
    MaxRestarts = 1
SYMMETRY Symmetry
INVARIANTS
    PadsKept
