SPECIFICATION Spec
CONSTANTS
    Drone = {d1, d2}
    Request = {q1}
    Cooldown = 2
    ShortRest = 2
    LongRest = 3
    Profile <- MCProfile
    Unknown = Unknown
    None = None
SYMMETRY Symmetry
INVARIANTS
    TypeOK
    CooldownKept
    CooldownEnds
    NotDominated
