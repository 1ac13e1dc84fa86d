SPECIFICATION Spec
CONSTANTS
    Order = {o1, o2}
    Drone = {d1, d2}
    Block <- MCBlock
    Key <- MCKey
    KeyOf <- MCKeyOf
    BlockOf <- MCBlockOf
    None = None
    LeaseCanExpire = TRUE
    PromptRetries = FALSE
    LinkCanDrop = TRUE
    PadsContended = TRUE
    MaxOrphans = 1
    MaxRestarts = 1
SYMMETRY Symmetry
INVARIANTS
    TypeOK
    ClearanceBacked
    ZoneExclusive
PROPERTY LeasesSpec
