SPECIFICATION FairSpec
CONSTANTS
    Order = {o1, o2}
    Drone = {d1, d2}
    Block <- MCBlock
    Key <- MCKey
    KeyOf <- MCKeyOf
    BlockOf <- MCBlockOf
    None = None
    LeaseCanExpire = TRUE
    PromptRetries = TRUE
    LinkCanDrop = FALSE
    PadsContended = FALSE
    MaxOrphans = 1
    MaxRestarts = 0
PROPERTIES
    ReserveLoopEnds
    LeaksHeal
