SPECIFICATION Spec
CONSTANTS
    Attempts = 2
INVARIANTS
    TypeOK
    AbandonedComesBack
    ParcelTrue
PROPERTY IdleIsDown
