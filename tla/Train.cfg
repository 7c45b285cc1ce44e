CONSTANTS
    ExpressWaits = TRUE
    ExpressLag = 1
    LocalLag = 1
    MaxGap = 4
SPECIFICATION FairSpec
INVARIANTS
    TypeOK
    NoCollision
    OneBlocked
    Attributed
    Tracked
    KnowsLater
    SwitchesSet
PROPERTIES
    Resumes
