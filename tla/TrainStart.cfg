CONSTANTS
    ExpressWaits = TRUE
    ExpressLag = 1
    LocalLag = 1
    MaxGap = 4
SPECIFICATION Spec
INVARIANTS
    KnowsBoth
