CONSTANTS
    Train = {express, local}
    Sensor = {s1, s2}
    EMPTY_ARG = EMPTY_ARG
    Junk = {junk}
    MaxCommands = 2
    MaxUnread = 2
    MaxErrors = 1
SPECIFICATION FairSpec
INVARIANTS
    TypeOK
    NoneDropped
    InOrder
PROPERTIES
    NeverReverts
    Reports
    Settles
