CONSTANTS
    Train = {express, local}
    Sensor = {}
    EMPTY_ARG = EMPTY_ARG
    Junk = {}
    MaxCommands = 2
    MaxUnread = 2
    MaxErrors = 1
SPECIFICATION FairSpec
PROPERTIES
    Repaired
