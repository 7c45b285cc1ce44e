SPECIFICATION FairSpec
CONSTANTS
    Programs <- MCPrograms
    Num <- MCNum
    Setups <- MCSetups
    Expected <- MCExpected
    max_data = 4
    AtEnd = {0, 7}
    MaxClock = 200
INVARIANTS TypeOK PassesAgree Computes
PROPERTIES LoadsImage Reaches Restores Terminates
CHECK_DEADLOCK FALSE
