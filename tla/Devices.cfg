SPECIFICATION Spec
CONSTANTS
    Programs <- OnlyTestDev
    Num <- MCNum
    Setups <- MCSetups
    Expected <- MCExpected
    max_data = 4
    AtEnd = {0, 7}
    MaxClock = 200
PROPERTIES NoneLost
CHECK_DEADLOCK FALSE
