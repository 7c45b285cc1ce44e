SPECIFICATION Spec
CONSTANTS
    Programs <- OnlyTestDADD
    Num <- MCNum
    Setups <- MCSetups
    Expected <- MCExpected
    max_data = 4
    AtEnd = {0, 7}
    MaxClock = 200
PROPERTIES FaultStops
CHECK_DEADLOCK FALSE
