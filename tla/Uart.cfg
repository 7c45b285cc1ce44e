CONSTANTS
    UART_QUEUE_SZ = 4
    Char = {x, y}
    NUL = NUL
    Strings <- Texts
    x = x
    y = y
SPECIFICATION FairSpec
INVARIANTS
    TypeOK
    NoStall
PROPERTIES
    NoOverwrite
    Prints
