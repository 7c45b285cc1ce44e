CONSTANTS
    NUM_BLOCKS = 5
    SYSMEM_ENTRY = 100
    First <- Firsts
    Size <- Sizes
    Requests = {8}
    Junk = {101}
    Client = {p, q, r}
SPECIFICATION Spec
INVARIANTS
    FromTheTable
