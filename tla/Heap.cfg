CONSTANTS
    NUM_BLOCKS = 5
    SYSMEM_ENTRY = 100
    First <- Firsts
    Size <- Sizes
    Requests = {0, 1, 2, 3, 5, 8, 9}
    Junk <- NoJunk
    Client = {p, q, r, s, t, u}
SYMMETRY Owners
SPECIFICATION Spec
INVARIANTS
    TypeOK
    Disjoint
    Accounted
